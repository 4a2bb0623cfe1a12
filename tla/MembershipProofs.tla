-------------------------- MODULE MembershipProofs --------------------------
(***************************************************************************)
(* remoteNodes names no dead connection and no sync message is filtered    *)
(* away, for any set of nodes, any number of connections and any number of *)
(* faults.                                                                 *)
(***************************************************************************)
EXTENDS Membership, FiniteSetTheorems, WellFoundedInduction, TLAPS

(* Most leaves are first-order and left to Zenon; those that are not say SMT. *)
USE Zenon

Fields == {"owner", "addr", "id", "state", "up", "reconnect", "sync", "verify",
           "ping", "step", "asking", "inbox"}

(* What the proof needs of an inbox is the set of messages in it. *)
IsSeq(s) == \E S : s \in Seq(S)
Elems(s) == {s[k] : k \in DOMAIN s}

Shape == /\ DOMAIN ends = End
         /\ \A e \in End : DOMAIN ends[e] = Fields /\ IsSeq(ends[e].inbox)

(* An object whose connection was made. *)
Alive(r) == r.state \notin {"gone", "connecting"}

(* Some message of code x waits in the inbox of r. *)
Waits(r, x) == \E m \in Elems(r.inbox) : m.code = x

(* One object r, seen with o, the object of the other end. *)
PairInv(r, o) ==
    /\ ~Alive(r) => ~r.up /\ ~r.asking /\ r.inbox = <<>> /\ r.step = "idle"
    /\ r.state = "connecting" => o.state = "gone"
    /\ Alive(r) /\ Alive(o) => o.owner = r.addr
    /\ \A m \in Elems(r.inbox) : m.code = "VERIFY" => m.from = r.addr
    /\ r.step = "adding" => r.id = r.addr
    /\ r.state = "handshake" =>
          /\ ~Waits(r, "SYNCREQ") /\ ~Waits(r, "SYNCRSP")
          /\ ~Waits(o, "SYNCREQ") /\ ~Waits(o, "VERIFYOK") /\ ~o.asking

EndsInv == Shape /\ \A e \in End : PairInv(ends[e], ends[Other(e)])

(* The entry is an end of this node, verified as the node it dials. *)
RegInv ==
    /\ remoteNodes \in [Node -> [Id -> End \cup {NoEnd}]]
    /\ \A n \in Node, i \in Id :
          LET e == remoteNodes[n][i] IN
          e # NoEnd => /\ ends[e].owner = n /\ ends[e].id = i /\ ends[e].addr = i
                       /\ Alive(ends[e])

IInv == EndsInv /\ RegInv

-----------------------------------------------------------------------------
(* Inboxes. *)
LEMMA JoinElems ==
    ASSUME NEW s, NEW t, IsSeq(s), IsSeq(t)
    PROVE  IsSeq(s \o t) /\ Elems(s \o t) \subseteq Elems(s) \cup Elems(t)
<1>1. PICK S : s \in Seq(S)   BY DEF IsSeq
<1>2. PICK T : t \in Seq(T)   BY DEF IsSeq
<1>3. s \in Seq(S \cup T) /\ t \in Seq(S \cup T)
  BY <1>1, <1>2, SMT
<1>4. s \o t \in Seq(S \cup T)
  BY <1>3, SMT
<1>5. ASSUME NEW k \in DOMAIN (s \o t)
      PROVE  (s \o t)[k] \in Elems(s) \cup Elems(t)
  <2>1. k \in 1 .. Len(s) + Len(t)
    BY <1>3, <1>4, <1>5, SMT
  <2>2. CASE k <= Len(s)
    BY <1>3, <2>1, <2>2, SMT DEF Elems
  <2>3. CASE k > Len(s)
    <3>1. (s \o t)[k] = t[k - Len(s)] /\ k - Len(s) \in DOMAIN t
      BY <1>3, <2>1, <2>3, SMT
    <3> QED BY <3>1 DEF Elems
  <2> QED BY <1>3, <2>1, <2>2, <2>3, SMT
<1>6. Elems(s \o t) \subseteq Elems(s) \cup Elems(t)
  BY <1>5 DEF Elems
<1> QED BY <1>4, <1>6 DEF IsSeq

LEMMA OneElem == ASSUME NEW m PROVE IsSeq(<<m>>) /\ Elems(<<m>>) = {m}
<1>1. <<m>> \in Seq({m})   BY SMT
<1>2. DOMAIN <<m>> = {1} /\ <<m>>[1] = m   BY SMT
<1>3. Elems(<<m>>) = {m}
  BY <1>2 DEF Elems
<1> QED BY <1>1, <1>3 DEF IsSeq

LEMMA NoElem == IsSeq(<<>>) /\ Elems(<<>>) = {}
<1>1. <<>> \in Seq({})   BY SMT
<1> QED BY <1>1, SMT DEF IsSeq, Elems

LEMMA TailElems ==
    ASSUME NEW s, IsSeq(s), s # <<>>
    PROVE  IsSeq(Tail(s)) /\ Elems(Tail(s)) \subseteq Elems(s) /\ Head(s) \in Elems(s)
<1>1. PICK S : s \in Seq(S)   BY DEF IsSeq
<1>2. Tail(s) \in Seq(S)
  BY <1>1, SMT
<1>3. ASSUME NEW k \in DOMAIN Tail(s) PROVE Tail(s)[k] \in Elems(s)
  <2>1. Tail(s)[k] = s[k + 1] /\ k + 1 \in DOMAIN s
    BY <1>1, <1>3, SMT
  <2> QED BY <2>1 DEF Elems
<1>4. Head(s) = s[1] /\ 1 \in DOMAIN s
  BY <1>1, SMT
<1> QED BY <1>2, <1>3, <1>4 DEF IsSeq, Elems

LEMMA RemoveElems ==
    ASSUME NEW s, IsSeq(s), NEW k \in DOMAIN s
    PROVE  /\ IsSeq(Without(s, k))
           /\ Elems(Without(s, k)) \subseteq Elems(s)
<1>1. PICK S : s \in Seq(S)   BY DEF IsSeq
<1>2. k \in 1 .. Len(s)
  BY <1>1, SMT
<1> DEFINE u == SubSeq(s, 1, k - 1)
           v == SubSeq(s, k + 1, Len(s))
<1>3. u \in Seq(S) /\ v \in Seq(S)
  BY <1>1, <1>2, SMT
<1>4. Elems(u) \subseteq Elems(s)
  <2>1. ASSUME NEW j \in DOMAIN u PROVE u[j] = s[j] /\ j \in DOMAIN s
    BY <1>1, <1>2, <2>1, SMT
  <2> QED BY <2>1 DEF Elems
<1>5. Elems(v) \subseteq Elems(s)
  <2>1. ASSUME NEW j \in DOMAIN v PROVE v[j] = s[k + j] /\ k + j \in DOMAIN s
    BY <1>1, <1>2, <2>1, SMT
  <2> QED BY <2>1 DEF Elems
<1>6. IsSeq(u) /\ IsSeq(v)
  BY <1>3 DEF IsSeq
<1>7. Without(s, k) = u \o v
  BY DEF Without
<1> HIDE DEF u, v
<1> QED BY <1>4, <1>5, <1>6, <1>7, JoinElems

-----------------------------------------------------------------------------
(* The two ends of a connection. *)
LEMMA OtherEnd ==
    ASSUME NEW e \in End
    PROVE  Other(e) \in End /\ Other(e) # e /\ Other(Other(e)) = e
BY SMT DEF End, Other

(* The object of e becomes r, and the other end receives some of M. *)
Moves(e, r, M) ==
    LET o == Other(e) IN
    /\ Shape'
    /\ ends'[e] = r
    /\ \A f \in End : f # e /\ f # o => ends'[f] = ends[f]
    /\ \A x \in Fields : x # "inbox" => ends'[o][x] = ends[o][x]
    /\ ~(r.up /\ ends[o].up) => ends'[o].inbox = ends[o].inbox
    /\ Elems(ends'[o].inbox) \subseteq Elems(ends[o].inbox) \cup M

LEMMA MovesAlone ==
    ASSUME Shape, NEW e \in End, NEW r, DOMAIN r = Fields, IsSeq(r.inbox),
           ends' = [ends EXCEPT ![e] = r]
    PROVE  Moves(e, r, {})
<1>1. DOMAIN ends' = End /\ ends'[e] = r /\ \A f \in End : f # e => ends'[f] = ends[f]
  BY DEF Shape
<1>2. Shape'
  BY <1>1 DEF Shape
<1> QED BY <1>1, <1>2, OtherEnd DEF Moves

LEMMA MovesSending ==
    ASSUME Shape, NEW e \in End, NEW r, DOMAIN r = Fields, IsSeq(r.inbox),
           NEW msgs, IsSeq(msgs), Sends(e, r, msgs)
    PROVE  Moves(e, r, Elems(msgs))
<1> DEFINE o == Other(e)
           q == ends[o]
           box == IF r.up /\ q.up THEN q.inbox \o msgs ELSE q.inbox
           q1 == [q EXCEPT !.inbox = box]
<1>1. o \in End /\ o # e
  BY OtherEnd
<1>2. DOMAIN q = Fields /\ IsSeq(q.inbox)
  BY <1>1 DEF Shape
<1>3. IsSeq(box) /\ Elems(box) \subseteq Elems(q.inbox) \cup Elems(msgs)
  BY <1>2, JoinElems
<1>4. /\ DOMAIN q1 = Fields /\ q1.inbox = box
      /\ \A x \in Fields : x # "inbox" => q1[x] = q[x]
  BY <1>2 DEF Fields
<1>5. ends' = [[ends EXCEPT ![e] = r] EXCEPT ![o] = q1]
  BY <1>1 DEF Sends, Running, Shape
<1>6. /\ DOMAIN ends' = End /\ ends'[e] = r /\ ends'[o] = q1
      /\ \A f \in End : f # e /\ f # o => ends'[f] = ends[f]
  BY <1>1, <1>5 DEF Shape
<1>7. ~(r.up /\ q.up) => q1.inbox = q.inbox
  BY <1>4
<1> HIDE DEF q1, box
<1>8. Shape'
  BY <1>3, <1>4, <1>6 DEF Shape
<1> QED BY <1>3, <1>4, <1>6, <1>7, <1>8 DEF Moves

(* What a step may make of an object q whose connection was made, and what *)
(* it may send.                                                            *)
Allowed(q, r, M) ==
    /\ Alive(q) /\ Alive(r)
    /\ r.owner = q.owner /\ r.addr = q.addr
    /\ r.id \in {q.id, q.addr}
    /\ r.step = "adding" => r.id = r.addr
    /\ r.state = "handshake" => q.state = "handshake"
    /\ Elems(r.inbox) \subseteq Elems(q.inbox)
    /\ r.asking => q.asking \/ Waits(q, "VERIFYOK")
    /\ \A m \in M :
          /\ m.code = "VERIFY" => m.from = q.owner
          /\ m.code = "VERIFYOK" => r.state # "handshake"
          /\ m.code = "SYNCREQ" => q.asking /\ r.state # "handshake"
          /\ m.code = "SYNCRSP" => Waits(q, "SYNCREQ")

LEMMA MoveKeepsEnds ==
    ASSUME EndsInv, NEW e \in End, NEW r, NEW M, Moves(e, r, M), Allowed(ends[e], r, M)
    PROVE  EndsInv'
<1> DEFINE o  == Other(e)
           q  == ends[e]
           p  == ends[o]
           p1 == ends'[o]
<1>1. o \in End /\ o # e /\ Other(o) = e
  BY OtherEnd
<1>2. PairInv(q, p) /\ PairInv(p, q)
  BY <1>1 DEF EndsInv
<1>3. /\ p1.owner = p.owner /\ p1.addr = p.addr /\ p1.id = p.id /\ p1.state = p.state
      /\ p1.up = p.up /\ p1.step = p.step /\ p1.asking = p.asking
  BY DEF Moves, Fields
<1>4. /\ Elems(p1.inbox) \subseteq Elems(p.inbox) \cup M
      /\ ~(r.up /\ p.up) => p1.inbox = p.inbox
  BY DEF Moves
<1>5. Alive(p1) <=> Alive(p)
  BY <1>3 DEF Alive
<1> HIDE DEF q, p, p1
<1>6. Allowed(q, r, M)
  BY DEF q
<1>7. PairInv(r, p1)
  <2>1. Alive(r) /\ (Alive(p1) => p1.owner = r.addr)
    BY <1>2, <1>3, <1>5, <1>6 DEF PairInv, Allowed
  <2>2. r.state # "connecting"
    BY <2>1 DEF Alive
  <2>3. \A m \in Elems(r.inbox) : m.code = "VERIFY" => m.from = r.addr
    BY <1>2, <1>6 DEF PairInv, Allowed
  <2>4. r.step = "adding" => r.id = r.addr
    BY <1>6 DEF Allowed
  <2>5. ASSUME r.state = "handshake"
        PROVE  /\ ~Waits(r, "SYNCREQ") /\ ~Waits(r, "SYNCRSP")
               /\ ~Waits(p1, "SYNCREQ") /\ ~Waits(p1, "VERIFYOK") /\ ~p1.asking
    <3>1. /\ ~Waits(q, "SYNCREQ") /\ ~Waits(q, "SYNCRSP")
          /\ ~Waits(p, "SYNCREQ") /\ ~Waits(p, "VERIFYOK") /\ ~p.asking
      BY <1>2, <1>6, <2>5 DEF PairInv, Allowed
    <3>2. ~Waits(r, "SYNCREQ") /\ ~Waits(r, "SYNCRSP")
      BY <1>6, <3>1 DEF Allowed, Waits
    <3>3. \A m \in M : m.code # "SYNCREQ" /\ m.code # "VERIFYOK"
      BY <1>6, <2>5 DEF Allowed
    <3>4. ~Waits(p1, "SYNCREQ") /\ ~Waits(p1, "VERIFYOK")
      BY <1>4, <3>1, <3>3 DEF Waits
    <3> QED BY <1>3, <3>1, <3>2, <3>4
  <2> QED BY <2>1, <2>2, <2>3, <2>4, <2>5 DEF PairInv
<1>8. PairInv(p1, r)
  <2>1. ~Alive(p1) => ~p1.up /\ ~p1.asking /\ p1.inbox = <<>> /\ p1.step = "idle"
    BY <1>2, <1>3, <1>4, <1>5 DEF PairInv
  <2>2. p1.state # "connecting"
    BY <1>2, <1>3, <1>6 DEF PairInv, Allowed, Alive
  <2>3. Alive(p1) => r.owner = p1.addr
    BY <1>2, <1>3, <1>5, <1>6 DEF PairInv, Allowed
  <2>4. ASSUME NEW m \in Elems(p1.inbox), m.code = "VERIFY"
        PROVE  m.from = p1.addr
    <3>1. CASE m \in Elems(p.inbox)
      BY <1>2, <1>3, <2>4, <3>1 DEF PairInv
    <3>2. CASE m \notin Elems(p.inbox)
      <4>1. m \in M /\ p.up
        BY <1>4, <2>4, <3>2
      <4>2. Alive(p1)
        BY <1>2, <1>5, <4>1 DEF PairInv
      <4> QED BY <1>6, <2>3, <2>4, <4>1, <4>2 DEF Allowed
    <3> QED BY <3>1, <3>2
  <2>5. p1.step = "adding" => p1.id = p1.addr
    BY <1>2, <1>3 DEF PairInv
  <2>6. ASSUME p1.state = "handshake"
        PROVE  /\ ~Waits(p1, "SYNCREQ") /\ ~Waits(p1, "SYNCRSP")
               /\ ~Waits(r, "SYNCREQ") /\ ~Waits(r, "VERIFYOK") /\ ~r.asking
    <3>1. /\ ~Waits(p, "SYNCREQ") /\ ~Waits(p, "SYNCRSP")
          /\ ~Waits(q, "SYNCREQ") /\ ~Waits(q, "VERIFYOK") /\ ~q.asking
      BY <1>2, <1>3, <2>6 DEF PairInv
    <3>2. ~Waits(r, "SYNCREQ") /\ ~Waits(r, "VERIFYOK") /\ ~r.asking
      BY <1>6, <3>1 DEF Allowed, Waits
    <3>3. \A m \in M : m.code # "SYNCREQ" /\ m.code # "SYNCRSP"
      BY <1>6, <3>1 DEF Allowed
    <3>4. ~Waits(p1, "SYNCREQ") /\ ~Waits(p1, "SYNCRSP")
      BY <1>4, <3>1, <3>3 DEF Waits
    <3> QED BY <3>2, <3>4
  <2> QED BY <2>1, <2>2, <2>3, <2>4, <2>5, <2>6 DEF PairInv
<1>9. ASSUME NEW f \in End PROVE PairInv(ends'[f], ends'[Other(f)])
  <2>1. ends'[e] = r /\ \A x \in End : x # e /\ x # o => ends'[x] = ends[x]
    BY DEF Moves
  <2>2. CASE f = e
    BY <1>7, <2>1, <2>2 DEF p1
  <2>3. CASE f = o
    BY <1>1, <1>8, <2>1, <2>3 DEF p1
  <2>4. CASE f # e /\ f # o
    <3>1. Other(f) \in End /\ Other(f) # e /\ Other(f) # o
      BY <1>1, <2>4, OtherEnd
    <3>2. PairInv(ends[f], ends[Other(f)])
      BY DEF EndsInv
    <3>3. ends'[f] = ends[f] /\ ends'[Other(f)] = ends[Other(f)]
      BY <2>1, <2>4, <3>1
    <3> QED BY <3>2, <3>3
  <2> QED BY <2>2, <2>3, <2>4
<1> QED BY <1>9 DEF EndsInv, Moves

LEMMA MoveKeepsReg ==
    ASSUME RegInv, NEW e \in End, NEW r, NEW M, Moves(e, r, M), Allowed(ends[e], r, M),
           remoteNodes' = remoteNodes
    PROVE  RegInv'
<1> SUFFICES ASSUME NEW n \in Node, NEW i \in Id, remoteNodes[n][i] # NoEnd
             PROVE  LET f == remoteNodes[n][i] IN
                    /\ ends'[f].owner = n /\ ends'[f].id = i /\ ends'[f].addr = i
                    /\ Alive(ends'[f])
  BY SMT DEF RegInv, Alive
<1> DEFINE f == remoteNodes[n][i]
<1>1. /\ f \in End /\ ends[f].owner = n /\ ends[f].id = i /\ ends[f].addr = i
      /\ Alive(ends[f])
  BY SMT DEF RegInv
<1> HIDE DEF f
<1>2. CASE f = e
  BY <1>1, <1>2 DEF Moves, Allowed, f
<1>3. CASE f = Other(e)
  BY <1>1, <1>3 DEF Moves, Fields, Alive, f
<1>4. CASE f # e /\ f # Other(e)
  BY <1>1, <1>4 DEF Moves, f
<1> QED BY <1>2, <1>3, <1>4

LEMMA MoveKeeps ==
    ASSUME IInv, NEW e \in End, NEW r, NEW M, Moves(e, r, M), Allowed(ends[e], r, M),
           remoteNodes' = remoteNodes
    PROVE  IInv'
BY MoveKeepsEnds, MoveKeepsReg DEF IInv

LEMMA EndFacts ==
    ASSUME IInv, NEW e \in End
    PROVE  LET q == ends[e] IN
           /\ Shape /\ DOMAIN q = Fields /\ IsSeq(q.inbox)
           /\ q.up \/ q.asking \/ q.step # "idle" \/ q.inbox # <<>> => Alive(q)
           /\ q.step = "adding" => q.id = q.addr
           /\ \A m \in Elems(q.inbox) : m.code = "VERIFY" => m.from = q.addr
<1>1. Shape /\ PairInv(ends[e], ends[Other(e)])
  BY DEF IInv, EndsInv
<1> QED BY <1>1 DEF Shape, PairInv

(* The handler takes a message. *)
LEMMA TookFacts ==
    ASSUME IInv, NEW e \in End, NEW x, Arrived(e, x)
    PROVE  LET q == ends[e]
               r == Took(e)
           IN  /\ DOMAIN r = Fields /\ IsSeq(r.inbox)
               /\ Elems(r.inbox) \subseteq Elems(q.inbox)
               /\ r.owner = q.owner /\ r.addr = q.addr /\ r.id = q.id
               /\ r.state = q.state /\ r.step = "idle" /\ r.asking = q.asking
               /\ Alive(q) /\ Alive(r) /\ Waits(q, x)
               /\ Head(q.inbox) \in Elems(q.inbox) /\ Head(q.inbox).code = x
<1> DEFINE q == ends[e]
           r == Took(e)
<1>1. q.step = "idle" /\ q.inbox # <<>> /\ Head(q.inbox).code = x
  BY DEF Arrived
<1>2. DOMAIN q = Fields /\ IsSeq(q.inbox) /\ Alive(q)
  BY <1>1, EndFacts
<1>3. /\ IsSeq(Tail(q.inbox)) /\ Elems(Tail(q.inbox)) \subseteq Elems(q.inbox)
      /\ Head(q.inbox) \in Elems(q.inbox)
  BY <1>1, <1>2, TailElems
<1>4. /\ DOMAIN r = Fields /\ r.inbox = Tail(q.inbox)
      /\ r.owner = q.owner /\ r.addr = q.addr /\ r.id = q.id
      /\ r.state = q.state /\ r.step = q.step /\ r.asking = q.asking
  BY <1>2 DEF Took, Fields
<1>5. Alive(r)
  BY <1>2, <1>4 DEF Alive
<1>6. Waits(q, x)
  BY <1>1, <1>3 DEF Waits
<1> QED BY <1>1, <1>2, <1>3, <1>4, <1>5, <1>6

(* Taking a message and answering with m, if that is not of the handshake. *)
LEMMA TookAllowed ==
    ASSUME IInv, NEW e \in End, NEW x, Arrived(e, x), NEW M,
           \A m \in M : \/ m.code = "PONG"
                        \/ m.code = "SYNCRSP" /\ x = "SYNCREQ"
    PROVE  Allowed(ends[e], Took(e), M)
BY TookFacts DEF Allowed

-----------------------------------------------------------------------------
(* The steps of an end whose connection was made. *)
LEMMA SendKeeps ==
    ASSUME IInv, NEW e \in End, sendVerify(e) \/ firstPing(e) \/ askSync(e)
    PROVE  IInv'
<1> DEFINE q == ends[e]
<1>1. Shape /\ DOMAIN q = Fields /\ IsSeq(q.inbox) /\ (q.step = "adding" => q.id = q.addr)
  BY EndFacts
<1>2. Alive(q)
  BY EndFacts DEF sendVerify, firstPing, askSync, Running
<1>3. remoteNodes' = remoteNodes
  BY DEF sendVerify, firstPing, askSync
<1>4. ASSUME NEW r, DOMAIN r = Fields, NEW m, Sends(e, r, <<m>>), Allowed(q, r, {m}),
             r.inbox = q.inbox
      PROVE  IInv'
  <2>1. Moves(e, r, {m})
    BY <1>1, <1>4, OneElem, MovesSending, SMT
  <2> QED BY <1>3, <1>4, <2>1, MoveKeeps
<1>5. CASE sendVerify(e)
  <2> DEFINE r == [q EXCEPT !.verify = FALSE]
             m == [code |-> "VERIFY", from |-> q.owner]
  <2>1. /\ DOMAIN r = Fields /\ r.inbox = q.inbox
        /\ r.owner = q.owner /\ r.addr = q.addr /\ r.id = q.id
        /\ r.state = q.state /\ r.step = q.step /\ r.asking = q.asking
    BY <1>1 DEF Fields
  <2>2. m.code = "VERIFY" /\ m.from = q.owner
    OBVIOUS
  <2>3. Sends(e, r, <<m>>)
    BY <1>5 DEF sendVerify
  <2> HIDE DEF q, r, m
  <2>4. Allowed(q, r, {m})
    BY <1>1, <1>2, <2>1, <2>2 DEF Allowed, Alive
  <2> QED BY <1>4, <2>1, <2>3, <2>4
<1>6. CASE firstPing(e)
  <2> DEFINE r == [q EXCEPT !.ping = FALSE]
             m == [code |-> "PING"]
  <2>1. /\ DOMAIN r = Fields /\ r.inbox = q.inbox
        /\ r.owner = q.owner /\ r.addr = q.addr /\ r.id = q.id
        /\ r.state = q.state /\ r.step = q.step /\ r.asking = q.asking
    BY <1>1 DEF Fields
  <2>2. m.code = "PING"
    OBVIOUS
  <2>3. Sends(e, r, <<m>>)
    BY <1>6 DEF firstPing
  <2> HIDE DEF q, r, m
  <2>4. Allowed(q, r, {m})
    BY <1>1, <1>2, <2>1, <2>2 DEF Allowed, Alive
  <2> QED BY <1>4, <2>1, <2>3, <2>4
<1>7. CASE askSync(e)
  <2> DEFINE r == [q EXCEPT !.asking = FALSE]
             m == [code |-> "SYNCREQ", from |-> q.owner]
  <2>1. /\ DOMAIN r = Fields /\ r.inbox = q.inbox
        /\ r.owner = q.owner /\ r.addr = q.addr /\ r.id = q.id
        /\ r.state = q.state /\ r.step = q.step /\ ~r.asking
    BY <1>1 DEF Fields
  <2>2. m.code = "SYNCREQ" /\ q.asking /\ q.state # "handshake"
    BY <1>7 DEF askSync, outOfHandshake
  <2>3. Sends(e, r, <<m>>)
    BY <1>7 DEF askSync
  <2> HIDE DEF q, r, m
  <2>4. Allowed(q, r, {m})
    BY <1>1, <1>2, <2>1, <2>2 DEF Allowed, Alive
  <2> QED BY <1>4, <2>1, <2>3, <2>4
<1> QED BY <1>5, <1>6, <1>7

(* The handlers that answer, and those that only take the message. *)
LEMMA HandlerKeeps ==
    ASSUME IInv, NEW e \in End,
           handlePing(e) \/ handlePong(e) \/ handleSyncRequest(e) \/ handleSyncResponse(e)
    PROVE  IInv'
<1>1. Shape /\ remoteNodes' = remoteNodes
  BY EndFacts DEF handlePing, handlePong, handleSyncRequest, handleSyncResponse
<1>2. ASSUME NEW x, Arrived(e, x), NEW msgs, IsSeq(msgs), Sends(e, Took(e), msgs),
             \A m \in Elems(msgs) : \/ m.code = "PONG"
                                    \/ m.code = "SYNCRSP" /\ x = "SYNCREQ"
      PROVE  IInv'
  <2>1. Moves(e, Took(e), Elems(msgs))
    BY <1>1, <1>2, TookFacts, MovesSending
  <2>2. Allowed(ends[e], Took(e), Elems(msgs))
    BY <1>2, TookAllowed
  <2> QED BY <1>1, <2>1, <2>2, MoveKeeps
<1>3. ASSUME NEW x, Arrived(e, x), ends' = [ends EXCEPT ![e] = Took(e)]
      PROVE  IInv'
  <2>1. Moves(e, Took(e), {})
    BY <1>1, <1>3, TookFacts, MovesAlone
  <2>2. Allowed(ends[e], Took(e), {})
    BY <1>3, TookAllowed
  <2> QED BY <1>1, <2>1, <2>2, MoveKeeps
<1>4. CASE handlePing(e)
  <2> DEFINE m == [code |-> "PONG"]
  <2>1. Arrived(e, "PING") /\ Sends(e, Took(e), <<m>>)
    BY <1>4 DEF handlePing
  <2>2. m.code = "PONG"
    OBVIOUS
  <2> HIDE DEF m
  <2> QED BY <1>2, <2>1, <2>2, OneElem
<1>5. CASE handlePong(e)
  BY <1>3, <1>5 DEF handlePong
<1>6. CASE handleSyncRequest(e)
  <2>1. PICK l : Sends(e, Took(e), IF l = <<>> THEN <<>>
                                   ELSE <<[code |-> "SYNCRSP", list |-> l]>>)
    BY <1>6 DEF handleSyncRequest
  <2>2. Arrived(e, "SYNCREQ")
    BY <1>6 DEF handleSyncRequest
  <2> DEFINE m == [code |-> "SYNCRSP", list |-> l]
  <2>3. m.code = "SYNCRSP"
    OBVIOUS
  <2> HIDE DEF m
  <2>4. CASE l = <<>>
    <3>1. Sends(e, Took(e), <<>>)
      BY <2>1, <2>4
    <3> QED BY <1>2, <2>2, <3>1, NoElem
  <2>5. CASE l # <<>>
    <3>1. Sends(e, Took(e), <<m>>)
      BY <2>1, <2>5 DEF m
    <3> QED BY <1>2, <2>2, <2>3, <3>1, OneElem
  <2> QED BY <2>4, <2>5
<1>7. CASE handleSyncResponse(e)
  BY <1>3, <1>7 DEF handleSyncResponse
<1> QED BY <1>4, <1>5, <1>6, <1>7

(* handleVerify up to Contains, and handleVerifyOK. *)
LEMMA HandshakeKeeps ==
    ASSUME IInv, NEW e \in End, handleVerify(e) \/ handleVerifyOK(e)
    PROVE  IInv'
<1> DEFINE q == ends[e]
           t == Took(e)
<1>1. Shape /\ remoteNodes' = remoteNodes
  BY EndFacts DEF handleVerify, handleVerifyOK
<1>2. ASSUME NEW r, DOMAIN r = Fields, IsSeq(r.inbox), ends' = [ends EXCEPT ![e] = r],
             Allowed(q, r, {})
      PROVE  IInv'
  <2>1. Moves(e, r, {})
    BY <1>1, <1>2, MovesAlone
  <2> QED BY <1>1, <1>2, <2>1, MoveKeeps
<1>3. CASE handleVerify(e)
  <2> DEFINE i == Head(q.inbox).from
             closed == Closed([t EXCEPT !.id = i])
             adding == [t EXCEPT !.id = i, !.step = "adding"]
  <2>1. Arrived(e, "VERIFY")
    BY <1>3 DEF handleVerify
  <2>2. ends' = [ends EXCEPT ![e] = closed] \/ ends' = [ends EXCEPT ![e] = adding]
    BY <1>3 DEF handleVerify
  <2>3. /\ DOMAIN t = Fields /\ IsSeq(t.inbox) /\ Elems(t.inbox) \subseteq Elems(q.inbox)
        /\ t.owner = q.owner /\ t.addr = q.addr /\ t.state = q.state
        /\ t.asking = q.asking /\ Alive(q) /\ t.step = "idle"
    BY <2>1, TookFacts
  <2>4. i = q.addr
    BY <2>1, TookFacts, EndFacts, SMT
  <2> HIDE DEF t, i
  <2>5. /\ DOMAIN adding = Fields /\ adding.inbox = t.inbox /\ adding.id = i
        /\ adding.owner = t.owner /\ adding.addr = t.addr /\ adding.state = t.state
        /\ adding.asking = t.asking
    BY <2>3 DEF Fields
  <2>6. /\ DOMAIN closed = Fields /\ closed.inbox = <<>> /\ closed.id = i
        /\ closed.owner = t.owner /\ closed.addr = t.addr /\ closed.step = t.step
        /\ closed.state = "disconnected" /\ ~closed.asking
    BY <2>3 DEF Fields, Closed
  <2> HIDE DEF closed, adding, q
  <2>7. Allowed(q, adding, {})
    BY <2>3, <2>4, <2>5 DEF Allowed, Alive
  <2>8. Allowed(q, closed, {})
    BY <2>3, <2>4, <2>6, NoElem DEF Allowed, Alive
  <2>9. IsSeq(adding.inbox) /\ IsSeq(closed.inbox)
    BY <2>3, <2>5, <2>6, NoElem
  <2>10. CASE ends' = [ends EXCEPT ![e] = closed]
    BY <1>2, <2>6, <2>8, <2>9, <2>10
  <2>11. CASE ends' = [ends EXCEPT ![e] = adding]
    BY <1>2, <2>5, <2>7, <2>9, <2>11
  <2> QED BY <2>2, <2>10, <2>11
<1>4. CASE handleVerifyOK(e)
  <2> DEFINE r == [t EXCEPT !.asking = q.sync]
  <2>1. Arrived(e, "VERIFYOK") /\ ends' = [ends EXCEPT ![e] = r]
    BY <1>4 DEF handleVerifyOK
  <2>2. /\ DOMAIN t = Fields /\ IsSeq(t.inbox) /\ Elems(t.inbox) \subseteq Elems(q.inbox)
        /\ t.owner = q.owner /\ t.addr = q.addr /\ t.id = q.id /\ t.state = q.state
        /\ Alive(q) /\ t.step = "idle" /\ Waits(q, "VERIFYOK")
    BY <2>1, TookFacts
  <2> HIDE DEF t, q
  <2>3. /\ DOMAIN r = Fields /\ r.inbox = t.inbox /\ r.id = t.id
        /\ r.owner = t.owner /\ r.addr = t.addr /\ r.state = t.state /\ r.step = t.step
    BY <2>2 DEF Fields
  <2> HIDE DEF r
  <2>4. Allowed(q, r, {})
    BY <2>2, <2>3 DEF Allowed, Alive
  <2> QED BY <1>2, <2>1, <2>2, <2>3, <2>4
<1> QED BY <1>3, <1>4

(* The consumer that discards, and the steps that end a connection. *)
LEMMA QuietKeeps ==
    ASSUME IInv, NEW e \in End,
           \/ Dropped(e) \/ peerClosed(e) \/ connectionFails(e) \/ waitExpires(e)
           \/ ends' = [ends EXCEPT ![e].step = "removing"] /\ Alive(ends[e])
              /\ UNCHANGED remoteNodes
    PROVE  IInv'
<1> DEFINE q == ends[e]
<1>1. /\ Shape /\ DOMAIN q = Fields /\ IsSeq(q.inbox)
      /\ (q.step = "adding" => q.id = q.addr)
  BY EndFacts
<1>2. remoteNodes' = remoteNodes
  BY DEF Dropped, peerClosed, connectionFails, waitExpires
<1>3. Alive(q)
  BY EndFacts DEF Dropped, peerClosed, connectionFails, waitExpires, Running
<1>4. ASSUME NEW r, DOMAIN r = Fields, IsSeq(r.inbox), ends' = [ends EXCEPT ![e] = r],
             Allowed(q, r, {})
      PROVE  IInv'
  <2>1. Moves(e, r, {})
    BY <1>1, <1>4, MovesAlone
  <2> QED BY <1>2, <1>4, <2>1, MoveKeeps
<1>5. CASE Dropped(e)
  <2>1. PICK k \in DOMAIN q.inbox :
            ends' = [ends EXCEPT ![e].inbox = Without(@, k)]
    BY <1>5 DEF Dropped
  <2> DEFINE box == Without(q.inbox, k)
             r == [q EXCEPT !.inbox = box]
  <2>2. ends' = [ends EXCEPT ![e] = r]
    BY <2>1
  <2>3. IsSeq(box) /\ Elems(box) \subseteq Elems(q.inbox)
    BY <1>1, RemoveElems
  <2> HIDE DEF q, box
  <2>4. /\ DOMAIN r = Fields /\ r.inbox = box /\ r.id = q.id
        /\ r.owner = q.owner /\ r.addr = q.addr /\ r.state = q.state /\ r.step = q.step
        /\ r.asking = q.asking
    BY <1>1 DEF Fields
  <2> HIDE DEF r
  <2>5. Allowed(q, r, {})
    BY <1>1, <1>3, <2>3, <2>4 DEF Allowed, Alive
  <2> QED BY <1>4, <2>2, <2>3, <2>4, <2>5
<1>6. CASE peerClosed(e) \/ connectionFails(e)
  <2> DEFINE r == Closed(q)
  <2>1. ends' = [ends EXCEPT ![e] = r]
    BY <1>6 DEF peerClosed, connectionFails
  <2> HIDE DEF q
  <2>2. /\ DOMAIN r = Fields /\ r.inbox = <<>> /\ r.id = q.id
        /\ r.owner = q.owner /\ r.addr = q.addr /\ r.state = "disconnected"
        /\ r.step = q.step /\ ~r.asking
    BY <1>1 DEF Fields, Closed
  <2> HIDE DEF r
  <2>3. Allowed(q, r, {}) /\ IsSeq(r.inbox)
    BY <1>1, <1>3, <2>2, NoElem DEF Allowed, Alive
  <2> QED BY <1>4, <2>1, <2>2, <2>3
<1>7. CASE waitExpires(e)
  <2> DEFINE r == [q EXCEPT !.asking = FALSE]
  <2>1. ends' = [ends EXCEPT ![e] = r]
    BY <1>7 DEF waitExpires
  <2> HIDE DEF q
  <2>2. /\ DOMAIN r = Fields /\ r.inbox = q.inbox /\ r.id = q.id
        /\ r.owner = q.owner /\ r.addr = q.addr /\ r.state = q.state
        /\ r.step = q.step /\ ~r.asking
    BY <1>1 DEF Fields
  <2> HIDE DEF r
  <2>3. Allowed(q, r, {}) /\ IsSeq(r.inbox)
    BY <1>1, <1>3, <2>2 DEF Allowed, Alive
  <2> QED BY <1>4, <2>1, <2>2, <2>3
<1>8. CASE ends' = [ends EXCEPT ![e].step = "removing"]
  <2> DEFINE r == [q EXCEPT !.step = "removing"]
  <2>1. ends' = [ends EXCEPT ![e] = r]
    BY <1>8
  <2> HIDE DEF q
  <2>2. /\ DOMAIN r = Fields /\ r.inbox = q.inbox /\ r.id = q.id
        /\ r.owner = q.owner /\ r.addr = q.addr /\ r.state = q.state
        /\ r.step = "removing" /\ r.asking = q.asking
    BY <1>1 DEF Fields
  <2> HIDE DEF r
  <2>3. Allowed(q, r, {}) /\ IsSeq(r.inbox)
    BY <1>1, <1>3, <2>2 DEF Allowed, Alive
  <2> QED BY <1>4, <2>1, <2>2, <2>3
<1> QED BY <1>5, <1>6, <1>7, <1>8

-----------------------------------------------------------------------------
(* The steps that make an object, enter it, or forget it. *)
LEMMA GoneFields ==
    /\ DOMAIN Gone = Fields /\ IsSeq(Gone.inbox) /\ Elems(Gone.inbox) = {}
    /\ Gone.state = "gone" /\ ~Gone.up /\ ~Gone.asking /\ Gone.inbox = <<>>
    /\ Gone.step = "idle" /\ ~Alive(Gone)
BY NoElem DEF Gone, Fields, Alive

(* An object is registered only by its own node, under its own id. *)
LEMMA Entries ==
    ASSUME IInv, NEW e \in End
    PROVE  \A n \in Node, i \in Id :
              remoteNodes[n][i] = e => /\ Alive(ends[e])
                                       /\ n = ends[e].owner /\ i = ends[e].id
<1>1. e # NoEnd
  BY SMT DEF End, NoEnd
<1> QED BY <1>1, SMT DEF IInv, RegInv

LEMMA GoneKeeps ==
    ASSUME IInv, NEW e \in End, ends' = [ends EXCEPT ![e] = Gone],
           remoteNodes' \in [Node -> [Id -> End \cup {NoEnd}]],
           \A n \in Node, i \in Id :
              remoteNodes'[n][i] # NoEnd => /\ remoteNodes'[n][i] = remoteNodes[n][i]
                                            /\ remoteNodes'[n][i] # e
    PROVE  IInv'
<1> DEFINE o == Other(e)
           p == ends[o]
<1>1. o \in End /\ o # e /\ Other(o) = e
  BY OtherEnd
<1>2. Shape /\ PairInv(p, ends[e])
  BY <1>1 DEF IInv, EndsInv
<1>3. DOMAIN ends' = End /\ ends'[e] = Gone /\ \A f \in End : f # e => ends'[f] = ends[f]
  BY <1>2 DEF Shape
<1>4. Shape'
  BY <1>2, <1>3, GoneFields DEF Shape
<1>5. PairInv(Gone, p)
  BY GoneFields DEF PairInv
<1>6. ~Waits(Gone, "SYNCREQ") /\ ~Waits(Gone, "VERIFYOK")
  BY GoneFields DEF Waits
<1>7. PairInv(p, Gone)
  BY <1>2, <1>6, GoneFields DEF PairInv
<1>8. ASSUME NEW f \in End PROVE PairInv(ends'[f], ends'[Other(f)])
  <2>1. CASE f = e
    BY <1>1, <1>3, <1>5, <2>1
  <2>2. CASE f = o
    BY <1>1, <1>3, <1>7, <2>2
  <2>3. CASE f # e /\ f # o
    <3>1. Other(f) \in End /\ Other(f) # e
      BY <1>1, <2>3, OtherEnd
    <3>2. PairInv(ends[f], ends[Other(f)])
      BY DEF IInv, EndsInv
    <3> QED BY <1>3, <2>3, <3>1, <3>2
  <2> QED BY <2>1, <2>2, <2>3
<1>9. EndsInv'
  BY <1>4, <1>8 DEF EndsInv
<1>10. ASSUME NEW n \in Node, NEW i \in Id, remoteNodes'[n][i] # NoEnd
       PROVE  LET f == remoteNodes'[n][i] IN
              /\ ends'[f].owner = n /\ ends'[f].id = i /\ ends'[f].addr = i
              /\ Alive(ends'[f])
  <2> DEFINE f == remoteNodes[n][i]
  <2>1. remoteNodes'[n][i] = f /\ f # e /\ f # NoEnd
    BY <1>10
  <2>2. f \in End
    BY <2>1, SMT DEF IInv, RegInv
  <2>3. ends[f].owner = n /\ ends[f].id = i /\ ends[f].addr = i /\ Alive(ends[f])
    BY <2>1 DEF IInv, RegInv
  <2> QED BY <1>3, <2>1, <2>2, <2>3
<1>11. RegInv'
  BY <1>10 DEF RegInv, Alive
<1> QED BY <1>9, <1>11 DEF IInv

(* A dial that fails, and the two ways in which tearDown ends. *)
LEMMA ForgetKeeps ==
    ASSUME IInv, NEW e \in End, unableToConnect(e) \/ tearDown(e) \/ removeEntry(e)
    PROVE  IInv'
<1> DEFINE q == ends[e]
<1>1. remoteNodes \in [Node -> [Id -> End \cup {NoEnd}]]
  BY DEF IInv, RegInv
<1>2. ASSUME ends' = [ends EXCEPT ![e] = Gone], remoteNodes' = remoteNodes,
             \A n \in Node, i \in Id : remoteNodes[n][i] # e
      PROVE  IInv'
  BY <1>1, <1>2, GoneKeeps
<1>3. CASE unableToConnect(e)
  <2>1. ~Alive(q) /\ ends' = [ends EXCEPT ![e] = Gone] /\ remoteNodes' = remoteNodes
    BY <1>3 DEF unableToConnect, Alive
  <2> QED BY <1>2, <2>1, Entries
<1>4. CASE tearDown(e)
  <2>1. Alive(q) /\ remoteNodes' = remoteNodes
    BY <1>4 DEF tearDown, Ended, Alive
  <2>2. CASE Contains(q.owner, q.id)
    <3>1. ends' = [ends EXCEPT ![e].step = "removing"]
      BY <1>4, <2>2 DEF tearDown
    <3> QED BY <2>1, <3>1, QuietKeeps
  <2>3. CASE ~Contains(q.owner, q.id)
    <3>1. ends' = [ends EXCEPT ![e] = Gone]
      BY <1>4, <2>3 DEF tearDown, finished
    <3>2. e # NoEnd
      BY SMT DEF End, NoEnd
    <3>3. \A n \in Node, i \in Id : remoteNodes[n][i] # e
      BY <2>3, <3>2, Entries DEF Contains
    <3> QED BY <1>2, <2>1, <3>1, <3>3
  <2> QED BY <2>2, <2>3
<1>5. CASE removeEntry(e)
  <2>1. /\ ends' = [ends EXCEPT ![e] = Gone]
        /\ remoteNodes' = [remoteNodes EXCEPT ![q.owner][q.id] = NoEnd]
    BY <1>5 DEF removeEntry, finished, Remove
  <2>2. remoteNodes' \in [Node -> [Id -> End \cup {NoEnd}]]
    BY <1>1, <2>1
  <2>3. ASSUME NEW n \in Node, NEW i \in Id, remoteNodes'[n][i] # NoEnd
        PROVE  remoteNodes'[n][i] = remoteNodes[n][i] /\ ~(n = q.owner /\ i = q.id)
    BY <1>1, <2>1, <2>3
  <2> HIDE DEF q
  <2>4. \A n \in Node, i \in Id :
            remoteNodes'[n][i] # NoEnd => /\ remoteNodes'[n][i] = remoteNodes[n][i]
                                          /\ remoteNodes'[n][i] # e
    BY <2>3, Entries, SMT DEF q
  <2> QED BY <2>1, <2>2, <2>4, GoneKeeps
<1> QED BY <1>3, <1>4, <1>5

(* The rest of handleVerify: the object is entered and answers. *)
LEMMA AddKeeps ==
    ASSUME IInv, NEW e \in End, addVerified(e)
    PROVE  IInv'
<1> DEFINE q == ends[e]
           r == [q EXCEPT !.step = "idle",
                          !.reconnect = @ /\ q.id \notin Passive,
                          !.state = "connected"]
           m == [code |-> "VERIFYOK"]
<1>1. /\ Shape /\ DOMAIN q = Fields /\ IsSeq(q.inbox) /\ Alive(q)
      /\ q.id = q.addr
  BY EndFacts DEF addVerified
<1>2. Sends(e, r, <<m>>) /\ remoteNodes' = [remoteNodes EXCEPT ![q.owner][q.id] = e]
  BY DEF addVerified, eventVerifyRemoteNode, Add
<1>3. m.code = "VERIFYOK"
  OBVIOUS
<1> HIDE DEF q, m
<1>4. /\ DOMAIN r = Fields /\ r.inbox = q.inbox /\ r.id = q.id
      /\ r.owner = q.owner /\ r.addr = q.addr /\ r.state = "connected" /\ r.step = "idle"
      /\ r.asking = q.asking
  BY <1>1 DEF Fields
<1> HIDE DEF r
<1>5. Allowed(q, r, {m}) /\ Alive(r)
  BY <1>1, <1>3, <1>4 DEF Allowed, Alive
<1>6. Moves(e, r, {m})
  <2>1. IsSeq(<<m>>) /\ Elems(<<m>>) = {m}
    BY OneElem
  <2>2. Moves(e, r, Elems(<<m>>))
    BY <1>1, <1>2, <1>4, <2>1, MovesSending
  <2> QED BY <2>1, <2>2
<1>7. EndsInv'
  BY <1>5, <1>6, MoveKeepsEnds DEF IInv, q
<1>8. remoteNodes \in [Node -> [Id -> End \cup {NoEnd}]]
  BY DEF IInv, RegInv
<1>9. remoteNodes' \in [Node -> [Id -> End \cup {NoEnd}]]
  BY <1>2, <1>8
<1>10. ASSUME NEW n \in Node, NEW i \in Id, remoteNodes'[n][i] # NoEnd
       PROVE  LET f == remoteNodes'[n][i] IN
              /\ ends'[f].owner = n /\ ends'[f].id = i /\ ends'[f].addr = i
              /\ Alive(ends'[f])
  <2>1. ends'[e] = r
    BY <1>6 DEF Moves
  <2>2. CASE n = q.owner /\ i = q.id
    <3>1. remoteNodes'[n][i] = e
      BY <1>2, <1>8, <2>2
    <3> QED BY <1>1, <1>4, <1>5, <2>1, <2>2, <3>1
  <2>3. CASE ~(n = q.owner /\ i = q.id)
    <3> DEFINE f == remoteNodes[n][i]
    <3>1. remoteNodes'[n][i] = f
      BY <1>2, <1>8, <2>3
    <3>2. f \in End
      BY <1>8, <1>10, <3>1
    <3>3. ends[f].owner = n /\ ends[f].id = i /\ ends[f].addr = i /\ Alive(ends[f])
      BY <1>10, <3>1 DEF IInv, RegInv
    <3>4. f # e
      BY <2>3, <3>3 DEF q
    <3> HIDE DEF f
    <3>5. CASE f = Other(e)
      BY <1>6, <3>1, <3>3, <3>5 DEF Moves, Fields, Alive
    <3>6. CASE f # Other(e)
      BY <1>6, <3>1, <3>2, <3>3, <3>4, <3>6 DEF Moves
    <3> QED BY <3>5, <3>6
  <2> QED BY <2>2, <2>3
<1>11. RegInv'
  BY <1>9, <1>10 DEF RegInv, Alive
<1> QED BY <1>7, <1>11 DEF IInv

(* New objects in the place of two that are not connected. *)
LEMMA NewKeeps ==
    ASSUME IInv, NEW e \in End, NEW r, NEW p,
           DOMAIN r = Fields, IsSeq(r.inbox), DOMAIN p = Fields, IsSeq(p.inbox),
           DOMAIN ends' = End, ends'[e] = r, ends'[Other(e)] = p,
           \A f \in End : f # e /\ f # Other(e) => ends'[f] = ends[f],
           ~Alive(ends[e]), ~Alive(ends[Other(e)]),
           PairInv(r, p), PairInv(p, r),
           remoteNodes' = remoteNodes
    PROVE  IInv'
<1> DEFINE o == Other(e)
<1>1. o \in End /\ o # e /\ Other(o) = e
  BY OtherEnd
<1>2. Shape
  BY DEF IInv, EndsInv
<1>3. /\ DOMAIN ends' = End /\ ends'[e] = r /\ ends'[o] = p
      /\ \A f \in End : f # e /\ f # o => ends'[f] = ends[f]
  OBVIOUS
<1>4. Shape'
  BY <1>2, <1>3 DEF Shape
<1> HIDE DEF o
<1>5. ASSUME NEW f \in End PROVE PairInv(ends'[f], ends'[Other(f)])
  <2>1. CASE f = e
    BY <1>3, <2>1 DEF o
  <2>2. CASE f = o
    BY <1>1, <1>3, <2>2
  <2>3. CASE f # e /\ f # o
    <3>1. Other(f) \in End /\ Other(f) # e /\ Other(f) # o
      BY <1>1, <2>3, OtherEnd DEF o
    <3>2. PairInv(ends[f], ends[Other(f)])
      BY DEF IInv, EndsInv
    <3> QED BY <1>3, <2>3, <3>1, <3>2
  <2> QED BY <2>1, <2>2, <2>3
<1>6. EndsInv'
  BY <1>4, <1>5 DEF EndsInv
<1>7. ASSUME NEW n \in Node, NEW i \in Id, remoteNodes[n][i] # NoEnd
      PROVE  LET f == remoteNodes[n][i] IN
             /\ ends'[f].owner = n /\ ends'[f].id = i /\ ends'[f].addr = i
             /\ Alive(ends'[f])
  <2> DEFINE f == remoteNodes[n][i]
  <2>1. f \in End
    BY <1>7, SMT DEF IInv, RegInv
  <2>2. ends[f].owner = n /\ ends[f].id = i /\ ends[f].addr = i /\ Alive(ends[f])
    BY <1>7 DEF IInv, RegInv
  <2> HIDE DEF f
  <2>3. f # e /\ f # o
    BY <2>2 DEF o
  <2> QED BY <1>3, <2>1, <2>2, <2>3 DEF f
<1>8. RegInv'
  BY <1>7, SMT DEF IInv, RegInv, Alive
<1> QED BY <1>6, <1>8 DEF IInv

(* The dial succeeds. *)
LEMMA ConnectKeeps ==
    ASSUME IInv, NEW e \in End, connect(e)
    PROVE  IInv'
<1> DEFINE o == Other(e)
           q == ends[e]
           r == [q EXCEPT !.state = "handshake", !.up = TRUE]
           p == listen(q.addr, q.owner)
<1>1. o \in End /\ o # e /\ Shape /\ PairInv(q, ends[o]) /\ q.state = "connecting"
  BY OtherEnd DEF IInv, EndsInv, connect
<1>2. /\ DOMAIN ends' = End /\ ends'[e] = r /\ ends'[o] = p
      /\ \A f \in End : f # e /\ f # o => ends'[f] = ends[f]
      /\ remoteNodes' = remoteNodes
  <2>1. /\ ends' = [ends EXCEPT ![e].state = "handshake", ![e].up = TRUE, ![o] = p]
        /\ remoteNodes' = remoteNodes
    BY DEF connect
  <2> HIDE DEF p, o
  <2>2. DOMAIN ends' = End /\ ends'[o] = p
    BY <1>1, <2>1 DEF Shape
  <2>3. ends'[e] = r
    BY <1>1, <2>1 DEF Shape
  <2>4. \A f \in End : f # e /\ f # o => ends'[f] = ends[f]
    BY <1>1, <2>1 DEF Shape
  <2> QED BY <2>1, <2>2, <2>3, <2>4
<1>3. /\ DOMAIN q = Fields /\ ~Alive(q) /\ ends[o].state = "gone" /\ q.inbox = <<>>
      /\ q.step = "idle" /\ ~q.asking
  BY <1>1 DEF Shape, PairInv, Alive
<1>4. ~Alive(ends[o])
  BY <1>3 DEF Alive
<1> HIDE DEF q
<1>5. /\ DOMAIN r = Fields /\ r.owner = q.owner /\ r.addr = q.addr /\ r.inbox = <<>>
      /\ r.step = "idle" /\ ~r.asking /\ r.state = "handshake"
  BY <1>3 DEF Fields
<1>6. /\ DOMAIN p = Fields /\ p.owner = q.addr /\ p.addr = q.owner /\ p.inbox = <<>>
      /\ p.step = "idle" /\ ~p.asking /\ p.state = "handshake"
  BY DEF Fields, listen, newRemoteNode
<1> HIDE DEF r, p
<1>7. /\ IsSeq(r.inbox) /\ Elems(r.inbox) = {} /\ IsSeq(p.inbox) /\ Elems(p.inbox) = {}
  BY <1>5, <1>6, NoElem
<1>8. \A x : ~Waits(r, x) /\ ~Waits(p, x)
  BY <1>7 DEF Waits
<1>9. Alive(r) /\ Alive(p)
  BY <1>5, <1>6 DEF Alive
<1>10. PairInv(r, p)
  BY <1>5, <1>6, <1>7, <1>8, <1>9 DEF PairInv
<1>11. PairInv(p, r)
  BY <1>5, <1>6, <1>7, <1>8, <1>9 DEF PairInv
<1> QED BY <1>2, <1>3, <1>4, <1>5, <1>6, <1>7, <1>10, <1>11, NewKeeps DEF q

LEMMA LeastNat ==
    ASSUME NEW T, T \subseteq Nat, T # {}
    PROVE  \E x \in T : \A y \in T : x <= y
<1>1. PICK x \in T : \A y \in T : ~(<<y, x>> \in OpToRel(<, Nat))
  BY NatLessThanWellFounded, WFMin
<1>2. \A y \in T : ~(y < x)
  BY <1>1 DEF OpToRel
<1> QED BY <1>2, SMT

(* A new dial takes a slot that nothing uses. *)
LEMMA JoinKeeps ==
    ASSUME IInv, NEW n, NEW a, NEW i, NEW rc, NEW sy,
           join(newRemoteNode(n, a, i, "connecting", rc, sy)),
           remoteNodes' = remoteNodes
    PROVE  IInv'
<1> DEFINE r == newRemoteNode(n, a, i, "connecting", rc, sy)
           slot == CHOOSE x \in Free : \A y \in Free : x <= y
           e == <<slot, "dial">>
           o == Other(e)
<1>1. Free # {} /\ Free \subseteq 1 .. Slots /\ Free \subseteq Nat
  BY SMT DEF join, Free
<1>2. slot \in Free
  BY <1>1, LeastNat
<1>3. ends' = [ends EXCEPT ![e] = r]
  BY DEF join
<1> HIDE DEF r, slot
<1>4. e \in End /\ o \in End /\ o # e /\ e[1] = slot /\ o[1] = slot
  BY <1>1, <1>2 DEF End, Other
<1>5. ends[e] = Gone /\ ends[o] = Gone
  BY <1>2, <1>4 DEF Free
<1>6. Shape
  BY DEF IInv, EndsInv
<1> HIDE DEF e, o
<1>7. /\ DOMAIN ends' = End /\ ends'[e] = r /\ ends'[o] = Gone
      /\ \A f \in End : f # e /\ f # o => ends'[f] = ends[f]
  BY <1>3, <1>4, <1>5, <1>6 DEF Shape
<1>8. /\ DOMAIN r = Fields /\ r.inbox = <<>> /\ r.step = "idle" /\ ~r.asking
      /\ ~r.up /\ r.state = "connecting"
  BY DEF Fields, newRemoteNode, r
<1>9. IsSeq(r.inbox) /\ Elems(r.inbox) = {}
  BY <1>8, NoElem
<1>10. PairInv(r, Gone)
  BY <1>8, <1>9, GoneFields DEF PairInv, Alive
<1>11. PairInv(Gone, r)
  BY <1>8, GoneFields DEF PairInv
<1> QED BY <1>4, <1>5, <1>7, <1>8, <1>9, <1>10, <1>11, GoneFields, NewKeeps DEF o

-----------------------------------------------------------------------------
LEMMA InitHolds == Init => IInv
<1> SUFFICES ASSUME Init PROVE IInv
  OBVIOUS
<1>1. DOMAIN ends = End /\ \A e \in End : ends[e] = Gone
  BY DEF Init
<1>2. Shape
  BY <1>1, GoneFields DEF Shape
<1>3. PairInv(Gone, Gone)
  BY GoneFields DEF PairInv
<1>4. EndsInv
  BY <1>1, <1>2, <1>3, OtherEnd DEF EndsInv
<1>5. RegInv
  BY DEF Init, RegInv
<1> QED BY <1>4, <1>5 DEF IInv

LEMMA StepHolds == IInv /\ [Next]_vars => IInv'
<1> SUFFICES ASSUME IInv, [Next]_vars PROVE IInv'
  OBVIOUS
<1>1. ASSUME ends' = ends, remoteNodes' = remoteNodes PROVE IInv'
  BY <1>1, SMT DEF IInv, EndsInv, RegInv, Shape
<1>2. ASSUME NEW e \in End, Steps(e) PROVE IInv'
  <2>1. CASE connect(e)
    BY <2>1, ConnectKeeps
  <2>2. CASE nobodyListens(e)
    BY <2>2, ForgetKeeps DEF nobodyListens
  <2>3. CASE sendVerify(e) \/ firstPing(e) \/ askSync(e)
    BY <2>3, SendKeeps
  <2>4. CASE Dropped(e) \/ peerClosed(e)
    BY <2>4, QuietKeeps
  <2>5. CASE handleVerify(e) \/ handleVerifyOK(e)
    BY <2>5, HandshakeKeeps
  <2>6. CASE addVerified(e)
    BY <2>6, AddKeeps
  <2>7. CASE handlePing(e) \/ handlePong(e) \/ handleSyncRequest(e) \/ handleSyncResponse(e)
    BY <2>7, HandlerKeeps
  <2>8. CASE tearDown(e) \/ removeEntry(e)
    BY <2>8, ForgetKeeps
  <2> QED BY <1>2, <2>1, <2>2, <2>3, <2>4, <2>5, <2>6, <2>7, <2>8 DEF Steps
<1>3. ASSUME NEW e \in End, Faulty(e) PROVE IInv'
  <2>1. CASE dialFails(e)
    BY <2>1, ForgetKeeps DEF dialFails
  <2>2. CASE waitExpires(e) \/ connectionFails(e)
    BY <2>2, QuietKeeps
  <2> QED BY <1>3, <2>1, <2>2 DEF Faulty
<1>4. ASSUME NEW n \in Node, Start(n) PROVE IInv'
  <2>1. /\ join(newRemoteNode(n, JoinIp[n], NoNode, "connecting", n \in Reconnecting, TRUE))
        /\ remoteNodes' = remoteNodes
    BY <1>4 DEF Start, joinCluster
  <2> QED BY <2>1, JoinKeeps
<1>5. ASSUME NEW n \in Node, NodeSteps(n) PROVE IInv'
  <2>1. CASE Started(n) \/ SkipPeer(n) \/ StorePending(n)
    <3>1. ends' = ends /\ remoteNodes' = remoteNodes
      BY <2>1 DEF Started, SkipPeer, StorePending
    <3> QED BY <1>1, <3>1
  <2>2. CASE DialPeer(n)
    <3> DEFINE p == Head(joinQueue[n])
    <3>1. /\ join(newRemoteNode(n, p.IpAddress, p.Id, "connecting", n \in Reconnecting, FALSE))
          /\ remoteNodes' = remoteNodes
      BY <2>2 DEF DialPeer
    <3> QED BY <3>1, JoinKeeps
  <2> QED BY <1>5, <2>1, <2>2 DEF NodeSteps
<1>6. CASE UNCHANGED vars
  <2>1. ends' = ends /\ remoteNodes' = remoteNodes
    BY <1>6 DEF vars
  <2> QED BY <1>1, <2>1
<1> QED BY <1>2, <1>3, <1>4, <1>5, <1>6 DEF Next

LEMMA IInvHolds == Spec => []IInv
BY InitHolds, StepHolds, PTL DEF Spec

(* Whatever the number of nodes and connections, the dials that cross and   *)
(* the faults: what SliceList.Add enters for an id is a connection of this  *)
(* node to that id, and tearDown removes the entry before the object ends.  *)
THEOREM RegisteredAliveHolds == Spec => []RegisteredAlive
<1>1. IInv => RegisteredAlive
  BY DEF IInv, RegInv, RegisteredAlive
<1> QED BY <1>1, IInvHolds, PTL

(* For the same instances, no request for peers and no answer to one ever  *)
(* stands before an end that is in the handshake, where                    *)
(* queueInboundMessage would discard it.                                   *)
THEOREM SyncHeardHolds == Spec => []SyncHeard
<1>1. ASSUME IInv PROVE SyncHeard
  <2>1. ASSUME NEW e \in End, ends[e].state = "handshake", NEW k \in DOMAIN ends[e].inbox
        PROVE  ends[e].inbox[k].code \notin {"SYNCREQ", "SYNCRSP"}
    <3>1. PairInv(ends[e], ends[Other(e)])
      BY <1>1 DEF IInv, EndsInv
    <3>2. ends[e].inbox[k] \in Elems(ends[e].inbox)
      BY DEF Elems
    <3> QED BY <2>1, <3>1, <3>2 DEF PairInv, Waits
  <2> QED BY <2>1 DEF SyncHeard
<1> QED BY <1>1, IInvHolds, PTL

-----------------------------------------------------------------------------
(* Types. *)
LEMMA MessageTypes ==
    /\ \A n \in Node : [code |-> "VERIFY", from |-> n] \in Message
    /\ \A n \in Node : [code |-> "SYNCREQ", from |-> n] \in Message
    /\ [code |-> "VERIFYOK"] \in Message /\ [code |-> "PING"] \in Message /\ [code |-> "PONG"] \in Message
    /\ \A l \in Seq(Peer) : [code |-> "SYNCRSP", list |-> l] \in Message
BY DEF Message

LEMMA MessageParts ==
    ASSUME NEW m \in Message
    PROVE  /\ m.code \in {"VERIFY", "SYNCREQ"} => m.from \in Node
           /\ m.code = "SYNCRSP" => m.list \in Seq(Peer)
BY DEF Message

LEMMA NewType ==
    ASSUME NEW n \in Node, NEW a \in Node, NEW i \in Id, NEW st \in {"connecting", "handshake"},
           NEW rc \in BOOLEAN, NEW sy \in BOOLEAN
    PROVE  newRemoteNode(n, a, i, st, rc, sy) \in Object
BY MembershipAssumption, SMT DEF newRemoteNode, Object

LEMMA ObjectParts ==
    ASSUME NEW r \in Object
    PROVE  /\ r.owner \in Node /\ r.addr \in Node /\ r.id \in Id /\ r.inbox \in Seq(Message)
           /\ r.reconnect \in BOOLEAN /\ r.sync \in BOOLEAN
BY DEF Object

LEMMA ObjectChanges ==
    ASSUME NEW r \in Object
    PROVE  /\ \A v \in BOOLEAN : [r EXCEPT !.verify = v] \in Object
           /\ \A v \in BOOLEAN : [r EXCEPT !.ping = v] \in Object
           /\ \A v \in BOOLEAN : [r EXCEPT !.asking = v] \in Object
           /\ \A v \in {"idle", "adding", "removing"} : [r EXCEPT !.step = v] \in Object
           /\ \A v \in Id : [r EXCEPT !.id = v] \in Object
           /\ \A v \in Seq(Message) : [r EXCEPT !.inbox = v] \in Object
BY DEF Object

LEMMA ClosedType ==
    ASSUME NEW r \in Object
    PROVE  Closed(r) \in Object
<1>1. <<>> \in Seq(Message)
  BY SMT
<1> QED BY <1>1 DEF Closed, Object

(* An end that runs, dials, asks, adds or removes has its object. *)
LEMMA IsObject ==
    ASSUME TypeOK, NEW e \in End,
           \/ ends[e].up \/ ends[e].asking \/ ends[e].step \in {"adding", "removing"}
           \/ ends[e].state # "gone"
    PROVE  ends[e] \in Object
BY SMT DEF TypeOK, Gone

EndsType == ends \in [End -> Object \cup {Gone}]

LEMMA SetType ==
    ASSUME EndsType, NEW e \in End, NEW r \in Object \cup {Gone}, ends' = [ends EXCEPT ![e] = r]
    PROVE  EndsType'
BY DEF EndsType

LEMMA SendType ==
    ASSUME EndsType, NEW e \in End, NEW r \in Object, NEW msgs \in Seq(Message), Sends(e, r, msgs)
    PROVE  EndsType'
<1> DEFINE o == Other(e)
           box == IF r.up /\ Running(o) THEN ends[o].inbox \o msgs ELSE ends[o].inbox
           q == [ends[o] EXCEPT !.inbox = box]
<1>1. o \in End /\ o # e
  BY OtherEnd
<1>2. ends' = [[ends EXCEPT ![e] = r] EXCEPT ![o] = q]
  BY <1>1 DEF Sends, EndsType
<1>3. q \in Object \cup {Gone}
  <2>1. CASE ends[o] \in Object
    <3>1. box \in Seq(Message)
      BY <2>1, ObjectParts, SMT
    <3> QED BY <2>1, <3>1, ObjectChanges
  <2>2. CASE ends[o] = Gone
    <3>1. box = Gone.inbox
      BY <2>2, SMT DEF Running, Gone
    <3> QED BY <2>2, <3>1 DEF Gone
  <2> QED BY <1>1, <2>1, <2>2 DEF EndsType
<1> HIDE DEF q, o
<1> QED BY <1>1, <1>2, <1>3 DEF EndsType

LEMMA TookType ==
    ASSUME TypeOK, NEW e \in End, NEW c, Arrived(e, c)
    PROVE  /\ ends[e] \in Object /\ Took(e) \in Object
           /\ Head(ends[e].inbox) \in Message /\ Head(ends[e].inbox).code = c
<1>1. ends[e] \in Object
  BY IsObject DEF Arrived, Running
<1>2. ends[e].inbox \in Seq(Message) /\ ends[e].inbox # <<>>
  BY <1>1, ObjectParts DEF Arrived
<1>3. Tail(ends[e].inbox) \in Seq(Message) /\ Head(ends[e].inbox) \in Message
  BY <1>2, SMT
<1> QED BY <1>1, <1>3, ObjectChanges DEF Took, Arrived

LEMMA OneMessage ==
    ASSUME NEW m \in Message
    PROVE  <<m>> \in Seq(Message)
BY SMT

(* The steps of an end that change no table. *)
LEMMA SendTypes ==
    ASSUME TypeOK, NEW e \in End, sendVerify(e) \/ firstPing(e) \/ askSync(e) \/ handlePing(e)
    PROVE  EndsType'
<1>0. EndsType
  BY DEF TypeOK, EndsType
<1>1. CASE sendVerify(e)
  <2>1. ends[e] \in Object
    BY <1>1, IsObject DEF sendVerify, Running
  <2>2. [ends[e] EXCEPT !.verify = FALSE] \in Object
        /\ [code |-> "VERIFY", from |-> ends[e].owner] \in Message
    BY <2>1, ObjectChanges, ObjectParts, MessageTypes
  <2> QED BY <1>0, <1>1, <2>2, OneMessage, SendType DEF sendVerify
<1>2. CASE firstPing(e)
  <2>1. ends[e] \in Object
    BY <1>2, IsObject DEF firstPing, Running
  <2>2. [ends[e] EXCEPT !.ping = FALSE] \in Object /\ [code |-> "PING"] \in Message
    BY <2>1, ObjectChanges, MessageTypes
  <2> QED BY <1>0, <1>2, <2>2, OneMessage, SendType DEF firstPing
<1>3. CASE askSync(e)
  <2>1. ends[e] \in Object
    BY <1>3, IsObject DEF askSync
  <2>2. [ends[e] EXCEPT !.asking = FALSE] \in Object
        /\ [code |-> "SYNCREQ", from |-> ends[e].owner] \in Message
    BY <2>1, ObjectChanges, ObjectParts, MessageTypes
  <2> QED BY <1>0, <1>3, <2>2, OneMessage, SendType DEF askSync
<1>4. CASE handlePing(e)
  <2>1. Took(e) \in Object
    BY <1>4, TookType DEF handlePing
  <2>2. [code |-> "PONG"] \in Message
    BY MessageTypes
  <2> QED BY <1>0, <1>4, <2>1, <2>2, OneMessage, SendType DEF handlePing
<1> QED BY <1>1, <1>2, <1>3, <1>4

LEMMA WithoutType ==
    ASSUME NEW S, NEW s \in Seq(S), NEW k \in DOMAIN s
    PROVE  Without(s, k) \in Seq(S)
<1>1. k \in 1 .. Len(s) /\ Len(s) \in Nat
  BY SMT
<1>2. SubSeq(s, 1, k - 1) \in Seq(S) /\ SubSeq(s, k + 1, Len(s)) \in Seq(S)
  BY <1>1, SMT
<1> QED BY <1>2, SMT DEF Without

LEMMA TakeTypes ==
    ASSUME TypeOK, NEW e \in End,
           \/ Dropped(e) \/ handleVerify(e) \/ handleVerifyOK(e) \/ handlePong(e)
           \/ peerClosed(e) \/ waitExpires(e) \/ connectionFails(e)
    PROVE  EndsType'
<1>0. EndsType
  BY DEF TypeOK, EndsType
<1>1. CASE Dropped(e)
  <2>1. ends[e] \in Object
    BY <1>1, IsObject DEF Dropped, Running
  <2>2. PICK k \in DOMAIN ends[e].inbox : ends' = [ends EXCEPT ![e].inbox = Without(@, k)]
    BY <1>1 DEF Dropped
  <2>3. Without(ends[e].inbox, k) \in Seq(Message)
    BY <2>1, ObjectParts, WithoutType
  <2>4. [ends[e] EXCEPT !.inbox = Without(ends[e].inbox, k)] \in Object
    BY <2>1, <2>3, ObjectChanges
  <2>5. ends' = [ends EXCEPT ![e] = [ends[e] EXCEPT !.inbox = Without(ends[e].inbox, k)]]
    BY <2>2
  <2> QED BY <1>0, <2>4, <2>5, SetType
<1>2. CASE handleVerify(e)
  <2> DEFINE i == Head(ends[e].inbox).from
             r == [Took(e) EXCEPT !.id = i]
             s == [Took(e) EXCEPT !.id = i, !.step = "adding"]
             q == IF refused(ends[e].owner, i) THEN Closed(r) ELSE s
  <2>1. Took(e) \in Object /\ i \in Id
    BY <1>2, TookType, MessageParts DEF handleVerify, Id
  <2>2. r \in Object /\ s = [r EXCEPT !.step = "adding"]
    <3> HIDE DEF i
    <3> QED BY <2>1, ObjectChanges
  <2>3. q \in Object
    <3> HIDE DEF r, s, i
    <3> QED BY <2>2, ClosedType, ObjectChanges
  <2>4. ends' = [ends EXCEPT ![e] = q]
    BY <1>2 DEF handleVerify
  <2> HIDE DEF q
  <2> QED BY <1>0, <2>3, <2>4, SetType
<1>3. CASE handleVerifyOK(e)
  <2>1. Took(e) \in Object /\ ends[e].sync \in BOOLEAN
    BY <1>3, TookType, ObjectParts DEF handleVerifyOK
  <2>2. [Took(e) EXCEPT !.asking = ends[e].sync] \in Object
    BY <2>1, ObjectChanges
  <2> QED BY <1>0, <1>3, <2>2, SetType DEF handleVerifyOK
<1>4. CASE handlePong(e)
  <2>1. Took(e) \in Object
    BY <1>4, TookType DEF handlePong
  <2> QED BY <1>0, <1>4, <2>1, SetType DEF handlePong
<1>5. CASE peerClosed(e) \/ connectionFails(e)
  <2>1. ends[e] \in Object
    BY <1>5, IsObject DEF peerClosed, connectionFails, Running
  <2>2. ends' = [ends EXCEPT ![e] = Closed(ends[e])]
    BY <1>5 DEF peerClosed, connectionFails
  <2> QED BY <1>0, <2>1, <2>2, ClosedType, SetType
<1>6. CASE waitExpires(e)
  <2>1. ends[e] \in Object
    BY <1>6, IsObject DEF waitExpires
  <2>2. ends' = [ends EXCEPT ![e] = [ends[e] EXCEPT !.asking = FALSE]]
    BY <1>6 DEF waitExpires
  <2>3. [ends[e] EXCEPT !.asking = FALSE] \in Object
    BY <2>1, ObjectChanges
  <2> QED BY <1>0, <2>2, <2>3, SetType
<1> QED BY <1>1, <1>2, <1>3, <1>4, <1>5, <1>6

(* The peers that sendSyncResponse lists are registered: they have an id   *)
(* and an address.                                                         *)
LEMMA ListType ==
    ASSUME TypeOK, IInv, NEW e \in End, ends[e] \in Object, NEW asker,
           NEW l \in Listings(nodeList(e, asker))
    PROVE  l \in Seq(Peer)
<1> DEFINE n == ends[e].owner
           Known == {j \in Node : Contains(n, j)}
           F == {ends[remoteNodes[n][i]] : i \in Known}
           S == nodeList(e, asker)
<1>1. \A i \in Known : ends[remoteNodes[n][i]] \in Object
  <2> SUFFICES ASSUME NEW i \in Known PROVE ends[remoteNodes[n][i]] \in Object
    OBVIOUS
  <2>1. n \in Node /\ i \in Id /\ remoteNodes[n][i] # NoEnd
    BY ObjectParts DEF Contains, Id
  <2>2. remoteNodes[n][i] \in End /\ Alive(ends[remoteNodes[n][i]])
    BY <2>1, SMT DEF IInv, RegInv
  <2> QED BY <2>2, IsObject DEF Alive
<1>2. S \subseteq Peer
  <2>1. \A v \in F : [Id |-> v.id, IpAddress |-> v.addr] \in Peer
    BY <1>1, ObjectParts DEF Peer
  <2> QED BY <2>1 DEF nodeList
<1>3. IsFiniteSet(S)
  <2>1. IsFiniteSet(Known)
    BY FS_Subset, MembershipAssumption
  <2>2. IsFiniteSet(F)
    <3> DEFINE f == [i \in Known |-> ends[remoteNodes[n][i]]]
    <3>1. f \in Surjection(Known, F)
      BY DEF Surjection
    <3> HIDE DEF f, F, Known
    <3> QED BY <2>1, <3>1, FS_Surjection
  <2> DEFINE G == {v \in F : v.id # ends[e].id /\ ~(v.id \in Passive /\ asker \in Passive)}
  <2>3. IsFiniteSet(G)
    BY <2>2, FS_Subset
  <2>4. S = {[Id |-> v.id, IpAddress |-> v.addr] : v \in G}
    BY DEF nodeList
  <2> DEFINE f == [v \in G |-> [Id |-> v.id, IpAddress |-> v.addr]]
  <2>5. f \in Surjection(G, S)
    <3> HIDE DEF G, S
    <3> QED BY <2>4 DEF Surjection
  <2> HIDE DEF f, G, S
  <2> QED BY <2>3, <2>5, FS_Surjection
<1>4. Cardinality(S) \in Nat /\ l \in [1 .. Cardinality(S) -> S]
  BY <1>3, FS_CardinalityType DEF Listings
<1> HIDE DEF S
<1> QED BY <1>2, <1>4, SMT

LEMMA AnswerTypes ==
    ASSUME TypeOK, IInv, NEW e \in End, handleSyncRequest(e)
    PROVE  EndsType'
<1>0. EndsType
  BY DEF TypeOK, EndsType
<1> DEFINE asker == Head(ends[e].inbox).from
<1>1. Took(e) \in Object /\ ends[e] \in Object
  BY TookType DEF handleSyncRequest
<1>2. PICK l \in Listings(nodeList(e, asker)) :
          Sends(e, Took(e), IF l = <<>> THEN <<>> ELSE <<[code |-> "SYNCRSP", list |-> l]>>)
  BY DEF handleSyncRequest
<1>3. l \in Seq(Peer)
  BY <1>1, ListType
<1>4. [code |-> "SYNCRSP", list |-> l] \in Message
  BY <1>3, MessageTypes
<1> DEFINE msgs == IF l = <<>> THEN <<>> ELSE <<[code |-> "SYNCRSP", list |-> l]>>
<1>5. msgs \in Seq(Message)
  <2>1. <<>> \in Seq(Message)
    BY SMT
  <2>2. <<[code |-> "SYNCRSP", list |-> l]>> \in Seq(Message)
    BY <1>4, OneMessage
  <2> QED BY <2>1, <2>2
<1>6. Sends(e, Took(e), msgs)
  BY <1>2
<1> HIDE DEF msgs
<1> QED BY <1>0, <1>1, <1>5, <1>6, SendType

(* The tables of the nodes. *)
TablesType ==
    /\ state \in [Node -> {"off", "starting", "started"}]
    /\ remoteNodes \in [Node -> [Id -> End \cup {NoEnd}]]
    /\ size \in [Node -> Int]
    /\ pendingConn \in [Node -> SUBSET Id]
    /\ joinQueue \in [Node -> Seq(Peer)]
    /\ storing \in [Node -> SUBSET Id]
    /\ faults \in 0 .. MaxFaults

LEMMA QueueType ==
    ASSUME TablesType, NEW n \in Node, NEW q \in Seq(Peer), joinQueue' = [joinQueue EXCEPT ![n] = q]
    PROVE  joinQueue' \in [Node -> Seq(Peer)]
BY DEF TablesType

LEMMA FinishedType ==
    ASSUME TypeOK, NEW e \in End, ends[e] \in Object, finished(e)
    PROVE  EndsType' /\ joinQueue' \in [Node -> Seq(Peer)]
<1>0. EndsType /\ TablesType
  BY DEF TypeOK, EndsType, TablesType
<1>1. EndsType'
  BY <1>0, SetType DEF finished
<1> DEFINE n == ends[e].owner
           p == [Id |-> ends[e].id, IpAddress |-> ends[e].addr]
<1>2. n \in Node /\ p \in Peer
  BY ObjectParts DEF Peer
<1>3. joinQueue' = joinQueue \/ joinQueue' = [joinQueue EXCEPT ![n] = Append(joinQueue[n], p)]
  BY DEF finished
<1>4. Append(joinQueue[n], p) \in Seq(Peer)
  <2> HIDE DEF n, p
  <2>1. joinQueue[n] \in Seq(Peer)
    BY <1>0, <1>2 DEF TablesType
  <2> QED BY <1>2, <2>1, SMT
<1> HIDE DEF n, p
<1>5. joinQueue' \in [Node -> Seq(Peer)]
  BY <1>0, <1>2, <1>3, <1>4, QueueType DEF TablesType
<1> QED BY <1>1, <1>5

(* A new dialling end. *)
LEMMA JoinType ==
    ASSUME EndsType, NEW r \in Object, join(r)
    PROVE  EndsType'
<1>1. PICK c \in 1 .. Slots : ends' = [ends EXCEPT ![<<c, "dial">>] = r]
  <2> DEFINE c == CHOOSE x \in Free : \A y \in Free : x <= y
  <2>1. Free \subseteq Nat /\ Free # {} /\ Free \subseteq 1 .. Slots
    BY MembershipAssumption, SMT DEF Free, join
  <2>2. \E x \in Free : \A y \in Free : x <= y
    BY <2>1, LeastNat
  <2>3. c \in Free
    BY <2>2
  <2>4. ends' = [ends EXCEPT ![<<c, "dial">>] = r]
    BY DEF join
  <2> QED BY <2>1, <2>3, <2>4
<1>2. <<c, "dial">> \in End
  BY DEF End
<1> QED BY <1>1, <1>2, SetType

LEMMA EndTypes ==
    ASSUME TypeOK, IInv, NEW e \in End, Steps(e) \/ Faulty(e)
    PROVE  TypeOK'
<1>0. EndsType /\ TablesType
  BY DEF TypeOK, EndsType, TablesType
<1>1. ASSUME EndsType', TablesType' PROVE TypeOK'
  BY <1>1 DEF TypeOK, EndsType, TablesType
<1>2. ASSUME UNCHANGED <<state, remoteNodes, size, pendingConn, joinQueue, storing>>,
             UNCHANGED faults \/ Fault
      PROVE  TablesType'
  <2>1. faults' \in 0 .. MaxFaults
    BY <1>0, <1>2, MembershipAssumption, SMT DEF TablesType, Fault
  <2> QED BY <1>0, <1>2, <2>1 DEF TablesType
<1>3. CASE sendVerify(e) \/ firstPing(e) \/ askSync(e) \/ handlePing(e)
  <2>1. EndsType'
    BY <1>3, SendTypes
  <2>2. UNCHANGED <<state, remoteNodes, size, pendingConn, joinQueue, storing, faults>>
    BY <1>3 DEF sendVerify, firstPing, askSync, handlePing
  <2> QED BY <1>1, <1>2, <2>1, <2>2
<1>4. CASE Dropped(e) \/ handleVerify(e) \/ handleVerifyOK(e) \/ handlePong(e) \/ peerClosed(e)
           \/ waitExpires(e) \/ connectionFails(e)
  <2>1. EndsType'
    BY <1>4, TakeTypes
  <2>2. UNCHANGED <<state, remoteNodes, size, pendingConn, joinQueue, storing>>
        /\ (UNCHANGED faults \/ Fault)
    BY <1>4 DEF Dropped, handleVerify, handleVerifyOK, handlePong, peerClosed,
                       waitExpires, connectionFails
  <2> QED BY <1>1, <1>2, <2>1, <2>2
<1>5. CASE handleSyncRequest(e)
  <2>1. EndsType'
    BY <1>5, AnswerTypes
  <2>2. UNCHANGED <<state, remoteNodes, size, pendingConn, joinQueue, storing, faults>>
    BY <1>5 DEF handleSyncRequest
  <2> QED BY <1>1, <1>2, <2>1, <2>2
<1>6. CASE handleSyncResponse(e)
  <2> DEFINE n == ends[e].owner
             l == Head(ends[e].inbox).list
  <2>1. Took(e) \in Object /\ n \in Node /\ l \in Seq(Peer)
    BY <1>6, TookType, ObjectParts, MessageParts DEF handleSyncResponse
  <2>2. EndsType'
    BY <1>0, <1>6, <2>1, SetType DEF handleSyncResponse
  <2>3. joinQueue' = [joinQueue EXCEPT ![n] = joinQueue[n] \o l]
    BY <1>6 DEF handleSyncResponse
  <2> HIDE DEF n, l
  <2>4. joinQueue[n] \o l \in Seq(Peer)
    <3>1. joinQueue[n] \in Seq(Peer)
      BY <1>0, <2>1 DEF TablesType
    <3> QED BY <2>1, <3>1, SMT
  <2>5. joinQueue' \in [Node -> Seq(Peer)]
    BY <1>0, <2>1, <2>3, <2>4, QueueType
  <2>6. UNCHANGED <<state, remoteNodes, size, pendingConn, storing, faults>>
    BY <1>6 DEF handleSyncResponse
  <2> QED BY <1>0, <1>1, <2>2, <2>5, <2>6 DEF TablesType
<1>7. CASE connect(e)
  <2> DEFINE r == ends[e]
             o == Other(e)
             q == listen(r.addr, r.owner)
             p == [r EXCEPT !.state = "handshake", !.up = TRUE]
  <2>1. r \in Object
    BY <1>7, IsObject DEF connect
  <2>2. o \in End /\ o # e
    BY OtherEnd
  <2>3. p \in Object
    BY <2>1 DEF Object
  <2>4. q \in Object
    <3>1. r.addr \in Node /\ r.owner \in Node /\ NoNode \in Id
      BY <2>1, ObjectParts DEF Id
    <3> QED BY <3>1, NewType DEF listen
  <2>5. ends' = [[ends EXCEPT ![e] = p] EXCEPT ![o] = q]
    BY <1>0, <1>7, <2>2 DEF connect, EndsType
  <2> HIDE DEF o, p, q
  <2>6. EndsType'
    BY <1>0, <2>2, <2>3, <2>4, <2>5 DEF EndsType
  <2>7. UNCHANGED <<state, remoteNodes, size, pendingConn, joinQueue, storing, faults>>
    BY <1>7 DEF connect
  <2> QED BY <1>1, <1>2, <2>6, <2>7
<1>8. CASE nobodyListens(e) \/ dialFails(e)
  <2>1. unableToConnect(e) /\ (UNCHANGED faults \/ Fault)
    BY <1>8 DEF nobodyListens, dialFails
  <2>2. EndsType'
    BY <1>0, <2>1, SetType DEF unableToConnect
  <2>3. faults' \in 0 .. MaxFaults
    BY <1>0, <2>1, MembershipAssumption, SMT DEF TablesType, Fault
  <2>4. pendingConn' \in [Node -> SUBSET Id]
    BY <1>0, <2>1 DEF TablesType, unableToConnect
  <2>5. UNCHANGED <<state, remoteNodes, size, joinQueue, storing>>
    BY <2>1 DEF unableToConnect
  <2> QED BY <1>0, <1>1, <2>2, <2>3, <2>4, <2>5 DEF TablesType
<1>9. CASE addVerified(e)
  <2> DEFINE r == ends[e]
             n == r.owner
             i == r.id
             q == [r EXCEPT !.step = "idle", !.reconnect = r.reconnect /\ i \notin Passive, !.state = "connected"]
  <2>1. r \in Object
    BY <1>9, IsObject DEF addVerified
  <2>2. n \in Node /\ i \in Id
    BY <2>1, ObjectParts
  <2>3. q \in Object
    BY <2>1 DEF Object
  <2>4. Sends(e, q, <<[code |-> "VERIFYOK"]>>)
    BY <1>9 DEF addVerified
  <2>5. EndsType'
    <3> HIDE DEF q
    <3> QED BY <1>0, <2>3, <2>4, OneMessage, MessageTypes, SendType
  <2>6. /\ size' = [size EXCEPT ![n] = @ + 1]
        /\ remoteNodes' = [remoteNodes EXCEPT ![n][i] = e]
        /\ pendingConn' = [pendingConn EXCEPT ![n] = @ \ {i}]
        /\ UNCHANGED <<state, joinQueue, storing, faults>>
    BY <1>9 DEF addVerified, eventVerifyRemoteNode, Add
  <2> HIDE DEF n, i
  <2>7. TablesType'
    BY <1>0, <2>2, <2>6, SMT DEF TablesType
  <2> QED BY <1>1, <2>5, <2>7
<1>10. CASE tearDown(e)
  <2>1. ends[e] \in Object
    BY <1>10, IsObject DEF tearDown, Ended
  <2>2. UNCHANGED <<state, remoteNodes, size, pendingConn, storing, faults>>
    BY <1>10 DEF tearDown
  <2>3. CASE finished(e)
    BY <1>0, <1>1, <2>1, <2>2, <2>3, FinishedType DEF TablesType
  <2>4. CASE ends' = [ends EXCEPT ![e].step = "removing"] /\ UNCHANGED joinQueue
    <3>1. [ends[e] EXCEPT !.step = "removing"] \in Object
      BY <2>1, ObjectChanges
    <3>2. ends' = [ends EXCEPT ![e] = [ends[e] EXCEPT !.step = "removing"]]
      BY <2>4
    <3>3. EndsType'
      BY <1>0, <3>1, <3>2, SetType
    <3> QED BY <1>1, <1>2, <2>2, <2>4, <3>3
  <2> QED BY <1>10, <2>3, <2>4 DEF tearDown
<1>11. CASE removeEntry(e)
  <2> DEFINE n == ends[e].owner
             i == ends[e].id
  <2>1. ends[e] \in Object
    BY <1>11, IsObject DEF removeEntry
  <2>2. n \in Node /\ i \in Id
    BY <2>1, ObjectParts
  <2>3. EndsType' /\ joinQueue' \in [Node -> Seq(Peer)]
    BY <1>11, <2>1, FinishedType DEF removeEntry
  <2>4. /\ remoteNodes' = [remoteNodes EXCEPT ![n][i] = NoEnd]
        /\ size' = [size EXCEPT ![n] = @ - 1]
        /\ UNCHANGED <<state, pendingConn, storing, faults>>
    BY <1>11 DEF removeEntry, Remove
  <2> HIDE DEF n, i
  <2>5. TablesType'
    BY <1>0, <2>2, <2>3, <2>4, SMT DEF TablesType
  <2> QED BY <1>1, <2>3, <2>5
<1> QED BY <1>3, <1>4, <1>5, <1>6, <1>7, <1>8, <1>9, <1>10, <1>11 DEF Steps, Faulty

(* A node that has yet to start knows whom to dial. *)
OffJoins == \A n \in Node : state[n] = "off" => n \in DOMAIN JoinIp

LEMMA NodeTypes ==
    ASSUME TypeOK, OffJoins, NEW n \in Node, Start(n) \/ NodeSteps(n)
    PROVE  TypeOK'
<1>0. EndsType /\ TablesType
  BY DEF TypeOK, EndsType, TablesType
<1>1. ASSUME EndsType', TablesType' PROVE TypeOK'
  BY <1>1 DEF TypeOK, EndsType, TablesType
<1>2. CASE Start(n)
  <2>1. state[n] = "off" /\ join(joinCluster(n)) /\ state' = [state EXCEPT ![n] = "starting"]
        /\ UNCHANGED <<remoteNodes, size, pendingConn, joinQueue, storing, faults>>
    BY <1>2 DEF Start
  <2>2. joinCluster(n) \in Object
    <3>1. JoinIp[n] \in Node /\ NoNode \in Id /\ (n \in Reconnecting) \in BOOLEAN
      BY <2>1, MembershipAssumption, SMT DEF Id, OffJoins
    <3> QED BY <3>1, NewType DEF joinCluster
  <2>3. EndsType'
    BY <1>0, <2>1, <2>2, JoinType
  <2>4. TablesType'
    BY <1>0, <2>1 DEF TablesType
  <2> QED BY <1>1, <2>3, <2>4
<1>3. CASE Started(n)
  <2>1. state' = [state EXCEPT ![n] = "started"]
        /\ UNCHANGED <<ends, remoteNodes, size, pendingConn, joinQueue, storing, faults>>
    BY <1>3 DEF Started
  <2> QED BY <1>0, <1>1, <2>1 DEF EndsType, TablesType
<1>4. ASSUME Proposal(n)
      PROVE  Head(joinQueue[n]) \in Peer /\ Tail(joinQueue[n]) \in Seq(Peer)
  <2>1. joinQueue[n] \in Seq(Peer) /\ joinQueue[n] # <<>>
    BY <1>0, <1>4 DEF TablesType, Proposal
  <2> QED BY <2>1, SMT
<1>5. CASE SkipPeer(n)
  <2>1. Proposal(n) /\ joinQueue' = [joinQueue EXCEPT ![n] = Tail(joinQueue[n])]
        /\ UNCHANGED <<state, ends, remoteNodes, size, pendingConn, storing, faults>>
    BY <1>5 DEF SkipPeer
  <2>2. joinQueue' \in [Node -> Seq(Peer)]
    BY <1>0, <1>4, <2>1, QueueType
  <2> QED BY <1>0, <1>1, <2>1, <2>2 DEF EndsType, TablesType
<1>6. CASE DialPeer(n)
  <2> DEFINE p == Head(joinQueue[n])
             r == newRemoteNode(n, p.IpAddress, p.Id, "connecting", n \in Reconnecting, FALSE)
  <2>1. /\ Proposal(n) /\ joinQueue' = [joinQueue EXCEPT ![n] = Tail(joinQueue[n])]
        /\ join(r) /\ storing' = [storing EXCEPT ![n] = {p.Id}]
        /\ UNCHANGED <<state, remoteNodes, size, pendingConn, faults>>
    BY <1>6 DEF DialPeer
  <2>2. p.Id \in Id /\ p.IpAddress \in Node
    BY <1>4, <2>1 DEF Peer
  <2>3. r \in Object
    <3>1. (n \in Reconnecting) \in BOOLEAN
      BY SMT
    <3> HIDE DEF p
    <3> QED BY <2>2, <3>1, NewType
  <2>4. joinQueue' \in [Node -> Seq(Peer)]
    BY <1>0, <1>4, <2>1, QueueType
  <2> HIDE DEF p, r
  <2>5. EndsType'
    BY <1>0, <2>1, <2>3, JoinType
  <2>6. TablesType'
    BY <1>0, <2>1, <2>2, <2>4 DEF TablesType
  <2> QED BY <1>1, <2>5, <2>6
<1>7. CASE StorePending(n)
  <2>1. /\ pendingConn' = [pendingConn EXCEPT ![n] = @ \cup storing[n]]
        /\ storing' = [storing EXCEPT ![n] = {}]
        /\ UNCHANGED <<state, ends, remoteNodes, size, joinQueue, faults>>
    BY <1>7 DEF StorePending
  <2>2. EndsType'
    BY <1>0, <2>1 DEF EndsType
  <2>3. TablesType'
    BY <1>0, <2>1 DEF TablesType
  <2> QED BY <1>1, <2>2, <2>3
<1> QED BY <1>2, <1>3, <1>5, <1>6, <1>7 DEF NodeSteps

LEMMA OffStep == TypeOK /\ OffJoins /\ [Next]_vars => OffJoins'
<1> SUFFICES ASSUME TypeOK, OffJoins, [Next]_vars PROVE OffJoins'
  OBVIOUS
<1>1. ASSUME state' = state PROVE OffJoins'
  BY <1>1 DEF OffJoins
<1>2. ASSUME NEW e \in End, Steps(e) \/ Faulty(e) PROVE state' = state
  BY <1>2
     DEF Steps, Faulty, connect, nobodyListens, dialFails, unableToConnect, sendVerify, firstPing,
         Dropped, handleVerify, addVerified, handleVerifyOK, askSync, waitExpires, handlePing,
         handlePong, handleSyncRequest, handleSyncResponse, connectionFails, peerClosed, tearDown,
         removeEntry
<1>3. ASSUME NEW n \in Node, Start(n) \/ NodeSteps(n) PROVE OffJoins'
  <2>1. CASE Start(n) \/ Started(n)
    <3>1. PICK s \in {"starting", "started"} : state' = [state EXCEPT ![n] = s]
      BY <2>1 DEF Start, Started
    <3> QED BY <3>1 DEF OffJoins, TypeOK
  <2>2. CASE SkipPeer(n) \/ DialPeer(n) \/ StorePending(n)
    BY <1>1, <2>2 DEF SkipPeer, DialPeer, StorePending
  <2> QED BY <1>3, <2>1, <2>2 DEF NodeSteps
<1>4. CASE UNCHANGED vars
  BY <1>1, <1>4 DEF vars
<1> QED BY <1>1, <1>2, <1>3, <1>4 DEF Next

(* Objects, inboxes and the tables of every node keep their types, for any *)
(* nodes and connections.  TypeOK is not inductive: a request for peers is *)
(* answered from what remoteNodes names, which must not be Gone (IInv),    *)
(* and Start dials an address only a node that joins has (OffJoins).       *)
THEOREM TypesHold == Spec => []TypeOK
<1> DEFINE TypeInv == TypeOK /\ OffJoins
<1>1. Init => TypeInv
  <2> SUFFICES ASSUME Init PROVE TypeInv
    OBVIOUS
  <2>1. OffJoins
    BY DEF Init, OffJoins
  <2>2. EndsType
    BY DEF Init, EndsType
  <2>3. TablesType
    <3>1. <<>> \in Seq(Peer) /\ 0 \in 0 .. MaxFaults
      BY MembershipAssumption, SMT
    <3> QED BY <3>1, SMT DEF Init, TablesType
  <2> QED BY <2>1, <2>2, <2>3 DEF TypeOK, EndsType, TablesType
<1>2. TypeInv /\ IInv /\ [Next]_vars => TypeInv'
  <2> SUFFICES ASSUME TypeInv, IInv, [Next]_vars PROVE TypeInv'
    OBVIOUS
  <2>1. OffJoins'
    BY OffStep
  <2>2. ASSUME NEW e \in End, Steps(e) \/ Faulty(e) PROVE TypeOK'
    BY <2>2, EndTypes
  <2>3. ASSUME NEW n \in Node, Start(n) \/ NodeSteps(n) PROVE TypeOK'
    BY <2>3, NodeTypes
  <2>4. CASE UNCHANGED vars
    BY <2>1, <2>4 DEF vars, TypeOK
  <2> QED BY <2>1, <2>2, <2>3, <2>4 DEF Next
<1> QED BY <1>1, <1>2, IInvHolds, PTL DEF Spec
=============================================================================
