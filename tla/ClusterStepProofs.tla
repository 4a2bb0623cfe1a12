------------------------- MODULE ClusterStepProofs --------------------------
(***************************************************************************)
(* What a step of a cluster does, for any number of nodes, keys, workers,  *)
(* writes and Gets: first variable by variable (the Effects lemmas), then  *)
(* to the connections, the messages on their way, the caches and the Gets. *)
(* The conjuncts of the inductive invariant are defined here; that on      *)
(* types and that on the modes of connections are shown to be preserved.   *)
(***************************************************************************)
EXTENDS ClusterGet, TLAPS

(* Most leaves are first-order and left to Zenon; those that are not say SMT. *)
USE Zenon

(* The messages. *)
Verifies == [code : {"VERIFY"}, mode : {"ACTIVE", "PASSIVE"}]
Puts == [code : {"PUT"}, key : Key, value : Nat, expiry : Nat]
Dels == [code : {"DEL"}, key : Key]
GetReqs == [code : {"GETREQ"}, key : Key, pending : Key \X Nat]
GetRsps == [code : {"GETRSP"}, pending : Key \X Nat, value : Nat]
Data == Puts \cup Dels
Message == Verifies \cup Data \cup GetReqs \cup GetRsps

Items == [r : Node, msg : Data]
Requests == [pc : {"check", "store"}, r : Node, id : Nat, key : Key]
Points == {"idle", "peers", "ask", "wait", "got"}
Getters == [pc : Points, key : Key \cup {0}, id : Nat, todo : SUBSET Node, value : Nat]
Ends == [state : {"handshake", "connected", "disconnected"}, up : BOOLEAN,
         mode : {"unset", "ACTIVE", "PASSIVE"}, adding : BOOLEAN]

LinkTypes ==
    /\ status \in [Node -> {"started", "ended", "dead"}]
    /\ link \in [Pair -> Ends]
    /\ peers \in [Node -> SUBSET Node]
    /\ \A n \in Node : peers[n] \subseteq {m \in Node : <<n, m>> \in Pair}
    /\ net \in [Pair -> Seq(Message)]

DataTypes ==
    /\ now \in Nat /\ now >= 2
    /\ writes \in 0 .. MaxWrites
    /\ writer \in [Node -> {Idle} \cup [pc : {"wrote", "loop"}, msg : Data, todo : SUBSET Node]]
    /\ replicationChan \in [Node -> Seq(Items)]
    /\ worker \in [Node -> [Workers -> Seq(Items)]]
    /\ cache \in [Node -> [Key -> [value : Nat, expiry : Nat]]]

GetTypes ==
    /\ gets \in 0 .. MaxGets
    /\ getter \in [Node -> Getters]
    /\ getRequestChan \in [Node -> Seq(Requests)]
    /\ getWorker \in [Node -> Requests \cup {NoWork}]
    /\ pendingGet \in [Pair -> (SUBSET ((Key \X Nat) \X Nat)) \cup {Nil}]

TypeInv == LinkTypes /\ DataTypes /\ GetTypes

(* The messages on the way from q[1] to q[2]. *)
Elems(s) == {s[i] : i \in DOMAIN s}
On(q) == Elems(net[q])

(* A PUT or DEL x of n is on its way to m. *)
OnWay(n, m, x) ==
    \/ writer[n].pc = "loop" /\ x = writer[n].msg /\ m \in writer[n].todo
    \/ [r |-> m, msg |-> x] \in Elems(replicationChan[n])
    \/ \E w \in Workers : worker[n][w] # <<>> /\ worker[n][w][1] = [r |-> m, msg |-> x]
    \/ <<n, m>> \in Pair /\ x \in On(<<n, m>>)

(* The other end is known to be passive, or not, before it is registered.  *)
ModeInv ==
    /\ \A q \in Pair : \A x \in On(q) : x.code = "VERIFY" => x.mode = Mode(q[1])
    /\ \A p \in Pair : link[p].adding \/ p[2] \in peers[p[1]] => link[p].mode = Mode(p[2])

(* Nothing is sent to a passive node but VERIFY and what it asked for. *)
Reachable(n, m) == <<n, m>> \in Pair /\ m \notin Passive

DestInv ==
    /\ \A n, m \in Node, x \in Data : OnWay(n, m, x) => Reachable(n, m)
    /\ \A n \in Node :
          /\ getter[n].pc # "idle" => getter[n].key \in Key
          /\ \A m \in getter[n].todo : Reachable(n, m)
          /\ \A g \in Elems(getRequestChan[n]) : Reachable(n, g.r)
          /\ getWorker[n] # NoWork => Reachable(n, getWorker[n].r)
    /\ \A q \in Pair : \A x \in On(q) : x.code = "GETREQ" => q[2] \notin Passive

(* Nothing goes down by itself. *)
SafeInv ==
    /\ ~broken => /\ \A n \in Node : status[n] = "started"
                  /\ \A p \in Pair : link[p].up /\ pendingGet[p] # Nil
    /\ broken => lossy

(* A request is for the key of the Get that made it. *)
Asks(n, id, key) == id \in 1 .. gets /\ (id = getter[n].id => key = getter[n].key)

ReplyInv ==
    /\ \A n \in Node :
          /\ getter[n].id <= gets
          /\ getter[n].pc = "idle" <=> getter[n].id = 0
          /\ \A g \in Elems(getRequestChan[n]) : Asks(n, g.id, g.key)
          /\ getWorker[n] # NoWork => Asks(n, getWorker[n].id, getWorker[n].key)
    /\ \A p \in Pair : pendingGet[p] # Nil => \A x \in pendingGet[p] : x[2] = x[1][2]
    /\ \A q \in Pair : \A x \in On(q) : x.code = "GETREQ" =>
          x.pending[1] = x.key /\ Asks(q[1], x.pending[2], x.key)
    /\ \A q \in Pair : \A x \in On(q) : x.code = "GETRSP" =>
          /\ x.pending[2] \in 1 .. gets
          /\ x.pending[2] = getter[q[2]].id /\ x.value # 0 => x.value \in seen[q[2]]
    /\ GetRegular

(* The expiry f of a copy of an entry that expires at e. *)
Copy(e, f) == IF e = NO_EXPIRY THEN f = NO_EXPIRY ELSE f \in {e - 1, e} \ {NO_EXPIRY}

Begun(n) == writer[n] # Idle

ValueInv ==
    /\ \A n \in Node, k \in Key : /\ cache[n][k].value <= writes
                                  /\ cache[n][k].value = 0 \/ n \in Passive => cache[n][k] = None
    /\ \A n \in Node : Begun(n) /\ writer[n].msg.code = "PUT" => writer[n].msg.value \in 1 .. writes
    /\ \A n, m \in Node, x \in Puts : OnWay(n, m, x) => x.value \in 1 .. writes

(* What carries the value v says that it expires at e. *)
Expires(v, e) ==
    /\ \A n \in Node : Begun(n) /\ writer[n].msg.code = "PUT" /\ writer[n].msg.value = v =>
          writer[n].msg.expiry = e
    /\ \A n, m \in Node, x \in Puts : OnWay(n, m, x) /\ x.value = v => x.expiry = e
    /\ ~exact => \A n \in Node, k \in Key : cache[n][k].value = v => Copy(e, cache[n][k].expiry)

ExpiryInv == \A v \in 1 .. writes : \E e \in Nat : Expires(v, e)

(* The last write of k is that of v, which expires at e; 0 for a Delete. *)
Change(k, v, e) ==
    IF v = 0 THEN [code |-> "DEL", key |-> k]
    ELSE [code |-> "PUT", key |-> k, value |-> v, expiry |-> e]

Settled(m, k, v, e) ==
    \/ cache[m][k].value = v /\ (v # 0 => Copy(e, cache[m][k].expiry))
    \/ cache[m][k] = None /\ e # NO_EXPIRY /\ now >= 2 * (e - 1)

Due(m, k) ==
    \E n \in Node :
       \/ writer[n].pc = "wrote" /\ writer[n].msg.key = k /\ n # m
       \/ \E x \in Data : x.key = k /\ OnWay(n, m, x)

LastWrite(k, v, e) ==
    /\ \A n \in Node : Begun(n) /\ writer[n].msg.key = k => writer[n].msg = Change(k, v, e)
    /\ \A n, m \in Node, x \in Data : OnWay(n, m, x) /\ x.key = k => x = Change(k, v, e)
    /\ \A m \in Caching : Settled(m, k, v, e) \/ Due(m, k)

AgreeInv ==
    /\ Spaced /\ ~lossy => \A n \in Node : Begun(n) => AllLinked
    /\ Spaced /\ ~lossy /\ ~exact => \A k \in Key : \E v, e \in Nat : LastWrite(k, v, e)

-----------------------------------------------------------------------------
(* Sequences as sets. *)
LEMMA ElemsEmpty == Elems(<<>>) = {}
BY SMT DEF Elems

LEMMA ElemsTail ==
    ASSUME NEW S, NEW s \in Seq(S), s # <<>>
    PROVE  /\ Head(s) \in S /\ Head(s) \in Elems(s)
           /\ Tail(s) \in Seq(S) /\ Elems(Tail(s)) \subseteq Elems(s)
           /\ Elems(s) \subseteq Elems(Tail(s)) \cup {Head(s)}
<1>1. /\ Len(s) \in Nat \ {0} /\ DOMAIN s = 1 .. Len(s) /\ Head(s) = s[1] /\ s[1] \in S
      /\ Tail(s) \in Seq(S) /\ DOMAIN Tail(s) = 1 .. Len(s) - 1
      /\ \A i \in 1 .. Len(s) - 1 : Tail(s)[i] = s[i + 1]
  BY SMT
<1>2. Elems(s) = {s[i] : i \in 1 .. Len(s)} /\ Elems(Tail(s)) = {s[i + 1] : i \in 1 .. Len(s) - 1}
  BY <1>1 DEF Elems
<1>3. Elems(Tail(s)) \subseteq Elems(s)
  BY <1>1, <1>2, SMT
<1>4. ASSUME NEW i \in 1 .. Len(s), i # 1 PROVE s[i] \in Elems(Tail(s))
  <2>1. i - 1 \in 1 .. Len(s) - 1 /\ s[i] = s[(i - 1) + 1]
    BY <1>1, <1>4, SMT
  <2> QED BY <1>2, <2>1
<1> QED BY <1>1, <1>2, <1>3, <1>4, SMT

LEMMA ElemsAppend ==
    ASSUME NEW S, NEW s \in Seq(S), NEW x \in S
    PROVE  Append(s, x) \in Seq(S) /\ Elems(Append(s, x)) = Elems(s) \cup {x}
<1>1. /\ Len(s) \in Nat /\ DOMAIN s = 1 .. Len(s) /\ Append(s, x) \in Seq(S)
      /\ DOMAIN Append(s, x) = 1 .. Len(s) + 1 /\ Append(s, x)[Len(s) + 1] = x
      /\ \A i \in 1 .. Len(s) : Append(s, x)[i] = s[i]
  BY SMT
<1>2. \A i : i \in 1 .. Len(s) + 1 <=> i \in 1 .. Len(s) \/ i = Len(s) + 1
  BY <1>1, SMT
<1> QED BY <1>1, <1>2 DEF Elems

LEMMA ElemsConcat ==
    ASSUME NEW S, NEW s \in Seq(S), NEW t \in Seq(S)
    PROVE  s \o t \in Seq(S) /\ Elems(s \o t) \subseteq Elems(s) \cup Elems(t)
<1>1. /\ s \o t \in Seq(S) /\ Len(s \o t) = Len(s) + Len(t)
      /\ \A i \in 1 .. Len(s) + Len(t) :
            (s \o t)[i] = IF i <= Len(s) THEN s[i] ELSE t[i - Len(s)]
  BY SMT
<1>2. /\ DOMAIN s = 1 .. Len(s) /\ DOMAIN t = 1 .. Len(t)
      /\ DOMAIN (s \o t) = 1 .. Len(s) + Len(t) /\ Len(s) \in Nat /\ Len(t) \in Nat
  BY <1>1, SMT
<1>3. ASSUME NEW i \in 1 .. Len(s) + Len(t) PROVE (s \o t)[i] \in Elems(s) \cup Elems(t)
  <2>1. CASE i <= Len(s)
    BY <1>1, <1>2, <2>1, SMT DEF Elems
  <2>2. CASE ~(i <= Len(s))
    <3>1. i - Len(s) \in DOMAIN t /\ (s \o t)[i] = t[i - Len(s)]
      BY <1>1, <1>2, <2>2, SMT
    <3> QED BY <3>1 DEF Elems
  <2> QED BY <2>1, <2>2
<1> QED BY <1>1, <1>2, <1>3 DEF Elems

LEMMA ElemsWithout ==
    ASSUME NEW S, NEW s \in Seq(S), NEW k \in DOMAIN s
    PROVE  Without(s, k) \in Seq(S) /\ Elems(Without(s, k)) \subseteq Elems(s)
<1> DEFINE a == SubSeq(s, 1, k - 1)
           b == SubSeq(s, k + 1, Len(s))
<1>1. Len(s) \in Nat /\ DOMAIN s = 1 .. Len(s) /\ k \in 1 .. Len(s)
  BY SMT
<1>2. a \in Seq(S) /\ b \in Seq(S)
  BY <1>1, SMT
<1>3. Elems(a) \subseteq Elems(s)
  <2>1. ASSUME NEW i \in DOMAIN a PROVE a[i] = s[i] /\ i \in DOMAIN s
    BY <1>1, <2>1, SMT
  <2> QED BY <2>1 DEF Elems
<1>4. Elems(b) \subseteq Elems(s)
  <2>1. ASSUME NEW i \in DOMAIN b PROVE b[i] = s[k + i] /\ k + i \in DOMAIN s
    BY <1>1, <2>1, SMT
  <2> QED BY <2>1 DEF Elems
<1>5. Without(s, k) = a \o b
  BY DEF Without
<1> HIDE DEF a, b
<1> QED BY <1>2, <1>3, <1>4, <1>5, ElemsConcat

-----------------------------------------------------------------------------
(* What a step does, variable by variable. *)

(* Why a node may end by itself. *)
Cause(n) ==
    \/ status[n] = "ended"
    \/ getData(n) /\ pendingGet[<<n, getWorker[n].r>>] = Nil
    \/ \E p \in Pair :
          /\ p[1] = n
          /\ \/ n \in Passive /\ (handlePut(p) \/ handleDelete(p) \/ handleGetRequest(p))
             \/ pendingGet[p] = Nil

LEMMA LinkEffects ==
    ASSUME [Next]_vars
    PROVE  \/ UNCHANGED <<status, link, peers, broken>>
           \/ \E n \in Node : Panic(n) /\ Cause(n)
           \/ \E p \in Pair : handleVerify(p) \/ addVerified(p) \/ connectionFails(p) \/ peerClosed(p)
           \/ \E p \in Pair : tearDownAll(p)
           \/ \E n \in Node : ShutDownAll(n)
<1>1. CASE UNCHANGED vars
  BY <1>1 DEF vars, linkVars
<1>2. ASSUME NEW p \in Pair, LinkStep(p) PROVE
           \/ UNCHANGED <<status, link, peers, broken>>
           \/ handleVerify(p) \/ addVerified(p) \/ connectionFails(p) \/ peerClosed(p)
           \/ tearDownAll(p)
  BY <1>2 DEF LinkStep, Dropped
<1>3. ASSUME NEW p \in Pair, ReplicaStep(p)
      PROVE  UNCHANGED <<status, link, peers, broken>> \/ (Panic(p[1]) /\ Cause(p[1]))
  BY <1>3 DEF ReplicaStep, handlePut, handleDelete, Writes, Cause
<1>4. ASSUME NEW p \in Pair, AnswerStep(p)
      PROVE  UNCHANGED <<status, link, peers, broken>> \/ (Panic(p[1]) /\ Cause(p[1]))
  BY <1>4 DEF AnswerStep, handleGetRequest, handleGetResponse, Cause
<1>5. ASSUME NEW p \in Pair PROVE p[1] \in Node
  BY DEF Pair
<1>6. ASSUME NEW n \in Node, WriteStep(n)
      PROVE  UNCHANGED <<status, link, peers, broken>> \/ (Panic(n) /\ Cause(n))
  BY <1>6 DEF WriteStep, replicate, sendReplication, linkVars, Cause
<1>7. ASSUME NEW n \in Node, GetStep(n)
      PROVE  UNCHANGED <<status, link, peers, broken>> \/ (Panic(n) /\ Cause(n))
  BY <1>7 DEF GetStep, askPeer, getData, linkVars, Cause
<1>8. CASE Tick /\ UNCHANGED <<linkVars, getVars>>
  BY <1>8 DEF linkVars
<1> QED BY <1>1, <1>2, <1>3, <1>4, <1>5, <1>6, <1>7, <1>8 DEF Next

LEMMA LossyStays ==
    ASSUME [Next]_vars, lossy
    PROVE  lossy'
<1>1. CASE UNCHANGED vars
  BY <1>1 DEF vars, linkVars
<1>2. ASSUME NEW p \in Pair, LinkStep(p) PROVE lossy'
  BY <1>2 DEF LinkStep, Dropped, handleVerify, addVerified, connectionFails, peerClosed, Closes,
              tearDownAll, tearDown
<1>3. ASSUME NEW p \in Pair, ReplicaStep(p) PROVE lossy'
  BY <1>3 DEF ReplicaStep, handlePut, handleDelete, Writes, Panic
<1>4. ASSUME NEW p \in Pair, AnswerStep(p) PROVE lossy'
  BY <1>4 DEF AnswerStep, handleGetRequest, handleGetResponse, Panic
<1>5. ASSUME NEW n \in Node, WriteStep(n) PROVE lossy'
  BY <1>5 DEF WriteStep, replicate, sendReplication, linkVars, Panic
<1>6. ASSUME NEW n \in Node, GetStep(n) PROVE lossy'
  BY <1>6 DEF GetStep, askPeer, getData, linkVars, Panic
<1>7. ASSUME NEW n \in Node, ShutDownAll(n) PROVE lossy'
  BY <1>7 DEF ShutDownAll, ShutDown
<1>8. CASE Tick /\ UNCHANGED <<linkVars, getVars>>
  BY <1>8 DEF linkVars
<1> QED BY <1>1, <1>2, <1>3, <1>4, <1>5, <1>6, <1>7, <1>8 DEF Next

LEMMA NetEffects ==
    ASSUME [Next]_vars
    PROVE  \/ UNCHANGED net
           \/ /\ UNCHANGED <<writer, replicationChan, worker>>
              /\ \E p \in Pair : \/ Dropped(p) \/ connectionFails(p) \/ peerClosed(p)
                                 \/ handleVerify(p) \/ handlePut(p) \/ handleDelete(p)
                                 \/ handleGetRequest(p) /\ UNCHANGED cache
                                 \/ handleGetResponse(p)
           \/ UNCHANGED <<writer, replicationChan, worker>> /\ \E n \in Node : getData(n)
           \/ \E n \in Node, w \in Workers : sendReplication(n, w)
<1>1. CASE UNCHANGED vars
  BY <1>1 DEF vars, linkVars
<1>2. ASSUME NEW p \in Pair, LinkStep(p)
      PROVE  \/ UNCHANGED net
             \/ /\ UNCHANGED <<writer, replicationChan, worker>>
                /\ Dropped(p) \/ connectionFails(p) \/ peerClosed(p) \/ handleVerify(p)
  BY <1>2 DEF LinkStep, replVars, addVerified, tearDownAll, tearDown
<1>3. ASSUME NEW p \in Pair, ReplicaStep(p)
      PROVE  UNCHANGED <<writer, replicationChan, worker>> /\ (handlePut(p) \/ handleDelete(p))
  BY <1>3 DEF ReplicaStep, handlePut, handleDelete
<1>4. ASSUME NEW p \in Pair, AnswerStep(p)
      PROVE  /\ UNCHANGED <<writer, replicationChan, worker>>
             /\ (handleGetRequest(p) /\ UNCHANGED cache) \/ handleGetResponse(p)
  BY <1>4 DEF AnswerStep, replVars
<1>5. ASSUME NEW n \in Node, WriteStep(n)
      PROVE  UNCHANGED net \/ \E w \in Workers : sendReplication(n, w)
  BY <1>5 DEF WriteStep, replicate, linkVars
<1>6. ASSUME NEW n \in Node, GetStep(n)
      PROVE  UNCHANGED net \/ (UNCHANGED <<writer, replicationChan, worker>> /\ getData(n))
  BY <1>6 DEF GetStep, askPeer, linkVars, replVars
<1>7. ASSUME NEW n \in Node, ShutDownAll(n) PROVE UNCHANGED net
  BY <1>7 DEF ShutDownAll, ShutDown
<1>8. CASE Tick /\ UNCHANGED <<linkVars, getVars>>
  BY <1>8 DEF linkVars
<1> QED BY <1>1, <1>2, <1>3, <1>4, <1>5, <1>6, <1>7, <1>8 DEF Next

LEMMA WriteEffects ==
    ASSUME [Next]_vars
    PROVE  \/ UNCHANGED <<writer, replicationChan, worker, writes>>
           \/ /\ UNCHANGED linkVars
              /\ \E n \in Node : \/ \E k \in Key, d \in Durations : Put(n, k, d)
                                 \/ \E k \in Key : Delete(n, k)
                                 \/ listPeers(n)
                                 \/ \E w \in Workers : takeReplication(n, w)
           \/ \E n \in Node : replicate(n) \/ \E w \in Workers : sendReplication(n, w)
<1>1. CASE UNCHANGED vars
  BY <1>1 DEF vars, replVars
<1>2. ASSUME NEW p \in Pair, LinkStep(p) \/ ReplicaStep(p) \/ AnswerStep(p)
      PROVE  UNCHANGED <<writer, replicationChan, worker, writes>>
  BY <1>2 DEF LinkStep, ReplicaStep, AnswerStep, handlePut, handleDelete, replVars
<1>3. ASSUME NEW n \in Node, WriteStep(n)
      PROVE  \/ UNCHANGED <<writer, replicationChan, worker, writes>>
             \/ /\ UNCHANGED linkVars
                /\ \/ \E k \in Key, d \in Durations : Put(n, k, d)
                   \/ \E k \in Key : Delete(n, k)
                   \/ listPeers(n)
                   \/ \E w \in Workers : takeReplication(n, w)
             \/ replicate(n) \/ \E w \in Workers : sendReplication(n, w)
  BY <1>3 DEF WriteStep, evict
<1>4. ASSUME NEW n \in Node, GetStep(n) PROVE UNCHANGED <<writer, replicationChan, worker, writes>>
  BY <1>4 DEF GetStep, replVars
<1>5. CASE Tick
  BY <1>5 DEF Tick
<1>6. CASE UNCHANGED replVars
  BY <1>6 DEF replVars
<1> QED BY <1>1, <1>2, <1>3, <1>4, <1>5, <1>6 DEF Next

LEMMA CacheEffects ==
    ASSUME [Next]_vars
    PROVE  \/ UNCHANGED <<cache, now, exact>>
           \/ /\ UNCHANGED <<now, exact>>
              /\ \E n \in Node : \/ \E k \in Key, d \in Durations : Put(n, k, d)
                                 \/ \E k \in Key : Delete(n, k) \/ evict(n, k)
           \/ \E p \in Pair : handlePut(p) \/ handleDelete(p)
           \/ Tick
<1>1. CASE UNCHANGED vars
  BY <1>1 DEF vars, replVars
<1>2. ASSUME NEW p \in Pair, LinkStep(p) \/ AnswerStep(p)
      PROVE  UNCHANGED <<cache, now, exact>>
  BY <1>2 DEF LinkStep, AnswerStep, replVars
<1>3. ASSUME NEW p \in Pair, ReplicaStep(p) PROVE handlePut(p) \/ handleDelete(p)
  BY <1>3 DEF ReplicaStep
<1>4. ASSUME NEW n \in Node, WriteStep(n)
      PROVE  \/ UNCHANGED <<cache, now, exact>>
             \/ /\ UNCHANGED <<now, exact>>
                /\ \/ \E k \in Key, d \in Durations : Put(n, k, d)
                   \/ \E k \in Key : Delete(n, k) \/ evict(n, k)
  BY <1>4 DEF WriteStep, Put, Delete, evict, listPeers, takeReplication, replicate, sendReplication
<1>5. ASSUME NEW n \in Node, GetStep(n) PROVE UNCHANGED <<cache, now, exact>>
  BY <1>5 DEF GetStep, replVars
<1>6. CASE UNCHANGED replVars
  BY <1>6 DEF replVars
<1> QED BY <1>1, <1>2, <1>3, <1>4, <1>5, <1>6 DEF Next

LEMMA GetEffects ==
    ASSUME [Next]_vars
    PROVE  \/ UNCHANGED getVars
           \/ /\ UNCHANGED <<getter, getRequestChan, getWorker, gets>>
              /\ (\E p \in Pair : tearDownAll(p)) \/ (\E n \in Node : ShutDownAll(n))
           \/ /\ UNCHANGED linkVars
              /\ \E n \in Node : \/ \E k \in Key : Get(n, k)
                                 \/ getRemoteNodes(n) \/ waitReply(n) \/ timedOut(n)
                                 \/ getReturns(n) \/ takeGet(n)
           \/ \E n \in Node : askPeer(n) \/ getData(n)
           \/ \E p \in Pair : handleGetResponse(p)
<1>1. CASE UNCHANGED vars
  BY <1>1 DEF vars
<1>2. ASSUME NEW p \in Pair, LinkStep(p)
      PROVE  \/ UNCHANGED getVars
             \/ UNCHANGED <<getter, getRequestChan, getWorker, gets>> /\ tearDownAll(p)
  BY <1>2 DEF LinkStep
<1>3. ASSUME NEW p \in Pair, ReplicaStep(p) \/ AnswerStep(p)
      PROVE  UNCHANGED getVars \/ handleGetResponse(p)
  BY <1>3 DEF ReplicaStep, AnswerStep, handleGetRequest
<1>4. ASSUME NEW n \in Node, WriteStep(n) PROVE UNCHANGED getVars
  BY <1>4 DEF WriteStep
<1>5. ASSUME NEW n \in Node, GetStep(n)
      PROVE  \/ /\ UNCHANGED linkVars
                /\ \/ \E k \in Key : Get(n, k)
                   \/ getRemoteNodes(n) \/ waitReply(n) \/ timedOut(n)
                   \/ getReturns(n) \/ takeGet(n)
             \/ askPeer(n) \/ getData(n)
  BY <1>5 DEF GetStep
<1> QED BY <1>1, <1>2, <1>3, <1>4, <1>5 DEF Next

-----------------------------------------------------------------------------
(* Connections and messages. *)
LEMMA BackPair ==
    ASSUME NEW p \in Pair
    PROVE  /\ Back(p) \in Pair /\ Back(Back(p)) = p
           /\ Back(p)[1] = p[2] /\ Back(p)[2] = p[1]
           /\ p[1] \in Node /\ p[2] \in Node /\ p = <<p[1], p[2]>>
BY SMT DEF Pair, Back

LEMMA Codes ==
    ASSUME NEW x \in Message
    PROVE  /\ x.code = "VERIFY" => x \in Verifies
           /\ x.code = "PUT" => x \in Puts
           /\ x.code = "DEL" => x \in Dels
           /\ x.code = "GETREQ" => x \in GetReqs
           /\ x.code = "GETRSP" => x \in GetRsps
BY DEF Message, Verifies, Data, Puts, Dels, GetReqs, GetRsps

LEMMA DataCodes ==
    ASSUME NEW x \in Data
    PROVE  /\ x \in Message /\ x.key \in Key /\ x.code \in {"PUT", "DEL"}
           /\ x.code = "PUT" => x \in Puts
           /\ x.code = "DEL" => x \in Dels
BY DEF Message, Data, Puts, Dels

LEMMA Received ==
    ASSUME TypeInv, NEW p \in Pair, NEW c, Handles(p, c)
    PROVE  /\ In(p) # <<>> /\ Head(In(p)) \in Message /\ Head(In(p)).code = c
           /\ Head(In(p)) \in On(Back(p))
<1>1. In(p) \in Seq(Message)
  BY BackPair DEF TypeInv, LinkTypes, In
<1>2. In(p) # <<>> /\ Head(In(p)).code = c
  BY DEF Handles
<1>3. Head(In(p)) \in Message /\ Head(In(p)) \in Elems(In(p))
  BY <1>1, <1>2, ElemsTail
<1> QED BY <1>2, <1>3 DEF On, In

LEMMA TookNet ==
    ASSUME TypeInv, NEW p \in Pair, In(p) # <<>>
    PROVE  /\ Took(p) \in [Pair -> Seq(Message)]
           /\ \A q \in Pair : /\ Elems(Took(p)[q]) \subseteq On(q)
                              /\ \A x \in On(q) : x \in Elems(Took(p)[q]) \/ (q = Back(p) /\ x = Head(In(p)))
<1>1. In(p) \in Seq(Message) /\ net \in [Pair -> Seq(Message)] /\ Back(p) \in Pair
  BY BackPair DEF TypeInv, LinkTypes, In
<1>2. /\ Tail(In(p)) \in Seq(Message) /\ Elems(Tail(In(p))) \subseteq Elems(In(p))
      /\ Elems(In(p)) \subseteq Elems(Tail(In(p))) \cup {Head(In(p))}
  BY <1>1, ElemsTail
<1>3. Took(p) = [net EXCEPT ![Back(p)] = Tail(In(p))]
  BY DEF Took, In
<1>4. ASSUME NEW q \in Pair
      PROVE  Took(p)[q] = IF q = Back(p) THEN Tail(In(p)) ELSE net[q]
  BY <1>1, <1>3
<1>5. Took(p) \in [Pair -> Seq(Message)]
  BY <1>1, <1>2, <1>3
<1>6. ASSUME NEW q \in Pair
      PROVE  /\ Elems(Took(p)[q]) \subseteq On(q)
             /\ \A x \in On(q) : x \in Elems(Took(p)[q]) \/ (q = Back(p) /\ x = Head(In(p)))
  <2>1. CASE q = Back(p)
    BY <1>2, <1>4, <2>1 DEF On, In
  <2>2. CASE q # Back(p)
    BY <1>4, <2>2 DEF On
  <2> QED BY <2>1, <2>2
<1> QED BY <1>5, <1>6

LEMMA SentNet ==
    ASSUME NEW nt \in [Pair -> Seq(Message)], NEW p \in Pair, NEW y \in Message
    PROVE  /\ Sent(nt, p, y) \in [Pair -> Seq(Message)]
           /\ \A q \in Pair : /\ Elems(nt[q]) \subseteq Elems(Sent(nt, p, y)[q])
                              /\ \A x \in Elems(Sent(nt, p, y)[q]) : x \in Elems(nt[q]) \/ (q = p /\ x = y)
           /\ Loses(p) \/ y \in Elems(Sent(nt, p, y)[p])
<1>1. CASE Loses(p)
  BY <1>1 DEF Sent
<1>2. CASE ~Loses(p)
  <2>1. Sent(nt, p, y) = [nt EXCEPT ![p] = Append(nt[p], y)]
    BY <1>2 DEF Sent
  <2>2. Append(nt[p], y) \in Seq(Message) /\ Elems(Append(nt[p], y)) = Elems(nt[p]) \cup {y}
    BY ElemsAppend, SMT
  <2>3. ASSUME NEW q \in Pair
        PROVE  Sent(nt, p, y)[q] = IF q = p THEN Append(nt[p], y) ELSE nt[q]
    BY <2>1
  <2>4. Sent(nt, p, y) \in [Pair -> Seq(Message)]
    BY <2>1, <2>2
  <2> QED BY <2>2, <2>3, <2>4
<1> QED BY <1>1, <1>2

(* A request or a reply, and where it comes from. *)
NewData(q, x) ==
    \E w \in Workers : sendReplication(q[1], w) /\ worker[q[1]][w][1] = [r |-> q[2], msg |-> x]

NewRequest(q, x) ==
    LET g == getWorker[q[1]] IN
    /\ getData(q[1]) /\ g.pc = "store" /\ g.r = q[2]
    /\ x = [code |-> "GETREQ", key |-> g.key, pending |-> PendingKey(g.key, g.id)]

NewReply(q, x) ==
    LET m == Head(In(q)) IN
    /\ handleGetRequest(q) /\ q[1] \notin Passive /\ UNCHANGED cache
    /\ x = [code |-> "GETRSP", pending |-> m.pending, value |-> cache[q[1]][m.key].value]

NewOn(q, x) == NewData(q, x) \/ NewRequest(q, x) \/ NewReply(q, x)

(* p handles the message x. *)
Handled(p, x) ==
    /\ \/ handleVerify(p) \/ handlePut(p) \/ handleDelete(p)
       \/ handleGetRequest(p) \/ handleGetResponse(p)
    /\ x = Head(In(p))

NetMoves ==
    /\ net' \in [Pair -> Seq(Message)]
    /\ \A q \in Pair : /\ \A x \in On(q)' : x \in On(q) \/ NewOn(q, x)
                       /\ \A x \in On(q) : x \in On(q)' \/ lossy' \/ Handled(Back(q), x)

(* The item a worker has is for another node. *)
LEMMA WorkerSends ==
    ASSUME TypeInv, DestInv, NEW n \in Node, NEW w \in Workers, worker[n][w] # <<>>
    PROVE  /\ worker[n][w][1] \in Items
           /\ worker[n][w][1] = [r |-> worker[n][w][1].r, msg |-> worker[n][w][1].msg]
           /\ Reachable(n, worker[n][w][1].r)
<1> DEFINE item == worker[n][w][1]
<1>1. item \in Items
  <2>1. worker[n][w] \in Seq(Items)
    BY DEF TypeInv, DataTypes
  <2> QED BY <2>1, SMT
<1>2. item = [r |-> item.r, msg |-> item.msg] /\ item.r \in Node /\ item.msg \in Data
  BY <1>1 DEF Items
<1>3. OnWay(n, item.r, item.msg)
  BY <1>2 DEF OnWay
<1> QED BY <1>1, <1>2, <1>3 DEF DestInv

LEMMA NetStep ==
    ASSUME TypeInv, DestInv, [Next]_vars
    PROVE  NetMoves
<1>0. net \in [Pair -> Seq(Message)]
  BY DEF TypeInv, LinkTypes
<1>1. CASE UNCHANGED net
  BY <1>0, <1>1 DEF NetMoves, On
<1>2. ASSUME NEW p \in Pair, net' = Took(p), In(p) # <<>>, Handled(p, Head(In(p)))
      PROVE  NetMoves
  <2>1. \A q \in Pair : q = Back(p) => Back(q) = p
    BY BackPair
  <2>2. \A q \in Pair : On(q)' = Elems(Took(p)[q])
    BY <1>2 DEF On
  <2>3. /\ Took(p) \in [Pair -> Seq(Message)]
        /\ \A q \in Pair : /\ Elems(Took(p)[q]) \subseteq On(q)
                           /\ \A x \in On(q) : x \in Elems(Took(p)[q]) \/ (q = Back(p) /\ x = Head(In(p)))
    BY <1>2, TookNet
  <2> QED BY <1>2, <2>1, <2>2, <2>3 DEF NetMoves
<1>3. ASSUME NEW p \in Pair, Dropped(p) PROVE NetMoves
  <2>1. PICK k \in DOMAIN In(p) : net' = [net EXCEPT ![Back(p)] = Without(@, k)]
    BY <1>3 DEF Dropped
  <2>2. Back(p) \in Pair /\ In(p) = net[Back(p)] /\ In(p) \in Seq(Message)
    BY <1>0, BackPair DEF In
  <2>3. Without(In(p), k) \in Seq(Message) /\ Elems(Without(In(p), k)) \subseteq Elems(In(p))
    BY <2>2, ElemsWithout
  <2>4. ASSUME NEW q \in Pair PROVE net'[q] = IF q = Back(p) THEN Without(In(p), k) ELSE net[q]
    BY <1>0, <2>1, <2>2
  <2>5. net' \in [Pair -> Seq(Message)]
    BY <1>0, <2>1, <2>2, <2>3
  <2>6. lossy'
    BY <1>3 DEF Dropped
  <2> QED BY <2>2, <2>3, <2>4, <2>5, <2>6 DEF NetMoves, On
<1>4. ASSUME NEW p \in Pair, Closes(p) PROVE NetMoves
  <2> DEFINE empty == <<>>
  <2>1. net' = [net EXCEPT ![Back(p)] = empty] /\ lossy'
    BY <1>4 DEF Closes
  <2>2. empty \in Seq(Message) /\ Elems(empty) = {}
    BY ElemsEmpty, SMT
  <2> HIDE DEF empty
  <2>3. net' \in [Pair -> Seq(Message)]
    BY <1>0, <2>1, <2>2
  <2>4. ASSUME NEW q \in Pair PROVE net'[q] = IF q = Back(p) THEN empty ELSE net[q]
    BY <1>0, <2>1
  <2> QED BY <2>1, <2>2, <2>3, <2>4 DEF NetMoves, On
<1>5. ASSUME NEW p \in Pair,
             handleVerify(p) \/ handlePut(p) \/ handleDelete(p) \/ handleGetResponse(p)
      PROVE  NetMoves
  <2>1. net' = Took(p) /\ In(p) # <<>>
    BY <1>5 DEF handleVerify, handlePut, handleDelete, handleGetResponse, Handles
  <2> QED BY <1>2, <1>5, <2>1 DEF Handled
<1>6. ASSUME NEW p \in Pair, handleGetRequest(p), UNCHANGED cache PROVE NetMoves
  <2> DEFINE m == Head(In(p))
             y == [code |-> "GETRSP", pending |-> m.pending, value |-> cache[p[1]][m.key].value]
  <2>1. Handles(p, "GETREQ") /\ In(p) # <<>>
    BY <1>6 DEF handleGetRequest, Handles
  <2>2. CASE p[1] \in Passive
    BY <1>2, <1>6, <2>1, <2>2 DEF handleGetRequest, Handled
  <2>3. CASE p[1] \notin Passive
    <3>1. net' = Sent(Took(p), p, y)
      BY <1>6, <2>3 DEF handleGetRequest
    <3>2. m \in GetReqs
      BY <2>1, Received, Codes
    <3>3. y \in Message
      <4>1. m.pending \in Key \X Nat /\ m.key \in Key
        BY <3>2 DEF GetReqs
      <4>2. cache[p[1]][m.key].value \in Nat
        BY <4>1, BackPair, SMT DEF TypeInv, DataTypes
      <4> HIDE DEF m
      <4> QED BY <4>1, <4>2 DEF Message, GetRsps
    <3> HIDE DEF y
    <3>4. Took(p) \in [Pair -> Seq(Message)]
      BY <2>1, TookNet
    <3>5. /\ net' \in [Pair -> Seq(Message)]
          /\ \A q \in Pair : /\ Elems(Took(p)[q]) \subseteq Elems(net'[q])
                             /\ \A x \in Elems(net'[q]) : x \in Elems(Took(p)[q]) \/ (q = p /\ x = y)
      BY <3>1, <3>3, <3>4, SentNet
    <3>6. NewOn(p, y)
      BY <1>6, <2>3 DEF NewOn, NewReply, y
    <3>7. Handled(p, Head(In(p)))
      BY <1>6 DEF Handled
    <3>8. \A q \in Pair : q = Back(p) => Back(q) = p
      BY BackPair
    <3>9. \A q \in Pair : On(q)' = Elems(net'[q])
      BY DEF On
    <3>10. \A q \in Pair : /\ Elems(Took(p)[q]) \subseteq On(q)
                           /\ \A x \in On(q) : x \in Elems(Took(p)[q]) \/ (q = Back(p) /\ x = Head(In(p)))
      BY <2>1, TookNet
    <3> QED BY <3>5, <3>6, <3>7, <3>8, <3>9, <3>10, SMT DEF NetMoves
  <2> QED BY <2>2, <2>3
<1>7. ASSUME NEW q \in Pair, NEW y \in Message, net' = Sent(net, q, y), NewOn(q, y)
      PROVE  NetMoves
  <2>1. \A o \in Pair : On(o)' = Elems(net'[o]) /\ On(o) = Elems(net[o])
    BY DEF On
  <2>2. /\ net' \in [Pair -> Seq(Message)]
        /\ \A o \in Pair : /\ Elems(net[o]) \subseteq Elems(net'[o])
                           /\ \A x \in Elems(net'[o]) : x \in Elems(net[o]) \/ (o = q /\ x = y)
    BY <1>0, <1>7, SentNet
  <2> QED BY <1>7, <2>1, <2>2 DEF NetMoves
<1>8. ASSUME NEW n \in Node, getData(n) PROVE NetMoves
  <2> DEFINE g == getWorker[n]
             p == <<n, g.r>>
             y == [code |-> "GETREQ", key |-> g.key, pending |-> PendingKey(g.key, g.id)]
  <2>1. g.pc = "store"
    BY <1>8 DEF getData
  <2>2. g # NoWork /\ g \in Requests
    BY <2>1, SMT DEF TypeInv, GetTypes, NoWork
  <2>3. p \in Pair
    BY <2>2 DEF DestInv, Reachable
  <2>4. CASE pendingGet[p] = Nil
    BY <1>1, <1>8, <2>4 DEF getData
  <2>5. CASE pendingGet[p] # Nil
    <3>1. net' = Sent(net, p, y)
      BY <1>8, <2>5 DEF getData
    <3>2. g.key \in Key /\ g.id \in Nat
      BY <2>2 DEF Requests
    <3>3. y \in Message
      BY <3>2 DEF Message, GetReqs, PendingKey
    <3>4. NewOn(p, y)
      BY <1>8, <2>1 DEF NewOn, NewRequest
    <3> QED BY <1>7, <2>3, <3>1, <3>3, <3>4
  <2> QED BY <2>4, <2>5
<1>9. ASSUME NEW n \in Node, NEW w \in Workers, sendReplication(n, w) PROVE NetMoves
  <2> DEFINE item == worker[n][w][1]
             p == <<n, item.r>>
  <2>1. worker[n][w] # <<>> /\ net' = Sent(net, p, item.msg)
    BY <1>9 DEF sendReplication
  <2>2. item \in Items /\ item = [r |-> item.r, msg |-> item.msg] /\ Reachable(n, item.r)
    BY <2>1, WorkerSends
  <2>3. p \in Pair /\ item.msg \in Message
    BY <2>2, DataCodes DEF Reachable, Items
  <2>4. NewOn(p, item.msg)
    BY <1>9, <2>2 DEF NewOn, NewData
  <2> QED BY <1>7, <2>1, <2>3, <2>4
<1> QED BY <1>1, <1>3, <1>4, <1>5, <1>6, <1>8, <1>9, NetEffects DEF connectionFails, peerClosed

-----------------------------------------------------------------------------
(* The ends of the connections. *)
LEMMA EndSet ==
    ASSUME NEW l \in Ends
    PROVE  /\ [l EXCEPT !.adding = FALSE, !.state = "connected"] \in Ends
           /\ [l EXCEPT !.state = "disconnected", !.up = FALSE] \in Ends
BY DEF Ends

LEMMA LinkTypesNext ==
    ASSUME TypeInv, DestInv, [Next]_vars
    PROVE  LinkTypes'
<1> DEFINE Typed ==
      /\ status \in [Node -> {"started", "ended", "dead"}]
      /\ link \in [Pair -> Ends]
      /\ peers \in [Node -> SUBSET Node]
      /\ \A n \in Node : peers[n] \subseteq {m \in Node : <<n, m>> \in Pair}
<1>0. Typed
  BY DEF TypeInv, LinkTypes
<1>1. CASE UNCHANGED <<status, link, peers>>
  BY <1>0, <1>1, NetStep DEF NetMoves, LinkTypes
<1> SUFFICES Typed'
  BY NetStep DEF NetMoves, LinkTypes
<1>2. ASSUME NEW n \in Node, Panic(n) PROVE Typed'
  BY <1>0, <1>2 DEF Panic, Ends
<1>3. ASSUME NEW p \in Pair, handleVerify(p) PROVE Typed'
  <2>1. Head(In(p)).mode \in {"ACTIVE", "PASSIVE"}
    BY <1>3, Received, Codes, SMT DEF handleVerify, Verifies
  <2>2. link' = [link EXCEPT ![p] = [@ EXCEPT !.mode = Head(In(p)).mode, !.adding = TRUE]]
    BY <1>0, <1>3 DEF handleVerify
  <2>3. link' \in [Pair -> Ends]
    BY <1>0, <2>1, <2>2 DEF Ends
  <2> QED BY <1>0, <1>3, <2>3 DEF handleVerify
<1>4. ASSUME NEW p \in Pair, addVerified(p) PROVE Typed'
  <2>1. link' = [link EXCEPT ![p].adding = FALSE, ![p].state = "connected"]
    BY <1>4 DEF addVerified
  <2>2. link' \in [Pair -> Ends]
    <3>1. [link[p] EXCEPT !.adding = FALSE, !.state = "connected"] \in Ends
      BY <1>0, EndSet
    <3> QED BY <1>0, <2>1, <3>1
  <2>3. status' = status /\ peers' = [peers EXCEPT ![p[1]] = @ \cup {p[2]}]
    BY <1>4 DEF addVerified
  <2>4. <<p[1], p[2]>> \in Pair /\ p[1] \in Node /\ p[2] \in Node
    BY BackPair
  <2> QED BY <1>0, <2>2, <2>3, <2>4
<1>5. ASSUME NEW p \in Pair, Closes(p) PROVE Typed'
  <2>1. link' = [link EXCEPT ![p].state = "disconnected", ![p].up = FALSE]
    BY <1>5 DEF Closes
  <2>2. link' \in [Pair -> Ends]
    <3>1. [link[p] EXCEPT !.state = "disconnected", !.up = FALSE] \in Ends
      BY <1>0, EndSet
    <3> QED BY <1>0, <2>1, <3>1
  <2> QED BY <1>0, <1>5, <2>2 DEF Closes
<1>6. ASSUME NEW p \in Pair, tearDownAll(p) PROVE Typed'
  BY <1>0, <1>6 DEF tearDownAll, tearDown
<1>7. ASSUME NEW n \in Node, ShutDownAll(n) PROVE Typed'
  BY <1>0, <1>7 DEF ShutDownAll, ShutDown
<1> QED
  BY <1>1, <1>2, <1>3, <1>4, <1>5, <1>6, <1>7, LinkEffects DEF connectionFails, peerClosed, LinkTypes

(* What is new on a connection. *)
LEMMA NewCodes ==
    ASSUME TypeInv, DestInv, NEW q \in Pair, NEW x, NewOn(q, x)
    PROVE  \/ x \in Data /\ OnWay(q[1], q[2], x)
           \/ NewRequest(q, x) /\ x.code = "GETREQ" /\ Reachable(q[1], q[2])
           \/ NewReply(q, x) /\ x.code = "GETRSP"
<1>1. q[1] \in Node /\ q[2] \in Node
  BY BackPair
<1>2. ASSUME NEW w \in Workers, sendReplication(q[1], w),
             worker[q[1]][w][1] = [r |-> q[2], msg |-> x]
      PROVE  x \in Data /\ OnWay(q[1], q[2], x)
  <2>1. worker[q[1]][w] # <<>>
    BY <1>2 DEF sendReplication
  <2>2. worker[q[1]][w][1] \in Items
    BY <1>1, <2>1, WorkerSends
  <2>3. worker[q[1]][w][1].msg \in Data
    BY <2>2 DEF Items
  <2>4. worker[q[1]][w][1].msg = x
    BY <1>2, SMT
  <2> QED BY <1>2, <2>1, <2>3, <2>4 DEF OnWay
<1>3. ASSUME getWorker[q[1]].pc = "store", getWorker[q[1]].r = q[2]
      PROVE  Reachable(q[1], q[2])
  <2>1. getWorker[q[1]] # NoWork
    BY <1>3, SMT DEF NoWork
  <2> QED BY <1>1, <1>3, <2>1 DEF DestInv
<1>4. NewData(q, x) => x \in Data /\ OnWay(q[1], q[2], x)
  BY <1>2 DEF NewData
<1>5. NewRequest(q, x) => x.code = "GETREQ" /\ Reachable(q[1], q[2])
  BY <1>3, SMT DEF NewRequest
<1>6. NewReply(q, x) => x.code = "GETRSP"
  BY SMT DEF NewReply
<1> QED BY <1>4, <1>5, <1>6 DEF NewOn

(* What the connections and the modes of the ends are, after a step. *)
LEMMA LinkMoves ==
    ASSUME TypeInv, DestInv, [Next]_vars, NEW q \in Pair,
           link'[q].adding \/ q[2] \in peers'[q[1]]
    PROVE  \/ (link[q].adding \/ q[2] \in peers[q[1]]) /\ link'[q].mode = link[q].mode
           \/ handleVerify(q) /\ link'[q].mode = Head(In(q)).mode
<1>0. /\ link \in [Pair -> Ends] /\ peers \in [Node -> SUBSET Node] /\ q[1] \in Node
      /\ q = <<q[1], q[2]>>
  BY BackPair DEF TypeInv, LinkTypes
<1>1. CASE UNCHANGED <<status, link, peers, broken>>
  BY <1>1
<1>2. ASSUME NEW n \in Node, Panic(n)
      PROVE  (link[q].adding \/ q[2] \in peers[q[1]]) /\ link'[q].mode = link[q].mode
  <2>1. /\ link'[q] = link[q] \/ link'[q] = [link[q] EXCEPT !.state = "disconnected", !.up = FALSE]
        /\ peers' = [peers EXCEPT ![n] = {}]
    BY <1>2 DEF Panic
  <2>2. link'[q].adding = link[q].adding /\ link'[q].mode = link[q].mode
    BY <1>0, <2>1 DEF Ends
  <2>3. q[2] \in peers'[q[1]] => q[2] \in peers[q[1]]
    BY <1>0, <2>1
  <2> QED BY <2>2, <2>3
<1>3. ASSUME NEW p \in Pair, handleVerify(p)
      PROVE  \/ (link[q].adding \/ q[2] \in peers[q[1]]) /\ link'[q].mode = link[q].mode
             \/ p = q /\ link'[q].mode = Head(In(q)).mode
  BY <1>0, <1>3 DEF handleVerify, Ends
<1>4. ASSUME NEW p \in Pair, addVerified(p)
      PROVE  (link[q].adding \/ q[2] \in peers[q[1]]) /\ link'[q].mode = link[q].mode
  <2>1. p[1] \in Node /\ p = <<p[1], p[2]>>
    BY BackPair
  <2>2. link'[q].mode = link[q].mode /\ (link'[q].adding => link[q].adding)
    BY <1>0, <1>4 DEF addVerified, Ends
  <2>3. q[2] \in peers'[q[1]] => q[2] \in peers[q[1]] \/ q = p
    BY <1>0, <1>4, <2>1 DEF addVerified
  <2> QED BY <1>4, <2>2, <2>3 DEF addVerified
<1>5. ASSUME NEW p \in Pair, Closes(p)
      PROVE  (link[q].adding \/ q[2] \in peers[q[1]]) /\ link'[q].mode = link[q].mode
  BY <1>0, <1>5, SMT DEF Closes, Ends
<1>6. ASSUME NEW p \in Pair, tearDownAll(p)
      PROVE  (link[q].adding \/ q[2] \in peers[q[1]]) /\ link'[q].mode = link[q].mode
  BY <1>0, <1>6 DEF tearDownAll, tearDown
<1>7. ASSUME NEW n \in Node, ShutDownAll(n)
      PROVE  (link[q].adding \/ q[2] \in peers[q[1]]) /\ link'[q].mode = link[q].mode
  BY <1>0, <1>7 DEF ShutDownAll, ShutDown
<1> QED
  BY <1>1, <1>2, <1>3, <1>4, <1>5, <1>6, <1>7, LinkEffects DEF connectionFails, peerClosed

LEMMA ModeNext ==
    ASSUME TypeInv, DestInv, ModeInv, [Next]_vars
    PROVE  ModeInv'
<1>1. ASSUME NEW q \in Pair, NEW x \in On(q)', x.code = "VERIFY" PROVE x.mode = Mode(q[1])
  <2>1. x \in On(q) \/ NewOn(q, x)
    BY NetStep DEF NetMoves
  <2>2. ~NewOn(q, x)
    BY <1>1, NewCodes, DataCodes
  <2> QED BY <1>1, <2>1, <2>2 DEF ModeInv
<1>2. ASSUME NEW p \in Pair, link'[p].adding \/ p[2] \in peers'[p[1]]
      PROVE  link'[p].mode = Mode(p[2])
  <2>1. CASE handleVerify(p) /\ link'[p].mode = Head(In(p)).mode
    <3>1. Head(In(p)).code = "VERIFY" /\ Head(In(p)) \in On(Back(p))
      BY <2>1, Received DEF handleVerify
    <3> QED BY <2>1, <3>1, BackPair, SMT DEF ModeInv
  <2> QED BY <1>2, <2>1, LinkMoves DEF ModeInv
<1> QED BY <1>1, <1>2 DEF ModeInv, Mode

-----------------------------------------------------------------------------
(* Expiry timestamps. *)
LEMMA ExpiryTimeNat ==
    ASSUME NEW t \in Nat, t >= 2, NEW d \in Nat
    PROVE  /\ expiryTime(t, d) \in Nat
           /\ expiryTime(t, d) = NO_EXPIRY <=> d = 0
<1>1. CASE d = 0
  BY <1>1 DEF expiryTime, NO_EXPIRY
<1>2. CASE d # 0
  <2>1. t \div 2 \in Nat /\ t \div 2 >= 1 /\ d \div 2 \in Nat
    BY SMT
  <2>2. expiryTime(t, d) = t \div 2 + d \div 2
    BY <1>2, SMT DEF expiryTime, Seconds
  <2> QED BY <1>2, <2>1, <2>2, SMT DEF NO_EXPIRY
<1> QED BY <1>1, <1>2

(* A copy expires with the original or a second before it, and is not      *)
(* taken for one without expiry, unless handlePut runs at the very instant *)
(* of the expiry; it may run long after it.  The clock is past its first   *)
(* second.                                                                 *)
THEOREM ReplicaExpiryClose ==
    ASSUME NEW e \in Nat \ {0}, NEW t \in Nat, t >= 2, t # 2 * e
    PROVE  replicaExpiry(e, t) \in {e - 1, e} \ {NO_EXPIRY}
<1> DEFINE d == 2 * e - t
<1>1. d \in Int /\ d # 0
  BY SMT
<1>2. replicaExpiry(e, t) = t \div 2 + Seconds(d)
  BY <1>1 DEF replicaExpiry, expiryTime, NO_EXPIRY
<1>3. CASE d > 0
  <2>1. Seconds(d) = d \div 2
    BY <1>1, <1>3, SMT DEF Seconds
  <2>2. t \div 2 + d \div 2 \in {e - 1, e} \ {0}
    BY <1>1, <1>3, SMT
  <2> QED
    BY <1>2, <2>1, <2>2 DEF NO_EXPIRY
<1>4. CASE d < 0
  <2>1. Seconds(d) = -((-d) \div 2)
    BY <1>1, <1>4, SMT DEF Seconds
  <2>2. t \div 2 - (-d) \div 2 = e
    BY <1>1, <1>4, SMT
  <2>3. (-d) \div 2 \in Int /\ t \div 2 \in Int
    BY <1>1, <1>4, SMT
  <2> QED
    BY <1>2, <2>1, <2>2, <2>3 DEF NO_EXPIRY
<1> QED
  BY <1>1, <1>3, <1>4, SMT

(* A copy handled at the instant of its expiry never expires: the          *)
(* exception above is real.                                                *)
THEOREM ExactInstantNeverExpires ==
    ASSUME NEW e \in Nat \ {0}
    PROVE  replicaExpiry(e, 2 * e) = NO_EXPIRY
BY SMT DEF replicaExpiry, expiryTime, NO_EXPIRY

LEMMA ReplicaExpiryCopy ==
    ASSUME NEW e \in Nat, NEW t \in Nat, t >= 2
    PROVE  /\ replicaExpiry(e, t) \in Nat
           /\ (e # NO_EXPIRY /\ t = 2 * e) \/ Copy(e, replicaExpiry(e, t))
<1>1. CASE e = 0
  BY <1>1 DEF replicaExpiry, NO_EXPIRY, Copy
<1>2. CASE e # 0 /\ t = 2 * e
  BY <1>2, ExactInstantNeverExpires, SMT DEF NO_EXPIRY
<1>3. CASE e # 0 /\ t # 2 * e
  <2>1. replicaExpiry(e, t) \in {e - 1, e} \ {NO_EXPIRY}
    BY <1>3, ReplicaExpiryClose
  <2> QED BY <1>3, <2>1, SMT DEF Copy, NO_EXPIRY
<1> QED BY <1>1, <1>2, <1>3

-----------------------------------------------------------------------------
(* Writers, channels, workers and caches. *)
Writing == [pc : {"wrote", "loop"}, msg : Data, todo : SUBSET Node]

(* A write begins at n with the message y. *)
Starts(n, y) ==
    /\ writer[n] = Idle /\ writer' = [writer EXCEPT ![n] = Wrote(y)]
    /\ writes' = writes + 1 /\ writes' \in 1 .. MaxWrites /\ y \in Data
    /\ y.code = "PUT" => y.value = writes'
    /\ Spaced => ~UnderWay(y.key) /\ AllLinked
    /\ cache' = IF n \in Passive THEN cache
                ELSE [cache EXCEPT ![n][y.key] = IF y.code = "PUT"
                                                 THEN [value |-> y.value, expiry |-> y.expiry]
                                                 ELSE None]
    /\ UNCHANGED <<now, replicationChan, worker, exact>>

LEMMA PutStarts ==
    ASSUME TypeInv, NEW n \in Node, NEW k \in Key, NEW d \in Durations, Put(n, k, d)
    PROVE  \E y \in Data : Starts(n, y)
<1> DEFINE e == expiryTime(now, d)
           y == [code |-> "PUT", key |-> k, value |-> writes + 1, expiry |-> e]
<1>1. now \in Nat /\ now >= 2 /\ writes \in Nat /\ d \in Nat /\ MaxWrites \in Nat
  BY ReplicationAssumption, SMT DEF TypeInv, DataTypes
<1>2. e \in Nat
  BY <1>1, ExpiryTimeNat
<1> HIDE DEF e
<1>3. /\ WriteBegins(n, k)
      /\ writer' = [writer EXCEPT ![n] = Wrote([code |-> "PUT", key |-> k, value |-> writes', expiry |-> e])]
      /\ cache' = IF n \in Passive THEN cache
                  ELSE [cache EXCEPT ![n][k] = [value |-> writes', expiry |-> e]]
      /\ UNCHANGED <<now, replicationChan, worker, exact>>
  BY DEF Put, e
<1>4. /\ writer[n] = Idle /\ writes' = writes + 1 /\ writes' \in 1 .. MaxWrites
      /\ Spaced => ~UnderWay(k) /\ AllLinked
  BY <1>1, <1>3, SMT DEF WriteBegins
<1>5. y \in Data /\ y.key = k /\ y.code = "PUT" /\ y.value = writes' /\ y.expiry = e
  BY <1>1, <1>2, <1>4, SMT DEF Data, Puts
<1>6. /\ writer' = [writer EXCEPT ![n] = Wrote(y)]
      /\ cache' = IF n \in Passive THEN cache
                  ELSE [cache EXCEPT ![n][y.key] = [value |-> y.value, expiry |-> y.expiry]]
  BY <1>3, <1>4
<1> HIDE DEF y
<1> QED BY <1>3, <1>4, <1>5, <1>6 DEF Starts

LEMMA DeleteStarts ==
    ASSUME TypeInv, NEW n \in Node, NEW k \in Key, Delete(n, k)
    PROVE  \E y \in Data : Starts(n, y)
<1> DEFINE y == [code |-> "DEL", key |-> k]
<1>1. writes \in Nat /\ MaxWrites \in Nat
  BY ReplicationAssumption, SMT DEF TypeInv, DataTypes
<1>2. /\ writer[n] = Idle /\ writes' = writes + 1 /\ writes' \in 1 .. MaxWrites
      /\ Spaced => ~UnderWay(k) /\ AllLinked
  BY <1>1, SMT DEF Delete, WriteBegins
<1>3. y \in Data /\ y.key = k /\ y.code = "DEL"
  BY DEF Data, Dels
<1>4. /\ writer' = [writer EXCEPT ![n] = Wrote(y)]
      /\ cache' = IF n \in Passive THEN cache ELSE [cache EXCEPT ![n][k] = None]
      /\ UNCHANGED <<now, replicationChan, worker, exact>>
  BY DEF Delete
<1> HIDE DEF y
<1> QED BY <1>2, <1>3, <1>4 DEF Starts

LEMMA WriteMoves ==
    ASSUME TypeInv, [Next]_vars
    PROVE  \/ UNCHANGED <<writer, replicationChan, worker, writes>>
           \/ UNCHANGED linkVars /\ \E n \in Node, y \in Data : Starts(n, y)
           \/ UNCHANGED linkVars /\ \E n \in Node : listPeers(n)
           \/ UNCHANGED linkVars /\ \E n \in Node, w \in Workers : takeReplication(n, w)
           \/ \E n \in Node : replicate(n)
           \/ \E n \in Node, w \in Workers : sendReplication(n, w)
BY WriteEffects, PutStarts, DeleteStarts

LEMMA CacheMoves ==
    ASSUME TypeInv, [Next]_vars
    PROVE  \/ UNCHANGED <<cache, now, exact>>
           \/ \E n \in Node, y \in Data : Starts(n, y)
           \/ UNCHANGED <<now, exact>> /\ \E n \in Node, k \in Key : evict(n, k)
           \/ \E p \in Pair : handlePut(p) \/ handleDelete(p)
           \/ Tick
BY CacheEffects, PutStarts, DeleteStarts

LEMMA WriterTypesNext ==
    ASSUME TypeInv, [Next]_vars
    PROVE  /\ writes' \in 0 .. MaxWrites
           /\ writer' \in [Node -> {Idle} \cup Writing]
           /\ replicationChan' \in [Node -> Seq(Items)]
           /\ worker' \in [Node -> [Workers -> Seq(Items)]]
<1>0. /\ writes \in 0 .. MaxWrites
      /\ writer \in [Node -> {Idle} \cup Writing]
      /\ replicationChan \in [Node -> Seq(Items)]
      /\ worker \in [Node -> [Workers -> Seq(Items)]]
  BY DEF TypeInv, DataTypes, Writing
<1> DEFINE Goal == /\ writes' \in 0 .. MaxWrites
                   /\ writer' \in [Node -> {Idle} \cup Writing]
                   /\ replicationChan' \in [Node -> Seq(Items)]
                   /\ worker' \in [Node -> [Workers -> Seq(Items)]]
<1>1. CASE UNCHANGED <<writer, replicationChan, worker, writes>>
  BY <1>0, <1>1
<1>2. ASSUME NEW n \in Node, NEW y \in Data, Starts(n, y) PROVE Goal
  <2>1. Wrote(y) \in Writing
    BY DEF Wrote, Writing
  <2> QED BY <1>0, <1>2, <2>1, SMT DEF Starts
<1>3. ASSUME NEW n \in Node, listPeers(n) PROVE Goal
  <2>1. /\ writer[n].pc = "wrote" /\ UNCHANGED <<replicationChan, worker, writes>>
        /\ writer' = IF Targets(n) = {} THEN [writer EXCEPT ![n] = Idle]
                     ELSE [writer EXCEPT ![n] = [@ EXCEPT !.pc = "loop", !.todo = Targets(n)]]
    BY <1>0, <1>3 DEF listPeers
  <2>2. writer[n] \in Writing
    BY <1>0, <2>1, SMT DEF Idle
  <2>3. Targets(n) \in SUBSET Node
    BY DEF Targets, TypeInv, LinkTypes
  <2>4. [writer[n] EXCEPT !.pc = "loop", !.todo = Targets(n)] \in Writing
    BY <2>2, <2>3 DEF Writing
  <2> QED BY <1>0, <2>1, <2>4
<1>4. ASSUME NEW n \in Node, NEW w \in Workers, takeReplication(n, w) PROVE Goal
  <2>1. /\ replicationChan[n] # <<>> /\ UNCHANGED <<writer, writes>>
        /\ worker' = [worker EXCEPT ![n][w] = <<Head(replicationChan[n])>>]
        /\ replicationChan' = [replicationChan EXCEPT ![n] = Tail(@)]
    BY <1>4 DEF takeReplication
  <2>2. Head(replicationChan[n]) \in Items /\ Tail(replicationChan[n]) \in Seq(Items)
    BY <1>0, <2>1, ElemsTail
  <2>3. <<Head(replicationChan[n])>> \in Seq(Items)
    BY <2>2, SMT
  <2> QED BY <1>0, <2>1, <2>2, <2>3
<1>5. ASSUME NEW n \in Node, replicate(n) PROVE Goal
  <2>1. PICK m \in writer[n].todo :
           /\ writer' = IF writer[n].todo = {m} THEN [writer EXCEPT ![n] = Idle]
                        ELSE [writer EXCEPT ![n].todo = @ \ {m}]
           /\ \/ UNCHANGED replicationChan
              \/ replicationChan' = [replicationChan EXCEPT ![n] =
                                        Append(@, [r |-> m, msg |-> writer[n].msg])]
    BY <1>5 DEF replicate
  <2>2. writer[n].pc = "loop" /\ UNCHANGED <<worker, writes>>
    BY <1>5 DEF replicate
  <2>3. writer[n] \in Writing
    BY <1>0, <2>2, SMT DEF Idle
  <2>4. [r |-> m, msg |-> writer[n].msg] \in Items
    BY <2>3 DEF Writing, Items
  <2>5. Append(replicationChan[n], [r |-> m, msg |-> writer[n].msg]) \in Seq(Items)
    BY <1>0, <2>4, ElemsAppend
  <2>6. replicationChan' \in [Node -> Seq(Items)]
    BY <1>0, <2>1, <2>5
  <2>7. [writer[n] EXCEPT !.todo = @ \ {m}] \in Writing
    BY <2>3 DEF Writing
  <2>8. writer' \in [Node -> {Idle} \cup Writing]
    BY <1>0, <2>1, <2>7
  <2> QED BY <1>0, <2>2, <2>6, <2>8
<1>6. ASSUME NEW n \in Node, NEW w \in Workers, sendReplication(n, w) PROVE Goal
  <2>1. worker' = [worker EXCEPT ![n][w] = <<>>] /\ UNCHANGED <<writer, replicationChan, writes>>
    BY <1>6 DEF sendReplication
  <2> QED BY <1>0, <2>1, SMT
<1> QED BY <1>1, <1>2, <1>3, <1>4, <1>5, <1>6, WriteMoves

LEMMA CacheTypesNext ==
    ASSUME TypeInv, [Next]_vars
    PROVE  /\ now' \in Nat /\ now' >= 2
           /\ cache' \in [Node -> [Key -> [value : Nat, expiry : Nat]]]
<1>0. now \in Nat /\ now >= 2 /\ cache \in [Node -> [Key -> [value : Nat, expiry : Nat]]]
  BY DEF TypeInv, DataTypes
<1>1. None \in [value : Nat, expiry : Nat]
  BY DEF None, NO_EXPIRY
<1> DEFINE Goal == /\ now' \in Nat /\ now' >= 2
                   /\ cache' \in [Node -> [Key -> [value : Nat, expiry : Nat]]]
<1>2. ASSUME NEW n \in Node, NEW k \in Key, NEW f \in [value : Nat, expiry : Nat],
             cache' = [cache EXCEPT ![n][k] = f]
      PROVE  cache' \in [Node -> [Key -> [value : Nat, expiry : Nat]]]
  BY <1>0, <1>2
<1>3. ASSUME NEW n \in Node, NEW y \in Data, Starts(n, y) PROVE Goal
  <2>1. y.code = "PUT" => [value |-> y.value, expiry |-> y.expiry] \in [value : Nat, expiry : Nat]
    BY DataCodes DEF Puts
  <2>2. y.key \in Key
    BY DataCodes
  <2> QED BY <1>0, <1>1, <1>2, <1>3, <2>1, <2>2 DEF Starts
<1>4. ASSUME NEW n \in Node, NEW k \in Key, evict(n, k), UNCHANGED now PROVE Goal
  BY <1>0, <1>1, <1>2, <1>4 DEF evict
<1>5. ASSUME NEW p \in Pair, handlePut(p) PROVE Goal
  <2> DEFINE m == Head(In(p))
             f == [value |-> m.value, expiry |-> replicaExpiry(m.expiry, now)]
  <2>1. m \in Puts
    BY <1>5, Received, Codes DEF handlePut
  <2>2. m.key \in Key /\ m.value \in Nat /\ m.expiry \in Nat
    BY <2>1 DEF Puts
  <2>3. replicaExpiry(m.expiry, now) \in Nat
    BY <1>0, <2>2, ReplicaExpiryCopy
  <2>4. f \in [value : Nat, expiry : Nat]
    BY <2>2, <2>3
  <2>5. now' = now /\ (cache' = cache \/ cache' = [cache EXCEPT ![p[1]][m.key] = f])
    BY <1>5 DEF handlePut, Writes
  <2> HIDE DEF m, f
  <2> QED BY <1>0, <1>2, <2>2, <2>4, <2>5, BackPair
<1>6. ASSUME NEW p \in Pair, handleDelete(p) PROVE Goal
  <2>1. Head(In(p)).key \in Key
    BY <1>6, Received, Codes DEF handleDelete, Dels
  <2>2. now' = now /\ (cache' = cache \/ cache' = [cache EXCEPT ![p[1]][Head(In(p)).key] = None])
    BY <1>6 DEF handleDelete, Writes
  <2> QED BY <1>0, <1>1, <1>2, <2>1, <2>2, BackPair
<1>7. CASE Tick
  BY <1>0, <1>7, SMT DEF Tick
<1>8. CASE UNCHANGED <<cache, now, exact>>
  BY <1>0, <1>8
<1> QED BY <1>3, <1>4, <1>5, <1>6, <1>7, <1>8, CacheMoves

LEMMA DataTypesNext ==
    ASSUME TypeInv, [Next]_vars
    PROVE  DataTypes'
BY WriterTypesNext, CacheTypesNext DEF DataTypes, Writing

-----------------------------------------------------------------------------
(* Gets, their requests and what is pending. *)
Pendings == SUBSET ((Key \X Nat) \X Nat)

LEMMA GetterSet ==
    ASSUME NEW g \in Getters, NEW a \in Points, NEW S \in SUBSET Node, NEW v \in Nat
    PROVE  /\ [g EXCEPT !.pc = a] \in Getters
           /\ [g EXCEPT !.todo = S] \in Getters
           /\ [g EXCEPT !.pc = a, !.todo = S] \in Getters
           /\ [g EXCEPT !.pc = a, !.value = v] \in Getters
<1>1. [g EXCEPT !.pc = a] \in Getters
  BY DEF Getters
<1>2. [g EXCEPT !.todo = S] \in Getters
  BY DEF Getters
<1>3. [g EXCEPT !.pc = a, !.todo = S] \in Getters
  BY DEF Getters
<1>4. [g EXCEPT !.pc = a, !.value = v] \in Getters
  BY DEF Getters
<1> QED BY <1>1, <1>2, <1>3, <1>4

LEMMA GetterFields ==
    ASSUME NEW g \in Getters
    PROVE  /\ g.pc \in Points /\ g.key \in Key \cup {0} /\ g.id \in Nat
           /\ g.todo \in SUBSET Node /\ g.value \in Nat
BY DEF Getters

LEMMA GetterNew ==
    ASSUME NEW k \in Key, NEW id \in Nat
    PROVE  NoGet \in Getters /\ [NoGet EXCEPT !.pc = "peers", !.key = k, !.id = id] \in Getters
<1>1. NoGet \in Getters
  BY DEF NoGet, Getters, Points
<1>2. "peers" \in Points
  BY DEF Points
<1>3. ASSUME NEW g \in Getters, NEW a \in Points
      PROVE  [g EXCEPT !.pc = a, !.key = k, !.id = id] \in Getters
  BY DEF Getters
<1> QED BY <1>1, <1>2, <1>3

LEMMA GetTypesNext ==
    ASSUME TypeInv, DestInv, [Next]_vars
    PROVE  GetTypes'
<1>0. /\ gets \in 0 .. MaxGets /\ MaxGets \in Nat
      /\ getter \in [Node -> Getters]
      /\ getRequestChan \in [Node -> Seq(Requests)]
      /\ getWorker \in [Node -> Requests \cup {NoWork}]
      /\ pendingGet \in [Pair -> Pendings \cup {Nil}]
  BY ClusterGetAssumption DEF TypeInv, GetTypes, Pendings
<1> USE DEF Pendings
<1>00. \A n \in Node : getter[n] \in Getters
  BY <1>0
<1>1. CASE UNCHANGED getVars
  BY <1>0, <1>1 DEF getVars, GetTypes
<1>2. ASSUME NEW p \in Pair, tearDownAll(p), UNCHANGED <<getter, getRequestChan, getWorker, gets>>
      PROVE  GetTypes'
  BY <1>0, <1>2 DEF tearDownAll, GetTypes
<1>3. ASSUME NEW n \in Node, ShutDownAll(n), UNCHANGED <<getter, getRequestChan, getWorker, gets>>
      PROVE  GetTypes'
  BY <1>0, <1>3 DEF ShutDownAll, GetTypes
<1>4. NoGet \in Getters
  BY DEF NoGet, Getters, Points
<1>5. ASSUME NEW n \in Node, NEW g \in Getters, getter' = [getter EXCEPT ![n] = g],
             UNCHANGED <<getRequestChan, getWorker, pendingGet, gets>>
      PROVE  GetTypes'
  BY <1>0, <1>5 DEF GetTypes
<1>6. ASSUME NEW n \in Node, NEW k \in Key, Get(n, k) PROVE GetTypes'
  <2> DEFINE g == [NoGet EXCEPT !.pc = "peers", !.key = k, !.id = gets + 1]
  <2>1. g \in Getters
    <3>1. gets + 1 \in Nat
      BY <1>0, SMT
    <3> QED BY <3>1, GetterNew
  <2>2. /\ gets' = gets + 1 /\ gets < MaxGets /\ getter' = [getter EXCEPT ![n] = g]
        /\ UNCHANGED <<getRequestChan, getWorker, pendingGet>>
    BY <1>6 DEF Get
  <2> HIDE DEF g
  <2> QED BY <1>0, <2>1, <2>2, SMT DEF GetTypes
<1>7. ASSUME NEW n \in Node, getRemoteNodes(n) PROVE GetTypes'
  <2> DEFINE g == [getter[n] EXCEPT !.pc = "ask", !.todo = Targets(n)]
  <2>1. Targets(n) \in SUBSET Node
    BY DEF Targets, TypeInv, LinkTypes
  <2>2. g \in Getters
    <3>1. "ask" \in Points
      BY DEF Points
    <3> QED BY <1>00, <2>1, <3>1, GetterSet
  <2>3. \/ getter' = [getter EXCEPT ![n] = NoGet]
        \/ getter' = [getter EXCEPT ![n] = g]
    BY <1>0, <1>7 DEF getRemoteNodes
  <2> HIDE DEF g
  <2> QED BY <1>4, <1>5, <1>7, <2>2, <2>3 DEF getRemoteNodes
<1>8. ASSUME NEW n \in Node, waitReply(n) PROVE GetTypes'
  <2> DEFINE g == [getter[n] EXCEPT !.pc = "wait"]
  <2>1. g \in Getters
    <3>1. "wait" \in Points
      BY DEF Points
    <3> QED BY <1>00, <3>1, GetterSet
  <2>2. getter' = [getter EXCEPT ![n] = g]
    BY <1>0, <1>8 DEF waitReply
  <2> HIDE DEF g
  <2> QED BY <1>5, <1>8, <2>1, <2>2 DEF waitReply
<1>9. ASSUME NEW n \in Node, timedOut(n) \/ getReturns(n) PROVE GetTypes'
  BY <1>4, <1>5, <1>9 DEF timedOut, getReturns
<1>10. ASSUME NEW n \in Node, takeGet(n) PROVE GetTypes'
  <2> DEFINE g == Head(getRequestChan[n])
  <2>1. /\ getRequestChan[n] # <<>> /\ UNCHANGED <<getter, pendingGet, gets>>
        /\ getRequestChan' = [getRequestChan EXCEPT ![n] = Tail(@)]
        /\ \/ getWorker' = [getWorker EXCEPT ![n] = NoWork]
           \/ getWorker' = [getWorker EXCEPT ![n] = [g EXCEPT !.pc = "store"]]
    BY <1>10 DEF takeGet
  <2>2. g \in Requests /\ Tail(getRequestChan[n]) \in Seq(Requests)
    BY <1>0, <2>1, ElemsTail
  <2> HIDE DEF g
  <2>3. [g EXCEPT !.pc = "store"] \in Requests
    BY <2>2 DEF Requests
  <2> QED BY <1>0, <2>1, <2>2, <2>3 DEF GetTypes
<1>11. ASSUME NEW n \in Node, askPeer(n) PROVE GetTypes'
  <2>1. PICK m \in getter[n].todo :
           /\ getter' = [getter EXCEPT ![n].todo = @ \ {m}]
           /\ \/ UNCHANGED getRequestChan
              \/ getRequestChan' = [getRequestChan EXCEPT ![n] =
                   Append(@, [pc |-> "check", r |-> m, id |-> getter[n].id, key |-> getter[n].key])]
    BY <1>11 DEF askPeer
  <2>2. UNCHANGED <<getWorker, pendingGet, gets>> /\ getter[n].pc = "ask"
    BY <1>11 DEF askPeer
  <2> DEFINE g == [pc |-> "check", r |-> m, id |-> getter[n].id, key |-> getter[n].key]
  <2>3. [getter[n] EXCEPT !.todo = getter[n].todo \ {m}] \in Getters
    <3>1. getter[n].todo \ {m} \in SUBSET Node /\ getter[n] \in Getters
      BY <1>00, GetterFields
    <3>2. "ask" \in Points /\ 0 \in Nat
      BY DEF Points
    <3> QED BY <3>1, <3>2, GetterSet
  <2>4. g \in Requests
    <3>1. Reachable(n, m) /\ m \in Node
      BY <1>00, GetterFields DEF DestInv
    <3>2. getter[n].key \in Key /\ getter[n].id \in Nat
      BY <1>00, <2>2, GetterFields DEF DestInv
    <3> QED BY <3>1, <3>2 DEF Requests
  <2>5. Append(getRequestChan[n], g) \in Seq(Requests)
    BY <1>0, <2>4, ElemsAppend
  <2> HIDE DEF g
  <2>6. getRequestChan' \in [Node -> Seq(Requests)]
    BY <1>0, <2>1, <2>5 DEF g
  <2>7. getter' \in [Node -> Getters]
    <3> DEFINE h == [getter[n] EXCEPT !.todo = getter[n].todo \ {m}]
    <3>1. getter' = [getter EXCEPT ![n] = h]
      BY <1>0, <2>1
    <3>2. h \in Getters
      BY <2>3
    <3> HIDE DEF h
    <3> QED BY <1>0, <3>1, <3>2
  <2> QED BY <1>0, <2>2, <2>6, <2>7 DEF GetTypes
<1>12. ASSUME NEW n \in Node, getData(n) PROVE GetTypes'
  <2> DEFINE g == getWorker[n]
             p == <<n, g.r>>
             key == PendingKey(g.key, g.id)
  <2>1. /\ getWorker' = [getWorker EXCEPT ![n] = NoWork] /\ g.pc = "store"
        /\ UNCHANGED <<getter, getRequestChan, gets>>
        /\ \/ UNCHANGED pendingGet
           \/ /\ pendingGet[p] # Nil
              /\ pendingGet' = [pendingGet EXCEPT ![p] = {x \in @ : x[1] # key} \cup {<<key, g.id>>}]
    BY <1>12 DEF getData
  <2>2. g \in Requests /\ p \in Pair
    <3>1. g # NoWork
      BY <2>1, SMT DEF NoWork
    <3> QED BY <1>0, <3>1 DEF DestInv, Reachable
  <2>3. key \in Key \X Nat /\ g.id \in Nat
    BY <2>2 DEF Requests, PendingKey
  <2> HIDE DEF g, key, p
  <2>4. pendingGet' \in [Pair -> Pendings \cup {Nil}]
    <3>1. CASE UNCHANGED pendingGet
      BY <1>0, <3>1
    <3>2. CASE /\ pendingGet[p] # Nil
               /\ pendingGet' = [pendingGet EXCEPT ![p] = {x \in @ : x[1] # key} \cup {<<key, g.id>>}]
      <4>1. pendingGet[p] \in Pendings
        BY <1>0, <2>2, <3>2
      <4>2. {x \in pendingGet[p] : x[1] # key} \cup {<<key, g.id>>} \in Pendings
        BY <2>3, <4>1, SMT
      <4> HIDE DEF Pendings
      <4> QED BY <1>0, <2>2, <3>2, <4>2
    <3> QED BY <2>1, <3>1, <3>2
  <2> QED BY <1>0, <2>1, <2>4 DEF GetTypes
<1>13. ASSUME NEW p \in Pair, handleGetResponse(p) PROVE GetTypes'
  <2> DEFINE m == Head(In(p))
             n == p[1]
             found == {x \in pendingGet[p] : x[1] = m.pending}
  <2>1. /\ UNCHANGED <<getRequestChan, getWorker, gets>>
        /\ \/ UNCHANGED <<getter, pendingGet>>
           \/ /\ pendingGet[p] # Nil /\ pendingGet' = [pendingGet EXCEPT ![p] = @ \ found]
              /\ \/ getter' = getter
                 \/ getter' = [getter EXCEPT ![n] = [@ EXCEPT !.pc = "got", !.value = m.value]]
    BY <1>0, <1>13, BackPair DEF handleGetResponse
  <2>2. m.value \in Nat /\ n \in Node
    BY <1>13, Received, Codes, BackPair DEF handleGetResponse, GetRsps
  <2> HIDE DEF m, n, found
  <2>3. [getter[n] EXCEPT !.pc = "got", !.value = m.value] \in Getters
    <3>1. "got" \in Points
      BY DEF Points
    <3> QED BY <1>00, <2>2, <3>1, GetterSet
  <2>4. getter' \in [Node -> Getters]
    BY <1>0, <2>1, <2>2, <2>3
  <2>5. pendingGet' \in [Pair -> Pendings \cup {Nil}]
    BY <1>0, <2>1, SMT
  <2> QED BY <1>0, <2>1, <2>4, <2>5 DEF GetTypes
<1> QED
  BY <1>1, <1>2, <1>3, <1>6, <1>7, <1>8, <1>9, <1>10, <1>11, <1>12, <1>13, GetEffects

-----------------------------------------------------------------------------
(* The way of a PUT or DEL. *)

(* Each is on its way because it was before, or because the loop over the  *)
(* peers of its writer begins.                                             *)
LEMMA FlowFrom ==
    ASSUME TypeInv, DestInv, [Next]_vars,
           NEW n \in Node, NEW m \in Node, NEW x \in Data, OnWay(n, m, x)'
    PROVE  \/ OnWay(n, m, x)
           \/ writer[n].pc = "wrote" /\ x = writer[n].msg /\ m \in Targets(n)
<1> DEFINE Goal == \/ OnWay(n, m, x)
                   \/ writer[n].pc = "wrote" /\ x = writer[n].msg /\ m \in Targets(n)
           item == [r |-> m, msg |-> x]
<1>0. /\ writer \in [Node -> {Idle} \cup Writing]
      /\ replicationChan \in [Node -> Seq(Items)]
      /\ worker \in [Node -> [Workers -> Seq(Items)]]
  BY DEF TypeInv, DataTypes, Writing
<1>1. ASSUME <<n, m>> \in Pair, x \in On(<<n, m>>)' PROVE Goal
  <2>1. x \in On(<<n, m>>) \/ NewOn(<<n, m>>, x)
    BY <1>1, NetStep DEF NetMoves
  <2>2. NewOn(<<n, m>>, x) => OnWay(n, m, x)
    BY <1>1, NewCodes, DataCodes
  <2> QED BY <1>1, <2>1, <2>2 DEF OnWay
<1>2. ASSUME writer'[n] = writer[n], writer'[n].pc = "loop", x = writer'[n].msg, m \in writer'[n].todo
      PROVE  Goal
  BY <1>2 DEF OnWay
<1>3. ASSUME item \in Elems(replicationChan[n]) PROVE Goal
  BY <1>3 DEF OnWay
<1>4. ASSUME NEW w \in Workers, worker[n][w] # <<>>, worker[n][w][1] = item PROVE Goal
  BY <1>4 DEF OnWay
<1>5. \/ writer'[n].pc = "loop" /\ x = writer'[n].msg /\ m \in writer'[n].todo
      \/ item \in Elems(replicationChan'[n])
      \/ \E w \in Workers : worker'[n][w] # <<>> /\ worker'[n][w][1] = item
      \/ <<n, m>> \in Pair /\ x \in On(<<n, m>>)'
  BY DEF OnWay
<1> HIDE DEF item, Goal
<1>6. CASE UNCHANGED <<writer, replicationChan, worker, writes>>
  BY <1>1, <1>2, <1>3, <1>4, <1>5, <1>6 DEF Goal
<1>7. ASSUME NEW o \in Node, NEW y \in Data, Starts(o, y) PROVE Goal
  <2>1. UNCHANGED <<replicationChan, worker>> /\ writer' = [writer EXCEPT ![o] = Wrote(y)]
    BY <1>7 DEF Starts
  <2>2. writer'[n] = writer[n] \/ writer'[n].pc = "wrote"
    BY <1>0, <2>1 DEF Wrote
  <2> QED BY <1>1, <1>2, <1>3, <1>4, <1>5, <2>1, <2>2
<1>8. ASSUME NEW o \in Node, listPeers(o) PROVE Goal
  <2>1. /\ UNCHANGED <<replicationChan, worker>> /\ writer[o].pc = "wrote"
        /\ writer' = IF Targets(o) = {} THEN [writer EXCEPT ![o] = Idle]
                     ELSE [writer EXCEPT ![o].pc = "loop", ![o].todo = Targets(o)]
    BY <1>8 DEF listPeers
  <2>2. writer[o] \in Writing
    BY <1>0, <2>1, SMT DEF Idle
  <2>3. \/ writer'[n] = writer[n]
        \/ writer'[n] = Idle
        \/ n = o /\ writer'[n].msg = writer[n].msg /\ writer'[n].todo = Targets(n)
    BY <1>0, <2>1, <2>2 DEF Writing
  <2>4. Idle.pc = "idle"
    BY DEF Idle
  <2>5. ASSUME writer'[n].pc = "loop", x = writer'[n].msg, m \in writer'[n].todo PROVE Goal
    BY <1>2, <2>1, <2>3, <2>4, <2>5 DEF Goal
  <2> QED BY <1>1, <1>3, <1>4, <1>5, <2>1, <2>5
<1>9. ASSUME NEW o \in Node, NEW v \in Workers, takeReplication(o, v) PROVE Goal
  <2> DEFINE q == replicationChan[o]
  <2>1. /\ q # <<>> /\ UNCHANGED writer
        /\ worker' = [worker EXCEPT ![o][v] = <<Head(q)>>]
        /\ replicationChan' = [replicationChan EXCEPT ![o] = Tail(q)]
    BY <1>9 DEF takeReplication
  <2>2. Head(q) \in Elems(q) /\ Elems(Tail(q)) \subseteq Elems(q)
    BY <1>0, <2>1, ElemsTail
  <2>3. Elems(replicationChan'[n]) \subseteq Elems(replicationChan[n])
    BY <1>0, <2>1, <2>2
  <2>4. ASSUME NEW w \in Workers, worker'[n][w] # <<>>, worker'[n][w][1] = item PROVE Goal
    <3>1. CASE n = o /\ w = v
      <4>1. worker'[n][w] = <<Head(q)>>
        BY <1>0, <2>1, <3>1
      <4>2. worker'[n][w][1] = Head(q)
        BY <4>1, SMT
      <4> QED BY <1>3, <2>2, <2>4, <3>1, <4>2
    <3>2. CASE ~(n = o /\ w = v)
      <4>1. worker'[n][w] = worker[n][w]
        BY <1>0, <2>1, <3>2
      <4> QED BY <1>4, <2>4, <4>1
    <3> QED BY <3>1, <3>2
  <2> QED BY <1>1, <1>2, <1>3, <1>5, <2>1, <2>3, <2>4
<1>10. ASSUME NEW o \in Node, replicate(o) PROVE Goal
  <2>1. PICK l \in writer[o].todo :
           /\ writer' = IF writer[o].todo = {l} THEN [writer EXCEPT ![o] = Idle]
                        ELSE [writer EXCEPT ![o].todo = @ \ {l}]
           /\ \/ UNCHANGED replicationChan
              \/ replicationChan' = [replicationChan EXCEPT ![o] =
                                        Append(@, [r |-> l, msg |-> writer[o].msg])]
    BY <1>10 DEF replicate
  <2>2. writer[o].pc = "loop" /\ UNCHANGED worker
    BY <1>10 DEF replicate
  <2>3. writer[o] \in Writing
    BY <1>0, <2>2, SMT DEF Idle
  <2>4. \/ writer'[n] = writer[n]
        \/ writer'[n] = Idle
        \/ /\ writer'[n].pc = writer[n].pc /\ writer'[n].msg = writer[n].msg
           /\ writer'[n].todo \subseteq writer[n].todo
    BY <1>0, <2>1, <2>3 DEF Writing
  <2>5. Idle.pc = "idle"
    BY DEF Idle
  <2>6. ASSUME writer'[n].pc = "loop", x = writer'[n].msg, m \in writer'[n].todo PROVE Goal
    BY <2>4, <2>5, <2>6 DEF Goal, OnWay
  <2>7. ASSUME item \in Elems(replicationChan'[n]) PROVE Goal
    <3> DEFINE new == [r |-> l, msg |-> writer[o].msg]
    <3>1. CASE replicationChan'[n] = replicationChan[n]
      BY <1>3, <2>7, <3>1
    <3>2. CASE n = o /\ replicationChan'[n] = Append(replicationChan[n], new)
      <4>1. new \in Items
        BY <2>3 DEF Items, Writing
      <4>2. item \in Elems(replicationChan[n]) \/ item = new
        <5> HIDE DEF new
        <5>1. replicationChan[n] \in Seq(Items)
          BY <1>0
        <5>2. Elems(Append(replicationChan[n], new)) = Elems(replicationChan[n]) \cup {new}
          BY <4>1, <5>1, ElemsAppend, SMT
        <5> QED BY <2>7, <3>2, <5>2
      <4>3. ASSUME item = new PROVE Goal
        <5>1. m = l /\ x = writer[n].msg
          BY <3>2, <4>3 DEF item
        <5> QED BY <2>2, <3>2, <5>1 DEF Goal, OnWay
      <4> QED BY <1>3, <4>2, <4>3
    <3>3. \/ replicationChan'[n] = replicationChan[n]
          \/ n = o /\ replicationChan'[n] = Append(replicationChan[n], new)
      BY <1>0, <2>1
    <3> QED BY <3>1, <3>2, <3>3
  <2> QED BY <1>1, <1>4, <1>5, <2>2, <2>6, <2>7
<1>11. ASSUME NEW o \in Node, NEW v \in Workers, sendReplication(o, v) PROVE Goal
  <2>1. worker' = [worker EXCEPT ![o][v] = <<>>] /\ UNCHANGED <<writer, replicationChan>>
    BY <1>11 DEF sendReplication
  <2>2. ASSUME NEW w \in Workers, worker'[n][w] # <<>>, worker'[n][w][1] = item PROVE Goal
    <3>1. worker'[n][w] = worker[n][w]
      BY <1>0, <2>1, <2>2
    <3> QED BY <1>4, <2>2, <3>1
  <2> QED BY <1>1, <1>2, <1>3, <1>5, <2>1, <2>2
<1> QED BY <1>6, <1>7, <1>8, <1>9, <1>10, <1>11, WriteMoves DEF Goal

(* Unless something is lost, each stays on its way until it is handled. *)
LEMMA FlowTo ==
    ASSUME TypeInv, DestInv, [Next]_vars, ~lossy',
           NEW n \in Node, NEW m \in Node, NEW x \in Data, OnWay(n, m, x)
    PROVE  OnWay(n, m, x)' \/ Handled(<<m, n>>, x)
<1> DEFINE Goal == OnWay(n, m, x)' \/ Handled(<<m, n>>, x)
           item == [r |-> m, msg |-> x]
<1>0. /\ writer \in [Node -> {Idle} \cup Writing]
      /\ replicationChan \in [Node -> Seq(Items)]
      /\ worker \in [Node -> [Workers -> Seq(Items)]]
  BY DEF TypeInv, DataTypes, Writing
<1>1. ASSUME <<n, m>> \in Pair, x \in On(<<n, m>>) PROVE Goal
  <2>1. x \in On(<<n, m>>)' \/ Handled(Back(<<n, m>>), x)
    BY <1>1, NetStep DEF NetMoves
  <2>2. Back(<<n, m>>) = <<m, n>>
    BY DEF Back
  <2> QED BY <1>1, <2>1, <2>2 DEF OnWay
<1>2. ASSUME writer'[n].pc = "loop", x = writer'[n].msg, m \in writer'[n].todo PROVE Goal
  BY <1>2 DEF OnWay
<1>3. ASSUME item \in Elems(replicationChan'[n]) PROVE Goal
  BY <1>3 DEF OnWay
<1>4. ASSUME NEW w \in Workers, worker'[n][w] # <<>>, worker'[n][w][1] = item PROVE Goal
  BY <1>4 DEF OnWay
<1>5. \/ writer[n].pc = "loop" /\ x = writer[n].msg /\ m \in writer[n].todo
      \/ item \in Elems(replicationChan[n])
      \/ \E w \in Workers : worker[n][w] # <<>> /\ worker[n][w][1] = item
      \/ <<n, m>> \in Pair /\ x \in On(<<n, m>>)
  BY DEF OnWay
<1> HIDE DEF item, Goal
<1>6. CASE UNCHANGED <<writer, replicationChan, worker, writes>>
  BY <1>1, <1>2, <1>3, <1>4, <1>5, <1>6 DEF Goal
<1>7. ASSUME NEW o \in Node, NEW y \in Data, Starts(o, y) PROVE Goal
  <2>1. /\ UNCHANGED <<replicationChan, worker>> /\ writer' = [writer EXCEPT ![o] = Wrote(y)]
        /\ writer[o] = Idle
    BY <1>7 DEF Starts
  <2>2. writer'[n] = writer[n] \/ writer[n].pc = "idle"
    BY <1>0, <2>1, SMT DEF Idle
  <2> QED BY <1>1, <1>2, <1>3, <1>4, <1>5, <2>1, <2>2
<1>8. ASSUME NEW o \in Node, listPeers(o) PROVE Goal
  <2>1. /\ UNCHANGED <<replicationChan, worker>> /\ writer[o].pc = "wrote"
        /\ writer' = IF Targets(o) = {} THEN [writer EXCEPT ![o] = Idle]
                     ELSE [writer EXCEPT ![o].pc = "loop", ![o].todo = Targets(o)]
    BY <1>8 DEF listPeers
  <2>2. writer'[n] = writer[n] \/ writer[n].pc = "wrote"
    BY <1>0, <2>1
  <2> QED BY <1>1, <1>2, <1>3, <1>4, <1>5, <2>1, <2>2
<1>9. ASSUME NEW o \in Node, NEW v \in Workers, takeReplication(o, v) PROVE Goal
  <2> DEFINE q == replicationChan[o]
  <2>1. /\ q # <<>> /\ UNCHANGED writer /\ worker[o][v] = <<>>
        /\ worker' = [worker EXCEPT ![o][v] = <<Head(q)>>]
        /\ replicationChan' = [replicationChan EXCEPT ![o] = Tail(q)]
    BY <1>9 DEF takeReplication
  <2>2. Elems(q) \subseteq Elems(Tail(q)) \cup {Head(q)}
    BY <1>0, <2>1, ElemsTail
  <2>3. worker'[o][v] = <<Head(q)>>
    BY <1>0, <2>1
  <2>4. worker'[o][v] # <<>> /\ worker'[o][v][1] = Head(q)
    BY <2>3, SMT
  <2>5. ASSUME item \in Elems(replicationChan[n]) PROVE Goal
    <3>1. CASE n = o
      <4>1. replicationChan'[n] = Tail(q)
        BY <1>0, <2>1, <3>1
      <4>2. item \in Elems(Tail(q)) \/ item = Head(q)
        BY <2>2, <2>5, <3>1
      <4> QED BY <1>3, <1>4, <2>4, <3>1, <4>1, <4>2
    <3>2. CASE n # o
      BY <1>0, <1>3, <2>1, <2>5, <3>2
    <3> QED BY <3>1, <3>2
  <2>6. ASSUME NEW w \in Workers, worker[n][w] # <<>>, worker[n][w][1] = item PROVE Goal
    <3>1. worker'[n][w] = worker[n][w]
      BY <1>0, <2>1, <2>6
    <3> QED BY <1>4, <2>6, <3>1
  <2> QED BY <1>1, <1>2, <1>5, <2>1, <2>5, <2>6
<1>10. ASSUME NEW o \in Node, replicate(o) PROVE Goal
  <2>1. PICK l \in writer[o].todo :
           /\ writer' = IF writer[o].todo = {l} THEN [writer EXCEPT ![o] = Idle]
                        ELSE [writer EXCEPT ![o].todo = @ \ {l}]
           /\ replicationChan' = [replicationChan EXCEPT ![o] =
                                     Append(@, [r |-> l, msg |-> writer[o].msg])]
    BY <1>10 DEF replicate, Panic
  <2>2. writer[o].pc = "loop" /\ UNCHANGED worker
    BY <1>10 DEF replicate
  <2>3. writer[o] \in Writing
    <3>1. writer[o] \in {Idle} \cup Writing
      BY <1>0
    <3>2. Idle.pc # "loop"
      BY DEF Idle
    <3> QED BY <2>2, <3>1, <3>2
  <2> DEFINE new == [r |-> l, msg |-> writer[o].msg]
  <2>4. new \in Items
    BY <2>3 DEF Items, Writing
  <2>5. Elems(replicationChan'[o]) = Elems(replicationChan[o]) \cup {new}
    <3>1. replicationChan'[o] = Append(replicationChan[o], new)
      BY <1>0, <2>1
    <3> HIDE DEF new
    <3>2. replicationChan[o] \in Seq(Items)
      BY <1>0
    <3>3. Elems(Append(replicationChan[o], new)) = Elems(replicationChan[o]) \cup {new}
      BY <2>4, <3>2, ElemsAppend, SMT
    <3> QED BY <3>1, <3>3
  <2>6. ASSUME item \in Elems(replicationChan[n]) PROVE Goal
    <3>1. CASE n = o
      BY <1>3, <2>5, <2>6, <3>1
    <3>2. CASE n # o
      BY <1>0, <1>3, <2>1, <2>6, <3>2
    <3> QED BY <3>1, <3>2
  <2>7. ASSUME writer[n].pc = "loop", x = writer[n].msg, m \in writer[n].todo PROVE Goal
    <3>1. CASE n = o /\ m = l
      BY <1>3, <2>5, <2>7, <3>1 DEF item
    <3>2. CASE n # o
      BY <1>0, <1>2, <2>1, <2>7, <3>2
    <3>3. CASE n = o /\ m # l
      <4>1. writer' = [writer EXCEPT ![o].todo = @ \ {l}]
        BY <2>1, <2>7, <3>3
      <4>2. /\ writer'[n].pc = "loop" /\ writer'[n].msg = writer[n].msg
            /\ writer'[n].todo = writer[n].todo \ {l}
        BY <1>0, <2>3, <2>7, <3>3, <4>1 DEF Writing
      <4> QED BY <1>2, <2>7, <3>3, <4>2
    <3> QED BY <3>1, <3>2, <3>3
  <2> QED BY <1>1, <1>4, <1>5, <2>2, <2>6, <2>7
<1>11. ASSUME NEW o \in Node, NEW v \in Workers, sendReplication(o, v) PROVE Goal
  <2> DEFINE p == <<o, worker[o][v][1].r>>
             y == worker[o][v][1].msg
  <2>1. /\ worker[o][v] # <<>> /\ net' = Sent(net, p, y) /\ ~Loses(p)
        /\ worker' = [worker EXCEPT ![o][v] = <<>>] /\ UNCHANGED <<writer, replicationChan>>
    BY <1>11 DEF sendReplication
  <2>2. p \in Pair /\ y \in Message
    BY <2>1, WorkerSends, DataCodes DEF Reachable, Items
  <2>3. y \in Elems(net'[p])
    <3> HIDE DEF p, y
    <3>1. net \in [Pair -> Seq(Message)]
      BY DEF TypeInv, LinkTypes
    <3>2. Loses(p) \/ y \in Elems(Sent(net, p, y)[p])
      BY <2>2, <3>1, SentNet
    <3> QED BY <2>1, <3>2
  <2>4. ASSUME NEW w \in Workers, worker[n][w] # <<>>, worker[n][w][1] = item PROVE Goal
    <3>1. CASE n = o /\ w = v
      <4>1. y = x /\ p = <<n, m>>
        BY <2>4, <3>1, SMT DEF item
      <4>2. <<n, m>> \in Pair /\ x \in On(<<n, m>>)'
        BY <2>2, <2>3, <4>1 DEF On
      <4> QED BY <4>2 DEF Goal, OnWay
    <3>2. CASE ~(n = o /\ w = v)
      <4>1. worker'[n][w] = worker[n][w]
        BY <1>0, <2>1, <3>2
      <4> QED BY <1>4, <2>4, <4>1
    <3> QED BY <3>1, <3>2
  <2> QED BY <1>1, <1>2, <1>3, <1>5, <2>1, <2>4
<1> QED BY <1>6, <1>7, <1>8, <1>9, <1>10, <1>11, WriteMoves DEF Goal

-----------------------------------------------------------------------------
(* What a step does to the entry of a key, and to a writer. *)
Entry(y) == IF y.code = "PUT" THEN [value |-> y.value, expiry |-> y.expiry] ELSE None

(* n handles the message x of o, which is for its key k. *)
Stored(n, k, o, x) ==
    /\ n \notin Passive /\ x.key = k /\ OnWay(o, n, x)
    /\ x.code = "DEL" => cache'[n][k] = None
    /\ x.code = "PUT" => /\ cache'[n][k].value = x.value
                         /\ cache'[n][k].expiry = replicaExpiry(x.expiry, now)
                         /\ x.expiry # NO_EXPIRY /\ now = 2 * x.expiry => exact'

CellMoves(n, k) ==
    \/ cache'[n][k] = cache[n][k]
    \/ /\ cache'[n][k] = None /\ cache[n][k].expiry # NO_EXPIRY
       /\ now' = now /\ now >= 2 * cache[n][k].expiry
    \/ \E o \in Node, x \in Data : Stored(n, k, o, x)
    \/ n \notin Passive /\ \E y \in Data : Starts(n, y) /\ y.key = k /\ cache'[n][k] = Entry(y)

LEMMA HandledStores ==
    ASSUME TypeInv, NEW p \in Pair, handlePut(p) \/ handleDelete(p), p[1] \notin Passive
    PROVE  \E x \in Data : /\ x = Head(In(p)) /\ Stored(p[1], x.key, p[2], x)
                           /\ \A n \in Node, k \in Key :
                                 n # p[1] \/ k # x.key => cache'[n][k] = cache[n][k]
<1>0. /\ cache \in [Node -> [Key -> [value : Nat, expiry : Nat]]]
      /\ p[1] \in Node /\ p[2] \in Node /\ Back(p) = <<p[2], p[1]>> /\ Back(p) \in Pair
  BY BackPair DEF TypeInv, DataTypes, Back
<1>1. PICK x : x = Head(In(p))
  OBVIOUS
<1>2. x \in Data /\ x.key \in Key /\ x \in On(Back(p)) /\ x.code \in {"PUT", "DEL"}
  <2>1. x \in Message /\ x.code \in {"PUT", "DEL"} /\ x \in On(Back(p))
    BY <1>1, Received DEF handlePut, handleDelete
  <2> QED BY <2>1, Codes, DataCodes DEF Data
<1>3. OnWay(p[2], p[1], x)
  BY <1>0, <1>2 DEF OnWay
<1>4. CASE handlePut(p)
  <2> DEFINE f == [value |-> x.value, expiry |-> replicaExpiry(x.expiry, now)]
  <2>1. /\ cache' = [cache EXCEPT ![p[1]][x.key] = f]
        /\ exact' = (exact \/ (x.expiry # NO_EXPIRY /\ now = 2 * x.expiry))
        /\ x.code = "PUT"
    BY <1>1, <1>4 DEF handlePut, Writes, Handles
  <2>2. f.value = x.value /\ f.expiry = replicaExpiry(x.expiry, now)
    OBVIOUS
  <2> HIDE DEF f
  <2>3. /\ cache'[p[1]][x.key] = f
        /\ \A n \in Node, k \in Key : n # p[1] \/ k # x.key => cache'[n][k] = cache[n][k]
    BY <1>0, <1>2, <2>1
  <2>4. Stored(p[1], x.key, p[2], x)
    BY <1>3, <2>1, <2>2, <2>3 DEF Stored
  <2> QED BY <1>1, <1>2, <2>3, <2>4
<1>5. CASE handleDelete(p)
  <2>1. cache' = [cache EXCEPT ![p[1]][x.key] = None] /\ x.code = "DEL"
    BY <1>1, <1>5 DEF handleDelete, Writes, Handles
  <2>2. /\ cache'[p[1]][x.key] = None
        /\ \A n \in Node, k \in Key : n # p[1] \/ k # x.key => cache'[n][k] = cache[n][k]
    BY <1>0, <1>2, <2>1
  <2>3. Stored(p[1], x.key, p[2], x)
    BY <1>3, <2>1, <2>2 DEF Stored
  <2> QED BY <1>1, <1>2, <2>2, <2>3
<1> QED BY <1>4, <1>5

LEMMA CellNext ==
    ASSUME TypeInv, [Next]_vars, NEW n \in Node, NEW k \in Key
    PROVE  CellMoves(n, k)
<1>0. cache \in [Node -> [Key -> [value : Nat, expiry : Nat]]]
  BY DEF TypeInv, DataTypes
<1>1. CASE UNCHANGED <<cache, now, exact>>
  BY <1>1 DEF CellMoves
<1>2. ASSUME NEW o \in Node, NEW y \in Data, Starts(o, y) PROVE CellMoves(n, k)
  <2>1. cache' = IF o \in Passive THEN cache ELSE [cache EXCEPT ![o][y.key] = Entry(y)]
    BY <1>2 DEF Starts, Entry
  <2>2. y.key \in Key
    BY DataCodes
  <2>3. \/ cache'[n][k] = cache[n][k]
        \/ n = o /\ n \notin Passive /\ y.key = k /\ cache'[n][k] = Entry(y)
    BY <1>0, <2>1, <2>2
  <2> QED BY <1>2, <2>3 DEF CellMoves
<1>3. ASSUME NEW o \in Node, NEW j \in Key, evict(o, j), UNCHANGED now PROVE CellMoves(n, k)
  <2>1. cache' = [cache EXCEPT ![o][j] = None] /\ Expired(cache[o][j])
    BY <1>3 DEF evict
  <2>2. \/ cache'[n][k] = cache[n][k]
        \/ cache'[n][k] = None /\ Expired(cache[n][k])
    BY <1>0, <2>1
  <2> QED BY <1>3, <2>2 DEF CellMoves, Expired
<1>4. ASSUME NEW p \in Pair, handlePut(p) \/ handleDelete(p) PROVE CellMoves(n, k)
  <2>1. CASE p[1] \in Passive
    BY <1>4, <2>1 DEF handlePut, handleDelete, Writes, CellMoves
  <2>2. CASE p[1] \notin Passive
    <3>1. PICK x \in Data : /\ Stored(p[1], x.key, p[2], x)
                            /\ n # p[1] \/ k # x.key => cache'[n][k] = cache[n][k]
      BY <1>4, <2>2, HandledStores
    <3>2. p[2] \in Node
      BY BackPair
    <3> QED BY <3>1, <3>2 DEF CellMoves
  <2> QED BY <2>1, <2>2
<1>5. CASE Tick
  BY <1>5 DEF Tick, CellMoves
<1> QED BY <1>1, <1>2, <1>3, <1>4, <1>5, CacheMoves

LEMMA ClockNext ==
    ASSUME TypeInv, [Next]_vars
    PROVE  now \in Nat /\ now' \in Nat /\ now' >= now /\ (exact => exact')
<1>1. now \in Nat
  BY DEF TypeInv, DataTypes
<1>2. now' \in {now, now + 1} /\ (exact => exact')
  <2>1. ASSUME NEW n \in Node, NEW y \in Data, Starts(n, y) PROVE now' = now /\ exact' = exact
    BY <2>1 DEF Starts
  <2>2. ASSUME NEW p \in Pair, handlePut(p) \/ handleDelete(p) PROVE now' = now /\ (exact => exact')
    <3>1. CASE handlePut(p)
      <4>1. /\ now' = now
            /\ exact' = (exact \/ (Head(In(p)).expiry # NO_EXPIRY /\ now = 2 * Head(In(p)).expiry))
        BY <3>1 DEF handlePut
      <4> QED BY <4>1
    <3>2. CASE handleDelete(p)
      BY <3>2 DEF handleDelete
    <3> QED BY <2>2, <3>1, <3>2
  <2>3. ASSUME Tick PROVE now' = now + 1 /\ exact' = exact
    BY <2>3 DEF Tick
  <2> QED BY <2>1, <2>2, <2>3, CacheMoves, SMT
<1> QED BY <1>1, <1>2, SMT

WriterMoves(n) ==
    \/ writer'[n] = writer[n]
    \/ writer'[n] = Idle /\ (writer[n].pc = "wrote" => Targets(n) = {})
    \/ /\ Begun(n) /\ writer'[n].pc = "loop" /\ writer'[n].msg = writer[n].msg
       /\ writer[n].pc = "wrote" => writer'[n].todo = Targets(n)
    \/ \E y \in Data : Starts(n, y) /\ writer'[n] = Wrote(y)

LEMMA WriterNext ==
    ASSUME TypeInv, [Next]_vars, NEW n \in Node
    PROVE  WriterMoves(n)
<1>0. writer \in [Node -> {Idle} \cup Writing]
  BY DEF TypeInv, DataTypes, Writing
<1>1. CASE UNCHANGED writer
  BY <1>1 DEF WriterMoves
<1>2. ASSUME NEW o \in Node, NEW y \in Data, Starts(o, y) PROVE WriterMoves(n)
  <2>1. writer'[n] = writer[n] \/ (n = o /\ writer'[n] = Wrote(y))
    BY <1>0, <1>2 DEF Starts
  <2> QED BY <1>2, <2>1 DEF WriterMoves
<1>3. ASSUME NEW o \in Node, listPeers(o) PROVE WriterMoves(n)
  <2>1. /\ writer[o].pc = "wrote"
        /\ writer' = IF Targets(o) = {} THEN [writer EXCEPT ![o] = Idle]
                     ELSE [writer EXCEPT ![o].pc = "loop", ![o].todo = Targets(o)]
    BY <1>3 DEF listPeers
  <2>2. writer[o] \in Writing /\ writer[o] # Idle
    BY <1>0, <2>1, SMT DEF Idle
  <2>3. \/ writer'[n] = writer[n]
        \/ n = o /\ writer'[n] = Idle /\ Targets(n) = {}
        \/ /\ n = o /\ writer'[n].pc = "loop" /\ writer'[n].msg = writer[n].msg
           /\ writer'[n].todo = Targets(n)
    BY <1>0, <2>1, <2>2 DEF Writing
  <2> QED BY <2>2, <2>3 DEF WriterMoves, Begun
<1>4. ASSUME NEW o \in Node, replicate(o) PROVE WriterMoves(n)
  <2>1. PICK l \in writer[o].todo :
           writer' = IF writer[o].todo = {l} THEN [writer EXCEPT ![o] = Idle]
                     ELSE [writer EXCEPT ![o].todo = @ \ {l}]
    BY <1>4 DEF replicate
  <2>2. writer[o].pc = "loop"
    BY <1>4 DEF replicate
  <2>3. writer[o] \in Writing /\ writer[o] # Idle
    BY <1>0, <2>2, SMT DEF Idle
  <2>4. \/ writer'[n] = writer[n]
        \/ n = o /\ writer'[n] = Idle
        \/ n = o /\ writer'[n].pc = "loop" /\ writer'[n].msg = writer[n].msg
    BY <1>0, <2>1, <2>2, <2>3 DEF Writing
  <2> QED BY <2>2, <2>3, <2>4 DEF WriterMoves, Begun
<1> QED BY <1>1, <1>2, <1>3, <1>4, WriteMoves DEF takeReplication, sendReplication

(* One write begins at a time. *)
LEMMA StartsOnce ==
    ASSUME TypeInv, NEW n \in Node, NEW m \in Node, NEW y \in Data, NEW z \in Data,
           Starts(n, y), Starts(m, z)
    PROVE  n = m /\ y = z
<1>0. writer \in [Node -> {Idle} \cup Writing]
  BY DEF TypeInv, DataTypes, Writing
<1>1. Wrote(y) # Idle /\ Wrote(y).msg = y /\ Wrote(z).msg = z
  BY DEF Wrote, Idle
<1>2. writer[n] = Idle /\ writer' = [writer EXCEPT ![n] = Wrote(y)]
      /\ writer' = [writer EXCEPT ![m] = Wrote(z)]
  BY DEF Starts
<1> QED BY <1>0, <1>1, <1>2

(* How the number of writes goes up. *)
LEMMA WritesNext ==
    ASSUME TypeInv, [Next]_vars
    PROVE  /\ writes \in Nat /\ writes' \in Nat
           /\ \/ writes' = writes /\ \A n \in Node, y \in Data : ~Starts(n, y)
              \/ writes' = writes + 1 /\ \E n \in Node, y \in Data : Starts(n, y)
<1>1. writes \in Nat
  BY ReplicationAssumption, SMT DEF TypeInv, DataTypes
<1>2. \A n \in Node, y \in Data : Starts(n, y) => writes' = writes + 1
  BY DEF Starts
<1>3. writes' = writes \/ \E n \in Node, y \in Data : Starts(n, y)
  BY WriteMoves DEF listPeers, takeReplication, replicate, sendReplication
<1> QED BY <1>1, <1>2, <1>3, SMT

=============================================================================
