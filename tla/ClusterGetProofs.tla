------------------------- MODULE ClusterGetProofs ---------------------------
(***************************************************************************)
(* Proofs about Put, Delete and Get, and the theorems about a cluster.     *)
(* Every copy of a write carries its value and its expiry time, and a key  *)
(* whose writes wait for each other is settled at every node or has a      *)
(* message due there.  A reply is for the Get that runs under its id, and  *)
(* for a value held while that Get ran; no node goes down while nothing    *)
(* breaks.  With the conjuncts of ClusterStepProofs this makes the         *)
(* inductive invariant IInv, which implies what a cluster promises.        *)
(***************************************************************************)
EXTENDS ClusterStepProofs

(* Most leaves are first-order and left to Zenon; those that are not say SMT. *)
USE Zenon

-----------------------------------------------------------------------------
(* The values in caches and messages. *)

(* A message on its way was, or is that of a writer. *)
LEMMA FlowMsg ==
    ASSUME TypeInv, DestInv, [Next]_vars,
           NEW n \in Node, NEW m \in Node, NEW x \in Data, OnWay(n, m, x)'
    PROVE  OnWay(n, m, x) \/ (Begun(n) /\ x = writer[n].msg)
<1>1. writer[n].pc = "wrote" => Begun(n)
  BY SMT DEF Begun, Idle
<1> QED BY <1>1, FlowFrom

(* The fields of a PUT, and of the write it is. *)
LEMMA PutFields ==
    ASSUME NEW x \in Data, x.code = "PUT"
    PROVE  /\ x \in Puts /\ x.value \in Nat /\ x.expiry \in Nat
           /\ Entry(x).value = x.value /\ Entry(x).expiry = x.expiry
BY DataCodes DEF Puts, Entry

LEMMA StartsFields ==
    ASSUME TypeInv, NEW n \in Node, NEW y \in Data, Starts(n, y)
    PROVE  /\ writes \in Nat /\ writes' = writes + 1
           /\ y.code = "PUT" => y.value = writes + 1 /\ y.value \notin 1 .. writes
<1>1. writes \in Nat
  BY ReplicationAssumption, SMT DEF TypeInv, DataTypes
<1>2. writes' = writes + 1 /\ (y.code = "PUT" => y.value = writes')
  BY DEF Starts
<1> QED BY <1>1, <1>2, SMT

(* A PUT on its way, at a writer, or stored by a step is an earlier write. *)
LEMMA ValueUses ==
    ASSUME TypeInv, ValueInv
    PROVE  /\ writes \in Nat
           /\ \A n, m \in Node, x \in Data : OnWay(n, m, x) /\ x.code = "PUT" => x.value \in 1 .. writes
           /\ \A n \in Node : Begun(n) /\ writer[n].msg.code = "PUT" => writer[n].msg.value \in 1 .. writes
           /\ \A n \in Node, k \in Key :
                 /\ cache[n][k].value \in 0 .. writes
                 /\ cache[n][k].value \in Nat /\ cache[n][k].expiry \in Nat
<1>1. writes \in Nat /\ cache \in [Node -> [Key -> [value : Nat, expiry : Nat]]]
  BY ReplicationAssumption, SMT DEF TypeInv, DataTypes
<1>2. \A n, m \in Node, x \in Data : OnWay(n, m, x) /\ x.code = "PUT" => x.value \in 1 .. writes
  BY DataCodes DEF ValueInv
<1>3. \A n \in Node, k \in Key : cache[n][k].value \in Nat /\ cache[n][k].expiry \in Nat
  BY <1>1
<1>4. \A n \in Node, k \in Key : cache[n][k].value <= writes
  BY DEF ValueInv
<1>5. \A n \in Node, k \in Key : cache[n][k].value \in 0 .. writes
  BY <1>1, <1>3, <1>4, SMT
<1>6. \A n \in Node : Begun(n) /\ writer[n].msg.code = "PUT" => writer[n].msg.value \in 1 .. writes
  BY DEF ValueInv
<1> QED BY <1>1, <1>2, <1>3, <1>5, <1>6

LEMMA StoredOld ==
    ASSUME TypeInv, ValueInv, NEW n \in Node, NEW k \in Key, NEW o \in Node, NEW x \in Data,
           Stored(n, k, o, x)
    PROVE  /\ n \notin Passive
           /\ cache'[n][k] = None \/ (cache'[n][k].value = x.value /\ x.value \in 1 .. writes /\ x.code = "PUT")
<1>1. /\ n \notin Passive /\ OnWay(o, n, x)
      /\ x.code = "DEL" => cache'[n][k] = None
      /\ x.code = "PUT" => cache'[n][k].value = x.value
  BY DEF Stored
<1>2. x.code = "PUT" \/ x.code = "DEL"
  BY DataCodes
<1> QED BY <1>1, <1>2, ValueUses

LEMMA ValueNext ==
    ASSUME TypeInv, DestInv, ValueInv, [Next]_vars
    PROVE  ValueInv'
<1>0. writes \in Nat /\ writes' \in Nat /\ \A v \in 0 .. writes : v \in 0 .. writes'
  BY WritesNext, SMT
<1>1. ASSUME NEW n \in Node, NEW k \in Key
      PROVE  /\ cache'[n][k].value <= writes'
             /\ cache'[n][k].value = 0 \/ n \in Passive => cache'[n][k] = None
  <2>1. CASE cache'[n][k] = cache[n][k]
    <3>1. cache[n][k].value \in 0 .. writes'
      BY <1>0, ValueUses
    <3>2. cache[n][k].value = 0 \/ n \in Passive => cache[n][k] = None
      BY DEF ValueInv
    <3>3. cache[n][k].value <= writes'
      BY <1>0, <3>1, SMT
    <3> QED BY <2>1, <3>2, <3>3
  <2>2. CASE cache'[n][k] = None
    BY <1>0, <2>2, SMT DEF None
  <2>3. ASSUME NEW o \in Node, NEW x \in Data, Stored(n, k, o, x)
        PROVE  cache'[n][k] = None \/ (cache'[n][k].value \in 1 .. writes /\ n \notin Passive)
    BY <2>3, StoredOld
  <2>4. ASSUME n \notin Passive, NEW y \in Data, Starts(n, y), cache'[n][k] = Entry(y)
        PROVE  cache'[n][k] = None \/ (cache'[n][k].value = writes' /\ writes' # 0)
    <3>1. CASE y.code = "PUT"
      <4>1. y.value = writes + 1 /\ writes' = writes + 1
        BY <2>4, <3>1, StartsFields
      <4>2. Entry(y).value = y.value
        BY <3>1, PutFields
      <4> QED BY <1>0, <2>4, <4>1, <4>2, SMT
    <3>2. CASE y.code # "PUT"
      BY <2>4, <3>2 DEF Entry
    <3> QED BY <3>1, <3>2
  <2>5. CellMoves(n, k)
    BY CellNext
  <2>6. CASE cache'[n][k].value \in 1 .. writes /\ n \notin Passive
    BY <1>0, <2>6, SMT
  <2> QED BY <1>0, <2>1, <2>2, <2>3, <2>4, <2>5, <2>6, SMT DEF CellMoves
<1>2. ASSUME NEW n \in Node, Begun(n)', writer'[n].msg.code = "PUT"
      PROVE  writer'[n].msg.value \in 1 .. writes'
  <2>1. ASSUME Begun(n), writer'[n].msg = writer[n].msg PROVE writer'[n].msg.value \in 1 .. writes'
    <3>1. writer[n].msg.value \in 1 .. writes
      BY <1>2, <2>1, ValueUses
    <3> QED BY <1>0, <2>1, <3>1, SMT
  <2>2. ASSUME NEW y \in Data, Starts(n, y), writer'[n] = Wrote(y)
        PROVE  writer'[n].msg.value \in 1 .. writes'
    <3>1. writer'[n].msg = y
      BY <2>2, SMT DEF Wrote
    <3>2. y.value = writes + 1 /\ writes' = writes + 1
      BY <1>2, <2>2, <3>1, StartsFields
    <3> QED BY <1>0, <3>1, <3>2, SMT
  <2> QED BY <1>2, <2>1, <2>2, WriterNext DEF WriterMoves, Begun
<1>3. ASSUME NEW n \in Node, NEW m \in Node, NEW x \in Puts, OnWay(n, m, x)'
      PROVE  x.value \in 1 .. writes'
  <2>1. x \in Data /\ x.code = "PUT"
    BY DEF Data, Puts
  <2>2. x.value \in 1 .. writes
    BY <1>3, <2>1, FlowMsg, ValueUses
  <2> QED BY <1>0, <2>2, SMT
<1> QED BY <1>1, <1>2, <1>3 DEF ValueInv

(* What a step leaves of the claim that v expires at e. *)
LEMMA ExpiresStays ==
    ASSUME TypeInv, DestInv, ValueInv, [Next]_vars,
           NEW v \in 1 .. writes, NEW e \in Nat, Expires(v, e)
    PROVE  Expires(v, e)'
<1>0. /\ now \in Nat /\ now >= 2 /\ None.value = 0 /\ v # 0
      /\ \A n \in Node, y \in Data : Starts(n, y) /\ y.code = "PUT" => y.value # v
  <2>1. now \in Nat /\ now >= 2
    BY DEF TypeInv, DataTypes
  <2>2. None.value = 0
    BY DEF None
  <2>3. v # 0
    BY ValueUses, SMT
  <2>4. ASSUME NEW n \in Node, NEW y \in Data, Starts(n, y), y.code = "PUT" PROVE y.value # v
    BY <2>4, StartsFields
  <2> QED BY <2>1, <2>2, <2>3, <2>4
<1>1. /\ \A n \in Node : Begun(n) /\ writer[n].msg.code = "PUT" /\ writer[n].msg.value = v =>
            writer[n].msg.expiry = e
      /\ \A n, m \in Node, x \in Data : OnWay(n, m, x) /\ x.code = "PUT" /\ x.value = v => x.expiry = e
      /\ ~exact => \A n \in Node, k \in Key : cache[n][k].value = v => Copy(e, cache[n][k].expiry)
  BY DataCodes DEF Expires
<1>2. ASSUME NEW n \in Node, Begun(n)', writer'[n].msg.code = "PUT", writer'[n].msg.value = v
      PROVE  writer'[n].msg.expiry = e
  <2>1. ASSUME Begun(n), writer'[n].msg = writer[n].msg PROVE writer'[n].msg.expiry = e
    BY <1>1, <1>2, <2>1
  <2>2. ASSUME NEW y \in Data, Starts(n, y), writer'[n] = Wrote(y) PROVE FALSE
    <3>1. writer'[n].msg = y
      BY <2>2, SMT DEF Wrote
    <3> QED BY <1>0, <1>2, <2>2, <3>1
  <2> QED BY <1>2, <2>1, <2>2, WriterNext DEF WriterMoves, Begun
<1>3. ASSUME NEW n \in Node, NEW m \in Node, NEW x \in Puts, OnWay(n, m, x)', x.value = v
      PROVE  x.expiry = e
  <2>1. x \in Data /\ x.code = "PUT"
    BY DEF Data, Puts
  <2> QED BY <1>1, <1>3, <2>1, FlowMsg
<1>4. ASSUME ~exact', NEW n \in Node, NEW k \in Key, cache'[n][k].value = v
      PROVE  Copy(e, cache'[n][k].expiry)
  <2>0. ~exact /\ CellMoves(n, k)
    BY <1>4, ClockNext, CellNext
  <2>1. CASE cache'[n][k] = cache[n][k]
    BY <1>1, <1>4, <2>0, <2>1
  <2>2. ASSUME NEW o \in Node, NEW x \in Data, Stored(n, k, o, x) PROVE Copy(e, cache'[n][k].expiry)
    <3>1. x.code = "PUT" /\ x.value = v
      BY <1>0, <1>4, <2>2, StoredOld, SMT
    <3>2. /\ OnWay(o, n, x) /\ cache'[n][k].expiry = replicaExpiry(x.expiry, now)
          /\ ~(x.expiry # NO_EXPIRY /\ now = 2 * x.expiry)
      BY <1>4, <2>2, <3>1 DEF Stored
    <3>3. x.expiry = e
      BY <1>1, <3>1, <3>2
    <3> QED BY <1>0, <3>2, <3>3, ReplicaExpiryCopy
  <2>3. ASSUME NEW y \in Data, Starts(n, y), cache'[n][k] = Entry(y) PROVE FALSE
    <3>1. y.code = "PUT" => Entry(y).value = y.value
      BY PutFields
    <3>2. y.code # "PUT" => Entry(y).value = 0
      BY <1>0 DEF Entry
    <3> QED BY <1>0, <1>4, <2>3, <3>1, <3>2
  <2> QED BY <1>0, <1>4, <2>0, <2>1, <2>2, <2>3 DEF CellMoves
<1> QED BY <1>2, <1>3, <1>4 DEF Expires

(* A new write has but the expiry time it is made with. *)
LEMMA ExpiresBegins ==
    ASSUME TypeInv, DestInv, ValueInv, [Next]_vars, NEW o \in Node, NEW y \in Data, Starts(o, y),
           NEW v, v = writes', NEW e \in Nat, y.code = "PUT" => y.expiry = e
    PROVE  Expires(v, e)'
<1>0. writes \in Nat /\ v = writes + 1 /\ v # 0 /\ v \notin 0 .. writes /\ v \notin 1 .. writes
  BY StartsFields, SMT
<1>1. ASSUME NEW n \in Node, Begun(n)', writer'[n].msg.code = "PUT", writer'[n].msg.value = v
      PROVE  writer'[n].msg.expiry = e
  <2>1. ASSUME Begun(n), writer'[n].msg = writer[n].msg PROVE FALSE
    BY <1>0, <1>1, <2>1, ValueUses
  <2>2. ASSUME NEW z \in Data, Starts(n, z), writer'[n] = Wrote(z) PROVE writer'[n].msg.expiry = e
    <3>1. z = y
      BY <2>2, StartsOnce
    <3>2. writer'[n].msg = z
      BY <2>2, SMT DEF Wrote
    <3> QED BY <1>1, <3>1, <3>2
  <2> QED BY <1>1, <2>1, <2>2, WriterNext DEF WriterMoves, Begun
<1>2. ASSUME NEW n \in Node, NEW m \in Node, NEW x \in Puts, OnWay(n, m, x)', x.value = v
      PROVE  FALSE
  <2>1. x \in Data /\ x.code = "PUT"
    BY DEF Data, Puts
  <2>2. x.value \in 1 .. writes
    BY <1>2, <2>1, FlowMsg, ValueUses, SMT
  <2> QED BY <1>0, <1>2, <2>2
<1>3. ASSUME NEW n \in Node, NEW k \in Key, cache'[n][k].value = v
      PROVE  Copy(e, cache'[n][k].expiry)
  <2>0. CellMoves(n, k) /\ None.value = 0
    BY CellNext DEF None
  <2>1. ASSUME cache'[n][k] = cache[n][k] PROVE FALSE
    BY <1>0, <1>3, <2>1, ValueUses
  <2>2. ASSUME NEW q \in Node, NEW x \in Data, Stored(n, k, q, x) PROVE FALSE
    BY <1>0, <1>3, <2>0, <2>2, StoredOld, SMT
  <2>3. ASSUME NEW z \in Data, Starts(n, z), cache'[n][k] = Entry(z)
        PROVE  Copy(e, cache'[n][k].expiry)
    <3>1. z = y
      BY <2>3, StartsOnce
    <3>2. y.code = "PUT"
      BY <1>0, <1>3, <2>0, <2>3, <3>1 DEF Entry
    <3>3. cache'[n][k].expiry = e
      BY <2>3, <3>1, <3>2, PutFields
    <3> QED BY <3>3 DEF Copy
  <2> QED BY <1>0, <1>3, <2>0, <2>1, <2>2, <2>3 DEF CellMoves
<1> QED BY <1>1, <1>2, <1>3 DEF Expires

LEMMA ExpiryNext ==
    ASSUME TypeInv, DestInv, ValueInv, ExpiryInv, [Next]_vars
    PROVE  ExpiryInv'
<1>1. ASSUME NEW v \in 1 .. writes PROVE \E e \in Nat : Expires(v, e)'
  <2>1. PICK e \in Nat : Expires(v, e)
    BY DEF ExpiryInv
  <2>2. Expires(v, e)'
    BY <2>1, ExpiresStays
  <2> QED BY <2>2
<1>2. ASSUME NEW o \in Node, NEW y \in Data, Starts(o, y), NEW v, v = writes'
      PROVE  \E e \in Nat : Expires(v, e)'
  <2>1. PICK e \in Nat : y.code = "PUT" => y.expiry = e
    BY PutFields
  <2>2. Expires(v, e)'
    BY <1>2, <2>1, ExpiresBegins
  <2> QED BY <2>2
<1>3. ASSUME NEW v \in 1 .. writes'
      PROVE  v \in 1 .. writes \/ (v = writes' /\ \E n \in Node, y \in Data : Starts(n, y))
  BY WritesNext, SMT
<1> QED BY <1>1, <1>2, <1>3 DEF ExpiryInv

-----------------------------------------------------------------------------
(* Agreement. *)

(* Puts and Gets are sent to the registered peers that are not passive. *)
LEMMA TargetsReach ==
    ASSUME TypeInv, ModeInv, NEW n \in Node, NEW m \in Node
    PROVE  /\ m \in Targets(n) => Reachable(n, m)
           /\ m \in peers[n] /\ m \notin Passive => m \in Targets(n)
<1>1. ASSUME m \in peers[n]
      PROVE  <<n, m>> \in Pair /\ link[<<n, m>>].mode = Mode(m)
  <2>1. <<n, m>> \in Pair
    BY <1>1 DEF TypeInv, LinkTypes
  <2>2. <<n, m>>[1] = n /\ <<n, m>>[2] = m
    OBVIOUS
  <2> QED BY <1>1, <2>1, <2>2 DEF ModeInv
<1> QED BY <1>1 DEF Targets, Reachable, Mode

(* While nothing is lost, no peer is unregistered. *)
LEMMA PeersGrow ==
    ASSUME TypeInv, SafeInv, SafeInv', [Next]_vars, ~lossy', NEW n \in Node
    PROVE  peers[n] \subseteq peers'[n]
<1>0. peers \in [Node -> SUBSET Node] /\ ~broken'
  BY DEF TypeInv, LinkTypes, SafeInv
<1>1. ~broken
  BY <1>0, LinkEffects DEF Panic, handleVerify, addVerified, connectionFails, peerClosed,
                           tearDownAll, tearDown, ShutDownAll, ShutDown
<1>2. \A p \in Pair : link[p].up
  BY <1>1 DEF SafeInv
<1>3. /\ \A m \in Node : ~Panic(m) /\ ~ShutDownAll(m)
      /\ \A p \in Pair : ~connectionFails(p) /\ ~peerClosed(p) /\ ~tearDownAll(p)
  BY <1>2 DEF Panic, ShutDownAll, ShutDown, connectionFails, peerClosed, Closes, tearDownAll, tearDown
<1>4. ASSUME NEW p \in Pair, handleVerify(p) \/ addVerified(p) PROVE peers[n] \subseteq peers'[n]
  BY <1>0, <1>4, BackPair DEF handleVerify, addVerified
<1> QED BY <1>3, <1>4, LinkEffects

LEMMA LinkedNext ==
    ASSUME TypeInv, SafeInv, SafeInv', [Next]_vars, ~lossy', AllLinked
    PROVE  AllLinked'
<1>1. \A p \in Pair : p[1] \in Node
  BY BackPair
<1> QED BY <1>1, PeersGrow DEF AllLinked

(* What is on its way is under way. *)
LEMMA OnWayUnder ==
    ASSUME TypeInv, NEW n \in Node, NEW m \in Node, NEW x \in Data, OnWay(n, m, x)
    PROVE  UnderWay(x.key)
<1> DEFINE item == [r |-> m, msg |-> x]
<1>0. item.msg = x /\ x.code \in {"PUT", "DEL"}
  BY DataCodes
<1>1. CASE writer[n].pc = "loop" /\ x = writer[n].msg /\ m \in writer[n].todo
  BY <1>1, SMT DEF UnderWay, Idle
<1>2. CASE item \in Elems(replicationChan[n])
  <2>1. PICK i \in DOMAIN replicationChan[n] : replicationChan[n][i] = item
    BY <1>2 DEF Elems
  <2> HIDE DEF item
  <2> QED BY <1>0, <2>1 DEF UnderWay
<1>3. CASE \E w \in Workers : worker[n][w] # <<>> /\ worker[n][w][1] = item
  <2> HIDE DEF item
  <2> QED BY <1>0, <1>3 DEF UnderWay
<1>4. CASE <<n, m>> \in Pair /\ x \in On(<<n, m>>)
  <2>1. PICK i \in DOMAIN net[<<n, m>>] : net[<<n, m>>][i] = x
    BY <1>4 DEF On, Elems
  <2> QED BY <1>0, <1>4, <2>1 DEF UnderWay
<1> QED BY <1>1, <1>2, <1>3, <1>4 DEF OnWay

LEMMA DueUnder ==
    ASSUME TypeInv, NEW m \in Node, NEW k \in Key, Due(m, k)
    PROVE  UnderWay(k)
<1>1. ASSUME NEW n \in Node, writer[n].pc = "wrote", writer[n].msg.key = k PROVE UnderWay(k)
  BY <1>1, SMT DEF UnderWay, Idle
<1> QED BY <1>1, OnWayUnder DEF Due

(* The write of the message y. *)
LEMMA ChangeOf ==
    ASSUME NEW y \in Data, y.code = "PUT" => y.value # 0
    PROVE  \E v, e \in Nat : /\ y = Change(y.key, v, e) /\ Entry(y).value = v
                             /\ v # 0 => Copy(e, Entry(y).expiry)
<1>1. CASE y.code = "PUT"
  <2>1. y \in Puts
    BY <1>1, DataCodes
  <2>2. /\ y = [code |-> "PUT", key |-> y.key, value |-> y.value, expiry |-> y.expiry]
        /\ y.value \in Nat /\ y.expiry \in Nat
    BY <2>1 DEF Puts
  <2>3. y = Change(y.key, y.value, y.expiry)
    BY <1>1, <2>2 DEF Change
  <2>4. Entry(y).value = y.value /\ Copy(y.expiry, Entry(y).expiry)
    BY <1>1 DEF Entry, Copy
  <2> QED BY <2>2, <2>3, <2>4
<1>2. CASE y.code = "DEL"
  <2>1. y = [code |-> "DEL", key |-> y.key]
    BY <1>2, DataCodes DEF Dels
  <2>2. y = Change(y.key, 0, 0)
    BY <2>1 DEF Change
  <2>3. Entry(y).value = 0
    BY <1>2 DEF Entry, None
  <2> QED BY <2>2, <2>3, SMT
<1> QED BY <1>1, <1>2, DataCodes

(* Storing the last write of k settles it. *)
LEMMA StoredSettles ==
    ASSUME TypeInv, [Next]_vars, ~exact', NEW m \in Node, NEW k \in Key, NEW o \in Node,
           NEW x \in Data, Stored(m, k, o, x), NEW v \in Nat, NEW e \in Nat, x = Change(k, v, e)
    PROVE  Settled(m, k, v, e)'
<1>0. now \in Nat /\ now >= 2
  BY DEF TypeInv, DataTypes
<1>1. CASE v = 0
  <2>1. x.code = "DEL"
    BY <1>1 DEF Change
  <2>2. cache'[m][k].value = 0
    BY <2>1, SMT DEF Stored, None
  <2> QED BY <1>1, <2>2 DEF Settled
<1>2. CASE v # 0
  <2>1. x.code = "PUT" /\ x.value = v /\ x.expiry = e
    BY <1>2 DEF Change
  <2>2. /\ cache'[m][k].value = v /\ cache'[m][k].expiry = replicaExpiry(e, now)
        /\ ~(e # NO_EXPIRY /\ now = 2 * e)
    BY <2>1 DEF Stored
  <2>3. Copy(e, replicaExpiry(e, now))
    BY <1>0, <2>2, ReplicaExpiryCopy
  <2> QED BY <2>2, <2>3 DEF Settled
<1> QED BY <1>1, <1>2

(* A write begins: every other node is due its message. *)
LEMMA LastWriteBegins ==
    ASSUME TypeInv, DestInv, [Next]_vars, Spaced, NEW n \in Node, NEW y \in Data, Starts(n, y)
    PROVE  \E v, e \in Nat : LastWrite(y.key, v, e)'
<1>0. /\ writes \in Nat /\ writes' = writes + 1 /\ y.key \in Key
      /\ cache \in [Node -> [Key -> [value : Nat, expiry : Nat]]]
      /\ writer \in [Node -> {Idle} \cup Writing]
  BY WritesNext, DataCodes DEF TypeInv, DataTypes, Starts, Writing
<1>1. PICK k : k = y.key
  OBVIOUS
<1>2. PICK v \in Nat, e \in Nat : /\ y = Change(k, v, e) /\ Entry(y).value = v
                                  /\ v # 0 => Copy(e, Entry(y).expiry)
  <2>1. y.code = "PUT" => y.value # 0
    BY <1>0, StartsFields, SMT
  <2> QED BY <1>1, <2>1, ChangeOf
<1>3. /\ ~UnderWay(k) /\ writer' = [writer EXCEPT ![n] = Wrote(y)]
      /\ cache' = IF n \in Passive THEN cache ELSE [cache EXCEPT ![n][k] = Entry(y)]
  BY <1>1 DEF Starts, Entry
<1>4. \A o \in Node : writer[o] # Idle => writer[o].msg.key # k
  BY <1>3 DEF UnderWay
<1>5. /\ writer'[n] = Wrote(y) /\ Wrote(y).pc = "wrote" /\ Wrote(y).msg = y
      /\ \A o \in Node : o # n => writer'[o] = writer[o]
  BY <1>0, <1>3 DEF Wrote
<1>6. \A o \in Node : Begun(o)' /\ writer'[o].msg.key = k => writer'[o].msg = Change(k, v, e)
  BY <1>2, <1>4, <1>5 DEF Begun
<1>7. ASSUME NEW o \in Node, NEW m \in Node, NEW x \in Data, OnWay(o, m, x)', x.key = k PROVE FALSE
  <2>1. OnWay(o, m, x) \/ (Begun(o) /\ x = writer[o].msg)
    BY <1>7, FlowMsg
  <2> QED BY <1>3, <1>4, <1>7, <2>1, OnWayUnder DEF Begun
<1>8. ASSUME NEW m \in Caching PROVE Settled(m, k, v, e)' \/ Due(m, k)'
  <2>1. CASE m = n
    <3>1. cache'[m][k] = Entry(y)
      BY <1>0, <1>1, <1>3, <2>1 DEF Caching
    <3> QED BY <1>2, <3>1 DEF Settled
  <2>2. CASE m # n
    BY <1>1, <1>5, <2>2 DEF Due
  <2> QED BY <2>1, <2>2
<1>9. LastWrite(k, v, e)'
  BY <1>6, <1>7, <1>8 DEF LastWrite
<1> QED BY <1>1, <1>9

(* An entry that is settled stays so. *)
LEMMA SettledStays ==
    ASSUME TypeInv, [Next]_vars, ~exact', NEW m \in Node, NEW k \in Key,
           NEW v \in Nat, NEW e \in Nat, LastWrite(k, v, e), Settled(m, k, v, e),
           \A n \in Node, y \in Data : Starts(n, y) => y.key # k
    PROVE  Settled(m, k, v, e)'
<1>0. /\ cache[m][k].expiry \in Nat /\ now \in Nat /\ now' \in Nat /\ now' >= now
      /\ None.value = 0
  BY ClockNext DEF TypeInv, DataTypes, None
<1>1. CASE cache'[m][k] = cache[m][k]
  <2>1. e # NO_EXPIRY /\ now >= 2 * (e - 1) => now' >= 2 * (e - 1)
    BY <1>0, SMT
  <2> QED BY <1>1, <2>1 DEF Settled
<1>2. CASE /\ cache'[m][k] = None /\ cache[m][k].expiry # NO_EXPIRY
           /\ now' = now /\ now >= 2 * cache[m][k].expiry
  <2>1. CASE v = 0
    BY <1>0, <1>2, <2>1 DEF Settled
  <2>2. CASE v # 0 /\ cache[m][k].value = v
    <3>1. Copy(e, cache[m][k].expiry)
      BY <1>0, <2>2 DEF Settled
    <3>2. e # NO_EXPIRY /\ cache[m][k].expiry >= e - 1
      BY <1>0, <1>2, <3>1, SMT DEF Copy, NO_EXPIRY
    <3>3. now' >= 2 * (e - 1)
      BY <1>0, <1>2, <3>2, SMT
    <3> QED BY <1>2, <3>2, <3>3 DEF Settled
  <2>3. CASE cache[m][k] = None
    BY <1>2, <2>3, SMT DEF None
  <2> QED BY <2>1, <2>2, <2>3 DEF Settled
<1>3. ASSUME NEW o \in Node, NEW x \in Data, Stored(m, k, o, x) PROVE Settled(m, k, v, e)'
  <2>1. x = Change(k, v, e)
    BY <1>3 DEF LastWrite, Stored
  <2> QED BY <1>3, <2>1, StoredSettles
<1> QED BY <1>1, <1>2, <1>3, CellNext, SMT DEF CellMoves

(* What is due is still due, or settled. *)
LEMMA DueStays ==
    ASSUME TypeInv, ModeInv, DestInv, [Next]_vars, ~lossy', ~exact', NEW m \in Caching, NEW k \in Key,
           NEW v \in Nat, NEW e \in Nat, LastWrite(k, v, e), Due(m, k),
           \A n \in Node : Begun(n) => AllLinked
    PROVE  Settled(m, k, v, e)' \/ Due(m, k)'
<1>0. m \in Node /\ m \notin Passive
  BY DEF Caching
<1>1. ASSUME NEW n \in Node, writer[n].pc = "wrote", writer[n].msg.key = k, n # m PROVE Due(m, k)'
  <2>1. Begun(n) /\ writer[n] \in Writing
    <3>1. writer[n] # Idle
      BY <1>1, SMT DEF Idle
    <3>2. writer \in [Node -> {Idle} \cup Writing]
      BY DEF TypeInv, DataTypes, Writing
    <3> QED BY <3>1, <3>2 DEF Begun
  <2>2. <<n, m>> \in Pair
    BY <1>0, <1>1 DEF Pair
  <2>3. m \in peers[n]
    <3>1. <<n, m>>[1] = n /\ <<n, m>>[2] = m
      OBVIOUS
    <3> QED BY <2>1, <2>2, <3>1 DEF AllLinked
  <2>4. m \in Targets(n)
    BY <1>0, <2>3, TargetsReach
  <2>5. CASE writer'[n] = writer[n]
    BY <1>1, <2>5 DEF Due
  <2>6. CASE writer'[n].pc = "loop" /\ writer'[n].msg = writer[n].msg /\ writer'[n].todo = Targets(n)
    <3>1. PICK x \in Data : x = writer[n].msg
      BY <2>1 DEF Writing
    <3>2. OnWay(n, m, x)'
      BY <2>4, <2>6, <3>1 DEF OnWay
    <3> QED BY <1>1, <3>1, <3>2 DEF Due
  <2>7. \A y \in Data : ~Starts(n, y)
    BY <2>1 DEF Starts, Begun
  <2> QED BY <1>1, <2>4, <2>5, <2>6, <2>7, WriterNext DEF WriterMoves
<1>2. ASSUME NEW n \in Node, NEW x \in Data, x.key = k, OnWay(n, m, x)
      PROVE  Settled(m, k, v, e)' \/ Due(m, k)'
  <2>1. CASE OnWay(n, m, x)'
    BY <1>2, <2>1 DEF Due
  <2>2. CASE Handled(<<m, n>>, x)
    <3>1. <<m, n>> \in Pair /\ <<m, n>>[1] = m /\ <<m, n>>[2] = n
      <4>1. Reachable(n, m)
        BY <1>0, <1>2 DEF DestInv
      <4> QED BY <4>1, BackPair DEF Reachable, Pair
    <3>2. x = Head(In(<<m, n>>)) /\ (handlePut(<<m, n>>) \/ handleDelete(<<m, n>>))
      BY <2>2, DataCodes DEF Handled, Handles, handleVerify, handleGetRequest, handleGetResponse
    <3>3. Stored(m, k, n, x)
      BY <1>0, <1>2, <3>1, <3>2, HandledStores
    <3>4. x = Change(k, v, e)
      BY <1>0, <1>2 DEF LastWrite
    <3> QED BY <1>0, <3>3, <3>4, StoredSettles
  <2> QED BY <1>0, <1>2, <2>1, <2>2, FlowTo
<1> QED BY <1>1, <1>2 DEF Due

LEMMA AgreeNext ==
    ASSUME TypeInv, ModeInv, DestInv, SafeInv, SafeInv', AgreeInv, [Next]_vars
    PROVE  AgreeInv'
<1>1. ASSUME Spaced, ~lossy', NEW n \in Node, Begun(n)' PROVE AllLinked'
  <2>1. ~lossy
    BY <1>1, LossyStays
  <2>2. Begun(n) \/ \E y \in Data : Starts(n, y)
    BY <1>1, WriterNext DEF WriterMoves, Begun
  <2>3. AllLinked
    BY <1>1, <2>1, <2>2 DEF AgreeInv, Starts
  <2> QED BY <1>1, <2>3, LinkedNext
<1>2. ASSUME Spaced, ~lossy', ~exact', NEW k \in Key PROVE \E v, e \in Nat : LastWrite(k, v, e)'
  <2>0. ~lossy /\ ~exact
    BY <1>2, LossyStays, ClockNext
  <2>1. PICK v \in Nat, e \in Nat : LastWrite(k, v, e)
    BY <1>2, <2>0 DEF AgreeInv
  <2>2. CASE \E n \in Node, y \in Data : Starts(n, y) /\ y.key = k
    BY <1>2, <2>2, LastWriteBegins
  <2>3. CASE \A n \in Node, y \in Data : Starts(n, y) => y.key # k
    <3>1. ASSUME NEW n \in Node, Begun(n)', writer'[n].msg.key = k
          PROVE  writer'[n].msg = Change(k, v, e)
      <4>1. ASSUME NEW y \in Data, Starts(n, y), writer'[n] = Wrote(y) PROVE FALSE
        BY <2>3, <3>1, <4>1, SMT DEF Wrote
      <4>2. Begun(n) /\ writer'[n].msg = writer[n].msg
        BY <3>1, <4>1, WriterNext DEF WriterMoves, Begun
      <4> QED BY <2>1, <3>1, <4>2 DEF LastWrite
    <3>2. ASSUME NEW n \in Node, NEW m \in Node, NEW x \in Data, OnWay(n, m, x)', x.key = k
          PROVE  x = Change(k, v, e)
      BY <2>1, <3>2, FlowMsg DEF LastWrite
    <3>3. ASSUME NEW m \in Caching PROVE Settled(m, k, v, e)' \/ Due(m, k)'
      <4>1. CASE Settled(m, k, v, e)
        BY <1>2, <2>1, <2>3, <4>1, SettledStays DEF Caching
      <4>2. CASE Due(m, k)
        <5>1. \A n \in Node : Begun(n) => AllLinked
          BY <1>2, <2>0 DEF AgreeInv
        <5> QED BY <1>2, <2>1, <4>2, <5>1, DueStays
      <4> QED BY <2>1, <4>1, <4>2 DEF LastWrite
    <3>4. LastWrite(k, v, e)'
      BY <3>1, <3>2, <3>3 DEF LastWrite
    <3> QED BY <3>4
  <2> QED BY <2>2, <2>3
<1> QED BY <1>1, <1>2 DEF AgreeInv

(* At rest the caches agree. *)
LEMMA AgreeAtRest ==
    ASSUME TypeInv, AgreeInv, Spaced
    PROVE  ReplicasAgree
<1> SUFFICES ASSUME ~lossy, ~exact, NEW k \in Key, ~UnderWay(k), NEW n \in Caching, NEW m \in Caching
             PROVE  Agree(cache[n][k], cache[m][k]) \/ Agree(cache[m][k], cache[n][k])
  BY DEF ReplicasAgree
<1>0. /\ now \in Nat /\ n \in Node /\ m \in Node
      /\ cache[n][k].expiry \in Nat /\ cache[m][k].expiry \in Nat
  BY DEF TypeInv, DataTypes, Caching
<1>1. PICK v \in Nat, e \in Nat : LastWrite(k, v, e)
  BY DEF AgreeInv
<1>2. Settled(n, k, v, e) /\ Settled(m, k, v, e)
  BY <1>0, <1>1, DueUnder DEF LastWrite
<1>3. None.value = 0
  BY DEF None
<1>4. ASSUME NEW i \in Node, NEW j \in Node, cache[j][k].expiry \in Nat,
             cache[i][k] = None, e # NO_EXPIRY, now >= 2 * (e - 1),
             cache[j][k].value = v, v # 0 => Copy(e, cache[j][k].expiry)
      PROVE  Agree(cache[i][k], cache[j][k])
  <2>1. CASE v = 0
    BY <1>3, <1>4, <2>1 DEF Agree
  <2>2. CASE v # 0
    <3>1. cache[j][k].expiry # NO_EXPIRY /\ cache[j][k].expiry <= e
      BY <1>4, <2>2, SMT DEF Copy, NO_EXPIRY
    <3>2. now >= 2 * (cache[j][k].expiry - 1)
      BY <1>0, <1>4, <3>1, SMT
    <3> QED BY <1>4, <3>1, <3>2 DEF Agree
  <2> QED BY <2>1, <2>2
<1>5. cache[n][k].value = cache[m][k].value => Agree(cache[n][k], cache[m][k])
  BY DEF Agree
<1> QED BY <1>0, <1>2, <1>4, <1>5 DEF Settled

-----------------------------------------------------------------------------
(* What a step does to a Get and to its requests. *)

(* handleGetResponse hands a value to the Get of n. *)
Answered(n) ==
    \E p \in Pair :
       /\ p[1] = n /\ handleGetResponse(p) /\ pendingGet[p] # Nil
       /\ getter'[n].value = Head(In(p)).value /\ Head(In(p)).value # 0
       /\ \E x \in pendingGet[p] : x[1] = Head(In(p)).pending /\ x[2] = getter[n].id

Begins(n, k) ==
    /\ gets' = gets + 1 /\ getter[n].pc = "idle" /\ getter'[n].pc = "peers"
    /\ getter'[n].key = k /\ getter'[n].id = gets + 1 /\ getter'[n].todo = {}

GoesOn(n) ==
    /\ getter[n].pc # "idle" /\ getter'[n].pc # "idle"
    /\ getter'[n].key = getter[n].key /\ getter'[n].id = getter[n].id
    /\ getter'[n].todo \subseteq getter[n].todo \cup Targets(n)
    /\ getter'[n].pc = "got" => Answered(n)

GetterMoves(n) ==
    \/ getter'[n] = getter[n]
    \/ getter'[n] = NoGet
    \/ \E k \in Key : Begins(n, k)
    \/ GoesOn(n)

RequestMoves(n) ==
    /\ \A g \in Elems(getRequestChan'[n]) :
          \/ g \in Elems(getRequestChan[n])
          \/ /\ getter[n].pc = "ask" /\ g.r \in getter[n].todo
             /\ g.id = getter[n].id /\ g.key = getter[n].key
    /\ \/ getWorker'[n] = getWorker[n]
       \/ getWorker'[n] = NoWork
       \/ \E g \in Elems(getRequestChan[n]) :
             getWorker'[n].r = g.r /\ getWorker'[n].id = g.id /\ getWorker'[n].key = g.key

PendingMoves(p) ==
    \/ pendingGet'[p] = pendingGet[p]
    \/ /\ (\E q \in Pair : tearDownAll(q)) \/ (\E n \in Node : ShutDownAll(n))
       /\ pendingGet'[p] = Nil
    \/ /\ pendingGet[p] # Nil
       /\ \A x \in pendingGet'[p] : x \in pendingGet[p] \/ \E k, id : x = <<PendingKey(k, id), id>>

GetMoves ==
    /\ gets' \in {gets, gets + 1}
    /\ \A n \in Node : GetterMoves(n) /\ RequestMoves(n)
    /\ \A p \in Pair : PendingMoves(p)

LEMMA GetStepMoves ==
    ASSUME TypeInv, DestInv, [Next]_vars
    PROVE  GetMoves
<1>0. /\ getter \in [Node -> Getters]
      /\ getRequestChan \in [Node -> Seq(Requests)]
      /\ getWorker \in [Node -> Requests \cup {NoWork}]
      /\ pendingGet \in [Pair -> Pendings \cup {Nil}]
  BY DEF TypeInv, GetTypes, Pendings
<1>1. ASSUME UNCHANGED <<getter, getRequestChan, getWorker>>, NEW n \in Node
      PROVE  GetterMoves(n) /\ RequestMoves(n)
  BY <1>1 DEF GetterMoves, RequestMoves
<1>2. ASSUME UNCHANGED pendingGet, NEW p \in Pair PROVE PendingMoves(p)
  BY <1>2 DEF PendingMoves
<1>3. ASSUME UNCHANGED <<getRequestChan, getWorker>>, NEW n \in Node PROVE RequestMoves(n)
  BY <1>3 DEF RequestMoves
<1>4. CASE UNCHANGED getVars
  BY <1>1, <1>2, <1>4 DEF GetMoves, getVars
<1>5. ASSUME NEW p \in Pair, tearDownAll(p), UNCHANGED <<getter, getRequestChan, getWorker, gets>>
      PROVE  GetMoves
  <2>1. ASSUME NEW q \in Pair PROVE PendingMoves(q)
    <3>1. pendingGet'[q] = pendingGet[q] \/ pendingGet'[q] = Nil
      BY <1>0, <1>5 DEF tearDownAll
    <3> QED BY <1>5, <3>1 DEF PendingMoves
  <2> QED BY <1>1, <1>5, <2>1 DEF GetMoves
<1>6. ASSUME NEW n \in Node, ShutDownAll(n), UNCHANGED <<getter, getRequestChan, getWorker, gets>>
      PROVE  GetMoves
  <2>1. ASSUME NEW q \in Pair PROVE PendingMoves(q)
    <3>1. pendingGet'[q] = pendingGet[q] \/ pendingGet'[q] = Nil
      BY <1>0, <1>6 DEF ShutDownAll
    <3> QED BY <1>6, <3>1 DEF PendingMoves
  <2> QED BY <1>1, <1>6, <2>1 DEF GetMoves
<1>7. ASSUME NEW n \in Node, NEW h, getter' = [getter EXCEPT ![n] = h],
             (getter'[n] = h) => GetterMoves(n),
             gets' \in {gets, gets + 1}, UNCHANGED <<getRequestChan, getWorker, pendingGet>>
      PROVE  GetMoves
  <2>1. ASSUME NEW m \in Node PROVE GetterMoves(m)
    <3>1. CASE m = n
      BY <1>0, <1>7, <3>1
    <3>2. CASE m # n
      BY <1>0, <1>7, <3>2 DEF GetterMoves
    <3> QED BY <3>1, <3>2
  <2> QED BY <1>2, <1>3, <1>7, <2>1 DEF GetMoves
<1>8. ASSUME NEW n \in Node, NEW k \in Key, Get(n, k) PROVE GetMoves
  <2> DEFINE h == [NoGet EXCEPT !.pc = "peers", !.key = k, !.id = gets + 1]
  <2>1. /\ gets' = gets + 1 /\ getter' = [getter EXCEPT ![n] = h] /\ getter[n].pc = "idle"
        /\ UNCHANGED <<getRequestChan, getWorker, pendingGet>>
    BY <1>8 DEF Get
  <2>2. h.pc = "peers" /\ h.key = k /\ h.id = gets + 1 /\ h.todo = {}
    BY DEF NoGet
  <2> HIDE DEF h
  <2>3. getter'[n] = h => GetterMoves(n)
    BY <2>1, <2>2 DEF GetterMoves, Begins
  <2> QED BY <1>7, <2>1, <2>3
<1>9. ASSUME NEW n \in Node, getRemoteNodes(n) PROVE GetMoves
  <2> DEFINE h == [getter[n] EXCEPT !.pc = "ask", !.todo = Targets(n)]
  <2>1. /\ getter[n].pc = "peers" /\ UNCHANGED <<getRequestChan, getWorker, pendingGet, gets>>
        /\ \/ getter' = [getter EXCEPT ![n] = NoGet]
           \/ getter' = [getter EXCEPT ![n] = h]
    BY <1>0, <1>9 DEF getRemoteNodes
  <2>2. /\ h.pc = "ask" /\ h.key = getter[n].key /\ h.id = getter[n].id
        /\ h.todo = Targets(n)
    BY <1>0, SMT DEF Getters
  <2> HIDE DEF h
  <2>3. getter'[n] = h => GetterMoves(n)
    BY <2>1, <2>2 DEF GetterMoves, GoesOn
  <2>4. getter'[n] = NoGet => GetterMoves(n)
    BY DEF GetterMoves
  <2> QED BY <1>7, <2>1, <2>3, <2>4
<1>10. ASSUME NEW n \in Node, waitReply(n) PROVE GetMoves
  <2> DEFINE h == [getter[n] EXCEPT !.pc = "wait"]
  <2>1. /\ getter[n].pc = "ask" /\ UNCHANGED <<getRequestChan, getWorker, pendingGet, gets>>
        /\ getter' = [getter EXCEPT ![n] = h]
    BY <1>0, <1>10 DEF waitReply
  <2>2. /\ h.pc = "wait" /\ h.key = getter[n].key /\ h.id = getter[n].id
        /\ h.todo = getter[n].todo
    BY <1>0, SMT DEF Getters
  <2> HIDE DEF h
  <2>3. getter'[n] = h => GetterMoves(n)
    BY <2>1, <2>2 DEF GetterMoves, GoesOn
  <2> QED BY <1>7, <2>1, <2>3
<1>11. ASSUME NEW n \in Node, timedOut(n) \/ getReturns(n) PROVE GetMoves
  <2>1. /\ UNCHANGED <<getRequestChan, getWorker, pendingGet, gets>>
        /\ getter' = [getter EXCEPT ![n] = NoGet]
    BY <1>11 DEF timedOut, getReturns
  <2>2. getter'[n] = NoGet => GetterMoves(n)
    BY DEF GetterMoves
  <2> QED BY <1>7, <2>1, <2>2
<1>12. ASSUME NEW n \in Node, takeGet(n) PROVE GetMoves
  <2> DEFINE g == Head(getRequestChan[n])
             h == [g EXCEPT !.pc = "store"]
  <2>1. /\ getRequestChan[n] # <<>> /\ UNCHANGED <<getter, pendingGet, gets>>
        /\ getRequestChan' = [getRequestChan EXCEPT ![n] = Tail(@)]
        /\ \/ getWorker' = [getWorker EXCEPT ![n] = NoWork]
           \/ getWorker' = [getWorker EXCEPT ![n] = h]
    BY <1>12 DEF takeGet
  <2>2. /\ g \in Requests /\ g \in Elems(getRequestChan[n])
        /\ Elems(Tail(getRequestChan[n])) \subseteq Elems(getRequestChan[n])
    BY <1>0, <2>1, ElemsTail
  <2>3. h.r = g.r /\ h.id = g.id /\ h.key = g.key
    BY <2>2 DEF Requests
  <2> HIDE DEF g, h
  <2>4. ASSUME NEW m \in Node PROVE GetterMoves(m) /\ RequestMoves(m)
    <3>1. GetterMoves(m)
      BY <2>1 DEF GetterMoves
    <3>2. CASE m = n
      <4>1. /\ getRequestChan'[m] = Tail(getRequestChan[m])
            /\ getWorker'[m] = NoWork \/ getWorker'[m] = h
        BY <1>0, <2>1, <3>2
      <4> QED BY <2>2, <2>3, <3>1, <3>2, <4>1 DEF RequestMoves
    <3>3. CASE m # n
      BY <1>0, <2>1, <3>1, <3>3 DEF RequestMoves
    <3> QED BY <3>2, <3>3
  <2> QED BY <1>2, <2>1, <2>4 DEF GetMoves
<1>13. ASSUME NEW n \in Node, askPeer(n) PROVE GetMoves
  <2>1. PICK m \in getter[n].todo :
           /\ getter' = [getter EXCEPT ![n].todo = @ \ {m}]
           /\ \/ UNCHANGED getRequestChan
              \/ getRequestChan' = [getRequestChan EXCEPT ![n] =
                   Append(@, [pc |-> "check", r |-> m, id |-> getter[n].id, key |-> getter[n].key])]
    BY <1>13 DEF askPeer
  <2>2. UNCHANGED <<getWorker, pendingGet, gets>> /\ getter[n].pc = "ask"
    BY <1>13 DEF askPeer
  <2> DEFINE g == [pc |-> "check", r |-> m, id |-> getter[n].id, key |-> getter[n].key]
  <2>3. g \in Requests /\ g.r = m /\ g.id = getter[n].id /\ g.key = getter[n].key
    <3>1. m \in Node /\ getter[n].key \in Key /\ getter[n].id \in Nat
      BY <1>0, <2>2, GetterFields DEF DestInv
    <3> QED BY <3>1 DEF Requests
  <2>4. Elems(Append(getRequestChan[n], g)) = Elems(getRequestChan[n]) \cup {g}
    <3> HIDE DEF g
    <3>1. getRequestChan[n] \in Seq(Requests)
      BY <1>0
    <3> QED BY <2>3, <3>1, ElemsAppend, SMT
  <2> HIDE DEF g
  <2>5. ASSUME NEW o \in Node PROVE GetterMoves(o)
    <3>1. CASE o = n
      <4>1. /\ getter'[o].pc = getter[o].pc /\ getter'[o].key = getter[o].key
            /\ getter'[o].id = getter[o].id /\ getter'[o].todo = getter[o].todo \ {m}
        BY <1>0, <2>1, <3>1, SMT DEF Getters
      <4> QED BY <2>2, <3>1, <4>1 DEF GetterMoves, GoesOn
    <3>2. CASE o # n
      BY <1>0, <2>1, <3>2 DEF GetterMoves
    <3> QED BY <3>1, <3>2
  <2>6. ASSUME NEW o \in Node PROVE RequestMoves(o)
    <3>1. \/ getRequestChan'[o] = getRequestChan[o]
          \/ o = n /\ getRequestChan'[o] = Append(getRequestChan[n], g)
      BY <1>0, <2>1 DEF g
    <3> QED BY <2>2, <2>3, <2>4, <3>1 DEF RequestMoves
  <2> QED BY <1>2, <2>2, <2>5, <2>6 DEF GetMoves
<1>14. ASSUME NEW n \in Node, getData(n) PROVE GetMoves
  <2> DEFINE g == getWorker[n]
             p == <<n, g.r>>
             key == PendingKey(g.key, g.id)
  <2>1. /\ getWorker' = [getWorker EXCEPT ![n] = NoWork]
        /\ UNCHANGED <<getter, getRequestChan, gets>>
        /\ \/ UNCHANGED pendingGet
           \/ /\ pendingGet[p] # Nil
              /\ pendingGet' = [pendingGet EXCEPT ![p] = {x \in @ : x[1] # key} \cup {<<key, g.id>>}]
    BY <1>14 DEF getData
  <2>2. ASSUME NEW m \in Node PROVE GetterMoves(m) /\ RequestMoves(m)
    BY <1>0, <2>1 DEF GetterMoves, RequestMoves
  <2>3. ASSUME NEW q \in Pair PROVE PendingMoves(q)
    <3>1. CASE pendingGet'[q] = pendingGet[q]
      BY <3>1 DEF PendingMoves
    <3>2. CASE pendingGet[q] # Nil /\ pendingGet'[q] = {x \in pendingGet[q] : x[1] # key} \cup {<<key, g.id>>}
      BY <3>2 DEF PendingMoves
    <3> HIDE DEF p, key, g
    <3>3. \/ pendingGet'[q] = pendingGet[q]
          \/ pendingGet[q] # Nil /\ pendingGet'[q] = {x \in pendingGet[q] : x[1] # key} \cup {<<key, g.id>>}
      BY <1>0, <2>1
    <3> QED BY <3>1, <3>2, <3>3
  <2> QED BY <2>1, <2>2, <2>3 DEF GetMoves
<1>15. ASSUME NEW p \in Pair, handleGetResponse(p) PROVE GetMoves
  <2> DEFINE m == Head(In(p))
             n == p[1]
             found == {x \in pendingGet[p] : x[1] = m.pending}
  <2>1. /\ UNCHANGED <<getRequestChan, getWorker, gets>>
        /\ \/ UNCHANGED <<getter, pendingGet>>
           \/ /\ pendingGet[p] # Nil /\ pendingGet' = [pendingGet EXCEPT ![p] = @ \ found]
              /\ \/ getter' = getter
                 \/ /\ getter' = [getter EXCEPT ![n].pc = "got", ![n].value = m.value]
                    /\ \E x \in found : isFor(x, n)
                    /\ m.value # 0 /\ getter[n].pc = "wait"
    BY <1>15 DEF handleGetResponse
  <2>2. n \in Node
    BY BackPair
  <2>3. ASSUME NEW q \in Pair PROVE PendingMoves(q)
    <3> HIDE DEF found
    <3> QED BY <1>0, <2>1, SMT DEF PendingMoves
  <2>4. ASSUME NEW o \in Node PROVE GetterMoves(o)
    <3>1. CASE getter' = getter
      BY <3>1 DEF GetterMoves
    <3>2. CASE /\ getter' = [getter EXCEPT ![n].pc = "got", ![n].value = m.value]
               /\ \E x \in found : isFor(x, n)
               /\ m.value # 0 /\ getter[n].pc = "wait" /\ pendingGet[p] # Nil
      <4>1. CASE o = n
        <5>1. /\ getter'[o].pc = "got" /\ getter'[o].key = getter[o].key
              /\ getter'[o].id = getter[o].id /\ getter'[o].todo = getter[o].todo
              /\ getter'[o].value = m.value
          BY <1>0, <3>2, <4>1, SMT DEF Getters
        <5>2. \E x \in pendingGet[p] : x[1] = m.pending /\ x[2] = getter[n].id
          BY <3>2 DEF isFor
        <5>3. Answered(o)
          BY <1>15, <3>2, <4>1, <5>1, <5>2 DEF Answered
        <5> QED BY <3>2, <4>1, <5>1, <5>3 DEF GetterMoves, GoesOn
      <4>2. CASE o # n
        BY <1>0, <3>2, <4>2 DEF GetterMoves
      <4> QED BY <4>1, <4>2
    <3> QED BY <2>1, <3>1, <3>2
  <2> QED BY <1>3, <2>1, <2>3, <2>4 DEF GetMoves
<1> QED
  BY <1>4, <1>5, <1>6, <1>8, <1>9, <1>10, <1>11, <1>12, <1>13, <1>14, <1>15, GetEffects

-----------------------------------------------------------------------------
(* Nothing is sent to a passive node. *)
LEMMA DestNext ==
    ASSUME TypeInv, DestInv, ModeInv, [Next]_vars
    PROVE  DestInv'
<1>1. ASSUME NEW n \in Node, NEW m \in Node, NEW x \in Data, OnWay(n, m, x)'
      PROVE  Reachable(n, m)
  BY <1>1, FlowFrom, TargetsReach DEF DestInv
<1>2. ASSUME NEW n \in Node
      PROVE  /\ getter'[n].pc # "idle" => getter'[n].key \in Key
             /\ \A m \in getter'[n].todo : Reachable(n, m)
  <2>1. GetterMoves(n)
    BY GetStepMoves DEF GetMoves
  <2>2. Targets(n) \subseteq Node
    BY DEF Targets, TypeInv, LinkTypes
  <2>3. CASE getter'[n] = getter[n]
    BY <2>3 DEF DestInv
  <2>4. CASE getter'[n] = NoGet
    BY <2>4, SMT DEF NoGet
  <2>5. CASE \E k \in Key : Begins(n, k)
    BY <2>5 DEF Begins
  <2>6. CASE GoesOn(n)
    BY <2>2, <2>6, TargetsReach DEF GoesOn, DestInv
  <2> QED BY <2>1, <2>3, <2>4, <2>5, <2>6 DEF GetterMoves
<1>3. ASSUME NEW n \in Node
      PROVE  /\ \A g \in Elems(getRequestChan'[n]) : Reachable(n, g.r)
             /\ getWorker'[n] # NoWork => Reachable(n, getWorker'[n].r)
  <2>1. RequestMoves(n)
    BY GetStepMoves DEF GetMoves
  <2> QED BY <2>1 DEF RequestMoves, DestInv
<1>4. ASSUME NEW q \in Pair, NEW x \in On(q)', x.code = "GETREQ" PROVE q[2] \notin Passive
  <2>1. x \in On(q) \/ NewOn(q, x)
    BY NetStep DEF NetMoves
  <2>2. ASSUME NewOn(q, x) PROVE Reachable(q[1], q[2])
    BY <1>4, <2>2, NewCodes, DataCodes
  <2> QED BY <1>4, <2>1, <2>2 DEF DestInv, Reachable
<1> QED BY <1>1, <1>2, <1>3, <1>4 DEF DestInv, Reachable

-----------------------------------------------------------------------------
(* Nothing goes down by itself. *)
LEMMA NoCause ==
    ASSUME TypeInv, DestInv, SafeInv, ~broken, NEW n \in Node
    PROVE  ~Cause(n)
<1>1. /\ status[n] = "started"
      /\ \A p \in Pair : pendingGet[p] # Nil
  BY DEF SafeInv
<1>2. ~(getData(n) /\ pendingGet[<<n, getWorker[n].r>>] = Nil)
  <2>1. ASSUME getData(n) PROVE <<n, getWorker[n].r>> \in Pair
    <3>1. getWorker[n] # NoWork
      BY <2>1, SMT DEF getData, NoWork
    <3> QED BY <3>1 DEF DestInv, Reachable
  <2> QED BY <1>1, <2>1
<1>3. ASSUME NEW p \in Pair, p[1] = n, handlePut(p) \/ handleDelete(p) PROVE n \notin Passive
  <2>1. PICK x \in Data : x \in On(Back(p))
    <3>1. Head(In(p)) \in Message /\ Head(In(p)).code \in {"PUT", "DEL"} /\ Head(In(p)) \in On(Back(p))
      BY <1>3, Received DEF handlePut, handleDelete
    <3> QED BY <3>1, Codes DEF Data
  <2>2. Back(p) = <<p[2], p[1]>> /\ Back(p) \in Pair /\ p[2] \in Node
    BY BackPair DEF Back
  <2>3. OnWay(p[2], p[1], x)
    BY <2>1, <2>2 DEF OnWay
  <2> QED BY <1>3, <2>2, <2>3 DEF DestInv, Reachable
<1>4. ASSUME NEW p \in Pair, p[1] = n, handleGetRequest(p) PROVE n \notin Passive
  <2>1. Head(In(p)).code = "GETREQ" /\ Head(In(p)) \in On(Back(p))
    BY <1>4, Received DEF handleGetRequest
  <2> QED BY <1>4, <2>1, BackPair DEF DestInv
<1> QED BY <1>1, <1>2, <1>3, <1>4 DEF Cause

LEMMA SafeNext ==
    ASSUME TypeInv, DestInv, SafeInv, [Next]_vars
    PROVE  SafeInv'
<1>0. status \in [Node -> {"started", "ended", "dead"}] /\ link \in [Pair -> Ends]
  BY DEF TypeInv, LinkTypes
<1>1. ASSUME ~broken'
      PROVE  /\ ~broken
             /\ UNCHANGED status
             /\ \A p \in Pair : link'[p].up
             /\ ~(\E p \in Pair : tearDownAll(p)) /\ ~(\E n \in Node : ShutDownAll(n))
  <2>1. ~broken
    BY <1>1, LinkEffects DEF Panic, handleVerify, addVerified, connectionFails, peerClosed,
                             tearDownAll, tearDown, ShutDownAll, ShutDown
  <2>2. (\A p \in Pair : link[p].up) /\ (\A n \in Node : ~Cause(n))
    BY <2>1, NoCause DEF SafeInv
  <2>3. ~(\E p \in Pair : tearDownAll(p)) /\ ~(\E n \in Node : ShutDownAll(n))
    BY <1>1, <2>2 DEF tearDownAll, tearDown, ShutDownAll, ShutDown
  <2>4. \A p \in Pair : ~connectionFails(p) /\ ~peerClosed(p)
    BY <1>1, <2>2, BackPair DEF connectionFails, peerClosed
  <2>5. CASE UNCHANGED <<status, link, peers, broken>>
    BY <2>1, <2>2, <2>3, <2>5
  <2>6. ASSUME NEW p \in Pair, handleVerify(p) \/ addVerified(p)
        PROVE  UNCHANGED status /\ \A q \in Pair : link'[q].up
    BY <1>0, <2>2, <2>6, SMT DEF handleVerify, addVerified, Ends
  <2> QED BY <2>1, <2>2, <2>3, <2>4, <2>5, <2>6, LinkEffects
<1>2. ASSUME ~broken', NEW p \in Pair PROVE pendingGet'[p] # Nil
  <2>1. pendingGet[p] # Nil /\ pendingGet[p] \in Pendings \cup {Nil}
    BY <1>1, <1>2 DEF SafeInv, TypeInv, GetTypes, Pendings
  <2>2. \A x \in pendingGet[p] : x # <<>>
    BY <2>1, SMT DEF Pendings
  <2>3. \A k, id : <<PendingKey(k, id), id>> # <<>>
    OBVIOUS
  <2>4. PendingMoves(p)
    BY GetStepMoves DEF GetMoves
  <2>5. CASE pendingGet'[p] = pendingGet[p]
    BY <2>1, <2>5
  <2>6. CASE \A x \in pendingGet'[p] : x \in pendingGet[p] \/ \E k, id : x = <<PendingKey(k, id), id>>
    BY <2>2, <2>3, <2>6 DEF Nil
  <2> QED BY <1>1, <1>2, <2>4, <2>5, <2>6 DEF PendingMoves
<1>3. broken' => lossy'
  <2>1. ASSUME ~broken, broken' PROVE lossy'
    BY <2>1, LinkEffects DEF Panic, handleVerify, addVerified, connectionFails, peerClosed,
                             Closes, tearDownAll, tearDown, ShutDownAll, ShutDown
  <2> QED BY <2>1, LossyStays DEF SafeInv
<1> QED BY <1>1, <1>2, <1>3 DEF SafeInv

-----------------------------------------------------------------------------
(* Replies. *)
LEMMA SeenGrows ==
    ASSUME [Next]_vars, NEW n \in Node
    PROVE  getter'[n].pc = "idle" \/ seen[n] \subseteq seen'[n]
<1>1. CASE UNCHANGED vars
  BY <1>1 DEF vars
<1>2. CASE Next
  BY <1>2 DEF Next
<1> QED BY <1>1, <1>2

LEMMA AsksStays ==
    ASSUME TypeInv, ReplyInv, GetMoves, NEW n \in Node, NEW id, NEW key, Asks(n, id, key)
    PROVE  Asks(n, id, key)'
<1>1. id \in 1 .. gets /\ gets \in Nat /\ gets' \in {gets, gets + 1}
  BY SMT DEF Asks, TypeInv, GetTypes, GetMoves
<1>2. id \in 1 .. gets'
  BY <1>1, SMT
<1>3. id = getter'[n].id => key = getter'[n].key
  <2>1. CASE getter'[n] = getter[n]
    BY <2>1 DEF Asks
  <2>2. CASE getter'[n] = NoGet
    BY <1>1, <2>2, SMT DEF NoGet
  <2>3. CASE \E k \in Key : Begins(n, k)
    BY <1>1, <2>3, SMT DEF Begins
  <2>4. CASE GoesOn(n)
    BY <2>4 DEF GoesOn, Asks
  <2> QED BY <2>1, <2>2, <2>3, <2>4 DEF GetMoves, GetterMoves
<1> QED BY <1>2, <1>3 DEF Asks

(* A value that was held while the Get runs still was. *)
LEMMA SeenStays ==
    ASSUME TypeInv, ReplyInv, GetMoves, [Next]_vars, NEW n \in Node, NEW id \in 1 .. gets, NEW v,
           id = getter[n].id => v \in seen[n], id = getter'[n].id
    PROVE  v \in seen'[n]
<1>1. gets \in Nat
  BY SMT DEF TypeInv, GetTypes
<1>2. CASE getter'[n] = getter[n]
  BY <1>1, <1>2, SeenGrows, SMT DEF ReplyInv
<1>3. CASE getter'[n] = NoGet
  BY <1>1, <1>3, SMT DEF NoGet
<1>4. CASE \E k \in Key : Begins(n, k)
  BY <1>1, <1>4, SMT DEF Begins
<1>5. CASE GoesOn(n)
  BY <1>5, SeenGrows DEF GoesOn
<1> QED BY <1>2, <1>3, <1>4, <1>5 DEF GetMoves, GetterMoves

LEMMA ReplyNext ==
    ASSUME TypeInv, DestInv, ReplyInv, Next
    PROVE  ReplyInv'
<1>0. GetMoves /\ gets \in Nat /\ \A n \in Node : getter[n].id \in Nat
  <2>1. GetMoves
    BY GetStepMoves
  <2>2. gets \in Nat /\ getter \in [Node -> Getters]
    BY SMT DEF TypeInv, GetTypes
  <2>3. \A n \in Node : getter[n].id \in Nat
    BY <2>2, GetterFields
  <2> QED BY <2>1, <2>2, <2>3
<1>1. ASSUME NEW n \in Node
      PROVE  getter'[n].id <= gets' /\ (getter'[n].pc = "idle" <=> getter'[n].id = 0)
  <2>1. GetterMoves(n) /\ gets' \in {gets, gets + 1}
    BY <1>0 DEF GetMoves
  <2>2. CASE getter'[n] = getter[n]
    BY <1>0, <2>1, <2>2, SMT DEF ReplyInv
  <2>3. CASE getter'[n] = NoGet
    BY <1>0, <2>1, <2>3, SMT DEF NoGet
  <2>4. CASE \E k \in Key : Begins(n, k)
    BY <1>0, <2>1, <2>4, SMT DEF Begins
  <2>5. CASE GoesOn(n)
    <3>1. /\ getter'[n].id = getter[n].id
          /\ getter'[n].pc # "idle" /\ getter[n].pc # "idle"
      BY <2>5 DEF GoesOn
    <3>2. getter[n].id <= gets /\ (getter[n].pc = "idle" <=> getter[n].id = 0)
      BY DEF ReplyInv
    <3> QED BY <1>0, <2>1, <3>1, <3>2, SMT
  <2> QED BY <2>1, <2>2, <2>3, <2>4, <2>5 DEF GetterMoves
<1>2. ASSUME NEW n \in Node
      PROVE  /\ \A g \in Elems(getRequestChan'[n]) : Asks(n, g.id, g.key)'
             /\ (getWorker[n] # NoWork => Asks(n, getWorker[n].id, getWorker[n].key))'
  <2>1. RequestMoves(n)
    BY <1>0 DEF GetMoves
  <2>2. ASSUME getter[n].pc = "ask" PROVE Asks(n, getter[n].id, getter[n].key)
    BY <1>0, <2>2, SMT DEF ReplyInv, Asks
  <2>3. \A id, key : Asks(n, id, key) => Asks(n, id, key)'
    BY <1>0, AsksStays
  <2>4. ASSUME NEW g \in Elems(getRequestChan'[n]) PROVE Asks(n, g.id, g.key)
    BY <2>1, <2>2 DEF RequestMoves, ReplyInv
  <2>5. ASSUME getWorker'[n] # NoWork PROVE Asks(n, getWorker'[n].id, getWorker'[n].key)
    BY <2>1, <2>5 DEF RequestMoves, ReplyInv
  <2>6. ASSUME NEW g \in Elems(getRequestChan'[n]) PROVE Asks(n, g.id, g.key)'
    BY <2>4, <2>3
  <2>7. ASSUME getWorker'[n] # NoWork PROVE Asks(n, getWorker[n].id, getWorker[n].key)'
    <3>1. PICK id, key : id = getWorker'[n].id /\ key = getWorker'[n].key
      OBVIOUS
    <3>2. Asks(n, id, key)
      BY <2>5, <2>7, <3>1
    <3>3. Asks(n, id, key)'
      BY <2>3, <3>2
    <3> QED BY <3>1, <3>3 DEF Asks
  <2> QED BY <2>6, <2>7
<1>3. ASSUME NEW p \in Pair, pendingGet'[p] # Nil, NEW x \in pendingGet'[p] PROVE x[2] = x[1][2]
  <2>1. PendingMoves(p)
    BY <1>0 DEF GetMoves
  <2>2. (x \in pendingGet[p] /\ pendingGet[p] # Nil) \/ \E k, id : x = <<PendingKey(k, id), id>>
    BY <1>3, <2>1 DEF PendingMoves
  <2>3. \A k, id : <<PendingKey(k, id), id>>[2] = <<PendingKey(k, id), id>>[1][2]
    BY DEF PendingKey
  <2> QED BY <2>2, <2>3, SMT DEF ReplyInv
<1>4. ASSUME NEW q \in Pair, NEW x \in On(q)', x.code = "GETREQ"
      PROVE  x.pending[1] = x.key /\ Asks(q[1], x.pending[2], x.key)'
  <2>1. x \in On(q) \/ NewOn(q, x)
    BY NetStep DEF NetMoves
  <2>2. q[1] \in Node
    BY BackPair
  <2>3. x.pending[1] = x.key /\ Asks(q[1], x.pending[2], x.key)
    <3>1. CASE x \in On(q)
      BY <1>4, <3>1 DEF ReplyInv
    <3>2. CASE NewOn(q, x)
      <4> DEFINE g == getWorker[q[1]]
      <4>1. /\ g.pc = "store"
            /\ x = [code |-> "GETREQ", key |-> g.key, pending |-> PendingKey(g.key, g.id)]
        <5>1. NewRequest(q, x)
          BY <1>4, <3>2, NewCodes, DataCodes
        <5> QED BY <5>1 DEF NewRequest
      <4>2. g # NoWork
        <5>1. g.pc = "store"
          BY <4>1
        <5>2. NoWork.pc = "idle"
          BY DEF NoWork
        <5> QED BY <5>1, <5>2
      <4>3. Asks(q[1], g.id, g.key)
        <5>1. \A n \in Node : getWorker[n] # NoWork =>
                  Asks(n, getWorker[n].id, getWorker[n].key)
          BY DEF ReplyInv
        <5> QED BY <2>2, <4>2, <5>1
      <4>4. x.pending[1] = g.key /\ x.pending[2] = g.id /\ x.key = g.key
        BY <4>1 DEF PendingKey
      <4> QED BY <4>3, <4>4
    <3> QED BY <2>1, <3>1, <3>2
  <2> QED BY <1>0, <2>2, <2>3, AsksStays
<1>5. ASSUME NEW q \in Pair, NEW x \in On(q)', x.code = "GETRSP"
      PROVE  /\ x.pending[2] \in 1 .. gets'
             /\ x.pending[2] = getter'[q[2]].id /\ x.value # 0 => x.value \in seen'[q[2]]
  <2>1. x \in On(q) \/ NewOn(q, x)
    BY NetStep DEF NetMoves
  <2>2. q[1] \in Node /\ q[2] \in Node
    BY BackPair
  <2>3. CASE x \in On(q)
    <3>1. /\ x.pending[2] \in 1 .. gets
          /\ x.pending[2] = getter[q[2]].id /\ x.value # 0 => x.value \in seen[q[2]]
      BY <1>5, <2>3 DEF ReplyInv
    <3>2. gets' \in {gets, gets + 1}
      BY <1>0 DEF GetMoves
    <3>3. x.pending[2] \in 1 .. gets'
      BY <1>0, <3>1, <3>2, SMT
    <3> QED BY <1>0, <2>2, <3>1, <3>3, SeenStays
  <2>4. CASE NewOn(q, x)
    <3>0. PICK m, n : m = Head(In(q)) /\ n = q[2]
      OBVIOUS
    <3>1. /\ handleGetRequest(q) /\ q[1] \notin Passive /\ UNCHANGED cache
          /\ x = [code |-> "GETRSP", pending |-> m.pending, value |-> cache[q[1]][m.key].value]
      <4>1. NewReply(q, x)
        BY <1>5, <2>4, NewCodes, DataCodes
      <4> QED BY <3>0, <4>1 DEF NewReply
    <3>2. m.code = "GETREQ" /\ m \in On(Back(q)) /\ Back(q) \in Pair /\ Back(q)[1] = n
      BY <3>0, <3>1, Received, BackPair DEF handleGetRequest
    <3>3. Asks(n, m.pending[2], m.key)
      BY <3>2 DEF ReplyInv
    <3>4. Asks(n, m.pending[2], m.key)'
      BY <1>0, <2>2, <3>0, <3>3, AsksStays
    <3>5. x.pending = m.pending /\ x.value = cache'[q[1]][m.key].value
      BY <3>1
    <3>6. x.pending[2] \in 1 .. gets'
      BY <3>4, <3>5 DEF Asks
    <3>7. ASSUME x.pending[2] = getter'[n].id, x.value # 0 PROVE x.value \in seen'[n]
      <4>1. getter'[n].key = m.key
        BY <3>4, <3>5, <3>7 DEF Asks
      <4>2. getter'[n].pc # "idle"
        BY <1>1, <2>2, <3>0, <3>6, <3>7, SMT
      <4>3. x.value \in Holding(n)
        BY <2>2, <3>1, <3>5, <3>7, <4>1 DEF Holding
      <4>4. seen'[n] = seen[n] \cup Holding(n)
        BY <2>2, <3>0, <4>2 DEF Next
      <4> QED BY <4>3, <4>4
    <3> QED BY <3>0, <3>6, <3>7
  <2> QED BY <2>1, <2>3, <2>4
<1>6. ASSUME NEW n \in Node, getter'[n].pc = "got" PROVE getter'[n].value \in seen'[n]
  <2>1. seen[n] \subseteq seen'[n]
    BY <1>6, SeenGrows
  <2>2. CASE getter'[n] = getter[n]
    BY <1>6, <2>1, <2>2 DEF ReplyInv, GetRegular
  <2>3. CASE GoesOn(n)
    <3>1. PICK p \in Pair :
             /\ p[1] = n /\ handleGetResponse(p) /\ pendingGet[p] # Nil
             /\ getter'[n].value = Head(In(p)).value /\ Head(In(p)).value # 0
             /\ \E x \in pendingGet[p] : x[1] = Head(In(p)).pending /\ x[2] = getter[n].id
      BY <1>6, <2>3 DEF GoesOn, Answered
    <3> DEFINE m == Head(In(p))
    <3>2. m.code = "GETRSP" /\ m \in On(Back(p)) /\ Back(p) \in Pair /\ Back(p)[2] = n
      BY <3>1, Received, BackPair DEF handleGetResponse
    <3>3. m.pending[2] = getter[n].id
      BY <3>1 DEF ReplyInv
    <3>4. m.value \in seen[n]
      BY <3>1, <3>2, <3>3 DEF ReplyInv
    <3> QED BY <2>1, <3>1, <3>4
  <2> QED BY <1>0, <1>6, <2>2, <2>3, SMT DEF GetMoves, GetterMoves, NoGet, Begins
<1>7. GetRegular'
  BY <1>6 DEF GetRegular
<1> QED BY <1>1, <1>2, <1>3, <1>4, <1>5, <1>7 DEF ReplyInv

-----------------------------------------------------------------------------
(* The inductive invariant. *)
IInv ==
    /\ TypeInv /\ ModeInv /\ DestInv /\ SafeInv /\ ReplyInv
    /\ ValueInv /\ ExpiryInv /\ AgreeInv

(* At first there are but the VERIFYs. *)
LEMMA InitNet ==
    ASSUME Init
    PROVE  /\ net \in [Pair -> Seq(Message)]
           /\ \A q \in Pair : \A x \in On(q) : x = VERIFY(q[1])
           /\ \A n, m \in Node, x \in Data : ~OnWay(n, m, x)
<1>1. ASSUME NEW q \in Pair PROVE VERIFY(q[1]) \in Message /\ VERIFY(q[1]).code = "VERIFY"
  BY DEF VERIFY, Mode, Message, Verifies
<1>2. net = [p \in Pair |-> <<VERIFY(p[1])>>]
  BY DEF Init, LinksInit
<1>3. net \in [Pair -> Seq(Message)]
  BY <1>1, <1>2, SMT
<1>4. ASSUME NEW q \in Pair, NEW x \in On(q) PROVE x = VERIFY(q[1])
  <2>1. net[q] = <<VERIFY(q[1])>>
    BY <1>2
  <2> QED BY <2>1, SMT DEF On, Elems
<1>5. ASSUME NEW n \in Node, NEW m \in Node, NEW x \in Data PROVE ~OnWay(n, m, x)
  <2>1. ~(<<n, m>> \in Pair /\ x \in On(<<n, m>>))
    BY <1>1, <1>4, DataCodes
  <2>2. /\ writer[n].pc = "idle" /\ replicationChan[n] = <<>>
        /\ \A w \in Workers : worker[n][w] = <<>>
    BY DEF Init, ReplicationInit, Idle
  <2> QED BY <2>1, <2>2, ElemsEmpty DEF OnWay
<1> QED BY <1>3, <1>4, <1>5

LEMMA InitTypes ==
    ASSUME Init
    PROVE  TypeInv
<1>1. LinkTypes
  BY InitNet DEF Init, LinksInit, LinkTypes, Ends
<1>2. DataTypes
  <2>1. None \in [value : Nat, expiry : Nat]
    BY DEF None, NO_EXPIRY
  <2> QED BY <2>1, ReplicationAssumption, SMT DEF Init, ReplicationInit, DataTypes
<1>3. GetTypes
  <2>1. NoGet \in Getters
    BY DEF NoGet, Getters, Points
  <2> QED BY <2>1, ClusterGetAssumption, SMT DEF Init, GetTypes
<1> QED BY <1>1, <1>2, <1>3 DEF TypeInv

LEMMA InitInv == Init => IInv
<1> SUFFICES ASSUME Init PROVE IInv
  OBVIOUS
<1>0. /\ writer = [n \in Node |-> Idle] /\ writes = 0
      /\ cache = [n \in Node |-> [k \in Key |-> None]]
      /\ getter = [n \in Node |-> NoGet] /\ gets = 0
      /\ getWorker = [n \in Node |-> NoWork] /\ pendingGet = [p \in Pair |-> {}]
      /\ \A n \in Node : getRequestChan[n] = <<>>
  BY DEF Init, ReplicationInit
<1>1. TypeInv
  BY InitTypes
<1>2. \A q \in Pair : \A x \in On(q) : x.code = "VERIFY" /\ x.mode = Mode(q[1])
  BY InitNet, SMT DEF VERIFY
<1>3. ModeInv
  <2>1. \A p \in Pair : ~link[p].adding /\ peers[p[1]] = {}
    BY BackPair DEF Init, LinksInit
  <2> QED BY <1>2, <2>1 DEF ModeInv
<1>4. DestInv
  <2>1. \A n \in Node : /\ getter[n].pc = "idle" /\ getter[n].todo = {}
                        /\ Elems(getRequestChan[n]) = {} /\ getWorker[n] = NoWork
    BY <1>0, ElemsEmpty DEF NoGet
  <2> QED BY <1>2, <2>1, InitNet DEF DestInv
<1>5. SafeInv
  <2>1. {} # Nil
    BY DEF Nil
  <2> QED BY <1>0, <2>1 DEF Init, LinksInit, SafeInv
<1>6. ReplyInv
  <2>1. \A n \in Node : /\ getter[n].pc = "idle" /\ getter[n].id = 0
                        /\ Elems(getRequestChan[n]) = {} /\ getWorker[n] = NoWork
    BY <1>0, ElemsEmpty DEF NoGet
  <2>2. \A p \in Pair : pendingGet[p] = {}
    BY <1>0
  <2>3. GetRegular
    BY <2>1 DEF GetRegular
  <2>4. \A q \in Pair : \A x \in On(q) : x.code # "GETREQ" /\ x.code # "GETRSP"
    BY <1>2
  <2>5. gets = 0
    BY <1>0
  <2>6. \A n \in Node : /\ getter[n].id <= gets
                        /\ getter[n].pc = "idle" <=> getter[n].id = 0
    BY <2>1, <2>5, SMT
  <2>7. \A n \in Node : /\ \A g \in Elems(getRequestChan[n]) : Asks(n, g.id, g.key)
                        /\ getWorker[n] # NoWork => Asks(n, getWorker[n].id, getWorker[n].key)
    BY <2>1
  <2>8. \A p \in Pair : \A x \in pendingGet[p] : x[2] = x[1][2]
    BY <2>2
  <2> QED BY <2>3, <2>4, <2>6, <2>7, <2>8 DEF ReplyInv
<1>7. /\ \A n \in Node : ~Begun(n) /\ writer[n].pc = "idle"
      /\ \A n \in Node, k \in Key : cache[n][k] = None
  BY <1>0 DEF Begun, Idle
<1>8. ValueInv
  <2>1. \A n, m \in Node, x \in Puts : ~OnWay(n, m, x)
    BY InitNet DEF Data
  <2>2. writes = 0 /\ None.value = 0
    BY <1>0 DEF None
  <2> QED BY <1>7, <2>1, <2>2, SMT DEF ValueInv
<1>9. ExpiryInv
  <2>1. writes = 0
    BY <1>0
  <2> QED BY <2>1, SMT DEF ExpiryInv
<1>10. AgreeInv
  <2>1. ASSUME NEW k \in Key PROVE LastWrite(k, 0, 0)
    <3>1. \A m \in Caching : Settled(m, k, 0, 0)
      BY <1>7, SMT DEF Settled, Caching, None
    <3> QED BY <1>7, <3>1, InitNet DEF LastWrite
  <2> QED BY <1>7, <2>1 DEF AgreeInv
<1> QED BY <1>1, <1>3, <1>4, <1>5, <1>6, <1>8, <1>9, <1>10 DEF IInv

LEMMA NextInv == IInv /\ [Next]_vars => IInv'
<1> SUFFICES ASSUME IInv, [Next]_vars PROVE IInv'
  OBVIOUS
<1>1. /\ TypeInv /\ ModeInv /\ DestInv /\ SafeInv /\ ReplyInv
      /\ ValueInv /\ ExpiryInv /\ AgreeInv
  BY DEF IInv
<1>2. TypeInv'
  BY <1>1, LinkTypesNext, DataTypesNext, GetTypesNext DEF TypeInv
<1>3. ModeInv' /\ DestInv' /\ SafeInv'
  BY <1>1, ModeNext, DestNext, SafeNext
<1>4. ReplyInv'
  <2>1. CASE Next
    BY <1>1, <2>1, ReplyNext
  <2>2. CASE UNCHANGED vars
    BY <1>1, <2>2 DEF vars, linkVars, replVars, getVars, ReplyInv, Asks, On, GetRegular
  <2> QED BY <2>1, <2>2
<1>5. ValueInv' /\ ExpiryInv' /\ AgreeInv'
  BY <1>1, <1>3, ValueNext, ExpiryNext, AgreeNext
<1> QED BY <1>2, <1>3, <1>4, <1>5 DEF IInv

(* IInv holds in every state a cluster reaches. *)
THEOREM Invariance == Spec => []IInv
BY InitInv, NextInv, PTL DEF Spec

(* Types: among others a value in a cache is that of a write, and a        *)
(* passive node has nothing cached.                                        *)
THEOREM TypesHold == Spec => []TypeOK
<1>1. IInv => TypeOK
  <2> SUFFICES ASSUME IInv PROVE TypeOK
    OBVIOUS
  <2>1. TypeInv /\ ValueInv
    BY DEF IInv
  <2>2. status \in [Node -> {"started", "ended", "dead"}] /\ link \in [Pair -> Ends]
    BY <2>1 DEF TypeInv, LinkTypes
  <2>3. \A n \in Node : peers[n] \subseteq {m \in Node : <<n, m>> \in Pair}
    BY <2>1 DEF TypeInv, LinkTypes
  <2>4. ASSUME NEW n \in Node, NEW k \in Key
        PROVE  /\ cache[n][k].value \in 0 .. writes /\ cache[n][k].expiry \in Nat
               /\ n \in Passive => cache[n][k] = None
    <3>1. n \in Passive => cache[n][k] = None
      BY <2>1 DEF ValueInv
    <3> QED BY <2>1, <3>1, ValueUses
  <2>5. ASSUME NEW n \in Node PROVE getter[n].pc \in {"idle", "peers", "ask", "wait", "got"}
    BY <2>1, GetterFields DEF TypeInv, GetTypes, Points
  <2>6. writes \in 0 .. MaxWrites /\ gets \in 0 .. MaxGets
    BY <2>1 DEF TypeInv, DataTypes, GetTypes
  <2> QED BY <2>2, <2>3, <2>4, <2>5, <2>6 DEF TypeOK, Ends
<1> QED BY <1>1, Invariance, PTL

(* While connections hold and no node is shut down, no node brings itself  *)
(* down: a passive node is sent no PUT, DEL or GETREQ, and getData and     *)
(* handleGetResponse find the pendingGet they need.                        *)
THEOREM NoPanicHolds == Spec => []NoPanic
<1>1. IInv => NoPanic
  BY DEF IInv, SafeInv, NoPanic, Alive
<1> QED BY <1>1, Invariance, PTL

(* A Get returns a value that some node held for its key while it ran,     *)
(* whatever replies to earlier Gets of that key come in late, and whatever *)
(* connections break meanwhile.                                            *)
THEOREM GetRegularHolds == Spec => []GetRegular
<1>1. IInv => GetRegular
  BY DEF IInv, ReplyInv
<1> QED BY <1>1, Invariance, PTL

(* Two copies expire within a second of each other. *)
LEMMA CopiesClose ==
    ASSUME NEW e \in Nat, NEW f \in Nat, NEW g \in Nat, Copy(e, f), Copy(e, g)
    PROVE  (f = NO_EXPIRY <=> g = NO_EXPIRY) /\ f - g \in -1 .. 1
<1>1. CASE e = 0
  BY <1>1, SMT DEF Copy, NO_EXPIRY
<1>2. CASE e # 0
  <2>1. f \in {e - 1, e} /\ g \in {e - 1, e} /\ f # 0 /\ g # 0
    BY <1>2 DEF Copy, NO_EXPIRY
  <2>2. f - g \in {-1, 0, 1}
    BY <2>1, SMT
  <2> QED BY <2>1, <2>2, SMT DEF NO_EXPIRY
<1> QED BY <1>1, <1>2

(* The copies of a write expire within a second of each other, however     *)
(* late each node handled it, unless one was handled at the instant of its *)
(* expiry.                                                                 *)
THEOREM ExpiryCloseHolds == Spec => []ExpiryClose
<1>1. IInv => ExpiryClose
  <2> SUFFICES ASSUME IInv, ~exact, NEW n \in Caching, NEW m \in Caching, NEW k \in Key,
                      cache[n][k].value = cache[m][k].value
               PROVE  /\ cache[n][k].expiry = NO_EXPIRY <=> cache[m][k].expiry = NO_EXPIRY
                      /\ cache[n][k].expiry - cache[m][k].expiry \in -1 .. 1
    BY DEF ExpiryClose
  <2>1. TypeInv /\ ValueInv /\ ExpiryInv /\ n \in Node /\ m \in Node
    BY DEF IInv, Caching
  <2>2. cache[n][k].value \in Nat /\ cache[n][k].expiry \in Nat /\ cache[m][k].expiry \in Nat
    BY <2>1, ValueUses
  <2>3. CASE cache[n][k].value = 0
    <3>1. cache[n][k] = cache[m][k]
      BY <2>1, <2>3 DEF ValueInv
    <3>2. cache[n][k].expiry = cache[m][k].expiry
      BY <3>1
    <3>3. cache[n][k].expiry - cache[m][k].expiry = 0
      BY <2>2, <3>2, SMT
    <3> QED BY <3>2, <3>3, SMT
  <2>4. CASE cache[n][k].value # 0
    <3>1. cache[n][k].value \in 1 .. writes
      <4>1. cache[n][k].value \in 0 .. writes
        BY <2>1, ValueUses
      <4> QED BY <2>2, <2>4, <4>1, SMT
    <3>2. PICK e \in Nat : Expires(cache[n][k].value, e)
      BY <2>1, <3>1 DEF ExpiryInv
    <3>3. Copy(e, cache[n][k].expiry) /\ Copy(e, cache[m][k].expiry)
      BY <2>1, <3>2 DEF Expires
    <3> QED BY <2>2, <3>3, CopiesClose, SMT
  <2> QED BY <2>3, <2>4
<1> QED BY <1>1, Invariance, PTL

(* If a write of a key waits for the one before, then at rest all caches   *)
(* agree on the key, as long as no message was discarded and none was      *)
(* handled at the instant of its expiry: the loop of Put or Delete over    *)
(* the registered peers, the workers and the connections leave no node     *)
(* out, and evictions disagree for a second at most.                       *)
THEOREM ReplicasAgreeHolds == Spaced /\ Spec => []ReplicasAgree
<1> SUFFICES ASSUME Spaced PROVE Spec => []ReplicasAgree
  OBVIOUS
<1>1. IInv => ReplicasAgree
  BY AgreeAtRest DEF IInv
<1> QED BY <1>1, Invariance, PTL
=============================================================================
