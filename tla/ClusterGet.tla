----------------------------- MODULE ClusterGet -----------------------------
(***************************************************************************)
(* Get of a cluster (cluster/clusteredBigCache.go), together with Put,     *)
(* Delete, connections that break, and ShutDown: the whole of what a node  *)
(* does with data.  A Get that misses asks every peer that is not passive  *)
(* through getRequestChan and its workers; getData notes the request in    *)
(* the pendingGet of the remoteNode; handleGetRequest answers from the     *)
(* peer's cache, handleGetResponse hands a value to the Get if it waits at *)
(* its select at that moment; and the Get times out.                       *)
(*                                                                         *)
(* One goroutine per node calls Get, and one runs requestSenderForGET: a   *)
(* Get has one request per connection, so their order is of no matter.     *)
(***************************************************************************)
EXTENDS Replication

CONSTANTS
    Readers,   \* nodes that call Get
    MaxGets    \* bound: Gets in a behaviour

ASSUME ClusterGetAssumption == Readers \subseteq Node /\ MaxGets \in Nat

VARIABLES
    getter,           \* the Get of each node
    getRequestChan,
    getWorker,        \* what requestSenderForGET of each node does
    pendingGet,       \* of each remoteNode: pairs <<pending key, request>>, or Nil
    gets,             \* number of Gets so far; the last one is its randStr
    seen              \* history: values any peer held during each Get

getVars == <<getter, getRequestChan, getWorker, pendingGet, gets>>
vars == <<linkVars, replVars, getVars, seen>>

NoGet == [pc |-> "idle", key |-> 0, id |-> 0, todo |-> {}, value |-> 0]
NoWork == [pc |-> "idle", r |-> 0, id |-> 0, key |-> 0]
Nil == {<<>>}

Init ==
    /\ LinksInit
    /\ ReplicationInit
    /\ getter = [n \in Node |-> NoGet]
    /\ getRequestChan = [n \in Node |-> <<>>]
    /\ getWorker = [n \in Node |-> NoWork]
    /\ pendingGet = [p \in Pair |-> {}]
    /\ gets = 0
    /\ seen = [n \in Node |-> {}]

(* Mutant: requests for one key share a pending key. *)
PendingKeyShared(key, randStr) == <<key, 0>>

(* key + randStr, which is taken to be unique. *)
PendingKey(key, randStr) == <<key, randStr>>

-----------------------------------------------------------------------------
(* The caller.  A hit in the local cache returns at once. *)
Get(n, k) ==
    /\ n \in Readers /\ status[n] = "started"
    /\ getter[n].pc = "idle" /\ gets < MaxGets
    /\ n \in Passive \/ cache[n][k] = None
    /\ gets' = gets + 1
    /\ getter' = [getter EXCEPT ![n] = [NoGet EXCEPT !.pc = "peers", !.key = k, !.id = gets']]
    /\ UNCHANGED <<getRequestChan, getWorker, pendingGet>>

getRemoteNodes(n) ==
    /\ Alive(n) /\ getter[n].pc = "peers"
    /\ getter' = IF peers[n] = {} THEN [getter EXCEPT ![n] = NoGet]    \* ErrNotFound
                 ELSE [getter EXCEPT ![n].pc = "ask", ![n].todo = Targets(n)]
    /\ UNCHANGED <<getRequestChan, getWorker, pendingGet, gets>>

(* One request per peer; a send on a closed channel panics. *)
askPeer(n) ==
    /\ Alive(n) /\ getter[n].pc = "ask"
    /\ \E m \in getter[n].todo :
          /\ getter' = [getter EXCEPT ![n].todo = @ \ {m}]
          /\ IF status[n] = "ended"
             THEN Panic(n) /\ UNCHANGED getRequestChan
             ELSE /\ getRequestChan' = [getRequestChan EXCEPT ![n] =
                        Append(@, [pc |-> "check", r |-> m, id |-> getter[n].id, key |-> getter[n].key])]
                  /\ UNCHANGED <<status, link, peers, lossy, broken>>
    /\ UNCHANGED <<getWorker, pendingGet, gets, net>>

(* The select. *)
waitReply(n) ==
    /\ Alive(n) /\ getter[n].pc = "ask" /\ getter[n].todo = {}
    /\ getter' = [getter EXCEPT ![n].pc = "wait"]
    /\ UNCHANGED <<getRequestChan, getWorker, pendingGet, gets>>

timedOut(n) ==
    /\ Alive(n) /\ getter[n].pc = "wait"
    /\ getter' = [getter EXCEPT ![n] = NoGet]
    /\ UNCHANGED <<getRequestChan, getWorker, pendingGet, gets>>

getReturns(n) ==
    /\ Alive(n) /\ getter[n].pc = "got"
    /\ getter' = [getter EXCEPT ![n] = NoGet]
    /\ UNCHANGED <<getRequestChan, getWorker, pendingGet, gets>>

-----------------------------------------------------------------------------
(* requestSenderForGET and getData: the state is read, then pendingGet is  *)
(* used, which may be nil by then.                                         *)
takeGet(n) ==
    /\ Alive(n) /\ getWorker[n] = NoWork /\ getRequestChan[n] # <<>>
    /\ LET g == Head(getRequestChan[n])
       IN  getWorker' = [getWorker EXCEPT ![n] =
               IF link[<<n, g.r>>].state = "disconnected" THEN NoWork ELSE [g EXCEPT !.pc = "store"]]
    /\ getRequestChan' = [getRequestChan EXCEPT ![n] = Tail(@)]
    /\ UNCHANGED <<getter, pendingGet, gets>>

getData(n) ==
    LET g == getWorker[n]
        p == <<n, g.r>>
        key == PendingKey(g.key, g.id)
    IN
    /\ Alive(n) /\ g.pc = "store"
    /\ IF pendingGet[p] = Nil
       THEN Panic(n) /\ UNCHANGED <<net, pendingGet>>
       ELSE /\ pendingGet' = [pendingGet EXCEPT ![p] = {x \in @ : x[1] # key} \cup {<<key, g.id>>}]
            /\ net' = Sent(net, p, [code |-> "GETREQ", key |-> g.key, pending |-> key])
            /\ lossy' = (lossy \/ Loses(p))
            /\ UNCHANGED <<status, link, peers, broken>>
    /\ getWorker' = [getWorker EXCEPT ![n] = NoWork]
    /\ UNCHANGED <<getter, getRequestChan, gets>>

(* At the peer; a passive node has no cache. *)
handleGetRequest(p) ==
    LET m == Head(In(p)) IN
    /\ Handles(p, "GETREQ")
    /\ IF p[1] \in Passive
       THEN Panic(p[1]) /\ net' = Took(p)
       ELSE /\ net' = Sent(Took(p), p, [code |-> "GETRSP", pending |-> m.pending,
                                        value |-> cache[p[1]][m.key].value])
            /\ UNCHANGED <<status, link, peers, lossy, broken>>
    /\ UNCHANGED getVars

(* The pending request is the one the Get of n made. *)
isFor(x, n) == x[2] = getter[n].id

handleGetResponse(p) ==
    LET m == Head(In(p))
        n == p[1]
        found == {x \in pendingGet[p] : x[1] = m.pending}
    IN
    /\ Handles(p, "GETRSP")
    /\ net' = Took(p)
    /\ IF pendingGet[p] = Nil
       THEN Panic(n) /\ UNCHANGED <<getter, pendingGet>>
       ELSE /\ pendingGet' = [pendingGet EXCEPT ![p] = @ \ found]
            /\ getter' = IF /\ \E x \in found : isFor(x, n)
                            /\ m.value # 0 /\ getter[n].pc = "wait"
                         THEN [getter EXCEPT ![n].pc = "got", ![n].value = m.value]
                         ELSE getter
            /\ UNCHANGED <<status, link, peers, lossy, broken>>
    /\ UNCHANGED <<getRequestChan, getWorker, gets>>

-----------------------------------------------------------------------------
(* tearDown and ShutDown drop what is pending. *)
tearDownAll(p) == tearDown(p) /\ pendingGet' = [pendingGet EXCEPT ![p] = Nil]

ShutDownAll(n) ==
    /\ ShutDown(n)
    /\ pendingGet' = [p \in Pair |-> IF p[1] = n /\ p[2] \in peers[n] THEN Nil ELSE pendingGet[p]]

-----------------------------------------------------------------------------
LinkStep(p) ==
    \/ /\ \/ Dropped(p) \/ handleVerify(p) \/ addVerified(p) \/ connectionFails(p) \/ peerClosed(p)
       /\ UNCHANGED <<replVars, getVars>>
    \/ tearDownAll(p) /\ UNCHANGED <<replVars, getter, getRequestChan, getWorker, gets>>

WriteStep(n) ==
    \/ /\ \/ \E k \in Key, d \in Durations : Put(n, k, d)
          \/ \E k \in Key : Delete(n, k) \/ evict(n, k)
          \/ listPeers(n)
          \/ \E w \in Workers : takeReplication(n, w)
       /\ UNCHANGED <<linkVars, getVars>>
    \/ replicate(n) /\ UNCHANGED getVars
    \/ (\E w \in Workers : sendReplication(n, w)) /\ UNCHANGED getVars

ReplicaStep(p) == (handlePut(p) \/ handleDelete(p)) /\ UNCHANGED getVars

GetStep(n) ==
    \/ /\ \/ \E k \in Key : Get(n, k)
          \/ getRemoteNodes(n) \/ waitReply(n) \/ timedOut(n) \/ getReturns(n) \/ takeGet(n)
       /\ UNCHANGED <<linkVars, replVars>>
    \/ (askPeer(n) \/ getData(n)) /\ UNCHANGED replVars

AnswerStep(p) == (handleGetRequest(p) \/ handleGetResponse(p)) /\ UNCHANGED replVars

(* The values held for the key of the Get under way at n. *)
Holding(n) == {cache'[m][getter'[n].key].value : m \in Node \ Passive} \ {0}

Next ==
    /\ \/ \E p \in Pair : LinkStep(p) \/ ReplicaStep(p) \/ AnswerStep(p)
       \/ \E n \in Node : WriteStep(n) \/ GetStep(n)
       \/ \E n \in Node : ShutDownAll(n) /\ UNCHANGED <<replVars, getter, getRequestChan, getWorker, gets>>
       \/ Tick /\ UNCHANGED <<linkVars, getVars>>
    /\ seen' = [n \in Node |-> IF getter'[n].pc = "idle" THEN {} ELSE seen[n] \cup Holding(n)]

Spec == Init /\ [][Next]_vars

-----------------------------------------------------------------------------
(* Types. *)
TypeOK ==
    /\ status \in [Node -> {"started", "ended", "dead"}]
    /\ link \in [Pair -> [state : {"handshake", "connected", "disconnected"}, up : BOOLEAN,
                          mode : {"unset", "ACTIVE", "PASSIVE"}, adding : BOOLEAN]]
    /\ \A n \in Node : peers[n] \subseteq {m \in Node : <<n, m>> \in Pair}
    /\ \A n \in Node, k \in Key : /\ cache[n][k].value \in 0 .. writes /\ cache[n][k].expiry \in Nat
                                  /\ n \in Passive => cache[n][k] = None
    /\ \A n \in Node : getter[n].pc \in {"idle", "peers", "ask", "wait", "got"}
    /\ writes \in 0 .. MaxWrites /\ gets \in 0 .. MaxGets

(* While connections hold and no node is shut down, no node brings itself *)
(* down, even as peers are being verified: a passive node, which has no    *)
(* cache, is sent nothing to store, delete or look up, and a reply finds   *)
(* the pendingGet it belongs to.                                           *)
NoPanic == ~broken => \A n \in Node : Alive(n)

(* A Get returns a value that some node held for its key while it ran, not *)
(* one that was replaced before it began, though replies to an earlier Get *)
(* of the same key that timed out may come in now.                         *)
GetRegular == \A n \in Node : getter[n].pc = "got" => getter[n].value \in seen[n]

Caching == Node \ Passive

(* All copies of a write expire within a second of each other, however     *)
(* late each node handled it, unless one was handled at the very instant   *)
(* of its expiry: its duration is then 0, which set takes for no expiry.   *)
ExpiryClose ==
    ~exact => \A n, m \in Caching, k \in Key :
        LET x == cache[n][k]
            y == cache[m][k]
        IN  x.value = y.value => /\ x.expiry = NO_EXPIRY <=> y.expiry = NO_EXPIRY
                                 /\ x.expiry - y.expiry \in -1 .. 1

(* At rest, if no message was discarded and writes of a key did not        *)
(* overlap, all caches agree: "every other instance [...] will see that    *)
(* exact same value" (src/README.md:20-22); one may lack an entry only in  *)
(* the last second before the other drops it.                              *)
Agree(x, y) ==
    \/ x.value = y.value
    \/ x = None /\ y.expiry # NO_EXPIRY /\ now >= 2 * (y.expiry - 1)

ReplicasAgree ==
    (~lossy /\ ~exact) => \A k \in Key : ~UnderWay(k) =>
        \A n, m \in Caching : Agree(cache[n][k], cache[m][k]) \/ Agree(cache[m][k], cache[n][k])
=============================================================================
