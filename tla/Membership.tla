---------------------------- MODULE Membership -----------------------------
(***************************************************************************)
(* How nodes become and stay members of a cluster: the handshake of        *)
(* cluster/remoteNode.go and the membership tables of                      *)
(* cluster/clusteredBigCache.go (remoteNodes, a utils.SliceList;           *)
(* pendingConn; joinQueue).                                                *)
(*                                                                         *)
(* A connection has two ends, one remoteNode object each; the goroutines   *)
(* of an object are actions of its end.  What an end has sent waits in     *)
(* order in the inbox of the other end (outboundMsgQueue, the TCP stream   *)
(* and inboundMsgQueue in one) until its handler takes it, or is lost when *)
(* the connection closes.  The sync.Map accesses of one goroutine that     *)
(* others can come between are steps of their own.                         *)
(***************************************************************************)
EXTENDS Integers, Sequences, FiniteSets

CONSTANTS
    Node,
    Passive,       \* nodes made by NewPassiveClient
    JoinIp,        \* function: the node that each joining node dials first
    Reconnecting,  \* nodes with ReconnectOnDisconnect
    NoNode,        \* the empty id
    Slots,         \* bound: connections that exist at a time
    MaxFaults,     \* bound: broken connections, failed dials, expired waits
    Pings,         \* BOOLEAN: the first ping of every connection is modelled
    OneByOne,      \* nodes that start only when the cluster is at rest
    Prompt         \* BOOLEAN: a dial takes longer than the rest of Start

ASSUME MembershipAssumption ==
    /\ NoNode \notin Node
    /\ DOMAIN JoinIp \subseteq Node
    /\ \A n \in DOMAIN JoinIp : JoinIp[n] \in Node \ {n}
    /\ Passive \subseteq Reconnecting \cap DOMAIN JoinIp
    /\ IsFiniteSet(Node)
    /\ Slots \in Nat /\ MaxFaults \in Nat /\ Pings \in BOOLEAN

VARIABLES
    state,         \* ClusteredBigCache.state; "off" before Start
    ends,          \* the remoteNode objects
    remoteNodes,   \* per node: id -> registered end
    size,          \* SliceList.size of remoteNodes
    pendingConn,
    joinQueue,
    storing,       \* connectToExistingNodes between join() and Store
    faults

vars == <<state, ends, remoteNodes, size, pendingConn, joinQueue, storing, faults>>

Id == Node \cup {NoNode}
End == (1 .. Slots) \X {"dial", "accept"}
NoEnd == <<0, "none">>
Other(e) == <<e[1], IF e[2] = "dial" THEN "accept" ELSE "dial">>

Peer == [Id : Id, IpAddress : Node]
Message == [code : {"VERIFY"}, from : Node]
           \cup [code : {"VERIFYOK", "PING", "PONG"}]
           \cup [code : {"SYNCREQ"}, from : Node]
           \cup [code : {"SYNCRSP"}, list : Seq(Peer)]

(* No object: not made yet, or torn down. *)
Gone == [owner |-> NoNode, addr |-> NoNode, id |-> NoNode, state |-> "gone",
         up |-> FALSE, reconnect |-> FALSE, sync |-> FALSE, verify |-> FALSE, ping |-> FALSE,
         step |-> "idle", asking |-> FALSE, inbox |-> <<>>]

(* up: the run.Group of start has not been interrupted.                    *)
(* step: handleVerify between Contains and Add, SliceList.Remove between   *)
(* Load and Delete.  verify, ping: start has yet to send them.  asking:    *)
(* the goroutine of handleVerifyOK waits.                                  *)
newRemoteNode(n, a, i, st, rc, sy) ==
    [owner |-> n, addr |-> a, id |-> i, state |-> st, up |-> st = "handshake",
     reconnect |-> rc, sync |-> sy, verify |-> TRUE, ping |-> Pings, step |-> "idle", asking |-> FALSE, inbox |-> <<>>]

Init ==
    /\ state = [n \in Node |-> IF n \in DOMAIN JoinIp THEN "off" ELSE "started"]
    /\ ends = [e \in End |-> Gone]
    /\ remoteNodes = [n \in Node |-> [i \in Id |-> NoEnd]]
    /\ size = [n \in Node |-> 0]
    /\ pendingConn = [n \in Node |-> {}]
    /\ joinQueue = [n \in Node |-> <<>>]
    /\ storing = [n \in Node |-> {}]
    /\ faults = 0

Contains(n, i) == remoteNodes[n][i] # NoEnd
Running(e) == ends[e].up
Ended(e) == ~ends[e].up /\ ends[e].state \notin {"gone", "connecting"}
Free == {c \in 1 .. Slots : \A e \in End : e[1] = c => ends[e] = Gone}
Fault == faults < MaxFaults /\ faults' = faults + 1

-----------------------------------------------------------------------------
(* Making connections. *)

(* join() starts its goroutine: a new dialling end in a free slot. *)
join(r) ==
    /\ Free # {}
    /\ LET slot == CHOOSE x \in Free : \A y \in Free : x <= y
       IN  ends' = [ends EXCEPT ![<<slot, "dial">>] = r]

AtRest ==
    /\ \A n \in Node : state[n] # "starting" /\ joinQueue[n] = <<>> /\ storing[n] = {}
    /\ \A e \in End : \/ ends[e] = Gone
                      \/ /\ Running(e) /\ ends[e].state = "connected"
                         /\ ends[e].step = "idle"
                         /\ ends[e].inbox = <<>>
                         /\ ~ends[e].asking

(* The object of the first dial: only this one asks for peers. *)
joinCluster(n) ==
    newRemoteNode(n, JoinIp[n], NoNode, "connecting", n \in Reconnecting, TRUE)

(* Start up to joinCluster, for a node that joins; the others are started. *)
Start(n) ==
    /\ state[n] = "off"
    /\ n \in OneByOne => AtRest
    /\ state' = [state EXCEPT ![n] = "starting"]
    /\ join(joinCluster(n))
    /\ UNCHANGED <<remoteNodes, size, pendingConn, joinQueue, storing, faults>>

Started(n) ==
    /\ state[n] = "starting"
    /\ state' = [state EXCEPT ![n] = "started"]
    /\ UNCHANGED <<ends, remoteNodes, size, pendingConn, joinQueue, storing, faults>>

(* bringNodeUp has run, and listen makes an object of every connection. *)
bringNodeUp(n) == state[n] # "off"

listen(n, from) == newRemoteNode(n, from, NoNode, "handshake", FALSE, FALSE)

(* The dial succeeds. *)
connect(e) ==
    LET r == ends[e] IN
    /\ r.state = "connecting"
    /\ bringNodeUp(r.addr)
    /\ Prompt => state[r.owner] = "started"
    /\ ends' = [ends EXCEPT ![e].state = "handshake", ![e].up = TRUE,
                            ![Other(e)] = listen(r.addr, r.owner)]
    /\ UNCHANGED <<state, remoteNodes, size, pendingConn, joinQueue, storing, faults>>

(* All retries failed: eventUnableToConnect. *)
unableToConnect(e) ==
    LET r == ends[e] IN
    /\ r.state = "connecting"
    /\ pendingConn' = [pendingConn EXCEPT ![r.owner] = @ \ {r.id}]
    /\ ends' = [ends EXCEPT ![e] = Gone]
    /\ UNCHANGED <<state, remoteNodes, size, joinQueue, storing>>

(* Nobody listens there, or a network fault. *)
nobodyListens(e) == unableToConnect(e) /\ ~bringNodeUp(ends[e].addr) /\ UNCHANGED faults
dialFails(e) == unableToConnect(e) /\ bringNodeUp(ends[e].addr) /\ Fault

(* connectToExistingNodes takes a proposal from joinQueue ... *)
skips(n, p) == state[n] # "started" \/ p.Id \in pendingConn[n] \/ Contains(n, p.Id)

Proposal(n) == joinQueue[n] # <<>> /\ storing[n] = {}

SkipPeer(n) ==
    /\ Proposal(n)
    /\ skips(n, Head(joinQueue[n]))
    /\ joinQueue' = [joinQueue EXCEPT ![n] = Tail(@)]
    /\ UNCHANGED <<state, ends, remoteNodes, size, pendingConn, storing, faults>>

DialPeer(n) ==
    LET p == Head(joinQueue[n]) IN
    /\ Proposal(n)
    /\ ~skips(n, p)
    /\ joinQueue' = [joinQueue EXCEPT ![n] = Tail(@)]
    /\ join(newRemoteNode(n, p.IpAddress, p.Id, "connecting", n \in Reconnecting, FALSE))
    /\ storing' = [storing EXCEPT ![n] = {p.Id}]
    /\ UNCHANGED <<state, remoteNodes, size, pendingConn, faults>>

(* Mutant: the pending dial is never noted. *)
StorePendingForgets(n) ==
    /\ storing[n] # {}
    /\ storing' = [storing EXCEPT ![n] = {}]
    /\ UNCHANGED <<state, ends, remoteNodes, size, pendingConn, joinQueue, faults>>

(* ... and notes the dial only after its goroutine may have run. *)
StorePending(n) ==
    /\ storing[n] # {}
    /\ pendingConn' = [pendingConn EXCEPT ![n] = @ \cup storing[n]]
    /\ storing' = [storing EXCEPT ![n] = {}]
    /\ UNCHANGED <<state, ends, remoteNodes, size, joinQueue, faults>>

-----------------------------------------------------------------------------
(* The handshake. *)

(* sendMessage by the end e, whose object becomes r: lost unless both ends *)
(* run.                                                                    *)
Sends(e, r, msgs) ==
    ends' = [ends EXCEPT
        ![e] = r,
        ![Other(e)].inbox = IF r.up /\ Running(Other(e)) THEN @ \o msgs ELSE @]

sendVerify(e) ==
    /\ Running(e) /\ ends[e].verify
    /\ Sends(e, [ends[e] EXCEPT !.verify = FALSE],
             <<[code |-> "VERIFY", from |-> ends[e].owner]>>)
    /\ UNCHANGED <<state, remoteNodes, size, pendingConn, joinQueue, storing, faults>>

(* The ping goroutine sends its first message as soon as it runs. *)
firstPing(e) ==
    /\ Running(e) /\ ends[e].ping
    /\ Sends(e, [ends[e] EXCEPT !.ping = FALSE], <<[code |-> "PING"]>>)
    /\ UNCHANGED <<state, remoteNodes, size, pendingConn, joinQueue, storing, faults>>

(* queueInboundMessage: nothing but the handshake during the handshake. *)
queued(e, m) == ends[e].state = "connected" \/ m.code \in {"VERIFY", "VERIFYOK"}

(* The handler of e is idle and m is the next message of code c. *)
Arrived(e, c) ==
    /\ Running(e)
    /\ ends[e].step = "idle"
    /\ ends[e].inbox # <<>>
    /\ Head(ends[e].inbox).code = c

Took(e) == [ends[e] EXCEPT !.inbox = Tail(@)]

Closed(r) == [r EXCEPT !.state = "disconnected", !.up = FALSE, !.inbox = <<>>, !.asking = FALSE,
                       !.verify = FALSE, !.ping = FALSE]

(* The messages of s but the k-th. *)
Without(s, k) == SubSeq(s, 1, k - 1) \o SubSeq(s, k + 1, Len(s))

(* The consumer runs ahead of the handler: it discards the first message   *)
(* that is not of the handshake, wherever the handler is.                  *)
Dropped(e) ==
    /\ Running(e)
    /\ \E k \in DOMAIN ends[e].inbox :
          /\ ~queued(e, ends[e].inbox[k])
          /\ \A j \in 1 .. k - 1 : queued(e, ends[e].inbox[j])
          /\ ends' = [ends EXCEPT ![e].inbox = Without(@, k)]
    /\ UNCHANGED <<state, remoteNodes, size, pendingConn, joinQueue, storing, faults>>

refused(n, i) == (i \in Passive /\ n \in Passive) \/ Contains(n, i)

(* Mutant: VERIFYOK is sent before the state changes. *)
handleVerifyEarly(e) ==
    LET i == Head(ends[e].inbox).from IN
    /\ Arrived(e, "VERIFY")
    /\ ~refused(ends[e].owner, i)
    /\ Sends(e, [Took(e) EXCEPT !.id = i, !.step = "adding"], <<[code |-> "VERIFYOK"]>>)
    /\ UNCHANGED <<state, remoteNodes, size, pendingConn, joinQueue, storing, faults>>

(* handleVerify up to Contains in eventVerifyRemoteNode.  A refusal ends   *)
(* handleMessage, and with it every goroutine of the object.               *)
handleVerify(e) ==
    LET i == Head(ends[e].inbox).from IN
    /\ Arrived(e, "VERIFY")
    /\ ends' = [ends EXCEPT ![e] =
           IF refused(@.owner, i) THEN Closed([Took(e) EXCEPT !.id = i])
                                  ELSE [Took(e) EXCEPT !.id = i, !.step = "adding"]]
    /\ UNCHANGED <<state, remoteNodes, size, pendingConn, joinQueue, storing, faults>>

(* SliceList.Add. *)
Add(n, i, e) ==
    /\ size' = [size EXCEPT ![n] = @ + 1]
    /\ remoteNodes' = [remoteNodes EXCEPT ![n][i] = e]

(* What follows Contains. *)
eventVerifyRemoteNode(e) ==
    /\ Add(ends[e].owner, ends[e].id, e)
    /\ pendingConn' = [pendingConn EXCEPT ![ends[e].owner] = @ \ {ends[e].id}]

(* The rest of handleVerify.  setState asks nothing: an object that was    *)
(* closed in the meantime is "connected" until it is torn down.            *)
addVerified(e) ==
    /\ ends[e].step = "adding"
    /\ eventVerifyRemoteNode(e)
    /\ Sends(e, [ends[e] EXCEPT !.step = "idle",
                                !.reconnect = @ /\ ends[e].id \notin Passive,
                                !.state = "connected"],
             <<[code |-> "VERIFYOK"]>>)
    /\ UNCHANGED <<state, joinQueue, storing, faults>>

(* Mutant: only nodes that did not join ask. *)
handleVerifyOKInverted(e) ==
    /\ Arrived(e, "VERIFYOK")
    /\ ends' = [ends EXCEPT ![e] = [Took(e) EXCEPT !.asking = ~ends[e].sync]]
    /\ UNCHANGED <<state, remoteNodes, size, pendingConn, joinQueue, storing, faults>>

(* handleVerifyOK starts a goroutine that waits for the handshake to end,  *)
(* for five seconds at most, and then asks a joined node for its peers.    *)
handleVerifyOK(e) ==
    /\ Arrived(e, "VERIFYOK")
    /\ ends' = [ends EXCEPT ![e] = [Took(e) EXCEPT !.asking = ends[e].sync]]
    /\ UNCHANGED <<state, remoteNodes, size, pendingConn, joinQueue, storing, faults>>

outOfHandshake(e) == ends[e].state # "handshake"

askSync(e) ==
    /\ ends[e].asking
    /\ outOfHandshake(e)
    /\ Sends(e, [ends[e] EXCEPT !.asking = FALSE],
             <<[code |-> "SYNCREQ", from |-> ends[e].owner]>>)
    /\ UNCHANGED <<state, remoteNodes, size, pendingConn, joinQueue, storing, faults>>

waitExpires(e) ==
    /\ ends[e].asking
    /\ ~outOfHandshake(e)
    /\ Fault
    /\ ends' = [ends EXCEPT ![e].asking = FALSE]
    /\ UNCHANGED <<state, remoteNodes, size, pendingConn, joinQueue, storing>>

handlePing(e) ==
    /\ Arrived(e, "PING") /\ queued(e, Head(ends[e].inbox))
    /\ Sends(e, Took(e), <<[code |-> "PONG"]>>)
    /\ UNCHANGED <<state, remoteNodes, size, pendingConn, joinQueue, storing, faults>>

handlePong(e) ==
    /\ Arrived(e, "PONG") /\ queued(e, Head(ends[e].inbox))
    /\ ends' = [ends EXCEPT ![e] = Took(e)]
    /\ UNCHANGED <<state, remoteNodes, size, pendingConn, joinQueue, storing, faults>>

(* The orders in which Range may list S. *)
Listings(S) == {l \in [1 .. Cardinality(S) -> S] : S = {l[k] : k \in DOMAIN l}}

(* sendSyncResponse: the registered peers, in the order Range gives. *)
nodeList(e, asker) ==
    LET n == ends[e].owner
        known == {v \in {ends[remoteNodes[n][i]] : i \in {j \in Node : Contains(n, j)}} :
                     v.id # ends[e].id /\ ~(v.id \in Passive /\ asker \in Passive)}
    IN  {[Id |-> v.id, IpAddress |-> v.addr] : v \in known}

handleSyncRequest(e) ==
    /\ Arrived(e, "SYNCREQ") /\ queued(e, Head(ends[e].inbox))
    /\ \E l \in Listings(nodeList(e, Head(ends[e].inbox).from)) :
           Sends(e, Took(e), IF l = <<>> THEN <<>> ELSE <<[code |-> "SYNCRSP", list |-> l]>>)
    /\ UNCHANGED <<state, remoteNodes, size, pendingConn, joinQueue, storing, faults>>

handleSyncResponse(e) ==
    /\ Arrived(e, "SYNCRSP") /\ queued(e, Head(ends[e].inbox))
    /\ ends' = [ends EXCEPT ![e] = Took(e)]
    /\ joinQueue' = [joinQueue EXCEPT ![ends[e].owner] = @ \o Head(ends[e].inbox).list]
    /\ UNCHANGED <<state, remoteNodes, size, pendingConn, storing, faults>>

-----------------------------------------------------------------------------
(* Losing connections. *)

(* A read or a write fails, or pings go unanswered, at one end ... *)
connectionFails(e) ==
    /\ Running(e)
    /\ Fault
    /\ ends' = [ends EXCEPT ![e] = Closed(@)]
    /\ UNCHANGED <<state, remoteNodes, size, pendingConn, joinQueue, storing>>

(* ... and the other end learns of it, before or after what it was sent. *)
peerClosed(e) ==
    /\ Running(e)
    /\ ~Running(Other(e))
    /\ ends' = [ends EXCEPT ![e] = Closed(@)]
    /\ UNCHANGED <<state, remoteNodes, size, pendingConn, joinQueue, storing, faults>>

(* Mutant: the configuration is cleared before it is used to reconnect. *)
finishedCleared(e) ==
    /\ ends' = [ends EXCEPT ![e] = Gone]
    /\ joinQueue' = IF ends[e].reconnect
                    THEN [joinQueue EXCEPT ![ends[e].owner] =
                              Append(@, [Id |-> ends'[e].id, IpAddress |-> ends'[e].addr])]
                    ELSE joinQueue

(* The end of tearDown: reconnect if configured. *)
finished(e) ==
    /\ ends' = [ends EXCEPT ![e] = Gone]
    /\ joinQueue' = IF ends[e].reconnect
                    THEN [joinQueue EXCEPT ![ends[e].owner] =
                              Append(@, [Id |-> ends[e].id, IpAddress |-> ends[e].addr])]
                    ELSE joinQueue

(* Mutant: a node that will reconnect keeps its entry. *)
tearDownKeeps(e) ==
    /\ Ended(e) /\ ends[e].step = "idle"
    /\ IF Contains(ends[e].owner, ends[e].id) /\ ~ends[e].reconnect
       THEN ends' = [ends EXCEPT ![e].step = "removing"] /\ UNCHANGED joinQueue
       ELSE finished(e)
    /\ UNCHANGED <<state, remoteNodes, size, pendingConn, storing, faults>>

(* tearDown, when the other goroutines have ended: Remove(config.Id) finds *)
(* no entry, or finds one and goes on to delete it.                        *)
tearDown(e) ==
    /\ Ended(e) /\ ends[e].step = "idle"
    /\ IF Contains(ends[e].owner, ends[e].id)
       THEN ends' = [ends EXCEPT ![e].step = "removing"] /\ UNCHANGED joinQueue
       ELSE finished(e)
    /\ UNCHANGED <<state, remoteNodes, size, pendingConn, storing, faults>>

(* SliceList.Remove has seen an entry and deletes what is there by then. *)
Remove(n, i) ==
    /\ remoteNodes' = [remoteNodes EXCEPT ![n][i] = NoEnd]
    /\ size' = [size EXCEPT ![n] = @ - 1]

removeEntry(e) ==
    /\ ends[e].step = "removing"
    /\ Remove(ends[e].owner, ends[e].id)
    /\ finished(e)
    /\ UNCHANGED <<state, pendingConn, storing, faults>>

-----------------------------------------------------------------------------
(* The goroutines of an end, and those of a node. *)
Steps(e) ==
    \/ connect(e)
    \/ nobodyListens(e)
    \/ sendVerify(e)
    \/ firstPing(e)
    \/ Dropped(e)
    \/ handleVerify(e)
    \/ addVerified(e)
    \/ handleVerifyOK(e)
    \/ askSync(e)
    \/ handlePing(e)
    \/ handlePong(e)
    \/ handleSyncRequest(e)
    \/ handleSyncResponse(e)
    \/ peerClosed(e)
    \/ tearDown(e)
    \/ removeEntry(e)

Faulty(e) == dialFails(e) \/ waitExpires(e) \/ connectionFails(e)

NodeSteps(n) == Started(n) \/ SkipPeer(n) \/ DialPeer(n) \/ StorePending(n)

Next ==
    \/ \E e \in End : Steps(e) \/ Faulty(e)
    \/ \E n \in Node : Start(n) \/ NodeSteps(n)

Spec == Init /\ [][Next]_vars

(* Some goroutine goes on while one can: less than what a scheduler gives. *)
(* Nothing makes a fault happen, or a node start.                          *)
Goroutines == (\E e \in End : Steps(e)) \/ (\E n \in Node : NodeSteps(n))

Fairness == WF_vars(Goroutines)

FairSpec == Spec /\ Fairness

-----------------------------------------------------------------------------
Object == [owner : Node, addr : Node, id : Id,
           state : {"connecting", "handshake", "connected", "disconnected"},
           up : BOOLEAN, reconnect : BOOLEAN, sync : BOOLEAN, verify : BOOLEAN, ping : BOOLEAN,
           step : {"idle", "adding", "removing"}, asking : BOOLEAN,
           inbox : Seq(Message)]

(* The variables have their types. *)
TypeOK ==
    /\ state \in [Node -> {"off", "starting", "started"}]
    /\ ends \in [End -> Object \cup {Gone}]
    /\ remoteNodes \in [Node -> [Id -> End \cup {NoEnd}]]
    /\ size \in [Node -> Int]
    /\ pendingConn \in [Node -> SUBSET Id]
    /\ joinQueue \in [Node -> Seq(Peer)]
    /\ storing \in [Node -> SUBSET Id]
    /\ faults \in 0 .. MaxFaults

(* An entry of remoteNodes never outlives its connection: it is a          *)
(* remoteNode of this node, verified under the id it is entered for, and   *)
(* not torn down.  Put, Get and Delete send to what they find there.  Two  *)
(* ends may enter the same id, and tearDown removes by id.                 *)
RegisteredAlive ==
    \A n \in Node, i \in Id :
        LET e == remoteNodes[n][i] IN
        e # NoEnd => /\ ends[e].owner = n
                     /\ ends[e].id = i
                     /\ ends[e].addr = i

(* The handshake filter of queueInboundMessage never discards a request    *)
(* for peers or its answer, which are sent once: an end that is still in   *)
(* the handshake has none of them before it.                               *)
SyncHeard ==
    \A e \in End : ends[e].state = "handshake" =>
        \A k \in DOMAIN ends[e].inbox : ends[e].inbox[k].code \notin {"SYNCREQ", "SYNCRSP"}

Linked(n, m) == Contains(n, m) /\ Running(remoteNodes[n][m])

(* Passive clients refuse each other: one that is told to join through     *)
(* another one does not get in.                                            *)
GetsIn(n) == n \in DOMAIN JoinIp => ~({n, JoinIp[n]} \subseteq Passive)

Mesh ==
    \A n, m \in {x \in Node : state[x] = "started" /\ GetsIn(x)} :
        n # m /\ ~({n, m} \subseteq Passive) => Linked(n, m)

(* The mesh network that connectToExistingNodes promises: in the end any   *)
(* two started nodes that are not both passive have each other registered, *)
(* with a connection that is up.                                           *)
MeshForms == <>[]Mesh

(* Two passive clients refuse each other (TestPassiveMode), and each       *)
(* reconnects on disconnect: they do not go on dialling each other for     *)
(* ever, the cluster comes to rest.                                        *)
Settles == <>[]AtRest
=============================================================================
