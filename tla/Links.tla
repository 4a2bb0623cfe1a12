------------------------------- MODULE Links --------------------------------
(***************************************************************************)
(* The connections of a cluster as Put, Get and Delete see them: one per   *)
(* pair of nodes, just made, with a VERIFY under way each way.  Each end   *)
(* is a remoteNode (cluster/remoteNode.go); p = <<n, m>> is the one of n   *)
(* for m.  Each direction is a Channel (see Wire), which the handler and   *)
(* the handshake filter of the receiving end read; how a cluster gets its  *)
(* connections is in Membership.                                           *)
(***************************************************************************)
EXTENDS Integers, Sequences, FiniteSets

CONSTANTS
    Node,
    Passive,     \* nodes made by NewPassiveClient: they have no cache
    MaxBreaks,   \* bound: connections that break
    Stopping     \* nodes that may be shut down

ASSUME LinksAssumption == Passive \subseteq Node /\ Stopping \subseteq Node

VARIABLES
    status,   \* ClusteredBigCache.state, or "dead" after a panic
    link,     \* the remoteNode of each pair: [state, up, mode, adding]
    peers,    \* remoteNodes: registered peers of each node
    net,      \* messages on their way, per ordered pair
    lossy,    \* history: a message was discarded, or may have been
    broken    \* history: a connection failed, or a node was shut down

linkVars == <<status, link, peers, net, lossy, broken>>

Pair == {p \in Node \X Node : p[1] # p[2] /\ ~({p[1], p[2]} \subseteq Passive)}
Back(p) == <<p[2], p[1]>>
In(p) == net[Back(p)]
Alive(n) == status[n] # "dead"
Mode(n) == IF n \in Passive THEN "PASSIVE" ELSE "ACTIVE"
VERIFY(n) == [code |-> "VERIFY", mode |-> Mode(n)]

LinksInit ==
    /\ status = [n \in Node |-> "started"]
    /\ link = [p \in Pair |-> [state |-> "handshake", up |-> TRUE, mode |-> "unset", adding |-> FALSE]]
    /\ peers = [n \in Node |-> {}]
    /\ net = [p \in Pair |-> <<VERIFY(p[1])>>]
    /\ lossy = FALSE
    /\ broken = FALSE

Loses(p) == link[p].state = "disconnected" \/ ~link[p].up \/ ~link[Back(p)].up

(* sendMessage on p: queued unless the end, or the other one, is down. *)
Sent(nt, p, msg) ==
    IF Loses(p) THEN nt ELSE [nt EXCEPT ![p] = Append(@, msg)]

(* A node ends: its connections close. *)
Panic(n) ==
    /\ status' = [status EXCEPT ![n] = "dead"]
    /\ link' = [p \in Pair |-> IF p[1] = n THEN [link[p] EXCEPT !.state = "disconnected", !.up = FALSE]
                               ELSE link[p]]
    /\ peers' = [peers EXCEPT ![n] = {}]
    /\ lossy' = TRUE
    /\ UNCHANGED broken

-----------------------------------------------------------------------------
(* queueInboundMessage: nothing but VERIFY during the handshake.  The      *)
(* consumer runs ahead of the handler.                                     *)
queued(p, m) == link[p].state # "handshake" \/ m.code = "VERIFY"

Without(s, k) == SubSeq(s, 1, k - 1) \o SubSeq(s, k + 1, Len(s))

Dropped(p) ==
    /\ link[p].up
    /\ \E k \in DOMAIN In(p) :
          /\ ~queued(p, In(p)[k])
          /\ \A j \in 1 .. k - 1 : queued(p, In(p)[j])
          /\ net' = [net EXCEPT ![Back(p)] = Without(@, k)]
    /\ lossy' = TRUE
    /\ UNCHANGED <<status, link, peers, broken>>

(* The handler of p is free and its next message has the code c. *)
Handles(p, c) ==
    /\ link[p].up /\ ~link[p].adding
    /\ In(p) # <<>>
    /\ Head(In(p)).code = c
    /\ queued(p, Head(In(p)))

Took(p) == [net EXCEPT ![Back(p)] = Tail(@)]

(* Mutant: the peer is registered before its mode is known. *)
handleVerifyEarly(p) ==
    /\ Handles(p, "VERIFY")
    /\ link' = [link EXCEPT ![p].adding = TRUE]
    /\ peers' = [peers EXCEPT ![p[1]] = @ \cup {p[2]}]
    /\ net' = Took(p)
    /\ UNCHANGED <<status, lossy, broken>>

(* handleVerify notes the mode of the peer ... *)
handleVerify(p) ==
    /\ Handles(p, "VERIFY")
    /\ link' = [link EXCEPT ![p].mode = Head(In(p)).mode, ![p].adding = TRUE]
    /\ net' = Took(p)
    /\ UNCHANGED <<status, peers, lossy, broken>>

(* ... and registers it: eventVerifyRemoteNode, setState.  What the filter  *)
(* drops between the two it may as well drop before them.                  *)
addVerified(p) ==
    /\ link[p].adding /\ Alive(p[1])
    /\ link' = [link EXCEPT ![p].adding = FALSE, ![p].state = "connected"]
    /\ peers' = [peers EXCEPT ![p[1]] = @ \cup {p[2]}]
    /\ UNCHANGED <<status, net, lossy, broken>>

-----------------------------------------------------------------------------
Breaks == Cardinality({p \in Pair : ~link[p].up /\ Alive(p[1]) /\ Alive(p[2])})

Closes(p) ==
    /\ link' = [link EXCEPT ![p].state = "disconnected", ![p].up = FALSE]
    /\ net' = [net EXCEPT ![Back(p)] = <<>>]
    /\ lossy' = TRUE
    /\ UNCHANGED <<status, peers>>

(* An end fails by itself, and the other one notices. *)
connectionFails(p) ==
    /\ link[p].up /\ link[Back(p)].up
    /\ Breaks < MaxBreaks
    /\ Closes(p)
    /\ broken' = TRUE

peerClosed(p) == link[p].up /\ ~link[Back(p)].up /\ Closes(p) /\ UNCHANGED broken

(* tearDown of an end whose goroutines are gone; reconnecting is left to   *)
(* Membership.                                                             *)
tearDown(p) ==
    /\ ~link[p].up /\ ~link[p].adding /\ p[2] \in peers[p[1]]
    /\ peers' = [peers EXCEPT ![p[1]] = @ \ {p[2]}]
    /\ UNCHANGED <<status, link, net, lossy, broken>>

(* ShutDown: every registered peer is torn down and the channels of the    *)
(* node are closed; the connections stay open.  A Put that lists the peers *)
(* meanwhile may miss some: that counts as a loss.                         *)
ShutDown(n) ==
    /\ n \in Stopping /\ status[n] = "started"
    /\ status' = [status EXCEPT ![n] = "ended"]
    /\ peers' = [peers EXCEPT ![n] = {}]
    /\ lossy' = TRUE /\ broken' = TRUE
    /\ UNCHANGED <<link, net>>
=============================================================================
