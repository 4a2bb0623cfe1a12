----------------------------- MODULE Replication ----------------------------
(***************************************************************************)
(* Put and Delete of a cluster (cluster/clusteredBigCache.go): the local   *)
(* cache first, then one message per peer through replicationChan, worker  *)
(* goroutines that hand the messages to the remoteNodes, and handlePut and *)
(* handleDelete at the other end (cluster/remoteNode.go).                  *)
(*                                                                         *)
(* A cache is a function from keys to entries; the number of a write is    *)
(* its value.  The clock counts half seconds, expiry timestamps seconds.   *)
(* An entry that has expired goes at some later time (see Shard).  Every   *)
(* node has one goroutine that writes.                                     *)
(***************************************************************************)
EXTENDS Links

CONSTANTS
    Key,
    Writers,     \* nodes that write
    Workers,     \* goroutines that run replication(), per node
    Durations,   \* of Put, in half seconds; 0 is NO_EXPIRY
    Spaced,      \* BOOLEAN: a write waits for the one before on its key
    Begin,       \* the clock at the start, in half seconds
    LastTick,    \* bound: the clock stops here
    MaxWrites    \* bound: writes in a behaviour

ASSUME ReplicationAssumption ==
    /\ Writers \subseteq Node
    /\ Durations \subseteq Nat
    /\ Begin \in Nat /\ Begin >= 2     \* past the first second of 1970
    /\ LastTick \in Nat /\ MaxWrites \in Nat

VARIABLES
    now,
    cache,             \* of each node; the one of a passive node stays empty
    writer,            \* Put or Delete of each node
    replicationChan,
    worker,            \* what each worker has taken
    writes,            \* history: number of writes
    exact              \* history: a PUT was handled at the instant it expires

replVars == <<now, cache, writer, replicationChan, worker, writes, exact>>

NO_EXPIRY == 0
None == [value |-> 0, expiry |-> NO_EXPIRY]
Idle == [pc |-> "idle"]

ReplicationInit ==
    /\ now = Begin
    /\ cache = [n \in Node |-> [k \in Key |-> None]]
    /\ writer = [n \in Node |-> Idle]
    /\ replicationChan = [n \in Node |-> <<>>]
    /\ worker = [n \in Node |-> [w \in Workers |-> <<>>]]
    /\ writes = 0
    /\ exact = FALSE

-----------------------------------------------------------------------------
(* Expiry. *)

(* uint64(duration.Seconds()), cut off towards zero. *)
Seconds(d) == IF d >= 0 THEN d \div 2 ELSE -((-d) \div 2)

(* The timestamp set stores for a duration, at time t. *)
expiryTime(t, d) == IF d = 0 THEN NO_EXPIRY ELSE t \div 2 + Seconds(d)

(* Mutant: the duration is not taken relative to the clock. *)
replicaExpiryAgain(expiry, t) ==
    IF expiry = NO_EXPIRY THEN NO_EXPIRY ELSE expiryTime(t, 2 * expiry)

(* handlePut turns the timestamp into a duration again, for set. *)
replicaExpiry(expiry, t) ==
    IF expiry = NO_EXPIRY THEN NO_EXPIRY ELSE expiryTime(t, 2 * expiry - t)

Expired(e) == e.expiry # NO_EXPIRY /\ now >= 2 * e.expiry

-----------------------------------------------------------------------------
(* Writing. *)

(* Messages of a write of k that have not reached its peers. *)
UnderWay(k) ==
    \E n \in Node :
       \/ writer[n] # Idle /\ writer[n].msg.key = k
       \/ \E i \in DOMAIN replicationChan[n] : replicationChan[n][i].msg.key = k
       \/ \E w \in Workers : worker[n][w] # <<>> /\ worker[n][w][1].msg.key = k
       \/ \E m \in Node : <<n, m>> \in Pair /\ \E i \in DOMAIN net[<<n, m>>] :
             net[<<n, m>>][i].code \in {"PUT", "DEL"} /\ net[<<n, m>>][i].key = k

AllLinked == \A p \in Pair : p[2] \in peers[p[1]]

Wrote(msg) == [pc |-> "wrote", msg |-> msg, todo |-> {}]

WriteBegins(n, k) ==
    /\ n \in Writers /\ status[n] = "started"
    /\ writer[n] = Idle /\ writes < MaxWrites
    /\ Spaced => ~UnderWay(k) /\ AllLinked
    /\ writes' = writes + 1

(* Mutant: the entry is stored whatever the mode of the node. *)
PutEverywhere(n, k, d) ==
    LET expiry == expiryTime(now, d) IN
    /\ WriteBegins(n, k)
    /\ writer' = [writer EXCEPT ![n] = Wrote([code |-> "PUT", key |-> k, value |-> writes',
                                               expiry |-> expiry])]
    /\ cache' = [cache EXCEPT ![n][k] = [value |-> writes', expiry |-> expiry]]
    /\ UNCHANGED <<now, replicationChan, worker, exact>>

(* Put up to its loop: the local cache, unless the node is passive. *)
Put(n, k, d) ==
    LET expiry == expiryTime(now, d) IN
    /\ WriteBegins(n, k)
    /\ writer' = [writer EXCEPT ![n] = Wrote([code |-> "PUT", key |-> k, value |-> writes',
                                               expiry |-> expiry])]
    /\ cache' = IF n \in Passive THEN cache
                ELSE [cache EXCEPT ![n][k] = [value |-> writes', expiry |-> expiry]]
    /\ UNCHANGED <<now, replicationChan, worker, exact>>

Delete(n, k) ==
    /\ WriteBegins(n, k)
    /\ writer' = [writer EXCEPT ![n] = Wrote([code |-> "DEL", key |-> k])]
    /\ cache' = IF n \in Passive THEN cache ELSE [cache EXCEPT ![n][k] = None]
    /\ UNCHANGED <<now, replicationChan, worker, exact>>

(* Their loop over the peers that are not passive, in any order.  The      *)
(* channel is far larger than the bound on writes.                         *)
Targets(n) == {m \in peers[n] : link[<<n, m>>].mode # "PASSIVE"}

listPeers(n) ==
    /\ Alive(n) /\ writer[n].pc = "wrote"
    /\ writer' = IF Targets(n) = {} THEN [writer EXCEPT ![n] = Idle]
                 ELSE [writer EXCEPT ![n].pc = "loop", ![n].todo = Targets(n)]
    /\ UNCHANGED <<now, cache, replicationChan, worker, writes, exact>>

(* A send on a closed channel panics. *)
replicate(n) ==
    /\ Alive(n) /\ writer[n].pc = "loop"
    /\ \E m \in writer[n].todo :
          /\ writer' = IF writer[n].todo = {m} THEN [writer EXCEPT ![n] = Idle]
                       ELSE [writer EXCEPT ![n].todo = @ \ {m}]
          /\ IF status[n] = "ended"
             THEN Panic(n) /\ UNCHANGED replicationChan
             ELSE /\ replicationChan' = [replicationChan EXCEPT ![n] =
                                            Append(@, [r |-> m, msg |-> writer[n].msg])]
                  /\ UNCHANGED <<status, link, peers, lossy, broken>>
    /\ UNCHANGED <<now, cache, worker, writes, exact, net>>

(* replication(): a worker takes a message, and later sends it.  What is   *)
(* in a channel when it is closed can still be received.                   *)
takeReplication(n, w) ==
    /\ Alive(n)
    /\ worker[n][w] = <<>> /\ replicationChan[n] # <<>>
    /\ worker' = [worker EXCEPT ![n][w] = <<Head(replicationChan[n])>>]
    /\ replicationChan' = [replicationChan EXCEPT ![n] = Tail(@)]
    /\ UNCHANGED <<now, cache, writer, writes, exact>>

sendReplication(n, w) ==
    /\ Alive(n)
    /\ worker[n][w] # <<>>
    /\ LET p == <<n, worker[n][w][1].r>> IN
          /\ net' = Sent(net, p, worker[n][w][1].msg)
          /\ lossy' = (lossy \/ Loses(p))
    /\ worker' = [worker EXCEPT ![n][w] = <<>>]
    /\ UNCHANGED <<now, cache, writer, replicationChan, writes, exact, status, link, peers, broken>>

-----------------------------------------------------------------------------
(* The other end; a passive node has no cache to write to. *)
Writes(p, k, entry) ==
    IF p[1] \in Passive
    THEN Panic(p[1]) /\ UNCHANGED cache
    ELSE /\ cache' = [cache EXCEPT ![p[1]][k] = entry]
         /\ UNCHANGED <<status, link, peers, lossy, broken>>

handlePut(p) ==
    LET m == Head(In(p)) IN
    /\ Handles(p, "PUT")
    /\ Writes(p, m.key, [value |-> m.value, expiry |-> replicaExpiry(m.expiry, now)])
    /\ exact' = (exact \/ (m.expiry # NO_EXPIRY /\ now = 2 * m.expiry))
    /\ net' = Took(p)
    /\ UNCHANGED <<now, writer, replicationChan, worker, writes>>

(* Mutant: the message is read and the key stays. *)
handleDeleteIgnored(p) ==
    /\ Handles(p, "DEL")
    /\ net' = Took(p)
    /\ UNCHANGED <<replVars, status, link, peers, lossy, broken>>

handleDelete(p) ==
    /\ Handles(p, "DEL")
    /\ Writes(p, Head(In(p)).key, None)
    /\ net' = Took(p)
    /\ UNCHANGED <<now, writer, replicationChan, worker, writes, exact>>

(* The shard evicts an entry (see Shard). *)
evict(n, k) ==
    /\ Alive(n)
    /\ cache[n][k] # None /\ Expired(cache[n][k])
    /\ cache' = [cache EXCEPT ![n][k] = None]
    /\ UNCHANGED <<now, writer, replicationChan, worker, writes, exact>>

Tick ==
    /\ now < LastTick
    /\ now' = now + 1
    /\ UNCHANGED <<cache, writer, replicationChan, worker, writes, exact>>
=============================================================================
