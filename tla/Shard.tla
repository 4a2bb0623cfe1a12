------------------------------- MODULE Shard --------------------------------
(***************************************************************************)
(* One cache shard (bigcache/shard.go) with its TTL table and eviction     *)
(* goroutine (bigcache/ttl.go), used by concurrent callers.                *)
(*                                                                         *)
(* What shard.lock protects is one action, together with the TTL call made *)
(* while holding it (treeLock is never held while waiting for shard.lock). *)
(* What the code does after unlocking is an action of its own: set's       *)
(* ttlTable.put, del's second look at the entry and its ttlTable.remove,   *)
(* get's decoding of the entry.                                            *)
(*                                                                         *)
(* The byte queue is reduced to slots: Push takes one from the free list,  *)
(* or one behind the tail, whose choice by size is left open.  The bytes   *)
(* of a slot outlive its deletion, until another Push takes it.            *)
(***************************************************************************)
EXTENDS Ttl, FiniteSets

CONSTANTS
    Procs,       \* goroutines that call the cache
    Key,
    HashOf,      \* Hasher.Sum64, a function on Key
    Slots,       \* indexes Push returns; 0 is not one
    Durations,   \* of set, in half seconds; 0 is NO_EXPIRY
    Ops,         \* which operations the callers use
    Limited,     \* HardMaxCacheSize > 0: Push may fail
    Start,       \* the clock at the start, in seconds
    LastSet,     \* bound: no set begins after this time
    LastTick     \* bound: the clock stops here

NO_EXPIRY == 0
TenHours == 36000

(* uint64(duration.Seconds()): the fraction is cut off, towards zero. *)
Seconds(duration) == IF duration >= 0 THEN duration \div 2
                                      ELSE -((-duration) \div 2)

ASSUME ShardAssumption ==
    /\ Key # {}
    /\ HashOf \in [Key -> Nat]
    /\ 0 \notin Slots
    /\ Durations \subseteq Int
    /\ Start \in Nat /\ LastSet \in Nat /\ LastTick \in Nat
    /\ \A d \in Durations : Start + Seconds(d) > 0
    /\ Limited \in BOOLEAN

VARIABLES
    hashmap,   \* hash -> slot, 0 when absent
    entries,   \* slot -> the bytes last written there
    free,      \* the slots the queue's free list holds
    fresh,     \* the slots behind the queue's tail
    locked,    \* shard.lock was left held by a set that returned
    ttl,       \* the TTL table
    evictor,   \* the eviction goroutine
    op,        \* what each caller is in the middle of
    now        \* the clock, in seconds

queue == <<free, fresh>>
vars == <<hashmap, entries, free, fresh, locked, ttl, evictor, op, now>>

Hashes == {HashOf[k] : k \in Key}
Entry == [key : Key, timestamp : Nat]
NoEntry == [key |-> CHOOSE k \in Key : TRUE, timestamp |-> 0]

Idle == [pc |-> "idle", entry |-> NoEntry, slot |-> 0]
Waiting == [pc |-> "wait", timestamp |-> 0, keys |-> {}]

Init ==
    /\ hashmap = [h \in Hashes |-> 0]
    /\ entries = [s \in Slots |-> NoEntry]
    /\ free = {}
    /\ fresh = Slots
    /\ locked = FALSE
    /\ ttl = newTtlManager(Start + TenHours)
    /\ evictor = Waiting
    /\ op = [p \in Procs |-> Idle]
    /\ now = Start

Found(k) == hashmap[HashOf[k]] # 0
Stored(k) == entries[hashmap[HashOf[k]]]

Goto(p, pc, entry, slot) ==
    op' = [op EXCEPT ![p] = [pc |-> pc, entry |-> entry, slot |-> slot]]

Return(p) == op' = [op EXCEPT ![p] = Idle]

-----------------------------------------------------------------------------
(* set *)

(* The expiry timestamp is computed before the lock is taken. *)
SetBegin(p, k, duration) ==
    /\ op[p].pc = "idle" /\ "set" \in Ops /\ now <= LastSet
    /\ LET timestamp == IF duration = 0 THEN NO_EXPIRY
                                        ELSE now + Seconds(duration)
       IN  Goto(p, "set", [key |-> k, timestamp |-> timestamp], 0)
    /\ UNCHANGED <<hashmap, entries, queue, locked, ttl, evictor, now>>

(* A previous entry under the same hash leaves the TTL table, under the    *)
(* key being set, and gives its slot back.                                 *)
Freed(k) == IF Found(k) THEN free \cup {hashmap[HashOf[k]]} ELSE free

DropPrevious(k) ==
    IF Found(k) THEN remove(ttl, Stored(k).timestamp, k) ELSE ttl

(* Push: the slot s leaves the place it was taken from. *)
Push(s, freed) ==
    \/ s \in freed /\ free' = freed \ {s} /\ UNCHANGED fresh
    \/ s \in fresh /\ free' = freed /\ fresh' = fresh \ {s}

(* Mutant: entries without expiry go to the TTL table too. *)
SetLockedAlwaysPuts(p) ==
    LET e == op[p].entry IN
    /\ op[p].pc = "set" /\ ~locked
    /\ ttl' = DropPrevious(e.key)
    /\ \E s \in Slots :
          /\ Push(s, Freed(e.key))
          /\ entries' = [entries EXCEPT ![s] = e]
          /\ hashmap' = [hashmap EXCEPT ![HashOf[e.key]] = s]
    /\ Goto(p, "put", e, 0)
    /\ UNCHANGED <<locked, evictor, now>>

SetLocked(p) ==
    LET e == op[p].entry IN
    /\ op[p].pc = "set" /\ ~locked
    /\ ttl' = DropPrevious(e.key)
    /\ \E s \in Slots :
          /\ Push(s, Freed(e.key))
          /\ entries' = [entries EXCEPT ![s] = e]
          /\ hashmap' = [hashmap EXCEPT ![HashOf[e.key]] = s]
    /\ IF e.timestamp # NO_EXPIRY THEN Goto(p, "put", e, 0) ELSE Return(p)
    /\ UNCHANGED <<locked, evictor, now>>

(* Push failed: set returns with the lock held. *)
SetFull(p) ==
    LET e == op[p].entry IN
    /\ op[p].pc = "set" /\ ~locked /\ Limited
    /\ ttl' = DropPrevious(e.key)
    /\ free' = Freed(e.key)
    /\ locked' = TRUE
    /\ Return(p)
    /\ UNCHANGED <<hashmap, entries, fresh, evictor, now>>

SetPut(p) ==
    /\ op[p].pc = "put"
    /\ ttl' = put(ttl, op[p].entry.timestamp, op[p].entry.key)
    /\ Return(p)
    /\ UNCHANGED <<hashmap, entries, queue, locked, evictor, now>>

-----------------------------------------------------------------------------
(* get: a miss or a collision changes nothing; a hit is decoded after the  *)
(* lock is released.                                                       *)
Hit(k) == Found(k) /\ Stored(k).key = k

GetMiss(p, k) ==
    /\ op[p].pc = "idle" /\ "get" \in Ops /\ ~locked
    /\ ~Hit(k)
    /\ UNCHANGED vars

GetLocked(p, k) ==
    /\ op[p].pc = "idle" /\ "get" \in Ops /\ ~locked
    /\ Hit(k)
    /\ Goto(p, "read", [Stored(k) EXCEPT !.key = k], hashmap[HashOf[k]])
    /\ UNCHANGED <<hashmap, entries, queue, locked, ttl, evictor, now>>

GetRead(p) ==
    /\ op[p].pc = "read"
    /\ Return(p)
    /\ UNCHANGED <<hashmap, entries, queue, locked, ttl, evictor, now>>

-----------------------------------------------------------------------------
(* del: the key stored under the hash is not compared. *)
DelMiss(p, k) ==
    /\ op[p].pc = "idle" /\ "del" \in Ops /\ ~locked
    /\ ~Found(k)
    /\ UNCHANGED vars

DelLocked(p, k) ==
    /\ op[p].pc = "idle" /\ "del" \in Ops /\ ~locked
    /\ Found(k)
    /\ hashmap' = [hashmap EXCEPT ![HashOf[k]] = 0]
    /\ free' = Freed(k)
    /\ Goto(p, "stamp", [Stored(k) EXCEPT !.key = k], hashmap[HashOf[k]])
    /\ UNCHANGED <<entries, fresh, locked, ttl, evictor, now>>

(* The timestamp is read from a block that may be in use again: the read   *)
(* races with the write and may see either content.                        *)
DelStamp(p) ==
    /\ op[p].pc = "stamp"
    /\ \E t \in {op[p].entry.timestamp, entries[op[p].slot].timestamp} :
          Goto(p, "remove", [op[p].entry EXCEPT !.timestamp = t], 0)
    /\ UNCHANGED <<hashmap, entries, queue, locked, ttl, evictor, now>>

DelRemove(p) ==
    /\ op[p].pc = "remove"
    /\ ttl' = remove(ttl, op[p].entry.timestamp, op[p].entry.key)
    /\ Return(p)
    /\ UNCHANGED <<hashmap, entries, queue, locked, evictor, now>>

-----------------------------------------------------------------------------
(* reset: the queue's Reset moves the tail back to the start and leaves    *)
(* the free list as it is.                                                 *)
Reset(p) ==
    /\ op[p].pc = "idle" /\ "reset" \in Ops /\ ~locked
    /\ hashmap' = [h \in Hashes |-> 0]
    /\ fresh' = Slots
    /\ ttl' = reset(ttl)
    /\ UNCHANGED <<entries, free, locked, evictor, op, now>>

-----------------------------------------------------------------------------
(* The runtime: the clock, and the timer that expires. *)
Tick ==
    /\ now < LastTick
    /\ now' = now + 1
    /\ UNCHANGED <<hashmap, entries, queue, locked, ttl, evictor, op>>

TimerFires ==
    /\ ttl.armed /\ ttl.at <= now
    /\ ttl' = [stopTimer(ttl) EXCEPT !.fired = TRUE]
    /\ UNCHANGED <<hashmap, entries, queue, locked, evictor, op, now>>

-----------------------------------------------------------------------------
(* eviction *)

(* The goroutine receives from timer.C; it does not hold treeLock yet. *)
Wake ==
    /\ evictor.pc = "wait" /\ ttl.fired
    /\ ttl' = [ttl EXCEPT !.fired = FALSE]
    /\ evictor' = [evictor EXCEPT !.pc = "woken"]
    /\ UNCHANGED <<hashmap, entries, queue, locked, op, now>>

TakeHead ==
    LET head == peek(ttl.timeTree) IN
    /\ ttl' = dropTime(ttl, head)
    /\ evictor' = [pc |-> "evict", timestamp |-> head,
                   keys |-> KeysAt(ttl.timeTree, head)]

(* The head goes whatever its timestamp. *)
EvictFirst ==
    /\ evictor.pc = "woken"
    /\ IF ttl.timeTree = {} THEN evictor' = Waiting /\ UNCHANGED ttl
                            ELSE TakeHead
    /\ UNCHANGED <<hashmap, entries, queue, locked, op, now>>

(* Mutant: the stored timestamp must be older than the expiry. *)
ExpiredBefore ==
    {h \in {HashOf[k] : k \in evictor.keys} :
        hashmap[h] # 0 /\ entries[hashmap[h]].timestamp < evictor.timestamp}

(* evictDel: of the keys given, those whose entry still has the timestamp. *)
Expired ==
    {h \in {HashOf[k] : k \in evictor.keys} :
        hashmap[h] # 0 /\ entries[hashmap[h]].timestamp = evictor.timestamp}

(* Mutant: the hash map keeps pointing to what was evicted. *)
EvictDelKeepsIndex ==
    /\ evictor.pc = "evict" /\ ~locked
    /\ free' = free \cup {hashmap[h] : h \in Expired}
    /\ evictor' = [Waiting EXCEPT !.pc = "loop"]
    /\ UNCHANGED <<hashmap, entries, fresh, locked, ttl, op, now>>

(* Mutant: the block is wiped when it is given back. *)
EvictDelWipes ==
    /\ evictor.pc = "evict" /\ ~locked
    /\ hashmap' = [h \in Hashes |-> IF h \in Expired THEN 0 ELSE hashmap[h]]
    /\ free' = free \cup {hashmap[h] : h \in Expired}
    /\ entries' = [s \in Slots |-> IF \E h \in Expired : hashmap[h] = s THEN NoEntry ELSE entries[s]]
    /\ evictor' = [Waiting EXCEPT !.pc = "loop"]
    /\ UNCHANGED <<fresh, locked, ttl, op, now>>

EvictDel ==
    /\ evictor.pc = "evict" /\ ~locked
    /\ hashmap' = [h \in Hashes |-> IF h \in Expired THEN 0 ELSE hashmap[h]]
    /\ free' = free \cup {hashmap[h] : h \in Expired}
    /\ evictor' = [Waiting EXCEPT !.pc = "loop"]
    /\ UNCHANGED <<entries, fresh, locked, ttl, op, now>>

(* Mutant: the timer is not set again. *)
EvictNextNoTimer ==
    /\ evictor.pc = "loop"
    /\ IF ttl.timeTree # {} /\ peek(ttl.timeTree) = now
       THEN TakeHead
       ELSE evictor' = Waiting /\ UNCHANGED ttl
    /\ UNCHANGED <<hashmap, entries, queue, locked, op, now>>

(* The inner loop: another head that expires right now, or set the timer. *)
EvictNext ==
    /\ evictor.pc = "loop"
    /\ IF ttl.timeTree # {} /\ peek(ttl.timeTree) = now
       THEN TakeHead
       ELSE /\ evictor' = Waiting
            /\ ttl' = IF ttl.timeTree = {} THEN ttl
                      ELSE resetTimer(ttl, peek(ttl.timeTree))
    /\ UNCHANGED <<hashmap, entries, queue, locked, op, now>>

-----------------------------------------------------------------------------
Finish(p) == SetLocked(p) \/ SetPut(p) \/ GetRead(p) \/ DelStamp(p) \/ DelRemove(p)

Caller(p) ==
    \/ \E k \in Key, d \in Durations : SetBegin(p, k, d)
    \/ \E k \in Key : GetMiss(p, k) \/ GetLocked(p, k)
    \/ \E k \in Key : DelMiss(p, k) \/ DelLocked(p, k)
    \/ Finish(p)
    \/ SetFull(p)
    \/ Reset(p)

Eviction == Wake \/ EvictFirst \/ EvictDel \/ EvictNext

Next == (\E p \in Procs : Caller(p)) \/ Eviction \/ TimerFires \/ Tick

Spec == Init /\ [][Next]_vars

(* A call that began goes on, the timer of the runtime fires, and the      *)
(* eviction goroutine is scheduled.                                        *)
Fairness ==
    /\ \A p \in Procs : WF_vars(Finish(p))
    /\ WF_vars(Eviction) /\ WF_vars(TimerFires) /\ WF_vars(Tick)

FairSpec == Spec /\ Fairness

-----------------------------------------------------------------------------
(* Types. *)
TypeOK ==
    /\ hashmap \in [Hashes -> Slots \cup {0}]
    /\ entries \in [Slots -> Entry]
    /\ free \subseteq Slots /\ fresh \subseteq Slots
    /\ locked \in BOOLEAN
    /\ ttl \in [timeTree : SUBSET ((Nat \ {0}) \X Key),
                armed : BOOLEAN, at : Nat, fired : BOOLEAN]
    /\ evictor \in [pc : {"wait", "woken", "evict", "loop"},
                    timestamp : Nat, keys : SUBSET Key]
    /\ op \in [Procs -> [pc : {"idle", "set", "put", "read", "stamp", "remove"},
                         entry : Entry, slot : Slots \cup {0}]]
    /\ now \in Nat

SlotsAgree ==
    /\ \A h \in Hashes : hashmap[h] # 0 =>
          /\ HashOf[entries[hashmap[h]].key] = h
          /\ hashmap[h] \notin free \cup fresh
    /\ \A s \in Slots : s \in free \cup fresh \/ \E h \in Hashes : hashmap[h] = s
    /\ free \cap fresh = {}

(* The hash map and the queue agree while the lock is not leaked: each     *)
(* hash points to a slot of its own, holding an entry of a key with that   *)
(* hash; a slot is free, fresh or pointed to, and never two of these.      *)
IndexConsistent == ~locked => SlotsAgree

(* The single timer serves the whole tree: whenever the eviction goroutine *)
(* waits for it and the tree is not empty, either a tick is waiting and    *)
(* the head has expired, or the timer runs and expires when the head does. *)
TimerServesHead ==
    evictor.pc = "wait" /\ ttl.timeTree # {} =>
        \/ ttl.fired /\ peek(ttl.timeTree) <= now
        \/ ~ttl.fired /\ ttl.armed /\ ttl.at = peek(ttl.timeTree)

Covered(h, t) ==
    \E k \in Key :
        /\ HashOf[k] = h
        /\ \/ <<t, k>> \in ttl.timeTree
           \/ evictor.pc = "evict" /\ evictor.timestamp = t /\ k \in evictor.keys
           \/ \E p \in Procs : op[p].pc = "put"
                                /\ op[p].entry = [key |-> k, timestamp |-> t]

(* Somebody will see to the expiry of every entry that has one: the tree   *)
(* holds it, the eviction goroutine is about to delete it, or the set that *)
(* stored it is about to put it into the tree.                             *)
ExpiryCovered ==
    ~locked =>
    \A h \in Hashes :
        hashmap[h] # 0 /\ entries[hashmap[h]].timestamp # NO_EXPIRY =>
            Covered(h, entries[hashmap[h]].timestamp)

Overdue(h) ==
    /\ hashmap[h] # 0
    /\ entries[hashmap[h]].timestamp # NO_EXPIRY
    /\ entries[hashmap[h]].timestamp <= now

(* "Bigcache had to be modified to support individual expiration of items" *)
(* (README.md:9): an entry whose time has come is evicted or replaced.     *)
ExpiresEventually == \A h \in Hashes : Overdue(h) ~> ~Overdue(h)

(* A get decodes bytes that were stored for its key, though it does so     *)
(* after it released the lock: with one caller only the eviction goroutine *)
(* can come between, which must leave the bytes in place.                  *)
ReadsOwnEntry ==
    \A p \in Procs : op[p].pc = "read" =>
        entries[op[p].slot].key = op[p].entry.key

(* When the limit is reached "the oldest entries are overridden for the    *)
(* new ones" (config.go:25): a set that finds the queue full leaves the    *)
(* shard usable, with shard.lock released.                                 *)
LockReleased == ~locked
=============================================================================
