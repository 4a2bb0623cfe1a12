------------------------------ MODULE Iterator ------------------------------
(***************************************************************************)
(* An EntryInfoIterator (bigcache/iterator.go) going over a cache while    *)
(* entries come and go: newIterator, SetNext and Value against the set and *)
(* del of the caches' callers and against the eviction goroutines.         *)
(*                                                                         *)
(* The iterator copies the indexes of one shard at a time (copyKeys) and   *)
(* reads the entries behind them later, without a lock; by then a block    *)
(* may be free, or hold another entry.  copyKeys takes the length of the   *)
(* hash map before it locks the shard.  The byte queue is reduced to slots *)
(* as in Shard; a slot keeps its bytes when its entry is deleted.  Keys    *)
(* have different hashes.                                                  *)
(***************************************************************************)
EXTENDS Integers, FiniteSets

CONSTANTS
    Shards,      \* Config.Shards; they are numbered from 1
    Key,
    ShardOf,     \* function: getShard of the key's hash
    Slots,       \* indexes the byte queue of a shard gives out; 0 is not one
    NoKey,       \* what unused bytes decode to
    OneCaller    \* BOOLEAN: the caller that iterates is the only one that sets

ASSUME IteratorAssumption ==
    /\ Shards \in Nat \ {0}
    /\ IsFiniteSet(Key) /\ NoKey \notin Key
    /\ ShardOf \in [Key -> 1 .. Shards]
    /\ 0 \notin Slots
    /\ OneCaller \in BOOLEAN

VARIABLES
    hashmap,   \* key -> slot in its shard, 0 when absent
    bytes,     \* per shard: slot -> the key of the entry last written there
    it,        \* the iterator and its caller
    visits,    \* history: how often Value returned each key
    fixed,     \* history: keys untouched since newIterator was called
    held       \* history: keys in the cache at some time since then

vars == <<hashmap, bytes, it, visits, fixed, held>>

KeysIn(i) == {k \in Key : ShardOf[k] = i /\ hashmap[k] # 0}
SlotsIn(i) == {hashmap[k] : k \in KeysIn(i)}

(* pc: "none", "new" and "next" (before copyKeys of shard i takes the      *)
(* lock, size being the length it has seen), "at" (SetNext returned true), *)
(* "idle" (Value was called), "end" (SetNext returned false), "panic".     *)
NoIterator == [pc |-> "none", i |-> 1, size |-> 0, currentShard |-> 1,
               currentIndex |-> -1, elements |-> <<>>, elementsCount |-> 0]

Init ==
    /\ hashmap = [k \in Key |-> 0]
    /\ bytes = [i \in 1 .. Shards |-> [s \in Slots |-> NoKey]]
    /\ it = NoIterator
    /\ visits = [k \in Key |-> 0]
    /\ fixed = {}
    /\ held = {}

-----------------------------------------------------------------------------
(* The cache. *)
Calling == it.pc \in {"new", "next"}

(* set: the previous entry's block is given back before Push takes one. *)
Set(k) ==
    /\ OneCaller => ~Calling
    /\ \E s \in Slots :
          /\ \A j \in KeysIn(ShardOf[k]) \ {k} : hashmap[j] # s
          /\ hashmap' = [hashmap EXCEPT ![k] = s]
          /\ bytes' = [bytes EXCEPT ![ShardOf[k]][s] = k]
    /\ fixed' = fixed \ {k}
    /\ held' = held \cup {k}
    /\ UNCHANGED <<it, visits>>

(* del and evictDel, the latter at any time. *)
Remove(k) ==
    /\ hashmap[k] # 0
    /\ hashmap' = [hashmap EXCEPT ![k] = 0]
    /\ fixed' = fixed \ {k}
    /\ UNCHANGED <<bytes, it, visits, held>>

-----------------------------------------------------------------------------
(* The iterator. *)

(* copyKeys starts with the length of the map, not locked. *)
copyLen(i) == Cardinality(KeysIn(i))

newIterator ==
    /\ it.pc = "none"
    /\ it' = [it EXCEPT !.pc = "new", !.size = copyLen(1)]
    /\ fixed' = {k \in Key : hashmap[k] # 0}
    /\ held' = {k \in Key : hashmap[k] # 0}
    /\ UNCHANGED <<hashmap, bytes, visits>>

(* The indexes of a shard in the order Go's range gives them: any. *)
Orders(S) == {q \in [1 .. Cardinality(S) -> S] :
                 \A m, n \in 1 .. Cardinality(S) : q[m] = q[n] => m = n}

started(keys) ==
    [it EXCEPT !.pc = "idle", !.elements = keys, !.elementsCount = copyLen(1)]

(* Mutant: the indexes of the next shard are read in the shard before. *)
advancedKeepsShard(keys) ==
    IF copyLen(it.i) > 0
    THEN [it EXCEPT !.pc = "at", !.elements = keys, !.elementsCount = copyLen(it.i),
                    !.currentIndex = 0]
    ELSE IF it.i < Shards
    THEN [it EXCEPT !.elements = keys, !.elementsCount = 0,
                    !.i = @ + 1, !.size = copyLen(it.i + 1)]
    ELSE [it EXCEPT !.elements = keys, !.elementsCount = 0, !.pc = "end"]

(* SetNext's loop: the next shard with entries becomes the current one. *)
advanced(keys) ==
    IF copyLen(it.i) > 0
    THEN [it EXCEPT !.pc = "at", !.elements = keys, !.elementsCount = copyLen(it.i),
                    !.currentShard = it.i, !.currentIndex = 0]
    ELSE IF it.i < Shards
    THEN [it EXCEPT !.elements = keys, !.elementsCount = 0,
                    !.i = @ + 1, !.size = copyLen(it.i + 1)]
    ELSE [it EXCEPT !.elements = keys, !.elementsCount = 0, !.pc = "end"]

(* Under the lock the indexes are copied into the slice made before: one   *)
(* that is too short, and the copy panics.                                 *)
copyKeys ==
    /\ Calling
    /\ \E keys \in Orders(SlotsIn(it.i)) :
          it' = IF copyLen(it.i) > it.size THEN [it EXCEPT !.pc = "panic"]
                ELSE IF it.pc = "new" THEN started(keys)
                ELSE advanced(keys)
    /\ UNCHANGED <<hashmap, bytes, visits, fixed, held>>

(* Mutants: the index is compared before it is advanced; the last index of *)
(* a shard is skipped; the slice has the length of the shard before.       *)
SetNextLate ==
    /\ it.pc = "idle"
    /\ it' = IF it.elementsCount > it.currentIndex
             THEN [it EXCEPT !.pc = "at", !.currentIndex = @ + 1]
             ELSE [it EXCEPT !.pc = "end"]
    /\ UNCHANGED <<hashmap, bytes, visits, fixed, held>>

SetNextShort ==
    /\ it.pc = "idle"
    /\ it' = IF it.elementsCount - 1 > it.currentIndex + 1
             THEN [it EXCEPT !.pc = "at", !.currentIndex = @ + 1]
             ELSE IF it.currentShard < Shards
             THEN [it EXCEPT !.pc = "next", !.i = it.currentShard + 1,
                             !.size = copyLen(it.currentShard + 1), !.currentIndex = @ + 1]
             ELSE [it EXCEPT !.pc = "end"]
    /\ UNCHANGED <<hashmap, bytes, visits, fixed, held>>

SetNextOldLength ==
    /\ it.pc = "idle"
    /\ it' = IF it.elementsCount > it.currentIndex + 1
             THEN [it EXCEPT !.pc = "at", !.currentIndex = @ + 1]
             ELSE IF it.currentShard < Shards
             THEN [it EXCEPT !.pc = "next", !.i = it.currentShard + 1,
                             !.size = it.elementsCount, !.currentIndex = @ + 1]
             ELSE [it EXCEPT !.pc = "end"]
    /\ UNCHANGED <<hashmap, bytes, visits, fixed, held>>

(* SetNext up to its loop. *)
SetNext ==
    /\ it.pc = "idle"
    /\ LET index == it.currentIndex + 1
           moved == [it EXCEPT !.currentIndex = index]
           i == it.currentShard + 1
       IN  it' = IF it.elementsCount > index THEN [moved EXCEPT !.pc = "at"]
                 ELSE IF i <= Shards
                 THEN [moved EXCEPT !.pc = "next", !.i = i, !.size = copyLen(i)]
                 ELSE [moved EXCEPT !.pc = "end"]
    /\ UNCHANGED <<hashmap, bytes, visits, fixed, held>>

(* What is behind the current index now; elements counts from 0. *)
Read == bytes[it.currentShard][it.elements[it.currentIndex + 1]]

(* Value, once after each SetNext; getEntry fails when the queue is empty. *)
Value ==
    /\ it.pc = "at"
    /\ it' = [it EXCEPT !.pc = "idle"]
    /\ visits' = IF KeysIn(it.currentShard) = {} THEN visits
                 ELSE [visits EXCEPT ![Read] = @ + 1]
    /\ UNCHANGED <<hashmap, bytes, fixed, held>>

Next ==
    \/ \E k \in Key : Set(k) \/ Remove(k)
    \/ newIterator \/ copyKeys \/ SetNext \/ Value

Spec == Init /\ [][Next]_vars

-----------------------------------------------------------------------------
(* Types. *)
TypeOK ==
    /\ hashmap \in [Key -> Slots \cup {0}]
    /\ bytes \in [1 .. Shards -> [Slots -> Key \cup {NoKey}]]
    /\ it.pc \in {"none", "new", "next", "at", "idle", "end", "panic"}
    /\ it.i \in 1 .. Shards /\ it.currentShard \in 1 .. Shards
    /\ it.size \in Nat
    /\ it.currentIndex \in Nat \cup {-1}
    /\ it.elementsCount \in Nat
    /\ it.pc = "at" => it.currentIndex \in 0 .. it.elementsCount - 1
    /\ it.elements \in [1 .. it.elementsCount -> Slots]
    /\ visits \in [Key -> Nat]
    /\ fixed \subseteq Key /\ held \subseteq Key

(* A full iteration returns every entry that is left alone meanwhile, and  *)
(* returns it once: whatever is set, replaced and evicted around it, in    *)
(* the same shard or in one the iterator has yet to reach.                 *)
VisitsOnce == it.pc = "end" => \A k \in fixed : visits[k] = 1

(* Value never returns an entry that was not in the cache at some time     *)
(* since the iterator was made, though it reads a block that may have been *)
(* freed and used again.                                                   *)
ValueWasHeld == \A k \in Key : visits[k] > 0 => k \in held

(* copyKeys never writes past the slice it made: the map it saw before it  *)
(* locked the shard can only have shrunk.                                  *)
CopyFits == it.pc # "panic"
=============================================================================
