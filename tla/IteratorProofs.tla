--------------------------- MODULE IteratorProofs ---------------------------
(***************************************************************************)
(* The iterator for any number of shards, keys and slots: every entry that *)
(* is left alone is returned once, nothing that was never there is         *)
(* returned, and copyKeys does not write past its slice when the caller    *)
(* that iterates is the only one that sets.                                *)
(***************************************************************************)
EXTENDS Iterator, FiniteSetTheorems, TLAPS

Fields == {"pc", "i", "size", "currentShard", "currentIndex", "elements", "elementsCount"}

(* The bytes behind an index that the map holds are those of its key. *)
Stored == \A k \in Key : hashmap[k] # 0 => bytes[ShardOf[k]][hashmap[k]] = k

(* The record has its fields, and its index is where SetNext left it. *)
TypeInv ==
    /\ TypeOK
    /\ DOMAIN it = Fields
    /\ Stored
    /\ it.pc \in {"none", "new"} => /\ it.i = 1 /\ it.currentShard = 1
                                    /\ it.elementsCount = 0 /\ it.currentIndex = -1
    /\ it.pc = "idle" => it.currentIndex \in -1 .. it.elementsCount - 1

(* The key behind the m-th index copied. *)
KeyAt(m) == bytes[it.currentShard][it.elements[m]]

(* The block behind a copied index holds a key that was in the cache, and  *)
(* is the block of a key left alone only if that key was copied with it.   *)
CopyInv ==
    /\ \A m \in 1 .. it.elementsCount : KeyAt(m) \in held
    /\ \A m, n \in 1 .. it.elementsCount : it.elements[m] = it.elements[n] => m = n
    /\ \A k \in fixed : hashmap[k] # 0
    /\ it.pc # "none" => \A k \in Key : hashmap[k] # 0 => k \in held
    /\ \A k \in fixed, m \in 1 .. it.elementsCount :
          ShardOf[k] = it.currentShard /\ KeyAt(m) = k => it.elements[m] = hashmap[k]
    /\ it.pc \in {"at", "idle"} =>
          \A k \in fixed : ShardOf[k] = it.currentShard =>
              \E m \in 1 .. it.elementsCount : it.elements[m] = hashmap[k]

(* The iterator is past the key k, which has been left alone. *)
UpTo(k, last) ==
    \/ ShardOf[k] < it.currentShard
    \/ ShardOf[k] = it.currentShard /\ \E m \in 1 .. last : it.elements[m] = hashmap[k]

Past(k) ==
    \/ it.pc = "at" /\ UpTo(k, it.currentIndex)
    \/ it.pc = "idle" /\ UpTo(k, it.currentIndex + 1)
    \/ it.pc = "next" /\ ShardOf[k] < it.i
    \/ it.pc = "end"

(* The blocks of a shard only ever hold keys of that shard. *)
Home == \A i \in 1 .. Shards, s \in Slots : bytes[i][s] # NoKey => ShardOf[bytes[i][s]] = i

VisitInv ==
    /\ Home
    /\ \A k \in Key : visits[k] > 0 => k \in held
    /\ it.pc \in {"none", "new"} => \A k \in Key : visits[k] = 0
    /\ it.pc # "panic" => \A k \in fixed : visits[k] = IF Past(k) THEN 1 ELSE 0

IInv == TypeInv /\ CopyInv /\ VisitInv

-----------------------------------------------------------------------------
(* What copyKeys finds. *)
LEMMA KeysInFinite ==
    ASSUME NEW i
    PROVE  IsFiniteSet(KeysIn(i)) /\ copyLen(i) \in Nat
<1>1. KeysIn(i) \subseteq Key
  BY DEF KeysIn
<1> QED BY <1>1, IteratorAssumption, FS_Subset, FS_CardinalityType DEF copyLen

(* No two keys of a shard have one slot: as many indexes as entries. *)
LEMMA SlotsCounted ==
    ASSUME TypeInv, NEW i
    PROVE  /\ SlotsIn(i) \subseteq Slots /\ IsFiniteSet(SlotsIn(i))
           /\ Cardinality(SlotsIn(i)) = copyLen(i)
<1> DEFINE h == [k \in KeysIn(i) |-> hashmap[k]]
<1>1. SlotsIn(i) \subseteq Slots
  BY DEF SlotsIn, KeysIn, TypeInv, TypeOK
<1>2. h \in Surjection(KeysIn(i), SlotsIn(i))
  BY DEF SlotsIn, Surjection
<1>3. ASSUME NEW j \in KeysIn(i), NEW k \in KeysIn(i), hashmap[j] = hashmap[k] PROVE j = k
  BY <1>3 DEF KeysIn, TypeInv, Stored
<1>4. h \in Injection(KeysIn(i), SlotsIn(i))
  BY <1>2, <1>3 DEF Injection, Surjection, IsInjective
<1> QED BY <1>1, <1>2, <1>4, KeysInFinite, FS_Surjection DEF copyLen

LEMMA OrdersList ==
    ASSUME TypeInv, NEW i, NEW q \in Orders(SlotsIn(i))
    PROVE  /\ q \in [1 .. copyLen(i) -> SlotsIn(i)]
           /\ \A m, n \in 1 .. copyLen(i) : q[m] = q[n] => m = n
           /\ \A s \in SlotsIn(i) : \E m \in 1 .. copyLen(i) : q[m] = s
<1> DEFINE N == copyLen(i)
           S == SlotsIn(i)
<1>1. N \in Nat /\ IsFiniteSet(S) /\ Cardinality(S) = N
  BY KeysInFinite, SlotsCounted
<1> HIDE DEF N
<1>2. q \in [1 .. N -> S] /\ \A m, n \in 1 .. N : q[m] = q[n] => m = n
  <2>1. /\ q \in [1 .. Cardinality(S) -> S]
        /\ \A m, n \in 1 .. Cardinality(S) : q[m] = q[n] => m = n
    BY DEF Orders
  <2> QED BY <1>1, <2>1
<1> HIDE DEF S
<1>3. q \in Injection(1 .. N, S)
  BY <1>2 DEF Injection, IsInjective
<1>4. Cardinality(1 .. N) = N
  BY <1>1, FS_Interval
<1>5. q \in Surjection(1 .. N, S)
  BY <1>1, <1>3, <1>4, FS_Injection
<1>6. \A s \in S : \E m \in 1 .. N : q[m] = s
  BY <1>5 DEF Surjection
<1> QED BY <1>2, <1>6 DEF N, S

(* The outcomes of copyKeys, field by field. *)
Kept(F) == \A x \in Fields \ F : it'[x] = it[x]

CopyPanics == it'.pc = "panic" /\ Kept({"pc"}) /\ copyLen(it.i) > it.size

CopyStarts(keys) ==
    /\ it.pc = "new" /\ it'.pc = "idle"
    /\ it'.elements = keys /\ it'.elementsCount = copyLen(1)
    /\ Kept({"pc", "elements", "elementsCount"})

CopyFinds(keys) ==
    /\ it.pc = "next" /\ it'.pc = "at" /\ copyLen(it.i) > 0
    /\ it'.elements = keys /\ it'.elementsCount = copyLen(it.i)
    /\ it'.currentShard = it.i /\ it'.currentIndex = 0
    /\ Kept({"pc", "elements", "elementsCount", "currentShard", "currentIndex"})

CopyFindsNone(keys) ==
    /\ it.pc = "next" /\ ~(copyLen(it.i) > 0)
    /\ it'.elements = keys /\ it'.elementsCount = 0
    /\ \/ /\ it.i < Shards /\ it'.i = it.i + 1 /\ it'.size = copyLen(it.i + 1)
          /\ Kept({"i", "size", "elements", "elementsCount"})
       \/ /\ ~(it.i < Shards) /\ it'.pc = "end"
          /\ Kept({"pc", "elements", "elementsCount"})

LEMMA CopyCases ==
    ASSUME DOMAIN it = Fields, copyKeys
    PROVE  /\ DOMAIN it' = Fields
           /\ UNCHANGED <<hashmap, bytes, visits, fixed, held>>
           /\ \E keys \in Orders(SlotsIn(it.i)) :
                 CopyPanics \/ CopyStarts(keys) \/ CopyFinds(keys) \/ CopyFindsNone(keys)
<1>1. PICK keys \in Orders(SlotsIn(it.i)) :
         it' = IF copyLen(it.i) > it.size THEN [it EXCEPT !.pc = "panic"]
               ELSE IF it.pc = "new" THEN started(keys) ELSE advanced(keys)
  BY DEF copyKeys
<1>2. it.pc \in {"new", "next"}
  BY DEF copyKeys, Calling
<1> DEFINE N == copyLen(it.i)
           M == copyLen(it.i + 1)
           L == copyLen(1)
           Done == /\ DOMAIN it' = Fields
                   /\ \/ CopyPanics \/ CopyStarts(keys) \/ CopyFinds(keys) \/ CopyFindsNone(keys)
<1>3. ASSUME N > it.size PROVE Done
  <2>1. it' = [it EXCEPT !.pc = "panic"]
    BY <1>1, <1>3
  <2>2. DOMAIN it' = Fields /\ it'.pc = "panic" /\ Kept({"pc"})
    BY <2>1 DEF Fields, Kept
  <2> QED BY <1>3, <2>2 DEF CopyPanics
<1>4. ASSUME ~(N > it.size) /\ it.pc = "new" PROVE Done
  <2>1. it' = [it EXCEPT !.pc = "idle", !.elements = keys, !.elementsCount = L]
    BY <1>1, <1>4 DEF started
  <2> HIDE DEF L
  <2>2. /\ DOMAIN it' = Fields /\ it'.pc = "idle" /\ it'.elements = keys
        /\ it'.elementsCount = L /\ Kept({"pc", "elements", "elementsCount"})
    BY <2>1, Zenon DEF Fields, Kept
  <2> QED BY <1>4, <2>2 DEF CopyStarts, L
<1>5. ASSUME ~(N > it.size) /\ it.pc = "next" /\ N > 0 PROVE Done
  <2>1. it' = [it EXCEPT !.pc = "at", !.elements = keys, !.elementsCount = N,
                         !.currentShard = it.i, !.currentIndex = 0]
    BY <1>1, <1>5 DEF advanced
  <2> HIDE DEF N
  <2>2. /\ DOMAIN it' = Fields /\ it'.pc = "at" /\ it'.elements = keys
        /\ it'.elementsCount = N /\ it'.currentShard = it.i /\ it'.currentIndex = 0
        /\ Kept({"pc", "elements", "elementsCount", "currentShard", "currentIndex"})
    BY <2>1, Zenon DEF Fields, Kept
  <2> QED BY <1>5, <2>2 DEF CopyFinds, N
<1>6. ASSUME ~(N > it.size) /\ it.pc = "next" /\ ~(N > 0) /\ it.i < Shards PROVE Done
  <2>1. it' = [it EXCEPT !.elements = keys, !.elementsCount = 0, !.i = it.i + 1, !.size = M]
    BY <1>1, <1>6 DEF advanced
  <2> HIDE DEF M
  <2>2. /\ DOMAIN it' = Fields /\ it'.elements = keys /\ it'.elementsCount = 0
        /\ it'.i = it.i + 1 /\ it'.size = M
        /\ Kept({"i", "size", "elements", "elementsCount"})
    BY <2>1, Zenon DEF Fields, Kept
  <2> QED BY <1>6, <2>2 DEF CopyFindsNone, M
<1>7. ASSUME ~(N > it.size) /\ it.pc = "next" /\ ~(N > 0) /\ ~(it.i < Shards) PROVE Done
  <2>1. it' = [it EXCEPT !.elements = keys, !.elementsCount = 0, !.pc = "end"]
    BY <1>1, <1>7 DEF advanced
  <2>2. /\ DOMAIN it' = Fields /\ it'.elements = keys /\ it'.elementsCount = 0
        /\ it'.pc = "end" /\ Kept({"pc", "elements", "elementsCount"})
    BY <2>1, Zenon DEF Fields, Kept
  <2> QED BY <1>7, <2>2 DEF CopyFindsNone
<1>8. Done
  BY <1>2, <1>3, <1>4, <1>5, <1>6, <1>7
<1> QED BY <1>8 DEF copyKeys

(* The outcomes of SetNext. *)
Steps(j) == /\ it.elementsCount > j /\ it'.pc = "at" /\ Kept({"pc", "currentIndex"})

Leaves(j) ==
    /\ ~(it.elementsCount > j)
    /\ \/ /\ it.currentShard + 1 <= Shards /\ it'.pc = "next"
          /\ it'.i = it.currentShard + 1 /\ it'.size = copyLen(it.currentShard + 1)
          /\ Kept({"pc", "currentIndex", "i", "size"})
       \/ /\ ~(it.currentShard + 1 <= Shards) /\ it'.pc = "end"
          /\ Kept({"pc", "currentIndex"})

LEMMA SetNextCases ==
    ASSUME DOMAIN it = Fields, SetNext
    PROVE  /\ DOMAIN it' = Fields /\ it.pc = "idle"
           /\ UNCHANGED <<hashmap, bytes, visits, fixed, held>>
           /\ it'.currentIndex = it.currentIndex + 1
           /\ Steps(it.currentIndex + 1) \/ Leaves(it.currentIndex + 1)
<1> DEFINE j == it.currentIndex + 1
           c == it.currentShard + 1
           N == copyLen(c)
<1>1. it' = IF it.elementsCount > j THEN [[it EXCEPT !.currentIndex = j] EXCEPT !.pc = "at"]
            ELSE IF c <= Shards
            THEN [[it EXCEPT !.currentIndex = j] EXCEPT !.pc = "next", !.i = c, !.size = N]
            ELSE [[it EXCEPT !.currentIndex = j] EXCEPT !.pc = "end"]
  BY DEF SetNext
<1> HIDE DEF j, c, N
<1>2. DOMAIN it' = Fields /\ it'.currentIndex = j
  BY <1>1 DEF Fields
<1>3. ASSUME it.elementsCount > j PROVE Steps(j) \/ Leaves(j)
  BY <1>1, <1>3, Zenon DEF Steps, Kept, Fields
<1>4. ASSUME ~(it.elementsCount > j) /\ c <= Shards PROVE Steps(j) \/ Leaves(j)
  <2>1. it'.pc = "next" /\ it'.i = c /\ it'.size = N /\ Kept({"pc", "currentIndex", "i", "size"})
    BY <1>1, <1>4, Zenon DEF Kept, Fields
  <2> QED BY <1>4, <2>1 DEF Leaves, c, N
<1>5. ASSUME ~(it.elementsCount > j) /\ ~(c <= Shards) PROVE Steps(j) \/ Leaves(j)
  <2>1. it'.pc = "end" /\ Kept({"pc", "currentIndex"})
    BY <1>1, <1>5, Zenon DEF Kept, Fields
  <2> QED BY <1>5, <2>1 DEF Leaves, c
<1>6. Steps(j) \/ Leaves(j)
  BY <1>3, <1>4, <1>5
<1> QED BY <1>2, <1>6 DEF SetNext, j

-----------------------------------------------------------------------------
(* Types. *)
LEMMA TypeInit == Init => TypeInv
<1> SUFFICES ASSUME Init PROVE TypeInv
  OBVIOUS
<1>1. /\ DOMAIN it = Fields /\ it.pc = "none" /\ it.i = 1 /\ it.size = 0
      /\ it.currentShard = 1 /\ it.currentIndex = -1 /\ it.elements = <<>>
      /\ it.elementsCount = 0
  BY DEF Init, NoIterator, Fields
<1>2. 1 \in 1 .. Shards
  BY IteratorAssumption
<1>3. <<>> \in [1 .. 0 -> Slots]
  OBVIOUS
<1>4. /\ hashmap \in [Key -> Slots \cup {0}]
      /\ bytes \in [1 .. Shards -> [Slots -> Key \cup {NoKey}]]
      /\ visits \in [Key -> Nat] /\ fixed = {} /\ held = {}
      /\ \A k \in Key : hashmap[k] = 0
  BY DEF Init
<1>5. TypeOK
  BY <1>1, <1>2, <1>3, <1>4 DEF TypeOK
<1> QED BY <1>1, <1>4, <1>5 DEF TypeInv, Stored

LEMMA TypeNext == TypeInv /\ [Next]_vars => TypeInv'
<1> SUFFICES ASSUME TypeInv, [Next]_vars PROVE TypeInv'
  OBVIOUS
<1>0. \A j : copyLen(j) \in Nat
  BY KeysInFinite
<1>1. CASE UNCHANGED vars
  BY <1>1 DEF TypeInv, TypeOK, Stored, vars
<1>2. ASSUME NEW k \in Key, Set(k) PROVE TypeInv'
  <2>1. PICK s \in Slots : /\ \A j \in KeysIn(ShardOf[k]) \ {k} : hashmap[j] # s
                           /\ hashmap' = [hashmap EXCEPT ![k] = s]
                           /\ bytes' = [bytes EXCEPT ![ShardOf[k]][s] = k]
    BY <1>2, Zenon DEF Set
  <2>2. it' = it /\ visits' = visits /\ fixed' = fixed \ {k} /\ held' = held \cup {k}
    BY <1>2 DEF Set
  <2>3. ShardOf[k] \in 1 .. Shards /\ s # 0
    BY IteratorAssumption
  <2>4. hashmap' \in [Key -> Slots \cup {0}]
    BY <2>1 DEF TypeInv, TypeOK
  <2>5. bytes' \in [1 .. Shards -> [Slots -> Key \cup {NoKey}]]
    BY <2>1, <2>3 DEF TypeInv, TypeOK
  <2>6. TypeOK'
    BY <2>2, <2>4, <2>5 DEF TypeInv, TypeOK
  <2>7. ASSUME NEW j \in Key, hashmap'[j] # 0 PROVE bytes'[ShardOf[j]][hashmap'[j]] = j
    <3>1. CASE j = k
      BY <2>1, <2>3, <3>1 DEF TypeInv, TypeOK
    <3>2. CASE j # k
      <4>1. hashmap'[j] = hashmap[j]
        BY <2>1, <3>2 DEF TypeInv, TypeOK
      <4>2. bytes[ShardOf[j]][hashmap[j]] = j /\ hashmap[j] \in Slots
        BY <2>7, <4>1 DEF TypeInv, TypeOK, Stored
      <4>3. ShardOf[j] = ShardOf[k] => hashmap[j] # s
        BY <2>1, <2>7, <3>2, <4>1 DEF KeysIn
      <4>4. ShardOf[j] \in 1 .. Shards
        BY IteratorAssumption
      <4>5. bytes'[ShardOf[j]][hashmap[j]] = bytes[ShardOf[j]][hashmap[j]]
        BY <2>1, <2>3, <4>2, <4>3, <4>4 DEF TypeInv, TypeOK
      <4> QED BY <4>1, <4>2, <4>5
    <3> QED BY <3>1, <3>2
  <2> QED BY <2>2, <2>6, <2>7 DEF TypeInv, Stored
<1>3. ASSUME NEW k \in Key, Remove(k) PROVE TypeInv'
  <2>1. /\ hashmap' = [hashmap EXCEPT ![k] = 0] /\ fixed' = fixed \ {k}
        /\ UNCHANGED <<bytes, it, visits, held>>
    BY <1>3 DEF Remove
  <2>2. TypeOK'
    BY <2>1 DEF TypeInv, TypeOK
  <2>3. Stored'
    BY <2>1 DEF TypeInv, TypeOK, Stored
  <2> QED BY <2>1, <2>2, <2>3 DEF TypeInv
<1>4. CASE newIterator
  <2>1. it' = [it EXCEPT !.pc = "new", !.size = copyLen(1)]
    BY <1>4 DEF newIterator
  <2>2. DOMAIN it' = Fields /\ it'.pc = "new" /\ it'.size \in Nat /\ Kept({"pc", "size"})
    BY <1>0, <2>1, Zenon DEF TypeInv, Fields, Kept
  <2>3. /\ it'.i = it.i /\ it'.currentShard = it.currentShard
        /\ it'.currentIndex = it.currentIndex /\ it'.elements = it.elements
        /\ it'.elementsCount = it.elementsCount
    BY <2>2 DEF Kept, Fields
  <2>4. it.pc = "none" /\ UNCHANGED <<hashmap, bytes, visits>>
    BY <1>4 DEF newIterator
  <2>5. fixed' \subseteq Key /\ held' \subseteq Key
    BY <1>4 DEF newIterator
  <2>6. TypeOK'
    BY <2>2, <2>3, <2>4, <2>5 DEF TypeInv, TypeOK
  <2> QED BY <2>2, <2>3, <2>4, <2>6 DEF TypeInv, Stored
<1>5. CASE copyKeys
  <2>1. /\ DOMAIN it' = Fields
        /\ UNCHANGED <<hashmap, bytes, visits, fixed, held>>
    BY <1>5, CopyCases DEF TypeInv
  <2>2. PICK keys \in Orders(SlotsIn(it.i)) :
                 CopyPanics \/ CopyStarts(keys) \/ CopyFinds(keys) \/ CopyFindsNone(keys)
    BY <1>5, CopyCases DEF TypeInv
  <2> DEFINE N == copyLen(it.i)
  <2>3. keys \in [1 .. N -> Slots] /\ N \in Nat
    BY <1>0, OrdersList, SlotsCounted
  <2>4. /\ it.i \in 1 .. Shards /\ it.currentShard \in 1 .. Shards /\ Shards \in Nat
        /\ it.size \in Nat /\ it.currentIndex \in Nat \cup {-1} /\ it.elementsCount \in Nat
        /\ it.elements \in [1 .. it.elementsCount -> Slots]
    BY IteratorAssumption DEF TypeInv, TypeOK
  <2>5. ASSUME /\ it'.pc \in {"idle", "next", "at", "end", "panic"}
               /\ it'.i \in 1 .. Shards /\ it'.currentShard \in 1 .. Shards
               /\ it'.size \in Nat /\ it'.currentIndex \in Nat \cup {-1}
               /\ it'.elementsCount \in Nat
               /\ it'.elements \in [1 .. it'.elementsCount -> Slots]
               /\ it'.pc = "at" => it'.currentIndex \in 0 .. it'.elementsCount - 1
               /\ it'.pc = "idle" => it'.currentIndex \in -1 .. it'.elementsCount - 1
        PROVE  TypeInv'
    <3>1. TypeOK'
      BY <2>1, <2>5 DEF TypeInv, TypeOK
    <3> QED BY <2>1, <2>5, <3>1 DEF TypeInv, Stored
  <2> HIDE DEF N
  <2>6. CASE CopyPanics
    <3>1. /\ it'.pc = "panic" /\ it'.i = it.i /\ it'.currentShard = it.currentShard
          /\ it'.size = it.size /\ it'.currentIndex = it.currentIndex
          /\ it'.elementsCount = it.elementsCount /\ it'.elements = it.elements
      BY <2>6 DEF CopyPanics, Kept, Fields
    <3> QED BY <2>4, <2>5, <3>1
  <2>7. CASE CopyStarts(keys)
    <3>1. /\ it'.pc = "idle" /\ it'.i = it.i /\ it'.currentShard = it.currentShard
          /\ it'.size = it.size /\ it'.currentIndex = it.currentIndex /\ it'.elements = keys
      BY <2>7 DEF CopyStarts, Kept, Fields
    <3>2. it'.elementsCount = N /\ it.currentIndex = -1
      BY <2>7 DEF CopyStarts, N, TypeInv
    <3> QED BY <2>3, <2>4, <2>5, <3>1, <3>2
  <2>8. CASE CopyFinds(keys)
    <3>1. /\ it'.pc = "at" /\ it'.i = it.i /\ it'.currentShard = it.i
          /\ it'.size = it.size /\ it'.currentIndex = 0 /\ it'.elements = keys
      BY <2>8 DEF CopyFinds, Kept, Fields
    <3>2. it'.elementsCount = N /\ N > 0
      BY <2>8 DEF CopyFinds, N
    <3> QED BY <2>3, <2>4, <2>5, <3>1, <3>2
  <2>9. CASE CopyFindsNone(keys)
    <3>1. /\ it'.currentShard = it.currentShard /\ it'.currentIndex = it.currentIndex
          /\ it'.elements = keys /\ it'.elementsCount = 0
      BY <2>9 DEF CopyFindsNone, Kept, Fields
    <3>2. N = 0
      BY <2>3, <2>9 DEF CopyFindsNone, N
    <3>3. it'.pc = "next" \/ it'.pc = "end"
      BY <2>9 DEF CopyFindsNone, Kept, Fields
    <3>4. it'.i \in 1 .. Shards /\ it'.size \in Nat
      <4>1. (it'.i = it.i + 1 /\ it.i < Shards) \/ it'.i = it.i
        BY <2>9 DEF CopyFindsNone, Kept, Fields
      <4>2. it'.size = copyLen(it.i + 1) \/ it'.size = it.size
        BY <2>9 DEF CopyFindsNone, Kept, Fields
      <4> QED BY <1>0, <2>4, <4>1, <4>2
    <3> QED BY <2>3, <2>4, <2>5, <3>1, <3>2, <3>3, <3>4
  <2> QED BY <2>2, <2>6, <2>7, <2>8, <2>9
<1>6. CASE SetNext
  <2>1. /\ DOMAIN it' = Fields /\ it.pc = "idle"
        /\ UNCHANGED <<hashmap, bytes, visits, fixed, held>>
        /\ it'.currentIndex = it.currentIndex + 1
        /\ Steps(it.currentIndex + 1) \/ Leaves(it.currentIndex + 1)
    BY <1>6, SetNextCases DEF TypeInv
  <2>2. /\ it.i \in 1 .. Shards /\ it.currentShard \in 1 .. Shards /\ Shards \in Nat
        /\ it.size \in Nat /\ it.currentIndex \in -1 .. it.elementsCount - 1
        /\ it.elementsCount \in Nat
        /\ it.elements \in [1 .. it.elementsCount -> Slots]
    BY <2>1, IteratorAssumption DEF TypeInv, TypeOK
  <2>3. /\ it'.currentShard = it.currentShard /\ it'.elements = it.elements
        /\ it'.elementsCount = it.elementsCount
    BY <2>1 DEF Steps, Leaves, Kept, Fields
  <2>4. (it'.pc = "at" /\ it.elementsCount > it.currentIndex + 1) \/ it'.pc \in {"next", "end"}
    BY <2>1 DEF Steps, Leaves
  <2>5. it'.i = it.i \/ (it'.i = it.currentShard + 1 /\ it.currentShard + 1 <= Shards)
    BY <2>1 DEF Steps, Leaves, Kept, Fields
  <2>6. it'.size = it.size \/ it'.size = copyLen(it.currentShard + 1)
    BY <2>1 DEF Steps, Leaves, Kept, Fields
  <2>7. it'.size \in Nat /\ it'.i \in 1 .. Shards /\ it'.currentIndex \in Nat
    BY <1>0, <2>1, <2>2, <2>5, <2>6
  <2>8. it'.pc = "at" => it'.currentIndex \in 0 .. it'.elementsCount - 1
    BY <2>1, <2>2, <2>3, <2>4
  <2>9. TypeOK'
    BY <2>1, <2>2, <2>3, <2>4, <2>7, <2>8 DEF TypeInv, TypeOK
  <2> QED BY <2>1, <2>4, <2>9 DEF TypeInv, Stored
<1>7. CASE Value
  <2>1. /\ it' = [it EXCEPT !.pc = "idle"] /\ it.pc = "at"
        /\ UNCHANGED <<hashmap, bytes, fixed, held>>
    BY <1>7 DEF Value
  <2>2. /\ DOMAIN it' = Fields /\ it'.pc = "idle" /\ it'.i = it.i /\ it'.size = it.size
        /\ it'.currentShard = it.currentShard /\ it'.currentIndex = it.currentIndex
        /\ it'.elementsCount = it.elementsCount /\ it'.elements = it.elements
    BY <2>1 DEF TypeInv, Fields
  <2>3. visits' \in [Key -> Nat]
    <3>1. visits' = visits \/ visits' = [visits EXCEPT ![Read] = @ + 1]
      BY <1>7 DEF Value
    <3> QED BY <3>1 DEF TypeInv, TypeOK
  <2>4. TypeOK'
    BY <2>1, <2>2, <2>3 DEF TypeInv, TypeOK
  <2>5. it.currentIndex \in -1 .. it.elementsCount - 1
    BY <2>1 DEF TypeInv, TypeOK
  <2> QED BY <2>1, <2>2, <2>4, <2>5 DEF TypeInv, Stored
<1> QED BY <1>1, <1>2, <1>3, <1>4, <1>5, <1>6, <1>7 DEF Next

(* The iterator's index stays within what it copied, and what it copied    *)
(* are indexes that were given out.                                        *)
THEOREM TypesHold == Spec => []TypeOK
<1>1. TypeInv => TypeOK
  BY DEF TypeInv
<1> QED BY <1>1, TypeInit, TypeNext, PTL DEF Spec

-----------------------------------------------------------------------------
(* The indexes copied. *)
LEMMA CopiedList ==
    ASSUME TypeInv, CopyInv, it.pc # "none", NEW i, NEW keys \in Orders(SlotsIn(i))
    PROVE  LET N == copyLen(i) IN
           /\ \A m \in 1 .. N : bytes[i][keys[m]] \in held
           /\ \A m, n \in 1 .. N : keys[m] = keys[n] => m = n
           /\ \A k \in fixed, m \in 1 .. N : bytes[i][keys[m]] = k => keys[m] = hashmap[k]
           /\ \A k \in fixed : ShardOf[k] = i => \E m \in 1 .. N : keys[m] = hashmap[k]
<1> DEFINE N == copyLen(i)
<1>1. /\ keys \in [1 .. N -> SlotsIn(i)]
      /\ \A m, n \in 1 .. N : keys[m] = keys[n] => m = n
      /\ \A s \in SlotsIn(i) : \E m \in 1 .. N : keys[m] = s
  BY OrdersList
<1> HIDE DEF N
<1>2. ASSUME NEW m \in 1 .. N
      PROVE  \E j \in Key : hashmap[j] # 0 /\ keys[m] = hashmap[j] /\ bytes[i][keys[m]] = j
  <2>1. PICK j \in KeysIn(i) : keys[m] = hashmap[j]
    BY <1>1 DEF SlotsIn
  <2> QED BY <2>1 DEF KeysIn, TypeInv, Stored
<1>3. \A m \in 1 .. N : bytes[i][keys[m]] \in held
  BY <1>2 DEF CopyInv
<1>4. \A k \in fixed, m \in 1 .. N : bytes[i][keys[m]] = k => keys[m] = hashmap[k]
  BY <1>2
<1>5. ASSUME NEW k \in fixed, ShardOf[k] = i PROVE \E m \in 1 .. N : keys[m] = hashmap[k]
  <2>1. k \in KeysIn(i)
    BY <1>5 DEF KeysIn, CopyInv, TypeInv, TypeOK
  <2> QED BY <1>1, <2>1 DEF SlotsIn
<1> QED BY <1>1, <1>3, <1>4, <1>5 DEF N

LEMMA CopyNext == TypeInv /\ CopyInv /\ [Next]_vars => CopyInv'
<1> SUFFICES ASSUME TypeInv, CopyInv, [Next]_vars PROVE CopyInv'
  OBVIOUS
<1>1. CASE UNCHANGED vars
  BY <1>1 DEF CopyInv, KeyAt, vars
<1>2. ASSUME NEW k \in Key, Set(k) PROVE CopyInv'
  <2>1. PICK s \in Slots : /\ \A j \in KeysIn(ShardOf[k]) \ {k} : hashmap[j] # s
                           /\ hashmap' = [hashmap EXCEPT ![k] = s]
                           /\ bytes' = [bytes EXCEPT ![ShardOf[k]][s] = k]
    BY <1>2, Zenon DEF Set
  <2>2. it' = it /\ fixed' = fixed \ {k} /\ held' = held \cup {k}
    BY <1>2 DEF Set
  <2>3. ASSUME NEW m \in 1 .. it.elementsCount
        PROVE  KeyAt(m)' = k \/ KeyAt(m)' = KeyAt(m)
    <3>1. /\ bytes \in [1 .. Shards -> [Slots -> Key \cup {NoKey}]]
          /\ it.currentShard \in 1 .. Shards /\ it.elements[m] \in Slots
      BY DEF TypeInv, TypeOK
    <3> QED BY <2>1, <2>2, <3>1 DEF KeyAt
  <2>4. \A j \in Key : j # k => hashmap'[j] = hashmap[j]
    BY <2>1 DEF TypeInv, TypeOK
  <2>5. fixed \subseteq Key
    BY DEF TypeInv, TypeOK
  <2>6. \A m \in 1 .. it.elementsCount : KeyAt(m)' \in held'
    BY <2>2, <2>3 DEF CopyInv
  <2>7. \A j \in fixed' : hashmap'[j] # 0
    BY <2>2, <2>4, <2>5 DEF CopyInv
  <2>8. it.pc # "none" => \A j \in Key : hashmap'[j] # 0 => j \in held'
    BY <2>2, <2>4 DEF CopyInv
  <2>9. \A j \in fixed', m \in 1 .. it.elementsCount :
           ShardOf[j] = it.currentShard /\ KeyAt(m)' = j => it.elements[m] = hashmap'[j]
    BY <2>2, <2>3, <2>4, <2>5 DEF CopyInv
  <2>10. it.pc \in {"at", "idle"} =>
            \A j \in fixed' : ShardOf[j] = it.currentShard =>
                \E m \in 1 .. it.elementsCount : it.elements[m] = hashmap'[j]
    BY <2>2, <2>4, <2>5 DEF CopyInv
  <2>11. \A m, n \in 1 .. it.elementsCount : it.elements[m] = it.elements[n] => m = n
    BY DEF CopyInv
  <2> QED BY <2>2, <2>6, <2>7, <2>8, <2>9, <2>10, <2>11 DEF CopyInv
<1>3. ASSUME NEW k \in Key, Remove(k) PROVE CopyInv'
  <2>1. /\ hashmap' = [hashmap EXCEPT ![k] = 0] /\ fixed' = fixed \ {k}
        /\ UNCHANGED <<bytes, it, held>>
    BY <1>3 DEF Remove
  <2>2. \A j \in Key : j # k => hashmap'[j] = hashmap[j]
    BY <2>1 DEF TypeInv, TypeOK
  <2>3. hashmap'[k] = 0 /\ fixed \subseteq Key
    BY <2>1 DEF TypeInv, TypeOK
  <2>4. \A j \in fixed' : j \in fixed /\ hashmap'[j] = hashmap[j]
    BY <2>1, <2>2, <2>3
  <2>5. \A j \in Key : hashmap'[j] # 0 => hashmap[j] # 0
    BY <2>2, <2>3
  <2>6. \A m : KeyAt(m)' = KeyAt(m)
    BY <2>1 DEF KeyAt
  <2> QED BY <2>1, <2>4, <2>5, <2>6 DEF CopyInv
<1>4. CASE newIterator
  <2>1. /\ it' = [it EXCEPT !.pc = "new", !.size = copyLen(1)] /\ it.pc = "none"
        /\ fixed' = {k \in Key : hashmap[k] # 0} /\ held' = {k \in Key : hashmap[k] # 0}
        /\ hashmap' = hashmap
    BY <1>4 DEF newIterator
  <2>2. it'.pc = "new" /\ it'.elementsCount = 0
    BY <2>1 DEF TypeInv, Fields
  <2> QED BY <2>1, <2>2 DEF CopyInv
<1>5. CASE copyKeys
  <2>1. UNCHANGED <<hashmap, bytes, visits, fixed, held>> /\ it.pc # "none"
    BY <1>5, CopyCases DEF TypeInv, copyKeys, Calling
  <2>2. PICK keys \in Orders(SlotsIn(it.i)) :
                 CopyPanics \/ CopyStarts(keys) \/ CopyFinds(keys) \/ CopyFindsNone(keys)
    BY <1>5, CopyCases DEF TypeInv
  <2> DEFINE N == copyLen(it.i)
  <2>3. /\ \A m \in 1 .. N : bytes[it.i][keys[m]] \in held
        /\ \A m, n \in 1 .. N : keys[m] = keys[n] => m = n
        /\ \A k \in fixed, m \in 1 .. N : bytes[it.i][keys[m]] = k => keys[m] = hashmap[k]
        /\ \A k \in fixed : ShardOf[k] = it.i => \E m \in 1 .. N : keys[m] = hashmap[k]
    BY <2>1, CopiedList
  <2>4. (\A k \in fixed : hashmap[k] # 0) /\ (\A k \in Key : hashmap[k] # 0 => k \in held)
    BY <2>1 DEF CopyInv
  <2> HIDE DEF N
  <2>5. CASE CopyPanics
    <3>1. /\ it'.pc = "panic" /\ it'.currentShard = it.currentShard
          /\ it'.elementsCount = it.elementsCount /\ it'.elements = it.elements
      BY <2>5 DEF CopyPanics, Kept, Fields
    <3>2. \A m : KeyAt(m)' = KeyAt(m)
      BY <2>1, <3>1 DEF KeyAt
    <3> QED BY <2>1, <2>4, <3>1, <3>2 DEF CopyInv
  <2>6. ASSUME it'.currentShard = it.i, it'.elementsCount = N, it'.elements = keys
        PROVE  CopyInv'
    <3>1. \A m : KeyAt(m)' = bytes[it.i][keys[m]]
      BY <2>1, <2>6 DEF KeyAt
    <3>2. hashmap' = hashmap /\ fixed' = fixed /\ held' = held
      BY <2>1
    <3>3. /\ \A m \in 1 .. N : KeyAt(m)' \in held
          /\ \A k \in fixed, m \in 1 .. N : KeyAt(m)' = k => keys[m] = hashmap[k]
      BY <2>3, <3>1
    <3>4. \A m \in 1 .. it'.elementsCount : KeyAt(m)' \in held'
      BY <2>6, <3>2, <3>3
    <3>5. \A m, n \in 1 .. it'.elementsCount : it'.elements[m] = it'.elements[n] => m = n
      BY <2>3, <2>6
    <3>6. /\ \A k \in fixed' : hashmap'[k] # 0
          /\ \A k \in Key : hashmap'[k] # 0 => k \in held'
      BY <2>4, <3>2
    <3>7. \A k \in fixed', m \in 1 .. it'.elementsCount : KeyAt(m)' = k => it'.elements[m] = hashmap'[k]
      BY <2>6, <3>2, <3>3
    <3>8. \A k \in fixed' : ShardOf[k] = it'.currentShard =>
              \E m \in 1 .. it'.elementsCount : it'.elements[m] = hashmap'[k]
      BY <2>3, <2>6, <3>2
    <3> QED BY <3>4, <3>5, <3>6, <3>7, <3>8 DEF CopyInv
  <2>7. CASE CopyStarts(keys)
    <3>1. it'.currentShard = it.currentShard /\ it'.elements = keys /\ it'.elementsCount = copyLen(1)
      BY <2>7 DEF CopyStarts, Kept, Fields
    <3>2. it.currentShard = 1 /\ it.i = 1
      BY <2>7 DEF CopyStarts, TypeInv
    <3> QED BY <2>6, <3>1, <3>2 DEF N
  <2>8. CASE CopyFinds(keys)
    BY <2>6, <2>8 DEF CopyFinds, N
  <2>9. CASE CopyFindsNone(keys)
    <3>1. it'.elementsCount = 0 /\ it'.pc \notin {"at", "idle"}
      BY <2>9 DEF CopyFindsNone, Kept, Fields
    <3> QED BY <2>1, <2>4, <3>1 DEF CopyInv
  <2> QED BY <2>2, <2>5, <2>7, <2>8, <2>9
<1>6. CASE SetNext
  <2>1. /\ it.pc = "idle" /\ UNCHANGED <<hashmap, bytes, visits, fixed, held>>
        /\ Steps(it.currentIndex + 1) \/ Leaves(it.currentIndex + 1)
    BY <1>6, SetNextCases DEF TypeInv
  <2>2. /\ it'.currentShard = it.currentShard /\ it'.elements = it.elements
        /\ it'.elementsCount = it.elementsCount
    BY <2>1 DEF Steps, Leaves, Kept, Fields
  <2>3. \A m : KeyAt(m)' = KeyAt(m)
    BY <2>1, <2>2 DEF KeyAt
  <2>4. it.pc = "idle" /\ hashmap' = hashmap /\ fixed' = fixed /\ held' = held
    BY <2>1
  <2> QED BY <2>2, <2>3, <2>4 DEF CopyInv
<1>7. CASE Value
  <2>1. /\ it' = [it EXCEPT !.pc = "idle"] /\ it.pc = "at"
        /\ UNCHANGED <<hashmap, bytes, fixed, held>>
    BY <1>7 DEF Value
  <2>2. /\ it'.currentShard = it.currentShard /\ it'.elements = it.elements
        /\ it'.elementsCount = it.elementsCount
    BY <2>1 DEF TypeInv, Fields
  <2>3. \A m : KeyAt(m)' = KeyAt(m)
    BY <2>1, <2>2 DEF KeyAt
  <2> QED BY <2>1, <2>2, <2>3 DEF CopyInv
<1> QED BY <1>1, <1>2, <1>3, <1>4, <1>5, <1>6, <1>7 DEF Next

-----------------------------------------------------------------------------
(* The entries returned. *)
LEMMA ValueVisits ==
    ASSUME TypeInv, CopyInv, VisitInv, Value
    PROVE  /\ \A k \in Key : visits'[k] > 0 => k \in held
           /\ \A k \in fixed : visits'[k] = IF UpTo(k, it.currentIndex + 1) THEN 1 ELSE 0
<1> DEFINE c == it.currentShard
           x == it.currentIndex + 1
<1>1. it.pc = "at"
  BY DEF Value
<1>2. /\ c \in 1 .. Shards /\ Shards \in Nat /\ it.elementsCount \in Nat
      /\ it.currentIndex \in Nat /\ x \in 1 .. it.elementsCount
      /\ it.elements[x] \in Slots /\ visits \in [Key -> Nat] /\ fixed \subseteq Key
  <2>1. /\ c \in 1 .. Shards /\ it.elementsCount \in Nat
        /\ it.currentIndex \in 0 .. it.elementsCount - 1
        /\ it.elements \in [1 .. it.elementsCount -> Slots]
        /\ visits \in [Key -> Nat] /\ fixed \subseteq Key
    BY <1>1 DEF TypeInv, TypeOK
  <2>2. x \in 1 .. it.elementsCount /\ it.currentIndex \in Nat
    BY <2>1
  <2>3. it.elements[x] \in Slots
    BY <2>1, <2>2
  <2> QED BY <2>1, <2>2, <2>3, IteratorAssumption
<1>3. \A k \in fixed : visits[k] = IF UpTo(k, it.currentIndex) THEN 1 ELSE 0
  BY <1>1 DEF VisitInv, Past
<1>4. \A k \in Key : ShardOf[k] \in 1 .. Shards
  BY IteratorAssumption
<1>5. CASE KeysIn(c) = {}
  <2>1. visits' = visits
    BY <1>5 DEF Value
  <2>2. \A k \in fixed : ShardOf[k] # c
    BY <1>2, <1>5 DEF KeysIn, CopyInv
  <2>3. \A k \in fixed : UpTo(k, x) <=> UpTo(k, it.currentIndex)
    BY <2>2 DEF UpTo
  <2> QED BY <1>3, <2>1, <2>3 DEF VisitInv
<1>6. CASE KeysIn(c) # {}
  <2>1. visits' = [visits EXCEPT ![Read] = @ + 1] /\ Read = KeyAt(x)
    BY <1>6, Zenon DEF Value, Read, KeyAt
  <2>2. Read \in held /\ Read \in Key
    BY <1>2, <2>1 DEF CopyInv, TypeInv, TypeOK
  <2>3. ASSUME NEW k \in Key, visits'[k] > 0 PROVE k \in held
    BY <1>2, <2>1, <2>2, <2>3 DEF VisitInv
  <2>4. ASSUME NEW k \in fixed PROVE visits'[k] = IF UpTo(k, x) THEN 1 ELSE 0
    <3>1. visits'[k] = IF k = Read THEN visits[k] + 1 ELSE visits[k]
      BY <1>2, <2>1, <2>2
    <3>2. k = Read <=> ShardOf[k] = c /\ it.elements[x] = hashmap[k]
      <4>1. ASSUME k = Read PROVE ShardOf[k] = c
        <5>1. bytes[c][it.elements[x]] = k /\ k # NoKey
          BY <2>1, <2>2, <4>1, IteratorAssumption DEF KeyAt
        <5>2. bytes[c][it.elements[x]] # NoKey => ShardOf[bytes[c][it.elements[x]]] = c
          BY <1>2 DEF VisitInv, Home
        <5>3. ShardOf[bytes[c][it.elements[x]]] = c
          BY <5>1, <5>2
        <5> QED BY <5>1, <5>3
      <4>2. ASSUME k = Read PROVE it.elements[x] = hashmap[k]
        BY <1>2, <2>1, <4>1, <4>2 DEF CopyInv
      <4>3. ASSUME ShardOf[k] = c, it.elements[x] = hashmap[k] PROVE k = Read
        <5>1. bytes[ShardOf[k]][hashmap[k]] = k
          BY <1>2 DEF CopyInv, TypeInv, Stored
        <5> QED BY <2>1, <4>3, <5>1 DEF KeyAt
      <4> QED BY <4>1, <4>2, <4>3
    <3>3. UpTo(k, x) <=> UpTo(k, it.currentIndex) \/ k = Read
      <4>1. \A m : m \in 1 .. x <=> m \in 1 .. it.currentIndex \/ m = x
        BY <1>2
      <4> HIDE DEF x
      <4> QED BY <3>2, <4>1 DEF UpTo
    <3>4. k = Read => ~UpTo(k, it.currentIndex)
      <4>1. ASSUME NEW m \in 1 .. it.currentIndex PROVE it.elements[m] # it.elements[x]
        BY <1>2 DEF CopyInv
      <4>2. ShardOf[k] = c => ~(ShardOf[k] < c)
        BY <1>2
      <4> HIDE DEF x
      <4> QED BY <3>2, <4>1, <4>2 DEF UpTo
    <3> QED BY <1>3, <3>1, <3>3, <3>4
  <2> QED BY <2>3, <2>4
<1> QED BY <1>5, <1>6

LEMMA VisitNext == TypeInv /\ CopyInv /\ VisitInv /\ [Next]_vars => VisitInv'
<1> SUFFICES ASSUME TypeInv, CopyInv, VisitInv, [Next]_vars PROVE VisitInv'
  OBVIOUS
<1>0. /\ fixed \subseteq Key /\ visits \in [Key -> Nat] /\ Shards \in Nat
      /\ \A k \in Key : ShardOf[k] \in 1 .. Shards
  BY IteratorAssumption DEF TypeInv, TypeOK
<1>1. CASE UNCHANGED vars
  BY <1>1 DEF VisitInv, Home, Past, UpTo, vars
<1>2. ASSUME NEW k \in Key, Set(k) \/ Remove(k) PROVE VisitInv'
  <2>1. it' = it /\ visits' = visits /\ fixed' = fixed \ {k} /\ held \subseteq held'
    BY <1>2 DEF Set, Remove
  <2>2. \A j \in Key : j # k => hashmap'[j] = hashmap[j]
    BY <1>2, Zenon DEF Set, Remove, TypeInv, TypeOK
  <2>3. \A j \in fixed' : Past(j)' <=> Past(j)
    BY <1>0, <2>1, <2>2 DEF Past, UpTo
  <2>4. Home'
    <3>1. CASE bytes' = bytes
      BY <3>1 DEF VisitInv, Home
    <3>2. ASSUME NEW s \in Slots, bytes' = [bytes EXCEPT ![ShardOf[k]][s] = k] PROVE Home'
      BY <1>0, <3>2 DEF VisitInv, Home, TypeInv, TypeOK
    <3> QED BY <1>2, <3>1, <3>2, Zenon DEF Set, Remove
  <2> QED BY <2>1, <2>3, <2>4 DEF VisitInv
<1>3. CASE newIterator
  <2>1. /\ it' = [it EXCEPT !.pc = "new", !.size = copyLen(1)] /\ it.pc = "none"
        /\ UNCHANGED <<hashmap, bytes, visits>> /\ fixed' \subseteq Key
    BY <1>3 DEF newIterator
  <2>2. it'.pc = "new" /\ \A k \in Key : visits[k] = 0
    BY <2>1 DEF TypeInv, Fields, VisitInv
  <2> QED BY <2>1, <2>2 DEF VisitInv, Home, Past
<1>4. ASSUME UNCHANGED <<hashmap, bytes, visits, fixed, held>>, it'.pc \notin {"none", "new"},
             it'.pc # "panic" => \A k \in fixed : Past(k)' <=> Past(k),
             it.pc # "panic"
      PROVE  VisitInv'
  BY <1>4 DEF VisitInv, Home
<1>5. CASE copyKeys
  <2>1. UNCHANGED <<hashmap, bytes, visits, fixed, held>> /\ it.pc \in {"new", "next"}
    BY <1>5 DEF copyKeys, Calling
  <2>2. PICK keys \in Orders(SlotsIn(it.i)) :
                 CopyPanics \/ CopyStarts(keys) \/ CopyFinds(keys) \/ CopyFindsNone(keys)
    BY <1>5, CopyCases DEF TypeInv
  <2>3. CASE CopyPanics
    BY <1>4, <2>1, <2>3 DEF CopyPanics
  <2>4. CASE CopyStarts(keys)
    <3>1. /\ it.pc = "new" /\ it'.pc = "idle" /\ it'.currentShard = 1 /\ it'.currentIndex = -1
      BY <2>4 DEF CopyStarts, Kept, Fields, TypeInv
    <3>2. \A k \in fixed : ~(ShardOf[k] < 1)
      BY <1>0
    <3>3. \A k \in fixed : ~Past(k)' /\ ~Past(k)
      BY <2>1, <3>1, <3>2 DEF Past, UpTo
    <3> QED BY <1>4, <2>1, <3>1, <3>3
  <2>5. CASE CopyFinds(keys)
    <3>1. it.pc = "next" /\ it'.pc = "at" /\ it'.currentShard = it.i /\ it'.currentIndex = 0
      BY <2>5 DEF CopyFinds
    <3>2. \A k \in fixed : Past(k)' <=> Past(k)
      BY <2>1, <3>1 DEF Past, UpTo
    <3> QED BY <1>4, <2>1, <3>1, <3>2
  <2>6. CASE CopyFindsNone(keys)
    <3>1. KeysIn(it.i) = {}
      <4>1. Cardinality(KeysIn(it.i)) = 0
        BY <2>6, KeysInFinite DEF CopyFindsNone, copyLen
      <4> QED BY <4>1, KeysInFinite, FS_EmptySet
    <3>2. \A k \in fixed : ShardOf[k] # it.i
      BY <1>0, <3>1 DEF KeysIn, CopyInv
    <3>3. it.i \in 1 .. Shards
      BY DEF TypeInv, TypeOK
    <3>4. it.pc = "next"
      BY <2>6 DEF CopyFindsNone
    <3>5. \/ it.i < Shards /\ it'.pc = "next" /\ it'.i = it.i + 1
          \/ ~(it.i < Shards) /\ it'.pc = "end"
      BY <2>6 DEF CopyFindsNone, Kept, Fields
    <3>6. ASSUME NEW k \in fixed PROVE Past(k)' <=> Past(k)
      <4>1. ShardOf[k] \in 1 .. Shards /\ ShardOf[k] # it.i
        BY <1>0, <3>2
      <4>2. CASE it'.pc = "next" /\ it'.i = it.i + 1
        BY <1>0, <3>3, <3>4, <4>1, <4>2 DEF Past
      <4>3. CASE ~(it.i < Shards) /\ it'.pc = "end"
        BY <1>0, <3>3, <3>4, <4>1, <4>3 DEF Past
      <4> QED BY <3>5, <4>2, <4>3
    <3> QED BY <1>4, <2>1, <3>5, <3>6
  <2> QED BY <2>2, <2>3, <2>4, <2>5, <2>6
<1>6. CASE SetNext
  <2>1. /\ it.pc = "idle" /\ UNCHANGED <<hashmap, bytes, visits, fixed, held>>
        /\ it'.currentIndex = it.currentIndex + 1
        /\ Steps(it.currentIndex + 1) \/ Leaves(it.currentIndex + 1)
    BY <1>6, SetNextCases DEF TypeInv
  <2>2. /\ it'.currentShard = it.currentShard /\ it'.elements = it.elements
        /\ it'.elementsCount = it.elementsCount
    BY <2>1 DEF Steps, Leaves, Kept, Fields
  <2>3. CASE Steps(it.currentIndex + 1)
    <3>1. it'.pc = "at"
      BY <2>3 DEF Steps
    <3>2. \A k \in fixed : Past(k)' <=> Past(k)
      BY <2>1, <2>2, <3>1 DEF Past, UpTo
    <3> QED BY <1>4, <2>1, <3>1, <3>2
  <2>4. CASE Leaves(it.currentIndex + 1)
    <3>1. /\ it.currentShard \in 1 .. Shards /\ it.elementsCount \in Nat
          /\ it.currentIndex \in -1 .. it.elementsCount - 1
      BY <2>1 DEF TypeInv, TypeOK
    <3>2. it.currentIndex + 1 = it.elementsCount
      BY <2>4, <3>1 DEF Leaves
    <3>3. \A k \in fixed : Past(k) <=> ShardOf[k] < it.currentShard \/ ShardOf[k] = it.currentShard
      BY <2>1, <3>2 DEF Past, UpTo, CopyInv
    <3>4. \/ it'.pc = "next" /\ it'.i = it.currentShard + 1
          \/ ~(it.currentShard + 1 <= Shards) /\ it'.pc = "end"
      BY <2>4 DEF Leaves
    <3>5. ASSUME NEW k \in fixed PROVE Past(k)' <=> Past(k)
      <4>1. ShardOf[k] \in 1 .. Shards
        BY <1>0
      <4>2. CASE it'.pc = "next" /\ it'.i = it.currentShard + 1
        <5>1. Past(k)' <=> ShardOf[k] < it.currentShard + 1
          BY <4>2 DEF Past
        <5> QED BY <3>1, <3>3, <4>1, <5>1
      <4>3. CASE ~(it.currentShard + 1 <= Shards) /\ it'.pc = "end"
        <5>1. Past(k)'
          BY <4>3 DEF Past
        <5> QED BY <1>0, <3>1, <3>3, <4>1, <4>3, <5>1
      <4> QED BY <3>4, <4>2, <4>3
    <3> QED BY <1>4, <2>1, <3>4, <3>5
  <2> QED BY <2>1, <2>3, <2>4
<1>7. CASE Value
  <2>1. /\ it' = [it EXCEPT !.pc = "idle"] /\ it.pc = "at"
        /\ UNCHANGED <<hashmap, bytes, fixed, held>>
    BY <1>7 DEF Value
  <2>2. /\ it'.pc = "idle" /\ it'.currentShard = it.currentShard
        /\ it'.elements = it.elements /\ it'.currentIndex = it.currentIndex
    BY <2>1 DEF TypeInv, Fields
  <2>3. \A k \in fixed : Past(k)' <=> UpTo(k, it.currentIndex + 1)
    BY <2>1, <2>2 DEF Past, UpTo
  <2>4. Home'
    BY <2>1 DEF VisitInv, Home
  <2> QED BY <1>7, <2>1, <2>2, <2>3, <2>4, ValueVisits DEF VisitInv
<1> QED BY <1>1, <1>2, <1>3, <1>5, <1>6, <1>7 DEF Next

LEMMA IInvHolds == Spec => []IInv
<1>1. Init => IInv
  <2>1. ASSUME Init PROVE CopyInv /\ VisitInv
    <3>1. it.pc = "none" /\ it.elementsCount = 0 /\ fixed = {}
      BY <2>1 DEF Init, NoIterator
    <3>2. \A k \in Key : visits[k] = 0
      BY <2>1 DEF Init
    <3>3. CopyInv
      BY <3>1 DEF CopyInv
    <3>4. Home
      BY <2>1 DEF Init, Home
    <3> QED BY <3>1, <3>2, <3>3, <3>4 DEF VisitInv
  <2> QED BY <2>1, TypeInit DEF IInv
<1>2. IInv /\ [Next]_vars => IInv'
  BY TypeNext, CopyNext, VisitNext DEF IInv
<1> QED BY <1>1, <1>2, PTL DEF Spec

(* A full iteration returns every entry that is left alone once: what      *)
(* copyKeys took is each such entry's index, and Value's reading of a      *)
(* block used again never counts for another.                              *)
THEOREM VisitsOnceHolds == Spec => []VisitsOnce
<1>1. IInv => VisitsOnce
  BY DEF IInv, VisitInv, VisitsOnce, Past
<1> QED BY <1>1, IInvHolds, PTL

(* Value returns nothing that was not in the cache since the iterator was  *)
(* made, whatever set and eviction do to the blocks it reads unlocked.     *)
THEOREM ValueWasHeldHolds == Spec => []ValueWasHeld
<1>1. IInv => ValueWasHeld
  BY DEF IInv, VisitInv, ValueWasHeld
<1> QED BY <1>1, IInvHolds, PTL

-----------------------------------------------------------------------------
(* The shard that is being copied has not grown since its length was read. *)
Fits == it.pc \in {"new", "next"} => copyLen(it.i) <= it.size

FitsInv == TypeInv /\ it.pc # "panic" /\ Fits

LEMMA FitsNext == OneCaller /\ FitsInv /\ [Next]_vars => FitsInv'
<1> SUFFICES ASSUME OneCaller, FitsInv, [Next]_vars PROVE it'.pc # "panic" /\ Fits'
  BY TypeNext DEF FitsInv
<1> USE DEF FitsInv
<1>0. (\A j : copyLen(j) \in Nat) /\ it.size \in Nat
  BY KeysInFinite DEF TypeInv, TypeOK
<1>1. CASE UNCHANGED vars
  BY <1>1 DEF Fits, copyLen, KeysIn, vars
<1>2. ASSUME NEW k \in Key, Set(k) PROVE it'.pc # "panic" /\ Fits'
  BY <1>2 DEF Set, Fits, Calling
<1>3. ASSUME NEW k \in Key, Remove(k) PROVE it'.pc # "panic" /\ Fits'
  <2>1. UNCHANGED it
    BY <1>3 DEF Remove
  <2>2. KeysIn(it.i)' \subseteq KeysIn(it.i)
    BY <1>3 DEF Remove, TypeInv, TypeOK, KeysIn
  <2>3. /\ Cardinality(KeysIn(it.i)') <= Cardinality(KeysIn(it.i))
        /\ Cardinality(KeysIn(it.i)') \in Nat
    BY <2>2, KeysInFinite, FS_Subset, FS_CardinalityType
  <2> QED BY <1>0, <2>1, <2>3 DEF Fits, copyLen
<1>4. ASSUME UNCHANGED hashmap, it'.pc # "panic",
             it'.pc \in {"new", "next"} => it'.size = copyLen(it'.i)
      PROVE  it'.pc # "panic" /\ Fits'
  <2>1. KeysIn(it.i)' = KeysIn(it'.i)
    BY <1>4 DEF KeysIn
  <2>2. copyLen(it.i)' = copyLen(it'.i)
    BY <2>1 DEF copyLen
  <2>3. copyLen(it'.i) \in Nat
    BY <1>0
  <2> HIDE DEF copyLen, KeysIn
  <2> QED BY <1>4, <2>2, <2>3 DEF Fits
<1>5. CASE newIterator
  <2>1. /\ it' = [it EXCEPT !.pc = "new", !.size = copyLen(1)] /\ it.pc = "none"
        /\ UNCHANGED hashmap
    BY <1>5 DEF newIterator
  <2>2. it'.pc = "new" /\ it'.size = copyLen(1) /\ it'.i = 1
    BY <2>1 DEF TypeInv, Fields
  <2> QED BY <1>4, <2>1, <2>2
<1>6. CASE copyKeys
  <2>1. UNCHANGED hashmap /\ it.pc \in {"new", "next"}
    BY <1>6 DEF copyKeys, Calling
  <2>2. PICK keys \in Orders(SlotsIn(it.i)) :
                 CopyPanics \/ CopyStarts(keys) \/ CopyFinds(keys) \/ CopyFindsNone(keys)
    BY <1>6, CopyCases DEF TypeInv
  <2>3. ~CopyPanics
    BY <1>0, <2>1 DEF CopyPanics, Fits
  <2>4. CASE CopyStarts(keys) \/ CopyFinds(keys)
    BY <1>4, <2>1, <2>4 DEF CopyStarts, CopyFinds
  <2>5. CASE CopyFindsNone(keys)
    <3>1. \/ it'.pc = "next" /\ it'.i = it.i + 1 /\ it'.size = copyLen(it.i + 1)
          \/ it'.pc = "end"
      BY <2>5 DEF CopyFindsNone, Kept, Fields
    <3> QED BY <1>4, <2>1, <3>1
  <2> QED BY <2>2, <2>3, <2>4, <2>5
<1>7. CASE SetNext
  <2>1. /\ UNCHANGED hashmap
        /\ Steps(it.currentIndex + 1) \/ Leaves(it.currentIndex + 1)
    BY <1>7, SetNextCases DEF TypeInv
  <2>2. \/ it'.pc = "next" /\ it'.size = copyLen(it'.i)
        \/ it'.pc \in {"at", "end"}
    BY <2>1 DEF Steps, Leaves
  <2> QED BY <1>4, <2>1, <2>2
<1>8. CASE Value
  BY <1>4, <1>8 DEF Value, TypeInv, Fields
<1> QED BY <1>1, <1>2, <1>3, <1>5, <1>6, <1>7, <1>8 DEF Next

(* copyKeys takes the length before the lock; with evictions at any time   *)
(* in between, but no set, it never writes past the slice it made.         *)
THEOREM CopyFitsHolds == OneCaller /\ Spec => []CopyFits
<1> SUFFICES ASSUME OneCaller PROVE Spec => []CopyFits
  OBVIOUS
<1>1. FitsInv => CopyFits
  BY DEF FitsInv, CopyFits
<1>2. FitsInv /\ [Next]_vars => FitsInv'
  BY FitsNext
<1>3. Init => FitsInv
  BY TypeInit DEF FitsInv, Fits, Init, NoIterator
<1> QED BY <1>1, <1>2, <1>3, PTL DEF Spec
=============================================================================
