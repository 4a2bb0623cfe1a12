-------------------------- MODULE BytesQueueProofs --------------------------
(***************************************************************************)
(* The byte queue as the shard drives it (Spec: Push and Delete) is        *)
(* correct for every set of entry lengths, every initial capacity and      *)
(* every limit.  It rests on what the operations of the free list          *)
(* preserve, for every free list.  So is the ring that Push and Pop make   *)
(* of it (FifoSpec).                                                       *)
(***************************************************************************)
EXTENDS BytesQueueFifo, FiniteSetTheorems, TLAPS

(* Most leaves are first-order and left to Zenon; those that are not say SMT. *)
USE Zenon

-----------------------------------------------------------------------------
(* The free list. *)

(* The free list is sound below position bound: the tree and the lists     *)
(* agree, its items are apart and lie below bound, and neighbours have     *)
(* been merged.                                                            *)
Sound(fl, bound) ==
    /\ fl \in FreeListType
    /\ \A b \in Classes : \A v \in fl.sizeList[b] :
          v \in fl.indexTree /\ InClass(v.actualSize, b)
    /\ \A v \in fl.indexTree :
          v.actualSize = 4096 \/ \E b \in Classes : v \in fl.sizeList[b]
    /\ \A v, w \in fl.indexTree : v # w => Apart(v, w)
    /\ \A v, w \in fl.indexTree : End(v) # w.parentIndex
    /\ \A v \in fl.indexTree : End(v) <= bound

(* Every item of the free list is apart from block x. *)
Clear(fl, x) == \A v \in fl.indexTree : Apart(x, v)

(* A size is in one class only, and in none only if it is 4096. *)
LEMMA ClassUnique ==
    ASSUME NEW n \in Nat \ {0}, NEW b \in Classes, NEW c \in Classes,
           InClass(n, b), InClass(n, c)
    PROVE  b = c
BY SMT DEF Classes, InClass, Limit

LEMMA ClassExists ==
    ASSUME NEW n \in Nat \ {0}, n # 4096
    PROVE  \E b \in Classes : InClass(n, b)
<1>1. CASE n < 64   BY <1>1, SMT DEF Classes, InClass, Limit
<1>2. CASE n >= 64 /\ n < 128   BY <1>2, SMT DEF Classes, InClass, Limit
<1>3. CASE n >= 128 /\ n < 256   BY <1>3, SMT DEF Classes, InClass, Limit
<1>4. CASE n >= 256 /\ n < 512   BY <1>4, SMT DEF Classes, InClass, Limit
<1>5. CASE n >= 512 /\ n < 1024   BY <1>5, SMT DEF Classes, InClass, Limit
<1>6. CASE n >= 1024 /\ n < 2048   BY <1>6, SMT DEF Classes, InClass, Limit
<1>7. CASE n >= 2048 /\ n < 4096   BY <1>7, SMT DEF Classes, InClass, Limit
<1>8. CASE n > 4096   BY <1>8, SMT DEF Classes, InClass
<1> QED BY <1>1, <1>2, <1>3, <1>4, <1>5, <1>6, <1>7, <1>8, SMT
(* Apart is about positions: it is symmetric, no block is apart from       *)
(* itself, and being apart from two adjoining blocks is being apart from   *)
(* the block they form.                                                    *)
LEMMA ApartFacts ==
    ASSUME NEW v \in ItemType, NEW w \in ItemType
    PROVE  /\ Apart(v, w) <=> Apart(w, v)
           /\ ~Apart(v, v)
           /\ End(v) \in Nat /\ End(v) > v.parentIndex
BY SMT DEF Apart, End, ItemType

LEMMA ItemTyped ==
    ASSUME NEW i \in Nat \ {0}, NEW n \in Nat \ {0}
    PROVE  /\ Item(i, n) \in ItemType
           /\ End(Item(i, n)) = i + n
           /\ Item(i, n).parentIndex = i
           /\ Item(i, n).actualSize = n
BY DEF Item, ItemType, End

LEMMA Adjoining ==
    ASSUME NEW v \in ItemType, NEW w \in ItemType, End(v) = w.parentIndex,
           NEW x \in ItemType, Apart(x, v), Apart(x, w)
    PROVE  Apart(x, Item(v.parentIndex, v.actualSize + w.actualSize))
BY SMT DEF Apart, End, Item, ItemType

(* removeFromSizeList and the tree removals keep the list sound; what goes *)
(* is exactly the item.                                                    *)
LEMMA UntrackSound ==
    ASSUME NEW fl, NEW bound \in Nat, Sound(fl, bound), NEW v \in fl.indexTree
    PROVE  /\ Sound(Untrack(fl, v), bound)
           /\ Untrack(fl, v).indexTree = fl.indexTree \ {v}
<1> DEFINE g == Untrack(fl, v)
<1>1. g.indexTree = fl.indexTree \ {v} /\ g.sizeList = removeFromSizeList(fl.sizeList, v)
  BY DEF Untrack
<1>2. v \in ItemType /\ fl.indexTree \subseteq ItemType
  BY DEF Sound, FreeListType
<1>3. g \in FreeListType
  BY DEF Sound, FreeListType, Untrack, removeFromSizeList
<1>4. ASSUME NEW b \in Classes, NEW w \in g.sizeList[b]
      PROVE  w \in fl.sizeList[b] /\ w # v
  <2>1. w \in fl.sizeList[b]
    BY <1>1, <1>4 DEF removeFromSizeList
  <2>2. w \in fl.indexTree /\ InClass(w.actualSize, b)
    BY <2>1 DEF Sound
  <2>3. CASE InClass(v.actualSize, b)
    BY <1>1, <1>4, <2>1, <2>3 DEF removeFromSizeList
  <2>4. CASE ~InClass(v.actualSize, b)
    BY <2>1, <2>2, <2>4
  <2> QED BY <2>3, <2>4
<1>5. ASSUME NEW b \in Classes, NEW w \in fl.sizeList[b], w # v
      PROVE  w \in g.sizeList[b]
  BY <1>1, <1>5 DEF removeFromSizeList
<1>6. \A b \in Classes : \A w \in g.sizeList[b] :
          w \in g.indexTree /\ InClass(w.actualSize, b)
  BY <1>1, <1>4 DEF Sound
<1>7. \A w \in g.indexTree :
          w.actualSize = 4096 \/ \E b \in Classes : w \in g.sizeList[b]
  BY <1>1, <1>5, SMT DEF Sound
<1> HIDE DEF g
<1> QED BY <1>1, <1>3, <1>6, <1>7 DEF Sound, g

(* Storing an item that is apart from the others, and no neighbour of one. *)
LEMMA TrackSound ==
    ASSUME NEW fl, NEW bound \in Nat, Sound(fl, bound),
           NEW item \in ItemType, End(item) <= bound, Clear(fl, item),
           \A v \in fl.indexTree :
               End(v) # item.parentIndex /\ End(item) # v.parentIndex
    PROVE  /\ Sound(Track(fl, item), bound)
           /\ Track(fl, item).indexTree = fl.indexTree \cup {item}
<1> DEFINE g == Track(fl, item)
<1>1. g.indexTree = fl.indexTree \cup {item} /\ g.sizeList = putIntoSizeList(fl.sizeList, item)
  BY DEF Track
<1>2. fl.indexTree \subseteq ItemType
  BY DEF Sound, FreeListType
<1>3. g \in FreeListType
  BY DEF Sound, FreeListType, Track, putIntoSizeList
<1>4. \A b \in Classes : \A w \in g.sizeList[b] :
          w \in g.indexTree /\ InClass(w.actualSize, b)
  BY <1>1, SMT DEF Sound, putIntoSizeList
<1>5. \A w \in g.indexTree :
          w.actualSize = 4096 \/ \E b \in Classes : w \in g.sizeList[b]
  <2>1. item.actualSize = 4096 \/ \E b \in Classes : InClass(item.actualSize, b)
    BY ClassExists, SMT DEF ItemType
  <2>2. item.actualSize = 4096 \/ \E b \in Classes : item \in g.sizeList[b]
    BY <1>1, <2>1, SMT DEF putIntoSizeList
  <2>3. \A b \in Classes : fl.sizeList[b] \subseteq g.sizeList[b]
    BY <1>1 DEF putIntoSizeList
  <2> QED BY <1>1, <2>2, <2>3, SMT DEF Sound
<1>6. \A v, w \in g.indexTree : v # w => Apart(v, w)
  BY <1>1, <1>2, ApartFacts, SMT DEF Sound, Clear
<1>7. \A v, w \in g.indexTree : End(v) # w.parentIndex
  BY <1>1, <1>2, ApartFacts, SMT DEF Sound
<1>8. \A v \in g.indexTree : End(v) <= bound
  BY <1>1 DEF Sound
<1> HIDE DEF g
<1> QED BY <1>1, <1>3, <1>4, <1>5, <1>6, <1>7, <1>8 DEF Sound, g

(* What a sound list says of its items alone. *)
LEMMA SoundItems ==
    ASSUME NEW fl, NEW bound, Sound(fl, bound)
    PROVE  /\ fl.indexTree \subseteq ItemType
           /\ \A v, w \in fl.indexTree : v # w => Apart(v, w)
           /\ \A v, w \in fl.indexTree : End(v) # w.parentIndex
           /\ \A v \in fl.indexTree : End(v) <= bound
BY DEF Sound, FreeListType

(* The item the tree finds one position to the left of a block that is     *)
(* clear of the list ends where the block begins; the item it finds        *)
(* behind the block begins where the block ends.                           *)
LEMMA LookupNeighbour ==
    ASSUME NEW fl, NEW bound \in Nat, Sound(fl, bound),
           NEW i \in Nat \ {0}, NEW n \in Nat \ {0}, Clear(fl, Item(i, n))
    PROVE  /\ \A v \in Lookup(fl, i - 1) : v \in fl.indexTree /\ End(v) = i
           /\ \A v \in Lookup(fl, i + n) : v \in fl.indexTree /\ v.parentIndex = i + n
           /\ \A v \in fl.indexTree : End(v) = i => v \in Lookup(fl, i - 1)
           /\ \A v \in fl.indexTree : v.parentIndex = i + n => v \in Lookup(fl, i + n)
BY SMT DEF Sound, FreeListType, ItemType, Clear, Apart, Lookup, Keys, End, Item

(* Giving back a block that is clear of the free list: the list stays      *)
(* sound, and a third block that was clear of both stays clear.            *)
THEOREM AddSound ==
    ASSUME NEW fl, NEW bound \in Nat, Sound(fl, bound),
           NEW i \in Nat \ {0}, NEW n \in Nat \ {0}, i + n <= bound,
           Clear(fl, Item(i, n))
    PROVE  /\ Sound(add(fl, i, n), bound)
           /\ \A x \in ItemType :
                 Clear(fl, x) /\ Apart(x, Item(i, n)) => Clear(add(fl, i, n), x)
<1> DEFINE new   == Item(i, n)
           left  == Lookup(fl, i - 1)
           fl1   == UntrackFound(fl, left)
           right == Lookup(fl1, i + n)
           fl2   == UntrackFound(fl1, right)
           item  == Merged(i, n, left, right)
<1>1. add(fl, i, n) = Track(fl2, item)
  BY DEF add
<1>2. new \in ItemType /\ End(new) = i + n /\ new.parentIndex = i /\ new.actualSize = n
  BY ItemTyped
<1>3. fl.indexTree \subseteq ItemType
  BY DEF Sound, FreeListType
<1>4. /\ Sound(fl1, bound)
      /\ fl1.indexTree \subseteq fl.indexTree
      /\ \A v \in fl1.indexTree : End(v) # i
  <2>1. CASE left = {}
    BY <2>1, LookupNeighbour DEF UntrackFound
  <2>2. CASE left # {}
    <3>1. PICK l : l = CHOOSE v \in left : TRUE   OBVIOUS
    <3>2. l \in left   BY <2>2, <3>1
    <3>3. l \in fl.indexTree /\ End(l) = i
      BY <3>2, LookupNeighbour
    <3>4. fl1 = Untrack(fl, l)
      BY <2>2, <3>1 DEF UntrackFound
    <3>5. Sound(fl1, bound) /\ fl1.indexTree = fl.indexTree \ {l}
      BY <3>3, <3>4, UntrackSound, SMT
    <3>6. ASSUME NEW v \in fl.indexTree, v # l PROVE End(v) # i
      BY <1>3, <3>3, <3>6, SMT DEF Sound, Apart, End, ItemType
    <3> QED BY <3>5, <3>6
  <2> QED BY <2>1, <2>2
<1>5. Clear(fl1, new)
  BY <1>4 DEF Clear
<1>6. /\ Sound(fl2, bound)
      /\ fl2.indexTree \subseteq fl1.indexTree
      /\ \A v \in fl2.indexTree : v.parentIndex # i + n
  <2>1. CASE right = {}
    BY <2>1, <1>4, <1>5, LookupNeighbour DEF UntrackFound
  <2>2. CASE right # {}
    <3>1. PICK r : r = CHOOSE v \in right : TRUE   OBVIOUS
    <3>2. r \in right   BY <2>2, <3>1
    <3>3. r \in fl1.indexTree /\ r.parentIndex = i + n
      BY <1>4, <1>5, <3>2, LookupNeighbour, SMT
    <3>4. fl2 = Untrack(fl1, r)
      BY <2>2, <3>1 DEF UntrackFound
    <3>5. Sound(fl2, bound) /\ fl2.indexTree = fl1.indexTree \ {r}
      BY <1>4, <3>3, <3>4, UntrackSound, SMT
    <3>6. ASSUME NEW v \in fl1.indexTree, v # r PROVE v.parentIndex # i + n
      BY <1>3, <1>4, <3>3, <3>6, SMT DEF Sound, Apart, End, ItemType
    <3> QED BY <3>5, <3>6
  <2> QED BY <2>1, <2>2
<1>7. /\ item \in ItemType /\ End(item) <= bound
      /\ Clear(fl2, item)
      /\ \A v \in fl2.indexTree :
            End(v) # item.parentIndex /\ End(item) # v.parentIndex
      /\ \A x \in ItemType : Clear(fl, x) /\ Apart(x, new) => Apart(x, item)
  <2>1. CASE right # {}
    <3>1. PICK r : r = CHOOSE v \in right : TRUE   OBVIOUS
    <3>2. r \in right   BY <2>1, <3>1
    <3>3. r \in fl1.indexTree /\ r.parentIndex = i + n
      BY <1>4, <1>5, <3>2, LookupNeighbour, SMT
    <3>4. item = Item(i, n + r.actualSize)
      BY <2>1, <3>1 DEF Merged
    <3>5. fl2.indexTree = fl1.indexTree \ {r}
      BY <1>4, <2>1, <3>1, <3>3, UntrackSound DEF UntrackFound
    <3>6. r \in ItemType /\ End(r) <= bound
      <4> HIDE DEF item, fl2, right, fl1, left, new
      <4> QED BY <1>4, <3>3, SoundItems
    <3>7. item \in ItemType /\ End(item) = End(r) /\ item.parentIndex = i
      BY <3>3, <3>4, <3>6, SMT DEF Item, ItemType, End
    <3>8. \A x \in ItemType : Apart(x, new) /\ Apart(x, r) => Apart(x, item)
      BY <1>2, <3>3, <3>4, <3>6, Adjoining
    <3>9. \A v \in fl2.indexTree : v \in ItemType /\ Apart(v, r) /\ Apart(v, new)
      BY <1>2, <1>3, <1>4, <1>5, <3>3, <3>5, ApartFacts DEF Sound, Clear
    <3>10. Clear(fl2, item)
      BY <3>7, <3>8, <3>9, ApartFacts DEF Clear
    <3>11. \A v \in fl2.indexTree : End(v) # i /\ End(r) # v.parentIndex
      <4> HIDE DEF item, fl2, right, fl1, left, new
      <4> QED BY <1>4, <1>6, <3>3, SoundItems
    <3>12. \A x \in ItemType : Clear(fl, x) /\ Apart(x, new) => Apart(x, item)
      BY <1>4, <3>3, <3>8 DEF Clear
    <3> HIDE DEF item, fl2, right, fl1, left, new
    <3> QED BY <3>6, <3>7, <3>10, <3>11, <3>12
  <2>2. CASE right = {} /\ left # {}
    <3>1. PICK l : l = CHOOSE v \in left : TRUE   OBVIOUS
    <3>2. l \in left   BY <2>2, <3>1
    <3>3. l \in fl.indexTree /\ End(l) = i
      BY <3>2, LookupNeighbour
    <3>4. item = Item(l.parentIndex, l.actualSize + n)
      BY <2>2, <3>1 DEF Merged
    <3>5. fl1.indexTree = fl.indexTree \ {l} /\ fl2 = fl1
      BY <2>2, <3>1, <3>3, UntrackSound DEF UntrackFound
    <3>6. l \in ItemType
      BY <1>3, <3>3
    <3>7. item \in ItemType /\ End(item) = i + n /\ item.parentIndex = l.parentIndex
      BY <3>3, <3>4, <3>6, SMT DEF Item, ItemType, End
    <3>8. \A x \in ItemType : Apart(x, new) /\ Apart(x, l) => Apart(x, item)
      BY <1>2, <3>3, <3>4, <3>6, Adjoining
    <3>9. \A v \in fl2.indexTree : v \in ItemType /\ Apart(v, l) /\ Apart(v, new)
      BY <1>2, <1>3, <1>5, <3>3, <3>5, ApartFacts DEF Sound, Clear
    <3>10. Clear(fl2, item)
      BY <3>7, <3>8, <3>9, ApartFacts DEF Clear
    <3>11. \A v \in fl2.indexTree : End(v) # l.parentIndex /\ i + n # v.parentIndex
      <4> HIDE DEF item, fl2, right, fl1, left, new
      <4> QED BY <1>6, <3>3, <3>5, SoundItems
    <3>12. \A x \in ItemType : Clear(fl, x) /\ Apart(x, new) => Apart(x, item)
      BY <3>3, <3>8 DEF Clear
    <3> HIDE DEF item, fl2, right, fl1, left, new
    <3> QED BY <3>7, <3>10, <3>11, <3>12
  <2>3. CASE right = {} /\ left = {}
    <3>1. item = new
      BY <2>3 DEF Merged
    <3>2. fl2 = fl1 /\ fl1 = fl
      BY <2>3 DEF UntrackFound
    <3> HIDE DEF item, fl2, right, fl1, left, new
    <3> QED BY <1>2, <1>4, <1>5, <1>6, <3>1, <3>2
  <2> QED BY <2>1, <2>2, <2>3
<1>8. Sound(Track(fl2, item), bound) /\ Track(fl2, item).indexTree = fl2.indexTree \cup {item}
  <2> HIDE DEF item, fl2, right, fl1, left, new
  <2> QED BY <1>6, <1>7, TrackSound
<1>9. \A x \in ItemType : Clear(fl, x) /\ Apart(x, new) => Clear(Track(fl2, item), x)
  <2> HIDE DEF item, fl2, right, fl1, left, new
  <2> QED BY <1>4, <1>6, <1>7, <1>8 DEF Clear
<1> QED BY <1>1, <1>8, <1>9

(* An item no smaller than the size asked for is in no smaller class, so   *)
(* the in-place branch of findInSizeList is taken in class 7 only, and     *)
(* leaves the item there.                                                  *)
LEMMA ShrunkInClass ==
    ASSUME NEW size \in Nat \ {0}, NEW idx \in Classes, NEW n \in Nat \ {0},
           InClass(n, idx), size < n, n - size >= BuckSize(size, idx)
    PROVE  InClass(n - size, idx)
BY SMT DEF InClass, BuckSize, Classes, Limit

(* Carving size positions off the front of a listed item leaves a sound    *)
(* list that is clear of the positions taken, and of every block that was  *)
(* clear of it before.                                                     *)
LEMMA CarveSound ==
    ASSUME NEW fl, NEW bound \in Nat, Sound(fl, bound),
           NEW size \in Nat \ {0}, NEW idx \in Classes,
           NEW tmp \in Fitting(fl, idx, size)
    PROVE  LET g == Carve(fl, tmp, idx, size, BuckSize(size, idx))
           IN  /\ Sound(g, bound)
               /\ Clear(g, Item(tmp.parentIndex, size))
               /\ \A x \in ItemType : Clear(fl, x) => Clear(g, x)
<1> DEFINE rest    == Item(tmp.parentIndex + size, tmp.actualSize - size)
           taken   == Item(tmp.parentIndex, size)
           without == [indexTree |-> fl.indexTree \ {tmp},
                       sizeList  |-> [fl.sizeList EXCEPT ![idx] = @ \ {tmp}]]
           g == Carve(fl, tmp, idx, size, BuckSize(size, idx))
<1>1. /\ tmp \in fl.sizeList[idx] /\ tmp \in fl.indexTree /\ tmp \in ItemType
      /\ size <= tmp.actualSize /\ InClass(tmp.actualSize, idx)
  BY DEF Fitting, Sound, FreeListType
<1>2. without = Untrack(fl, tmp)
  <2>1. ASSUME NEW b \in Classes, b # idx PROVE ~InClass(tmp.actualSize, b)
    BY <1>1, <2>1, ClassUnique DEF ItemType
  <2>2. fl.sizeList \in [Classes -> SUBSET ItemType]
    BY DEF Sound, FreeListType
  <2>3. [fl.sizeList EXCEPT ![idx] = @ \ {tmp}] = removeFromSizeList(fl.sizeList, tmp)
    BY <1>1, <2>1, <2>2 DEF removeFromSizeList
  <2> QED BY <2>3 DEF Untrack
<1>3. Sound(without, bound) /\ without.indexTree = fl.indexTree \ {tmp}
  <2> HIDE DEF without
  <2> QED BY <1>1, <1>2, UntrackSound
<1>4. /\ taken \in ItemType
      /\ \A x \in ItemType : Apart(x, tmp) => Apart(x, taken)
  BY <1>1, SMT DEF Apart, End, Item, ItemType
<1>5. Clear(without, taken)
  BY <1>1, <1>3, <1>4, ApartFacts DEF Sound, Clear, FreeListType
<1>6. CASE rest.actualSize = 0
  <2>1. g = without
    BY <1>6 DEF Carve
  <2> HIDE DEF without, g
  <2> QED BY <1>3, <1>5, <2>1 DEF Clear, g
<1>7. CASE rest.actualSize # 0
  <2>1. /\ rest \in ItemType /\ End(rest) = End(tmp)
        /\ rest.parentIndex = tmp.parentIndex + size
        /\ rest.actualSize = tmp.actualSize - size
        /\ Apart(rest, taken)
        /\ \A x \in ItemType : Apart(x, tmp) => Apart(x, rest)
        /\ End(taken) = rest.parentIndex
    BY <1>1, <1>7, SMT DEF Apart, End, Item, ItemType
  <2>2. Clear(without, rest)
    BY <1>1, <1>3, <2>1, ApartFacts DEF Sound, Clear, FreeListType
  <2>3. End(rest) <= bound
    BY <1>1, <2>1 DEF Sound
  <2>4. CASE rest.actualSize >= BuckSize(size, idx)
    <3>1. InClass(rest.actualSize, idx)
      BY <1>1, <1>7, <2>1, <2>4, ShrunkInClass, SMT DEF ItemType
    <3>2. \A b \in Classes : InClass(rest.actualSize, b) => b = idx
      BY <2>1, <3>1, ClassUnique DEF ItemType
    <3>3. without.sizeList \in [Classes -> SUBSET ItemType]
      BY <1>3 DEF Sound, FreeListType
    <3>4. [without.sizeList EXCEPT ![idx] = @ \cup {rest}]
             = putIntoSizeList(without.sizeList, rest)
      <4> HIDE DEF without, rest
      <4> QED BY <3>1, <3>2, <3>3 DEF putIntoSizeList
    <3>5. g = Track(without, rest)
      BY <1>7, <2>4, <3>4 DEF Carve, Track
    <3>6. \A v \in without.indexTree :
              End(v) # rest.parentIndex /\ End(rest) # v.parentIndex
      <4>1. \A v \in without.indexTree :
               /\ v \in ItemType /\ Apart(v, tmp) /\ End(tmp) # v.parentIndex
        BY <1>1, <1>7, SoundItems
      <4>2. rest.parentIndex = tmp.parentIndex + size /\ End(rest) = End(tmp)
        BY <1>1, <1>7, <2>1 DEF End, ItemType
      <4>3. tmp.parentIndex < rest.parentIndex /\ rest.parentIndex < End(tmp)
        BY <1>1, <1>7, <2>1, <4>2, SMT DEF End, ItemType
      <4> HIDE DEF without, rest, g, taken
      <4> QED BY <1>1, <4>1, <4>2, <4>3, SMT DEF Apart, End, ItemType
    <3>7. Sound(g, bound) /\ g.indexTree = without.indexTree \cup {rest}
      <4> HIDE DEF without, rest, g
      <4> QED BY <1>3, <2>1, <2>2, <2>3, <3>5, <3>6, TrackSound
    <3> HIDE DEF without, rest, g, taken
    <3> QED BY <1>1, <1>3, <1>4, <1>5, <2>1, <3>7, ApartFacts, SMT DEF Clear, g, taken
  <2>5. CASE ~(rest.actualSize >= BuckSize(size, idx))
    <3>1. g = add(without, rest.parentIndex, rest.actualSize)
      BY <1>7, <2>5 DEF Carve
    <3>2. rest = Item(rest.parentIndex, rest.actualSize)
      BY <1>1, <1>7, <2>1 DEF Item, ItemType
    <3>3. /\ rest.parentIndex \in Nat \ {0} /\ rest.actualSize \in Nat \ {0}
          /\ rest.parentIndex + rest.actualSize <= bound
      BY <2>1, <2>3 DEF ItemType, End
    <3>4. /\ Sound(g, bound)
          /\ \A x \in ItemType : Clear(without, x) /\ Apart(x, rest) => Clear(g, x)
      <4> HIDE DEF without, rest, g
      <4> QED BY <1>3, <2>2, <3>1, <3>2, <3>3, AddSound, SMT
    <3> HIDE DEF without, rest, g, taken
    <3> QED BY <1>1, <1>3, <1>4, <1>5, <2>1, <3>4, ApartFacts DEF Clear, g, taken
  <2> QED BY <2>4, <2>5
<1> QED BY <1>6, <1>7

(* What find returns: a position at which size bytes are free, with a      *)
(* sound list that no longer has them and has nothing new.                 *)
THEOREM FindSound ==
    ASSUME NEW fl, NEW bound \in Nat, Sound(fl, bound),
           NEW size \in Nat \ {0}, NEW hit \in find(fl, size)
    PROVE  /\ Item(hit.index, size) \in ItemType
           /\ hit.index + size <= bound
           /\ \A x \in ItemType : Clear(fl, x) => Apart(x, Item(hit.index, size))
           /\ Sound(hit.list, bound)
           /\ Clear(hit.list, Item(hit.index, size))
           /\ \A x \in ItemType : Clear(fl, x) => Clear(hit.list, x)
<1>1. FirstClass(size) \in Classes
  BY ClassExists, SMT DEF FirstClass, Classes
<1>2. PICK idx \in Classes : \E tmp \in Fitting(fl, idx, size) :
          hit = [index |-> tmp.parentIndex,
                 list  |-> Carve(fl, tmp, idx, size, BuckSize(size, idx))]
  BY <1>1, SMT DEF find, findInSizeList, Classes
<1>3. PICK tmp \in Fitting(fl, idx, size) :
          hit = [index |-> tmp.parentIndex,
                 list  |-> Carve(fl, tmp, idx, size, BuckSize(size, idx))]
  BY <1>2
<1>4. tmp \in fl.indexTree /\ tmp \in ItemType /\ size <= tmp.actualSize
  BY DEF Fitting, Sound, FreeListType
<1>5. End(tmp) <= bound
  BY <1>4 DEF Sound
<1>6. hit.index = tmp.parentIndex
      /\ hit.list = Carve(fl, tmp, idx, size, BuckSize(size, idx))
  BY <1>3
<1>7. /\ Item(hit.index, size) \in ItemType
      /\ hit.index + size <= bound
      /\ \A x \in ItemType : Apart(x, tmp) => Apart(x, Item(hit.index, size))
  BY <1>4, <1>5, <1>6, SMT DEF Item, ItemType, End, Apart
<1>8. \A x \in ItemType : Clear(fl, x) => Apart(x, Item(hit.index, size))
  BY <1>4, <1>7 DEF Clear
<1> QED BY <1>6, <1>7, <1>8, CarveSound, SMT

(* Sizes and classes are ordered alike. *)
LEMMA ClassMonotone ==
    ASSUME NEW n \in Nat \ {0}, NEW m \in Nat \ {0}, n <= m,
           NEW b \in Classes, NEW c \in Classes, InClass(n, b), InClass(m, c)
    PROVE  b <= c
BY SMT DEF Classes, InClass, Limit

(* find misses only when no list has an item that is large enough. *)
THEOREM FindMissesNothing ==
    ASSUME NEW fl, NEW bound \in Nat, Sound(fl, bound),
           NEW size \in Nat \ {0}, find(fl, size) = {}
    PROVE  \A v \in Listed(fl) : v.actualSize < size
<1> DEFINE lo == FirstClass(size)
           None(i) == Fitting(fl, i, size) = {}
<1>1. lo \in Classes
  BY ClassExists, SMT DEF FirstClass, Classes
<1>2. ASSUME NEW i \in lo .. 7, \A j \in lo .. i - 1 : None(j)
      PROVE  None(i)
  <2>1. findInSizeList(fl, i, size, BuckSize(size, i)) \subseteq find(fl, size)
    BY <1>2 DEF find
  <2>2. findInSizeList(fl, i, size, BuckSize(size, i)) = {}
    BY <2>1
  <2> QED BY <2>2 DEF findInSizeList
<1> HIDE DEF lo, None
<1>3. lo <= 0 => None(0)   BY <1>1, <1>2, SMT DEF Classes
<1>4. lo <= 1 => None(1)   BY <1>1, <1>2, <1>3, SMT DEF Classes
<1>5. lo <= 2 => None(2)   BY <1>1, <1>2, <1>3, <1>4, SMT DEF Classes
<1>6. lo <= 3 => None(3)   BY <1>1, <1>2, <1>3, <1>4, <1>5, SMT DEF Classes
<1>7. lo <= 4 => None(4)   BY <1>1, <1>2, <1>3, <1>4, <1>5, <1>6, SMT DEF Classes
<1>8. lo <= 5 => None(5)   BY <1>1, <1>2, <1>3, <1>4, <1>5, <1>6, <1>7, SMT DEF Classes
<1>9. lo <= 6 => None(6)   BY <1>1, <1>2, <1>3, <1>4, <1>5, <1>6, <1>7, <1>8, SMT DEF Classes
<1>10. lo <= 7 => None(7)
  BY <1>1, <1>2, <1>3, <1>4, <1>5, <1>6, <1>7, <1>8, <1>9, SMT DEF Classes
<1>11. \A i \in Classes : lo <= i => None(i)
  BY <1>3, <1>4, <1>5, <1>6, <1>7, <1>8, <1>9, <1>10, SMT DEF Classes
<1>12. SUFFICES ASSUME NEW b \in Classes, NEW v \in fl.sizeList[b], size <= v.actualSize
                PROVE  FALSE
  <2>1. \A v \in Listed(fl) : \E b \in Classes : v \in fl.sizeList[b]
    BY DEF Listed
  <2>2. \A b \in Classes : \A v \in fl.sizeList[b] : v.actualSize \in Nat
    BY DEF Sound, FreeListType, ItemType
  <2> QED BY <2>1, <2>2, SMT
<1>13. v.actualSize \in Nat \ {0} /\ InClass(v.actualSize, b)
  BY DEF Sound, FreeListType, ItemType
<1>14. size # 4096 => InClass(size, lo)
  BY ClassExists, SMT DEF FirstClass, lo
<1>15. lo <= b
  <2>1. CASE size = 4096
    BY <2>1, SMT DEF FirstClass, lo, Classes
  <2>2. CASE size # 4096
    BY <1>1, <1>12, <1>13, <1>14, <2>2, ClassMonotone, SMT
  <2> QED BY <2>1, <2>2, SMT
<1> QED BY <1>11, <1>12, <1>15 DEF None, Fitting

-----------------------------------------------------------------------------
(* The byte queue. *)

(* The inductive invariant.  Without Pop the head never leaves the left    *)
(* margin, so the tail is the high-water mark of everything ever pushed:   *)
(* all blocks, live and free, lie below it.                                *)
Inv ==
    /\ capacity \in Nat
    /\ head = leftMarginIndex
    /\ tail \in Nat /\ leftMarginIndex <= tail /\ tail <= capacity
    /\ rightMargin = tail
    /\ IsFiniteSet(live) /\ count = Cardinality(live)
    /\ live \subseteq ItemType
    /\ \A b \in live : End(b) <= tail /\ b.actualSize > headerEntrySize
    /\ \A b, c \in live : b # c => Apart(b, c)
    /\ Sound(freelist, tail)
    /\ \A b \in live : Clear(freelist, b)
    /\ CapacityBounded

LEMMA SoundMonotone ==
    ASSUME NEW fl, NEW m \in Nat, NEW n \in Nat, m <= n, Sound(fl, m)
    PROVE  Sound(fl, n)
BY SMT DEF Sound, End, FreeListType, ItemType

(* allocateAdditionalMemory always makes enough room behind the tail. *)
LEMMA GrownEnough ==
    ASSUME NEW dataLen \in DataLens, Inv, ~AtLimit(dataLen)
    PROVE  /\ GrownCapacity(Need(dataLen)) \in Nat
           /\ tail + Need(dataLen) <= GrownCapacity(Need(dataLen))
           /\ MaxCapacity > 0 => GrownCapacity(Need(dataLen)) <= MaxCapacity
BY QueueAssumption, SMT DEF Inv, AtLimit, GrownCapacity, Need, headerEntrySize, leftMarginIndex

(* Adding one block that is apart from everything else. *)
LEMMA LiveGrows ==
    ASSUME Inv, NEW b \in ItemType, \A c \in live : Apart(c, b)
    PROVE  /\ IsFiniteSet(live \cup {b})
           /\ Cardinality(live \cup {b}) = count + 1
           /\ \A c, d \in live \cup {b} : c # d => Apart(c, d)
<1>1. b \notin live
  BY ApartFacts
<1>2. IsFiniteSet(live \cup {b}) /\ Cardinality(live \cup {b}) = count + 1
  BY <1>1, FS_AddElement DEF Inv
<1> QED BY <1>2, ApartFacts DEF Inv

(* push at the tail, after growing the array or not. *)
LEMMA PushAtTail ==
    ASSUME NEW dataLen \in DataLens, NEW cap \in Nat, Inv,
           tail + Need(dataLen) <= cap,
           MaxCapacity > 0 => cap <= MaxCapacity \/ cap = InitialCapacity,
           push(tail, Need(dataLen), cap, head, live, count)
    PROVE  /\ Inv'
           /\ live' = live \cup {Item(tail, Need(dataLen))}
           /\ \A c \in live : Apart(c, Item(tail, Need(dataLen)))
<1> DEFINE new == Item(tail, Need(dataLen))
<1>1. /\ tail' = tail + Need(dataLen) /\ Need(dataLen) \in Nat \ {0}
      /\ Need(dataLen) > headerEntrySize
      /\ rightMargin' = tail' /\ capacity' = cap /\ head' = head
      /\ tail' \in Nat /\ leftMarginIndex <= tail' /\ tail' <= cap
      /\ freelist' = freelist /\ live' = live \cup {new} /\ count' = count + 1
  BY QueueAssumption, SMT DEF push, copyTo, Inv, Need, headerEntrySize, leftMarginIndex
<1>2. new \in ItemType /\ End(new) = tail' /\ new.actualSize = Need(dataLen)
      /\ new.parentIndex = tail
  <2>1. tail \in Nat \ {0}
    BY SMT DEF Inv, leftMarginIndex
  <2>2. new \in ItemType
    BY <1>1, <2>1, ItemTyped
  <2> QED BY <1>1, <2>1, <2>2 DEF Item, End
<1>3. \A c \in live : Apart(c, new)
  BY <1>2 DEF Inv, Apart
<1>4. Clear(freelist, new)
  BY <1>2 DEF Inv, Sound, Clear, Apart
<1>5. Sound(freelist', tail')
  BY <1>1, SoundMonotone, SMT DEF Inv
<1>6. \A b \in live' : Clear(freelist', b)
  BY <1>1, <1>4 DEF Inv
<1>7. /\ IsFiniteSet(live') /\ count' = Cardinality(live')
      /\ \A c, d \in live' : c # d => Apart(c, d)
  BY <1>1, <1>2, <1>3, LiveGrows
<1>8. \A b \in live' : End(b) <= tail' /\ b.actualSize > headerEntrySize
  BY <1>1, <1>2, ApartFacts, SMT DEF Inv
<1>9. CapacityBounded'
  BY <1>1 DEF CapacityBounded
<1> HIDE DEF new
<1>10. Inv'
  BY <1>1, <1>2, <1>5, <1>6, <1>7, <1>8, <1>9 DEF Inv
<1> QED BY <1>1, <1>3, <1>10 DEF new

(* Push either fails and changes nothing, or adds to the live blocks one   *)
(* that overlaps none of them.                                             *)
LEMMA PushStep ==
    ASSUME NEW dataLen \in DataLens, Inv, Push(dataLen)
    PROVE  /\ Inv'
           /\ \/ live' = live
              \/ \E b \in ItemType :
                    /\ live' = live \cup {b}
                    /\ b.actualSize = Need(dataLen)
                    /\ \A c \in live : Apart(c, b)
<1>1. Need(dataLen) \in Nat \ {0} /\ Need(dataLen) > headerEntrySize
  BY QueueAssumption, SMT DEF Need, headerEntrySize
<1>2. CASE PushReuse(dataLen)
  <2>1. PICK hit \in find(freelist, Need(dataLen)) :
            /\ live' = live \cup {Item(hit.index, Need(dataLen))}
            /\ freelist' = hit.list
            /\ count' = count + 1
            /\ UNCHANGED <<capacity, head, tail, rightMargin>>
    BY <1>2 DEF PushReuse
  <2> DEFINE new == Item(hit.index, Need(dataLen))
  <2>2. Sound(freelist, tail) /\ tail \in Nat
    BY DEF Inv
  <2>3. /\ new \in ItemType /\ hit.index + Need(dataLen) <= tail
        /\ \A x \in ItemType : Clear(freelist, x) => Apart(x, new)
        /\ Sound(hit.list, tail) /\ Clear(hit.list, new)
        /\ \A x \in ItemType : Clear(freelist, x) => Clear(hit.list, x)
    BY <1>1, <2>2, FindSound
  <2>4. End(new) <= tail /\ new.actualSize = Need(dataLen)
    BY <2>3 DEF Item, End
  <2>5. \A c \in live : Apart(c, new)
    BY <2>3 DEF Inv
  <2>6. /\ IsFiniteSet(live') /\ count' = Cardinality(live')
        /\ \A c, d \in live' : c # d => Apart(c, d)
    BY <2>1, <2>3, <2>5, LiveGrows
  <2>7. \A b \in live' : Clear(freelist', b)
    BY <2>1, <2>3 DEF Inv
  <2>8. \A b \in live' : End(b) <= tail' /\ b.actualSize > headerEntrySize
    BY <1>1, <2>1, <2>4 DEF Inv
  <2>9. CapacityBounded'
    BY <2>1 DEF CapacityBounded, Inv
  <2> HIDE DEF new
  <2>10. Inv'
    BY <2>1, <2>3, <2>6, <2>7, <2>8, <2>9 DEF Inv, new
  <2> QED BY <2>1, <2>3, <2>4, <2>5, <2>10 DEF new
<1>3. CASE PushInPlace(dataLen)
  <2>1. /\ tail + Need(dataLen) <= capacity
        /\ PushPlace(dataLen) = tail
    BY <1>1, <1>3, SMT DEF PushInPlace, PushPlace, NoSpace, availableSpaceAfterTail,
                      availableSpaceBeforeHead, Inv, minimumEmptyBlobSize,
                      headerEntrySize, leftMarginIndex
  <2>2. push(tail, Need(dataLen), capacity, head, live, count)
    BY <1>3, <2>1 DEF PushInPlace
  <2>3. Item(tail, Need(dataLen)) \in ItemType
        /\ Item(tail, Need(dataLen)).actualSize = Need(dataLen)
    <3>1. tail \in Nat \ {0}
      BY SMT DEF Inv, leftMarginIndex
    <3> QED BY <1>1, <3>1, ItemTyped
  <2> QED BY <2>1, <2>2, <2>3, PushAtTail DEF Inv, CapacityBounded
<1>4. CASE PushFull(dataLen)
  BY <1>4 DEF PushFull, vars, Inv, CapacityBounded
<1>5. CASE PushGrow(dataLen)
  <2> DEFINE cap == GrownCapacity(Need(dataLen))
  <2>1. CopiedBlocks = live /\ ~(tail < head)
    BY SMT DEF CopiedBlocks, Inv, leftMarginIndex
  <2>2. /\ ~AtLimit(dataLen)
        /\ push(tail, Need(dataLen), cap, head, live, count)
    BY <1>5, <2>1 DEF PushGrow
  <2>3. /\ cap \in Nat /\ tail + Need(dataLen) <= cap
        /\ MaxCapacity > 0 => cap <= MaxCapacity
    BY <2>2, GrownEnough
  <2>4. Item(tail, Need(dataLen)) \in ItemType
        /\ Item(tail, Need(dataLen)).actualSize = Need(dataLen)
    <3>1. tail \in Nat \ {0}
      BY SMT DEF Inv, leftMarginIndex
    <3> QED BY <1>1, <3>1, ItemTyped
  <2> HIDE DEF cap
  <2> QED BY <2>2, <2>3, <2>4, PushAtTail
<1> QED BY <1>2, <1>3, <1>4, <1>5 DEF Push

(* Delete gives one live block back to the free list. *)
LEMMA DeleteStep ==
    ASSUME NEW b \in live, Inv, Delete(b)
    PROVE  Inv' /\ live' = live \ {b}
<1>1. /\ freelist' = add(freelist, b.parentIndex, b.actualSize)
      /\ live' = live \ {b} /\ count' = count - 1
      /\ UNCHANGED <<capacity, head, tail, rightMargin>>
  BY DEF Delete
<1>2. /\ b \in ItemType /\ b = Item(b.parentIndex, b.actualSize)
      /\ b.parentIndex \in Nat \ {0} /\ b.actualSize \in Nat \ {0}
      /\ b.parentIndex + b.actualSize <= tail
  BY DEF Inv, ItemType, Item, End
<1>3. /\ Sound(freelist', tail)
      /\ \A x \in ItemType : Clear(freelist, x) /\ Apart(x, b) => Clear(freelist', x)
  BY <1>1, <1>2, AddSound, SMT DEF Inv
<1>4. \A c \in live' : Clear(freelist', c)
  BY <1>1, <1>3 DEF Inv
<1>5. IsFiniteSet(live') /\ count' = Cardinality(live')
  BY <1>1, FS_RemoveElement DEF Inv
<1>6. CapacityBounded'
  BY <1>1 DEF CapacityBounded, Inv
<1> QED BY <1>1, <1>3, <1>4, <1>5, <1>6 DEF Inv

LEMMA InvInit == NewBytesQueue => Inv
<1> SUFFICES ASSUME NewBytesQueue PROVE Inv   OBVIOUS
<1>1. Sound(newFreeList, 1)
  BY SMT DEF Sound, newFreeList, FreeListType, Classes
<1>2. IsFiniteSet(live) /\ count = Cardinality(live)
  BY FS_EmptySet DEF NewBytesQueue
<1> QED BY <1>1, <1>2, QueueAssumption, SMT
        DEF NewBytesQueue, Inv, leftMarginIndex, CapacityBounded, newFreeList, Clear

LEMMA InvNext == Inv /\ [Next]_vars => Inv'
<1>1. CASE UNCHANGED vars
  BY <1>1 DEF vars, Inv, CapacityBounded
<1>2. ASSUME Inv, NEW dataLen \in DataLens, Push(dataLen) PROVE Inv'
  BY <1>2, PushStep
<1>3. ASSUME Inv, NEW b \in live, Delete(b) PROVE Inv'
  BY <1>3, DeleteStep
<1> QED BY <1>1, <1>2, <1>3 DEF Next

(* The inductive invariant holds of every behaviour. *)
THEOREM InvHolds == Spec => []Inv
BY InvInit, InvNext, PTL DEF Spec

-----------------------------------------------------------------------------
(* Types, for every value of the constants. *)
THEOREM TypesHold == Spec => []TypeOK
<1>1. Inv => TypeOK
  BY FS_CardinalityType, SMT DEF Inv, TypeOK, leftMarginIndex, Sound
<1> QED BY <1>1, InvHolds, PTL

(* Live and free blocks never overlap and never leave the array. *)
THEOREM NoOverlapHolds == Spec => []NoOverlap
<1>1. Inv => NoOverlap
  <2> SUFFICES ASSUME Inv PROVE NoOverlap   OBVIOUS
  <2>1. freelist.indexTree \subseteq ItemType /\ live \subseteq ItemType
    BY DEF Inv, Sound, FreeListType
  <2>2. \A v, w \in live \cup freelist.indexTree : v # w => Apart(v, w)
    BY <2>1, ApartFacts DEF Inv, Sound, Clear
  <2>3. live \cap freelist.indexTree = {}
    BY <2>1, ApartFacts DEF Inv, Clear
  <2>4. \A v \in live \cup freelist.indexTree : End(v) <= capacity
    BY <2>1, ApartFacts, SMT DEF Inv, Sound
  <2> QED BY <2>2, <2>3, <2>4 DEF NoOverlap
<1> QED BY <1>1, InvHolds, PTL

(* Every live block can be read and deleted, and count counts them. *)
THEOREM LiveReadableHolds == Spec => []LiveReadable
<1>1. Inv => LiveReadable
  <2> SUFFICES ASSUME Inv PROVE LiveReadable   OBVIOUS
  <2>1. ASSUME NEW b \in live PROVE count # 0
    BY FS_EmptySet DEF Inv
  <2>2. ASSUME NEW b \in live
        PROVE  b.parentIndex > 0 /\ b.parentIndex + headerEntrySize < capacity
    BY SMT DEF Inv, ItemType, End, headerEntrySize
  <2> QED BY <2>1, <2>2 DEF LiveReadable, peek, Inv
<1> QED BY <1>1, InvHolds, PTL

(* The tree and the size lists agree, and neighbours are merged. *)
THEOREM FreeListConsistentHolds == Spec => []FreeListConsistent
<1>1. Inv => FreeListConsistent
  BY SMT DEF Inv, Sound, FreeListConsistent, Listed
<1> QED BY <1>1, InvHolds, PTL

(* The array grows only when no listed block is large enough. *)
THEOREM FindCompleteHolds == Spec => []FindComplete
<1>1. Inv => FindComplete
  <2> SUFFICES ASSUME Inv, NEW dataLen \in DataLens, NoReuse(dataLen)
               PROVE  \A v \in Listed(freelist) : v.actualSize < Need(dataLen)
    BY DEF FindComplete
  <2>1. Need(dataLen) \in Nat \ {0}
    BY QueueAssumption, SMT DEF Need, headerEntrySize
  <2> QED BY <2>1, FindMissesNothing DEF Inv, NoReuse
<1> QED BY <1>1, InvHolds, PTL

(* The array never grows past the limit. *)
THEOREM CapacityBoundedHolds == Spec => []CapacityBounded
<1>1. Inv => CapacityBounded
  BY DEF Inv
<1> QED BY <1>1, InvHolds, PTL

(* The byte queue implements BlockStore: every Push that succeeds hands    *)
(* out a fresh block and leaves the others where they are, growing the     *)
(* array included; only Delete takes a block away.                         *)
THEOREM ImplementsStore == Spec => StoreContract
<1>1. NewBytesQueue => Store!Init
  BY DEF NewBytesQueue, Store!Init
<1>2. Inv /\ [Next]_vars => [Store!Next]_live
  <2>1. CASE UNCHANGED vars
    BY <2>1 DEF vars
  <2>2. ASSUME Inv, NEW dataLen \in DataLens, Push(dataLen)
        PROVE  [Store!Next]_live
    <3>1. CASE live' = live
      BY <3>1
    <3>2. ASSUME NEW b \in ItemType, live' = live \cup {b},
                 b.actualSize = Need(dataLen), \A c \in live : Apart(c, b)
          PROVE  Store!Next
      <4>1. \A c \in live : Store!Apart(b, c)
        BY <2>2, <3>2, ApartFacts DEF Inv, Apart, End, Store!Apart, Store!End
      <4>2. b.parentIndex > 0
        BY SMT DEF ItemType
      <4>3. Store!Alloc(b)
        BY <3>2, <4>1, <4>2 DEF Store!Alloc
      <4> QED BY <3>2, <4>3 DEF Store!Next
    <3> QED BY <2>2, <3>1, <3>2, PushStep
  <2>3. ASSUME Inv, NEW b \in live, Delete(b)
        PROVE  Store!Next
    BY <2>3, DeleteStep DEF Store!Next, Store!Free
  <2> QED BY <2>1, <2>2, <2>3 DEF Next
<1> QED BY <1>1, <1>2, InvHolds, PTL DEF Spec, StoreContract, Store!Spec

-----------------------------------------------------------------------------
(* The queue as a ring (FifoSpec: Push and Pop). *)

(* The blocks of S fill the positions from lo to hi without a gap. *)
Tiles(lo, hi, S) ==
    /\ lo < hi => \E b \in S : b.parentIndex = lo
    /\ \A b \in S : lo <= b.parentIndex /\ b.parentIndex < hi =>
          \/ End(b) = hi
          \/ End(b) < hi /\ \E w \in S : w.parentIndex = End(b)

(* The two shapes of the ring with head h, tail t and right margin r: the  *)
(* entries go from h to t, or from h to r and on from the left margin.     *)
Straight(h, t, r, S) ==
    /\ h <= t /\ r = t /\ (h = t => h = leftMarginIndex)
    /\ Tiles(h, t, S)
    /\ \A b \in S : h <= b.parentIndex /\ b.parentIndex < t

Wrapped(h, t, r, S) ==
    /\ leftMarginIndex < t /\ t < h /\ h < r
    /\ Tiles(leftMarginIndex, t, S) /\ Tiles(h, r, S)
    /\ \A b \in S : b.parentIndex < t \/ (h <= b.parentIndex /\ b.parentIndex < r)

AllApart(S) == S \subseteq ItemType /\ \A v, w \in S : v # w => Apart(v, w)

(* x is a new block, apart from those of S. *)
Fresh(x, S) == x \in ItemType /\ x \notin S /\ \A v \in S : Apart(v, x)

RingInv ==
    /\ capacity \in Nat /\ rightMargin \in Nat /\ rightMargin <= capacity
    /\ head \in Nat \ {0} /\ tail \in Nat \ {0}
    /\ AllApart(live) /\ IsFiniteSet(live) /\ count = Cardinality(live)
    /\ freelist = newFreeList
    /\ Straight(head, tail, rightMargin, live) \/ Wrapped(head, tail, rightMargin, live)
    /\ \A index \in pushed : \E b \in live : b.parentIndex = index

LEMMA ItemIs ==
    ASSUME NEW at \in Nat \ {0}, NEW size \in Nat \ {0}
    PROVE  /\ Item(at, size) \in ItemType /\ Item(at, size).parentIndex = at
           /\ End(Item(at, size)) = at + size
BY DEF Item, ItemType, End

LEMMA EndIs ==
    ASSUME NEW v \in ItemType
    PROVE  /\ v.parentIndex \in Nat \ {0} /\ End(v) \in Nat
           /\ v.parentIndex < End(v)
BY SMT DEF ItemType, End

LEMMA FreshApart ==
    ASSUME NEW S, AllApart(S), NEW x, Fresh(x, S)
    PROVE  AllApart(S \cup {x})
BY DEF AllApart, Fresh, Apart

(* An entry is written behind the tail. *)
LEMMA StraightPush ==
    ASSUME NEW S, AllApart(S), NEW h \in Nat \ {0}, NEW t \in Nat \ {0}, NEW r,
           Straight(h, t, r, S), NEW size \in Nat \ {0}
    PROVE  /\ Fresh(Item(t, size), S)
           /\ Straight(h, t + size, t + size, S \cup {Item(t, size)})
<1> DEFINE x == Item(t, size)
           T == S \cup {x}
<1>1. x \in ItemType /\ x.parentIndex = t /\ End(x) = t + size
  BY ItemIs
<1> HIDE DEF x
<1>2. \A v \in S : /\ v.parentIndex \in Nat /\ End(v) \in Nat /\ v.parentIndex < End(v)
                   /\ h <= v.parentIndex /\ v.parentIndex < t /\ End(v) <= t
  BY EndIs, SMT DEF Straight, AllApart, Tiles
<1>3. Fresh(x, S)
  BY <1>1, <1>2, SMT DEF Fresh, Apart
<1>4. Tiles(h, t + size, T)
  <2>1. \E b \in T : b.parentIndex = h
    BY <1>1, SMT DEF Straight, Tiles
  <2>2. ASSUME NEW b \in S PROVE End(b) < t + size /\ \E w \in T : w.parentIndex = End(b)
    BY <1>1, <1>2, SMT DEF Straight, Tiles
  <2> QED BY <1>1, <2>1, <2>2 DEF Tiles
<1>5. Straight(h, t + size, t + size, T)
  BY <1>1, <1>2, <1>4, SMT DEF Straight
<1> QED BY <1>3, <1>5 DEF x

(* The tail wraps around. *)
LEMMA StraightWrap ==
    ASSUME NEW S, AllApart(S), NEW h \in Nat \ {0}, NEW t \in Nat \ {0}, NEW r,
           Straight(h, t, r, S), NEW size \in Nat \ {0}, leftMarginIndex + size < h
    PROVE  /\ Fresh(Item(leftMarginIndex, size), S)
           /\ Wrapped(h, leftMarginIndex + size, r, S \cup {Item(leftMarginIndex, size)})
<1> DEFINE x == Item(1, size)
           T == S \cup {x}
<1>0. leftMarginIndex = 1
  BY DEF leftMarginIndex
<1>1. x \in ItemType /\ x.parentIndex = 1 /\ End(x) = 1 + size
  <2>1. 1 \in Nat \ {0}
    BY SMT
  <2> QED BY <2>1, ItemIs
<1> HIDE DEF x
<1>2. \A v \in S : /\ v.parentIndex \in Nat /\ End(v) \in Nat /\ v.parentIndex < End(v)
                   /\ h <= v.parentIndex /\ v.parentIndex < t
  BY EndIs DEF Straight, AllApart
<1>3. Fresh(x, S)
  BY <1>0, <1>1, <1>2, SMT DEF Fresh, Apart
<1>4. Tiles(1, 1 + size, T)
  BY <1>0, <1>1, <1>2, SMT DEF Tiles
<1>5. h < t /\ r = t
  BY <1>0, SMT DEF Straight
<1>6. Tiles(h, t, T)
  <2>1. Tiles(h, t, S)
    BY DEF Straight
  <2> QED BY <1>0, <1>1, <1>5, <2>1, SMT DEF Tiles
<1>7. Wrapped(h, 1 + size, r, T)
  BY <1>0, <1>1, <1>2, <1>4, <1>5, <1>6, SMT DEF Wrapped
<1> QED BY <1>0, <1>3, <1>7 DEF x

LEMMA WrappedPush ==
    ASSUME NEW S, AllApart(S), NEW h \in Nat \ {0}, NEW t \in Nat \ {0}, NEW r \in Nat,
           Wrapped(h, t, r, S), NEW size \in Nat \ {0}, t + size < h
    PROVE  /\ Fresh(Item(t, size), S)
           /\ Wrapped(h, t + size, r, S \cup {Item(t, size)})
<1> DEFINE x == Item(t, size)
           T == S \cup {x}
<1>0. leftMarginIndex = 1
  BY DEF leftMarginIndex
<1>1. x \in ItemType /\ x.parentIndex = t /\ End(x) = t + size
  BY ItemIs
<1> HIDE DEF x
<1>2. \A v \in S : /\ v.parentIndex \in Nat \ {0} /\ End(v) \in Nat /\ v.parentIndex < End(v)
                   /\ \/ v.parentIndex < t /\ End(v) <= t
                      \/ h <= v.parentIndex /\ v.parentIndex < r
  BY <1>0, EndIs, SMT DEF Wrapped, AllApart, Tiles
<1>3. Fresh(x, S)
  BY <1>1, <1>2, SMT DEF Fresh, Apart
<1>4. Tiles(1, t + size, T)
  <2>1. \E b \in T : b.parentIndex = 1
    BY <1>0 DEF Wrapped, Tiles
  <2>2. ASSUME NEW b \in S, b.parentIndex < t
        PROVE  End(b) < t + size /\ \E w \in T : w.parentIndex = End(b)
    BY <1>0, <1>1, <1>2, <2>2, SMT DEF Wrapped, Tiles
  <2>3. \A b \in S : b.parentIndex < t + size => b.parentIndex < t
    BY <1>2, SMT
  <2> QED BY <1>1, <2>1, <2>2, <2>3 DEF Tiles
<1>5. Tiles(h, r, T)
  BY <1>1, SMT DEF Wrapped, Tiles
<1>6. Wrapped(h, t + size, r, T)
  BY <1>0, <1>1, <1>2, <1>4, <1>5, SMT DEF Wrapped
<1> QED BY <1>3, <1>6 DEF x

(* The array grows while the ring is wrapped: an empty entry fills the gap *)
(* between tail and head.                                                  *)
LEMMA WrappedGrow ==
    ASSUME NEW S, AllApart(S), NEW h \in Nat \ {0}, NEW t \in Nat \ {0}, NEW r \in Nat,
           Wrapped(h, t, r, S)
    PROVE  /\ Fresh(Item(t, h - t), S)
           /\ Straight(leftMarginIndex, r, r, S \cup {Item(t, h - t)})
<1> DEFINE size == h - t
           x == Item(t, size)
           T == S \cup {x}
<1>0. leftMarginIndex = 1 /\ t < h /\ h < r /\ 1 < t
  BY DEF leftMarginIndex, Wrapped
<1>1. size \in Nat \ {0} /\ t + size = h
  BY <1>0, SMT
<1> HIDE DEF size
<1>2. x \in ItemType /\ x.parentIndex = t /\ End(x) = h
  BY <1>1, ItemIs
<1> HIDE DEF x
<1>3. \A v \in S : /\ v.parentIndex \in Nat \ {0} /\ End(v) \in Nat /\ v.parentIndex < End(v)
                   /\ \/ v.parentIndex < t /\ End(v) <= t
                      \/ h <= v.parentIndex /\ v.parentIndex < r /\ End(v) <= r
  BY <1>0, EndIs, SMT DEF Wrapped, AllApart, Tiles
<1>4. Fresh(x, S)
  BY <1>0, <1>2, <1>3, SMT DEF Fresh, Apart
<1>5. Tiles(1, r, T)
  <2>0. Tiles(1, t, S) /\ Tiles(h, r, S)
    BY <1>0 DEF Wrapped
  <2>1. (\E b \in T : b.parentIndex = 1) /\ (\E b \in T : b.parentIndex = h)
    BY <1>0, <2>0 DEF Tiles
  <2>2. ASSUME NEW b \in S, b.parentIndex < t
        PROVE  End(b) < r /\ \E w \in T : w.parentIndex = End(b)
    BY <1>0, <1>2, <1>3, <2>0, <2>2, SMT DEF Tiles
  <2>3. ASSUME NEW b \in S, ~(b.parentIndex < t)
        PROVE  End(b) = r \/ (End(b) < r /\ \E w \in T : w.parentIndex = End(b))
    BY <1>0, <1>2, <1>3, <2>0, <2>3 DEF Tiles
  <2>4. ASSUME NEW b \in T
        PROVE  End(b) = r \/ (End(b) < r /\ \E w \in T : w.parentIndex = End(b))
    BY <1>0, <1>2, <2>1, <2>2, <2>3
  <2> QED BY <2>1, <2>4 DEF Tiles
<1>6. Straight(1, r, r, T)
  BY <1>0, <1>2, <1>3, <1>5, SMT DEF Straight
<1> QED BY <1>0, <1>4, <1>6 DEF x, size

(* The entry at the head is taken. *)
LEMMA StraightPop ==
    ASSUME NEW S, AllApart(S), NEW h \in Nat \ {0}, NEW t \in Nat \ {0}, NEW r,
           Straight(h, t, r, S), NEW b \in S, b.parentIndex = h
    PROVE  /\ h < End(b) /\ End(b) \in Nat
           /\ End(b) = t => S \ {b} = {}
           /\ End(b) # t => Straight(End(b), t, t, S \ {b})
<1>1. \A v \in S : /\ v.parentIndex \in Nat \ {0} /\ End(v) \in Nat /\ v.parentIndex < End(v)
                   /\ h <= v.parentIndex /\ v.parentIndex < t
                   /\ \/ End(v) = t
                      \/ End(v) < t /\ \E w \in S : w.parentIndex = End(v)
  BY EndIs DEF Straight, AllApart, Tiles
<1>2. \A v \in S \ {b} : End(b) <= v.parentIndex
  BY <1>1, SMT DEF AllApart, Apart
<1>3. End(b) = t => S \ {b} = {}
  BY <1>1, <1>2, SMT
<1>4. ASSUME End(b) # t PROVE Straight(End(b), t, t, S \ {b})
  <2>1. End(b) < t /\ \E w \in S \ {b} : w.parentIndex = End(b)
    BY <1>1, <1>4, SMT
  <2>2. \A v \in S \ {b} : End(v) = t \/ (End(v) < t /\ \E w \in S \ {b} : w.parentIndex = End(v))
    BY <1>1, <1>2, SMT
  <2>3. Tiles(End(b), t, S \ {b})
    BY <2>1, <2>2 DEF Tiles
  <2> QED BY <1>1, <1>2, <2>1, <2>3, SMT DEF Straight
<1> QED BY <1>1, <1>3, <1>4

LEMMA WrappedPop ==
    ASSUME NEW S, AllApart(S), NEW h \in Nat \ {0}, NEW t \in Nat \ {0}, NEW r \in Nat,
           Wrapped(h, t, r, S), NEW b \in S, b.parentIndex = h
    PROVE  /\ h < End(b) /\ End(b) \in Nat
           /\ End(b) = r => Straight(leftMarginIndex, t, t, S \ {b})
           /\ End(b) # r => Wrapped(End(b), t, r, S \ {b})
<1>0. leftMarginIndex = 1 /\ t < h /\ h < r /\ 1 < t /\ Tiles(1, t, S) /\ Tiles(h, r, S)
  BY DEF leftMarginIndex, Wrapped
<1>1. \A v \in S : /\ v.parentIndex \in Nat \ {0} /\ End(v) \in Nat /\ v.parentIndex < End(v)
                   /\ v.parentIndex < t \/ (h <= v.parentIndex /\ v.parentIndex < r)
  BY EndIs DEF Wrapped, AllApart
<1>2. \A v \in S \ {b} : v.parentIndex < t \/ End(b) <= v.parentIndex
  BY <1>0, <1>1, SMT DEF AllApart, Apart
<1>3. Tiles(1, t, S \ {b})
  <2>1. \E w \in S \ {b} : w.parentIndex = 1
    BY <1>0, SMT DEF Tiles
  <2>2. ASSUME NEW v \in S \ {b}, 1 <= v.parentIndex, v.parentIndex < t
        PROVE  End(v) = t \/ (End(v) < t /\ \E w \in S \ {b} : w.parentIndex = End(v))
    BY <1>0, <1>1, <2>2, SMT DEF Tiles
  <2> QED BY <2>1, <2>2 DEF Tiles
<1>4. ASSUME End(b) = r PROVE Straight(1, t, t, S \ {b})
  <2>1. \A v \in S \ {b} : 1 <= v.parentIndex /\ v.parentIndex < t
    BY <1>0, <1>1, <1>2, <1>4, SMT
  <2> QED BY <1>0, <1>3, <2>1, SMT DEF Straight
<1>5. ASSUME End(b) # r PROVE Wrapped(End(b), t, r, S \ {b})
  <2>1. End(b) < r /\ \E w \in S \ {b} : w.parentIndex = End(b)
    BY <1>0, <1>1, <1>5, SMT DEF Tiles
  <2>2. ASSUME NEW v \in S \ {b}, End(b) <= v.parentIndex
        PROVE  End(v) = r \/ (End(v) < r /\ \E w \in S \ {b} : w.parentIndex = End(v))
    BY <1>0, <1>1, <2>2, SMT DEF Tiles
  <2>3. Tiles(End(b), r, S \ {b})
    BY <2>1, <2>2 DEF Tiles
  <2> QED BY <1>0, <1>1, <1>2, <1>3, <2>1, <2>3, SMT DEF Wrapped
<1> QED BY <1>0, <1>1, <1>4, <1>5

LEMMA RingInit == FifoInit => RingInv
<1> SUFFICES ASSUME FifoInit PROVE RingInv
  OBVIOUS
<1>1. AllApart({}) /\ IsFiniteSet({}) /\ Cardinality({}) = 0
  BY FS_EmptySet DEF AllApart
<1>2. Straight(1, 1, 1, {})
  BY SMT DEF Straight, Tiles, leftMarginIndex
<1> QED BY <1>1, <1>2, QueueAssumption, SMT DEF FifoInit, NewBytesQueue, RingInv, leftMarginIndex

(* push, where it finds room behind position at. *)
LEMMA RingWrite ==
    ASSUME RingInv, NEW at \in Nat \ {0}, NEW size \in Nat \ {0}, NEW cap \in Nat,
           NEW h \in Nat \ {0}, NEW bs, NEW c, push(at, size, cap, h, bs, c),
           pushed' = pushed \cup {tail' - size},
           at + size <= cap, rightMargin <= cap,
           live \subseteq bs, AllApart(bs), IsFiniteSet(bs), c = Cardinality(bs),
           Fresh(Item(at, size), bs),
           \/ h < at + size /\ Straight(h, at + size, at + size, bs \cup {Item(at, size)})
           \/ Wrapped(h, at + size, rightMargin, bs \cup {Item(at, size)})
    PROVE  RingInv'
<1> DEFINE x == Item(at, size)
<1>1. x.parentIndex = at
  BY ItemIs
<1>2. /\ capacity' = cap /\ head' = h /\ tail' = at + size /\ live' = bs \cup {x}
      /\ count' = c + 1 /\ freelist' = freelist
      /\ rightMargin' = IF at + size > h THEN at + size ELSE rightMargin
  BY DEF push, copyTo
<1>3. x \notin bs /\ AllApart(live')
  BY <1>2, FreshApart DEF Fresh
<1> HIDE DEF x
<1>4. IsFiniteSet(live') /\ count' = Cardinality(live')
  BY <1>2, <1>3, FS_AddElement
<1>5. /\ \/ Straight(h, at + size, rightMargin', live') /\ rightMargin' = at + size
         \/ Wrapped(h, at + size, rightMargin', live') /\ rightMargin' = rightMargin
  <2>1. CASE h < at + size /\ Straight(h, at + size, at + size, live')
    BY <1>2, <2>1
  <2>2. CASE Wrapped(h, at + size, rightMargin, live')
    <3>1. at + size < h
      BY <2>2 DEF Wrapped
    <3>2. rightMargin' = rightMargin
      BY <1>2, <3>1, SMT
    <3> QED BY <2>2, <3>2
  <2> QED BY <1>2, <2>1, <2>2 DEF x
<1>6. rightMargin' \in Nat /\ rightMargin' <= capacity'
  BY <1>2, <1>5, SMT DEF RingInv
<1>7. \A index \in pushed' : \E b \in live' : b.parentIndex = index
  <2>1. tail' - size = at
    BY <1>2, SMT
  <2>2. \A index \in pushed : \E b \in live' : b.parentIndex = index
    BY <1>2 DEF RingInv
  <2> QED BY <1>1, <1>2, <2>1, <2>2
<1>8. head' \in Nat \ {0} /\ tail' \in Nat \ {0} /\ capacity' \in Nat /\ freelist' = newFreeList
  BY <1>2, SMT DEF RingInv
<1>9. Straight(head', tail', rightMargin', live') \/ Wrapped(head', tail', rightMargin', live')
  BY <1>2, <1>5
<1> QED BY <1>3, <1>4, <1>6, <1>7, <1>8, <1>9 DEF RingInv

LEMMA NothingFree ==
    ASSUME NEW size \in Nat \ {0}
    PROVE  find(newFreeList, size) = {}
<1>1. FirstClass(size) \in Classes
  BY ClassExists, SMT DEF FirstClass, Classes
<1>2. \A idx \in FirstClass(size) .. 7 : idx \in Classes
  BY <1>1, SMT DEF Classes
<1>3. \A idx \in Classes : Fitting(newFreeList, idx, size) = {}
  BY DEF Fitting, newFreeList
<1>4. \A idx \in Classes : findInSizeList(newFreeList, idx, size, BuckSize(size, idx)) = {}
  BY <1>3 DEF findInSizeList
<1> HIDE DEF FirstClass
<1> QED BY <1>2, <1>4 DEF find

(* There is room behind the right margin after growing. *)
LEMMA RingGrown ==
    ASSUME NEW dataLen \in DataLens, RingInv, ~AtLimit(dataLen)
    PROVE  /\ GrownCapacity(Need(dataLen)) \in Nat
           /\ rightMargin + Need(dataLen) <= GrownCapacity(Need(dataLen))
BY QueueAssumption, SMT DEF RingInv, AtLimit, GrownCapacity, Need, headerEntrySize

LEMMA RingPush ==
    ASSUME NEW dataLen \in DataLens, RingInv, FifoPush(dataLen)
    PROVE  RingInv'
<1> DEFINE size == Need(dataLen)
<1>0. /\ leftMarginIndex = 1 /\ size \in Nat \ {0}
      /\ head \in Nat \ {0} /\ tail \in Nat \ {0} /\ rightMargin \in Nat /\ capacity \in Nat
      /\ rightMargin <= capacity /\ tail <= rightMargin
      /\ AllApart(live) /\ IsFiniteSet(live) /\ count = Cardinality(live) /\ count \in Nat
  <2>1. tail <= rightMargin
    BY SMT DEF RingInv, Straight, Wrapped
  <2>2. Cardinality(live) \in Nat
    BY FS_CardinalityType DEF RingInv
  <2> QED BY <2>1, <2>2, QueueAssumption, SMT DEF RingInv, Need, headerEntrySize, leftMarginIndex
<1>1. ASSUME NEW at, NEW cap, NEW h, NEW bs, NEW c \in Nat, c >= count, push(at, size, cap, h, bs, c)
      PROVE  pushed' = pushed \cup {tail' - size}
  <2>1. count' # count
    BY <1>0, <1>1, SMT DEF push
  <2> QED BY <2>1 DEF FifoPush
<1>2. ~PushReuse(dataLen)
  BY <1>0, NothingFree DEF PushReuse, RingInv
<1>3. CASE PushFull(dataLen)
  <2>1. UNCHANGED <<vars, pushed>>
    BY <1>3 DEF PushFull, FifoPush, vars
  <2> QED BY <2>1 DEF vars, RingInv
<1>4. CASE PushInPlace(dataLen)
  <2>1. /\ push(PushPlace(dataLen), size, capacity, head, live, count)
        /\ ~(availableSpaceAfterTail < size /\ availableSpaceBeforeHead < size)
    BY <1>4 DEF PushInPlace, NoSpace
  <2>2. pushed' = pushed \cup {tail' - size}
    BY <1>0, <1>1, <2>1, SMT
  <2>3. CASE Straight(head, tail, rightMargin, live)
    <3>1. head <= tail
      BY <2>3 DEF Straight
    <3>2. CASE availableSpaceAfterTail < size
      <4>1. PushPlace(dataLen) = 1 /\ 1 + size < head
        BY <1>0, <2>1, <3>1, <3>2, SMT DEF PushPlace, availableSpaceBeforeHead, minimumEmptyBlobSize,
                                      headerEntrySize
      <4>2. Fresh(Item(1, size), live) /\ Wrapped(head, 1 + size, rightMargin, live \cup {Item(1, size)})
        <5> HIDE DEF size
        <5> QED BY <1>0, <2>3, <4>1, StraightWrap
      <4>3. 1 + size <= capacity /\ 1 \in Nat \ {0}
        BY <1>0, <3>1, <4>1, SMT
      <4>4. push(1, size, capacity, head, live, count)
        BY <2>1, <4>1
      <4> HIDE DEF size
      <4> QED BY <1>0, <2>2, <4>2, <4>3, <4>4, RingWrite
    <3>3. CASE ~(availableSpaceAfterTail < size)
      <4>1. PushPlace(dataLen) = tail /\ tail + size <= capacity /\ head < tail + size
        BY <1>0, <3>1, <3>3, SMT DEF PushPlace, availableSpaceAfterTail
      <4>2. Fresh(Item(tail, size), live)
            /\ Straight(head, tail + size, tail + size, live \cup {Item(tail, size)})
        <5> HIDE DEF size
        <5> QED BY <1>0, <2>3, StraightPush
      <4>3. push(tail, size, capacity, head, live, count)
        BY <2>1, <4>1
      <4> HIDE DEF size
      <4> QED BY <1>0, <2>2, <4>1, <4>2, <4>3, RingWrite
    <3> QED BY <3>2, <3>3
  <2>4. CASE Wrapped(head, tail, rightMargin, live)
    <3>1. tail < head /\ head < rightMargin
      BY <2>4 DEF Wrapped
    <3>2. PushPlace(dataLen) = tail /\ tail + size < head
      BY <1>0, <2>1, <3>1, SMT DEF PushPlace, availableSpaceAfterTail, availableSpaceBeforeHead,
                              minimumEmptyBlobSize, headerEntrySize
    <3>3. Fresh(Item(tail, size), live)
          /\ Wrapped(head, tail + size, rightMargin, live \cup {Item(tail, size)})
      <4> HIDE DEF size
      <4> QED BY <1>0, <2>4, <3>2, WrappedPush
    <3>4. push(tail, size, capacity, head, live, count) /\ tail + size <= capacity
      BY <1>0, <2>1, <3>1, <3>2, SMT
    <3> HIDE DEF size
    <3> QED BY <1>0, <2>2, <3>3, <3>4, RingWrite
  <2> QED BY <2>3, <2>4 DEF RingInv
<1>5. CASE PushGrow(dataLen)
  <2> DEFINE cap == GrownCapacity(size)
  <2>1. cap \in Nat /\ rightMargin + size <= cap
    BY <1>5, RingGrown DEF PushGrow
  <2>2. CopiedBlocks = live
    <3>1. \A b \in live : End(b) <= rightMargin
      <4>1. \A b \in live : b.parentIndex \in Nat \ {0} /\ End(b) \in Nat
        BY EndIs DEF RingInv, AllApart
      <4> QED BY <1>0, <4>1, SMT DEF RingInv, Straight, Wrapped, Tiles
    <3> QED BY <3>1 DEF CopiedBlocks
  <2>3. CASE Straight(head, tail, rightMargin, live)
    <3>1. head <= tail /\ rightMargin = tail
      BY <2>3 DEF Straight
    <3>2. push(tail, size, cap, head, live, count)
      BY <1>0, <1>5, <2>2, <3>1, SMT DEF PushGrow
    <3> HIDE DEF cap, size
    <3>3. Fresh(Item(tail, size), live)
          /\ Straight(head, tail + size, tail + size, live \cup {Item(tail, size)})
      BY <1>0, <2>3, StraightPush
    <3>4. tail + size <= cap /\ head < tail + size /\ rightMargin <= cap
      BY <1>0, <2>1, <3>1, SMT
    <3>5. pushed' = pushed \cup {tail' - size}
      BY <1>0, <1>1, <3>2, SMT
    <3> QED BY <1>0, <2>1, <3>2, <3>3, <3>4, <3>5, RingWrite
  <2>4. CASE Wrapped(head, tail, rightMargin, live)
    <3> DEFINE blob == Item(tail, head - tail)
               bs == live \cup {blob}
    <3>1. tail < head /\ head < rightMargin /\ rightMargin # 1
      BY <1>0, <2>4, SMT DEF Wrapped
    <3>2. push(rightMargin, size, cap, 1, bs, count + 1)
      BY <1>0, <1>5, <2>2, <3>1 DEF PushGrow
    <3> HIDE DEF cap, size
    <3>3. Fresh(blob, live) /\ Straight(1, rightMargin, rightMargin, bs)
      BY <1>0, <2>4, WrappedGrow
    <3> HIDE DEF blob
    <3>4. AllApart(bs)
      BY <1>0, <3>3, FreshApart
    <3>5. IsFiniteSet(bs) /\ count + 1 = Cardinality(bs)
      BY <1>0, <3>3, FS_AddElement DEF Fresh
    <3>6. live \subseteq bs
      OBVIOUS
    <3> HIDE DEF bs
    <3>7. 1 \in Nat \ {0} /\ rightMargin \in Nat \ {0} /\ rightMargin <= cap /\ 1 < rightMargin + size
      BY <1>0, <2>1, <3>1, SMT
    <3>8. Fresh(Item(rightMargin, size), bs)
          /\ Straight(1, rightMargin + size, rightMargin + size, bs \cup {Item(rightMargin, size)})
      BY <1>0, <3>3, <3>4, <3>7, StraightPush
    <3>9. pushed' = pushed \cup {tail' - size}
      BY <1>0, <1>1, <3>2, SMT
    <3> QED BY <1>0, <2>1, <3>2, <3>4, <3>5, <3>6, <3>7, <3>8, <3>9, RingWrite
  <2> QED BY <2>3, <2>4 DEF RingInv
<1> QED BY <1>2, <1>3, <1>4, <1>5 DEF FifoPush, Push

LEMMA RingPop ==
    ASSUME RingInv, FifoPop
    PROVE  RingInv'
<1>0. /\ leftMarginIndex = 1 /\ head \in Nat \ {0} /\ tail \in Nat \ {0} /\ rightMargin \in Nat
      /\ AllApart(live) /\ IsFiniteSet(live) /\ count = Cardinality(live)
  BY DEF RingInv, leftMarginIndex
<1>1. PICK b \in live : Pop(b) /\ pushed' = pushed \ {b.parentIndex}
  BY DEF FifoPop
<1> DEFINE S == live \ {b}
           wraps == End(b) = rightMargin
<1>2. /\ b.parentIndex = head /\ live' = S /\ count' = count - 1
      /\ head' = IF wraps THEN 1 ELSE End(b)
      /\ tail' = IF wraps /\ tail = rightMargin THEN 1 ELSE tail
      /\ rightMargin' = IF wraps THEN tail' ELSE rightMargin
      /\ capacity' = capacity /\ freelist' = freelist
  BY <1>0, <1>1 DEF Pop
<1>3. AllApart(S) /\ IsFiniteSet(S) /\ Cardinality(S) = count - 1
  BY <1>0, FS_RemoveElement DEF AllApart
<1>4. \A index \in pushed' : \E w \in S : w.parentIndex = index
  <2>1. \A index \in pushed : \E w \in live : w.parentIndex = index
    BY DEF RingInv
  <2> QED BY <1>1, <2>1
<1>5. /\ head' \in Nat \ {0} /\ tail' \in Nat \ {0} /\ rightMargin' \in Nat
      /\ rightMargin' <= capacity
      /\ Straight(head', tail', rightMargin', S) \/ Wrapped(head', tail', rightMargin', S)
  <2>1. rightMargin <= capacity /\ capacity \in Nat
    BY DEF RingInv
  <2>2. CASE Straight(head, tail, rightMargin, live)
    <3>1. /\ head < End(b) /\ End(b) \in Nat
          /\ End(b) = tail => S = {}
          /\ End(b) # tail => Straight(End(b), tail, tail, S)
      BY <1>0, <1>2, <2>2, StraightPop, SMT
    <3>2. tail = rightMargin
      BY <2>2 DEF Straight
    <3> HIDE DEF S
    <3>3. CASE wraps
      <4>1. S = {} /\ head' = 1 /\ tail' = 1 /\ rightMargin' = 1
        BY <1>2, <3>1, <3>2, <3>3
      <4>2. Straight(1, 1, 1, {})
        BY <1>0, SMT DEF Straight, Tiles
      <4> QED BY <1>0, <2>1, <3>2, <4>1, <4>2, SMT
    <3>4. CASE ~wraps
      BY <1>0, <1>2, <2>1, <3>1, <3>2, <3>4, SMT
    <3> QED BY <3>3, <3>4
  <2>3. CASE Wrapped(head, tail, rightMargin, live)
    <3>1. /\ head < End(b) /\ End(b) \in Nat
          /\ End(b) = rightMargin => Straight(1, tail, tail, S)
          /\ End(b) # rightMargin => Wrapped(End(b), tail, rightMargin, S)
      BY <1>0, <1>2, <2>3, WrappedPop
    <3>2. tail < rightMargin
      BY <1>0, <2>3, SMT DEF Wrapped
    <3> HIDE DEF S
    <3> QED BY <1>0, <1>2, <2>1, <3>1, <3>2, SMT
  <2> QED BY <2>2, <2>3 DEF RingInv
<1> QED BY <1>2, <1>3, <1>4, <1>5 DEF RingInv

LEMMA RingNext == RingInv /\ [FifoNext]_fifoVars => RingInv'
<1> SUFFICES ASSUME RingInv, [FifoNext]_fifoVars PROVE RingInv'
  OBVIOUS
<1>1. CASE FifoPop
  BY <1>1, RingPop
<1>2. ASSUME NEW dataLen \in DataLens, FifoPush(dataLen) PROVE RingInv'
  BY <1>2, RingPush
<1>3. CASE UNCHANGED fifoVars
  BY <1>3 DEF fifoVars, vars, RingInv
<1> QED BY <1>1, <1>2, <1>3 DEF FifoNext

(* Used as a fifo, through wrapping, growing and growing while wrapped,    *)
(* the queue never runs into itself and loses no entry, and the head stays *)
(* on an entry: for every set of lengths, capacity and limit.              *)
THEOREM RingIntactHolds == FifoSpec => []RingIntact
<1>1. RingInv => RingIntact
  <2> SUFFICES ASSUME RingInv PROVE RingIntact
    OBVIOUS
  <2>1. \A b \in live : b.parentIndex \in Nat \ {0} /\ End(b) \in Nat
    BY EndIs DEF RingInv, AllApart
  <2>2. \A b \in live : End(b) <= capacity
    BY <2>1, SMT DEF RingInv, Straight, Wrapped, Tiles, leftMarginIndex
  <2>3. freelist.indexTree = {}
    BY DEF RingInv, newFreeList
  <2>4. NoOverlap
    BY <2>2, <2>3 DEF NoOverlap, RingInv, AllApart
  <2>5. ASSUME count > 0 PROVE \E b \in live : b.parentIndex = head
    <3>1. live # {}
      BY <2>5, FS_EmptySet, SMT DEF RingInv
    <3>2. CASE Straight(head, tail, rightMargin, live)
      BY <2>1, <3>1, <3>2, SMT DEF RingInv, Straight, Tiles
    <3>3. CASE Wrapped(head, tail, rightMargin, live)
      BY <3>3 DEF Wrapped, Tiles
    <3> QED BY <3>2, <3>3 DEF RingInv
  <2> QED BY <2>4, <2>5 DEF RingIntact, RingInv
<1> QED BY <1>1, RingInit, RingNext, PTL DEF FifoSpec
=============================================================================
