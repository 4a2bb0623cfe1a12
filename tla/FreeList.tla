------------------------------ MODULE FreeList ------------------------------
(***************************************************************************)
(* The free list of bigcache/queue/freeList.go: the blocks of the byte     *)
(* array that Delete gave back.                                            *)
(*                                                                         *)
(* A free list is a record                                                 *)
(*   indexTree  the items the AVL tree holds.  The code stores an item     *)
(*              under its first and under its last position, and always    *)
(*              adds and removes the two keys together, so the tree is the *)
(*              set of its items and a lookup compares with both ends.     *)
(*   sizeList   for each of the eight size classes, the items listed       *)
(*              there.  The code keeps a slice in insertion order and      *)
(*              takes the first item that fits; the model keeps a set and  *)
(*              takes any that fits, which covers every insertion order.   *)
(* Every operation is a function from free lists to free lists.            *)
(***************************************************************************)
EXTENDS Integers

(* type itemPos *)
Item(index, size) == [parentIndex |-> index, actualSize |-> size]
ItemType == [parentIndex : Nat \ {0}, actualSize : Nat \ {0}]

(* The first position behind an item, and its two keys in indexTree. *)
End(v) == v.parentIndex + v.actualSize
Keys(v) == {v.parentIndex, End(v) - 1}

(* Two blocks share no position of the byte array. *)
Apart(v, w) == End(v) <= w.parentIndex \/ End(w) <= v.parentIndex

-----------------------------------------------------------------------------
(* Size classes: class b < 7 holds the sizes below 64 * 2^b that no        *)
(* smaller class holds, class 7 the sizes above 4096.  The switch          *)
(* statements have no case for 4096 itself.                                *)
Classes == 0 .. 7
Limit == <<64, 128, 256, 512, 1024, 2048, 4096>>

InClass(size, b) ==
    IF b = 7 THEN size > 4096
             ELSE size < Limit[b + 1] /\ (b > 0 => size >= Limit[b])

FreeListType == [indexTree : SUBSET ItemType,
                 sizeList  : [Classes -> SUBSET ItemType]]

newFreeList == [indexTree |-> {}, sizeList |-> [b \in Classes |-> {}]]

Listed(fl) == UNION {fl.sizeList[b] : b \in Classes}

putIntoSizeList(lists, item) ==
    [b \in Classes |-> IF InClass(item.actualSize, b)
                       THEN lists[b] \cup {item} ELSE lists[b]]

removeFromSizeList(lists, v) ==
    [b \in Classes |-> IF InClass(v.actualSize, b)
                       THEN lists[b] \ {v} ELSE lists[b]]

(* indexTree.Get(position): a set with the item found, or empty. *)
Lookup(fl, position) == {v \in fl.indexTree : position \in Keys(v)}

(* The tree and size-list removals of the two branches of add. *)
Untrack(fl, v) == [indexTree |-> fl.indexTree \ {v},
                   sizeList  |-> removeFromSizeList(fl.sizeList, v)]

Track(fl, item) == [indexTree |-> fl.indexTree \cup {item},
                    sizeList  |-> putIntoSizeList(fl.sizeList, item)]

-----------------------------------------------------------------------------
(* The item add ends up storing.  The branch for the right neighbour       *)
(* overwrites what the branch for the left neighbour assigned.             *)
Merged(index, size, left, right) ==
    IF right # {}
    THEN Item(index, size + (CHOOSE v \in right : TRUE).actualSize)
    ELSE IF left # {}
    THEN LET v == CHOOSE v \in left : TRUE
         IN  Item(v.parentIndex, v.actualSize + size)
    ELSE Item(index, size)

(* Mutant: a neighbour that was merged stays in the tree and the lists. *)
UntrackFoundKeeps(fl, found) == fl

UntrackFound(fl, found) ==
    IF found = {} THEN fl ELSE Untrack(fl, CHOOSE v \in found : TRUE)

add(fl, index, size) ==
    LET left  == Lookup(fl, index - 1)
        fl1   == UntrackFound(fl, left)
        right == Lookup(fl1, index + size)
        fl2   == UntrackFound(fl1, right)
    IN  Track(fl2, Merged(index, size, left, right))

-----------------------------------------------------------------------------
(* The class find starts in; 4096 matches no case and leaves index = 0. *)
FirstClass(size) ==
    IF size = 4096 THEN 0 ELSE CHOOSE b \in Classes : InClass(size, b)

(* The value of buckSize when the loop of find is at class idx. *)
BuckSize(size, idx) ==
    IF idx = 7 THEN 4097 ELSE IF size = 4096 THEN 0 ELSE Limit[idx + 1]

(* Mutant: a block that fits exactly leaves an empty item behind. *)
CarveKeepsEmpty(fl, tmp, idx, size, buckSize) ==
    add([indexTree |-> fl.indexTree \ {tmp},
         sizeList  |-> [fl.sizeList EXCEPT ![idx] = @ \ {tmp}]],
        tmp.parentIndex + size, tmp.actualSize - size)

(* Mutant: what remains stays in the list it was found in. *)
CarveInPlace(fl, tmp, idx, size, buckSize) ==
    LET rest == IF tmp.actualSize = size THEN {}
                ELSE {Item(tmp.parentIndex + size, tmp.actualSize - size)}
    IN  [indexTree |-> (fl.indexTree \ {tmp}) \cup rest,
         sizeList  |-> [fl.sizeList EXCEPT ![idx] = (@ \ {tmp}) \cup rest]]

(* Take size positions from the front of tmp, an item of class idx. *)
Carve(fl, tmp, idx, size, buckSize) ==
    LET rest    == Item(tmp.parentIndex + size, tmp.actualSize - size)
        without == [indexTree |-> fl.indexTree \ {tmp},
                    sizeList  |-> [fl.sizeList EXCEPT ![idx] = @ \ {tmp}]]
    IN  IF rest.actualSize = 0 THEN without
        ELSE IF rest.actualSize >= buckSize
        THEN [indexTree |-> without.indexTree \cup {rest},
              sizeList  |-> [without.sizeList EXCEPT ![idx] = @ \cup {rest}]]
        ELSE add(without, rest.parentIndex, rest.actualSize)

(* The items the loop of findInSizeList may stop at. *)
Fitting(fl, idx, size) == {v \in fl.sizeList[idx] : size <= v.actualSize}

(* What findInSizeList and find may return: the position found and the     *)
(* free list they leave; empty when the code returns -1.                   *)
findInSizeList(fl, idx, size, buckSize) ==
    {[index |-> tmp.parentIndex,
      list  |-> Carve(fl, tmp, idx, size, buckSize)] :
        tmp \in Fitting(fl, idx, size)}

(* Mutant: the loop leaves out the last class. *)
findShort(fl, size) ==
    UNION {findInSizeList(fl, idx, size, BuckSize(size, idx)) :
             idx \in {i \in FirstClass(size) .. 6 :
                        \A j \in FirstClass(size) .. i - 1 :
                            Fitting(fl, j, size) = {}}}

find(fl, size) ==
    UNION {findInSizeList(fl, idx, size, BuckSize(size, idx)) :
             idx \in {i \in FirstClass(size) .. 7 :
                        \A j \in FirstClass(size) .. i - 1 :
                            Fitting(fl, j, size) = {}}}
=============================================================================
