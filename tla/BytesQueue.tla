----------------------------- MODULE BytesQueue -----------------------------
(***************************************************************************)
(* bigcache/queue/bytes_queue.go: the byte array a shard keeps its entries *)
(* in.  The bytes themselves are abstracted: live is the set of blocks     *)
(* (four header bytes and the data) that were pushed and not yet deleted   *)
(* or popped, so reading the header at a live index gives that block's     *)
(* size as long as no two live blocks overlap, which is what is checked.   *)
(*                                                                         *)
(* Spec is the queue as the shard drives it: Push and Delete.  ResetSpec   *)
(* adds Reset; module BytesQueueFifo drives the same actions as the fifo   *)
(* of the type's comment, with Pop.                                        *)
(***************************************************************************)
EXTENDS FreeList, FiniteSets

CONSTANTS
    DataLens,         \* lengths of the entries pushed
    InitialCapacity,
    MaxCapacity       \* maxCapacity; 0 means no limit

(* wrapEntry never produces an empty entry; initNewShard never asks for an *)
(* empty array.                                                            *)
ASSUME QueueAssumption ==
    /\ DataLens \subseteq Nat \ {0}
    /\ InitialCapacity \in Nat \ {0}
    /\ MaxCapacity \in Nat

VARIABLES capacity, head, tail, rightMargin, count, live, freelist

vars == <<capacity, head, tail, rightMargin, count, live, freelist>>

headerEntrySize == 4
leftMarginIndex == 1
minimumEmptyBlobSize == 32 + headerEntrySize

Need(dataLen) == dataLen + headerEntrySize

NewBytesQueue ==
    /\ capacity = InitialCapacity
    /\ head = leftMarginIndex
    /\ tail = leftMarginIndex
    /\ rightMargin = leftMarginIndex
    /\ count = 0
    /\ live = {}
    /\ freelist = newFreeList

-----------------------------------------------------------------------------
availableSpaceAfterTail ==
    IF tail >= head THEN capacity - tail
                    ELSE head - tail - minimumEmptyBlobSize

availableSpaceBeforeHead ==
    IF tail >= head THEN head - leftMarginIndex - minimumEmptyBlobSize
                    ELSE head - tail - minimumEmptyBlobSize

(* copy(array[tail:], data): Go's copy stops at the end of the array. *)
copyTo(at, size, cap) == IF at + size <= cap THEN at + size ELSE cap

(* push at position `at`, in the state that capacity cap, head h, blocks   *)
(* bs and count c describe.                                                *)
push(at, size, cap, h, bs, c) ==
    /\ capacity' = cap
    /\ head' = h
    /\ tail' = copyTo(at, size, cap)
    /\ rightMargin' = IF tail' > h THEN tail' ELSE rightMargin
    /\ live' = bs \cup {Item(at, size)}
    /\ count' = c + 1
    /\ UNCHANGED freelist

-----------------------------------------------------------------------------
(* Push, one action per way through it. *)

(* Mutant: count is not incremented. *)
PushReuseUncounted(dataLen) ==
    \E hit \in find(freelist, Need(dataLen)) :
        /\ live' = live \cup {Item(hit.index, Need(dataLen))}
        /\ freelist' = hit.list
        /\ UNCHANGED <<capacity, head, tail, rightMargin, count>>

(* Mutant: the block is taken without room for its header. *)
PushReuseNoHeader(dataLen) ==
    \E hit \in find(freelist, Need(dataLen)) :
        /\ live' = live \cup {Item(hit.index, dataLen)}
        /\ freelist' = hit.list
        /\ count' = count + 1
        /\ UNCHANGED <<capacity, head, tail, rightMargin>>

(* The free list has room. *)
PushReuse(dataLen) ==
    \E hit \in find(freelist, Need(dataLen)) :
        /\ live' = live \cup {Item(hit.index, Need(dataLen))}
        /\ freelist' = hit.list
        /\ count' = count + 1
        /\ UNCHANGED <<capacity, head, tail, rightMargin>>

NoReuse(dataLen) == find(freelist, Need(dataLen)) = {}

NoSpace(dataLen) ==
    /\ availableSpaceAfterTail < Need(dataLen)
    /\ availableSpaceBeforeHead < Need(dataLen)

(* The entry fits behind the tail, or else the tail wraps around to the    *)
(* left margin.                                                            *)
PushPlace(dataLen) ==
    IF availableSpaceAfterTail < Need(dataLen) THEN leftMarginIndex ELSE tail

PushInPlace(dataLen) ==
    /\ NoReuse(dataLen)
    /\ ~NoSpace(dataLen)
    /\ push(PushPlace(dataLen), Need(dataLen), capacity, head, live, count)

AtLimit(dataLen) ==
    capacity + Need(dataLen) >= MaxCapacity /\ MaxCapacity > 0

(* "Full queue. Maximum size limit reached." *)
PushFull(dataLen) ==
    /\ NoReuse(dataLen) /\ NoSpace(dataLen)
    /\ AtLimit(dataLen)
    /\ UNCHANGED vars

(* Mutant: the limit is not applied after doubling. *)
GrownCapacityUnlimited(minimum) ==
    2 * (IF capacity < minimum THEN capacity + minimum ELSE capacity)

GrownCapacity(minimum) ==
    LET doubled == 2 * (IF capacity < minimum THEN capacity + minimum
                                              ELSE capacity)
    IN  IF doubled > MaxCapacity /\ MaxCapacity > 0 THEN MaxCapacity
                                                    ELSE doubled

(* Mutant: the copy stops one byte short. *)
CopiedBlocksShort == {b \in live : End(b) < rightMargin}

(* oldArray[:rightMargin] is all that is copied to the new array. *)
CopiedBlocks == {b \in live : End(b) <= rightMargin}

(* allocateAdditionalMemory, then push.  A queue that had wrapped gets an  *)
(* empty entry over the gap between tail and head.                         *)
PushGrow(dataLen) ==
    /\ NoReuse(dataLen) /\ NoSpace(dataLen)
    /\ ~AtLimit(dataLen)
    /\ LET cap == GrownCapacity(Need(dataLen))
       IN  IF tail < head /\ rightMargin # leftMarginIndex
           THEN push(rightMargin, Need(dataLen), cap, leftMarginIndex,
                     CopiedBlocks \cup {Item(tail, head - tail)}, count + 1)
           ELSE push(tail, Need(dataLen), cap, head, CopiedBlocks, count)

Push(dataLen) ==
    \/ PushReuse(dataLen)
    \/ PushInPlace(dataLen)
    \/ PushFull(dataLen)
    \/ PushGrow(dataLen)

-----------------------------------------------------------------------------
(* The checks of peek, which Get, Peek, Pop and Delete all start with. *)
peek(index) ==
    /\ count # 0
    /\ index > 0
    /\ index + headerEntrySize < capacity

Delete(b) ==
    /\ peek(b.parentIndex)
    /\ freelist' = add(freelist, b.parentIndex, b.actualSize)
    /\ live' = live \ {b}
    /\ count' = count - 1
    /\ UNCHANGED <<capacity, head, tail, rightMargin>>

Pop(b) ==
    /\ peek(head)
    /\ b.parentIndex = head
    /\ LET next == End(b)
           wraps == next = rightMargin
       IN  /\ head' = IF wraps THEN leftMarginIndex ELSE next
           /\ tail' = IF wraps /\ tail = rightMargin THEN leftMarginIndex
                                                     ELSE tail
           /\ rightMargin' = IF wraps THEN tail' ELSE rightMargin
    /\ live' = live \ {b}
    /\ count' = count - 1
    /\ UNCHANGED <<capacity, freelist>>

(* "Just reset indexes": the free list stays as it is. *)
Reset ==
    /\ head' = leftMarginIndex
    /\ tail' = leftMarginIndex
    /\ rightMargin' = leftMarginIndex
    /\ count' = 0
    /\ live' = {}
    /\ UNCHANGED <<capacity, freelist>>

-----------------------------------------------------------------------------
(* The shard deletes only blocks its hash map points to: live ones. *)
Next ==
    \/ \E dataLen \in DataLens : Push(dataLen)
    \/ \E b \in live : Delete(b)

Spec == NewBytesQueue /\ [][Next]_vars

ResetSpec == NewBytesQueue /\ [][Next \/ Reset]_vars

-----------------------------------------------------------------------------
(* Types.  Positions handed to the array are positions of the array, and   *)
(* no item of the free list is empty.                                      *)
TypeOK ==
    /\ capacity \in Nat \ {0}
    /\ head \in 1 .. capacity
    /\ tail \in 1 .. capacity
    /\ rightMargin \in 1 .. capacity
    /\ count \in Nat
    /\ live \subseteq ItemType
    /\ freelist \in FreeListType

(* No byte belongs to two blocks, live or free, and every block lies       *)
(* inside the array: what Push wrote at an index is still there when Get   *)
(* reads it, and copy never cut it short.                                  *)
NoOverlap ==
    /\ \A v, w \in live \cup freelist.indexTree : v # w => Apart(v, w)
    /\ live \cap freelist.indexTree = {}
    /\ \A v \in live \cup freelist.indexTree : End(v) <= capacity

(* count counts the live blocks, and the checks of peek let every one of   *)
(* them be read and deleted.                                               *)
LiveReadable ==
    /\ count = Cardinality(live)
    /\ \A b \in live : peek(b.parentIndex)

(* indexTree and sizeList agree: what is listed is tracked, under the      *)
(* class of its size; what is tracked is listed unless its size is 4096;   *)
(* and no two tracked items are neighbours that add should have merged.    *)
FreeListConsistent ==
    /\ \A b \in Classes : \A v \in freelist.sizeList[b] :
          v \in freelist.indexTree /\ InClass(v.actualSize, b)
    /\ \A v \in freelist.indexTree : v.actualSize = 4096 \/ v \in Listed(freelist)
    /\ \A v, w \in freelist.indexTree : End(v) # w.parentIndex

(* The search by size class misses nothing: Push grows the array only when *)
(* no listed item is large enough.                                         *)
FindComplete ==
    \A dataLen \in DataLens :
        NoReuse(dataLen) =>
            \A v \in Listed(freelist) : v.actualSize < Need(dataLen)

(* Growing respects the limit the shard was configured with. *)
CapacityBounded ==
    MaxCapacity > 0 => capacity <= MaxCapacity \/ capacity = InitialCapacity

Store == INSTANCE BlockStore WITH
            blocks <- live, Sizes <- {Need(dataLen) : dataLen \in DataLens}

(* The queue keeps the promise of module BlockStore: under Push and Delete *)
(* it hands out blocks apart from all those in use, of the size asked for. *)
StoreContract == Store!Spec
=============================================================================
