--------------------------- MODULE BytesQueueFifo ---------------------------
(***************************************************************************)
(* The byte queue driven as the "queue type of fifo" of its comment: Push  *)
(* and Pop (removeOldestEntry), no Delete, so that the free list stays     *)
(* empty and the array is used as a ring.  pushed is a history variable:   *)
(* the indexes Push returned whose entries Pop has not yet returned.       *)
(***************************************************************************)
EXTENDS BytesQueue

VARIABLE pushed

fifoVars == <<vars, pushed>>

FifoInit == NewBytesQueue /\ pushed = {}

(* A failed Push changes nothing; any other leaves the tail at the end of  *)
(* the entry it wrote.                                                     *)
FifoPush(dataLen) ==
    /\ Push(dataLen)
    /\ pushed' = IF count' = count THEN pushed
                 ELSE pushed \cup {tail' - Need(dataLen)}

FifoPop ==
    \E b \in live :
        /\ Pop(b)
        /\ pushed' = pushed \ {b.parentIndex}

FifoNext == FifoPop \/ \E dataLen \in DataLens : FifoPush(dataLen)

FifoSpec == FifoInit /\ [][FifoNext]_fifoVars

-----------------------------------------------------------------------------
(* The ring never runs into itself: whatever wraps and grows, live entries *)
(* stay apart and inside the array, none is written over another, every    *)
(* entry pushed and not popped is still there, and when the queue is not   *)
(* empty Pop finds an entry at the head, not the middle of one.            *)
RingIntact ==
    /\ NoOverlap
    /\ count = Cardinality(live)
    /\ \A index \in pushed : \E b \in live : b.parentIndex = index
    /\ count > 0 => \E b \in live : b.parentIndex = head
=============================================================================
