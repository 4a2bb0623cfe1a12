----------------------------- MODULE BlockStore -----------------------------
(***************************************************************************)
(* What the byte queue promises the shard: Push hands out a block that     *)
(* overlaps no block still in use, and nothing but Delete takes a block    *)
(* away.  "For every push operation index of entry is returned. It can be  *)
(* used to read the entry later" (bytes_queue.go:20).                      *)
(***************************************************************************)
EXTENDS FreeList

CONSTANT Sizes   \* sizes of the blocks asked for, header included

VARIABLE blocks  \* the blocks in use

Init == blocks = {}

Alloc(b) ==
    /\ b.parentIndex > 0 /\ b.actualSize \in Sizes
    /\ \A c \in blocks : Apart(b, c)
    /\ blocks' = blocks \cup {b}

Free(b) ==
    /\ b \in blocks
    /\ blocks' = blocks \ {b}

Next ==
    \/ \E b \in blocks' : Alloc(b)
    \/ \E b \in blocks : Free(b)

Spec == Init /\ [][Next]_blocks
=============================================================================
