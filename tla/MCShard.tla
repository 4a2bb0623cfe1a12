------------------------------- MODULE MCShard ------------------------------
(* Shard for TLC: two keys with different hashes, or one key. *)
EXTENDS Shard, TLC

CONSTANTS k1, k2

Distinct == (k1 :> 1) @@ (k2 :> 2)
Single == k1 :> 1

(* Half seconds: expired a second ago (a replica gets such entries), no    *)
(* expiry, expires in a second.                                            *)
PastToSoon == {-2, 0, 2}

(* Callers are alike, and so are the slots of the byte queue. *)
Alike == Permutations(Procs) \cup Permutations(Slots)
=============================================================================
