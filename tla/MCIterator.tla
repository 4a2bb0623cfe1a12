---------------------------- MODULE MCIterator -----------------------------
(* Iterator for TLC: three shards, the middle one for a single key.        *)
EXTENDS Iterator, TLC

CONSTANTS k1, k2, k3, k4

TwoOneOne == (k1 :> 1) @@ (k2 :> 1) @@ (k3 :> 2) @@ (k4 :> 3)

(* The two keys of the first shard are alike. *)
Swap == Permutations({k1, k2})
=============================================================================
