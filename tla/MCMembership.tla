---------------------------- MODULE MCMembership ----------------------------
(* Membership for TLC: a seed node a, nodes that join through it, and a    *)
(* node d that is told to join through c.                                  *)
EXTENDS Membership, TLC

CONSTANTS a, b, c, d

OneJoins == b :> a
TwoJoin == (b :> a) @@ (c :> a)
ThreeJoin == (b :> a) @@ (c :> a) @@ (d :> c)
=============================================================================
