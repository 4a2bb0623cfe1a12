---------------------------- MODULE MCClusterGet ----------------------------
(***************************************************************************)
(* ClusterGet for TLC: two nodes with a cache and a passive client.        *)
(***************************************************************************)
EXTENDS ClusterGet, TLC

CONSTANTS a, b, c

(* Bound: failures, the passing of time and a second Get are explored one  *)
(* at a time, each once a write or a Get has begun; the client writes only *)
(* before it reads, and only one thing fails, after the handshakes (a       *)
(* failure during one is in Membership).                                   *)
Budget ==
    /\ broken => now = Begin /\ gets + writes = 1
    /\ broken => \A p \in Pair : link[p].up => link[p].state = "connected"
    /\ now > Begin => gets = 0 /\ writes = 1
    /\ writes > 0 \/ gets <= 1
    /\ gets > 0 => writer[c] = Idle
    /\ status[c] = "ended" => \A p \in Pair : link[p].up \/ ~Alive(p[1]) \/ ~Alive(p[2])

MCSpec == Init /\ [][Next /\ Budget']_vars
=============================================================================
