-------------------------------- MODULE Ttl ---------------------------------
(***************************************************************************)
(* The TTL table of bigcache/ttl.go: a tree from expiry timestamps to the  *)
(* keys that expire then, and the one timer that wakes the eviction        *)
(* goroutine.  A table is a record                                         *)
(*   timeTree   the pairs <<timestamp, key>> of the tree.  The hash set    *)
(*              the code keeps under a timestamp is never empty, so the    *)
(*              timestamp is in the tree iff some pair has it.             *)
(*   armed, at  whether the time.Timer is running, and when it expires (0  *)
(*              while it does not run)                                     *)
(*   fired      whether timer.C, of capacity one, holds a tick             *)
(* treeLock makes every operation below atomic.                            *)
(***************************************************************************)
EXTENDS Integers

Times(tree) == {r[1] : r \in tree}
KeysAt(tree, timestamp) == {r[2] : r \in {q \in tree : q[1] = timestamp}}

(* The smallest timestamp of a tree that is not empty. *)
peek(tree) == CHOOSE t \in Times(tree) : \A u \in Times(tree) : t <= u

(* timer.Stop and the drain of timer.C. *)
stopTimer(ttl) == [ttl EXCEPT !.armed = FALSE, !.at = 0, !.fired = FALSE]

(* The interval is an unsigned difference, converted to a signed duration: *)
(* for a timestamp in the past it is negative and the timer expires at     *)
(* once.  Both cases are "expires when the clock has reached timestamp".   *)
resetTimer(ttl, timestamp) ==
    [stopTimer(ttl) EXCEPT !.armed = TRUE, !.at = timestamp]

newTtlManager(tenHoursOn) ==
    [timeTree |-> {}, armed |-> TRUE, at |-> tenHoursOn, fired |-> FALSE]

put(ttl, timestamp, key) ==
    LET ttl1 == [ttl EXCEPT !.timeTree = @ \cup {<<timestamp, key>>}]
    IN  IF timestamp \notin Times(ttl.timeTree) /\ peek(ttl1.timeTree) = timestamp
        THEN resetTimer(ttl1, timestamp)
        ELSE ttl1

(* Mutant: the timer is not moved when the head goes. *)
removeKeepsTimer(ttl, timestamp, key) ==
    [ttl EXCEPT !.timeTree = @ \ {<<timestamp, key>>}]

(* The timer is set for the next timestamp when the head went; when the    *)
(* tree became empty it is left as it is.                                  *)
remove(ttl, timestamp, key) ==
    LET ttl1 == [ttl EXCEPT !.timeTree = @ \ {<<timestamp, key>>}]
        gone == timestamp \in Times(ttl.timeTree) \ Times(ttl1.timeTree)
    IN  IF gone /\ peek(ttl.timeTree) = timestamp /\ ttl1.timeTree # {}
        THEN resetTimer(ttl1, peek(ttl1.timeTree))
        ELSE ttl1

reset(ttl) == stopTimer([ttl EXCEPT !.timeTree = {}])

(* timeTree.Remove(timestamp): all the keys of a timestamp. *)
dropTime(ttl, timestamp) ==
    [ttl EXCEPT !.timeTree = {r \in @ : r[1] # timestamp}]
=============================================================================
