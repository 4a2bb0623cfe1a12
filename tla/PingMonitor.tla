---------------------------- MODULE PingMonitor -----------------------------
(***************************************************************************)
(* How a remoteNode finds out that its peer is dead (cluster/remoteNode.go):*)
(* the goroutine of start that sends a PING at every tick of pingTimer and *)
(* sets pingTimeout, the goroutine that counts the expiries of pingTimeout *)
(* in pingFailure and gives up at PingFailureThreshHold, and handlePong,   *)
(* which stops the timer and clears the count.  The three run concurrently *)
(* and share the timer, its channel and the count.                         *)
(*                                                                         *)
(* Time is counted down in seconds.  A second passes when no goroutine has *)
(* anything to do: goroutines are scheduled in far less.  What happens in  *)
(* one second happens in any order.  A PING is answered within Delay, in   *)
(* time or too late, or never: the peer is dead, stuck, or one of the ends *)
(* is still in the handshake, where queueInboundMessage discards PING and  *)
(* PONG.                                                                   *)
(***************************************************************************)
EXTENDS Integers, Sequences

CONSTANTS
    ConfigInterval, ConfigTimeout, ConfigThreshHold,   \* as configured
    Delay                         \* seconds an answer takes at most

(* checkConfig: defaults for what is not configured. *)
PingInterval == IF ConfigInterval < 1 THEN 5 ELSE ConfigInterval
PingTimeout == IF ConfigTimeout < 1 THEN 3 ELSE ConfigTimeout
PingFailureThreshHold == IF ConfigThreshHold = 0 THEN 5 ELSE ConfigThreshHold

(* checkConfig warns when PingTimeout > PingInterval; see the README for   *)
(* PingTimeout = PingInterval.                                             *)
ASSUME PingAssumption ==
    /\ ConfigInterval \in Int /\ ConfigTimeout \in Int
    /\ ConfigThreshHold \in Nat
    /\ Delay \in Nat \ {0}
    /\ Delay < PingInterval
    /\ PingTimeout < PingInterval

VARIABLES
    tickIn,        \* seconds to the next tick of pingTimer; Off before NewTicker
    tick,          \* pingTimer.C holds a tick
    timer,         \* seconds to the expiry of pingTimeout; Off when it does not run
    expired,       \* pingTimeout.C holds a value
    pingFailure,
    watch,         \* the goroutine of pingTimeout
    pong,          \* the handler inside handlePong
    answer,        \* seconds until the PONG under way arrives; Off if there is none
    missed,        \* history: the last so many PINGs in a row get no answer
    late           \* history: ... or none within PingTimeout (up to the threshold)

vars == <<tickIn, tick, timer, expired, pingFailure, watch, pong, answer, missed, late>>

Off == -1
Down == watch = "ended"

Init ==
    /\ tickIn = Off /\ tick = FALSE
    /\ timer = Off /\ expired = FALSE
    /\ pingFailure = 0
    /\ watch = "start" /\ pong = "idle"
    /\ answer = Off /\ missed = 0 /\ late = 0

-----------------------------------------------------------------------------
oneMoreLate == IF late < PingFailureThreshHold THEN late + 1 ELSE late

(* sendMessage(PING).  An earlier answer has arrived, as Delay is less     *)
(* than PingInterval.                                                      *)
sendPing ==
    \/ \E d \in 1 .. Delay :
          /\ answer' = d
          /\ missed' = 0
          /\ late' = IF d < PingTimeout THEN 0 ELSE oneMoreLate
    \/ /\ UNCHANGED answer
       /\ missed' = missed + 1
       /\ late' = oneMoreLate

(* The goroutine of pingTimer: the ticker, and the first PING ... *)
NewTicker ==
    /\ tickIn = Off /\ ~Down
    /\ tickIn' = PingInterval
    /\ sendPing
    /\ UNCHANGED <<tick, timer, expired, pingFailure, watch, pong>>

(* Mutant: the timer is left alone. *)
PingTickNoReset ==
    /\ tick /\ ~Down
    /\ tick' = FALSE
    /\ sendPing
    /\ UNCHANGED <<tickIn, timer, expired, pingFailure, watch, pong>>

(* Mutant: the timer is set to the interval of the pings. *)
PingTickWrongTimeout ==
    /\ tick /\ ~Down
    /\ tick' = FALSE
    /\ timer' = PingInterval /\ expired' = FALSE
    /\ sendPing
    /\ UNCHANGED <<tickIn, pingFailure, watch, pong>>

(* ... then, at every tick: Stop, drain, Reset, the next PING. *)
PingTick ==
    /\ tick /\ ~Down
    /\ tick' = FALSE
    /\ timer' = PingTimeout /\ expired' = FALSE
    /\ sendPing
    /\ UNCHANGED <<tickIn, pingFailure, watch, pong>>

-----------------------------------------------------------------------------
(* The goroutine of pingTimeout: the timer ... *)
NewTimer ==
    /\ watch = "start"
    /\ timer' = PingTimeout
    /\ watch' = "select"
    /\ UNCHANGED <<tickIn, tick, expired, pingFailure, pong, answer, missed, late>>

(* ... then receive, add one, compare: another goroutine may clear the     *)
(* count between any two of these.                                         *)
TimeoutReceived ==
    /\ watch = "select" /\ expired
    /\ expired' = FALSE
    /\ watch' = "add"
    /\ UNCHANGED <<tickIn, tick, timer, pingFailure, pong, answer, missed, late>>

AddFailure ==
    /\ watch = "add"
    /\ pingFailure' = pingFailure + 1
    /\ watch' = "compare"
    /\ UNCHANGED <<tickIn, tick, timer, expired, pong, answer, missed, late>>

(* At the threshold the timer is stopped and the goroutine returns, which  *)
(* ends the run.Group and with it the connection.                          *)
CompareFailure ==
    /\ watch = "compare"
    /\ IF pingFailure >= PingFailureThreshHold
       THEN watch' = "ended" /\ timer' = Off
       ELSE watch' = "select" /\ UNCHANGED timer
    /\ UNCHANGED <<tickIn, tick, expired, pingFailure, pong, answer, missed, late>>

-----------------------------------------------------------------------------
(* handlePong: Stop and drain, then the count. *)
PongStops ==
    /\ pong = "idle" /\ answer = 0 /\ ~Down
    /\ answer' = Off
    /\ timer' = Off /\ expired' = FALSE
    /\ pong' = "clear"
    /\ UNCHANGED <<tickIn, tick, pingFailure, watch, missed, late>>

(* Mutant: the count is never cleared. *)
PongClearsNothing ==
    /\ pong = "clear" /\ ~Down
    /\ pong' = "idle"
    /\ UNCHANGED <<tickIn, tick, timer, expired, pingFailure, watch, answer, missed, late>>

PongClears ==
    /\ pong = "clear" /\ ~Down
    /\ pingFailure' = 0
    /\ pong' = "idle"
    /\ UNCHANGED <<tickIn, tick, timer, expired, watch, answer, missed, late>>

-----------------------------------------------------------------------------
(* The runtime. *)
TickerTicks ==
    /\ tickIn = 0 /\ ~Down
    /\ tickIn' = PingInterval
    /\ tick' = TRUE
    /\ UNCHANGED <<timer, expired, pingFailure, watch, pong, answer, missed, late>>

TimerExpires ==
    /\ timer = 0
    /\ timer' = Off
    /\ expired' = TRUE
    /\ UNCHANGED <<tickIn, tick, pingFailure, watch, pong, answer, missed, late>>

Less(t) == IF t = Off THEN Off ELSE t - 1

Busy ==
    \/ tickIn \in {Off, 0} \/ tick
    \/ timer = 0 \/ expired
    \/ watch # "select"
    \/ answer = 0 \/ pong # "idle"

SecondPasses ==
    /\ ~Busy
    /\ tickIn' = Less(tickIn)
    /\ timer' = Less(timer)
    /\ answer' = Less(answer)
    /\ UNCHANGED <<tick, expired, pingFailure, watch, pong, missed, late>>

Next ==
    \/ NewTicker \/ PingTick
    \/ NewTimer \/ TimeoutReceived \/ AddFailure \/ CompareFailure
    \/ PongStops \/ PongClears
    \/ TickerTicks \/ TimerExpires
    \/ SecondPasses

Spec == Init /\ [][Next]_vars

-----------------------------------------------------------------------------
(* Types. *)
TypeOK ==
    /\ tickIn \in Off .. PingInterval /\ tick \in BOOLEAN
    /\ timer \in Off .. PingTimeout /\ expired \in BOOLEAN
    /\ pingFailure \in Nat
    /\ watch \in {"start", "select", "add", "compare", "ended"}
    /\ pong \in {"idle", "clear"}
    /\ answer \in Off .. Delay
    /\ missed \in Nat /\ late \in Nat

(* A connection is given up only when PingFailureThreshHold pings in a row *)
(* have gone without an answer in time: no expiry is counted twice, none   *)
(* of a ping answered in time is counted, and none survives the answer to  *)
(* a later one.  A peer that answers in time is kept for ever.             *)
LivePeerKept == Down => late >= PingFailureThreshHold

(* A silent peer is noticed: the connection has been given up before ping  *)
(* number PingFailureThreshHold + 1 is sent in vain, as no expiry is lost. *)
DeadPeerNoticed == missed <= PingFailureThreshHold
=============================================================================
