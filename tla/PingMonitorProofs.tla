------------------------- MODULE PingMonitorProofs --------------------------
(* For all intervals, timeouts, thresholds and delays that satisfy         *)
(* PingAssumption: a peer that answers in time is kept, a silent one is    *)
(* given up.                                                               *)
EXTENDS PingMonitor, TLAPS

Age == PingInterval - tickIn

(* The expiry that belongs to the current ping is still to be counted. *)
Uncounted == IF timer # Off \/ expired \/ watch \in {"start", "add"} THEN 1 ELSE 0

(* How far each goroutine can be at which time since the last tick. *)
Timing ==
    /\ tickIn = Off => /\ ~tick /\ ~expired /\ answer = Off /\ pong = "idle"
                       /\ watch \in {"start", "select"}
                       /\ timer = IF watch = "start" THEN Off ELSE PingTimeout
    /\ watch = "start" => /\ tickIn \in {Off, PingInterval}
                          /\ timer = Off /\ ~expired /\ ~tick /\ pong = "idle"
                          /\ pingFailure = 0
                          /\ answer # 0
    /\ tick => /\ timer = Off /\ ~expired /\ watch = "select"
               /\ answer = Off /\ pong = "idle" /\ tickIn = PingInterval
    /\ tickIn # Off /\ timer # Off => timer = PingTimeout - Age
    /\ expired \/ watch \in {"add", "compare"} =>
           /\ tickIn = PingInterval - PingTimeout /\ timer = Off
    /\ watch \in {"add", "compare"} => ~expired
    /\ answer # Off => answer <= Delay - Age
    /\ pong = "clear" => tickIn # 0

(* The count against the histories. *)
Counting ==
    /\ watch \in {"start", "select", "add"} => pingFailure < PingFailureThreshHold
    /\ tickIn = Off => missed = 0 /\ late = 0 /\ pingFailure = 0
    /\ late <= PingFailureThreshHold
    /\ 0 < late /\ late < PingFailureThreshHold => pingFailure + Uncounted <= late
    /\ late = 0 /\ tickIn # Off =>
           /\ ~expired /\ watch \in {"start", "select"}
           /\ \/ answer # Off /\ answer < PingTimeout - Age
              \/ timer = Off /\ pong = "clear"
              \/ timer = Off /\ pong = "idle" /\ watch = "select" /\ pingFailure = 0
    /\ missed > 0 => /\ answer = Off /\ pong = "idle"
                     /\ pingFailure + Uncounted >= missed

Inv ==
    /\ TypeOK
    /\ ~Down => Timing /\ Counting
    /\ Down => timer = Off
    /\ LivePeerKept
    /\ DeadPeerNoticed

LEMMA Config ==
    /\ PingInterval \in Nat /\ PingTimeout \in Nat \ {0}
    /\ PingFailureThreshHold \in Nat \ {0} /\ Delay \in Nat \ {0}
    /\ Delay < PingInterval /\ PingTimeout < PingInterval
BY PingAssumption DEF PingAssumption, PingInterval, PingTimeout, PingFailureThreshHold

LEMMA InvInit == Init => Inv
<1> SUFFICES ASSUME Init PROVE Inv
  OBVIOUS
<1> USE Config DEF Init, Off
<1>1. TypeOK
  <2>1. tick \in BOOLEAN /\ expired \in BOOLEAN
    BY Zenon
  <2> QED
    BY <2>1 DEF TypeOK
<1>2. Timing
  BY DEF Timing, Age
<1>3. Counting
  BY DEF Counting, Uncounted
<1> QED
  BY <1>1, <1>2, <1>3 DEF Inv, Down, LivePeerKept, DeadPeerNoticed

LEMMA InvNext == Inv /\ [Next]_vars => Inv'
<1> SUFFICES ASSUME Inv, [Next]_vars PROVE Inv'
  OBVIOUS
<1> USE Config DEF Inv, TypeOK, Down, Timing, Counting, Uncounted, Age, Off, LivePeerKept, DeadPeerNoticed
<1>1. CASE NewTicker
  <2>1. TypeOK'
    BY <1>1 DEF NewTicker, sendPing, oneMoreLate
  <2>2. ~Down => Timing'
    BY <1>1 DEF NewTicker, sendPing, oneMoreLate
  <2>3. ~Down => Counting'
    BY <1>1 DEF NewTicker, sendPing, oneMoreLate
  <2>4. Down' <=> Down
    BY <1>1 DEF NewTicker
  <2>5. LivePeerKept' /\ DeadPeerNoticed' /\ (Down => timer = Off)'
    BY <1>1 DEF NewTicker, sendPing, oneMoreLate
  <2> QED
    BY <2>1, <2>2, <2>3, <2>4, <2>5, Zenon
<1>2. CASE PingTick
  <2>1. tick' \in BOOLEAN /\ expired' \in BOOLEAN
    BY <1>2, Zenon DEF PingTick
  <2>2. TypeOK'
    BY <1>2, <2>1 DEF PingTick, sendPing, oneMoreLate
  <2>3. Timing'
    BY <1>2 DEF PingTick, sendPing, oneMoreLate
  <2>4. Counting'
    BY <1>2 DEF PingTick, sendPing, oneMoreLate
  <2>5. ~Down'
    BY <1>2 DEF PingTick
  <2>6. DeadPeerNoticed'
    BY <1>2 DEF PingTick, sendPing, oneMoreLate
  <2> QED
    BY <2>2, <2>3, <2>4, <2>5, <2>6, Zenon
<1>3. CASE NewTimer
  BY <1>3 DEF NewTimer
<1>4. CASE TimeoutReceived
  BY <1>4, Zenon DEF TimeoutReceived
<1>5. CASE AddFailure
  BY <1>5 DEF AddFailure
<1>6. CASE CompareFailure
  <2>1. CASE pingFailure >= PingFailureThreshHold
    BY <1>6, <2>1 DEF CompareFailure
  <2>2. CASE ~(pingFailure >= PingFailureThreshHold)
    BY <1>6, <2>2 DEF CompareFailure
  <2> QED
    BY <2>1, <2>2
<1>7. CASE PongStops
  <2>1. tick' \in BOOLEAN /\ expired' \in BOOLEAN
    BY <1>7, Zenon DEF PongStops
  <2>2. TypeOK'
    BY <1>7, <2>1 DEF PongStops
  <2>3. Timing'
    BY <1>7 DEF PongStops
  <2>4. Counting'
    BY <1>7 DEF PongStops
  <2>5. ~Down'
    BY <1>7 DEF PongStops
  <2>6. DeadPeerNoticed'
    BY <1>7 DEF PongStops
  <2> QED
    BY <2>2, <2>3, <2>4, <2>5, <2>6, Zenon
<1>8. CASE PongClears
  BY <1>8 DEF PongClears
<1>9. CASE TickerTicks
  BY <1>9 DEF TickerTicks
<1>10. CASE TimerExpires
  BY <1>10 DEF TimerExpires
<1>11. CASE SecondPasses
  BY <1>11 DEF SecondPasses, Busy, Less
<1>12. CASE UNCHANGED vars
  BY <1>12 DEF vars
<1> QED
  BY <1>1, <1>2, <1>3, <1>4, <1>5, <1>6, <1>7, <1>8, <1>9, <1>10, <1>11, <1>12, Zenon DEF Next

LEMMA InvHolds == Spec => []Inv
BY InvInit, InvNext, PTL DEF Spec

(* The variables keep their types. *)
THEOREM TypesHold == Spec => []TypeOK
<1>1. Inv => TypeOK
  BY DEF Inv
<1> QED
  BY <1>1, InvHolds, PTL

(* A peer that answers in time is never given up (start, handlePong). *)
THEOREM LivePeerKeptHolds == Spec => []LivePeerKept
<1>1. Inv => LivePeerKept
  BY DEF Inv
<1> QED
  BY <1>1, InvHolds, PTL

(* A silent peer is given up after PingFailureThreshHold pings (start). *)
THEOREM DeadPeerNoticedHolds == Spec => []DeadPeerNoticed
<1>1. Inv => DeadPeerNoticed
  BY DEF Inv
<1> QED
  BY <1>1, InvHolds, PTL
=============================================================================
