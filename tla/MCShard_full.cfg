CONSTANTS
    k1 = k1
    k2 = k2
    Procs = {p1}
    Key = {k1, k2}
    HashOf <- Distinct
    Slots = {s1, s2}
    Durations = {0, 2}
    Ops = {"set", "get", "del"}
    Limited = TRUE
    Start = 5
    LastSet = 5
    LastTick = 7
SPECIFICATION Spec
INVARIANT LockReleased
CHECK_DEADLOCK FALSE
