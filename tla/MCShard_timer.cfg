CONSTANTS
    k1 = k1
    k2 = k2
    Procs = {p1, p2}
    Key = {k1}
    HashOf <- Single
    Slots = {s1, s2}
    Durations = {0, 1, 2}
    Ops = {"set", "get", "del", "reset"}
    Limited = TRUE
    Start = 5
    LastSet = 5
    LastTick = 6
SPECIFICATION Spec
INVARIANTS TypeOK TimerServesHead
SYMMETRY Alike
CHECK_DEADLOCK FALSE
