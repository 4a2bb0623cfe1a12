CONSTANTS
    k1 = k1
    k2 = k2
    Procs = {p1}
    Key = {k1, k2}
    HashOf <- Distinct
    Slots = {s1, s2}
    Durations <- PastToSoon
    Ops = {"set", "get", "del"}
    Limited = FALSE
    Start = 5
    LastSet = 5
    LastTick = 6
SPECIFICATION FairSpec
INVARIANTS IndexConsistent ExpiryCovered 
PROPERTY ExpiresEventually
