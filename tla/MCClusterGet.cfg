SPECIFICATION MCSpec
CONSTANTS
    a = a
    b = b
    c = c
    Node = {a, b, c}
    Passive = {c}
    MaxBreaks = 1
    Stopping = {c}
    Key = {k1}
    Writers = {a, c}
    Workers = {w1, w2}
    Durations = {5}
    Spaced = TRUE
    Begin = 4
    LastTick = 9
    MaxWrites = 2
    Readers = {c}
    MaxGets = 2
INVARIANTS TypeOK NoPanic GetRegular ExpiryClose 
CHECK_DEADLOCK FALSE
