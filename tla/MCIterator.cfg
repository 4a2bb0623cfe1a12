SPECIFICATION Spec
CONSTANTS
    k1 = k1
    k2 = k2
    k3 = k3
    k4 = k4
    NoKey = NoKey
    Shards = 3
    Key = {k1, k2, k3, k4}
    ShardOf <- TwoOneOne
    Slots = {1, 2}
    OneCaller = TRUE
INVARIANTS TypeOK VisitsOnce  
CHECK_DEADLOCK FALSE
SYMMETRY Swap
