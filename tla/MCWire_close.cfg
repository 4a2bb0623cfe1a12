SPECIFICATION Spec
CONSTANTS
    Message <- Messages
    ChanSize = 1
    Chunk = {5}
    MaxSent = 2
INVARIANTS NoCrash
CHECK_DEADLOCK FALSE
