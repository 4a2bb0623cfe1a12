SPECIFICATION Spec
CONSTANTS
    ConfigInterval = 0
    ConfigTimeout = 3
    ConfigThreshHold = 3
    Delay = 4
INVARIANTS TypeOK LivePeerKept DeadPeerNoticed
CHECK_DEADLOCK FALSE
