SPECIFICATION Spec
CONSTANTS
    a = a
    b = b
    c = c
    d = d
    NoNode = NoNode
    Node = {a, b}
    Passive = {}
    JoinIp <- OneJoins
    Reconnecting = {b}
    Slots = 2
    MaxFaults = 1
    Pings = TRUE
    OneByOne = {}
    Prompt = FALSE
INVARIANTS TypeOK RegisteredAlive SyncHeard
CHECK_DEADLOCK FALSE
