SPECIFICATION FairSpec
CONSTANTS
    a = a
    b = b
    c = c
    d = d
    NoNode = NoNode
    Node = {a, b, c, d}
    Passive = {c, d}
    JoinIp <- ThreeJoin
    Reconnecting = {c, d}
    Slots = 4
    MaxFaults = 0
    Pings = FALSE
    OneByOne = {b, c}
    Prompt = TRUE
PROPERTIES MeshForms Settles
CHECK_DEADLOCK FALSE
