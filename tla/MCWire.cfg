SPECIFICATION FairSpec
CONSTANTS
    Message <- Messages
    ChanSize = 1
    Chunk = {5}
    MaxSent = 2
INVARIANTS TypeOK NothingLost
PROPERTIES ChannelSpec  EndsTogether
CHECK_DEADLOCK FALSE
