CONSTANTS
    DataLens = {30, 60}
    InitialCapacity = 100
    MaxCapacity = 460
SPECIFICATION FifoSpec
INVARIANT RingIntact
