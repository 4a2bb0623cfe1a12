CONSTANTS
    DataLens = {2044, 4092, 8300}
    InitialCapacity = 2000
    MaxCapacity = 15000
SPECIFICATION Spec
INVARIANTS TypeOK NoOverlap LiveReadable FreeListConsistent FindComplete 
PROPERTY StoreContract
