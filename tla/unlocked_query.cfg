SPECIFICATION ConcurrentSpec
CONSTANTS
    SlotsPerBlock = 2
    MaxOffset = 3
    NSlots = 6
    XNSlots = 16
    FingerprintBits = 2
    MementoBits = 2
    CounterRange = 1
    DeletesMiss = FALSE
    KeyPrefixes <- AdjacentPrefixes
    KeyMementos <- OneMemento
    MementoLists <- NoLists
    BulkInputs <- NoLists
INVARIANTS
    QueryFindsHeld
