SPECIFICATION Spec
CONSTANTS
    SlotsPerBlock = 2
    MaxOffset = 3
    NSlots = 6
    XNSlots = 16
    FingerprintBits = 2
    MementoBits = 2
    CounterRange = 1
    DeletesMiss = TRUE
    KeyPrefixes <- SameFingerprint
    KeyMementos <- CounterMementos
    MementoLists <- NoLists
    BulkInputs <- NoLists
INVARIANTS
    AbsentNotDeleted
