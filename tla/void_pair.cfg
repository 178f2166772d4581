SPECIFICATION Spec
CONSTANTS
    SlotsPerBlock = 2
    MaxOffset = 3
    NSlots = 8
    XNSlots = 16
    FingerprintBits = 2
    MementoBits = 3
    CounterRange = 1
    DeletesMiss = FALSE
    KeyPrefixes <- VoidPrefixes
    KeyMementos <- VoidMementos
    MementoLists <- EqualPairs
    BulkInputs <- NoLists
INVARIANTS
    NoFalseNegatives
