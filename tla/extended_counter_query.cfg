SPECIFICATION Spec
CONSTANTS
    SlotsPerBlock = 4
    MaxOffset = 5
    NSlots = 8
    XNSlots = 16
    FingerprintBits = 2
    MementoBits = 2
    CounterRange = 1
    DeletesMiss = FALSE
    KeyPrefixes <- CounterPrefix
    KeyMementos <- AllMementos
    MementoLists <- NoLists
    BulkInputs <- NoLists
INVARIANTS
    NoFalseNegatives
