SPECIFICATION Spec
CONSTANTS
    SlotsPerBlock = 4
    MaxOffset = 5
    NSlots = 11
    XNSlots = 20
    FingerprintBits = 2
    MementoBits = 2
    CounterRange = 2
    DeletesMiss = FALSE
    KeyPrefixes <- CounterPrefix
    KeyMementos <- CounterMementos
    MementoLists <- NoLists
    BulkInputs <- NoLists
INVARIANTS
    RunsWellFormed
    SlotsAccounted
PROPERTY RefinesMultiset
