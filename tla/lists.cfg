SPECIFICATION Spec
CONSTANTS
    SlotsPerBlock = 2
    MaxOffset = 3
    NSlots = 6
    XNSlots = 16
    FingerprintBits = 2
    MementoBits = 3
    CounterRange = 1
    DeletesMiss = FALSE
    KeyPrefixes <- BoxPrefixes
    KeyMementos <- BoxMementoSet
    MementoLists <- GivenLists
    BulkInputs <- NoLists
INVARIANTS
    BoxesSorted
    PointQueryExact
    RangeQueryExact
    DeleteFindsExact
