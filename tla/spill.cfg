SPECIFICATION Spec
CONSTANTS
    SlotsPerBlock = 2
    MaxOffset = 3
    NSlots = 8
    XNSlots = 18
    FingerprintBits = 2
    MementoBits = 2
    CounterRange = 1
    DeletesMiss = FALSE
    KeyPrefixes <- SpillPrefixes
    KeyMementos <- SpillMementos
    MementoLists <- SpillLists
    BulkInputs <- SpillInputs
INVARIANTS
    TypeOK
    RunsWellFormed
    OffsetsExact
    NavigationExact
    SlotsAccounted
    IterationExact
