SPECIFICATION Spec
CONSTANTS
    SlotsPerBlock = 2
    MaxOffset = 3
    NSlots = 4
    XNSlotsAfter <- TwoXNSlots
    FingerprintBits = 2
    MementoBits = 3
    CounterRange = 1
    DeletesMiss = FALSE
    OrigQuotientBits = 1
    Extension = 1
    MaxDoublings = 1
    MaxDoubledSlots = 4
    KeyHashes <- PartingHashes
    KeyMementos <- EndMementos
    MementoLists <- GrowingLists
    HashedInputs <- LoadedKeys
INVARIANTS
    CopyExact
    AnswersKept
    GrownWellFormed
PROPERTIES
    RefinesMultiset
