SPECIFICATION Spec
CONSTANTS
    Threads = { t1, t2 }
    SlotsPerRegion = 4
    ClusterSize = 2
    NRegions = 3
    NSlots = 3
    CallBuckets <- CrossingBuckets
    Kinds <- UpdateKinds
    Reaches = { 2 }
    Waits = { TRUE, FALSE }
    Growths = { 1 }
    ListLength = 2
    MaxElts = 3
    FullFor = {}
SYMMETRY ThreadSymmetry
INVARIANTS TypeOK LocksExact NoLostUpdate CountersExclusive SlotsBalanced OverfillBounded
