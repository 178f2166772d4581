SPECIFICATION FairSpec
CONSTANTS
    Threads = { t1, t2 }
    SlotsPerRegion = 4
    ClusterSize = 2
    NRegions = 4
    NSlots = 30
    CallBuckets <- MixedBuckets
    Kinds <- Singles
    Reaches = { 0 }
    Waits = { TRUE, FALSE }
    Growths = { 1 }
    ListLength = 2
    MaxElts = 1
    FullFor = { "insert_single" }
PROPERTY SystemProgress
CHECK_DEADLOCK FALSE
