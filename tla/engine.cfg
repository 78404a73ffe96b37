SPECIFICATION FairSpec
CONSTANTS
    Keys <- ThreeKeys
    Values = {"a", "b"}
    Batches <- FewBatches
    Readers = {r1}
    MemtableEntries = 2
    SegmentFrames = 1
    FileEntries = 1
    L0Trigger = 1
    MaxSSTFiles = 3
    MaxLSN = 3
    MaxStops = 2
INVARIANTS
    TypeOK
    VisibleIsDurable
    ReopenableUntilFull
PROPERTIES
    ImplementsDurableMap
    ServesAgain
CHECK_DEADLOCK FALSE
