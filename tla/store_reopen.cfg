SPECIFICATION StoreSpec
CONSTANTS
    Keys <- OneKey
    Values = {"a"}
    Batches <- OneBatch
    Readers = {}
    MemtableEntries = 4
    SegmentFrames = 4
    FileEntries = 1
    L0Trigger = 4
    MaxSSTFiles = 5
    MaxLSN = 2
    MaxStops = 0
INVARIANTS
    ReplicaReopens
CHECK_DEADLOCK FALSE
