SPECIFICATION FairSpec
CONSTANTS
    c1 = c1
    c2 = c2
    Calls = {c1, c2}
    Bytes <- OneAndTwo
    MaxReads = 2
    MaxReadBytes = 2
    MaxSeq = 2
    MaxRetired = 1
    MaxCommit = 2
    MaxCatalog = 2
    Stops = {"stopped", "fatal"}
INVARIANTS
    TypeOK
    ReadBytesExact
    ReadsAreLinearizable
PROPERTIES
    NoUnknownContext
    StopReleasesReaders
CHECK_DEADLOCK FALSE
