SPECIFICATION FairSpec
CONSTANTS
    RangeIds = {"source", "left", "right"}
    LastKey = 2
    maxRangeDescriptors = 2
    Nodes = {1, 2, 3}
    c1 = c1
    c2 = c2
    c3 = c3
    Clients = {c1, c2, c3}
    Command <- MCCommand
    Source <- MCSource
    InitialRows <- MCInitialRows
    Leader = 1
    LeftId = "left"
    RightId = "right"
    maxSplitDeltas = 2
    MaxEvents = 2
    MaxSequence = 5
INVARIANTS
    TypeOK
    ChildrenAreAPastSource
PROPERTIES
    SplitIsInvisible
    RetriesAreAnswered
CHECK_DEADLOCK FALSE
