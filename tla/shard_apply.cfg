SPECIFICATION Spec
CONSTANTS
    r1 = r1
    r2 = r2
    o1 = o1
    o2 = o2
    o3 = o3
    k1 = k1
    v1 = v1
    v2 = v2
    x1 = x1
    n1 = n1
    Ops = {o1, o2, o3}
    Keys = {k1}
    Versions = {v1, v2}
    Values = {x1}
    Nodes = {n1}
    Replicas = {r1}
    Entries <- ApplyEntries
    Parts = 1
    MaxLog = 3
    MaxGeneration = 3
    MaxCrashes = 1
CHECK_DEADLOCK FALSE
INVARIANTS
    TypeOK
    MemoryIsLogPrefix
    EveryPrefixLoads
    OutcomesFollowLog
    RepliesAgree
