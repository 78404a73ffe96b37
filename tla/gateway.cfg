SPECIFICATION FairSpec
CONSTANTS
    RowKeys = {k1}
    Versions = {v1, v2, v3}
    Conns = {c1, c2}
    maxGatewayConnections = 2
    maxGatewayActiveRequests = 1
    MaxStarts = 2
INVARIANTS
    StoreOutlivesHandlers
    SlotsAreHeld
    Reopens
    NoLostUpdate
PROPERTIES
    HistoryIsImmutable
    ShutdownEnds
CHECK_DEADLOCK FALSE
