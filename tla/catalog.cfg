SPECIFICATION Spec
CONSTANTS
    RangeIds = {"whole", "left", "right"}
    LastKey = 2
    maxRangeDescriptors = 2
    Nodes <- MCNodes
    Peers <- MCPeers
    Descriptors <- MCDescriptors
    Callers = {p, q}
    MaxVersion = 3
    MaxChanges = 1
    MaxCrashes = 1
SYMMETRY Symmetry
INVARIANTS
    TypeOK
    SeenIsDurable
    EpochIdentifiesOwner
    AdmittedDecodes
PROPERTY TombstonesStay
CHECK_DEADLOCK FALSE
