SPECIFICATION FairSpec
CONSTANTS
    Calls = {c1, c2}
    Commands <- OneCommand
    MaxPending = 2
    MaxBytes = 3
    MaxChanges = 2
    Stops = {"stopped", "fatal"}
PROPERTIES
    EveryCallReturns
CHECK_DEADLOCK FALSE
