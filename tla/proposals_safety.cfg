SPECIFICATION Spec
CONSTANTS
    Calls = {c1, c2, c3}
    Commands <- ThreeOperations
    MaxPending = 2
    MaxBytes = 3
    MaxChanges = 1
    Stops = {}
SYMMETRY CallSymmetry
INVARIANTS
    AnsweredOnce
    AccountingExact
    AppliedIsBound
    NobodyForgotten
CHECK_DEADLOCK FALSE
