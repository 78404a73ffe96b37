SPECIFICATION Spec
CONSTANTS
    Nodes = {n1, n2, n3}
    MaxTerm = 5
    MaxIndex = 4
SYMMETRY NodeSymmetry
INVARIANT
    AnsweredWritesSurvive
CHECK_DEADLOCK FALSE
