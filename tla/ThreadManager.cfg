CONSTANTS
    Node = {n1, n2, n3}
    NULL = NULL
    Letters = 1
    LastLetter = 99
    MaxTyped = 5
SPECIFICATION Spec
INVARIANTS
    TypeOK
    NoLostWakeup
    OneTurn
    InfoNamesRunner
    CrashCause
    NamesInOrder
SYMMETRY Symmetry
CHECK_DEADLOCK FALSE
