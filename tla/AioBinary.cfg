CONSTANTS
    File = {f1, f2}
    Client = {c1}
    Sizes = {2}
    Zeros <- FirstZero
    BufferSize = 2
    MaxPosition = 7
    NULL = NULL
    HOLE = HOLE
SPECIFICATION Spec
INVARIANT WritesInPlace
CHECK_DEADLOCK FALSE
