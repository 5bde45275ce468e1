CONSTANTS
    File = {f1, f2}
    Client = {c1, c2}
    Sizes = {1}
    Zeros = {}
    BufferSize = 2
    MaxPosition = 7
    NULL = NULL
    HOLE = HOLE
SPECIFICATION Spec
INVARIANT IdsNameTasks
CHECK_DEADLOCK FALSE
