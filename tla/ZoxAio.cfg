CONSTANTS
    File = {f1, f2}
    Client = {c1, c2}
    Sizes = {0, 3, 4}
    Zeros = {}
    BufferSize = 2
    MaxPosition = 9
    NULL = NULL
    HOLE = HOLE
SPECIFICATION FairSpec
INVARIANTS
    TypeOK
    OneOperation
    FreedWhenCopied
PROPERTIES
    ImplementsConcat
    Finishes
CHECK_DEADLOCK FALSE
