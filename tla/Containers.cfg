CONSTANTS
    Cell = {c1, c2, c3, c4, c5}
    Data = {d1, d2}
    NULL = NULL
SPECIFICATION ContainersSpec
INVARIANTS
    TypeOK
    Linked
PROPERTIES
    
    QueueImplements
SYMMETRY Symmetry
CHECK_DEADLOCK FALSE
