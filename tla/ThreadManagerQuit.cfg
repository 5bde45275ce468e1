CONSTANTS
    Node = {n1, n2}
    NULL = NULL
    Letters = 1
    LastLetter = 98
    MaxTyped = 4
SPECIFICATION FairSpec
PROPERTY QuitExits
CHECK_DEADLOCK FALSE
