CONSTANTS
    Node = {n1, n2}
    NULL = NULL
    Letters = 1
    LastLetter = 98
    MaxTyped = 3
SPECIFICATION FairSpec
PROPERTIES
    KillCompletes
    ShutdownCompletes
    TurnComesRound
CHECK_DEADLOCK FALSE
