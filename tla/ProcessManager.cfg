SPECIFICATION Spec
CONSTANTS
  Pid = {p1, p2, p3}
  LastLetter = 2
  MaxKills = 3
  Process = {p1, p2, p3, p4}
  MaxWait = 3
  MaxTyped = 4
INVARIANTS TypeOK TurnsAccounted SymbolNamesTop OneTurnWin
PROPERTIES KillsReturn PrintingGoesOn
CHECK_DEADLOCK FALSE
