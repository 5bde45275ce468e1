SPECIFICATION Spec
CONSTANTS
  Request = {1, 5}
  Letter = {"d", "f"}
  MaxCalls = 7
INVARIANTS TypeOK BlocksTile Kept
PROPERTIES FreeJoins NeverShrinks
CHECK_DEADLOCK FALSE
