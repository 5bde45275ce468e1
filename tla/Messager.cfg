SPECIFICATION Spec
CONSTANTS
  Text = {"hello", "bye"}
  MaxSends = 3
  MaxStarts = 2
INVARIANTS TypeOK TokensAccounted
PROPERTIES ImplementsChat ChatGoesOn
CHECK_DEADLOCK FALSE
