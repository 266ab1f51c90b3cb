SPECIFICATION Spec
CONSTANTS
  MaxPacks = 2
INVARIANTS
  ValuePassedOut
CHECK_DEADLOCK FALSE
