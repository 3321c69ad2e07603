CONSTANTS
  MaxOps = 4
SPECIFICATION Spec
INVARIANTS DestroyedOnce
CHECK_DEADLOCK FALSE
