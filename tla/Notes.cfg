SPECIFICATION Spec
CONSTANTS
  MaxEntities = 4
  MaxSelected = 2
CHECK_DEADLOCK FALSE
INVARIANTS
  OneOwner
  ParentPointers
  SingleExact
  EditsKept
