SPECIFICATION Spec
CHECK_DEADLOCK FALSE
CONSTANTS
  MaxBlocks = 2
  Defaults = 1
  MaxPorts = 2
  MaxSelected = 2
INVARIANTS
  LinksMutual
  NoDangling
  ShownIsSelected
