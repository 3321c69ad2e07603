SPECIFICATION FairSpec
CHECK_DEADLOCK FALSE
CONSTANTS
  Lengths = {1, 3}
  Capacity = 2
  MaxRounds = 4
INVARIANTS
  TurnsRespected
  RoundDelivers
PROPERTIES
  BothExit
