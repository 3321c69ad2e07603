CONSTANTS
  Connections = 2
  Scripts <- MCScripts
  NumberLimit = 3
  PoolSizes = {1}
  MaxFaults = 1
SPECIFICATION FairSpec
INVARIANTS OneOperation AnswersExact EndsForAReason SessionsContained
PROPERTIES SessionsEnd QueuedIsAccepted
CHECK_DEADLOCK FALSE
