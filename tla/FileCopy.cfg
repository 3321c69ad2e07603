CONSTANTS
  Sources <- MCSources
  MaxRuns = 3
SPECIFICATION FairSpec
INVARIANTS OneCopy ResultTrue
PROPERTIES CopyIsReported
CHECK_DEADLOCK FALSE
