SPECIFICATION FairSpec
CONSTANTS
  Workers = {w1, w2, w3}
  Clients = {c1}
  Tasks = {t1, t2, t3}
  NoTask = NoTask
INVARIANTS
  NoSleepOnBacklog
  Conservation
PROPERTIES
  NoStartAfterStop
  ImplementsExecutor
  QueuedTaskRuns
  JoinReturns
