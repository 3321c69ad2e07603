SPECIFICATION FairSpec
CONSTANTS
  Keys <- ThreeFds
  FD_SETSIZE = 3
  Owned = {1}
  Cancellable = {2}
  PipeCap = 1
INVARIANTS
  WakeupPending
  WatchedStayOpen
PROPERTIES
  StarvedOnlyByEarlier
  RequestsHonoured
