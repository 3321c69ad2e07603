SPECIFICATION FairSpec
CONSTANTS
  Keys <- TwoFds
  FD_SETSIZE = 3
  Owned = {2}
  Cancellable = {}
  PipeCap = 1
PROPERTY HandlerCalled
