CONSTANTS
  MaxOps = 4
SPECIFICATION Spec
INVARIANTS NoUseAfterDestroy NothingLeaks EndIsReported
CHECK_DEADLOCK FALSE
