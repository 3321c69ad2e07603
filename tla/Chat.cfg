SPECIFICATION FairSpec
CHECK_DEADLOCK FALSE
CONSTANTS
  Sessions = 3
  MaxWaiting = 2
  MaxQueue = 2
  MaxLines = 3
  Threads = {1, 2}
  Wide = 16
INVARIANTS
  CountsExact
  NoDangling
  DeliveredInOrder
PROPERTIES
  QueueDrains
