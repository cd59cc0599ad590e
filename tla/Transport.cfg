SPECIFICATION FairSpec
CONSTANTS
  IdSpace = 16
  QueueLen = 2
  Start = 14
  MaxSend = 3
  MaxSize = 3
  MaxWindow = 2
  MaxTries = 2
  PingCount = 1
  Faults = {"lose", "die"}
INVARIANTS
  NotForgotten
PROPERTIES
  FifoOrder
  EachDelivered
  DeadPeerNoticed
CHECK_DEADLOCK FALSE
