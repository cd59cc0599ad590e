SPECIFICATION FairSpec
CONSTANTS
  MaxGen = 2
  MaxRoutes = 1
  Ends = {"user", "close", "kick", "error"}
  LastEnds = {"user", "close"}
  Reconnect = "prompt"
  QuickAck = TRUE
  Calm = TRUE
INVARIANTS
  HeardWhileRunning
PROPERTIES
  StreamClosed
  RouteFollowed
CHECK_DEADLOCK FALSE
