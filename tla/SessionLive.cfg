SPECIFICATION FairSpec
CONSTANTS
  MaxGen = 3
  Network = {"close", "error"}
  Gestures = {"swipe"}
  PromptExit = TRUE
INVARIANTS
  LoopReachable
PROPERTIES
  ConnectResolves
  UiLearns
  UiShows
  Honoured
CHECK_DEADLOCK FALSE
