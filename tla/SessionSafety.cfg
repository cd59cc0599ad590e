SPECIFICATION Spec
CONSTANTS
  MaxGen = 2
  Network = {"drop", "close", "error", "level"}
  Gestures = {"cancel", "retap", "swipe"}
  PromptExit = FALSE
INVARIANTS
  OneConnection
  NoOrphan
PROPERTIES
  ImplementsSessionSpec
  UiLeavesEnded
  UiEntersCurrent
CHECK_DEADLOCK FALSE
