SPECIFICATION Spec
CONSTANTS
  MaxRequests = 2
  MaxConns = 1
  Kinds = {"move", "plain", "op"}
  Dirs = {1}
  MaxFrames = 0
  IdSpace = 8
  Faults = {}
PROPERTIES
  MoveReported
CHECK_DEADLOCK FALSE
