SPECIFICATION Spec
CONSTANTS
  Channels = {1, 2, 3}
  Others = {11}
  MaxSteps = 1
  MaxItems = 2
  MaxDrops = 0
  Mixes = {{"tree"}}
INVARIANT ShownInOrder
CHECK_DEADLOCK FALSE
