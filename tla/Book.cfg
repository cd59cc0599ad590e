SPECIFICATION Spec
CONSTANTS
  Channels = {1, 2, 3}
  Others = {11}
  MaxSteps = 3
  MaxItems = 4
  MaxDrops = 1
  Mixes = {{"tree"}, {"clients", "own"}, {"own", "text"}}
INVARIANTS
  TreeRight
  ClientsRight
  CaughtUp
  SoundsEarned
  NoneOverlooked
CHECK_DEADLOCK FALSE
