SPECIFICATION Spec
CONSTANTS
  W = 64
  U = 256
  SLOTS = 8
  DELAY = 2
  LEAD = 2
  MaxDistance = 10
  MaxBehind = 20
  Idle = 14
  Start = 40
  Frames = 9
  MaxSlot = 60
  Pauses = {6, 8}
  Latency = 1
  Lossy = {43}
  Slow = {}
  Restarts = 1
  Swift = TRUE
INVARIANTS
  Kept
  Placed
CHECK_DEADLOCK FALSE
