SPECIFICATION Spec
CONSTANTS
  MaxRecords = 3
  Priorities = {1, 2}
  Weights = {0, 1, 2}
  Ports = {TRUE, FALSE}
INVARIANTS
  ByPriorityDrawn
CHECK_DEADLOCK FALSE
