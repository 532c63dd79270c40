SPECIFICATION Spec
CONSTANTS
  Job = {1}
  Interval = {}
  Loop = {l1, l2}
  Token = {1, 2}
  None = None
  Workers = 1
  MaxOps = 0
  MaxStops = 0
PROPERTY ClaimedOnce
CHECK_DEADLOCK FALSE
