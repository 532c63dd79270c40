SPECIFICATION FairSpec
CONSTANTS
  Job = {1}
  Interval = {1}
  Loop = {l1, l2}
  Token = {1, 2}
  None = None
  Workers = 1
  MaxOps = 1
  MaxStops = 1
INVARIANTS LeaseInv OneRunner
PROPERTIES Served Drains
CHECK_DEADLOCK FALSE
