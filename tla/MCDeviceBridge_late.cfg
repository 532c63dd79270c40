SPECIFICATION Spec
CONSTANTS
  Command = {1, 2, 3}
  Llm = {1}
  Direct = {3}
  Session = {2, 3}
  Idle = Idle
  MaxLosses = 0
  MaxRestarts = 0
PROPERTY NoLateStart
CHECK_DEADLOCK FALSE
