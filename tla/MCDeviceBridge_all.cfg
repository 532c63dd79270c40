SPECIFICATION FairSpec
CONSTANTS
  Command = {1, 2}
  Llm = {1}
  Direct = {2}
  Session = {1, 2}
  Idle = Idle
  MaxLosses = 2
  MaxRestarts = 1
INVARIANTS TypeOK AnswersAreTrue TimedOutLeavesQueue DeliveredIsScrubbed InferenceLaneFree ExecutedAtMostOnce
PROPERTIES ImplementsContract ControlServed
CHECK_DEADLOCK FALSE
