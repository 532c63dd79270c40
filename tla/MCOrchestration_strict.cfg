SPECIFICATION Spec
CONSTANTS
  Run = {1}
  GraphRun = {1}
  Strict = {1}
  Task = {1, 2}
  Deps <- PairDeps
  Coordinator = {1}
  Tolerant = {1}
  Worker = {w1}
  Idle = Idle
  MaxRetries = 0
  WaitKind = {"device"}
  MaxWaits = 0
  MaxActive = 1
  Retained = 1
  MaxCrashes = 1
  MaxResumes = 1
INVARIANT StrictFailsClosed
CHECK_DEADLOCK FALSE
