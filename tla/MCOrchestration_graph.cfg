SPECIFICATION Spec
CONSTANTS
  Run = {1}
  GraphRun = {1}
  Strict = {}
  Task = {1, 2, 3}
  Deps <- ChainDeps
  Coordinator = {1}
  Tolerant = {1}
  Worker = {w1, w2}
  Idle = Idle
  MaxRetries = 1
  WaitKind = {"device"}
  MaxWaits = 1
  MaxActive = 2
  Retained = 2
  MaxCrashes = 1
  MaxResumes = 2
SYMMETRY WorkerSymmetry
INVARIANTS TypeOK SingleExecution NothingAbandoned DependenciesSettled RetryBudget
PROPERTIES CompletedPreserved ImplementsRunContract
CHECK_DEADLOCK FALSE
