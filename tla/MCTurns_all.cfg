SPECIFICATION TurnsSpec
CONSTANTS
  Offered = {"observe_ui", "observe", "action", "verify", "semantic", "quick_code"}
  Route = {"fresh_observe", "desktop_vision"}
  RouteArgs <- DistinctArgs
  ProbeArgs <- FreshArgs
  Budget = 3
  MaxCalls = 5
  MaxRecoveries = 3
  Master = TRUE
  Compound = TRUE
  Request = {"plain", "buffered", "live", "instant"}
  Plain = {"plain"}
  Live = {"live"}
  Instant = {"instant"}
  Turn <- DistinctTurns
  NoRequest = "none"
INVARIANTS ClaimHasEvidence OwnSettings OwnMetrics
PROPERTIES ForbiddenNeverRuns FreshBinding SkillIsReplayable StepsArePaid RequestsServed
CHECK_DEADLOCK FALSE
