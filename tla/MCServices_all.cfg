SPECIFICATION ServicesSpec
CONSTANTS
  Run = {1, 2, 3}
  Requester <- MCRequester
  Size = 2
  Workers = 2
  MaxActive = 1
  Retained = 1
  Autos = {"timer", "hook"}
  Trigger <- MCTrigger
  Harmless = {}
  Token = {"t1", "t2"}
  Caller = {"c"}
  Delivery = {"d1", "d2"}
  Event <- MCEvent
  None = "none"
  MaxStops = 1
INVARIANTS ActiveBound RunsAreKnown PublishedOnce
PROPERTIES ImplementsParallelContract RunsSettle DueIsServed
CHECK_DEADLOCK FALSE
