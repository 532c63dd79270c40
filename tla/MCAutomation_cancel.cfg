SPECIFICATION AutoSpec
CONSTANTS
  Autos = {"interval"}
  Trigger <- MCTrigger
  Harmless = {}
  Token = {t1}
  Caller = {c}
  Delivery = {}
  Event <- MCEvent
  None = None
  MaxStops = 0
PROPERTIES StaysDisabled
CHECK_DEADLOCK FALSE
