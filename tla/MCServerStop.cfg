SPECIFICATION Spec
CONSTANTS
  Conns = {c1, c2, c3}
  None = None
  MaxSilentTime = 1
  MaxAccepts = 1
  MaxResponses = 1
PROPERTIES
  StopReturns
CHECK_DEADLOCK FALSE
