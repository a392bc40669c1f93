SPECIFICATION Spec
CONSTANTS
  Pubkeys = {p1}
  Callers = {c1, c2}
  BURST = 2
  PERIOD = 2
  MaxClock = 4
  MaxCalls = 5
  None = None
CHECK_DEADLOCK FALSE
INVARIANT
  RateBound
