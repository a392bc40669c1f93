SPECIFICATION Spec
CONSTANTS
  Pubkeys = {p1}
  Callers = {c1, c2}
  BURST = 2
  PERIOD = 2
  MaxClock = 6
  MaxCalls = 6
  None = None
CHECK_DEADLOCK FALSE
INVARIANTS
  TypeOK
  RateBoundInOrder
  ExcessBound
PROPERTY
  PatientIsServed
