SPECIFICATION FairSpec
CONSTANTS
  r1 = r1  r2 = r2
  n1 = n1  n2 = n2
  None = None
  Requests = {r1, r2}
  ClientNonces = {n1, n2}
  Pids = {7, 8}
  MaxRestarts = 1
  EXPECTED_GPU_COUNT = 2
CHECK_DEADLOCK FALSE
INVARIANTS
  TypeOK
  NoCrossBinding
  EntriesAccounted
  EnvelopeComplete
PROPERTY
  TasksEnd
