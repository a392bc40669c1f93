SPECIFICATION FairSpec
CONSTANTS
  m1 = m1  m2 = m2
  None = None  Torn = Torn
  Disks = {"sdb", "sdc"}
  Size <- Sizes
  FILE_COUNT = 2
  Manifests = {m1, m2}
  Wellformed = {m1}
  ATTEMPTS = 2
  MaxReboots = 2
CHECK_DEADLOCK FALSE
INVARIANTS
  TypeOK
  VllmRunsVerified
  ServesLaunchedCohort
  FailsClosed
PROPERTY
  BootSettles
