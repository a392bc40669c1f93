SPECIFICATION Spec
CONSTANTS
  m1 = m1  m2 = m2
  None = None  Torn = Torn
  Disks = {"sdb"}
  Size <- Sizes
  FILE_COUNT = 2
  Manifests = {m1, m2}
  Wellformed = {m1}
  ATTEMPTS = 2
  MaxReboots = 1
CHECK_DEADLOCK FALSE
INVARIANT DiskFoundEveryBoot
