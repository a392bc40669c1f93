SPECIFICATION Spec
CONSTANTS
  p1 = p1  p2 = p2
  s1 = s1  s2 = s2
  x1 = x1
  n1 = n1  n2 = n2
  None = None
  Pubkeys = {p1, p2}
  Subs = {s1, s2}
  TxIds = {x1}
  Tokens = {t1, t2, t3}
  Nonces = {n1, n2}
  DEVICE_CAP = 2
  Streams = {r1}
  CHANNEL_CAP = 1
  MaxFrames = 2
  Manifest <- Cohort
  Envelopes <- Delivered
CHECK_DEADLOCK FALSE
INVARIANTS
  TypeOK
  NonceAppliedOnce
  NoRevokeLost
PROPERTIES
  ImplementsRelay
  RevokeReachesStreams
  CutOnlyGone
