SPECIFICATION Spec
CONSTANTS
  p1 = p1  p2 = p2
  s1 = s1  s2 = s2
  x1 = x1  x2 = x2
  t1 = t1  t2 = t2  t3 = t3  t4 = t4  t5 = t5
  n1 = n1
  None = None
  Pubkeys = {p1, p2}
  Subs = {s1, s2}
  TxIds = {x1, x2}
  Tokens = {t1, t2, t3, t4, t5}
  Nonces = {n1}
  DEVICE_CAP = 3
  Manifest <- OneToOne
INVARIANTS
  TypeOK
  IndexCoherent
  SlotsBounded
  AcceptedInManifest
  RevokeComplete
PROPERTY
  ImplementsAllowlist
