SPECIFICATION Spec
CONSTANTS
  Streams = {r1}
  Tokens = {t1}
  CHANNEL_CAP = 2
  MaxFrames = 3
  None = None
CHECK_DEADLOCK FALSE
PROPERTY
  RevokedNeverCompletes
