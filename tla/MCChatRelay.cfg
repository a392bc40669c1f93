SPECIFICATION FairSpec
CONSTANTS
  Streams = {r1, r2}
  Tokens = {t1, t2}
  CHANNEL_CAP = 1
  MaxFrames = 3
  None = None
CHECK_DEADLOCK FALSE
INVARIANTS
  TypeOK
  RelayInOrder
  AtMostOneLateFrame
PROPERTY
  StreamsEnd
