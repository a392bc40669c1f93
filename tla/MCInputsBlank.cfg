SPECIFICATION Spec
CONSTANTS
  None = None
  Issuer = "apple"
  Audience = "app"
  Bundle = "app"
  LEEWAY = 2
  MAX_SUB = 255
  MaxX5c = 5
  SampleBytes = {0, 255}
  MaxBytes = 1
  SampleChars = {0, 52, 67, 68}
  MaxChars = 4
  SampleDigests <- MCSampleDigests
  MaxMarks = 1
  SampleCerts <- MCSampleCerts
  MaxChain = 1
  MaxOddities = 1
  SampleKeys <- MCSampleKeys
  MaxKeys = 0
  SampleTokens <- MCSampleTokens
  SampleJws <- MCSampleJws
  SamplePubkeys = {"p1", "p3", None}
  PinnedKeys <- MCPinnedKeys
  SampleManifest <- MCSampleManifest
  MaxNow = 4
CHECK_DEADLOCK FALSE
INVARIANT
  WhitespaceIgnored
