SPECIFICATION Spec
CONSTANTS
  None = None
  Issuer = "apple"
  Audience = "app"
  Bundle = "app"
  LEEWAY = 2
  MAX_SUB = 255
  MaxX5c = 5
  SampleBytes = {0, 15, 170, 191, 250, 255}
  MaxBytes = 6
  SampleChars = {0, 31, 52, 63, 64, 66, 67, 69}
  MaxChars = 6
  SampleDigests <- MCSampleDigests
  MaxMarks = 6
  SampleCerts <- MCSampleCerts
  MaxChain = 6
  MaxOddities = 1
  SampleKeys <- MCSampleKeys
  MaxKeys = 2
  SampleTokens <- MCSampleTokens
  SampleJws <- MCSampleJws
  SamplePubkeys = {"p1", "p3", None}
  PinnedKeys <- MCPinnedKeys
  SampleManifest <- MCSampleManifest
  MaxNow = 4
CHECK_DEADLOCK FALSE
INVARIANTS
  RoundTrips
  DecodesConcatenation
  TextMatchIsByteMatch
  UuidsKeepTheirBits
  LiftsBlocks
  ChainWalkIsPathValidation
  OnlyGenuineTokens
  AnswersInOrder
