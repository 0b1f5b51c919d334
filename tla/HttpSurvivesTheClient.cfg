CONSTANTS
  BadLength = BadLength
  HeaderMax = 3
  HeaderChunk = 2
  BodyChunk = 1
  MaxPart = 2
  Window = 1
  MaxLength = 2
  Wrapped = 1000
  MaxExcess = 1
  Request <- MCRequest
  Me = Me
  Api = Api
  NoHandler = NoHandler
SPECIFICATION Spec
INVARIANTS
  SurvivesTheClient
CHECK_DEADLOCK FALSE
