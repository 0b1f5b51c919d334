CONSTANTS
  BadLength = BadLength
  HeaderMax = 4
  HeaderChunk = 2
  BodyChunk = 2
  MaxPart = 3
  Window = 2
  MaxLength = 3
  Wrapped = 1000
  MaxExcess = 1
  Request <- MCRequest
  Me = Me
  Api = Api
  NoHandler = NoHandler
SPECIFICATION FairSpec
INVARIANTS
  HttpInv
  HandlerSeesDeclaredBody
  RegularIsServed
  OneStatusLine
  CloseIsOrderly
PROPERTIES
  IsServiceThread
  ThreadAdvances
  ThreadEnds
CHECK_DEADLOCK FALSE
