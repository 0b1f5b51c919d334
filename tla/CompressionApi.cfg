CONSTANTS
  MaxByte = 3
  TagR = 2
  TagI = 3
  Rejected = Rejected
  Text = Text
  MaxLen = 6
  Body <- MCBody
SPECIFICATION Spec
INVARIANTS
  ApiInv
  RoundTripThroughApi
  NoShorterStream
  FrontendAgrees
CHECK_DEADLOCK FALSE
