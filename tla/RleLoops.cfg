CONSTANTS
  MaxByte = 3
  MaxLen = 6
  TagR = 2
  TagI = 3
  Rejected = Rejected
  Input <- MCInput
SPECIFICATION Spec
INVARIANTS
  RleInv
  RoundTrip
  RejectsExactlyMalformed
  LoopsComputeCodec
CHECK_DEADLOCK FALSE
