CONSTANTS
  Char <- MCChar
  Window = 4
  Compress <- MCCompress
  Message <- MCMessage
  MaxSize <- MCMaxSize
  MaxBytes = 5
  ClientBuffer = 2
  HandlerBuffer = 2
SPECIFICATION FairSpec
INVARIANTS
  EchoInv
  EofMeansWhole
  OnlyAbortsKill
  NeverStuck
PROPERTIES
  ImplementsEcho
  SessionAdvances
  CallsReturn
CHECK_DEADLOCK FALSE
