CONSTANTS
  Char <- MCChar
  Window = 4
  Compress <- MCCompress
  Message <- MCMessage
  MaxSize <- MCMaxSize
  MaxBytes = 5
  ClientBuffer = 2
  HandlerBuffer = 2
SPECIFICATION Spec
INVARIANT SendDataReturns
CHECK_DEADLOCK FALSE
