CONSTANTS
  c1 = c1
  c2 = c2
  c3 = c3
  f1 = f1
  api = api
  NoFd = NoFd
  NoHandler = NoHandler
  Conn <- MCConn
  Fd <- MCFd
  Handler <- MCHandler
  Api = api
  Backlog = 2
  ThreadsMayFail = TRUE
SPECIFICATION HFairSpec
INVARIANTS
  ServiceInv
  AliveUntilSignalled
PROPERTIES
  SignalEndsProgram
CHECK_DEADLOCK FALSE
