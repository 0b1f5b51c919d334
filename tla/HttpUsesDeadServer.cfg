CONSTANTS
  c1 = c1
  c2 = c2
  c3 = c3
  f1 = f1
  api = api
  NoFd = NoFd
  NoHandler = NoHandler
  Conn <- MCTwoConn
  Fd <- MCFd
  Handler <- MCHandler
  Api = api
  Backlog = 1
  ThreadsMayFail = FALSE
SPECIFICATION HSpec
INVARIANTS
  NoAccessAfterDestruction
CHECK_DEADLOCK FALSE
