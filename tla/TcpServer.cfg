CONSTANTS
  c1 = c1
  c2 = c2
  c3 = c3
  f1 = f1
  f2 = f2
  h1 = h1
  NoFd = NoFd
  NoHandler = NoHandler
  Conn <- MCConn
  Fd <- MCFd
  Handler <- MCHandler
  Backlog = 2
  ThreadsMayFail = TRUE
SPECIFICATION FairSpec
INVARIANTS
  ServerInv
  DownIsClean
  ServedByItsHandler
  NeverTerminates
  StopCanGoOn
PROPERTIES
  ImplementsContract
  NoServiceWhileDown
  StopAdvances
  KeepsPromises
CHECK_DEADLOCK FALSE
