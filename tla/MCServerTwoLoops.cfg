SPECIFICATION Spec
CONSTANTS
  Main = main
  NSub = 2
  Fds = {4, 5}
  MaxConn = 2
  MaxSend = 1
  AutoClose = FALSE
  NoLoop = NoLoop
  Wakeup = Wakeup
CHECK_DEADLOCK FALSE
INVARIANTS TypeOK LifeCycle NoDanglingChannel
PROPERTY ImplementsEventLoop
