SPECIFICATION Spec
CONSTANTS
  Main = main
  NSub = 1
  Fds = {4}
  MaxConn = 1
  MaxSend = 1
  AutoClose = FALSE
  NoLoop = NoLoop
  Wakeup = Wakeup
CHECK_DEADLOCK FALSE
INVARIANT ReadOnlyWhenConnected
