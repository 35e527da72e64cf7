SPECIFICATION Spec
CONSTANTS
  Main = main
  NSub = 1
  Fds = {4}
  MaxConn = 2
  MaxSend = 1
  AutoClose = FALSE
  NoLoop = NoLoop
  Wakeup = Wakeup
CHECK_DEADLOCK FALSE
INVARIANT CloseFindsItsOwnEntry
PROPERTIES ClosedIsDestroyed ClientsAreAccepted
