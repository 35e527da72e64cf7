SPECIFICATION Spec
CONSTANTS
  Main = main
  NSub = 1
  Fds = {4}
  MaxConn = 1
  MaxSend = 2
  AutoClose = TRUE
  NoLoop = NoLoop
  Wakeup = Wakeup
CHECK_DEADLOCK FALSE
INVARIANTS IdleConnectionsAreWatched ReadBlocksOnUrgentOnly
PROPERTY PeerGoneIsDestroyed
