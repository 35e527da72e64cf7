SPECIFICATION Spec
CONSTANTS
  Timers = {t1, t2}
  NoTimer = NoTimer
  MaxDelay = 2
  Intervals = {0, 2}
  MaxSteps = 1
CHECK_DEADLOCK FALSE
INVARIANTS TypeOK PendingIsArmed ArmedForEarliest
PROPERTIES ImplementsTimers EveryTimerRuns
