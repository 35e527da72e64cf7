SPECIFICATION Spec
CONSTANTS
  Loops = {main, sub1, sub2}
  NoLoop = NoLoop
  Functors = {f1, f2, f3}
  Channels = {ch}
  Wakeup = Wakeup
INVARIANTS TypeOK NoLostWakeup WakeupReadable RunsOnce IInv
PROPERTY Implements
