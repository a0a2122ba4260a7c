SPECIFICATION MCSpec
CONSTANTS
  Addrs = {a1, a2}
  MaxTimers = 2
  MaxTime = 2
  Intervals = {0, 1}
  None = None
  Callers = {c1, c2}
  Functors = {f1, f2}
CHECK_DEADLOCK FALSE
INVARIANTS
  Sound
  CancelledLeaves
PROPERTIES
  TimersRun
  RunsInOrder
  NoLostWakeup
