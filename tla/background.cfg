SPECIFICATION MCSpec
CONSTANTS
  Capacity = 2
  DropLimit = 3
  MaxLines = 8
  NULL = NULL
  Threads = {t1, t2}
  Adders = {a1, a2, a3}
  MaxTasks = 1
  maxQueueSize = 1
  rollSize = 4
  flushInterval = 1
  checkEveryN = 3
  kRollPerSeconds = 3
  Sizes = {1, 2}
  MaxTime = 5
  FileLines = 5
CHECK_DEADLOCK FALSE
INVARIANTS
  LogIntact
  FileInTime
  TasksKept
PROPERTIES
  BackgroundLive
