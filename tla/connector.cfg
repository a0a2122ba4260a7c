SPECIFICATION MCSpec
CONSTANTS
  Scripts <- Once
  Sends = 0
  Refusals = 8
  HardErrors = 1
  Closes = 3
  retry_ = TRUE
  kInitRetryDelayMs = 500
  kMaxRetryDelayMs = 30000
  NULL = NULL
  EndedSends = 1
  EndedRefusals = 3
  EndedCloses = 2
  Clients = {c1, c2, c3, c4}
  ThreadNums = {0, 2, 3}
  MaxFds = 5
  MaxOthers = 2
CHECK_DEADLOCK FALSE
INVARIANTS
  
  
  ServerAccepts

  
