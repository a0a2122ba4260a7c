SPECIFICATION MCSpec
CONSTANTS
  Threads = {t1, t2}
  Messages = {m1, m2}
  MessageLen = 2
  LoopOps = {"send", "shutdown", "forceClose", "forceCloseWithDelay"}
  ThreadOps = {"send"}
  MaxCalls = 4
  Destroys = FALSE
  None = None
  AnyMessages = {m1}
  AnyCalls = 3
CHECK_DEADLOCK FALSE
INVARIANTS
  StreamIntact
  ServerConsistent
PROPERTIES
  ServerFinAfterFlush
  ServerEnds
