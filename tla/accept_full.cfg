SPECIFICATION Spec
CONSTANTS
  Clients = {c1, c2, c3}
  ThreadNums = {0, 2}
  MaxFds = 4
  MaxOthers = 2
CHECK_DEADLOCK FALSE
INVARIANT FullIsExpected
