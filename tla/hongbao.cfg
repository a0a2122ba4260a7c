SPECIFICATION MCSpec
CONSTANTS
  u1 = u1  u2 = u2  t1 = t1  t2 = t2  p1 = p1
  Users = {u1, u2}
  Senders = {u1}
  NumericSenders = {u2}
  Threads = {t1, t2}
  Amounts = {3}
  Counts = {1, 2}
  StartMoney = 5
  MaxTime = 1
  StopDelay = 1
  Packets = {p1}
  MaxFaults = 0
  HalfInt = 1000000
  StrictSql = TRUE
  None = None
  Stamp = Stamp
CHECK_DEADLOCK FALSE
INVARIANTS
  LockExclusion
  
  
  

  
