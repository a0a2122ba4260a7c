SPECIFICATION MCSpec
CONSTANTS
  u1 = u1  u2 = u2  u3 = u3  t1 = t1  t2 = t2  p1 = p1  p2 = p2
  Users = {u1}
  Senders = {u1}
  NumericSenders = {}
  Threads = {t1}
  Amounts = {3}
  Counts = {1}
  StartMoney = 5
  MaxTime = 1
  StopDelay = 1
  Packets = {p1, p2}
  MaxFaults = 0
  HalfInt = 1000000
  StrictSql = TRUE
  None = None
  Stamp = Stamp
SYMMETRY Symmetry
CHECK_DEADLOCK FALSE
INVARIANT DeductionCovered
