SPECIFICATION MCSpec
CONSTANTS
  Workers = {w1, w2}
  Links = {m1, m2, m3, m4}
  Conns = {c1}
  Handlers = {"Register", "Login", "SendHongbao", "RobHongbao", "StopRobHongbao", "Message"}
  MinConns = 1
  Refusals = FALSE
  RedisFails = FALSE
  Drops = FALSE
  NULL = NULL
  Others = {w3, w4}
  BusyConns = {c1, c2}
  DryLinks = {m1, m2, m3}
  MaxCalls = 3
  MaxRows = 3
SYMMETRY Symmetry
CHECK_DEADLOCK FALSE
INVARIANTS
  AlwaysExclusive
  HandlersGoOn
  SqlRows
  SqlEffects
