CONSTANTS
  Workers = {w1}
  Links = {m1, m2}
  Conns = {c1}
  Handlers = {"Register", "Login", "SendHongbao", "RobHongbao", "StopRobHongbao", "Message"}
  MinConns = 1
  Refusals = FALSE
  RedisFails = FALSE
  Drops = TRUE
  NULL = NULL
SPECIFICATION Spec
PROPERTY ClosedIsReplaced
