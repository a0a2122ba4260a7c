SPECIFICATION MCSpec
CONSTANTS
  Users = {u1, u2}
  Conns = {c1, c2, c3}
  Accounts = {u1, u2}
  Types = {"text"}
  Texts = {"plain"}
  Logins = 2
  Chats = 2
  Registers = 0
  Fails = 0
  NULL = NULL
  OneUser = {u1}
  TwoConns = {c1, c2}
  ListTypes = {"text", "rob", "other"}
  ListTexts = {"tilde", "long"}
SYMMETRY Symmetry
CHECK_DEADLOCK FALSE
INVARIANTS
  ChatsAccounted
  ListIsSent
  
