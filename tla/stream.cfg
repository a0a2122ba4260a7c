SPECIFICATION MCSpec
CONSTANTS
  Byte = {1, 2}
  kCheapPrepend = 2
  kInitialSize = 2
  ExtraSize = 2
  MaxCall = 2
  MaxReadable = 4
  Base = 8
  kMaxMessageLen = 8
  Known = {1, 2}
  Registered = {1}
  BadByte = 7
  MaxFrames = 2
  Classes <- IMClasses
  MaxOps = 3
  MaxItems = 2
  MaxUnknown = 1
  CacheConns = {r1, r2}
  MaxCommands = 3
  NULL = NULL
CHECK_DEADLOCK FALSE
INVARIANTS
  BufferSound
  OnlySent
  NothingStuck
  UnsetIsDefault
  RoundTrip
  SizeExact
  CopiesAgree
  CacheAnswers
PROPERTIES
  ImplementsQueue
