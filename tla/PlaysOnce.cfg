SPECIFICATION ServiceSpec
CONSTANTS
  c1 = c1  c2 = c2  Never = Never  
  NoCall = NoCall  Nothing = Nothing  NoLimit = NoLimit
  Calls = {}
  Modes = {"live"}
  Transports = {TRUE}
  ReconnectOnEof = TRUE
  MaxReconnects = NoLimit
  CounterCap = 2
  Stream <- TwoCopies
  MaxRead = 3
  WriteCap = 1
  FrameCap = 1
  RingCap = 1
  JournalOn = TRUE
  JournalMayFail = FALSE
  ReceiverMayDie = FALSE
  SenderMayDrop = FALSE
  Strategies = {"replay"}
  RecordingLen = 4
  ReadBuf = 3
  Rewinds = {TRUE}
  CutsAfter = {Never}
  LivePieces = 4
  WriteAllowed = FALSE
CHECK_DEADLOCK FALSE
INVARIANT PlaysOnce
