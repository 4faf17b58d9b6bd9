SPECIFICATION ServiceFairSpec
CONSTANTS
  c1 = c1  c2 = c2  Never = Never  
  NoCall = NoCall  Nothing = Nothing  NoLimit = NoLimit
  Calls = {c1}
  Modes = {"live"}
  Transports = {TRUE}
  ReconnectOnEof = FALSE
  MaxReconnects = 1
  CounterCap = 2
  Stream <- TwoCopies
  MaxRead = 3
  WriteCap = 1
  FrameCap = 1
  RingCap = 1
  JournalOn = TRUE
  JournalMayFail = TRUE
  ReceiverMayDie = TRUE
  SenderMayDrop = FALSE
  Strategies = {"tcp", "replay"}
  RecordingLen = 4
  ReadBuf = 3
  Rewinds = {TRUE, FALSE}
  CutsAfter = {1, 2, Never}
  LivePieces = 4
  WriteAllowed = FALSE
CHECK_DEADLOCK FALSE
INVARIANTS ServiceTypes ReconnectBudget OnOneConnection PlayedWhole
PROPERTIES PlayedOut
