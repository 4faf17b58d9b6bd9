SPECIFICATION FairSpec
CONSTANTS
  c1 = c1  c2 = c2  c3 = c3
  NoCall = NoCall  Nothing = Nothing  NoLimit = NoLimit
  Calls = {c1, c2}
  Modes = {"dryRun", "noHandle", "live"}
  Transports = {TRUE, FALSE}
  ReconnectOnEof = TRUE
  MaxReconnects = NoLimit
  CounterCap = 1
  Stream <- NoStream
  MaxRead = 1
  WriteCap = 1
  FrameCap = 1
  RingCap = 1
  JournalOn = FALSE
  JournalMayFail = FALSE
  ReceiverMayDie = FALSE
  SenderMayDrop = TRUE
CHECK_DEADLOCK FALSE
PROPERTIES Answered GateFreed
