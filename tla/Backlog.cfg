SPECIFICATION Spec
CONSTANTS
  c1 = c1  c2 = c2  c3 = c3
  NoCall = NoCall  Nothing = Nothing  NoLimit = NoLimit
  Calls = {c1, c2}
  Modes = {"live"}
  Transports = {TRUE}
  ReconnectOnEof = TRUE
  MaxReconnects = NoLimit
  CounterCap = 1
  Stream <- NoStream
  MaxRead = 1
  WriteCap = 8
  FrameCap = 1
  RingCap = 1
  JournalOn = FALSE
  JournalMayFail = FALSE
  ReceiverMayDie = FALSE
  SenderMayDrop = FALSE
CHECK_DEADLOCK FALSE
INVARIANT OneInFlight
