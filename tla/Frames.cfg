SPECIFICATION FairSpec
CONSTANTS
  c1 = c1  c2 = c2  c3 = c3
  NoCall = NoCall  Nothing = Nothing  NoLimit = NoLimit
  Calls = {}
  Modes = {"live"}
  Transports = {TRUE}
  ReconnectOnEof = TRUE
  MaxReconnects = NoLimit
  CounterCap = 1
  Stream <- LongStream
  MaxRead = 4
  WriteCap = 1
  FrameCap = 2
  RingCap = 2
  JournalOn = TRUE
  JournalMayFail = FALSE
  ReceiverMayDie = FALSE
  SenderMayDrop = FALSE
CHECK_DEADLOCK FALSE
INVARIANTS WholeFramesOnly NothingLost ViewIsHistory
PROPERTIES ImplementsBusFeed ShutdownStops EveryFrameApplied SleepsUnlessSignalled
