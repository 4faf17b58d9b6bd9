SPECIFICATION Spec
CONSTANTS
  Configs <- MCConfigs
  MaxAttempt = 8
  MaxHeard = 3
  Reports <- MCReports
  Bodies <- MCBodies
  Plans <- MCPlans
  IcMax = 20
  MaxResets = 1
  Installations <- MCInstallations
  Endpoints <- MCEndpoints
  Dumps <- MCDumps
CHECK_DEADLOCK FALSE
INVARIANTS FollowsFailures NeverSpins HeardDecides PlayedAsDumped DecodedAsSent SentIsMeant
  FramerTypes ChunkingIrrelevant LessThanOneFrameWaits WholeFramesGiven Resynchronises
  AsConfigured EndsOnlyForCause SentWhereTold
