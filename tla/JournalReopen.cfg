SPECIFICATION Spec
CONSTANTS
  NoTrim = NoTrim
  MaxBytes = 9
  AgeLimit = FALSE
  VacuumEvery = 2
  MaxAppends = 6
  MaxFaults = 1
CHECK_DEADLOCK FALSE
INVARIANT AcknowledgedIsKept
