SPECIFICATION Spec
CONSTANTS
  NoTrim = NoTrim
  MaxBytes = 9
  AgeLimit = FALSE
  VacuumEvery = 2
  MaxAppends = 6
  MaxFaults = 3
CHECK_DEADLOCK FALSE
INVARIANTS TypeOK CleanReadBack LossBounded FileBounded
PROPERTIES VacuumKeepsTail
