SPECIFICATION Spec
CONSTANTS
  MaxBytes = 4
  MaxBacklog = 20
  ReadBytes = 3
  MaxGap = 2
  MaxAttempts = 2
  MaxPending = 2
  MaxFiles = 4
  MaxRecords = 3
  MaxBridges = 3
  MaxFails = 0
  MayTear = FALSE
CHECK_DEADLOCK FALSE
INVARIANT InSequence
