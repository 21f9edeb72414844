SPECIFICATION Spec
CONSTANTS
  MaxBytes = 4
  MaxBacklog = 4
  ReadBytes = 3
  MaxGap = 2
  MaxAttempts = 2
  MaxPending = 2
  MaxFiles = 4
  MaxRecords = 5
  MaxBridges = 1
  MaxFails = 0
  MayTear = FALSE
CHECK_DEADLOCK FALSE
PROPERTY BacklogIsReal
