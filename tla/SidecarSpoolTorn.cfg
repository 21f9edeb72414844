SPECIFICATION FairSpec
CONSTANTS
  MaxBytes = 4
  MaxBacklog = 20
  ReadBytes = 3
  MaxGap = 2
  MaxAttempts = 2
  MaxPending = 2
  MaxFiles = 4
  MaxRecords = 4
  MaxBridges = 2
  MaxFails = 0
  MayTear = TRUE
CHECK_DEADLOCK FALSE
PROPERTY Drains
