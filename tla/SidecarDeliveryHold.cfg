SPECIFICATION FairSpec
CONSTANTS
  MaxItems = 4
  MaxBytes = 4
  MaxInFlight = 1
  MaxAttempts = 2
  MaxRecords = 3
  MaxBridges = 1
  MaxWatches = 1
  MaxCrashes = 0
  MaxReleases = 0
  MaxFails = 0
  MaxHolds = 1
  MaxFaults = 1
  MaxBacklog = 2
  HandlerMayFail = FALSE
  HasCursor = TRUE
PROPERTIES HoldEnds
CHECK_DEADLOCK FALSE
