SPECIFICATION Spec
CONSTANTS
  MaxItems = 4
  MaxBytes = 4
  MaxInFlight = 1
  MaxAttempts = 2
  MaxRecords = 2
  MaxBridges = 1
  MaxWatches = 2
  MaxCrashes = 0
  MaxReleases = 1
  MaxFails = 0
  MaxHolds = 0
  MaxFaults = 1
  MaxBacklog = 9
  HandlerMayFail = TRUE
  HasCursor = TRUE
INVARIANTS OneHandler
CHECK_DEADLOCK FALSE
