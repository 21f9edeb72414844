SPECIFICATION FairSpec
CONSTANTS
  Absent = Absent
  NoOwner = NoOwner
  NotFound = NotFound
  p1 = p1
  p2 = p2
  p3 = p3
  d1 = d1
  d2 = d2
  d3 = d3
  Procs <- ThreeProcs
  Inodes <- TwoInodes
  Reuse = TRUE
  Once <- AllButOne
  MaxTokens = 2
  MaxCrashes = 2
  MaxFaults = 1
CHECK_DEADLOCK FALSE
PROPERTY StaleIsRecovered
INVARIANTS HolderOnRecord OneProvenLease ExclusiveWhileAllLive
