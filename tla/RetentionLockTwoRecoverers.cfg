SPECIFICATION Spec
CONSTANTS
  Absent = Absent
  NoOwner = NoOwner
  NotFound = NotFound
  p1 = p1
  p2 = p2
  p3 = p3
  d1 = d1
  d2 = d2
  d3 = d3
  Procs <- ThreeProcs
  Inodes <- ThreeInodes
  Reuse = FALSE
  Once = {}
  MaxTokens = 1
  MaxCrashes = 1
  MaxFaults = 0
SYMMETRY SymmetryThree
INVARIANTS MutualExclusion
CHECK_DEADLOCK FALSE
