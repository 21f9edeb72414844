-------------------------- MODULE MCRetentionLock --------------------------
(* Model values and bounds of the TLC runs of RetentionLock.               *)
EXTENDS RetentionLock, TLC

CONSTANTS p1, p2, p3, d1, d2, d3
ThreeProcs == {p1, p2, p3}
AllButOne == {p2, p3}
TwoInodes == {d1, d2}
ThreeInodes == {d1, d2, d3}
SymmetryThree == Permutations(ThreeProcs) \cup Permutations(ThreeInodes)
=============================================================================
