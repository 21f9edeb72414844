----------------------------- MODULE MCPtyEgress -----------------------------
(* Model values and bounds of the TLC runs of PtyEgress.                   *)
EXTENDS PtyEgress

CONSTANTS t1, t2
TwoTerminals == {t1, t2}
OneTerminal == {t1}
Symmetry == Permutations(TwoTerminals)
OneEach == [t \in TwoTerminals |-> 1]
TwoEach == [t \in TwoTerminals |-> 2]
ThreeAndOne == [t \in TwoTerminals |-> IF t = t1 THEN 3 ELSE 1]
TwoOnly == [t \in OneTerminal |-> 2]
FiveOnly == [t \in OneTerminal |-> 5]
=============================================================================
