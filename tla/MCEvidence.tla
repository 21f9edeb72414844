----------------------------- MODULE MCEvidence -----------------------------
EXTENDS Evidence
Both == {"A","B"}
JustA == {"A"}
None == {}
JustB == {"B"}
EditB == [A |-> 0, B |-> 1]
EditBoth == [A |-> 1, B |-> 1]
NoEdit == [A |-> 0, B |-> 0]
Eight == 1 .. 8
=============================================================================
