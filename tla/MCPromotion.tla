---------------------------- MODULE MCPromotion ----------------------------
(* A file the candidate changed, one it added and one it deleted.          *)
EXTENDS Promotion
CONSTANTS added, changed, deleted, old, new, mine, missing
MCOrder == <<added, changed, deleted>>
MCBase == [p \in Paths |-> IF p = added THEN missing ELSE old]
MCTarget == [p \in Paths |-> IF p = deleted THEN missing ELSE new]
=============================================================================
