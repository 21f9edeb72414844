---------------------------- MODULE MCStoreTx ----------------------------
(***************************************************************************)
(* A small store.  c1 is a first capture that writes b; c2 an incremental  *)
(* capture on c1 that writes d; c3 a full capture of the same content as   *)
(* c1, for which b already exists when c1 was there first; m the tree of a *)
(* merge of c2, an inner tree e and b from its base.  Two fanouts, the one *)
(* of d and c2 used by nothing else.                                       *)
(***************************************************************************)
EXTENDS StoreTx, TLC

CONSTANTS c1, c2, c3, m, b, d, e, f, g

MCCommits == {c1, c2, c3}
MCMerges == {m}
MCParts == {b, d, e}
MCBase == (c1 :> {}) @@ (c2 :> {c1}) @@ (c3 :> {}) @@ (m :> {c2})
MCOwn == (c1 :> {b}) @@ (c2 :> {d}) @@ (c3 :> {b}) @@ (m :> {e})
MCShared == (c1 :> {}) @@ (c2 :> {c1, b}) @@ (c3 :> {}) @@ (m :> {b})
MCDir == [o \in {c1, c3, b, m, e} |-> f] @@ [o \in {c2, d} |-> g]
=============================================================================
