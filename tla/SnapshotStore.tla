--------------------------- MODULE SnapshotStore ---------------------------
(***************************************************************************)
(* What the snapshot store promises, with nothing said of journals, hard   *)
(* links or recovery.  A state (a capture's commit, or the tree a merge    *)
(* pins) is published in one step, with every object it reaches; a state   *)
(* is unpinned in one step; an object goes away only when no pinned state  *)
(* reaches it.  StoreTx implements this specification.                     *)
(***************************************************************************)
EXTENDS FiniteSets

CONSTANTS
    Objects,        \* object ids, the Targets among them
    Targets,        \* the ids a ref may pin: commits and merged root trees
    Below           \* Below[t]: the other objects t reaches

VARIABLES
    pinned,         \* the states a ref pins
    objects         \* the objects the store keeps

vars == <<pinned, objects>>

\* Everything a reader of state t may ask the store for.
Closure(t) == {t} \union Below[t]

Reachable(ts) == UNION {Closure(t) : t \in ts}

Init ==
    /\ pinned = {}
    /\ objects = {}

Publish(t) ==
    /\ pinned' = pinned \union {t}
    /\ objects' = objects \union Closure(t)

Unpin(t) ==
    /\ t \in pinned
    /\ pinned' = pinned \ {t}
    /\ UNCHANGED objects

Prune(o) ==
    /\ o \in objects \ Reachable(pinned)
    /\ objects' = objects \ {o}
    /\ UNCHANGED pinned

(***************************************************************************)
(* A publication brings in what the state still lacked and nothing else:   *)
(* an operation that fails or dies leaves no object of its own behind.     *)
(***************************************************************************)
Next ==
    \/ \E t \in Targets : Publish(t) \/ Unpin(t)
    \/ \E o \in Objects : Prune(o)

Spec == Init /\ [][Next]_vars

----------------------------------------------------------------------------

\* Every state a ref pins can be read in full.
PinnedIsComplete == Reachable(pinned) \subseteq objects
=============================================================================
