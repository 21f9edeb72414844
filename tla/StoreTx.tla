------------------------------ MODULE StoreTx ------------------------------
(***************************************************************************)
(* The snapshot store's transactions (core/src/store_tx.rs, with the       *)
(* operations that run them): objects are staged, a journal names the ref  *)
(* the operation is about to publish, each staged file is hard-linked to   *)
(* its loose path, the ref is written and synced, and removing the journal *)
(* commits.  A process may die between any two of these steps; the next    *)
(* operation, or the transaction's Drop, recovers.                         *)
(*                                                                         *)
(* Every operation holds the store's flock from start to end, and the      *)
(* kernel releases it when the process dies, so one operation runs at a    *)
(* time: "op".  The disk is its directory entries; "unsynced" holds those  *)
(* changed since their directory was last synced, which a power loss may   *)
(* undo.  Object content is synced before its entry is made and is not     *)
(* modelled.                                                               *)
(***************************************************************************)
EXTENDS FiniteSets, Naturals

CONSTANTS
    Commits,        \* states a capture publishes
    Merges,         \* trees a merge publishes
    Parts,          \* the other objects: blobs and inner trees
    Base,           \* Base[t]: the states the operation is given to build on
    Own,            \* Own[t]: the parts the operation writes itself
    Shared,         \* Shared[t]: what t reaches through its base
    Dir,            \* Dir[o]: the fanout directory of o's loose path
    BatchSize,      \* STORE_OBJECT_BATCH_SIZE
    MaxStops,       \* bound: processes that die, or fail to recover
    MaxFailures     \* bound: operations that return an error half way

None == "none"
Targets == Commits \union Merges
Objects == Targets \union Parts
Below == [t \in Targets |-> Own[t] \union Shared[t]]

Store == INSTANCE SnapshotStore WITH pinned <- {}, objects <- {}
Closure(t) == Store!Closure(t)
Reachable(ts) == Store!Reachable(ts)

ASSUME KindsAssumption ==
    /\ Commits \intersect Merges = {}
    /\ Targets \intersect Parts = {}
    /\ None \notin Targets
ASSUME ShapeAssumption ==
    /\ Base \in [Targets -> SUBSET Commits]
    /\ Own \in [Targets -> SUBSET Parts]
    /\ Shared \in [Targets -> SUBSET Objects]
    /\ \A t \in Targets : Shared[t] \subseteq Reachable(Base[t])
ASSUME DirAssumption == DOMAIN Dir = Objects
ASSUME BoundsAssumption ==
    /\ BatchSize \in Nat \ {0}
    /\ MaxStops \in Nat /\ MaxFailures \in Nat

VARIABLES
    journal,        \* the journal file: None, or the ref it intends
    stageDir,       \* the staging directory exists
    stage,          \* the objects with a file in it
    fanout,         \* the fanout directories that exist
    canon,          \* the objects with a loose file
    linked,         \* those whose loose file is the staged file's inode
    namespace,      \* refs/termina and the namespace below it exist
    refs,           \* the states whose ref is visible
    unsynced,       \* entries changed and not synced since
    op,             \* the operation that holds the lock
    held,           \* the states the host was given and still refers to
    isOpen,         \* store-create has run in this session
    stops, failures

disk == <<journal, stageDir, stage, fanout, canon, linked, namespace, refs,
          unsynced>>
vars == <<disk, op, held, isOpen, stops, failures>>

\* The journal's record: the intended ref, and whether it carries the
\* staging directory's identity.
NoJournal == [on |-> FALSE, ref |-> None, ident |-> FALSE]

Object(o) == <<"object", o>>
Staged(o) == <<"stage", o>>
Fanout(d) == <<"fanout", d>>
Ref(t)    == <<"ref", t>>
StageDir  == <<"store", "stage">>
Journal   == <<"store", "journal">>
Namespace == <<"refs", "namespace">>

\* sync_directory of one directory makes the entries in it durable.
SyncOf(dir) ==
    CASE dir = "store"   -> {StageDir, Journal}
      [] dir = "stage"   -> {Staged(o) : o \in Objects}
      [] dir = "objects" -> {Fanout(Dir[o]) : o \in Objects}
SyncFanouts(ds) == {Object(o) : o \in {p \in Objects : Dir[p] \in ds}}

(***************************************************************************)
(* The running operation: its program counter "pc", where a flush or a     *)
(* clear "then" goes on, the objects it has yet to write ("todo"), its     *)
(* StoreObjectTransaction (started, ident, pending, staged_oids as "mine"),*)
(* the fanouts to sync ("made", "grown" when one of them is new), whether  *)
(* it is a Drop that rolls back ("fails"), and whether the session that    *)
(* asked for it is gone ("orphan").                                        *)
(***************************************************************************)
Idle == [pc |-> "idle", then |-> None, kind |-> None, target |-> None,
         todo |-> {}, started |-> FALSE, ident |-> FALSE, pending |-> {},
         mine |-> {}, made |-> {}, grown |-> FALSE, fails |-> FALSE,
         orphan |-> FALSE]

Init ==
    /\ journal = NoJournal
    /\ stageDir = FALSE /\ stage = {}
    /\ fanout = {} /\ canon = {} /\ linked = {}
    /\ namespace = FALSE /\ refs = {}
    /\ unsynced = {}
    /\ op = Idle
    /\ held = {} /\ isOpen = FALSE
    /\ stops = 0 /\ failures = 0

At(pc) == op.pc = pc

----------------------------------------------------------------------------
(* Requests.  The client sends one at a time.                              *)

Begin(kind, t) ==
    /\ At("idle")
    /\ op' = [Idle EXCEPT !.pc = "recover", !.kind = kind, !.target = t]
    /\ UNCHANGED <<disk, isOpen, stops, failures>>

\* op_capture, op_capture_incremental and op_merge3: the host passes states
\* it was given and has not released.  A commit's id contains its time.
RequestPublish(t) ==
    /\ isOpen
    /\ Base[t] \subseteq held
    /\ t \in Commits => t \notin held
    /\ Begin("publish", t)
    /\ UNCHANGED held

\* releaseStateIfUnused: nothing in the host refers to the state any more.
RequestUnref(t) ==
    /\ isOpen
    /\ t \in held \intersect Commits
    /\ held' = held \ {t}
    /\ Begin("unref", t)

\* op_store_create, for a new session.  While the process of a session that
\* crashed still runs an operation the lock is contended and it refuses.
RequestCreate ==
    /\ ~isOpen
    /\ Begin("create", None)
    /\ UNCHANGED held

----------------------------------------------------------------------------
(* recover_store_transaction                                               *)

\* Where the operation goes once the store is recovered.
Recovered ==
    IF op.fails THEN Idle
    ELSE CASE op.kind = "publish" ->
                [op EXCEPT !.pc = "write", !.todo = Own[op.target]]
           [] op.kind = "unref"   -> [op EXCEPT !.pc = "unref"]
           [] op.kind = "create"  -> [op EXCEPT !.pc = "create"]

RecoverWithoutJournal ==
    /\ At("recover") /\ ~journal.on
    /\ stageDir' = FALSE /\ stage' = {} /\ linked' = {}
    /\ unsynced' = IF stageDir
                   THEN unsynced \ (SyncOf("store") \union SyncOf("stage"))
                   ELSE unsynced
    /\ op' = Recovered
    /\ UNCHANGED <<journal, fanout, canon, namespace, refs,
                   held, isOpen, stops, failures>>

\* A journal that carries an identity is refused when the staging directory
\* is not that one: every later operation would be refused as well.
StagingProven == journal.ident => stageDir

IntendedVisible == journal.on /\ journal.ref \in refs

\* sync_exact_transaction_ref prepares the path again; the directories above
\* the leaf are synced only when this second call made one of them.
RefSynced(t) == {Ref(t)} \union (IF namespace THEN {} ELSE {Namespace})

RecoverKeep ==
    /\ At("recover") /\ journal.on /\ StagingProven
    /\ IntendedVisible
    /\ unsynced' = unsynced \ RefSynced(journal.ref)
    /\ op' = [op EXCEPT !.pc = "clear"]
    /\ UNCHANGED <<journal, stageDir, stage, fanout, canon, linked, namespace,
                   refs, held, isOpen, stops, failures>>

\* Only a loose file that is the staged inode is the transaction's own.
Owned == linked \intersect stage

RollbackObject(o) ==
    /\ At("recover") /\ journal.on /\ StagingProven
    /\ ~IntendedVisible
    /\ o \in Owned
    /\ canon' = canon \ {o}
    /\ linked' = linked \ {o}
    /\ unsynced' = unsynced \union {Object(o)}
    /\ op' = [op EXCEPT !.made = @ \union {Dir[o]}]
    /\ UNCHANGED <<journal, stageDir, stage, fanout, namespace, refs,
                   held, isOpen, stops, failures>>

\* Mutant: the rollback stops before every object of its own is gone.
RollbackEnough ==
    /\ At("recover") /\ journal.on /\ StagingProven /\ ~IntendedVisible
    /\ op' = [op EXCEPT !.pc = "clear", !.made = {}]
    /\ UNCHANGED <<disk, held, isOpen, stops, failures>>

RollbackDone ==
    /\ At("recover") /\ journal.on /\ StagingProven
    /\ ~IntendedVisible
    /\ Owned = {}
    /\ unsynced' = unsynced \ SyncFanouts(op.made)
    /\ op' = [op EXCEPT !.pc = "clear", !.made = {}]
    /\ UNCHANGED <<journal, stageDir, stage, fanout, canon, linked, namespace,
                   refs, held, isOpen, stops, failures>>

\* Mutant: the staged files go before the journal that needs them.
ClearStageFirst ==
    /\ At("clear") \/ At("commit")
    /\ stageDir' = FALSE /\ stage' = {} /\ linked' = {}
    /\ op' = [op EXCEPT !.pc = "clearStage",
                        !.then = IF At("commit") THEN "ack" ELSE "go"]
    /\ UNCHANGED <<journal, fanout, canon, namespace, refs, unsynced,
                   held, isOpen, stops, failures>>

(***************************************************************************)
(* clear_store_transaction: the journal goes first, durably, and only then *)
(* the staged files that prove ownership.  A commit clears too: "ack" is   *)
(* where it goes on.                                                       *)
(***************************************************************************)
ClearJournal ==
    /\ At("clear") \/ At("commit")
    /\ op.pending = {}
    /\ journal' = NoJournal
    /\ unsynced' = IF journal.on THEN unsynced \ SyncOf("store") ELSE unsynced
    /\ op' = [op EXCEPT !.pc = "clearStage",
                        !.then = IF At("commit") THEN "ack" ELSE "go"]
    /\ UNCHANGED <<stageDir, stage, fanout, canon, linked, namespace, refs,
                   held, isOpen, stops, failures>>

ClearStage ==
    /\ At("clearStage")
    /\ stageDir' = FALSE /\ stage' = {} /\ linked' = {}
    /\ unsynced' = IF stageDir
                   THEN unsynced \ (SyncOf("store") \union SyncOf("stage"))
                   ELSE unsynced
    /\ op' = IF op.then = "ack" THEN Idle ELSE Recovered
    /\ held' = IF op.then = "ack" /\ ~op.orphan
               THEN held \union {op.target} ELSE held
    /\ UNCHANGED <<journal, fanout, canon, namespace, refs, isOpen, stops,
                   failures>>

----------------------------------------------------------------------------
(* Staging, write_transaction_object_with_oid                              *)

\* persist: durable_write replaces the journal and syncs the store directory,
\* so what persists the journal takes SyncOf("store") out of unsynced.
Persist(ref, ident) == journal' = [on |-> TRUE, ref |-> ref, ident |-> ident]

Exists(o) == o \in canon \union op.mine

SkipObject(o) ==
    /\ At("write") \/ At("seal")
    /\ o \in op.todo /\ Exists(o)
    /\ op' = [op EXCEPT !.todo = @ \ {o}]
    /\ UNCHANGED <<disk, held, isOpen, stops, failures>>

BatchFull == Cardinality(op.pending) >= BatchSize

FlushBatch(o) ==
    /\ At("write") \/ At("seal")
    /\ o \in op.todo /\ ~Exists(o) /\ BatchFull
    /\ op' = [op EXCEPT !.pc = "flush", !.then = op.pc]
    /\ UNCHANGED <<disk, held, isOpen, stops, failures>>

\* Mutant: the staged id is not remembered.
StageForgotten(o) ==
    /\ At("write") \/ At("seal")
    /\ o \in op.todo /\ ~Exists(o) /\ ~BatchFull
    /\ stageDir' = TRUE
    /\ stage' = stage \union {o}
    /\ op' = [op EXCEPT !.todo = @ \ {o}, !.pending = @ \union {o}]
    /\ unsynced' = unsynced \union {StageDir, Staged(o)}
    /\ UNCHANGED <<journal, fanout, canon, linked, namespace, refs,
                   held, isOpen, stops, failures>>

StageObject(o) ==
    /\ At("write") \/ At("seal")
    /\ o \in op.todo /\ ~Exists(o) /\ ~BatchFull
    /\ stageDir' = TRUE
    /\ stage' = stage \union {o}
    /\ op' = [op EXCEPT !.todo = @ \ {o}, !.mine = @ \union {o},
                        !.pending = @ \union {o}, !.ident = TRUE]
    /\ LET dirty == IF stageDir THEN {Staged(o)} ELSE {StageDir, Staged(o)}
       IN IF op.started /\ ~op.ident
          THEN /\ Persist(journal.ref, TRUE)
               /\ unsynced' = (unsynced \ SyncOf("store")) \union {Staged(o)}
          ELSE /\ unsynced' = unsynced \union dirty
               /\ UNCHANGED journal
    /\ UNCHANGED <<fanout, canon, linked, namespace, refs,
                   held, isOpen, stops, failures>>

----------------------------------------------------------------------------
(* StoreObjectTransaction::flush                                           *)

FlushNothing ==
    /\ At("flush") /\ op.pending = {}
    /\ op' = [op EXCEPT !.pc = op.then, !.then = None]
    /\ UNCHANGED <<disk, held, isOpen, stops, failures>>

\* Mutant: the staging directory is not synced before the links.
FlushUnsynced ==
    /\ At("flush") /\ op.pending # {}
    /\ IF op.started THEN UNCHANGED journal ELSE Persist(None, op.ident)
    /\ unsynced' = IF op.started THEN unsynced ELSE unsynced \ SyncOf("store")
    /\ op' = [op EXCEPT !.pc = "link", !.started = TRUE]
    /\ UNCHANGED <<stageDir, stage, fanout, canon, linked, namespace, refs,
                   held, isOpen, stops, failures>>

\* The journal and the staged entries are durable before the first link.
FlushStart ==
    /\ At("flush") /\ op.pending # {}
    /\ IF op.started THEN UNCHANGED journal ELSE Persist(None, op.ident)
    /\ unsynced' = unsynced \ (SyncOf("stage") \union
                      (IF op.started THEN {} ELSE SyncOf("store")))
    /\ op' = [op EXCEPT !.pc = "link", !.started = TRUE]
    /\ UNCHANGED <<stageDir, stage, fanout, canon, linked, namespace, refs,
                   held, isOpen, stops, failures>>

LinkObject(o) ==
    /\ At("link")
    /\ o \in op.pending \ canon
    /\ canon' = canon \union {o}
    /\ linked' = linked \union {o}
    /\ fanout' = fanout \union {Dir[o]}
    /\ unsynced' = unsynced \union {Object(o)} \union
                     (IF Dir[o] \in fanout THEN {} ELSE {Fanout(Dir[o])})
    /\ op' = [op EXCEPT !.made = @ \union {Dir[o]},
                        !.grown = @ \/ Dir[o] \notin fanout]
    /\ UNCHANGED <<journal, stageDir, stage, namespace, refs,
                   held, isOpen, stops, failures>>

FlushDone ==
    /\ At("link")
    /\ op.pending \subseteq canon
    /\ unsynced' = unsynced \ (SyncFanouts(op.made) \union
                      (IF op.grown THEN SyncOf("objects") ELSE {}))
    /\ op' = [op EXCEPT !.pc = op.then, !.then = None, !.pending = {},
                        !.made = {}, !.grown = FALSE]
    /\ UNCHANGED <<journal, stageDir, stage, fanout, canon, linked, namespace,
                   refs, held, isOpen, stops, failures>>

----------------------------------------------------------------------------
(* Publishing the ref                                                      *)

\* commit_tree flushes before it writes the commit; the root tree of a merge
\* (write_nested_tree_for_ref) joins the objects already pending.
Seal ==
    /\ At("write") /\ op.todo = {}
    /\ op' = IF op.target \in Commits /\ op.pending # {}
             THEN [op EXCEPT !.pc = "flush", !.then = "write"]
             ELSE [op EXCEPT !.pc = "seal", !.todo = {op.target}]
    /\ UNCHANGED <<disk, held, isOpen, stops, failures>>

\* set_intended_ref
Intend ==
    /\ At("seal") /\ op.todo = {}
    /\ Persist(op.target, op.ident)
    /\ unsynced' = unsynced \ SyncOf("store")
    /\ op' = [op EXCEPT !.pc = "flush", !.then = "publish", !.started = TRUE]
    /\ UNCHANGED <<stageDir, stage, fanout, canon, linked, namespace, refs,
                   held, isOpen, stops, failures>>

\* prepare_transaction_ref_path, as publish_transaction_ref calls it first.
PrepareNamespace ==
    /\ At("publish") /\ op.pending = {}
    /\ namespace' = TRUE
    /\ unsynced' = IF namespace THEN unsynced ELSE unsynced \union {Namespace}
    /\ op' = [op EXCEPT !.pc = "ref"]
    /\ UNCHANGED <<journal, stageDir, stage, fanout, canon, linked, refs,
                   held, isOpen, stops, failures>>

\* Mutant: an error of libgit2 counts as success without a look at the ref.
WriteRefUnchecked ==
    /\ At("ref")
    /\ refs' \in {refs, refs \union {op.target}}
    /\ unsynced' = unsynced \union {Ref(op.target)}
    /\ op' = [op EXCEPT !.pc = "syncRef"]
    /\ UNCHANGED <<journal, stageDir, stage, fanout, canon, linked, namespace,
                   held, isOpen, stops, failures>>

\* An error of libgit2 after the rename counts as success.
WriteRef ==
    /\ At("ref")
    /\ refs' = refs \union {op.target}
    /\ unsynced' = unsynced \union {Ref(op.target)}
    /\ op' = [op EXCEPT !.pc = "syncRef"]
    /\ UNCHANGED <<journal, stageDir, stage, fanout, canon, linked, namespace,
                   held, isOpen, stops, failures>>

SyncRef ==
    /\ At("syncRef")
    /\ unsynced' = unsynced \ RefSynced(op.target)
    /\ op' = [op EXCEPT !.pc = "commit"]
    /\ UNCHANGED <<journal, stageDir, stage, fanout, canon, linked, namespace,
                   refs, held, isOpen, stops, failures>>

----------------------------------------------------------------------------
(* op_unref and op_store_create                                            *)

\* Below the object threshold, or within a minute of the last one, the
\* prune does not run.
DeleteRef ==
    /\ At("unref")
    /\ refs' = refs \ {op.target}
    /\ unsynced' = IF op.target \in refs THEN unsynced \union {Ref(op.target)}
                   ELSE unsynced
    /\ op' \in {Idle, [op EXCEPT !.pc = "prune"]}
    /\ UNCHANGED <<journal, stageDir, stage, fanout, canon, linked, namespace,
                   held, isOpen, stops, failures>>

PruneObject(o) ==
    /\ At("prune")
    /\ o \in canon \ Reachable(refs)
    /\ canon' = canon \ {o}
    /\ unsynced' = unsynced \union {Object(o)}
    /\ UNCHANGED <<journal, stageDir, stage, fanout, linked, namespace, refs,
                   op, held, isOpen, stops, failures>>

PruneDone ==
    /\ At("prune")
    /\ canon \subseteq Reachable(refs)
    /\ op' = Idle
    /\ UNCHANGED <<disk, held, isOpen, stops, failures>>

\* No record of the last session is left to refer to its refs.
DropStaleRef(t) ==
    /\ At("create")
    /\ t \in refs
    /\ refs' = refs \ {t}
    /\ unsynced' = unsynced \union {Ref(t)}
    /\ UNCHANGED <<journal, stageDir, stage, fanout, canon, linked, namespace,
                   op, held, isOpen, stops, failures>>

CreateDone ==
    /\ At("create") /\ refs = {}
    /\ isOpen' = ~op.orphan
    /\ op' = Idle
    /\ UNCHANGED <<disk, held, stops, failures>>

----------------------------------------------------------------------------
(* Failures                                                                *)

InTransaction ==
    op.pc \in {"write", "seal", "flush", "link", "publish", "ref", "syncRef",
               "commit"}

\* Any call may return an error: Drop recovers under the same lock.
Fail ==
    /\ failures < MaxFailures
    /\ InTransaction \/ (At("clearStage") /\ op.then = "ack")
    /\ failures' = failures + 1
    /\ op' = [Idle EXCEPT !.pc = "recover", !.kind = op.kind,
                          !.target = op.target, !.fails = TRUE,
                          !.orphan = op.orphan]
    /\ UNCHANGED <<disk, held, isOpen, stops>>

\* The process dies (a timeout kills it, the parent is gone), or returns an
\* error where there is no transaction to drop, or from the recovery itself.
Stop ==
    /\ stops < MaxStops
    /\ ~At("idle")
    /\ stops' = stops + 1
    /\ op' = Idle
    /\ UNCHANGED <<disk, held, isOpen, failures>>

\* The application dies with every record of what it was given; a running
\* operation goes on until the process sees its parent gone.
AppRestart ==
    /\ stops < MaxStops
    /\ isOpen
    /\ stops' = stops + 1
    /\ held' = {} /\ isOpen' = FALSE
    /\ op' = IF At("idle") THEN op ELSE [op EXCEPT !.orphan = TRUE]
    /\ UNCHANGED <<disk, failures>>

Next ==
    \/ \E t \in Targets : RequestPublish(t) \/ RequestUnref(t)
    \/ RequestCreate
    \/ RecoverWithoutJournal \/ RecoverKeep
    \/ \E o \in Objects : RollbackObject(o)
    \/ RollbackDone \/ ClearJournal \/ ClearStage
    \/ \E o \in Objects : SkipObject(o) \/ FlushBatch(o) \/ StageObject(o)
    \/ FlushNothing \/ FlushStart \/ FlushDone
    \/ \E o \in Objects : LinkObject(o)
    \/ Seal \/ Intend \/ PrepareNamespace \/ WriteRef \/ SyncRef
    \/ DeleteRef \/ PruneDone
    \/ \E o \in Objects : PruneObject(o)
    \/ \E t \in Targets : DropStaleRef(t)
    \/ CreateDone
    \/ Fail \/ Stop \/ AppRestart

Spec == Init /\ [][Next]_vars

----------------------------------------------------------------------------

\* The disk and the running operation are well formed.
TypeOK ==
    /\ journal \in [on : BOOLEAN, ref : Targets \union {None}, ident : BOOLEAN]
    /\ stageDir \in BOOLEAN /\ namespace \in BOOLEAN /\ isOpen \in BOOLEAN
    /\ stage \subseteq Objects /\ canon \subseteq Objects
    /\ linked \subseteq canon
    /\ fanout \subseteq {Dir[o] : o \in Objects}
    /\ refs \subseteq Targets /\ held \subseteq Targets
    /\ op.target \in Targets \union {None}
    /\ op.pending \subseteq op.mine /\ op.mine \subseteq Objects
    /\ op.todo \subseteq Objects

\* A state the host was given and has not released stays pinned, through
\* every operation, failure and death of the process in between.
HeldIsPinned == held \subseteq refs

(***************************************************************************)
(* Write-ahead order.  While the disk can still be rolled back, whatever   *)
(* the rollback would have to remove has its journal, its staged file and  *)
(* the staging directory durable: a power loss cannot leave an object that *)
(* no recovery knows of.  Once the journal is gone, no object that is      *)
(* visible waits for a sync of its own directory.                          *)
(***************************************************************************)
WriteAhead ==
    /\ journal.on /\ Owned # {} /\ ~IntendedVisible =>
         /\ unsynced \intersect ({Journal, StageDir} \union
                                  {Staged(o) : o \in Owned}) = {}
    /\ ~journal.on => \A o \in canon : Object(o) \notin unsynced
    /\ ~journal.on => \A t \in refs : Ref(t) \notin unsynced

\* No crash leaves a journal whose staging directory is gone: recovery would
\* refuse it, and with it every later operation on the store.
NeverRefused == journal.on => StagingProven

\* A state that was returned to the host survives a power loss: its ref, the
\* directories above the ref, and every object with its fanout directory.
AckedIsDurable ==
    \A t \in held :
        /\ unsynced \intersect {Ref(t), Namespace} = {}
        /\ \A o \in Closure(t) :
               unsynced \intersect {Object(o), Fanout(Dir[o])} = {}

\* What a recovery would keep of the objects on disk.
Kept == IF journal.on /\ ~IntendedVisible THEN canon \ Owned ELSE canon

Published == INSTANCE SnapshotStore WITH pinned <- refs, objects <- Kept

\* Every operation is atomic: at each step the disk, as recovery would leave
\* it, takes one step of the abstract store or none.
Atomic == Published!Spec

\* Every state whose ref is visible can be read in full from the disk as it
\* is, with no recovery run.
VisibleIsComplete == Reachable(refs) \subseteq canon
=============================================================================
