---------------------------- MODULE StoreTxProofs ----------------------------
(***************************************************************************)
(* Every operation of the snapshot store is atomic: StoreTx implements     *)
(* SnapshotStore, for any states, objects and fanouts, any batch size, any *)
(* number of deaths, failures and application restarts, deaths inside a    *)
(* recovery included.                                                      *)
(*                                                                         *)
(* The argument has three parts.  What a transaction has linked is its own *)
(* and was on no path to a visible state (TxOK, Undoable), so taking it    *)
(* away again is invisible.  Whatever waits for a sync belongs to a        *)
(* transaction whose journal is durable (SyncOK), so recovery knows of it. *)
(* No operation that runs touches a state in use by the host (HostOK).     *)
(***************************************************************************)
EXTENDS StoreTx, TLAPS

Tx == {"write", "seal", "flush", "link", "publish", "ref", "syncRef", "commit"}
Pcs == Tx \union {"idle", "recover", "clear", "clearStage", "unref", "prune", "create"}
Dirs == {Dir[o] : o \in Objects}

Ops ==
  [pc : Pcs, then : {None, "write", "seal", "publish", "ack", "go"},
   kind : {None, "publish", "unref", "create"}, target : Targets \union {None},
   todo : SUBSET Objects, started : BOOLEAN, ident : BOOLEAN,
   pending : SUBSET Objects, mine : SUBSET Objects, made : SUBSET Dirs,
   grown : BOOLEAN, fails : BOOLEAN, orphan : BOOLEAN]

\* The disk on its own: staged files have a directory, the visible states are
\* complete, and a rollback takes nothing from them.
Undoable == journal.on /\ ~IntendedVisible => Owned \intersect Reachable(refs) = {}

Durable ==
  /\ Journal \notin unsynced
  /\ journal.on /\ Owned # {} /\ ~IntendedVisible =>
       StageDir \notin unsynced /\ \A o \in Owned : Staged(o) \notin unsynced

DiskOK ==
  /\ journal \in [on : BOOLEAN, ref : Targets \union {None}, ident : BOOLEAN]
  /\ stageDir \in BOOLEAN /\ namespace \in BOOLEAN
  /\ stage \subseteq Objects /\ canon \subseteq Objects /\ linked \subseteq canon
  /\ fanout \subseteq Dirs /\ refs \subseteq Targets
  /\ stage # {} => stageDir
  /\ journal.on => StagingProven
  /\ VisibleIsComplete /\ Undoable /\ Durable

\* The host: what it refers to is pinned, and no operation under way unpins it.
HostOK ==
  /\ isOpen \in BOOLEAN /\ held \subseteq refs
  /\ ~isOpen => held = {}
  /\ op.pc # "idle" =>
       /\ op.kind # None
       /\ op.kind = "publish" => op.target \in Targets /\ Base[op.target] \subseteq refs /\ (isOpen \/ op.orphan)
       /\ op.kind = "unref" => op.target \in Commits \ held
       /\ op.kind = "create" => ~isOpen

\* Where an operation can be, outside its transaction.
ControlOK ==
  /\ op.pc \in Tx \/ (op.pc = "clearStage" /\ op.then = "ack") => op.kind = "publish"
  /\ op.pc \in {"unref", "prune"} => op.kind = "unref"
  /\ op.pc = "create" => op.kind = "create"
  /\ op.pc \in {"recover", "clear"} \/ (op.pc = "clearStage" /\ op.then # "ack") =>
       op.pending = {} /\ op.mine = {} /\ ~op.started /\ ~op.ident
  /\ op.pc \notin Tx => op.pending = {}
  /\ op.pc \in {"clearStage", "unref", "prune", "create"} => ~journal.on
  /\ op.pc \in {"unref", "prune", "create"} => linked = {}
  /\ op.pc = "clear" /\ journal.on => IntendedVisible \/ Owned = {}
  /\ op.pc \in {"syncRef", "commit"} \/ (op.pc = "clearStage" /\ op.then = "ack") => op.target \in refs

\* Past set_intended_ref.
Publishing ==
  \/ op.pc \in {"publish", "ref", "syncRef", "commit"}
  \/ op.pc \in {"flush", "link"} /\ op.then = "publish"
Sealing == op.pc = "seal" \/ (op.pc \in {"flush", "link"} /\ op.then = "seal")

Whole == Own[op.target] \union {op.target}

\* A transaction writes only what its target owns, and has staged or found it
\* all when it names the ref.
TxOK ==
  op.pc \in Tx =>
    /\ op.pending \subseteq op.mine \intersect stage
    /\ op.mine \subseteq (canon \union op.pending) \intersect Whole
    /\ linked \subseteq op.mine /\ op.todo \subseteq Whole
    /\ Own[op.target] \subseteq canon \union op.mine \union op.todo
    /\ Sealing \/ Publishing => op.target \in canon \union op.mine \union op.todo
    /\ Publishing => op.todo = {} /\ op.started /\ journal.ref = op.target
    /\ ~Publishing /\ journal.on => journal.ref = None
    /\ op.pc \in {"publish", "ref", "syncRef", "commit"} => op.pending = {}
    /\ op.pc \in {"flush", "link"} => op.then \in {"write", "seal", "publish"}
    /\ op.started <=> journal.on
    /\ ~op.started => linked = {}
    /\ op.started => StageDir \notin unsynced
    /\ op.ident => stageDir
    /\ op.pc = "link" => op.started /\ \A o \in Objects : Staged(o) \notin unsynced

\* An entry that waits for its sync belongs to a transaction that recovery will
\* meet, or to the step under way.
SyncOK ==
  /\ \A o \in canon : Object(o) \in unsynced =>
       /\ journal.on /\ ~IntendedVisible /\ o \in Owned
       /\ op.pc \in {"link", "idle", "recover"}
       /\ op.pc = "link" => Dir[o] \in op.made
  /\ \A t \in refs : Ref(t) \in unsynced =>
       /\ journal.on /\ journal.ref = t
       /\ op.pc \in {"syncRef", "idle", "recover"}

IInv == op \in Ops /\ DiskOK /\ HostOK /\ ControlOK /\ TxOK /\ SyncOK

-----------------------------------------------------------------------------
(* What a set of states reaches *)

LEMMA ClosureOf ==
  ASSUME NEW t \in Targets
  PROVE  Closure(t) = {t} \union Own[t] \union Shared[t]
BY DEF Closure, Store!Closure, Below

LEMMA ReachableOf ==
  ASSUME NEW ts, NEW o
  PROVE  o \in Reachable(ts) <=> \E t \in ts : o \in Closure(t)
BY DEF Reachable, Store!Reachable, Closure

LEMMA ReachableMore ==
  ASSUME NEW ts, NEW t
  PROVE  Reachable(ts \union {t}) = Reachable(ts) \union Closure(t)
BY DEF Reachable, Store!Reachable, Closure

LEMMA ReachableFewer ==
  ASSUME NEW ts, NEW us, us \subseteq ts
  PROVE  Reachable(us) \subseteq Reachable(ts)
BY DEF Reachable, Store!Reachable, Closure

LEMMA ReachableMember ==
  ASSUME NEW ts, NEW t \in ts
  PROVE  Closure(t) \subseteq Reachable(ts)
BY DEF Reachable, Store!Reachable, Closure

\* What an operation publishes is its own objects and what its base reaches.
LEMMA Shape ==
  ASSUME NEW t \in Targets
  PROVE  /\ Own[t] \subseteq Objects /\ t \in Objects
         /\ Own[t] \union {t} \subseteq Closure(t)
         /\ Closure(t) \subseteq {t} \union Own[t] \union Reachable(Base[t])
         /\ t # None
BY ClosureOf, ShapeAssumption, KindsAssumption DEF Objects, Targets

\* Two entries of different directories are told apart.
LEMMA Entries ==
  /\ \A o, x : Object(o) # Staged(x) /\ Object(o) # Fanout(x) /\ Object(o) # Ref(x)
               /\ Staged(o) # Fanout(x) /\ Staged(o) # Ref(x) /\ Ref(o) # Fanout(x)
  /\ \A o, x : (Object(o) = Object(x) => o = x) /\ (Staged(o) = Staged(x) => o = x)
               /\ (Ref(o) = Ref(x) => o = x) /\ (Fanout(o) = Fanout(x) => o = x)
  /\ \A o : {Object(o), Staged(o), Fanout(o), Ref(o)} \intersect {StageDir, Journal, Namespace} = {}
  /\ StageDir # Journal /\ StageDir # Namespace /\ Journal # Namespace
BY DEF Object, Staged, Fanout, Ref, StageDir, Journal, Namespace

LEMMA Syncs ==
  /\ \A e : e \in SyncOf("store") <=> e \in {StageDir, Journal}
  /\ \A o \in Objects : Staged(o) \in SyncOf("stage")
  /\ \A o : Object(o) \notin SyncOf("store") /\ Object(o) \notin SyncOf("stage")
  /\ \A o : Ref(o) \notin SyncOf("store") /\ Ref(o) \notin SyncOf("stage")
BY Entries, ZenonT(60) DEF SyncOf

-----------------------------------------------------------------------------
(* Steps that leave the disk alone *)

LEMMA DiskSame ==
  ASSUME IInv, UNCHANGED disk
  PROVE  /\ DiskOK' /\ (IntendedVisible' <=> IntendedVisible) /\ Owned' = Owned
         /\ journal' = journal /\ linked' = linked /\ canon' = canon /\ stage' = stage /\ stageDir' = stageDir
         /\ refs' = refs /\ unsynced' = unsynced
BY DEF disk, IInv, DiskOK, VisibleIsComplete, Undoable, Durable, Owned, IntendedVisible, StagingProven

\* A step from one place of a transaction to another.
LEMMA SyncSame ==
  ASSUME IInv, UNCHANGED disk, op'.pc # "link", op.pc \in {"link", "idle", "recover"} => op'.pc \in {"idle", "recover"},
         op.pc = "syncRef" => op'.pc \in {"syncRef", "idle", "recover"}
  PROVE  SyncOK'
BY DiskSame DEF IInv, SyncOK

LEMMA IdleFacts ==
  /\ Idle \in Ops
  /\ Idle.pc = "idle" /\ Idle.kind = None /\ Idle.pending = {} /\ Idle.mine = {}
  /\ ~Idle.started /\ ~Idle.ident /\ ~Idle.orphan
BY DEF Idle, Ops, Pcs, Tx

\* A request starts with the recovery of the store.
LEMMA BeginIInv ==
  ASSUME IInv, NEW k \in {"publish", "unref", "create"}, NEW t \in Targets \union {None}, Begin(k, t),
         held' \subseteq refs, ~isOpen => held' = {},
         k = "publish" => t \in Targets /\ Base[t] \subseteq refs /\ isOpen,
         k = "unref" => t \in Commits \ held',
         k = "create" => ~isOpen
  PROVE  IInv'
<1> DEFINE f == [Idle EXCEPT !.pc = "recover", !.kind = k, !.target = t]
<1>1. op.pc = "idle" /\ op' = f /\ UNCHANGED disk /\ isOpen' = isOpen
  BY DEF Begin, At
<1>2. /\ f \in Ops /\ f.pc = "recover" /\ f.kind = k /\ f.target = t
      /\ f.pending = {} /\ f.mine = {} /\ ~f.started /\ ~f.ident
  BY DEF Idle, Ops, Pcs, Tx
<1> HIDE DEF f
<1>3. HostOK'
  BY <1>1, <1>2, DiskSame DEF HostOK, IInv, None
<1>4. ControlOK' /\ TxOK'
  BY <1>1, <1>2 DEF ControlOK, TxOK, Tx
<1>5. SyncOK'
  BY <1>1, <1>2, SyncSame
<1> QED BY <1>1, <1>2, <1>3, <1>4, <1>5, DiskSame DEF IInv

LEMMA RequestPublishIInv == ASSUME IInv, NEW t \in Targets, RequestPublish(t) PROVE IInv'
<1>1. held' = held /\ Begin("publish", t) /\ Base[t] \subseteq held /\ isOpen
  BY DEF RequestPublish
<1> QED BY <1>1, BeginIInv DEF IInv, HostOK

LEMMA RequestUnrefIInv == ASSUME IInv, NEW t \in Targets, RequestUnref(t) PROVE IInv'
<1>1. held' = held \ {t} /\ Begin("unref", t) /\ t \in Commits
  BY DEF RequestUnref
<1> QED BY <1>1, BeginIInv DEF IInv, HostOK

LEMMA RequestCreateIInv == ASSUME IInv, RequestCreate PROVE IInv'
<1>1. held' = held /\ Begin("create", None) /\ ~isOpen
  BY DEF RequestCreate
<1> QED BY <1>1, BeginIInv DEF IInv, HostOK

\* An operation that ends, with an answer, an error or a death, leaves the disk
\* to the next one.
LEMMA OverIInv ==
  ASSUME IInv, op' = Idle, UNCHANGED disk, isOpen' \in BOOLEAN, held' \subseteq refs, ~isOpen' => held' = {}
  PROVE  IInv'
<1>1. HostOK' /\ ControlOK' /\ TxOK'
  BY DiskSame, IdleFacts DEF HostOK, ControlOK, TxOK, Tx
<1>2. SyncOK'
  BY SyncSame, IdleFacts
<1> QED BY <1>1, <1>2, DiskSame, IdleFacts DEF IInv

LEMMA PruneDoneIInv == ASSUME IInv, PruneDone PROVE IInv'
BY OverIInv DEF PruneDone, IInv, HostOK

LEMMA CreateDoneIInv == ASSUME IInv, CreateDone PROVE IInv'
<1>1. op.orphan \in BOOLEAN /\ held = {}
  BY DEF IInv, Ops, HostOK, ControlOK, CreateDone, At
<1> QED BY <1>1, OverIInv DEF CreateDone, IInv, HostOK

LEMMA StopIInv == ASSUME IInv, Stop PROVE IInv'
BY OverIInv DEF Stop, IInv, HostOK

LEMMA FailIInv == ASSUME IInv, Fail PROVE IInv'
<1> DEFINE f == [Idle EXCEPT !.pc = "recover", !.kind = op.kind, !.target = op.target,
                             !.fails = TRUE, !.orphan = op.orphan]
<1>1. /\ op' = f /\ UNCHANGED <<disk, held, isOpen>>
      /\ op.pc \in Tx \/ (op.pc = "clearStage" /\ op.then = "ack")
  BY DEF Fail, InTransaction, At, Tx
<1>2. /\ f \in Ops /\ f.pc = "recover" /\ f.kind = op.kind /\ f.target = op.target
      /\ f.pending = {} /\ f.mine = {} /\ ~f.started /\ ~f.ident /\ f.orphan = op.orphan
  BY ZenonT(60) DEF IInv, Idle, Ops, Pcs, Tx
<1> HIDE DEF f
<1>3. HostOK'
  BY <1>1, <1>2, DiskSame DEF HostOK, IInv, Tx
<1>4. ControlOK' /\ TxOK'
  BY <1>1, <1>2 DEF ControlOK, TxOK, Tx
<1>5. SyncOK'
  BY <1>1, <1>2, SyncSame DEF Tx
<1> QED BY <1>1, <1>2, <1>3, <1>4, <1>5, DiskSame DEF IInv

LEMMA AppRestartIInv == ASSUME IInv, AppRestart PROVE IInv'
<1>1. UNCHANGED disk /\ held' = {} /\ isOpen' = FALSE /\ isOpen
  BY DEF AppRestart
<1>2. CASE op.pc = "idle"
  <2>1. op' = op
    BY <1>2 DEF AppRestart, At
  <2>2. HostOK' /\ ControlOK' /\ TxOK' /\ SyncOK'
    BY <1>1, <1>2, <2>1, DiskSame DEF IInv, HostOK, ControlOK, TxOK, Tx, SyncOK
  <2> QED BY <1>1, <2>1, <2>2, DiskSame DEF IInv
<1>3. CASE op.pc # "idle"
  <2> DEFINE f == [op EXCEPT !.orphan = TRUE]
  <2>1. op' = f
    BY <1>3 DEF AppRestart, At
  <2>2. /\ f \in Ops /\ f.pc = op.pc /\ f.then = op.then /\ f.kind = op.kind /\ f.target = op.target
        /\ f.todo = op.todo /\ f.started = op.started /\ f.ident = op.ident /\ f.pending = op.pending
        /\ f.mine = op.mine /\ f.made = op.made /\ f.orphan
    BY DEF IInv, Ops
  <2> HIDE DEF f
  <2>3. HostOK'
    BY <1>1, <2>1, <2>2, DiskSame DEF IInv, HostOK
  <2>4. ControlOK'
    BY <1>1, <2>1, <2>2, DiskSame DEF IInv, ControlOK
  <2>5. TxOK'
    BY <1>1, <2>1, <2>2, DiskSame DEF IInv, TxOK, Whole, Sealing, Publishing
  <2>6. SyncOK'
    BY <1>1, <2>1, <2>2, DiskSame DEF IInv, SyncOK
  <2> QED BY <1>1, <2>1, <2>2, <2>3, <2>4, <2>5, <2>6, DiskSame DEF IInv
<1> QED BY <1>2, <1>3

-----------------------------------------------------------------------------
(* recover_store_transaction and clear_store_transaction *)

\* Where an operation goes with the store recovered and no journal left.
LEMMA RecoveredFacts ==
  ASSUME IInv, op' = Recovered, ~journal'.on, linked' = {}, refs' = refs, UNCHANGED <<held, isOpen>>,
         op.pc = "recover" \/ (op.pc = "clearStage" /\ op.then # "ack")
  PROVE  /\ op' \in Ops /\ HostOK' /\ ControlOK' /\ TxOK'
         /\ op'.pc \in {"idle", "write", "unref", "create"}
<1>1. CASE op.fails
  <2>1. op' = Idle
    BY <1>1 DEF Recovered
  <2> QED BY <2>1, IdleFacts DEF IInv, HostOK, ControlOK, TxOK, Tx
<1>2. CASE ~op.fails /\ op.kind = "publish"
  <2> DEFINE f == [op EXCEPT !.pc = "write", !.todo = Own[op.target]]
  <2>1. op' = f
    BY <1>2 DEF Recovered
  <2>2. op.target \in Targets /\ Own[op.target] \subseteq Objects /\ op.pending = {} /\ op.mine = {} /\ ~op.started /\ ~op.ident
    BY <1>2, Shape DEF IInv, HostOK, ControlOK
  <2>3. /\ f \in Ops /\ f.pc = "write" /\ f.then = op.then /\ f.kind = op.kind /\ f.target = op.target
        /\ f.todo = Own[op.target] /\ f.started = op.started /\ f.ident = op.ident /\ f.pending = op.pending
        /\ f.mine = op.mine /\ f.orphan = op.orphan
    BY <2>2 DEF IInv, Ops, Pcs, Tx
  <2> HIDE DEF f
  <2>4. HostOK'
    BY <1>2, <2>1, <2>3 DEF IInv, HostOK
  <2>5. ControlOK'
    BY <1>2, <2>1, <2>3 DEF ControlOK, Tx
  <2>6. TxOK'
    BY <2>1, <2>2, <2>3 DEF TxOK, Tx, Whole, Publishing, Sealing
  <2> QED BY <2>1, <2>3, <2>4, <2>5, <2>6
<1>3. CASE ~op.fails /\ op.kind \in {"unref", "create"}
  <2> DEFINE f == [op EXCEPT !.pc = op.kind]
  <2>1. op' = f
    BY <1>3 DEF Recovered
  <2>2. /\ f \in Ops /\ f.pc = op.kind /\ f.kind = op.kind /\ f.target = op.target
        /\ f.pending = op.pending
    BY <1>3 DEF IInv, Ops, Pcs, Tx
  <2> HIDE DEF f
  <2>3. op.pending = {}
    BY DEF IInv, ControlOK
  <2>4. HostOK' /\ ControlOK' /\ TxOK'
    BY <1>3, <2>1, <2>2, <2>3 DEF IInv, HostOK, ControlOK, TxOK, Tx
  <2> QED BY <1>3, <2>1, <2>2, <2>4
<1>4. op.fails \in BOOLEAN /\ op.kind \in {"publish", "unref", "create"}
  BY DEF IInv, Ops, HostOK
<1> QED BY <1>1, <1>2, <1>3, <1>4

LEMMA RecoverWithoutJournalIInv == ASSUME IInv, RecoverWithoutJournal PROVE IInv'
<1>1. /\ op.pc = "recover" /\ ~journal.on /\ op' = Recovered
      /\ stageDir' = FALSE /\ stage' = {} /\ linked' = {}
      /\ UNCHANGED <<journal, fanout, canon, namespace, refs, held, isOpen>>
      /\ unsynced' \subseteq unsynced
  BY DEF RecoverWithoutJournal, At
<1>2. op' \in Ops /\ HostOK' /\ ControlOK' /\ TxOK'
  BY <1>1, RecoveredFacts
<1>3. DiskOK'
  BY <1>1 DEF IInv, DiskOK, VisibleIsComplete, Undoable, Durable, StagingProven
<1>4. SyncOK'
  BY <1>1 DEF IInv, SyncOK
<1> QED BY <1>2, <1>3, <1>4 DEF IInv

\* A frame of recovery: the same operation, at another of its steps.
LEMMA RecoveringFacts ==
  ASSUME IInv, NEW x \in {"recover", "clear"}, NEW ds \in SUBSET Dirs, op.pc = "recover",
         \/ op' = [op EXCEPT !.pc = x]
         \/ op' = [op EXCEPT !.made = ds] /\ x = "recover"
         \/ op' = [op EXCEPT !.pc = x, !.made = ds],
         refs' = refs, UNCHANGED <<held, isOpen>>
  PROVE  /\ op' \in Ops /\ HostOK' /\ op'.pc = x /\ TxOK'
         /\ op'.pending = {} /\ op'.mine = {} /\ ~op'.started /\ ~op'.ident
<1>1. /\ op' \in Ops /\ op'.pc = x /\ op'.kind = op.kind /\ op'.target = op.target /\ op'.orphan = op.orphan
      /\ op'.pending = op.pending /\ op'.mine = op.mine /\ op'.started = op.started /\ op'.ident = op.ident
  BY ZenonT(60) DEF IInv, Ops, Pcs, Tx
<1>2. HostOK' /\ TxOK'
  BY <1>1 DEF IInv, HostOK, TxOK, Tx
<1> QED BY <1>1, <1>2 DEF IInv, ControlOK

LEMMA RecoverKeepIInv == ASSUME IInv, RecoverKeep PROVE IInv'
<1>1. /\ op.pc = "recover" /\ journal.on /\ IntendedVisible
      /\ op' = [op EXCEPT !.pc = "clear"]
      /\ UNCHANGED <<journal, stageDir, stage, fanout, canon, linked, namespace, refs, held, isOpen>>
      /\ unsynced' = unsynced \ RefSynced(journal.ref)
  BY DEF RecoverKeep, At
<1>2. /\ op' \in Ops /\ HostOK' /\ op'.pc = "clear" /\ TxOK'
      /\ op'.pending = {} /\ op'.mine = {} /\ ~op'.started /\ ~op'.ident
  BY <1>1, RecoveringFacts
<1>3. ControlOK'
  BY <1>1, <1>2 DEF ControlOK, Tx, IntendedVisible
<1>4. DiskOK'
  BY <1>1 DEF IInv, DiskOK, VisibleIsComplete, Undoable, Durable, StagingProven, IntendedVisible
<1>5. SyncOK'
  BY <1>1, <1>2 DEF IInv, SyncOK, IntendedVisible, RefSynced
<1> QED BY <1>2, <1>3, <1>4, <1>5 DEF IInv

\* An object a rollback removes is on no path to a visible state.
LEMMA RollbackObjectIInv == ASSUME IInv, NEW o \in Objects, RollbackObject(o) PROVE IInv'
<1>1. /\ op.pc = "recover" /\ journal.on /\ ~IntendedVisible /\ o \in Owned
      /\ canon' = canon \ {o} /\ linked' = linked \ {o} /\ unsynced' = unsynced \union {Object(o)}
      /\ op' = [op EXCEPT !.made = op.made \union {Dir[o]}]
      /\ UNCHANGED <<journal, stageDir, stage, fanout, namespace, refs, held, isOpen>>
  BY DEF RollbackObject, At
<1>2. op.made \union {Dir[o]} \in SUBSET Dirs
  BY DEF IInv, Ops, Dirs
<1>3. /\ op' \in Ops /\ HostOK' /\ op'.pc = "recover" /\ TxOK'
      /\ op'.pending = {} /\ op'.mine = {} /\ ~op'.started /\ ~op'.ident
  <2> DEFINE ds == op.made \union {Dir[o]}
  <2>1. op' = [op EXCEPT !.made = ds] /\ ds \in SUBSET Dirs
    BY <1>1, <1>2
  <2> HIDE DEF ds
  <2> QED BY <1>1, <2>1, RecoveringFacts
<1>4. ControlOK'
  BY <1>1, <1>3 DEF ControlOK, Tx
<1>5. VisibleIsComplete'
  BY <1>1 DEF IInv, DiskOK, VisibleIsComplete, Undoable
<1>6. Undoable' /\ Durable' /\ ~IntendedVisible' /\ Owned' = Owned \ {o}
  BY <1>1, Entries DEF IInv, DiskOK, Undoable, Durable, IntendedVisible, Owned
<1>7. DiskOK'
  BY <1>1, <1>5, <1>6 DEF IInv, DiskOK, StagingProven
<1>8. SyncOK'
  BY <1>1, <1>3, <1>6, Entries DEF IInv, SyncOK
<1> QED BY <1>3, <1>4, <1>7, <1>8 DEF IInv

LEMMA RollbackDoneIInv == ASSUME IInv, RollbackDone PROVE IInv'
<1>1. /\ op.pc = "recover" /\ journal.on /\ ~IntendedVisible /\ Owned = {}
      /\ unsynced' \subseteq unsynced
      /\ op' = [op EXCEPT !.pc = "clear", !.made = {}]
      /\ UNCHANGED <<journal, stageDir, stage, fanout, canon, linked, namespace, refs, held, isOpen>>
  BY DEF RollbackDone, At
<1>2. /\ op' \in Ops /\ HostOK' /\ op'.pc = "clear" /\ TxOK'
      /\ op'.pending = {} /\ op'.mine = {} /\ ~op'.started /\ ~op'.ident
  <2> DEFINE ds == {}
  <2>1. op' = [op EXCEPT !.pc = "clear", !.made = ds] /\ ds \in SUBSET Dirs
    BY <1>1
  <2> HIDE DEF ds
  <2> QED BY <1>1, <2>1, RecoveringFacts
<1>3. ControlOK'
  BY <1>1, <1>2 DEF ControlOK, Tx, Owned
<1>4. DiskOK'
  BY <1>1 DEF IInv, DiskOK, VisibleIsComplete, Undoable, Durable, StagingProven, IntendedVisible, Owned
<1>5. SyncOK'
  BY <1>1, <1>2 DEF IInv, SyncOK, IntendedVisible, Owned
<1> QED BY <1>2, <1>3, <1>4, <1>5 DEF IInv

LEMMA ClearJournalIInv == ASSUME IInv, ClearJournal PROVE IInv'
<1> DEFINE f == [op EXCEPT !.pc = "clearStage", !.then = IF At("commit") THEN "ack" ELSE "go"]
<1>1. /\ op.pc \in {"clear", "commit"} /\ op.pending = {} /\ journal' = NoJournal
      /\ unsynced' \subseteq unsynced /\ op' = f
      /\ UNCHANGED <<stageDir, stage, fanout, canon, linked, namespace, refs, held, isOpen>>
  BY DEF ClearJournal, At
<1>2. /\ f \in Ops /\ f.pc = "clearStage" /\ f.then = IF op.pc = "commit" THEN "ack" ELSE "go"
      /\ f.kind = op.kind /\ f.target = op.target /\ f.started = op.started /\ f.ident = op.ident
      /\ f.pending = op.pending /\ f.mine = op.mine /\ f.orphan = op.orphan
  BY DEF IInv, Ops, Pcs, Tx, At
<1> HIDE DEF f
<1>3. journal' \in [on : BOOLEAN, ref : Targets \union {None}, ident : BOOLEAN] /\ ~journal'.on
  BY <1>1 DEF NoJournal
<1>4. HostOK' /\ TxOK'
  BY <1>1, <1>2 DEF IInv, HostOK, TxOK, Tx
<1>5. ControlOK'
  BY <1>1, <1>2, <1>3 DEF IInv, ControlOK, Tx
<1>6. DiskOK'
  BY <1>1, <1>3 DEF IInv, DiskOK, VisibleIsComplete, Undoable, Durable
<1>7. SyncOK'
  BY <1>1, <1>2 DEF IInv, SyncOK
<1> QED BY <1>1, <1>2, <1>4, <1>5, <1>6, <1>7 DEF IInv

LEMMA ClearStageIInv == ASSUME IInv, ClearStage PROVE IInv'
<1>1. /\ op.pc = "clearStage" /\ stageDir' = FALSE /\ stage' = {} /\ linked' = {}
      /\ unsynced' \subseteq unsynced
      /\ UNCHANGED <<journal, fanout, canon, namespace, refs, isOpen>> /\ ~journal.on
  BY DEF ClearStage, At, IInv, ControlOK
<1>2. DiskOK'
  BY <1>1 DEF IInv, DiskOK, VisibleIsComplete, Undoable, Durable, StagingProven
<1>3. SyncOK'
  BY <1>1 DEF IInv, SyncOK
<1>4. CASE op.then # "ack"
  <2>1. op' = Recovered /\ held' = held
    BY <1>4 DEF ClearStage
  <2> QED BY <1>1, <1>2, <1>3, <1>4, <2>1, RecoveredFacts DEF IInv
<1>5. CASE op.then = "ack"
  <2>1. op' = Idle /\ held' = IF ~op.orphan THEN held \union {op.target} ELSE held
    BY <1>5 DEF ClearStage
  <2>2. op.target \in refs /\ (~op.orphan => isOpen)
    BY <1>1, <1>5 DEF IInv, ControlOK, HostOK
  <2>3. HostOK' /\ ControlOK' /\ TxOK'
    BY <1>1, <2>1, <2>2, IdleFacts DEF IInv, HostOK, ControlOK, TxOK, Tx
  <2> QED BY <1>2, <1>3, <2>1, <2>3, IdleFacts DEF IInv
<1> QED BY <1>4, <1>5

-----------------------------------------------------------------------------
(* Steps of a transaction *)

LEMMA OpFacts ==
  ASSUME IInv
  PROVE  /\ op.pc \in Pcs /\ op.todo \subseteq Objects /\ op.pending \subseteq Objects
         /\ op.mine \subseteq Objects /\ op.made \subseteq Dirs
         /\ op.started \in BOOLEAN /\ op.ident \in BOOLEAN /\ op.grown \in BOOLEAN
BY DEF IInv, Ops

\* The target of a transaction builds on visible states.
LEMMA TargetFacts ==
  ASSUME IInv, op.pc \in Tx
  PROVE  /\ op.target \in Targets /\ op.target # None /\ op.kind = "publish"
         /\ Whole \subseteq Objects /\ op.target \in Whole /\ Own[op.target] \subseteq Whole
         /\ Whole \subseteq Closure(op.target)
         /\ Closure(op.target) \subseteq Whole \union Reachable(refs)
<1>1. op.kind = "publish" /\ op.pc # "idle"
  BY DEF IInv, ControlOK, Tx
<1>2. op.target \in Targets /\ Base[op.target] \subseteq refs
  BY <1>1 DEF IInv, HostOK
<1>3. Reachable(Base[op.target]) \subseteq Reachable(refs)
  BY <1>2, ReachableFewer
<1> QED BY <1>1, <1>2, <1>3, Shape DEF Whole

LEMMA TxControl ==
  ASSUME IInv, op.pc \in Tx, op'.pc \in Tx, op'.kind = op.kind, op'.target = op.target, op'.orphan = op.orphan,
         UNCHANGED <<held, isOpen>>, refs \subseteq refs',
         op'.pc \in {"syncRef", "commit"} => op.target \in refs'
  PROVE  HostOK' /\ ControlOK'
<1>1. op.pc # "idle" /\ op'.pc # "idle"
  BY DEF Tx
<1>2. HostOK'
  BY <1>1 DEF IInv, HostOK
<1>3. ControlOK'
  BY TargetFacts DEF ControlOK, Tx
<1> QED BY <1>2, <1>3

LEMMA SkipObjectIInv == ASSUME IInv, NEW o \in Objects, SkipObject(o) PROVE IInv'
<1> DEFINE f == [op EXCEPT !.todo = op.todo \ {o}]
<1>1. /\ op.pc \in {"write", "seal"} /\ o \in op.todo /\ o \in canon \union op.mine
      /\ op' = f /\ UNCHANGED disk /\ UNCHANGED <<held, isOpen>>
  BY DEF SkipObject, At, Exists
<1>2. /\ f \in Ops /\ f.pc = op.pc /\ f.then = op.then /\ f.kind = op.kind /\ f.target = op.target
      /\ f.todo = op.todo \ {o} /\ f.started = op.started /\ f.ident = op.ident /\ f.pending = op.pending
      /\ f.mine = op.mine /\ f.orphan = op.orphan
  BY DEF IInv, Ops
<1> HIDE DEF f
<1>3. HostOK' /\ ControlOK'
  BY <1>1, <1>2, DiskSame, TxControl DEF Tx
<1>4. TxOK'
  BY <1>1, <1>2, DiskSame DEF IInv, TxOK, Tx, Whole, Publishing, Sealing
<1>5. SyncOK'
  BY <1>1, <1>2, SyncSame
<1> QED BY <1>1, <1>2, <1>3, <1>4, <1>5, DiskSame DEF IInv

LEMMA FlushBatchIInv == ASSUME IInv, NEW o \in Objects, FlushBatch(o) PROVE IInv'
<1> DEFINE f == [op EXCEPT !.pc = "flush", !.then = op.pc]
<1>1. /\ op.pc \in {"write", "seal"} /\ op' = f /\ UNCHANGED disk /\ UNCHANGED <<held, isOpen>>
  BY DEF FlushBatch, At
<1>2. /\ f \in Ops /\ f.pc = "flush" /\ f.then = op.pc /\ f.kind = op.kind /\ f.target = op.target
      /\ f.todo = op.todo /\ f.started = op.started /\ f.ident = op.ident /\ f.pending = op.pending
      /\ f.mine = op.mine /\ f.orphan = op.orphan
  BY <1>1 DEF IInv, Ops, Pcs, Tx
<1> HIDE DEF f
<1>3. HostOK' /\ ControlOK'
  BY <1>1, <1>2, DiskSame, TxControl DEF Tx
<1>4. TxOK'
  BY <1>1, <1>2, DiskSame DEF IInv, TxOK, Tx, Whole, Publishing, Sealing
<1>5. SyncOK'
  BY <1>1, <1>2, SyncSame
<1> QED BY <1>1, <1>2, <1>3, <1>4, <1>5, DiskSame DEF IInv

LEMMA FlushNothingIInv == ASSUME IInv, FlushNothing PROVE IInv'
<1> DEFINE f == [op EXCEPT !.pc = op.then, !.then = None]
<1>1. /\ op.pc = "flush" /\ op.pending = {} /\ op' = f /\ UNCHANGED disk /\ UNCHANGED <<held, isOpen>>
      /\ op.then \in {"write", "seal", "publish"}
  BY DEF FlushNothing, At, IInv, TxOK, Tx
<1>2. /\ f \in Ops /\ f.pc = op.then /\ f.kind = op.kind /\ f.target = op.target
      /\ f.todo = op.todo /\ f.started = op.started /\ f.ident = op.ident /\ f.pending = op.pending
      /\ f.mine = op.mine /\ f.orphan = op.orphan
  BY <1>1 DEF IInv, Ops, Pcs, Tx
<1> HIDE DEF f
<1>3. HostOK' /\ ControlOK'
  BY <1>1, <1>2, DiskSame, TxControl DEF Tx
<1>4. TxOK'
  BY <1>1, <1>2, DiskSame DEF IInv, TxOK, Tx, Whole, Publishing, Sealing
<1>5. SyncOK'
  BY <1>1, <1>2, SyncSame
<1> QED BY <1>1, <1>2, <1>3, <1>4, <1>5, DiskSame DEF IInv

LEMMA SealIInv == ASSUME IInv, Seal PROVE IInv'
<1>1. op.pc = "write" /\ op.todo = {} /\ UNCHANGED disk /\ UNCHANGED <<held, isOpen>>
  BY DEF Seal, At
<1>2. CASE op.target \in Commits /\ op.pending # {}
  <2> DEFINE f == [op EXCEPT !.pc = "flush", !.then = "write"]
  <2>1. op' = f
    BY <1>2 DEF Seal
  <2>2. /\ f \in Ops /\ f.pc = "flush" /\ f.then = "write" /\ f.kind = op.kind /\ f.target = op.target
        /\ f.todo = op.todo /\ f.started = op.started /\ f.ident = op.ident /\ f.pending = op.pending
        /\ f.mine = op.mine /\ f.orphan = op.orphan
    BY DEF IInv, Ops, Pcs, Tx
  <2> HIDE DEF f
  <2>3. HostOK' /\ ControlOK'
    BY <1>1, <2>1, <2>2, DiskSame, TxControl DEF Tx
  <2>4. TxOK'
    BY <1>1, <2>1, <2>2, DiskSame DEF IInv, TxOK, Tx, Whole, Publishing, Sealing
  <2>5. SyncOK'
    BY <1>1, <2>1, <2>2, SyncSame
  <2> QED BY <1>1, <2>1, <2>2, <2>3, <2>4, <2>5, DiskSame DEF IInv
<1>3. CASE ~(op.target \in Commits /\ op.pending # {})
  <2> DEFINE f == [op EXCEPT !.pc = "seal", !.todo = {op.target}]
  <2>1. op' = f
    BY <1>3 DEF Seal
  <2>2. op.target \in Objects /\ op.pc \in Tx
    BY <1>1, TargetFacts DEF Tx
  <2>3. /\ f \in Ops /\ f.pc = "seal" /\ f.kind = op.kind /\ f.target = op.target
        /\ f.todo = {op.target} /\ f.started = op.started /\ f.ident = op.ident /\ f.pending = op.pending
        /\ f.mine = op.mine /\ f.orphan = op.orphan
    BY <2>2 DEF IInv, Ops, Pcs, Tx
  <2> HIDE DEF f
  <2>4. HostOK' /\ ControlOK'
    BY <1>1, <2>1, <2>3, DiskSame, TxControl DEF Tx
  <2>5. TxOK'
    BY <1>1, <2>1, <2>3, DiskSame DEF IInv, TxOK, Tx, Whole, Publishing, Sealing
  <2>6. SyncOK'
    BY <1>1, <2>1, <2>3, SyncSame
  <2> QED BY <1>1, <2>1, <2>3, <2>4, <2>5, <2>6, DiskSame DEF IInv
<1> QED BY <1>2, <1>3

LEMMA StageObjectIInv == ASSUME IInv, NEW o \in Objects, StageObject(o) PROVE IInv'
<1> DEFINE f == [op EXCEPT !.todo = op.todo \ {o}, !.mine = op.mine \union {o},
                           !.pending = op.pending \union {o}, !.ident = TRUE]
<1>1. /\ op.pc \in {"write", "seal"} /\ o \in op.todo /\ o \notin canon /\ o \notin op.mine
      /\ stageDir' = TRUE /\ stage' = stage \union {o} /\ op' = f
      /\ UNCHANGED <<fanout, canon, linked, namespace, refs, held, isOpen>>
  BY DEF StageObject, At, Exists
<1>2. /\ f \in Ops /\ f.pc = op.pc /\ f.then = op.then /\ f.kind = op.kind /\ f.target = op.target
      /\ f.todo = op.todo \ {o} /\ f.started = op.started /\ f.ident = TRUE /\ f.pending = op.pending \union {o}
      /\ f.mine = op.mine \union {o} /\ f.orphan = op.orphan
  BY DEF IInv, Ops
<1> HIDE DEF f
<1>3. HostOK' /\ ControlOK'
  BY <1>1, <1>2, TxControl DEF Tx
<1>4. /\ op.started <=> journal.on
      /\ op.started => StageDir \notin unsynced
      /\ op.ident => stageDir
      /\ o \in Whole
  BY <1>1 DEF IInv, TxOK, Tx
<1>5. /\ (journal'.on <=> journal.on) /\ journal'.ref = journal.ref
      /\ journal' \in [on : BOOLEAN, ref : Targets \union {None}, ident : BOOLEAN]
      /\ unsynced' \subseteq unsynced \union {StageDir, Staged(o)}
      /\ op.started => StageDir \notin unsynced'
  <2>1. CASE op.started /\ ~op.ident
    <3>1. /\ journal' = [on |-> TRUE, ref |-> journal.ref, ident |-> TRUE]
          /\ unsynced' = (unsynced \ SyncOf("store")) \union {Staged(o)}
      BY <2>1 DEF StageObject, Persist
    <3>2. journal.on /\ journal.ref \in Targets \union {None}
      BY <1>4, <2>1 DEF IInv, DiskOK
    <3>3. StageDir \notin unsynced'
      BY <3>1, Syncs, Entries
    <3> QED BY <3>1, <3>2, <3>3
  <2>2. CASE ~(op.started /\ ~op.ident)
    <3>1. /\ journal' = journal
          /\ unsynced' = unsynced \union (IF stageDir THEN {Staged(o)} ELSE {StageDir, Staged(o)})
      BY <2>2 DEF StageObject
    <3>2. op.started => StageDir \notin unsynced'
      BY <1>4, <2>2, <3>1, Entries
    <3> QED BY <3>1, <3>2 DEF IInv, DiskOK
  <2> QED BY <2>1, <2>2
<1>6. Staged(o) # StageDir /\ Object(o) # Staged(o) /\ \A x : Object(x) # Staged(o) /\ Ref(x) # Staged(o)
      /\ Object(x) # StageDir /\ Ref(x) # StageDir
  BY Entries
<1>7. Owned' = Owned /\ (IntendedVisible' <=> IntendedVisible) /\ o \notin Owned
  BY <1>1, <1>5 DEF Owned, IntendedVisible, IInv, DiskOK
<1>8. Durable'
  <2>1. Journal \notin unsynced'
    BY <1>5, Entries DEF IInv, DiskOK, Durable
  <2>2. ASSUME NEW x \in Owned, journal.on, ~IntendedVisible
        PROVE  StageDir \notin unsynced' /\ Staged(x) \notin unsynced'
    BY <1>4, <1>5, <1>7, <2>2, Entries DEF IInv, DiskOK, Durable
  <2> QED BY <1>5, <1>7, <2>1, <2>2 DEF Durable
<1>9. DiskOK'
  BY <1>1, <1>5, <1>7, <1>8 DEF IInv, DiskOK, StagingProven, VisibleIsComplete, Undoable
<1>10. TxOK'
  BY <1>1, <1>2, <1>4, <1>5 DEF IInv, TxOK, Tx, Whole, Publishing, Sealing
<1>11. SyncOK'
  <2>1. \A x : (Object(x) \in unsynced' => Object(x) \in unsynced) /\ (Ref(x) \in unsynced' => Ref(x) \in unsynced)
    BY <1>5, <1>6
  <2> QED BY <1>1, <1>2, <1>5, <1>7, <2>1 DEF IInv, SyncOK
<1> QED BY <1>1, <1>2, <1>3, <1>9, <1>10, <1>11 DEF IInv

\* The first flush of a transaction persists the journal, before any link.
LEMMA FlushStartIInv == ASSUME IInv, FlushStart PROVE IInv'
<1> DEFINE f == [op EXCEPT !.pc = "link", !.started = TRUE]
<1>1. /\ op.pc = "flush" /\ op.pending # {} /\ op' = f
      /\ UNCHANGED <<stageDir, stage, fanout, canon, linked, namespace, refs, held, isOpen>>
  BY DEF FlushStart, At
<1>2. /\ f \in Ops /\ f.pc = "link" /\ f.then = op.then /\ f.kind = op.kind /\ f.target = op.target
      /\ f.todo = op.todo /\ f.started = TRUE /\ f.ident = op.ident /\ f.pending = op.pending
      /\ f.mine = op.mine /\ f.orphan = op.orphan
  BY DEF IInv, Ops, Pcs, Tx
<1> HIDE DEF f
<1>3. HostOK' /\ ControlOK'
  BY <1>1, <1>2, TxControl DEF Tx
<1>4. /\ op.started <=> journal.on
      /\ ~op.started => linked = {}
      /\ op.started => StageDir \notin unsynced
      /\ op.ident => stageDir
  BY <1>1 DEF IInv, TxOK, Tx
<1>5. /\ journal'.on /\ journal' \in [on : BOOLEAN, ref : Targets \union {None}, ident : BOOLEAN]
      /\ IF op.started THEN journal' = journal ELSE journal'.ref = None /\ journal'.ident = op.ident
  <2>1. CASE op.started
    BY <1>4, <2>1 DEF FlushStart, IInv, DiskOK
  <2>2. CASE ~op.started
    <3>1. journal' = [on |-> TRUE, ref |-> None, ident |-> op.ident]
      BY <2>2 DEF FlushStart, Persist
    <3>2. op.ident \in BOOLEAN
      BY OpFacts
    <3> QED BY <2>2, <3>1, <3>2
  <2> QED BY <2>1, <2>2
<1>6. /\ unsynced' \subseteq unsynced /\ StageDir \notin unsynced'
      /\ \A o \in Objects : Staged(o) \notin unsynced'
  BY <1>4, Syncs DEF FlushStart
<1>7. Owned' = Owned /\ (~op.started => Owned = {})
      /\ (journal.on => (IntendedVisible' <=> IntendedVisible))
  BY <1>1, <1>4, <1>5 DEF Owned, IntendedVisible
<1>8. Durable'
  BY <1>6, <1>7 DEF IInv, DiskOK, Durable, Owned
<1>9. Undoable'
  BY <1>1, <1>4, <1>7 DEF IInv, DiskOK, Undoable
<1>10. StagingProven'
  BY <1>1, <1>4, <1>5 DEF IInv, DiskOK, StagingProven
<1>11. DiskOK'
  BY <1>1, <1>5, <1>8, <1>9, <1>10 DEF IInv, DiskOK, VisibleIsComplete
<1>12. TxOK'
  BY <1>1, <1>2, <1>4, <1>5, <1>6 DEF IInv, TxOK, Tx, Whole, Publishing, Sealing
<1>13. SyncOK'
  BY <1>1, <1>6 DEF IInv, SyncOK
<1> QED BY <1>1, <1>2, <1>3, <1>11, <1>12, <1>13 DEF IInv

\* What is linked was missing: no visible state reaches it, and a rollback
\* would take it.
LEMMA LinkFacts ==
  ASSUME IInv, NEW o \in Objects, LinkObject(o)
  PROVE  /\ journal.on /\ o \in op.mine /\ o \in stage /\ o \in Whole
         /\ StageDir \notin unsynced /\ \A x \in Objects : Staged(x) \notin unsynced
         /\ o \notin Reachable(refs)
         /\ ~IntendedVisible /\ ~IntendedVisible' /\ Owned' = Owned \union {o}
<1>1. /\ op.pc = "link" /\ o \in op.pending /\ o \notin canon
      /\ canon' = canon \union {o} /\ linked' = linked \union {o}
      /\ UNCHANGED <<journal, stage, refs>>
  BY DEF LinkObject, At
<1>2. /\ journal.on /\ o \in op.mine /\ o \in stage /\ o \in Whole
      /\ StageDir \notin unsynced /\ \A x \in Objects : Staged(x) \notin unsynced
      /\ Publishing => journal.ref = op.target
      /\ ~Publishing => journal.ref = None
  BY <1>1 DEF IInv, TxOK, Tx
<1>3. o \notin Reachable(refs)
  BY <1>1 DEF IInv, DiskOK, VisibleIsComplete
<1>4. ~IntendedVisible
  <2> SUFFICES ASSUME IntendedVisible PROVE FALSE
    OBVIOUS
  <2>1. op.target \in refs
    BY <1>2, KindsAssumption DEF IntendedVisible, IInv, DiskOK
  <2>2. o \in Reachable(refs)
    BY <1>1, <1>2, <2>1, TargetFacts, ReachableMember DEF Tx
  <2> QED BY <1>3, <2>2
<1>5. ~IntendedVisible' /\ Owned' = Owned \union {o}
  BY <1>1, <1>2, <1>4 DEF IntendedVisible, Owned
<1> QED BY <1>2, <1>3, <1>4, <1>5

\* Its staged file is durable.
LEMMA LinkObjectIInv == ASSUME IInv, NEW o \in Objects, LinkObject(o) PROVE IInv'
<1> DEFINE g == op.grown \/ Dir[o] \notin fanout
           f == [op EXCEPT !.made = op.made \union {Dir[o]}, !.grown = g]
<1>1. /\ op.pc = "link" /\ o \in op.pending /\ o \notin canon
      /\ canon' = canon \union {o} /\ linked' = linked \union {o} /\ fanout' = fanout \union {Dir[o]}
      /\ UNCHANGED <<journal, stageDir, stage, namespace, refs, held, isOpen>>
  BY DEF LinkObject, At
<1>2. g \in BOOLEAN /\ Dir[o] \in Dirs /\ op' = f
  BY DEF LinkObject, Dirs
<1> HIDE DEF g
<1>3. /\ f \in Ops /\ f.pc = op.pc /\ f.then = op.then /\ f.kind = op.kind /\ f.target = op.target
      /\ f.todo = op.todo /\ f.started = op.started /\ f.ident = op.ident /\ f.pending = op.pending
      /\ f.mine = op.mine /\ f.orphan = op.orphan /\ f.made = op.made \union {Dir[o]}
  BY <1>2 DEF IInv, Ops
<1> HIDE DEF f
<1>4. HostOK' /\ ControlOK'
  BY <1>1, <1>2, <1>3, TxControl DEF Tx
<1>5. /\ journal.on /\ o \in op.mine /\ o \in stage /\ o \in Whole
      /\ StageDir \notin unsynced /\ \A x \in Objects : Staged(x) \notin unsynced
      /\ o \notin Reachable(refs)
      /\ ~IntendedVisible /\ ~IntendedVisible' /\ Owned' = Owned \union {o}
  BY LinkFacts
<1>6. /\ unsynced' \subseteq unsynced \union {Object(o), Fanout(Dir[o])}
  BY DEF LinkObject
<1>7. /\ StageDir \notin unsynced' /\ (Journal \notin unsynced => Journal \notin unsynced')
      /\ \A x \in Objects : Staged(x) \notin unsynced'
      /\ \A x : Ref(x) \in unsynced' => Ref(x) \in unsynced
      /\ \A x : Object(x) \in unsynced' => Object(x) \in unsynced \/ x = o
  BY <1>5, <1>6, Entries
<1>8. Durable'
  BY <1>1, <1>5, <1>7 DEF IInv, DiskOK, Durable, Owned
<1>9. Undoable' /\ VisibleIsComplete'
  BY <1>1, <1>5 DEF IInv, DiskOK, Undoable, VisibleIsComplete
<1>10. DiskOK'
  BY <1>1, <1>2, <1>8, <1>9 DEF IInv, DiskOK, StagingProven
<1>11. TxOK'
  BY <1>1, <1>2, <1>3, <1>5, <1>7 DEF IInv, TxOK, Tx, Whole, Publishing, Sealing
<1>12. SyncOK'
  <2>1. ASSUME NEW x \in canon', Object(x) \in unsynced'
        PROVE  /\ journal'.on /\ ~IntendedVisible' /\ x \in Owned'
               /\ op'.pc = "link" /\ Dir[x] \in op'.made
    <3>1. CASE x = o
      BY <1>1, <1>2, <1>3, <1>5, <3>1
    <3>2. CASE x # o
      <4>1. x \in canon /\ Object(x) \in unsynced
        BY <1>1, <1>7, <2>1, <3>2
      <4>2. x \in Owned /\ Dir[x] \in op.made
        BY <1>1, <4>1 DEF IInv, SyncOK
      <4> QED BY <1>1, <1>2, <1>3, <1>5, <4>2
    <3> QED BY <3>1, <3>2
  <2>2. \A t \in refs' : Ref(t) \notin unsynced'
    BY <1>1, <1>7 DEF IInv, SyncOK
  <2> QED BY <2>1, <2>2 DEF SyncOK
<1> QED BY <1>2, <1>3, <1>4, <1>10, <1>11, <1>12 DEF IInv

LEMMA FlushDoneIInv == ASSUME IInv, FlushDone PROVE IInv'
<1> DEFINE f == [op EXCEPT !.pc = op.then, !.then = None, !.pending = {}, !.made = {}, !.grown = FALSE]
<1>1. /\ op.pc = "link" /\ op.pending \subseteq canon /\ op' = f
      /\ UNCHANGED <<journal, stageDir, stage, fanout, canon, linked, namespace, refs, held, isOpen>>
      /\ unsynced' \subseteq unsynced \ SyncFanouts(op.made)
      /\ op.then \in {"write", "seal", "publish"}
  BY DEF FlushDone, At, IInv, TxOK, Tx
<1>2. /\ f \in Ops /\ f.pc = op.then /\ f.kind = op.kind /\ f.target = op.target
      /\ f.todo = op.todo /\ f.started = op.started /\ f.ident = op.ident /\ f.pending = {}
      /\ f.mine = op.mine /\ f.orphan = op.orphan
  BY <1>1 DEF IInv, Ops, Pcs, Tx
<1> HIDE DEF f
<1>3. HostOK' /\ ControlOK'
  BY <1>1, <1>2, TxControl DEF Tx
<1>4. DiskOK'
  BY <1>1 DEF IInv, DiskOK, VisibleIsComplete, Undoable, Durable, StagingProven, IntendedVisible, Owned
<1>5. TxOK'
  BY <1>1, <1>2 DEF IInv, TxOK, Tx, Whole, Publishing, Sealing
<1>6. \A o \in canon : Object(o) \notin unsynced'
  <2> SUFFICES ASSUME NEW o \in canon, Object(o) \in unsynced' PROVE FALSE
    OBVIOUS
  <2>1. o \in Objects /\ Dir[o] \in op.made
    BY <1>1 DEF IInv, SyncOK, DiskOK
  <2> QED BY <1>1, <2>1 DEF SyncFanouts
<1>7. SyncOK'
  BY <1>1, <1>6 DEF IInv, SyncOK
<1> QED BY <1>1, <1>2, <1>3, <1>4, <1>5, <1>7 DEF IInv

-----------------------------------------------------------------------------
(* Publishing the ref *)

\* Nothing is linked that the target does not own: naming a ref that is
\* visible already changes nothing of what a rollback may take.
LEMMA IntendFacts ==
  ASSUME IInv, Intend
  PROVE  /\ op.pc = "seal" /\ op.todo = {} /\ op.target \in Targets
         /\ journal' = [on |-> TRUE, ref |-> op.target, ident |-> op.ident]
         /\ UNCHANGED <<stageDir, stage, fanout, canon, linked, namespace, refs, held, isOpen>>
         /\ Owned' = Owned /\ (IntendedVisible' <=> op.target \in refs)
         /\ Owned \subseteq Closure(op.target)
         /\ Owned # {} => journal.on /\ ~IntendedVisible
         /\ Owned \intersect Reachable(refs) = {}
         /\ IntendedVisible' => Owned = {}
<1>1. /\ op.pc = "seal" /\ op.todo = {}
      /\ journal' = [on |-> TRUE, ref |-> op.target, ident |-> op.ident]
      /\ UNCHANGED <<stageDir, stage, fanout, canon, linked, namespace, refs, held, isOpen>>
  BY DEF Intend, At, Persist
<1>2. op.target \in Targets /\ Whole \subseteq Closure(op.target)
  BY <1>1, TargetFacts DEF Tx
<1>3. /\ linked \subseteq Whole
      /\ linked # {} => journal.on
      /\ journal.on => journal.ref = None
  BY <1>1 DEF IInv, TxOK, Tx, Publishing
<1>4. /\ Owned' = Owned /\ (IntendedVisible' <=> op.target \in refs)
      /\ Owned \subseteq Closure(op.target)
  BY <1>1, <1>2, <1>3 DEF Owned, IntendedVisible
<1>5. ~IntendedVisible
  BY <1>3, KindsAssumption DEF IntendedVisible, IInv, DiskOK
<1>6. Owned \intersect Reachable(refs) = {}
  BY <1>3, <1>5 DEF IInv, DiskOK, Undoable, Owned
<1>7. op.target \in refs => Closure(op.target) \subseteq Reachable(refs)
  BY ReachableMember
<1>8. IntendedVisible' => Owned = {}
  BY <1>4, <1>6, <1>7
<1>9. Owned # {} => journal.on
  BY <1>3 DEF Owned
<1> QED BY <1>1, <1>2, <1>4, <1>5, <1>6, <1>8, <1>9

LEMMA IntendIInv == ASSUME IInv, Intend PROVE IInv'
<1> DEFINE f == [op EXCEPT !.pc = "flush", !.then = "publish", !.started = TRUE]
<1>1. op' = f /\ unsynced' = unsynced \ SyncOf("store")
  BY DEF Intend
<1>2. /\ f \in Ops /\ f.pc = "flush" /\ f.then = "publish" /\ f.kind = op.kind /\ f.target = op.target
      /\ f.todo = op.todo /\ f.started = TRUE /\ f.ident = op.ident /\ f.pending = op.pending
      /\ f.mine = op.mine /\ f.orphan = op.orphan
  BY DEF IInv, Ops, Pcs, Tx
<1> HIDE DEF f
<1>3. HostOK' /\ ControlOK'
  BY <1>1, <1>2, IntendFacts, TxControl DEF Tx
<1>4. /\ journal' \in [on : BOOLEAN, ref : Targets \union {None}, ident : BOOLEAN] /\ journal'.on
      /\ journal'.ref = op.target /\ journal'.ident = op.ident
  <2>1. op.ident \in BOOLEAN
    BY DEF IInv, Ops
  <2>2. journal' = [on |-> TRUE, ref |-> op.target, ident |-> op.ident] /\ op.target \in Targets
    BY IntendFacts
  <2> QED BY <2>1, <2>2
<1>5. StageDir \notin unsynced' /\ Journal \notin unsynced' /\ unsynced' \subseteq unsynced
  BY <1>1, Syncs
<1>6. op.ident => stageDir
  BY IntendFacts DEF IInv, TxOK, Tx
<1>7. Durable' /\ Undoable' /\ StagingProven'
  BY <1>4, <1>5, <1>6, IntendFacts DEF IInv, DiskOK, Durable, Undoable, StagingProven
<1>8. DiskOK'
  BY <1>4, <1>7, IntendFacts DEF IInv, DiskOK, VisibleIsComplete
<1>9. TxOK'
  BY <1>1, <1>2, <1>4, <1>5, <1>6, IntendFacts DEF IInv, TxOK, Tx, Whole, Publishing, Sealing
<1>10. SyncOK'
  BY <1>5, IntendFacts DEF IInv, SyncOK
<1> QED BY <1>1, <1>2, <1>3, <1>8, <1>9, <1>10 DEF IInv

\* The steps that write the ref: the journal names it.
LEMMA PublishFacts ==
  ASSUME IInv, op.pc \in {"publish", "ref", "syncRef", "commit"}
  PROVE  /\ journal.on /\ journal.ref = op.target /\ op.pending = {} /\ op.todo = {}
         /\ Owned \subseteq Closure(op.target) /\ Closure(op.target) \subseteq canon
<1>1. op.pc \in Tx /\ Publishing
  BY DEF Tx, Publishing
<1>2. /\ journal.on /\ journal.ref = op.target /\ op.pending = {} /\ op.todo = {}
      /\ linked \subseteq Whole /\ Whole \subseteq canon
  BY <1>1 DEF IInv, TxOK, Whole
<1>3. Owned \subseteq Closure(op.target) /\ Closure(op.target) \subseteq canon
  BY <1>1, <1>2, TargetFacts DEF Owned, IInv, DiskOK, VisibleIsComplete
<1> QED BY <1>2, <1>3

\* The frame of such a step.
LEMMA PublishStep ==
  ASSUME IInv, NEW x \in {"ref", "syncRef", "commit"}, op.pc \in {"publish", "ref", "syncRef"},
         op' = [op EXCEPT !.pc = x], UNCHANGED <<journal, stageDir, stage, canon, linked, held, isOpen>>,
         refs \subseteq refs', x # "ref" => op.target \in refs',
         StageDir \notin unsynced => StageDir \notin unsynced'
  PROVE  op' \in Ops /\ op'.pc = x /\ HostOK' /\ ControlOK' /\ TxOK'
<1>1. /\ op' \in Ops /\ op'.pc = x /\ op'.kind = op.kind /\ op'.target = op.target
      /\ op'.todo = op.todo /\ op'.started = op.started /\ op'.ident = op.ident /\ op'.pending = op.pending
      /\ op'.mine = op.mine /\ op'.orphan = op.orphan
  BY DEF IInv, Ops, Pcs, Tx
<1>2. HostOK' /\ ControlOK'
  BY <1>1, TxControl DEF Tx
<1>3. TxOK'
  BY <1>1 DEF IInv, TxOK, Tx, Whole, Publishing, Sealing
<1> QED BY <1>1, <1>2, <1>3

LEMMA PrepareNamespaceIInv == ASSUME IInv, PrepareNamespace PROVE IInv'
<1>1. /\ op.pc = "publish" /\ op' = [op EXCEPT !.pc = "ref"] /\ namespace' = TRUE
      /\ UNCHANGED <<journal, stageDir, stage, fanout, canon, linked, refs, held, isOpen>>
      /\ unsynced' \subseteq unsynced \union {Namespace}
  BY DEF PrepareNamespace, At
<1>2. \A x : /\ Object(x) \in unsynced' => Object(x) \in unsynced
             /\ Ref(x) \in unsynced' => Ref(x) \in unsynced
             /\ Staged(x) \in unsynced' => Staged(x) \in unsynced
             /\ StageDir \in unsynced' => StageDir \in unsynced
             /\ Journal \in unsynced' => Journal \in unsynced
  BY <1>1, Entries
<1>3. op' \in Ops /\ op'.pc = "ref" /\ HostOK' /\ ControlOK' /\ TxOK'
  BY <1>1, <1>2, PublishStep
<1>4. DiskOK'
  BY <1>1, <1>2 DEF IInv, DiskOK, VisibleIsComplete, Undoable, Durable, StagingProven, IntendedVisible, Owned
<1>5. SyncOK'
  BY <1>1, <1>2, <1>3 DEF IInv, SyncOK, IntendedVisible, Owned
<1> QED BY <1>3, <1>4, <1>5 DEF IInv

\* The commit point: with the ref, everything the state reaches is there.
LEMMA WriteRefIInv == ASSUME IInv, WriteRef PROVE IInv'
<1>1. /\ op.pc = "ref" /\ op' = [op EXCEPT !.pc = "syncRef"] /\ refs' = refs \union {op.target}
      /\ UNCHANGED <<journal, stageDir, stage, fanout, canon, linked, namespace, held, isOpen>>
      /\ unsynced' = unsynced \union {Ref(op.target)}
  BY DEF WriteRef, At
<1>2. \A x : /\ Object(x) \in unsynced' => Object(x) \in unsynced
             /\ Ref(x) \in unsynced' => Ref(x) \in unsynced \/ x = op.target
             /\ Staged(x) \in unsynced' => Staged(x) \in unsynced
             /\ StageDir \in unsynced' => StageDir \in unsynced
             /\ Journal \in unsynced' => Journal \in unsynced
  BY <1>1, Entries
<1>3. op' \in Ops /\ op'.pc = "syncRef" /\ HostOK' /\ ControlOK' /\ TxOK'
  BY <1>1, <1>2, PublishStep
<1>4. journal.on /\ journal.ref = op.target /\ Closure(op.target) \subseteq canon /\ op.target \in Targets
  BY <1>1, PublishFacts, TargetFacts DEF Tx
<1>5. IntendedVisible'
  BY <1>1, <1>4 DEF IntendedVisible
<1>6. VisibleIsComplete'
  BY <1>1, <1>4, ReachableMore DEF IInv, DiskOK, VisibleIsComplete
<1>7. DiskOK'
  BY <1>1, <1>2, <1>4, <1>5, <1>6 DEF IInv, DiskOK, Undoable, Durable, StagingProven
<1>8. SyncOK'
  BY <1>1, <1>2, <1>3, <1>4 DEF IInv, SyncOK
<1> QED BY <1>3, <1>7, <1>8 DEF IInv

LEMMA SyncRefIInv == ASSUME IInv, SyncRef PROVE IInv'
<1>1. /\ op.pc = "syncRef" /\ op' = [op EXCEPT !.pc = "commit"]
      /\ UNCHANGED <<journal, stageDir, stage, fanout, canon, linked, namespace, refs, held, isOpen>>
      /\ unsynced' = unsynced \ RefSynced(op.target)
  BY DEF SyncRef, At
<1>2. op.target \in refs
  BY <1>1 DEF IInv, ControlOK
<1>3. op' \in Ops /\ op'.pc = "commit" /\ HostOK' /\ ControlOK' /\ TxOK'
  BY <1>1, <1>2, PublishStep
<1>4. journal.on /\ journal.ref = op.target /\ IntendedVisible
  BY <1>1, <1>2, PublishFacts DEF IntendedVisible
<1>5. DiskOK'
  BY <1>1 DEF IInv, DiskOK, VisibleIsComplete, Undoable, Durable, StagingProven, IntendedVisible, Owned
<1>6. SyncOK'
  BY <1>1, <1>3, <1>4 DEF IInv, SyncOK, RefSynced
<1> QED BY <1>3, <1>5, <1>6 DEF IInv

-----------------------------------------------------------------------------
(* op_unref and op_store_create *)

\* Without a journal, a state and objects that no other state reaches may go.
LEMMA FewerIInv ==
  ASSUME IInv, op.pc \in {"unref", "prune", "create"}, ~journal.on, linked = {},
         op' \in Ops, HostOK', ControlOK', TxOK',
         UNCHANGED <<journal, stageDir, stage, fanout, linked, namespace>>,
         refs' \subseteq refs, canon' \subseteq canon, Reachable(refs') \subseteq canon',
         \A o \in canon' : Object(o) \in unsynced' => Object(o) \in unsynced,
         \A t \in refs' : Ref(t) \in unsynced' => Ref(t) \in unsynced,
         Journal \in unsynced' => Journal \in unsynced
  PROVE  IInv'
<1>1. DiskOK'
  BY DEF IInv, DiskOK, VisibleIsComplete, Undoable, Durable, StagingProven
<1>2. SyncOK'
  BY DEF IInv, SyncOK
<1> QED BY <1>1, <1>2 DEF IInv

LEMMA OutsideFacts ==
  ASSUME IInv, op.pc \in {"unref", "prune", "create"}
  PROVE  ~journal.on /\ linked = {} /\ op.pc \notin Tx /\ op.pc # "idle"
BY DEF IInv, ControlOK, Tx

LEMMA DeleteRefIInv == ASSUME IInv, DeleteRef PROVE IInv'
<1>1. /\ op.pc = "unref" /\ refs' = refs \ {op.target}
      /\ unsynced' \subseteq unsynced \union {Ref(op.target)}
      /\ UNCHANGED <<journal, stageDir, stage, fanout, canon, linked, namespace, held, isOpen>>
      /\ op' = Idle \/ op' = [op EXCEPT !.pc = "prune"]
  BY DEF DeleteRef, At
<1>2. /\ ~journal.on /\ linked = {} /\ op.kind = "unref" /\ op.target \notin held
      /\ held \subseteq refs'
  BY <1>1, OutsideFacts DEF IInv, ControlOK, HostOK
<1>3. Reachable(refs') \subseteq canon'
  BY <1>1, ReachableFewer DEF IInv, DiskOK, VisibleIsComplete
<1>4. /\ \A o : Object(o) \in unsynced' => Object(o) \in unsynced
      /\ \A t \in refs' : Ref(t) \in unsynced' => Ref(t) \in unsynced
      /\ Journal \in unsynced' => Journal \in unsynced
  BY <1>1, Entries
<1>5. op' \in Ops /\ HostOK' /\ ControlOK' /\ TxOK'
  <2>1. CASE op' = Idle
    BY <1>1, <1>2, <2>1, IdleFacts DEF IInv, HostOK, ControlOK, TxOK, Tx
  <2>2. CASE op' = [op EXCEPT !.pc = "prune"]
    <3>1. /\ op' \in Ops /\ op'.pc = "prune" /\ op'.kind = op.kind /\ op'.target = op.target
          /\ op'.pending = op.pending /\ op'.mine = op.mine /\ op'.started = op.started /\ op'.ident = op.ident
      BY <2>2 DEF IInv, Ops, Pcs, Tx
    <3>2. HostOK'
      BY <1>1, <1>2, <3>1 DEF IInv, HostOK
    <3>3. op.pending = {}
      BY <1>1 DEF IInv, ControlOK, Tx
    <3>4. ControlOK' /\ TxOK'
      BY <1>1, <1>2, <3>1, <3>3 DEF ControlOK, TxOK, Tx
    <3> QED BY <3>1, <3>2, <3>4
  <2> QED BY <1>1, <2>1, <2>2
<1> QED BY <1>1, <1>2, <1>3, <1>4, <1>5, FewerIInv

LEMMA PruneObjectIInv == ASSUME IInv, NEW o \in Objects, PruneObject(o) PROVE IInv'
<1>1. /\ op.pc = "prune" /\ o \notin Reachable(refs) /\ canon' = canon \ {o}
      /\ unsynced' = unsynced \union {Object(o)}
      /\ UNCHANGED <<journal, stageDir, stage, fanout, linked, namespace, refs, op, held, isOpen>>
  BY DEF PruneObject, At
<1>2. ~journal.on /\ linked = {} /\ op.pc \notin Tx
  BY <1>1, OutsideFacts
<1>3. Reachable(refs') \subseteq canon'
  BY <1>1 DEF IInv, DiskOK, VisibleIsComplete
<1>4. /\ \A x \in canon' : Object(x) \in unsynced' => Object(x) \in unsynced
      /\ \A t \in refs' : Ref(t) \in unsynced' => Ref(t) \in unsynced
      /\ Journal \in unsynced' => Journal \in unsynced
  BY <1>1, Entries
<1>5. op' \in Ops /\ HostOK' /\ ControlOK' /\ TxOK'
  BY <1>1, <1>2 DEF IInv, HostOK, ControlOK, TxOK, IntendedVisible, Owned
<1> QED BY <1>1, <1>2, <1>3, <1>4, <1>5, FewerIInv

LEMMA DropStaleRefIInv == ASSUME IInv, NEW t \in Targets, DropStaleRef(t) PROVE IInv'
<1>1. /\ op.pc = "create" /\ refs' = refs \ {t} /\ unsynced' = unsynced \union {Ref(t)}
      /\ UNCHANGED <<journal, stageDir, stage, fanout, canon, linked, namespace, op, held, isOpen>>
  BY DEF DropStaleRef, At
<1>2. ~journal.on /\ linked = {} /\ op.pc \notin Tx /\ op.kind = "create" /\ held = {}
  BY <1>1, OutsideFacts DEF IInv, ControlOK, HostOK
<1>3. Reachable(refs') \subseteq canon'
  BY <1>1, ReachableFewer DEF IInv, DiskOK, VisibleIsComplete
<1>4. /\ \A o : Object(o) \in unsynced' => Object(o) \in unsynced
      /\ \A x \in refs' : Ref(x) \in unsynced' => Ref(x) \in unsynced
      /\ Journal \in unsynced' => Journal \in unsynced
  BY <1>1, Entries
<1>5. op' \in Ops /\ HostOK' /\ ControlOK' /\ TxOK'
  BY <1>1, <1>2 DEF IInv, HostOK, ControlOK, TxOK
<1> QED BY <1>1, <1>2, <1>3, <1>4, <1>5, FewerIInv

-----------------------------------------------------------------------------
(* The invariant *)

LEMMA InitIInv == Init => IInv
<1> SUFFICES ASSUME Init PROVE IInv
  OBVIOUS
<1>1. Reachable(refs) = {}
  BY ReachableOf DEF Init
<1>2. DiskOK
  BY <1>1 DEF Init, DiskOK, NoJournal, VisibleIsComplete, Undoable, Durable, StagingProven
<1>3. HostOK /\ ControlOK /\ TxOK /\ SyncOK
  BY IdleFacts DEF Init, HostOK, ControlOK, TxOK, SyncOK, Tx
<1> QED BY <1>2, <1>3, IdleFacts DEF Init, IInv

LEMMA NextIInv == IInv /\ [Next]_vars => IInv'
<1> SUFFICES ASSUME IInv, [Next]_vars PROVE IInv'
  OBVIOUS
<1>1. CASE UNCHANGED vars
  <2>1. UNCHANGED <<disk, op, held, isOpen>>
    BY <1>1 DEF vars
  <2>2. HostOK' /\ ControlOK' /\ TxOK' /\ SyncOK'
    BY <2>1, DiskSame DEF IInv, HostOK, ControlOK, TxOK, SyncOK, Whole, Publishing, Sealing
  <2> QED BY <2>1, <2>2, DiskSame DEF IInv
<1>2. CASE \E t \in Targets : RequestPublish(t) \/ RequestUnref(t) \/ DropStaleRef(t)
  BY <1>2, RequestPublishIInv, RequestUnrefIInv, DropStaleRefIInv
<1>3. CASE RequestCreate \/ RecoverWithoutJournal \/ RecoverKeep \/ RollbackDone \/ ClearJournal \/ ClearStage
  BY <1>3, RequestCreateIInv, RecoverWithoutJournalIInv, RecoverKeepIInv, RollbackDoneIInv, ClearJournalIInv, ClearStageIInv
<1>4. CASE \E o \in Objects : RollbackObject(o) \/ SkipObject(o) \/ FlushBatch(o) \/ StageObject(o) \/ LinkObject(o) \/ PruneObject(o)
  BY <1>4, RollbackObjectIInv, SkipObjectIInv, FlushBatchIInv, StageObjectIInv, LinkObjectIInv, PruneObjectIInv
<1>5. CASE FlushNothing \/ FlushStart \/ FlushDone \/ Seal \/ Intend
  BY <1>5, FlushNothingIInv, FlushStartIInv, FlushDoneIInv, SealIInv, IntendIInv
<1>6. CASE PrepareNamespace \/ WriteRef \/ SyncRef \/ DeleteRef \/ PruneDone
  BY <1>6, PrepareNamespaceIInv, WriteRefIInv, SyncRefIInv, DeleteRefIInv, PruneDoneIInv
<1>7. CASE CreateDone \/ Fail \/ Stop \/ AppRestart
  BY <1>7, CreateDoneIInv, FailIInv, StopIInv, AppRestartIInv
<1> QED BY <1>1, <1>2, <1>3, <1>4, <1>5, <1>6, <1>7 DEF Next

\* The inductive invariant holds in every reachable state.
THEOREM Invariance == Spec => []IInv
BY InitIInv, NextIInv, PTL DEF Spec

-----------------------------------------------------------------------------
(* Atomicity: each step is one of the abstract store's, or leaves it alone *)

Still == refs' = refs /\ Kept' = Kept

LEMMA KeptSame ==
  ASSUME UNCHANGED <<journal, stage, canon, linked, refs>>
  PROVE  Still
BY DEF Still, Kept, Owned, IntendedVisible

LEMMA KeptAll == (~journal.on \/ IntendedVisible \/ Owned = {}) => Kept = canon
BY DEF Kept

\* What the abstract specification says, in the terms of this one.
LEMMA AbstractStep ==
  ASSUME IInv,
         \/ Still
         \/ \E t \in Targets : refs' = refs \union {t} /\ Kept' = Kept \union Closure(t)
         \/ \E t \in refs : refs' = refs \ {t} /\ Kept' = Kept
         \/ \E o \in Objects : o \in Kept \ Reachable(refs) /\ refs' = refs /\ Kept' = Kept \ {o}
  PROVE  [Published!Next]_(Published!vars)
<1>1. refs \subseteq Targets
  BY DEF IInv, DiskOK
<1>2. Published!Reachable(refs) = Reachable(refs) /\ \A t : Published!Closure(t) = Closure(t)
  BY DEF Published!Reachable, Published!Closure, Reachable, Closure, Store!Reachable, Store!Closure
<1>3. CASE Still
  BY <1>3 DEF Still, Published!vars
<1>4. CASE \E t \in Targets : refs' = refs \union {t} /\ Kept' = Kept \union Closure(t)
  BY <1>2, <1>4 DEF Published!Next, Published!Publish
<1>5. CASE \E t \in refs : refs' = refs \ {t} /\ Kept' = Kept
  BY <1>1, <1>5 DEF Published!Next, Published!Unpin
<1>6. CASE \E o \in Objects : o \in Kept \ Reachable(refs) /\ refs' = refs /\ Kept' = Kept \ {o}
  BY <1>2, <1>6 DEF Published!Next, Published!Prune
<1> QED BY <1>3, <1>4, <1>5, <1>6

LEMMA StillRequest ==
  ASSUME IInv, (\E t \in Targets : RequestPublish(t) \/ RequestUnref(t)) \/ RequestCreate
  PROVE  Still
BY KeptSame DEF RequestPublish, RequestUnref, RequestCreate, Begin, disk

LEMMA StillOver ==
  ASSUME IInv, PruneDone \/ CreateDone \/ Fail \/ Stop \/ AppRestart
  PROVE  Still
BY KeptSame DEF PruneDone, CreateDone, Fail, Stop, AppRestart, disk

LEMMA StillMove ==
  ASSUME IInv, \/ RecoverKeep \/ RollbackDone \/ FlushNothing \/ FlushDone \/ Seal \/ PrepareNamespace \/ SyncRef
               \/ \E o \in Objects : SkipObject(o) \/ FlushBatch(o)
  PROVE  Still
BY KeptSame DEF RecoverKeep, RollbackDone, FlushNothing, FlushDone, Seal, PrepareNamespace, SyncRef,
                SkipObject, FlushBatch, disk

\* A rollback removes what recovery would not have kept.
LEMMA StillRollback ==
  ASSUME IInv, NEW o \in Objects, RollbackObject(o)
  PROVE  Still
<1>1. /\ journal.on /\ ~IntendedVisible /\ o \in Owned
      /\ canon' = canon \ {o} /\ linked' = linked \ {o}
      /\ UNCHANGED <<journal, stage, refs>>
  BY DEF RollbackObject
<1>2. journal'.on /\ ~IntendedVisible' /\ Owned' = Owned \ {o}
  BY <1>1 DEF IntendedVisible, Owned
<1> QED BY <1>1, <1>2 DEF Still, Kept

\* The journal and the staging directory go when they no longer tell apart
\* what to keep.
LEMMA StillClear ==
  ASSUME IInv, RecoverWithoutJournal \/ ClearJournal \/ ClearStage
  PROVE  Still
<1>1. CASE ClearJournal
  <2>1. /\ op.pc \in {"clear", "commit"} /\ journal' = NoJournal /\ UNCHANGED <<stage, canon, linked, refs>>
    BY <1>1 DEF ClearJournal, At
  <2>2. journal.on => IntendedVisible \/ Owned = {}
    <3>1. CASE op.pc = "clear"
      BY <3>1 DEF IInv, ControlOK
    <3>2. CASE op.pc = "commit"
      BY <3>2, PublishFacts DEF IInv, ControlOK, IntendedVisible
    <3> QED BY <2>1, <3>1, <3>2
  <2>3. ~journal'.on
    BY <2>1 DEF NoJournal
  <2>4. Kept' = canon'
    BY <2>3 DEF Kept
  <2> QED BY <2>1, <2>2, <2>4, KeptAll DEF Still
<1>2. CASE RecoverWithoutJournal \/ ClearStage
  <2>1. ~journal.on /\ UNCHANGED <<journal, canon, refs>>
    BY <1>2 DEF RecoverWithoutJournal, ClearStage, At, IInv, ControlOK
  <2> QED BY <2>1 DEF Still, Kept
<1> QED BY <1>1, <1>2

\* Staging and flushing make no object visible; a link makes one that a
\* rollback would take away again.
LEMMA StillWrite ==
  ASSUME IInv, FlushStart \/ \E o \in Objects : StageObject(o) \/ LinkObject(o)
  PROVE  Still
<1>1. CASE FlushStart
  <2>1. /\ op.pc = "flush" /\ UNCHANGED <<stage, canon, linked, refs>>
        /\ IF op.started THEN UNCHANGED journal ELSE journal' = [on |-> TRUE, ref |-> None, ident |-> op.ident]
    BY <1>1 DEF FlushStart, Persist, At
  <2>2. (op.started <=> journal.on) /\ (~op.started => Owned = {})
    BY <2>1 DEF IInv, TxOK, Tx, Owned
  <2>3. CASE op.started
    BY <2>1, <2>3, KeptSame
  <2>4. CASE ~op.started
    <3>1. Owned' = {}
      BY <2>1, <2>2, <2>4 DEF Owned
    <3>2. Kept = canon /\ Kept' = canon'
      BY <2>2, <2>4, <3>1 DEF Kept
    <3> QED BY <2>1, <3>2 DEF Still
  <2> QED BY <2>3, <2>4
<1>2. ASSUME NEW o \in Objects, StageObject(o) PROVE Still
  <2>1. /\ op.pc \in {"write", "seal"} /\ o \notin canon /\ stage' = stage \union {o}
        /\ UNCHANGED <<canon, linked, refs>>
        /\ IF op.started /\ ~op.ident THEN journal' = [on |-> TRUE, ref |-> journal.ref, ident |-> TRUE]
           ELSE journal' = journal
    BY <1>2 DEF StageObject, Exists, Persist, At
  <2>2. op.started <=> journal.on
    BY <2>1 DEF IInv, TxOK, Tx
  <2>3. (journal'.on <=> journal.on) /\ journal'.ref = journal.ref
    BY <2>1, <2>2
  <2>4. Owned' = Owned /\ (IntendedVisible' <=> IntendedVisible)
    BY <2>1, <2>3 DEF Owned, IntendedVisible, IInv, DiskOK
  <2> QED BY <2>1, <2>3, <2>4 DEF Still, Kept
<1>3. ASSUME NEW o \in Objects, LinkObject(o) PROVE Still
  <2>1. o \notin canon /\ canon' = canon \union {o} /\ UNCHANGED <<journal, refs>>
    BY <1>3 DEF LinkObject
  <2>2. journal.on /\ ~IntendedVisible /\ ~IntendedVisible' /\ Owned' = Owned \union {o}
    BY <1>3, LinkFacts
  <2> QED BY <2>1, <2>2 DEF Still, Kept
<1> QED BY <1>1, <1>2, <1>3

\* Naming the ref gives up nothing: when it is visible already, nothing of the
\* transaction's own is on the disk.
LEMMA StillIntend ==
  ASSUME IInv, Intend
  PROVE  Still
<1>1. /\ journal'.on /\ UNCHANGED <<canon, refs>> /\ Owned' = Owned
      /\ Owned # {} => journal.on /\ ~IntendedVisible
      /\ IntendedVisible' => Owned = {}
  BY IntendFacts
<1>2. CASE Owned = {}
  BY <1>1, <1>2, KeptAll DEF Still, Kept
<1>3. CASE Owned # {}
  BY <1>1, <1>3 DEF Still, Kept
<1> QED BY <1>2, <1>3

\* The one step that publishes: what recovery would have taken away is the
\* state's own, and what it would have kept the rest of it.
LEMMA WriteRefPublishes ==
  ASSUME IInv, WriteRef
  PROVE  \E t \in Targets : refs' = refs \union {t} /\ Kept' = Kept \union Closure(t)
<1>1. op.pc = "ref" /\ refs' = refs \union {op.target} /\ UNCHANGED <<journal, stage, canon, linked>>
  BY DEF WriteRef, At
<1>2. /\ journal.on /\ journal.ref = op.target /\ op.target \in Targets
      /\ Owned \subseteq Closure(op.target) /\ Closure(op.target) \subseteq canon
  BY <1>1, PublishFacts, TargetFacts DEF Tx
<1>3. Kept' = canon
  BY <1>1, <1>2 DEF Kept, IntendedVisible
<1>4. canon = Kept \union Closure(op.target)
  BY <1>2 DEF Kept
<1> QED BY <1>1, <1>2, <1>3, <1>4

\* Unpinning and pruning happen with no journal: recovery would keep it all.
LEMMA OutsideSteps ==
  ASSUME IInv,
         DeleteRef \/ (\E o \in Objects : PruneObject(o)) \/ (\E t \in Targets : DropStaleRef(t))
  PROVE  [Published!Next]_(Published!vars)
<1>1. ~journal.on /\ journal' = journal
  BY OutsideFacts DEF DeleteRef, PruneObject, DropStaleRef, At
<1>2. Kept = canon /\ Kept' = canon'
  BY <1>1 DEF Kept
<1>3. CASE DeleteRef
  <2>1. refs' = refs \ {op.target} /\ canon' = canon
    BY <1>3 DEF DeleteRef
  <2>2. CASE op.target \in refs
    BY <1>2, <2>1, <2>2, AbstractStep
  <2>3. CASE op.target \notin refs
    BY <1>2, <2>1, <2>3, AbstractStep DEF Still
  <2> QED BY <2>2, <2>3
<1>4. ASSUME NEW t \in Targets, DropStaleRef(t) PROVE [Published!Next]_(Published!vars)
  <2>1. t \in refs /\ refs' = refs \ {t} /\ canon' = canon
    BY <1>4 DEF DropStaleRef
  <2> QED BY <1>2, <2>1, AbstractStep
<1>5. ASSUME NEW o \in Objects, PruneObject(o) PROVE [Published!Next]_(Published!vars)
  <2>1. o \in canon \ Reachable(refs) /\ canon' = canon \ {o} /\ refs' = refs
    BY <1>5 DEF PruneObject
  <2> QED BY <1>2, <2>1, AbstractStep
<1> QED BY <1>3, <1>4, <1>5

LEMMA NextIsAtomic == IInv /\ [Next]_vars => [Published!Next]_(Published!vars)
<1> SUFFICES ASSUME IInv, [Next]_vars PROVE [Published!Next]_(Published!vars)
  OBVIOUS
<1>1. CASE UNCHANGED vars
  <2>1. Still
    BY <1>1, KeptSame DEF vars, disk
  <2> QED BY <2>1, AbstractStep
<1>2. CASE (\E t \in Targets : RequestPublish(t) \/ RequestUnref(t)) \/ RequestCreate
  BY <1>2, StillRequest, AbstractStep
<1>3. CASE RecoverWithoutJournal \/ ClearJournal \/ ClearStage
  BY <1>3, StillClear, AbstractStep
<1>4. CASE \/ RecoverKeep \/ RollbackDone \/ FlushNothing \/ FlushDone \/ Seal \/ PrepareNamespace \/ SyncRef
           \/ \E o \in Objects : SkipObject(o) \/ FlushBatch(o)
  BY <1>4, StillMove, AbstractStep
<1>5. CASE FlushStart \/ \E o \in Objects : StageObject(o) \/ LinkObject(o)
  BY <1>5, StillWrite, AbstractStep
<1>6. CASE \E o \in Objects : RollbackObject(o)
  BY <1>6, StillRollback, AbstractStep
<1>7. CASE Intend
  BY <1>7, StillIntend, AbstractStep
<1>8. CASE WriteRef
  BY <1>8, WriteRefPublishes, AbstractStep
<1>9. CASE DeleteRef \/ (\E o \in Objects : PruneObject(o)) \/ (\E t \in Targets : DropStaleRef(t))
  BY <1>9, OutsideSteps
<1>10. CASE PruneDone \/ CreateDone \/ Fail \/ Stop \/ AppRestart
  BY <1>10, StillOver, AbstractStep
<1> QED BY <1>1, <1>2, <1>3, <1>4, <1>5, <1>6, <1>7, <1>8, <1>9, <1>10 DEF Next

\* Every capture, merge, unref and store-create takes effect at one instant:
\* seen as recovery would leave it, the disk takes one step of SnapshotStore
\* or none, whatever the order of links, journal writes, deaths and rollbacks.
THEOREM OperationsAreAtomic == Spec => Atomic
<1>1. Init => Published!Init
  BY DEF Init, Published!Init, Kept, NoJournal
<1> QED BY <1>1, InitIInv, NextIInv, NextIsAtomic, PTL DEF Spec, Atomic, Published!Spec

-----------------------------------------------------------------------------
(* The invariants the runs check *)

\* The disk and the running operation are well formed: what waits for its link
\* is among what the operation staged.
THEOREM TypeCorrect == Spec => []TypeOK
<1>1. ASSUME IInv PROVE TypeOK
  <2>1. op.pending \subseteq op.mine
    <3>1. CASE op.pc \in Tx
      BY <1>1, <3>1 DEF IInv, TxOK
    <3>2. CASE op.pc \notin Tx
      BY <1>1, <3>2 DEF IInv, ControlOK
    <3> QED BY <3>1, <3>2
  <2>2. op.target \in Targets \union {None} /\ op.mine \subseteq Objects /\ op.todo \subseteq Objects
    BY <1>1 DEF IInv, Ops
  <2> QED BY <1>1, <2>1, <2>2 DEF IInv, DiskOK, HostOK, Dirs, TypeOK
<1> QED BY <1>1, Invariance, PTL

\* A state the host was given and has not released keeps its ref, through
\* every operation, failure and death of the process.
THEOREM HeldStaysPinned == Spec => []HeldIsPinned
<1>1. IInv => HeldIsPinned
  BY DEF IInv, HostOK, HeldIsPinned
<1> QED BY <1>1, Invariance, PTL

\* The order of syncs in flush and clear_store_transaction: what a rollback
\* would remove is known to a durable journal and a durable staging directory.
THEOREM WriteAheadHolds == Spec => []WriteAhead
<1>1. IInv => WriteAhead
  BY DEF IInv, DiskOK, Durable, SyncOK, WriteAhead
<1> QED BY <1>1, Invariance, PTL

\* Every state with a visible ref can be read in full with no recovery run.
THEOREM VisibleStatesAreComplete == Spec => []VisibleIsComplete
<1>1. IInv => VisibleIsComplete
  BY DEF IInv, DiskOK
<1> QED BY <1>1, Invariance, PTL

\* No death leaves a journal that recover_store_transaction refuses.
THEOREM RecoveryIsNeverRefused == Spec => []NeverRefused
<1>1. IInv => NeverRefused
  BY DEF IInv, DiskOK, NeverRefused
<1> QED BY <1>1, Invariance, PTL
=============================================================================
