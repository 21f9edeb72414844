----------------------------- MODULE Promotion -----------------------------
(***************************************************************************)
(* Promotion of a candidate's changes into the primary project             *)
(* (electron/worldlines/manager.ts, promotion-recovery/recovery.ts and the *)
(* native transitions of core/src/promotion_remove/transition.rs): a       *)
(* journal is written before the first file moves, files are installed one *)
(* by one, the session bundle is moved into place, and the journal is      *)
(* removed.  A failure rolls back; opening the project completes or rolls  *)
(* back whatever a dead process left.                                      *)
(*                                                                         *)
(* One comparison and one candidate: its tree is "Target", and a file has  *)
(* one value, Missing when there is none.  Promotions are numbered and run *)
(* one at a time, under the promotion transaction and the durable lock.    *)
(* The user edits the project at any time, also between the check and the  *)
(* rename of a native transition.                                          *)
(***************************************************************************)
EXTENDS FiniteSets, Naturals, Sequences

CONSTANTS
    Order,          \* the changed paths, in the order of their names
    Missing,        \* the value of a path that does not exist
    Base,           \* Base[p]: the tree the candidate was forked from
    Target,         \* Target[p]: the candidate's tree
    EditValues,     \* what the user may write to a path
    Checkpoint,     \* PROMOTION_JOURNAL_CHECKPOINT_PATHS
    MaxJournals,    \* MAX_PROMOTION_JOURNALS
    MaxOps,         \* bound: promotions started
    MaxEdits,       \* bound: edits by the user
    MaxStops,       \* bound: crashes, and closings of the project
    MaxFaults,      \* bound: calls that fail
    MaxTears        \* bound: journals torn, and times recovery passes over some

Paths == {Order[i] : i \in DOMAIN Order}
Ops == 1 .. MaxOps
Values == {Base[p] : p \in Paths} \union {Target[p] : p \in Paths}
          \union EditValues \union {Missing}
User == 0

ASSUME TreeAssumption ==
    /\ Order \in Seq(Paths)
    /\ \A i, j \in DOMAIN Order : Order[i] = Order[j] => i = j
    /\ Base \in [Paths -> Values] /\ Target \in [Paths -> Values]
    /\ \A p \in Paths : Base[p] # Target[p]
    /\ \A p \in Paths : EditValues \intersect {Base[p], Target[p]} = {}
ASSUME BoundsAssumption ==
    /\ Checkpoint \in Nat \ {0}
    /\ {MaxJournals, MaxOps, MaxEdits, MaxStops, MaxFaults, MaxTears} \subseteq Nat

VARIABLES
    tree,           \* the primary project, path by path
    author,         \* history: the promotion that put a path's value there
    disk,           \* journal.json of each promotion
    images,         \* the paths whose before-image its directory holds
    retired,        \* the paths whose retained name a rollback has used up
    sess,           \* the promoted session bundle: none, forked, installed, used
    marked,         \* the journals whose recovery marker still matches
    outcome,        \* what was last reported of each promotion
    completed,      \* history: the promotions ever reported complete
    candidate,      \* the candidate exists and may be promoted
    pc, job, todo,  \* the application: its step, the journal it works on,
                    \* the journals this opening has not looked at
    edits, stops, faults, tears

vars == <<tree, author, disk, images, retired, sess, marked, outcome, completed,
          candidate, pc, job, todo, edits, stops, faults, tears>>
files == <<tree, author, marked>>
evidence == <<images, retired, sess>>
reports == <<outcome, completed>>
bounds == <<edits, stops, faults, tears>>

-----------------------------------------------------------------------------
\* The journal: paths[p] is the state of p before the promotion.  "none" is a
\* journal that does not exist, "torn" one that cannot be parsed.
Fresh == [phase |-> "prepared", paths |-> <<>>, staged |-> FALSE, planned |-> FALSE,
          created |-> FALSE, uncertain |-> FALSE]
None == [Fresh EXCEPT !.phase = "none"]
Torn == [Fresh EXCEPT !.phase = "torn"]
Phases == {"none", "torn", "prepared", "applying", "applied", "done", "conflict"}

NoJob == [op |-> User, mem |-> None, plan |-> {}, left |-> {}, stale |-> FALSE,
          live |-> FALSE, conflict |-> FALSE]

IsWrite(p) == Target[p] # Missing
IsDelete(p) == ~IsWrite(p)
\* Writes first, then the deletes, each in the order of their names.
Precedes(p, q) ==
    \/ IsWrite(p) /\ IsDelete(q)
    \/ /\ IsWrite(p) <=> IsWrite(q)
       /\ \E i, j \in DOMAIN Order : i <= j /\ Order[i] = p /\ Order[j] = q
\* The path the job is at: the first of those it has left.
Current == {p \in job.left : \A q \in job.left : Precedes(p, q)}
Past(j, p) == [j EXCEPT !.left = @ \ {p}]
Recorded(paths, p) ==
    [q \in DOMAIN paths \union {p} |-> IF q = p THEN tree[p] ELSE paths[q]]
\* What a promotion works on: a delete of a path that is gone is left out.
Touched == {p \in Paths : IsWrite(p) \/ tree[p] # Missing}
Mergeable == \A p \in Paths : tree[p] \in {Base[p], Target[p]}

Half(o) == outcome[o] \notin {"done", "conflict"} /\ \E p \in Paths : author[p] = o

Init ==
    /\ tree = Base /\ author = [p \in Paths |-> User]
    /\ disk = [o \in Ops |-> None]
    /\ images = [o \in Ops |-> {}] /\ retired = [o \in Ops |-> {}]
    /\ sess = [o \in Ops |-> "none"]
    /\ marked = {} /\ outcome = [o \in Ops |-> "none"] /\ completed = {}
    /\ candidate = TRUE
    /\ pc = "idle" /\ job = NoJob /\ todo = {}
    /\ edits = 0 /\ stops = 0 /\ faults = 0 /\ tears = 0

Go(step, j) == pc' = step /\ job' = j
At(step) == pc = step
Fault == faults < MaxFaults /\ faults' = faults + 1
\* An action that calls nothing that can fail.
Sound == UNCHANGED <<edits, stops, faults, tears>>
Faulty == Fault /\ UNCHANGED <<edits, stops, tears>>
Ends == pc' = "idle" /\ job' = NoJob
Report(o, status) ==
    /\ outcome' = [outcome EXCEPT ![o] = status]
    /\ completed' = IF status = "done" THEN completed \union {o} ELSE completed

\* A path takes value v: markers that recorded its identity no longer match.
Write(p, v, who) ==
    /\ tree' = [tree EXCEPT ![p] = v]
    /\ author' = [author EXCEPT ![p] = who]
    /\ marked' = {o \in marked : p \notin DOMAIN disk[o].paths}

\* The file is truncated and rewritten in place.  A refused write leaves it as
\* it was; a write that fails to sync leaves the new bytes and an identity the
\* application does not know, so that every later write is refused; a process
\* that dies, or a disk that fills, in between leaves it unreadable.
writePromotionJournal(j, next, onError, jError) ==
    LET to(record) == disk' = [disk EXCEPT ![j.op] = record]
        lost == [jError EXCEPT !.stale = TRUE]
    IN  \/ ~j.stale /\ to(j.mem) /\ Go(next, j) /\ Sound /\ UNCHANGED candidate
        \/ j.stale /\ to(disk[j.op]) /\ Go(onError, jError) /\ Sound
           /\ UNCHANGED candidate
        \/ ~j.stale /\ to(disk[j.op]) /\ Go(onError, jError) /\ Faulty
           /\ UNCHANGED candidate
        \/ ~j.stale /\ to(j.mem) /\ Go(onError, lost) /\ Faulty /\ UNCHANGED candidate
        \/ /\ ~j.stale /\ tears < MaxTears /\ tears' = tears + 1
           /\ to(Torn)
           /\ \/ Go(onError, lost) /\ UNCHANGED <<candidate, stops>>
              \/ /\ stops < MaxStops /\ stops' = stops + 1
                 /\ Go("down", NoJob) /\ candidate' = FALSE
           /\ UNCHANGED <<edits, faults>>
Saves(j, next) == writePromotionJournal(j, next, "catch", j)

-----------------------------------------------------------------------------
(* The promotion.                                                          *)

Begin(o) ==
    /\ At("idle") /\ candidate
    /\ outcome[o] = "none" /\ \A q \in 1 .. o - 1 : outcome[q] # "none"
    /\ Cardinality({q \in Ops : disk[q].phase # "none"}) < MaxJournals
    /\ Saves([NoJob EXCEPT !.op = o, !.mem = Fresh, !.live = TRUE], "capture")
    /\ UNCHANGED <<files, evidence, reports, todo>>

\* Both trees are captured and merged: the merge conflicts on a path the user
\* changed.  Other refusals (a file the user owns, a generation that moved, a
\* question to the user) come at any time.
Capture ==
    /\ At("capture")
    /\ \/ /\ Mergeable /\ Sound
          /\ Go("gather", [job EXCEPT !.plan = Touched, !.left = Touched])
       \/ Go("fail", job) /\ Sound
       \/ Go("catch", job) /\ Faulty
    /\ UNCHANGED <<files, disk, evidence, reports, candidate, todo>>

\* One path's state and before-image join the journal; every Checkpoint paths
\* it is saved.  A path that cannot be read ends the gathering.
Gather ==
    /\ At("gather")
    /\ \E p \in Current :
       LET j == [Past(job, p) EXCEPT !.mem.paths = Recorded(@, p)]
       IN  \/ /\ images' = IF tree[p] = Missing THEN images
                           ELSE [images EXCEPT ![job.op] = @ \union {p}]
              /\ IF Cardinality(j.plan \ j.left) % Checkpoint = 0
                 THEN writePromotionJournal(j, "gather", "spill", j)
                 ELSE Go("gather", j) /\ Sound /\ UNCHANGED <<disk, candidate>>
           \/ Go("spill", job) /\ Faulty /\ UNCHANGED <<images, disk, candidate>>
    /\ UNCHANGED <<files, retired, sess, reports, todo>>

GatherSpill ==
    /\ At("spill")
    /\ Saves(job, "catch")
    /\ UNCHANGED <<files, evidence, reports, todo>>

GatherDone ==
    /\ At("gather") /\ job.left = {}
    /\ Saves([job EXCEPT !.left = job.plan], "stage")
    /\ UNCHANGED <<files, evidence, reports, todo>>

\* The candidate's session is forked into the journal; the fork may be
\* uncertain, and it may throw.
Stage ==
    /\ At("stage")
    /\ \/ Saves([job EXCEPT !.mem.staged = TRUE], "verify")
       \/ Faulty /\ Go("uncertain", job) /\ UNCHANGED <<disk, candidate>>
       \/ Faulty /\ Go("catch", job) /\ UNCHANGED <<disk, candidate>>
    /\ UNCHANGED <<files, evidence, reports, todo>>

Uncertain ==
    /\ At("uncertain")
    /\ Saves([job EXCEPT !.mem.uncertain = TRUE], "catch")
    /\ UNCHANGED <<files, evidence, reports, todo>>

\* Every path is read again, then the generations are compared.
Verify ==
    /\ At("verify")
    /\ \E p \in Current :
       IF tree[p] = job.mem.paths[p] THEN Go("verify", Past(job, p)) ELSE Go("fail", job)
    /\ Sound /\ UNCHANGED <<files, disk, evidence, reports, candidate, todo>>

\* Mutation: files are installed before the journal says so.
ApplyUnannounced ==
    /\ At("verify") /\ job.left = {}
    /\ Go("apply", [job EXCEPT !.left = job.plan]) /\ Sound
    /\ UNCHANGED <<files, disk, evidence, reports, candidate, todo>>

VerifyDone ==
    /\ At("verify") /\ job.left = {}
    /\ \/ Saves([job EXCEPT !.mem.phase = "applying", !.left = job.plan], "apply")
       \/ Go("fail", job) /\ Sound /\ UNCHANGED <<disk, candidate>>
    /\ UNCHANGED <<files, evidence, reports, todo>>

\* The native transition checks that the destination is as it was ...
Apply ==
    /\ At("apply")
    /\ \E p \in Current :
       IF IsDelete(p) /\ job.mem.paths[p] = Missing THEN Go("apply", Past(job, p))
       ELSE IF tree[p] = job.mem.paths[p] THEN Go("install", job) ELSE Go("catch", job)
    /\ Sound /\ UNCHANGED <<files, disk, evidence, reports, candidate, todo>>

\* ... and renames: an exchange or a retirement needs the destination to
\* exist, an install without replacement needs it not to.  What it displaced
\* must be what it checked, and the directories must sync.
Install ==
    /\ At("install")
    /\ \E p \in Current :
       LET before == job.mem.paths[p]
           renamed == /\ (tree[p] = Missing) <=> (before = Missing)
                      /\ Write(p, Target[p], IF before = Target[p] THEN author[p] ELSE job.op)
       IN  \/ /\ renamed /\ Sound
              /\ IF tree[p] = before THEN Go("apply", Past(job, p)) ELSE Go("catch", job)
           \/ renamed /\ Faulty /\ Go("catch", job)
           \/ UNCHANGED files /\ Faulty /\ Go("catch", job)
           \/ /\ ~((tree[p] = Missing) <=> (before = Missing))
              /\ UNCHANGED files /\ Sound /\ Go("catch", job)
    /\ UNCHANGED <<disk, evidence, reports, candidate, todo>>

ApplyDone ==
    /\ At("apply") /\ job.left = {}
    /\ Saves([job EXCEPT !.mem.phase = "applied"], "plan")
    /\ UNCHANGED <<files, evidence, reports, todo>>

PlanSession ==
    /\ At("plan")
    /\ Saves([job EXCEPT !.mem.planned = TRUE], "fork")
    /\ UNCHANGED <<files, evidence, reports, todo>>

ForkSession ==
    /\ At("fork")
    /\ \/ sess' = [sess EXCEPT ![job.op] = "forked"] /\ Go("move", job) /\ Sound
       \/ /\ sess' \in {sess, [sess EXCEPT ![job.op] = "forked"]}
          /\ Faulty /\ \E step \in {"catch", "uncertain"} : Go(step, job)
    /\ UNCHANGED <<files, disk, images, retired, reports, candidate, todo>>

MoveSession ==
    /\ At("move")
    /\ \/ sess' = [sess EXCEPT ![job.op] = "installed"] /\ Go("manifest", job) /\ Sound
       \/ /\ sess' \in {sess, [sess EXCEPT ![job.op] = "installed"]}
          /\ Faulty /\ Go("catch", job)
    /\ UNCHANGED <<files, disk, images, retired, reports, candidate, todo>>

RecordSession ==
    /\ At("manifest")
    /\ Saves([job EXCEPT !.mem.created = TRUE], "done")
    /\ UNCHANGED <<files, evidence, reports, todo>>

\* A journal in phase done is the commit point.
Done ==
    /\ At("done")
    /\ Saves([job EXCEPT !.mem.phase = "done"], "finish")
    /\ Report(job.op, IF disk'[job.op].phase = "done" THEN "done" ELSE outcome[job.op])
    /\ UNCHANGED <<files, evidence, todo>>

Finish ==
    /\ \/ At("finish")
       \/ At("catch") /\ job.mem.phase = "done"
    /\ Report(job.op, "done")
    /\ candidate' = FALSE
    /\ Go("remove", job) /\ Sound
    /\ UNCHANGED <<files, disk, evidence, todo>>

Fail ==
    /\ At("fail")
    /\ Report(job.op, "failed")
    /\ Go("remove", job) /\ Sound
    /\ UNCHANGED <<files, disk, evidence, candidate, todo>>

\* Removing the journal's directory takes the before-images and a staged
\* session with it; a removal that fails may have taken some already.
RemoveJournal ==
    /\ At("remove")
    /\ \/ disk' = [disk EXCEPT ![job.op] = None] /\ Sound
       \/ UNCHANGED disk /\ Faulty
    /\ \/ /\ images' = [images EXCEPT ![job.op] = {}]
          /\ sess' = [sess EXCEPT ![job.op] = IF @ = "forked" THEN "none" ELSE @]
       \/ disk'[job.op] # None /\ UNCHANGED <<images, sess>>
    /\ Ends
    /\ UNCHANGED <<files, retired, reports, candidate, todo>>

-----------------------------------------------------------------------------
(* Rolling back: the live promotion saves the journal as it goes, the      *)
(* recovery of an opening does not write it.                               *)

Catch ==
    /\ At("catch") /\ job.mem.phase # "done"
    /\ \/ Go("rollback", [job EXCEPT !.left = DOMAIN job.mem.paths])
          /\ Sound /\ UNCHANGED reports
       \/ /\ Report(job.op, "conflict")
          /\ Ends /\ Faulty
    /\ UNCHANGED <<files, disk, evidence, candidate, todo>>

Before(p) == job.mem.paths[p]
NextPath(p) == Past(job, p)
Conflicts(p) == [NextPath(p) EXCEPT !.conflict = TRUE]

\* A path already restored is passed over, one that is neither before nor
\* after is a conflict; otherwise the replacement is prepared beside it.
RollbackLook ==
    /\ At("rollback")
    /\ \E p \in Current :
       IF tree[p] = Before(p)
       THEN Go("rollback", NextPath(p)) /\ Sound /\ UNCHANGED <<disk, candidate>>
       ELSE IF \/ tree[p] # Target[p]
               \/ Before(p) # Missing /\ p \notin images[job.op]
       THEN Go("rollback", Conflicts(p)) /\ Sound /\ UNCHANGED <<disk, candidate>>
       ELSE \/ /\ job.live
               /\ writePromotionJournal(job, "restore", "rollback", Conflicts(p))
            \/ ~job.live /\ Go("restore", job) /\ Sound /\ UNCHANGED <<disk, candidate>>
            \/ Go("rollback", Conflicts(p)) /\ Faulty /\ UNCHANGED <<disk, candidate>>
    /\ UNCHANGED <<files, evidence, reports, todo>>

RollbackCheck ==
    /\ At("restore")
    /\ \E p \in Current :
       IF /\ tree[p] = Target[p]
          /\ Before(p) = Missing => p \notin retired[job.op]
       THEN Go("swap", job)
       ELSE Go("rollback", Conflicts(p))
    /\ Sound /\ UNCHANGED <<files, disk, evidence, reports, candidate, todo>>

RollbackSwap ==
    /\ At("swap")
    /\ \E p \in Current :
       LET possible == (tree[p] = Missing) <=> (Target[p] = Missing)
           renamed == /\ possible
                      /\ Write(p, Before(p), User)
                      /\ retired' = IF Before(p) # Missing THEN retired
                                    ELSE [retired EXCEPT ![job.op] = @ \union {p}]
           untouched == UNCHANGED <<files, retired>>
       IN  \/ /\ renamed /\ Sound
              /\ IF tree[p] = Target[p] THEN Go("reread", job)
                 ELSE Go("rollback", Conflicts(p))
           \/ renamed /\ Faulty /\ Go("rollback", Conflicts(p))
           \/ untouched /\ Faulty /\ Go("rollback", Conflicts(p))
           \/ ~possible /\ untouched /\ Sound /\ Go("rollback", Conflicts(p))
    /\ UNCHANGED <<disk, images, sess, reports, candidate, todo>>

RollbackReread ==
    /\ At("reread")
    /\ \E p \in Current :
       Go("rollback", IF tree[p] = Before(p) THEN NextPath(p) ELSE Conflicts(p))
    /\ Sound /\ UNCHANGED <<files, disk, evidence, reports, candidate, todo>>

\* Mutation: a rollback with conflicts is reported as a clean one.
LiveConflictIgnored ==
    /\ At("rollback") /\ job.left = {} /\ job.live
    /\ Report(job.op, "failed")
    /\ IF ~job.mem.planned /\ ~job.mem.uncertain THEN Go("remove", job) ELSE Ends
    /\ Sound /\ UNCHANGED <<files, disk, evidence, candidate, todo>>

\* A live promotion drops its journal when nothing of it can be left.
LiveRolledBack ==
    /\ At("rollback") /\ job.left = {} /\ job.live /\ ~job.conflict
    /\ Report(job.op, "failed")
    /\ IF ~job.mem.planned /\ ~job.mem.uncertain THEN Go("remove", job) ELSE Ends
    /\ Sound /\ UNCHANGED <<files, disk, evidence, candidate, todo>>

LiveConflict ==
    /\ At("rollback") /\ job.left = {} /\ job.live /\ job.conflict
    /\ LET j == [job EXCEPT !.mem.phase = "conflict"]
       IN  writePromotionJournal(j, "report", "report", j)
    /\ UNCHANGED <<files, evidence, reports, todo>>

ReportConflict ==
    /\ At("report")
    /\ Report(job.op, "conflict")
    /\ Ends /\ Sound
    /\ UNCHANGED <<files, disk, evidence, candidate, todo>>

-----------------------------------------------------------------------------
(* Opening the project: every journal on disk is finished or rolled back.  *)

Open ==
    /\ At("down")
    /\ pc' = "open" /\ todo' = {o \in Ops : disk[o].phase # "none"}
    /\ Sound /\ UNCHANGED <<files, disk, evidence, reports, candidate, job>>

Opened == pc' = "open" /\ job' = NoJob

Skips == tears < MaxTears /\ tears' = tears + 1 /\ UNCHANGED <<edits, stops, faults>>

\* When the roots cannot be bound or listed the project opens all the same, with
\* every journal passed over.
OpenUnbound ==
    /\ At("down") /\ Opened /\ todo' = {}
    /\ Skips /\ UNCHANGED <<files, disk, evidence, reports, candidate>>

\* A journal that cannot be read is kept and passed over.
OpenUnreadable(o) ==
    /\ At("open") /\ o \in todo /\ todo' = todo \ {o} /\ Opened
    /\ (disk[o].phase = "torn" /\ Sound) \/ Skips
    /\ UNCHANGED <<files, disk, evidence, reports, candidate>>

OpenSettled(o) ==
    /\ At("open") /\ o \in todo /\ todo' = todo \ {o} /\ Opened
    /\ disk[o].phase \in {"done", "conflict"} \/ o \in marked
    /\ Report(o, IF disk[o].phase \in {"done", "conflict"} THEN disk[o].phase ELSE outcome[o])
    /\ Sound /\ UNCHANGED <<files, disk, evidence, candidate>>

\* Mutation: the session's place is not looked at.
CompletableWithoutSession(o) ==
    LET j == disk[o] IN
    /\ j.phase = "applied" /\ ~j.uncertain /\ j.staged /\ j.planned
    /\ \A p \in DOMAIN j.paths : tree[p] = Target[p]

\* An applied promotion is completed when every path is still as installed
\* and the session is in place, or can be moved there.
Completable(o) ==
    LET j == disk[o] IN
    /\ j.phase = "applied" /\ ~j.uncertain /\ j.staged /\ j.planned
    /\ \A p \in DOMAIN j.paths : tree[p] = Target[p]
    /\ \/ sess[o] = "installed"
       \/ sess[o] = "used" /\ ~j.created
       \/ sess[o] = "forked" /\ ~j.created

OpenPending(o) ==
    /\ At("open") /\ o \in todo /\ todo' = todo \ {o}
    /\ disk[o].phase \in {"prepared", "applying", "applied"} /\ o \notin marked
    /\ Go(IF Completable(o) THEN "complete" ELSE "rollback",
          [NoJob EXCEPT !.op = o, !.mem = disk[o], !.left = DOMAIN disk[o].paths])
    /\ Sound /\ UNCHANGED <<files, disk, evidence, reports, candidate>>

\* The marker records the outcome and the identity of every path; without it
\* the journal is looked at again.
Mark(status) ==
    /\ Report(job.op, status)
    /\ \/ marked' = marked \union {job.op} /\ Sound
       \/ UNCHANGED marked /\ Faulty
    /\ Opened

Complete ==
    /\ At("complete")
    /\ \/ /\ Mark("done")
          /\ sess' = [sess EXCEPT ![job.op] = IF @ = "forked" THEN "installed" ELSE @]
       \/ /\ sess[job.op] = "forked"
          /\ sess' \in {sess, [sess EXCEPT ![job.op] = "installed"]}
          /\ Go("rollback", job) /\ Faulty /\ UNCHANGED <<marked, reports>>
    /\ UNCHANGED <<tree, author, disk, images, retired, candidate, todo>>

\* Mutation: a conflict found while opening is not reported.
OpenConflictUnreported ==
    /\ At("rollback") /\ job.left = {} /\ ~job.live
    /\ IF ~job.conflict THEN Mark("failed")
       ELSE Opened /\ Sound /\ UNCHANGED <<marked, reports>>
    /\ UNCHANGED <<tree, author, disk, evidence, candidate, todo>>

\* What a rollback checks before its first path throws: the journal is kept as it is.
OpenThrows ==
    /\ At("rollback") /\ ~job.live /\ job.left = DOMAIN job.mem.paths /\ Opened
    /\ Skips /\ UNCHANGED <<files, disk, evidence, reports, candidate, todo>>

OpenRolledBack ==
    /\ At("rollback") /\ job.left = {} /\ ~job.live
    /\ IF ~job.conflict THEN Mark("failed")
       ELSE /\ Report(job.op, "conflict")
            /\ Opened /\ Sound /\ UNCHANGED marked
    /\ UNCHANGED <<tree, author, disk, evidence, candidate, todo>>

\* Mutation: the project is registered while journals are still pending.
OpenEarly ==
    /\ At("open")
    /\ pc' = "idle" /\ todo' = {} /\ job' = NoJob /\ Sound
    /\ UNCHANGED <<files, disk, evidence, reports, candidate>>

OpenDone ==
    /\ At("open") /\ todo = {}
    /\ Ends /\ Sound
    /\ UNCHANGED <<files, disk, evidence, reports, candidate, todo>>

-----------------------------------------------------------------------------
(* The environment.                                                        *)

Edit(p, v) ==
    /\ edits < MaxEdits /\ edits' = edits + 1
    /\ tree[p] # v /\ Write(p, v, User)
    /\ UNCHANGED <<disk, evidence, reports, candidate, pc, job, todo, stops, faults, tears>>

\* The agent goes on writing a promoted session.
UseSession(o) ==
    /\ edits < MaxEdits /\ edits' = edits + 1
    /\ At("idle") /\ sess[o] = "installed"
    /\ sess' = [sess EXCEPT ![o] = "used"]
    /\ UNCHANGED <<files, disk, images, retired, reports, candidate, pc, job, todo,
                   stops, faults, tears>>

\* The process dies, or the project is closed; candidates do not survive.
Stop ==
    /\ pc # "down" /\ stops < MaxStops /\ stops' = stops + 1
    /\ Go("down", NoJob) /\ todo' = {} /\ candidate' = FALSE
    /\ UNCHANGED <<files, disk, evidence, reports, edits, faults, tears>>

Works ==
    \/ Capture \/ Gather \/ GatherSpill \/ GatherDone \/ Stage \/ Uncertain
    \/ Verify \/ VerifyDone \/ Apply \/ Install \/ ApplyDone
    \/ PlanSession \/ ForkSession \/ MoveSession \/ RecordSession
    \/ Done \/ Finish \/ Fail \/ RemoveJournal
    \/ Catch \/ RollbackLook \/ RollbackCheck \/ RollbackSwap \/ RollbackReread
    \/ LiveRolledBack \/ LiveConflict \/ ReportConflict
    \/ Open \/ OpenUnbound \/ OpenThrows \/ Complete \/ OpenRolledBack \/ OpenDone
    \/ \E o \in Ops : OpenUnreadable(o) \/ OpenSettled(o) \/ OpenPending(o)

Next ==
    \/ Works \/ Stop
    \/ \E o \in Ops : Begin(o) \/ UseSession(o)
    \/ \E p \in Paths, v \in EditValues : Edit(p, v)

Spec == Init /\ [][Next]_vars

\* The application runs on, and a project that was closed is opened again.
FairSpec == Spec /\ WF_vars(Works)

-----------------------------------------------------------------------------
PathStates == UNION {[ps -> Values] : ps \in SUBSET Paths}
JournalType ==
    [phase : Phases, paths : PathStates,
     staged : BOOLEAN, planned : BOOLEAN, created : BOOLEAN, uncertain : BOOLEAN]
JobType ==
    [op : Ops \union {User}, mem : JournalType, plan : SUBSET Paths, left : SUBSET Paths,
     stale : BOOLEAN, live : BOOLEAN, conflict : BOOLEAN]
LiveSteps ==
    {"capture", "gather", "spill", "stage", "uncertain", "verify", "fail", "apply",
     "install", "plan", "fork", "move", "manifest", "done", "finish", "catch",
     "rollback", "restore", "swap", "reread", "report", "remove"}

\* The types of the project, the journals and the application's own state.
TypeOK ==
    /\ tree \in [Paths -> Values] /\ author \in [Paths -> Ops \union {User}]
    /\ disk \in [Ops -> JournalType]
    /\ images \in [Ops -> SUBSET Paths] /\ retired \in [Ops -> SUBSET Paths]
    /\ sess \in [Ops -> {"none", "forked", "installed", "used"}]
    /\ marked \subseteq Ops /\ todo \subseteq Ops /\ completed \subseteq Ops
    /\ outcome \in [Ops -> {"none", "done", "failed", "conflict"}]
    /\ pc \in LiveSteps \union {"idle", "down", "open", "complete"}
    /\ job \in JobType /\ candidate \in BOOLEAN
    /\ edits \in Nat /\ stops \in Nat /\ faults \in Nat /\ tears \in Nat

\* No journal has been torn and recovery has passed over none so far.
Intact == tears = 0

\* As long as a file installed by a promotion that was never reported complete
\* is in the project, that promotion's journal is on disk in a phase recovery acts on or keeps,
\* names the file, and holds its before-image: the process may die anywhere.
Covered ==
    Intact => \A o \in Ops, p \in Paths :
        author[p] = o /\ o \notin completed =>
            /\ disk[o].phase \in {"applying", "applied", "conflict"}
            /\ p \in DOMAIN disk[o].paths
            /\ disk[o].paths[p] # Missing => p \in images[o]

\* An open project holds no file of a promotion that neither completed nor
\* was reported as a conflict (recoverPromotionJournals runs before the
\* project is registered).
OpenIsSettled == Intact /\ pc = "idle" => \A o \in Ops : ~Half(o)

\* A promotion reported as failed has left none of its files in the project.
FailedLeavesNothing ==
    \A o \in Ops, p \in Paths : outcome[o] = "failed" => author[p] # o

\* A promotion is reported complete, by the promotion itself or by a later
\* opening, only with every file installed, or edited since, and its session
\* in place.
DoneIsWhole ==
    [][\A o \in Ops : outcome'[o] = "done" /\ outcome[o] # "done" =>
           /\ sess'[o] \in {"installed", "used"}
           /\ \A p \in DOMAIN disk'[o].paths :
                  tree[p] = Target[p] \/ tree[p] \in EditValues]_vars

\* The files of a promotion that stopped half way do not stay: it completes,
\* is rolled back, or is reported as a conflict.
Resolves == \A o \in Ops : Half(o) /\ Intact ~> ~Half(o) \/ ~Intact

\* What the documents say of the journal and the code does not do: the journal
\* of a promotion with files in the project survives a crash.
JournalIsDurable == \A o \in Ops : Half(o) => disk[o].phase # "torn"

\* What the code says of a completed promotion and does not keep: recovery
\* leaves its files in place.
DoneIsKept ==
    [][edits' = edits /\ pc # "install" =>
           \A p \in Paths : tree'[p] # tree[p] /\ author[p] \in Ops =>
               outcome[author[p]] # "done"]_vars
=============================================================================
