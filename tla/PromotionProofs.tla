-------------------------- MODULE PromotionProofs --------------------------
(***************************************************************************)
(* What a promotion promises the project's files, for any paths, trees and *)
(* edits, any number of promotions, deaths, reopenings, failing calls and  *)
(* torn journals: they are covered by a journal on disk until the          *)
(* promotion is reported complete, an open project holds no half           *)
(* promotion that was not reported, one reported as failed has left        *)
(* nothing, and one reported as complete is whole.                         *)
(*                                                                         *)
(* None of the four is inductive.  The invariant adds:                     *)
(*   FilesOK   what the disk says of the files a promotion has put there;  *)
(*   StepOK    what the step of the application knows of the journal in    *)
(*             memory, of the one on disk and of the files, with the user  *)
(*             editing at any moment;                                      *)
(*   OrderOK   who looks after a promotion that was not reported yet: the  *)
(*             job, the opening under way, or the next one.                *)
(* The steps of a live promotion share one argument: a journal may be lost *)
(* only to a torn write, and then the run is not Intact any more; what is  *)
(* written covers whatever is in the project (SaveKeeps, JournalWritten).  *)
(***************************************************************************)
EXTENDS Promotion, TLAPS

\* The job is a promotion of this process, not a recovery.
Live == job.live
\* Groups of steps: a rollback; before the first file moves; while files move;
\* once they all have.
Rolling == pc \in {"rollback", "restore", "swap", "reread"}
Early == pc \in {"capture", "gather", "spill", "stage", "verify", "fail"}
Applying == pc \in {"apply", "install"}
Installed == \/ pc \in {"plan", "fork", "move", "manifest", "done", "finish"}
             \/ pc = "catch" /\ job.mem.phase = "done"

\* Only a step at rest has no job, and a recovery only completes or rolls back.
JobOK ==
    /\ pc \in {"idle", "down", "open"} => job = NoJob
    /\ pc \notin {"idle", "down", "open"} => job.op \in Ops
    /\ Live => pc \in LiveSteps
    /\ (job.op \in Ops /\ ~Live) => pc = "complete" \/ Rolling

\* A file a promotion has installed is in its journal, with the state it replaced.
Named == \A o \in Ops, p \in Paths :
    author[p] = o /\ disk[o].phase \notin {"none", "torn"} =>
        p \in DOMAIN disk[o].paths /\ disk[o].paths[p] # Target[p]
\* The journal of a promotion with files in the project goes only once the
\* promotion is complete.
Gone == \A o \in Ops, p \in Paths :
    author[p] = o /\ disk[o].phase = "none" => outcome[o] = "done"
\* A promotion's file is the candidate's.
AuthorOK == \A p \in Paths : author[p] \in Ops => tree[p] = Target[p]
\* Whoever wrote the commit point has reported it.
DoneOnDisk == \A o \in Ops : disk[o].phase = "done" => outcome[o] = "done"
\* Covered, part by part: the journal can be read, recovery acts on its phase,
\* and its before-images are there.
Readable == Intact => \A o \in Ops : disk[o].phase # "torn"
Held == Intact => \A o \in Ops, p \in Paths :
    author[p] = o /\ o \notin completed =>
        /\ disk[o].phase \in {"applying", "applied", "conflict"}
        /\ disk[o].paths[p] # Missing => p \in images[o]
\* A recovery marker is written with a report.
ReportsOK == \A o \in Ops :
    /\ outcome[o] = "done" => o \in completed
    /\ o \in marked => outcome[o] # "none"
\* A promotion with files in the project and no report is the job's, or is one an
\* opening is to look at.
Unsettled == Intact => \A o \in Ops, p \in Paths :
    author[p] = o /\ outcome[o] = "none" => o = job.op \/ o \in todo \/ pc = "down"
\* While the candidate exists nothing has been stopped, and what was not
\* started has left no trace.
Unstarted ==
    /\ Live \/ pc = "idle" => todo = {}
    /\ candidate =>
        /\ pc \notin {"down", "open"} /\ (job.op \in Ops => Live)
        /\ \A o \in Ops : outcome[o] = "none" /\ o # job.op =>
               disk[o] = None /\ \A p \in Paths : author[p] # o

\* The job's promotion put p there; p is as the candidate has it, or the user has
\* edited it; p is as the journal found it, or the user has edited it.
Mine(p) == author[p] = job.op
Good(p) == tree[p] = Target[p] \/ tree[p] \in EditValues
Same(p) == tree[p] = job.mem.paths[p] \/ tree[p] \in EditValues

\* A live promotion: its journal in memory covers its files, and does not fall
\* behind the one on disk; it is reported only as it leaves.
LiveOK == Live =>
    /\ \A p \in Paths : Mine(p) =>
        /\ p \in DOMAIN job.mem.paths /\ job.mem.paths[p] # Target[p]
        /\ job.mem.phase \in {"applying", "applied", "conflict", "done"}
    /\ \A p \in DOMAIN job.mem.paths : job.mem.paths[p] # Missing => p \in images[job.op]
    /\ DOMAIN disk[job.op].paths \subseteq DOMAIN job.mem.paths
    /\ job.mem.phase \notin {"none", "torn"}
    /\ job.mem.phase = "done" => pc \in {"finish", "catch", "remove"}
    /\ Early => \A p \in Paths : ~Mine(p)
    /\ pc # "remove" /\ job.mem.phase # "done" => outcome[job.op] = "none"
    /\ pc = "remove" =>
        /\ outcome[job.op] # "none"
        /\ \A p \in Paths : Mine(p) => outcome[job.op] = "done"
\* How far a live promotion is: the paths gathered, checked and installed.
PlanOK == Live =>
    /\ pc = "capture" => DOMAIN job.mem.paths = {}
    /\ pc \in {"gather", "spill"} => DOMAIN job.mem.paths \union job.left = job.plan
    /\ pc \in {"stage", "verify"} \/ Applying => DOMAIN job.mem.paths = job.plan
    /\ pc \in {"gather", "spill", "stage", "verify"} =>
         \A p \in DOMAIN job.mem.paths : Same(p)
    /\ Applying =>
        /\ disk[job.op] = job.mem /\ job.mem.phase = "applying"
        /\ job.left \subseteq DOMAIN job.mem.paths
        /\ \A p \in job.left : Same(p)
        /\ \A p \in DOMAIN job.mem.paths \ job.left : Good(p)
    /\ Installed => \A p \in DOMAIN job.mem.paths : Good(p)
    /\ pc \in {"manifest", "done", "finish"} \/ (Installed /\ pc = "catch") =>
         sess[job.op] = "installed"
\* A recovery works on the journal on disk; what it completes is whole.
RecoveryOK == job.op \in Ops /\ ~Live =>
    /\ job.mem = disk[job.op]
    /\ job.mem.phase \in {"prepared", "applying", "applied"}
    /\ pc = "complete" =>
        /\ job.left = DOMAIN job.mem.paths
        /\ \A p \in DOMAIN job.mem.paths : Good(p)
        /\ sess[job.op] \in {"forked", "installed", "used"}
\* A rollback without a conflict has taken the promotion's files away behind it.
RollbackOK == Rolling =>
    /\ job.left \subseteq DOMAIN job.mem.paths
    /\ ~job.conflict =>
        /\ \A p \in DOMAIN job.mem.paths \ job.left : ~Mine(p)
        /\ pc = "reread" => \A p \in Current : ~Mine(p)

FilesOK ==
    /\ Named /\ Gone /\ AuthorOK /\ DoneOnDisk /\ Readable /\ Held
    /\ ReportsOK /\ FailedLeavesNothing
StepOK == JobOK /\ LiveOK /\ PlanOK /\ RecoveryOK /\ RollbackOK
OrderOK == Unsettled /\ Unstarted
IInv == TypeOK /\ FilesOK /\ StepOK /\ OrderOK

\* The jobs differ in nothing but the identity of the journal they know.
Like(j, k) ==
    /\ j \in JobType
    /\ j.op = k.op /\ j.mem = k.mem /\ j.plan = k.plan /\ j.left = k.left
    /\ j.live = k.live /\ j.conflict = k.conflict

Resting == {"idle", "down", "open"}
\* The counters go on counting.
Counted ==
    /\ edits' \in Nat /\ stops' \in Nat /\ faults' \in Nat /\ tears' \in Nat
    /\ tears <= tears'

-----------------------------------------------------------------------------
(* Types, and what every step that writes a journal has in common.         *)

LEMMA Basics ==
    /\ User \notin Ops
    /\ <<>> \in PathStates /\ DOMAIN <<>> = {}
    /\ None \in JournalType /\ Fresh \in JournalType /\ Torn \in JournalType
    /\ None.phase = "none" /\ Torn.phase = "torn" /\ Fresh.phase = "prepared"
    /\ DOMAIN None.paths = {} /\ DOMAIN Fresh.paths = {} /\ DOMAIN Torn.paths = {}
    /\ NoJob \in JobType /\ NoJob.op = User /\ ~NoJob.live /\ ~NoJob.conflict
    /\ NoJob.mem = None
<1>1. <<>> \in PathStates /\ DOMAIN <<>> = {}
  BY DEF PathStates
<1>2. None \in JournalType /\ Fresh \in JournalType /\ Torn \in JournalType
  BY <1>1 DEF None, Fresh, Torn, JournalType, Phases
<1>3. NoJob \in JobType /\ NoJob.op = User /\ ~NoJob.live /\ ~NoJob.conflict
      /\ NoJob.mem = None
  BY <1>2 DEF NoJob, JobType
<1>4. User \notin Ops
  BY DEF User, Ops
<1> QED
  BY <1>1, <1>2, <1>3, <1>4 DEF None, Fresh, Torn

LEMMA PathStatesType ==
    ASSUME NEW f \in PathStates
    PROVE  DOMAIN f \subseteq Paths /\ \A p \in DOMAIN f : f[p] \in Values
BY DEF PathStates

LEMMA RecordedType ==
    ASSUME TypeOK, NEW f \in PathStates, NEW p \in Paths
    PROVE  /\ Recorded(f, p) \in PathStates
           /\ DOMAIN Recorded(f, p) = DOMAIN f \union {p}
           /\ Recorded(f, p)[p] = tree[p]
           /\ \A q \in DOMAIN f \ {p} : Recorded(f, p)[q] = f[q]
<1> DEFINE D == DOMAIN f \union {p}
<1>1. D \in SUBSET Paths
  BY PathStatesType
<1>2. Recorded(f, p) \in [D -> Values]
  BY PathStatesType DEF Recorded, TypeOK
<1>3. Recorded(f, p) \in PathStates
  BY <1>1, <1>2 DEF PathStates
<1> QED
  BY <1>3 DEF Recorded

LEMMA SoundCounts == ASSUME TypeOK, Sound \/ Faulty PROVE Counted
BY DEF TypeOK, Sound, Faulty, Fault, Counted

\* writePromotionJournal: the file is as it was, as asked, or torn; the step goes
\* on, fails, or the process dies.
LEMMA SaveStep ==
    ASSUME TypeOK, NEW j \in JobType, j.op \in Ops, NEW k \in JobType,
           NEW s, NEW e, writePromotionJournal(j, s, e, k)
    PROVE  /\ disk' \in [Ops -> JournalType] /\ Counted
           /\ \A o \in Ops \ {j.op} : disk'[o] = disk[o]
           /\ \/ disk'[j.op] = disk[j.op]
              \/ disk'[j.op] = j.mem
              \/ disk'[j.op] = Torn /\ tears' > 0
           /\ \/ pc' = s /\ job' = j /\ disk'[j.op] = j.mem /\ candidate' = candidate
              \/ pc' = e /\ Like(job', k) /\ candidate' = candidate
              \/ pc' = "down" /\ job' = NoJob /\ candidate' = FALSE
<1> DEFINE to(r) == disk' = [disk EXCEPT ![j.op] = r]
           lost == [k EXCEPT !.stale = TRUE]
<1>1. Like(lost, k) /\ Like(k, k)
  BY DEF Like, JobType
<1>2. j.mem \in JournalType /\ disk \in [Ops -> JournalType] /\ Torn \in JournalType
  BY Basics DEF JobType, TypeOK
<1>3. ASSUME NEW r \in JournalType, to(r)
      PROVE  /\ disk' \in [Ops -> JournalType] /\ disk'[j.op] = r
             /\ \A o \in Ops \ {j.op} : disk'[o] = disk[o]
  BY <1>2, <1>3
<1>4. disk[j.op] \in JournalType
  BY <1>2
<1> HIDE DEF lost
<1>5. CASE to(j.mem) /\ Go(s, j) /\ Sound /\ UNCHANGED candidate
  BY <1>5, <1>2, <1>3, SoundCounts DEF Go
<1>6. CASE to(disk[j.op]) /\ Go(e, k) /\ (Sound \/ Faulty) /\ UNCHANGED candidate
  BY <1>6, <1>1, <1>3, <1>4, SoundCounts DEF Go
<1>7. CASE to(j.mem) /\ Go(e, lost) /\ Faulty /\ UNCHANGED candidate
  BY <1>7, <1>1, <1>2, <1>3, SoundCounts DEF Go
<1>8. CASE /\ tears' = tears + 1 /\ to(Torn) /\ UNCHANGED <<edits, faults>>
           /\ \/ Go(e, lost) /\ UNCHANGED <<candidate, stops>>
              \/ /\ stops' = stops + 1
                 /\ Go("down", NoJob) /\ candidate' = FALSE
  <2>1. Counted /\ tears' > 0
    BY <1>8 DEF Counted, TypeOK
  <2> QED
    BY <1>8, <2>1, <1>1, <1>2, <1>3 DEF Go
<1> QED
  BY <1>5, <1>6, <1>7, <1>8 DEF writePromotionJournal, lost

\* A step that writes no file, no journal and no report.
LEMMA FilesKept ==
    ASSUME TypeOK, FilesOK, UNCHANGED <<tree, author, disk, outcome, completed>>,
           marked' \subseteq marked, \A o \in Ops : images[o] \subseteq images'[o],
           tears <= tears', tears' \in Nat
    PROVE  FilesOK'
<1>1. Intact' => Intact
  BY DEF Intact, TypeOK
<1>2. Named' /\ Gone' /\ AuthorOK' /\ DoneOnDisk'
  BY DEF FilesOK, Named, Gone, AuthorOK, DoneOnDisk
<1>3. Readable' /\ Held'
  BY <1>1 DEF FilesOK, Readable, Held
<1>4. ReportsOK' /\ FailedLeavesNothing'
  BY DEF FilesOK, ReportsOK, FailedLeavesNothing
<1> QED
  BY <1>2, <1>3, <1>4 DEF FilesOK

\* A journal that covers the promotion's files may replace the one on disk.
LEMMA JournalWritten ==
    ASSUME TypeOK, FilesOK, UNCHANGED <<tree, author, outcome, completed, marked>>,
           \A o \in Ops : images[o] \subseteq images'[o],
           tears <= tears', tears' \in Nat,
           NEW o \in Ops, NEW m \in JournalType,
           disk' \in [Ops -> JournalType],
           \A q \in Ops \ {o} : disk'[q] = disk[q],
           \/ disk'[o] = disk[o]
           \/ disk'[o] = m
           \/ disk'[o] = Torn /\ tears' > 0,
           m.phase \notin {"none", "torn", "done"},
           \A p \in Paths : author[p] = o =>
               /\ p \in DOMAIN m.paths /\ m.paths[p] # Target[p]
               /\ m.phase \in {"applying", "applied", "conflict"}
               /\ m.paths[p] # Missing => p \in images'[o]
    PROVE  FilesOK'
<1>1. (Intact' => Intact) /\ (Intact' => ~(disk'[o] = Torn /\ tears' > 0))
  BY DEF Intact, TypeOK
<1>2. Torn.phase = "torn"
  BY Basics
<1>3. Named'
  BY <1>2 DEF FilesOK, Named
<1>4. Gone' /\ AuthorOK' /\ DoneOnDisk'
  BY <1>2 DEF FilesOK, Gone, AuthorOK, DoneOnDisk
<1>5. Readable'
  BY <1>1 DEF FilesOK, Readable
<1>6. Held'
  BY <1>1 DEF FilesOK, Held
<1>7. ReportsOK' /\ FailedLeavesNothing'
  BY DEF FilesOK, ReportsOK, FailedLeavesNothing
<1> QED
  BY <1>3, <1>4, <1>5, <1>6, <1>7 DEF FilesOK

LEMMA AtRest ==
    ASSUME job' = NoJob, pc' \in Resting
    PROVE  StepOK'
<1>1. job'.op = User /\ ~job'.live /\ User \notin Ops
  BY Basics
<1>2. pc' \notin {"rollback", "restore", "swap", "reread"}
  BY DEF Resting
<1> QED
  BY <1>1, <1>2
  DEF StepOK, JobOK, LiveOK, PlanOK, RecoveryOK, RollbackOK, Live, Rolling, Resting

LEMMA DownOK ==
    ASSUME job' = NoJob, pc' = "down", candidate' = FALSE
    PROVE  StepOK' /\ OrderOK'
BY AtRest, Basics DEF Live, OrderOK, Unsettled, Unstarted, Resting

\* The live job goes on: what the other promotions are owed does not change.
LEMMA GoesOn ==
    ASSUME IInv, Live, job'.op = job.op, job'.live, pc' \in LiveSteps,
           UNCHANGED todo, candidate' => candidate, tears <= tears', tears' \in Nat,
           \A q \in Ops \ {job.op} : outcome'[q] = outcome[q],
           \A p \in Paths : author'[p] \in {author[p], job.op, User},
           \A q \in Ops \ {job.op} : disk'[q] = disk[q]
    PROVE  JobOK' /\ RecoveryOK' /\ OrderOK' /\ job.op \in Ops
<1>1. job.op \in Ops
  BY Basics DEF IInv, StepOK, JobOK, Live
<1>2. JobOK' /\ RecoveryOK'
  BY <1>1 DEF JobOK, RecoveryOK, Live, LiveSteps
<1>3. Intact' => Intact
  BY DEF Intact, IInv, TypeOK
<1>4. pc # "down"
  BY <1>1, Basics DEF IInv, StepOK, JobOK
<1>5. OrderOK'
  BY <1>1, <1>3, <1>4, Basics DEF IInv, OrderOK, Unsettled, Unstarted, Live, LiveSteps
<1> QED
  BY <1>1, <1>2, <1>5

\* A save of a live promotion before its commit point.
LEMMA SaveKeeps ==
    ASSUME IInv, Live, NEW j \in JobType, j.op = job.op, j.live,
           NEW k \in JobType, k.op = job.op, k.live,
           NEW s \in LiveSteps, NEW e \in LiveSteps,
           writePromotionJournal(j, s, e, k),
           UNCHANGED <<files, retired, sess, reports, todo>>,
           images' \in [Ops -> SUBSET Paths],
           \A q \in Ops : images[q] \subseteq images'[q],
           j.mem.phase \notin {"none", "torn", "done"},
           \A p \in Paths : Mine(p) =>
               /\ p \in DOMAIN j.mem.paths /\ j.mem.paths[p] # Target[p]
               /\ j.mem.phase \in {"applying", "applied", "conflict"}
               /\ j.mem.paths[p] # Missing => p \in images'[job.op]
    PROVE  /\ TypeOK' /\ FilesOK' /\ OrderOK' /\ job.op \in Ops
           /\ \/ disk'[job.op] = disk[job.op]
              \/ disk'[job.op] = j.mem
              \/ disk'[job.op] = Torn
           /\ \/ StepOK'
              \/ /\ JobOK' /\ RecoveryOK'
                 /\ \/ pc' = s /\ job' = j /\ disk'[job.op] = j.mem
                    \/ pc' = e /\ Like(job', k)
<1>1. TypeOK /\ FilesOK /\ job.op \in Ops
  BY Basics DEF IInv, StepOK, JobOK, Live
<1>2. /\ disk' \in [Ops -> JournalType] /\ Counted
      /\ \A o \in Ops \ {job.op} : disk'[o] = disk[o]
      /\ \/ disk'[job.op] = disk[job.op]
         \/ disk'[job.op] = j.mem
         \/ disk'[job.op] = Torn /\ tears' > 0
      /\ \/ pc' = s /\ job' = j /\ disk'[job.op] = j.mem /\ candidate' = candidate
         \/ pc' = e /\ Like(job', k) /\ candidate' = candidate
         \/ pc' = "down" /\ job' = NoJob /\ candidate' = FALSE
  BY <1>1, SaveStep
<1>3. UNCHANGED <<tree, author, marked, outcome, completed, todo, retired, sess>>
  BY DEF files, reports
<1>4. TypeOK'
  BY <1>1, <1>2, <1>3, Basics DEF TypeOK, Counted, Like
<1>5. FilesOK'
  <2>1. j.mem \in JournalType
    BY DEF JobType
  <2> QED
    BY <1>1, <1>2, <1>3, <2>1, JournalWritten DEF Counted, Mine
<1>6. CASE pc' = "down" /\ job' = NoJob /\ candidate' = FALSE
  BY <1>1, <1>2, <1>4, <1>5, <1>6, DownOK
<1>7. CASE \/ pc' = s /\ job' = j /\ disk'[job.op] = j.mem /\ candidate' = candidate
           \/ pc' = e /\ Like(job', k) /\ candidate' = candidate
  <2>1. job'.op = job.op /\ job'.live /\ pc' \in LiveSteps /\ candidate' = candidate
    BY <1>7 DEF Like
  <2>2. JobOK' /\ RecoveryOK' /\ OrderOK'
    BY <1>2, <1>3, <2>1, GoesOn DEF Counted
  <2> QED
    BY <1>1, <1>2, <1>4, <1>5, <1>7, <2>2
<1> QED
  BY <1>2, <1>6, <1>7

\* The same for a step of a live promotion that writes no journal.
LEMMA StepKeeps ==
    ASSUME IInv, Live, NEW j \in JobType, j.op = job.op, j.live,
           NEW s \in LiveSteps, pc' = s, job' = j,
           UNCHANGED <<files, disk, retired, reports, candidate, todo>>,
           sess' \in [Ops -> {"none", "forked", "installed", "used"}],
           images' \in [Ops -> SUBSET Paths],
           \A q \in Ops : images[q] \subseteq images'[q], Sound \/ Faulty
    PROVE  TypeOK' /\ FilesOK' /\ OrderOK' /\ JobOK' /\ RecoveryOK' /\ job.op \in Ops
<1>1. TypeOK /\ FilesOK /\ job.op \in Ops
  BY Basics DEF IInv, StepOK, JobOK, Live
<1>2. Counted
  BY <1>1, SoundCounts
<1>3. UNCHANGED <<tree, author, marked, outcome, completed, disk, candidate, todo, retired>>
  BY DEF files, reports
<1>4. TypeOK'
  BY <1>1, <1>2, <1>3 DEF TypeOK, Counted
<1>5. FilesOK'
  BY <1>1, <1>2, <1>3, FilesKept DEF Counted
<1>6. JobOK' /\ RecoveryOK' /\ OrderOK'
  BY <1>2, <1>3, GoesOn DEF Counted
<1> QED
  BY <1>1, <1>4, <1>5, <1>6

-----------------------------------------------------------------------------
(* Every action keeps the invariant.                                       *)

LEMMA BeginOK ==
    ASSUME IInv, NEW o \in Ops, Begin(o)
    PROVE  IInv'
<1> DEFINE j == [NoJob EXCEPT !.op = o, !.mem = Fresh, !.live = TRUE]
<1>1. /\ j \in JobType /\ j.op = o /\ j.mem = Fresh /\ j.live /\ ~j.conflict
      /\ writePromotionJournal(j, "capture", "catch", j)
  BY Basics DEF Begin, Saves, NoJob, JobType
<1> HIDE DEF j
<1>2. TypeOK /\ FilesOK /\ StepOK /\ OrderOK
  BY DEF IInv
<1>3. /\ disk[o] = None /\ \A p \in Paths : author[p] # o
      /\ outcome[o] = "none" /\ pc = "idle" /\ candidate
      /\ job.op = User
  BY <1>2, Basics DEF Begin, At, OrderOK, Unstarted, StepOK, JobOK
<1>4. UNCHANGED <<tree, author, marked, images, retired, sess, outcome, completed, todo>>
  BY DEF Begin, files, evidence, reports
<1>5. /\ disk' \in [Ops -> JournalType] /\ Counted
      /\ \A q \in Ops \ {o} : disk'[q] = disk[q]
      /\ \/ disk'[o] = disk[o]
         \/ disk'[o] = Fresh
         \/ disk'[o] = Torn /\ tears' > 0
      /\ \/ pc' = "capture" /\ job' = j /\ disk'[o] = Fresh /\ candidate' = candidate
         \/ pc' = "catch" /\ Like(job', j) /\ candidate' = candidate
         \/ pc' = "down" /\ job' = NoJob /\ candidate' = FALSE
  BY <1>1, <1>2, SaveStep
<1>6. TypeOK'
  BY <1>1, <1>2, <1>4, <1>5, Basics DEF TypeOK, Counted, Like, LiveSteps
<1>7. FilesOK'
  BY <1>2, <1>3, <1>4, <1>5, Basics, JournalWritten DEF Counted
<1>8. CASE pc' = "down" /\ job' = NoJob /\ candidate' = FALSE
  BY <1>6, <1>7, <1>8, DownOK DEF IInv
<1>9. CASE pc' \in {"capture", "catch"} /\ Like(job', j) /\ candidate' = candidate
  <2>1. job'.op = o /\ job'.mem = Fresh /\ job'.live /\ ~job'.conflict
    BY <1>1, <1>9 DEF Like
  <2>2. JobOK' /\ RecoveryOK' /\ RollbackOK'
    BY <1>9, <2>1 DEF JobOK, RecoveryOK, RollbackOK, Live, Rolling, LiveSteps
  <2>3. LiveOK'
    BY <1>3, <1>4, <1>5, <1>9, <2>1, Basics DEF LiveOK, Live, Mine, Early, Applying
  <2>4. PlanOK'
    BY <1>9, <2>1, Basics DEF PlanOK, Live, Applying, Installed
  <2>5. Unsettled'
    <3>1. Intact' => Intact
      BY <1>2, <1>5 DEF Intact, TypeOK, Counted
    <3> QED
      BY Basics, <1>2, <1>3, <1>4, <1>5, <1>9, <3>1 DEF OrderOK, Unsettled
  <2>6. Unstarted'
    BY <1>2, <1>3, <1>4, <1>5, <1>9, <2>1, Basics DEF OrderOK, Unstarted, Live
  <2> QED
    BY <1>6, <1>7, <2>2, <2>3, <2>4, <2>5, <2>6 DEF IInv, StepOK, OrderOK
<1> QED
  BY <1>1, <1>5, <1>8, <1>9 DEF Like

LEMMA LiveAt ==
    ASSUME IInv, pc \in LiveSteps \ {"rollback", "restore", "swap", "reread"}
    PROVE  Live /\ job.op \in Ops /\ TypeOK /\ LiveOK /\ PlanOK /\ job.mem \in JournalType
BY DEF IInv, StepOK, JobOK, Rolling, LiveSteps, TypeOK, JobType

LEMMA CaptureOK ==
    ASSUME IInv, Capture
    PROVE  IInv'
<1>1. pc = "capture" /\ Live /\ job.op \in Ops /\ TypeOK /\ LiveOK /\ PlanOK
  BY LiveAt DEF Capture, At, LiveSteps
<1> DEFINE j == [job EXCEPT !.plan = Touched, !.left = Touched]
<1>2. /\ j \in JobType /\ j.op = job.op /\ j.mem = job.mem /\ j.live
      /\ j.conflict = job.conflict /\ j.left = Touched /\ j.plan = Touched
  BY <1>1 DEF TypeOK, JobType, Touched, Live
<1> HIDE DEF j
<1>3. PICK k \in JobType, s \in {"gather", "fail", "catch"} :
          /\ pc' = s /\ job' = k /\ k.op = job.op /\ k.mem = job.mem /\ k.live
          /\ s = "gather" => k.left = k.plan
          /\ Sound \/ Faulty
  <2>1. job \in JobType
    BY <1>1 DEF TypeOK
  <2>2. CASE Sound /\ Go("gather", j)
    BY <2>2, <1>2 DEF Go
  <2>3. CASE Go("fail", job) /\ Sound
    BY <2>1, <2>3, <1>1 DEF Go, Live
  <2>4. CASE Go("catch", job) /\ Faulty
    BY <2>1, <2>4, <1>1 DEF Go, Live
  <2> QED
    BY <2>2, <2>3, <2>4 DEF Capture, j
<1>4. UNCHANGED <<files, disk, evidence, reports, candidate, todo>>
  BY DEF Capture
<1>5. UNCHANGED <<images, retired, sess, author, outcome, disk>>
  BY <1>4 DEF evidence, files, reports
<1>6. TypeOK' /\ FilesOK' /\ OrderOK' /\ JobOK' /\ RecoveryOK'
  <2>1. s \in LiveSteps
    BY DEF LiveSteps
  <2> QED
    BY <1>1, <1>3, <1>4, <1>5, <2>1, StepKeeps DEF TypeOK
<1>7. LiveOK'
  BY <1>1, <1>3, <1>5 DEF LiveOK, Live, Mine, Early, Applying
<1>8. RollbackOK'
  BY <1>3 DEF RollbackOK, Rolling
<1>9. PlanOK'
  BY <1>1, <1>3 DEF PlanOK, LiveOK, Live, Applying, Installed
<1> QED
  BY <1>6, <1>7, <1>8, <1>9 DEF IInv, StepOK

\* Saving the journal before the first file is installed.
LEMMA EarlySave ==
    ASSUME IInv, Live, Early, NEW j \in JobType, j.op = job.op, j.live,
           NEW s \in {"gather", "stage", "verify", "apply", "catch"},
           NEW e \in {"spill", "catch"},
           writePromotionJournal(j, s, e, j),
           UNCHANGED <<files, retired, sess, reports, todo>>,
           images' \in [Ops -> SUBSET Paths],
           \A q \in Ops : images[q] \subseteq images'[q],
           j.mem.phase \in {"prepared", "applying", "applied", "conflict"},
           DOMAIN disk[job.op].paths \subseteq DOMAIN j.mem.paths,
           \A p \in DOMAIN j.mem.paths :
               j.mem.paths[p] # Missing => p \in images'[job.op]
    PROVE  /\ PlanOK' => IInv'
           /\ \/ PlanOK'
              \/ pc' = s /\ job' = j /\ disk'[job.op] = j.mem
              \/ pc' = e /\ Like(job', j)
<1>1. TypeOK /\ job.op \in Ops /\ LiveOK /\ \A p \in Paths : ~Mine(p)
  BY Basics DEF IInv, StepOK, JobOK, LiveOK, Live
<1>2. s \in LiveSteps /\ e \in LiveSteps
  BY DEF LiveSteps
<1>3. /\ TypeOK' /\ FilesOK' /\ OrderOK'
      /\ \/ disk'[job.op] = disk[job.op]
         \/ disk'[job.op] = j.mem
         \/ disk'[job.op] = Torn
      /\ \/ StepOK'
         \/ /\ JobOK' /\ RecoveryOK'
            /\ \/ pc' = s /\ job' = j /\ disk'[job.op] = j.mem
               \/ pc' = e /\ Like(job', j)
  BY <1>1, <1>2, SaveKeeps
<1>4. CASE StepOK'
  BY <1>3, <1>4 DEF StepOK, IInv
<1>5. ASSUME JobOK', RecoveryOK',
             \/ pc' = s /\ job' = j /\ disk'[job.op] = j.mem
             \/ pc' = e /\ Like(job', j)
      PROVE  LiveOK' /\ RollbackOK'
  <2>1. /\ job'.op = job.op /\ job'.mem = j.mem /\ job'.live /\ pc' \in {s, e}
        /\ UNCHANGED <<author, outcome>>
    BY <1>5 DEF Like, files, reports
  <2>2. DOMAIN disk'[job.op].paths \subseteq DOMAIN j.mem.paths
    BY <1>3, Basics
  <2>3. LiveOK'
    BY <1>1, <2>1, <2>2 DEF LiveOK, Live, Mine, Early, Applying
  <2> QED
    BY <2>1, <2>3 DEF RollbackOK, Rolling
<1> QED
  BY <1>3, <1>4, <1>5 DEF IInv, StepOK

LEMMA EarlySaveSame ==
    ASSUME IInv, Live, Early, NEW j \in JobType, j.op = job.op, j.live,
           j.mem.paths = job.mem.paths,
           j.mem.phase \in {"prepared", "applying", "applied", "conflict"},
           NEW s \in {"gather", "stage", "verify", "apply", "catch"}, Saves(j, s),
           UNCHANGED <<files, evidence, reports, todo>>
    PROVE  /\ PlanOK' => IInv'
           /\ PlanOK' \/ (pc' = s /\ job' = j /\ disk'[job.op] = j.mem)
<1>1. TypeOK /\ LiveOK /\ job.op \in Ops
  BY Basics DEF IInv, StepOK, JobOK, Live
<1>2. /\ writePromotionJournal(j, s, "catch", j)
      /\ UNCHANGED <<files, retired, sess, reports, todo>> /\ images' = images
  BY DEF Saves, evidence
<1>3. /\ DOMAIN disk[job.op].paths \subseteq DOMAIN j.mem.paths
      /\ \A p \in DOMAIN j.mem.paths : j.mem.paths[p] # Missing => p \in images'[job.op]
      /\ images' \in [Ops -> SUBSET Paths]
      /\ \A q \in Ops : images[q] \subseteq images'[q]
  BY <1>1, <1>2 DEF LiveOK, TypeOK
<1>4. "catch" \in {"spill", "catch"}
  OBVIOUS
<1>5. /\ PlanOK' => IInv'
      /\ \/ PlanOK'
         \/ pc' = s /\ job' = j /\ disk'[job.op] = j.mem
         \/ pc' = "catch" /\ Like(job', j)
  BY <1>2, <1>3, <1>4, EarlySave
<1>6. ASSUME pc' = "catch", Like(job', j) PROVE PlanOK'
  BY <1>6 DEF Like, PlanOK, Live, Applying, Installed
<1> QED
  BY <1>5, <1>6

LEMMA GatherSpillOK == ASSUME IInv, GatherSpill PROVE IInv'
<1>1. /\ pc = "spill" /\ Live /\ LiveOK /\ Early /\ job \in JobType
      /\ job.live /\ job.mem \in JournalType
  BY LiveAt DEF GatherSpill, At, LiveSteps, Early, TypeOK, Live
<1>2. job.mem.phase \in {"prepared", "applying", "applied", "conflict"}
  BY <1>1 DEF LiveOK, JournalType, Phases
<1>3. Saves(job, "catch") /\ UNCHANGED <<files, evidence, reports, todo>>
  BY DEF GatherSpill
<1>4. /\ PlanOK' => IInv'
      /\ PlanOK' \/ (pc' = "catch" /\ job' = job)
  BY <1>1, <1>2, <1>3, EarlySaveSame
<1>5. ASSUME pc' = "catch", job' = job PROVE PlanOK'
  BY <1>2, <1>5 DEF PlanOK, Live, Applying, Installed
<1> QED
  BY <1>4, <1>5

LEMMA GatherDoneOK == ASSUME IInv, GatherDone PROVE IInv'
<1> DEFINE j == [job EXCEPT !.left = job.plan]
<1>1. /\ pc = "gather" /\ Live /\ LiveOK /\ PlanOK /\ Early /\ job \in JobType
      /\ job.mem \in JournalType /\ job.left = {}
  BY LiveAt DEF GatherDone, At, LiveSteps, Early, TypeOK
<1>2. /\ j \in JobType /\ j.op = job.op /\ j.live /\ j.mem = job.mem
      /\ j.plan = job.plan /\ j.left = job.plan
  BY <1>1 DEF JobType, Live
<1>3. Saves(j, "stage") /\ UNCHANGED <<files, evidence, reports, todo>>
  BY DEF GatherDone
<1> HIDE DEF j
<1>4. j.mem.phase \in {"prepared", "applying", "applied", "conflict"}
  BY <1>1, <1>2 DEF LiveOK, JournalType, Phases
<1>5. /\ PlanOK' => IInv'
      /\ PlanOK' \/ (pc' = "stage" /\ job' = j)
  BY <1>1, <1>2, <1>3, <1>4, EarlySaveSame
<1>6. ASSUME pc' = "stage", job' = j PROVE PlanOK'
  BY <1>1, <1>2, <1>3, <1>6 DEF PlanOK, Live, Applying, Installed, files, Same
<1> QED
  BY <1>5, <1>6

LEMMA StageOK == ASSUME IInv, Stage PROVE IInv'
<1> DEFINE j == [job EXCEPT !.mem.staged = TRUE]
<1>1. /\ pc = "stage" /\ Live /\ LiveOK /\ PlanOK /\ Early /\ job \in JobType /\ TypeOK
      /\ job.mem \in JournalType /\ job.live
  BY LiveAt DEF Stage, At, LiveSteps, Early, TypeOK, Live
<1>2. /\ j \in JobType /\ j.op = job.op /\ j.live /\ j.mem.paths = job.mem.paths
      /\ j.mem.phase = job.mem.phase /\ j.plan = job.plan
  BY <1>1 DEF JobType, Live, JournalType
<1>3. UNCHANGED <<files, evidence, reports, todo>>
  BY DEF Stage
<1>4. CASE Saves(j, "verify")
  <2> HIDE DEF j
  <2>1. j.mem.phase \in {"prepared", "applying", "applied", "conflict"}
    BY <1>1, <1>2 DEF LiveOK, JournalType, Phases
  <2>2. /\ PlanOK' => IInv'
        /\ PlanOK' \/ (pc' = "verify" /\ job' = j)
    BY <1>1, <1>2, <1>3, <1>4, <2>1, EarlySaveSame
  <2>3. ASSUME pc' = "verify", job' = j PROVE PlanOK'
    BY <1>1, <1>2, <1>3, <2>3 DEF PlanOK, Live, Applying, Installed, files, Same
  <2> QED
    BY <2>2, <2>3
<1>5. ASSUME NEW s \in {"uncertain", "catch"}, Go(s, job), Faulty, UNCHANGED <<disk, candidate>>
      PROVE  IInv'
  <2>1. pc' = s /\ job' = job /\ s \in LiveSteps
    BY <1>5 DEF Go, LiveSteps
  <2>2. UNCHANGED <<images, retired, sess, author, outcome, disk>>
    BY <1>3, <1>5 DEF evidence, files, reports
  <2>3. TypeOK' /\ FilesOK' /\ OrderOK' /\ JobOK' /\ RecoveryOK'
    BY <1>1, <1>3, <1>5, <2>1, <2>2, StepKeeps DEF TypeOK
  <2>4. LiveOK'
    BY <1>1, <2>1, <2>2 DEF LiveOK, Live, Mine, Early, Applying
  <2>5. PlanOK' /\ RollbackOK'
    BY <1>1, <2>1 DEF PlanOK, LiveOK, RollbackOK, Rolling, Applying, Installed
  <2> QED
    BY <2>3, <2>4, <2>5 DEF IInv, StepOK
<1> QED
  BY <1>4, <1>5 DEF Stage, j

\* Saving the journal once files may be installed: its paths stay the same.
LEMMA LateSave ==
    ASSUME IInv, Live, outcome[job.op] = "none",
           NEW j \in JobType, j.op = job.op, j.live,
           j.mem.paths = job.mem.paths,
           j.mem.phase \in {"prepared", "applying", "applied", "conflict"},
           \A p \in Paths : Mine(p) => j.mem.phase # "prepared",
           NEW k \in JobType, k.op = job.op, k.live, k.mem = j.mem,
           NEW s \in {"plan", "fork", "done", "catch", "restore", "report"},
           NEW e \in {"catch", "rollback", "report"},
           writePromotionJournal(j, s, e, k),
           UNCHANGED <<files, evidence, reports, todo>>
    PROVE  /\ PlanOK' /\ RollbackOK' => IInv'
           /\ \/ IInv'
              \/ pc' = s /\ job' = j /\ disk'[job.op] = j.mem
              \/ pc' = e /\ Like(job', k)
<1>1. TypeOK /\ LiveOK /\ job.op \in Ops
  BY Basics DEF IInv, StepOK, JobOK, Live
<1>2. s \in LiveSteps /\ e \in LiveSteps
  BY DEF LiveSteps
<1>3. UNCHANGED <<files, retired, sess, reports, todo>> /\ images' = images
  BY DEF evidence
<1>4. /\ images' \in [Ops -> SUBSET Paths]
      /\ \A q \in Ops : images[q] \subseteq images'[q]
  BY <1>1, <1>3 DEF TypeOK
<1>5. \A p \in Paths : Mine(p) =>
          /\ p \in DOMAIN j.mem.paths /\ j.mem.paths[p] # Target[p]
          /\ j.mem.phase \in {"applying", "applied", "conflict"}
          /\ j.mem.paths[p] # Missing => p \in images'[job.op]
  BY <1>1, <1>3 DEF LiveOK
<1>6. j.mem.phase \notin {"none", "torn", "done"}
  OBVIOUS
<1>7. /\ TypeOK' /\ FilesOK' /\ OrderOK'
      /\ \/ disk'[job.op] = disk[job.op]
         \/ disk'[job.op] = j.mem
         \/ disk'[job.op] = Torn
      /\ \/ StepOK'
         \/ /\ JobOK' /\ RecoveryOK'
            /\ \/ pc' = s /\ job' = j /\ disk'[job.op] = j.mem
               \/ pc' = e /\ Like(job', k)
  BY <1>2, <1>3, <1>4, <1>5, <1>6, SaveKeeps
<1>8. CASE StepOK'
  BY <1>7, <1>8 DEF IInv
<1>9. ASSUME JobOK', RecoveryOK',
             \/ pc' = s /\ job' = j /\ disk'[job.op] = j.mem
             \/ pc' = e /\ Like(job', k)
      PROVE  LiveOK'
  <2>1. /\ job'.op = job.op /\ job'.mem = j.mem /\ job'.live /\ pc' \in {s, e}
        /\ UNCHANGED <<author, outcome>>
    BY <1>9 DEF Like, files, reports
  <2>2. DOMAIN disk'[job.op].paths \subseteq DOMAIN j.mem.paths
    BY <1>1, <1>7, Basics DEF LiveOK
  <2>3. \A p \in Paths : Mine(p)' => Mine(p)
    BY <2>1 DEF Mine
  <2>4. ~Early' /\ ~Applying' /\ pc' # "remove"
    BY <2>1 DEF Early, Applying
  <2>5. \A p \in DOMAIN j.mem.paths : j.mem.paths[p] # Missing => p \in images'[job.op]
    BY <1>1, <1>3 DEF LiveOK
  <2> QED
    BY <1>1, <1>5, <2>1, <2>2, <2>3, <2>4, <2>5 DEF LiveOK, Live
<1> QED
  BY <1>7, <1>8, <1>9 DEF IInv, StepOK

\* The same when a save that fails ends in the catch.
LEMMA LateSaves ==
    ASSUME IInv, Live, outcome[job.op] = "none",
           NEW j \in JobType, j.op = job.op, j.live,
           j.mem.paths = job.mem.paths,
           j.mem.phase \in {"prepared", "applying", "applied", "conflict"},
           \A p \in Paths : Mine(p) => j.mem.phase # "prepared",
           NEW s \in {"plan", "fork", "done", "catch"},
           Saves(j, s),
           UNCHANGED <<files, evidence, reports, todo>>
    PROVE  /\ PlanOK' => IInv'
           /\ PlanOK' \/ (pc' = s /\ job' = j)
<1>1. writePromotionJournal(j, s, "catch", j)
  BY DEF Saves
<1>2. "catch" \in {"catch", "rollback", "report"}
      /\ s \in {"plan", "fork", "done", "catch", "restore", "report"}
  OBVIOUS
<1>3. /\ PlanOK' /\ RollbackOK' => IInv'
      /\ \/ IInv'
         \/ pc' = s /\ job' = j
         \/ pc' = "catch" /\ Like(job', j)
  BY <1>1, <1>2, LateSave
<1>4. ASSUME pc' \in {s, "catch"} PROVE RollbackOK'
  BY <1>4 DEF RollbackOK, Rolling
<1>5. ASSUME pc' = "catch", Like(job', j) PROVE PlanOK'
  BY <1>5 DEF Like, PlanOK, Live, Applying, Installed
<1>6. IInv' => PlanOK'
  BY DEF IInv, StepOK
<1> QED
  BY <1>3, <1>4, <1>5, <1>6

LEMMA UncertainOK == ASSUME IInv, Uncertain PROVE IInv'
<1> DEFINE j == [job EXCEPT !.mem.uncertain = TRUE]
<1>1. /\ pc = "uncertain" /\ Live /\ LiveOK /\ job \in JobType
      /\ job.mem \in JournalType /\ job.live
  BY LiveAt DEF Uncertain, At, LiveSteps, TypeOK, Live
<1>2. /\ j \in JobType /\ j.op = job.op /\ j.live /\ j.mem.paths = job.mem.paths
      /\ j.mem.phase = job.mem.phase
  BY <1>1 DEF JobType, JournalType
<1>3. Saves(j, "catch") /\ UNCHANGED <<files, evidence, reports, todo>>
  BY DEF Uncertain
<1> HIDE DEF j
<1>4. /\ j.mem.phase \in {"prepared", "applying", "applied", "conflict"}
      /\ \A p \in Paths : Mine(p) => j.mem.phase # "prepared"
      /\ outcome[job.op] = "none"
  BY <1>1, <1>2 DEF LiveOK, JournalType, Phases
<1>5. /\ PlanOK' => IInv'
      /\ PlanOK' \/ (pc' = "catch" /\ job' = j)
  BY <1>1, <1>2, <1>3, <1>4, LateSaves
<1>6. ASSUME pc' = "catch", job' = j PROVE PlanOK'
  BY <1>4, <1>6 DEF PlanOK, Live, Applying, Installed
<1> QED
  BY <1>5, <1>6

LEMMA PastType ==
    ASSUME TypeOK, NEW p
    PROVE  /\ Like(Past(job, p), Past(job, p)) /\ Past(job, p).op = job.op
           /\ Past(job, p).mem = job.mem /\ Past(job, p).plan = job.plan
           /\ Past(job, p).left = job.left \ {p} /\ Past(job, p).live = job.live
           /\ Past(job, p).conflict = job.conflict
BY DEF TypeOK, JobType, Past, Like

LEMMA FirstIsOne ==
    ASSUME NEW p \in Paths, NEW q \in Paths, Precedes(p, q), Precedes(q, p)
    PROVE  p = q
<1>1. IsWrite(p) <=> IsWrite(q)
  BY DEF Precedes, IsDelete
<1>2. PICK i \in DOMAIN Order, j \in DOMAIN Order : i <= j /\ Order[i] = p /\ Order[j] = q
  BY <1>1 DEF Precedes, IsDelete
<1>3. PICK k \in DOMAIN Order, l \in DOMAIN Order : k <= l /\ Order[k] = q /\ Order[l] = p
  BY <1>1 DEF Precedes, IsDelete
<1>4. i = l /\ j = k
  BY <1>2, <1>3, TreeAssumption
<1>5. i \in Nat /\ j \in Nat
  BY TreeAssumption
<1> QED
  BY <1>2, <1>3, <1>4, <1>5

LEMMA CurrentIsLeft ==
    ASSUME TypeOK, NEW p \in Current
    PROVE  p \in job.left /\ p \in Paths
BY DEF Current, TypeOK, JobType

LEMMA GatherOK == ASSUME IInv, Gather PROVE IInv'
<1>1. /\ pc = "gather" /\ Live /\ LiveOK /\ PlanOK /\ Early /\ job \in JobType /\ TypeOK
      /\ job.mem \in JournalType /\ job.live /\ job.op \in Ops
  BY LiveAt DEF Gather, At, LiveSteps, Early, TypeOK, Live
<1>2. UNCHANGED <<files, retired, sess, reports, todo>> /\ UNCHANGED <<author, tree, outcome>>
  BY DEF Gather, files, reports
<1>3. PICK p \in Current :
          LET j == [Past(job, p) EXCEPT !.mem.paths = Recorded(@, p)]
          IN  \/ /\ images' = IF tree[p] = Missing THEN images
                              ELSE [images EXCEPT ![job.op] = @ \union {p}]
                 /\ IF Cardinality(j.plan \ j.left) % Checkpoint = 0
                    THEN writePromotionJournal(j, "gather", "spill", j)
                    ELSE Go("gather", j) /\ Sound /\ UNCHANGED <<disk, candidate>>
              \/ Go("spill", job) /\ Faulty /\ UNCHANGED <<images, disk, candidate>>
  BY DEF Gather
<1> DEFINE j == [Past(job, p) EXCEPT !.mem.paths = Recorded(@, p)]
           m == job.mem.paths
<1>4. p \in job.left /\ p \in Paths
  BY <1>1, CurrentIsLeft
<1>5. /\ m \in PathStates /\ Recorded(m, p) \in PathStates
      /\ DOMAIN Recorded(m, p) = DOMAIN m \union {p}
      /\ Recorded(m, p)[p] = tree[p]
      /\ \A q \in DOMAIN m \ {p} : Recorded(m, p)[q] = m[q]
      /\ DOMAIN m \subseteq Paths
  BY <1>1, <1>4, RecordedType, PathStatesType DEF JournalType
<1>6. /\ j \in JobType /\ j.op = job.op /\ j.live /\ j.mem.paths = Recorded(m, p)
      /\ j.mem.phase = job.mem.phase /\ j.plan = job.plan /\ j.left = job.left \ {p}
      /\ j.conflict = job.conflict
  BY <1>1, <1>5 DEF Past, JobType, JournalType
<1> HIDE DEF j
<1>7. j.mem.phase \in {"prepared", "applying", "applied", "conflict"}
  BY <1>1, <1>6 DEF LiveOK, JournalType, Phases
<1>8. ASSUME pc' \in {"gather", "spill"}, Like(job', j) PROVE PlanOK'
  <2>1. job'.mem.paths = Recorded(m, p) /\ job'.plan = job.plan /\ job'.left = job.left \ {p}
        /\ job'.mem.phase = job.mem.phase
    BY <1>6, <1>8 DEF Like
  <2>2. DOMAIN Recorded(m, p) \union (job.left \ {p}) = job.plan
    BY <1>1, <1>4, <1>5 DEF PlanOK
  <2>3. \A q \in DOMAIN Recorded(m, p) :
            tree[q] = Recorded(m, p)[q] \/ tree[q] \in EditValues
    BY <1>1, <1>5 DEF PlanOK, Same
  <2> QED
    BY <1>2, <1>8, <2>1, <2>2, <2>3 DEF PlanOK, Applying, Installed, Same
<1>9. CASE /\ images' = IF tree[p] = Missing THEN images
                        ELSE [images EXCEPT ![job.op] = @ \union {p}]
           /\ \/ writePromotionJournal(j, "gather", "spill", j)
              \/ Go("gather", j) /\ Sound /\ UNCHANGED <<disk, candidate>>
  <2>1. /\ images' \in [Ops -> SUBSET Paths]
        /\ \A q \in Ops : images[q] \subseteq images'[q]
        /\ tree[p] # Missing => p \in images'[job.op]
    BY <1>1, <1>4, <1>9 DEF TypeOK
  <2>2. /\ DOMAIN disk[job.op].paths \subseteq DOMAIN j.mem.paths
        /\ \A q \in DOMAIN j.mem.paths : j.mem.paths[q] # Missing => q \in images'[job.op]
    BY <1>1, <1>5, <1>6, <2>1 DEF LiveOK
  <2>3. CASE writePromotionJournal(j, "gather", "spill", j)
    <3>1. /\ "gather" \in {"gather", "stage", "verify", "apply", "catch"}
          /\ "spill" \in {"spill", "catch"}
      OBVIOUS
    <3>2. /\ PlanOK' => IInv'
          /\ \/ PlanOK'
             \/ pc' = "gather" /\ job' = j /\ disk'[job.op] = j.mem
             \/ pc' = "spill" /\ Like(job', j)
      BY <1>1, <1>2, <1>6, <1>7, <2>1, <2>2, <2>3, <3>1, EarlySave
    <3>3. Like(j, j)
      BY <1>6 DEF Like
    <3> QED
      BY <3>2, <3>3, <1>8
  <2>4. CASE Go("gather", j) /\ Sound /\ UNCHANGED <<disk, candidate>>
    <3>1. pc' = "gather" /\ job' = j /\ Like(job', j) /\ "gather" \in LiveSteps
      BY <2>4, <1>6 DEF Go, Like, LiveSteps
    <3>2. UNCHANGED <<files, disk, retired, reports, candidate, todo>>
          /\ sess' \in [Ops -> {"none", "forked", "installed", "used"}]
      BY <1>1, <1>2, <2>4 DEF TypeOK
    <3>3. TypeOK' /\ FilesOK' /\ OrderOK' /\ JobOK' /\ RecoveryOK'
      BY <1>1, <1>6, <2>1, <2>4, <3>1, <3>2, StepKeeps
    <3>4. LiveOK'
      BY <1>1, <1>2, <1>6, <1>7, <2>2, <2>4, <3>1 DEF LiveOK, Live, Mine, Early, Applying
    <3>5. RollbackOK'
      BY <3>1 DEF RollbackOK, Rolling
    <3> QED
      BY <1>8, <3>1, <3>3, <3>4, <3>5 DEF IInv, StepOK
  <2> QED
    BY <1>9, <2>3, <2>4
<1>10. CASE Go("spill", job) /\ Faulty /\ UNCHANGED <<images, disk, candidate>>
  <2>1. pc' = "spill" /\ job' = job /\ "spill" \in LiveSteps
    BY <1>10 DEF Go, LiveSteps
  <2>2. UNCHANGED <<files, disk, retired, reports, candidate, todo>>
        /\ sess' \in [Ops -> {"none", "forked", "installed", "used"}]
        /\ images' \in [Ops -> SUBSET Paths]
        /\ \A q \in Ops : images[q] \subseteq images'[q]
    BY <1>1, <1>2, <1>10 DEF TypeOK
  <2>3. TypeOK' /\ FilesOK' /\ OrderOK' /\ JobOK' /\ RecoveryOK'
    BY <1>1, <1>10, <2>1, <2>2, StepKeeps
  <2>4. LiveOK'
    BY <1>1, <1>2, <1>10, <2>1 DEF LiveOK, Live, Mine, Early, Applying
  <2>5. PlanOK' /\ RollbackOK'
    BY <1>1, <1>2, <2>1 DEF PlanOK, RollbackOK, Rolling, Applying, Installed, Same
  <2> QED
    BY <2>3, <2>4, <2>5 DEF IInv, StepOK
<1> QED
  BY <1>3, <1>9, <1>10 DEF j

LEMMA VerifyOK == ASSUME IInv, Verify PROVE IInv'
<1>1. /\ pc = "verify" /\ Live /\ LiveOK /\ PlanOK /\ Early /\ job \in JobType /\ TypeOK
      /\ job.op \in Ops /\ job.live
  BY LiveAt DEF Verify, At, LiveSteps, Early, TypeOK, Live
<1>2. PICK p \in Current :
          IF tree[p] = job.mem.paths[p] THEN Go("verify", Past(job, p)) ELSE Go("fail", job)
  BY DEF Verify
<1>3. PICK k \in JobType, s \in {"verify", "fail"} :
          pc' = s /\ job' = k /\ k.op = job.op /\ k.live /\ k.mem = job.mem /\ k.plan = job.plan
  BY <1>1, <1>2, PastType DEF Go, Like
<1>4. /\ UNCHANGED <<files, disk, retired, reports, candidate, todo>> /\ Sound
      /\ UNCHANGED <<images, sess, author, tree, outcome>>
  BY DEF Verify, files, evidence, reports
<1>5. /\ sess' \in [Ops -> {"none", "forked", "installed", "used"}]
      /\ images' \in [Ops -> SUBSET Paths] /\ s \in LiveSteps
      /\ \A q \in Ops : images[q] \subseteq images'[q]
  BY <1>1, <1>4 DEF TypeOK, LiveSteps
<1>6. TypeOK' /\ FilesOK' /\ OrderOK' /\ JobOK' /\ RecoveryOK'
  BY <1>1, <1>3, <1>4, <1>5, StepKeeps
<1>7. LiveOK'
  BY <1>1, <1>3, <1>4 DEF LiveOK, Live, Mine, Early, Applying
<1>8. PlanOK' /\ RollbackOK'
  BY <1>1, <1>3, <1>4 DEF PlanOK, RollbackOK, Rolling, Applying, Installed, Same
<1> QED
  BY <1>6, <1>7, <1>8 DEF IInv, StepOK

LEMMA VerifyDoneOK == ASSUME IInv, VerifyDone PROVE IInv'
<1> DEFINE j == [job EXCEPT !.mem.phase = "applying", !.left = job.plan]
<1>1. /\ pc = "verify" /\ Live /\ LiveOK /\ PlanOK /\ Early /\ job \in JobType /\ TypeOK
      /\ job.op \in Ops /\ job.live /\ job.mem \in JournalType
  BY LiveAt DEF VerifyDone, At, LiveSteps, Early, TypeOK, Live
<1>2. /\ j \in JobType /\ j.op = job.op /\ j.live /\ j.mem.paths = job.mem.paths
      /\ j.mem.phase = "applying" /\ j.plan = job.plan /\ j.left = job.plan
  BY <1>1 DEF JobType, JournalType, Phases
<1>3. UNCHANGED <<files, evidence, reports, todo>> /\ UNCHANGED <<tree, sess>>
  BY DEF VerifyDone, files, evidence
<1>4. CASE Saves(j, "apply")
  <2> HIDE DEF j
  <2>1. /\ PlanOK' => IInv'
        /\ PlanOK' \/ (pc' = "apply" /\ job' = j /\ disk'[job.op] = j.mem)
    BY <1>1, <1>2, <1>3, <1>4, EarlySaveSame
  <2>2. ASSUME pc' = "apply", job' = j, disk'[job.op] = j.mem PROVE PlanOK'
    BY <1>1, <1>2, <1>3, <2>2 DEF PlanOK, Live, Applying, Installed, Same
  <2> QED
    BY <2>1, <2>2
<1>5. CASE Go("fail", job) /\ Sound /\ UNCHANGED <<disk, candidate>>
  <2>1. pc' = "fail" /\ job' = job /\ "fail" \in LiveSteps
    BY <1>5 DEF Go, LiveSteps
  <2>2. UNCHANGED <<images, retired, sess, author, outcome, disk>>
    BY <1>3, <1>5 DEF evidence, files, reports
  <2>3. TypeOK' /\ FilesOK' /\ OrderOK' /\ JobOK' /\ RecoveryOK'
    BY <1>1, <1>3, <1>5, <2>1, <2>2, StepKeeps DEF TypeOK
  <2>4. LiveOK'
    BY <1>1, <2>1, <2>2 DEF LiveOK, Live, Mine, Early, Applying
  <2>5. PlanOK' /\ RollbackOK'
    BY <1>1, <2>1 DEF PlanOK, LiveOK, RollbackOK, Rolling, Applying, Installed
  <2> QED
    BY <2>3, <2>4, <2>5 DEF IInv, StepOK
<1> QED
  BY <1>4, <1>5 DEF VerifyDone, j

LEMMA ApplyOK == ASSUME IInv, Apply PROVE IInv'
<1>1. /\ pc = "apply" /\ Live /\ LiveOK /\ PlanOK /\ Applying /\ job \in JobType /\ TypeOK
      /\ job.op \in Ops /\ job.live
  BY LiveAt DEF Apply, At, LiveSteps, Applying, TypeOK, Live
<1>2. PICK p \in Current :
          IF IsDelete(p) /\ job.mem.paths[p] = Missing THEN Go("apply", Past(job, p))
          ELSE IF tree[p] = job.mem.paths[p] THEN Go("install", job) ELSE Go("catch", job)
  BY DEF Apply
<1>3. p \in job.left
  BY <1>1, CurrentIsLeft
<1>4. PICK k \in JobType, s \in {"apply", "install", "catch"} :
          /\ pc' = s /\ job' = k /\ k.op = job.op /\ k.live /\ k.mem = job.mem /\ k.plan = job.plan
          /\ \/ k.left = job.left
             \/ /\ k.left = job.left \ {p}
                /\ Target[p] = Missing /\ job.mem.paths[p] = Missing
  BY <1>1, <1>2, PastType DEF Go, Like, IsDelete, IsWrite
<1>5. /\ UNCHANGED <<files, disk, retired, reports, candidate, todo>> /\ Sound
      /\ UNCHANGED <<images, sess, author, tree, outcome>>
  BY DEF Apply, files, evidence, reports
<1>6. /\ sess' \in [Ops -> {"none", "forked", "installed", "used"}]
      /\ images' \in [Ops -> SUBSET Paths] /\ s \in LiveSteps
      /\ \A q \in Ops : images[q] \subseteq images'[q]
  BY <1>1, <1>5 DEF TypeOK, LiveSteps
<1>7. TypeOK' /\ FilesOK' /\ OrderOK' /\ JobOK' /\ RecoveryOK'
  BY <1>1, <1>4, <1>5, <1>6, StepKeeps
<1>8. LiveOK'
  BY <1>1, <1>4, <1>5 DEF LiveOK, Live, Mine, Early, Applying
<1>9. Good(p) \/ k.left = job.left
  BY <1>1, <1>3, <1>4 DEF PlanOK, Same, Good
<1>10. PlanOK'
  BY <1>1, <1>4, <1>5, <1>9 DEF PlanOK, Live, Applying, Installed, Same, Good
<1>11. RollbackOK'
  BY <1>4 DEF RollbackOK, Rolling
<1> QED
  BY <1>7, <1>8, <1>10, <1>11 DEF IInv, StepOK

\* A file installed by the promotion the journal names.
LEMMA InstallKeeps ==
    ASSUME IInv, pc = "install", NEW p \in job.left,
           Write(p, Target[p], IF job.mem.paths[p] = Target[p] THEN author[p] ELSE job.op),
           UNCHANGED <<disk, evidence, reports, candidate, todo>>, Sound \/ Faulty,
           NEW k \in JobType, k.op = job.op, k.live, k.mem = job.mem, k.plan = job.plan,
           \/ pc' = "apply" /\ job' = k /\ k.left = job.left \ {p}
           \/ pc' = "catch" /\ job' = k
    PROVE  IInv'
<1>1. /\ Live /\ LiveOK /\ PlanOK /\ Applying /\ job \in JobType /\ TypeOK
      /\ job.op \in Ops /\ job.live /\ FilesOK /\ job.mem \in JournalType
  BY LiveAt DEF LiveSteps, Applying, TypeOK, Live, IInv
<1>2. /\ disk[job.op] = job.mem /\ job.mem.phase = "applying" /\ outcome[job.op] = "none"
      /\ p \in DOMAIN job.mem.paths /\ p \in Paths
  BY <1>1 DEF PlanOK, LiveOK, JobType
<1>3. /\ tree' \in [Paths -> Values] /\ author' \in [Paths -> Ops \union {User}]
      /\ marked' \subseteq marked
      /\ tree'[p] = Target[p] /\ \A q \in Paths \ {p} : tree'[q] = tree[q]
      /\ \A q \in Paths \ {p} : author'[q] = author[q]
      /\ author'[p] = IF job.mem.paths[p] = Target[p] THEN author[p] ELSE job.op
  BY <1>1, <1>2, TreeAssumption DEF Write, TypeOK, Values
<1>4. /\ Counted /\ (Intact' => Intact)
      /\ UNCHANGED <<images, retired, sess, outcome, completed, disk, candidate, todo>>
  BY <1>1, SoundCounts DEF Counted, Intact, TypeOK, evidence, reports
<1>5. TypeOK'
  BY <1>1, <1>3, <1>4 DEF TypeOK, Counted, LiveSteps
<1>6. FilesOK'
  <2>1. \A q \in Paths : author'[q] = author[q]
            \/ (q = p /\ author'[q] = job.op /\ job.mem.paths[p] # Target[p])
    BY <1>3
  <2>2. Named' /\ Gone'
    BY <1>1, <1>2, <1>4, <2>1 DEF FilesOK, Named, Gone
  <2>3. AuthorOK'
    BY <1>1, <1>3 DEF FilesOK, AuthorOK
  <2>4. DoneOnDisk' /\ Readable' /\ ReportsOK'
    BY <1>1, <1>3, <1>4 DEF FilesOK, DoneOnDisk, Readable, ReportsOK
  <2>5. Held'
    BY <1>1, <1>2, <1>4, <2>1 DEF FilesOK, Held, LiveOK
  <2>6. FailedLeavesNothing'
    BY <1>1, <1>2, <1>4, <2>1 DEF FilesOK, FailedLeavesNothing
  <2> QED
    BY <2>2, <2>3, <2>4, <2>5, <2>6 DEF FilesOK
<1>7. JobOK' /\ RecoveryOK' /\ OrderOK'
  <2>1. \A q \in Paths : author'[q] \in {author[q], job.op, User}
    BY <1>3
  <2>2. job'.op = job.op /\ job'.live /\ pc' \in LiveSteps
    BY DEF LiveSteps
  <2> QED
    BY <1>1, <1>4, <2>1, <2>2, GoesOn DEF Counted
<1>8. LiveOK'
  <2>1. \A q \in Paths : Mine(q)' =>
            Mine(q) \/ (q = p /\ job.mem.paths[p] # Target[p])
    BY <1>3 DEF Mine
  <2> QED
    BY <1>1, <1>2, <1>4, <2>1 DEF LiveOK, Live, Early, Applying
<1>9. PlanOK'
  <2>1. pc' = "catch" => PlanOK'
    BY <1>2 DEF PlanOK, Live, Applying, Installed
  <2>2. CASE pc' = "apply"
    <3>1. /\ job'.left = job.left \ {p} /\ job'.mem = job.mem /\ job'.plan = job.plan
          /\ job'.op = job.op
      BY <2>2
    <3>2. \A q \in Paths \ {p} : (Good(q) => Good(q)') /\ (Same(q) => Same(q)')
      BY <1>3, <3>1 DEF Good, Same
    <3>3. Good(p)'
      BY <1>3 DEF Good
    <3>4. DOMAIN job.mem.paths \subseteq Paths
      BY <1>1, PathStatesType DEF JournalType
    <3> QED
      BY <1>1, <1>2, <1>4, <2>2, <3>1, <3>2, <3>3, <3>4 DEF PlanOK, Applying, Installed
  <2> QED
    BY <2>1, <2>2
<1>10. RollbackOK'
  BY DEF RollbackOK, Rolling
<1> QED
  BY <1>5, <1>6, <1>7, <1>8, <1>9, <1>10 DEF IInv, StepOK

\* A live promotion goes on without touching the project or its journal.
LEMMA GoesOnQuietly ==
    ASSUME IInv, Live, TypeOK, job' = job, NEW s \in LiveSteps, pc' = s,
           UNCHANGED <<files, disk, images, retired, reports, candidate, todo>>,
           sess' \in [Ops -> {"none", "forked", "installed", "used"}],
           Sound \/ Faulty
    PROVE  /\ TypeOK' /\ FilesOK' /\ OrderOK' /\ JobOK' /\ RecoveryOK'
           /\ UNCHANGED <<tree, author, outcome, disk, images>>
<1>1. /\ images' \in [Ops -> SUBSET Paths] /\ \A q \in Ops : images[q] \subseteq images'[q]
      /\ job \in JobType /\ job.live
  BY DEF TypeOK, Live
<1>2. UNCHANGED <<files, disk, retired, reports, candidate, todo>>
  OBVIOUS
<1>3. TypeOK' /\ FilesOK' /\ OrderOK' /\ JobOK' /\ RecoveryOK'
  BY <1>1, <1>2, StepKeeps
<1> QED
  BY <1>3 DEF files, reports

LEMMA GivesUp ==
    ASSUME IInv, Live, outcome[job.op] = "none", job.mem.phase # "done",
           job' = job, pc' \in {"catch", "uncertain"},
           UNCHANGED <<files, disk, images, retired, reports, candidate, todo>>,
           sess' \in [Ops -> {"none", "forked", "installed", "used"}],
           Sound \/ Faulty
    PROVE  IInv'
<1>1. TypeOK /\ LiveOK /\ pc' \in LiveSteps
  BY DEF IInv, StepOK, LiveSteps
<1>2. /\ TypeOK' /\ FilesOK' /\ OrderOK' /\ JobOK' /\ RecoveryOK'
      /\ UNCHANGED <<tree, author, outcome, disk, images>>
  BY <1>1, GoesOnQuietly
<1>3. LiveOK'
  BY <1>1, <1>2 DEF LiveOK, Live, Mine, Early, Applying
<1>4. PlanOK' /\ RollbackOK'
  BY DEF PlanOK, RollbackOK, Rolling, Applying, Installed
<1> QED
  BY <1>2, <1>3, <1>4 DEF IInv, StepOK

LEMMA InstallOK == ASSUME IInv, Install PROVE IInv'
<1>1. /\ pc = "install" /\ Live /\ LiveOK /\ PlanOK /\ Applying /\ job \in JobType /\ TypeOK
      /\ job.op \in Ops /\ job.live
  BY LiveAt DEF Install, At, LiveSteps, Applying, TypeOK, Live
<1>2. PICK p \in Current :
          \/ /\ Write(p, Target[p], IF job.mem.paths[p] = Target[p] THEN author[p] ELSE job.op)
             /\ \/ Sound /\ (Go("apply", Past(job, p)) \/ Go("catch", job))
                \/ Faulty /\ Go("catch", job)
          \/ UNCHANGED files /\ (Sound \/ Faulty) /\ Go("catch", job)
  BY DEF Install
<1>3. p \in job.left
  BY <1>1, CurrentIsLeft
<1>4. UNCHANGED <<disk, evidence, reports, candidate, todo>>
  BY DEF Install
<1>5. CASE /\ Write(p, Target[p], IF job.mem.paths[p] = Target[p] THEN author[p] ELSE job.op)
           /\ Sound /\ Go("apply", Past(job, p))
  <2> DEFINE k == Past(job, p)
  <2>1. /\ k \in JobType /\ k.op = job.op /\ k.live /\ k.mem = job.mem /\ k.plan = job.plan
        /\ k.left = job.left \ {p}
    BY <1>1, PastType DEF Like
  <2>2. pc' = "apply" /\ job' = k
    BY <1>5 DEF Go
  <2> HIDE DEF k
  <2> QED
    BY <1>1, <1>3, <1>4, <1>5, <2>1, <2>2, InstallKeeps
<1>6. CASE /\ Write(p, Target[p], IF job.mem.paths[p] = Target[p] THEN author[p] ELSE job.op)
           /\ (Sound \/ Faulty) /\ Go("catch", job)
  BY <1>1, <1>3, <1>4, <1>6, InstallKeeps DEF Go
<1>7. CASE UNCHANGED files /\ (Sound \/ Faulty) /\ Go("catch", job)
  <2>1. /\ UNCHANGED <<files, disk, images, retired, reports, candidate, todo>>
        /\ sess' \in [Ops -> {"none", "forked", "installed", "used"}]
    BY <1>1, <1>4, <1>7 DEF evidence, TypeOK
  <2>2. job.mem.phase # "done" /\ job' = job /\ pc' \in {"catch", "uncertain"}
        /\ outcome[job.op] = "none"
    BY <1>1, <1>7 DEF PlanOK, LiveOK, Go
  <2> QED
    BY <1>1, <1>7, <2>1, <2>2, GivesUp
<1> QED
  BY <1>2, <1>5, <1>6, <1>7

LEMMA ApplyDoneOK == ASSUME IInv, ApplyDone PROVE IInv'
<1> DEFINE j == [job EXCEPT !.mem.phase = "applied"]
<1>1. /\ pc = "apply" /\ Live /\ LiveOK /\ PlanOK /\ Applying /\ job \in JobType /\ TypeOK
      /\ job.op \in Ops /\ job.live /\ job.mem \in JournalType /\ job.left = {}
  BY LiveAt DEF ApplyDone, At, LiveSteps, Applying, TypeOK, Live
<1>2. /\ j \in JobType /\ j.op = job.op /\ j.live /\ j.mem.paths = job.mem.paths
      /\ j.mem.phase = "applied"
  BY <1>1 DEF JobType, JournalType, Phases
<1>3. Saves(j, "plan") /\ UNCHANGED <<files, evidence, reports, todo>> /\ UNCHANGED tree
  BY DEF ApplyDone, files
<1> HIDE DEF j
<1>6. outcome[job.op] = "none"
  BY <1>1 DEF LiveOK
<1>4. /\ PlanOK' => IInv'
      /\ PlanOK' \/ (pc' = "plan" /\ job' = j)
  BY <1>1, <1>2, <1>3, <1>6, LateSaves
<1>5. ASSUME pc' = "plan", job' = j PROVE PlanOK'
  BY <1>1, <1>2, <1>3, <1>5 DEF PlanOK, Live, Applying, Installed, Good
<1> QED
  BY <1>4, <1>5

LEMMA PlanSessionOK == ASSUME IInv, PlanSession PROVE IInv'
<1> DEFINE j == [job EXCEPT !.mem.planned = TRUE]
<1>1. /\ pc = "plan" /\ Live /\ LiveOK /\ PlanOK /\ Installed /\ job \in JobType
      /\ job.live /\ job.mem \in JournalType
  BY LiveAt DEF PlanSession, At, LiveSteps, Installed, TypeOK, Live
<1>2. /\ j \in JobType /\ j.op = job.op /\ j.live /\ j.mem.paths = job.mem.paths
      /\ j.mem.phase = job.mem.phase
  BY <1>1 DEF JobType, JournalType
<1>3. Saves(j, "fork") /\ UNCHANGED <<files, evidence, reports, todo>> /\ UNCHANGED tree
  BY DEF PlanSession, files
<1> HIDE DEF j
<1>4. /\ j.mem.phase \in {"prepared", "applying", "applied", "conflict"}
      /\ \A p \in Paths : Mine(p) => j.mem.phase # "prepared"
      /\ outcome[job.op] = "none"
  BY <1>1, <1>2 DEF LiveOK, JournalType, Phases
<1>5. /\ PlanOK' => IInv'
      /\ PlanOK' \/ (pc' = "fork" /\ job' = j)
  BY <1>1, <1>2, <1>3, <1>4, LateSaves
<1>6. ASSUME pc' = "fork", job' = j PROVE PlanOK'
  BY <1>1, <1>2, <1>3, <1>4, <1>6 DEF PlanOK, Live, Applying, Installed, Good
<1> QED
  BY <1>5, <1>6

LEMMA ForkSessionOK == ASSUME IInv, ForkSession PROVE IInv'
<1>1. /\ pc = "fork" /\ Live /\ LiveOK /\ PlanOK /\ Installed /\ TypeOK /\ job.op \in Ops
      /\ job.mem.phase # "done" /\ outcome[job.op] = "none"
  BY LiveAt DEF ForkSession, At, LiveSteps, Installed, LiveOK
<1>2. /\ UNCHANGED <<files, disk, images, retired, reports, candidate, todo>>
      /\ sess' \in [Ops -> {"none", "forked", "installed", "used"}]
  BY <1>1 DEF ForkSession, TypeOK, reports
<1>3. CASE Go("move", job) /\ Sound
  <2>1. pc' = "move" /\ job' = job /\ "move" \in LiveSteps
    BY <1>3 DEF Go, LiveSteps
  <2>2. /\ TypeOK' /\ FilesOK' /\ OrderOK' /\ JobOK' /\ RecoveryOK'
        /\ UNCHANGED <<tree, author, outcome, disk, images>>
    BY <1>1, <1>2, <1>3, <2>1, GoesOnQuietly
  <2>3. LiveOK'
    BY <1>1, <2>1, <2>2 DEF LiveOK, Live, Mine, Early, Applying
  <2>4. PlanOK' /\ RollbackOK'
    BY <1>1, <2>1, <2>2 DEF PlanOK, RollbackOK, Rolling, Applying, Installed, Good
  <2> QED
    BY <2>2, <2>3, <2>4 DEF IInv, StepOK
<1>4. CASE Faulty /\ \E step \in {"catch", "uncertain"} : Go(step, job)
  BY <1>1, <1>2, <1>4, GivesUp DEF Go
<1> QED
  BY <1>3, <1>4 DEF ForkSession

LEMMA MoveSessionOK == ASSUME IInv, MoveSession PROVE IInv'
<1>1. /\ pc = "move" /\ Live /\ LiveOK /\ PlanOK /\ Installed /\ TypeOK /\ job.op \in Ops
      /\ job.mem.phase # "done" /\ outcome[job.op] = "none"
  BY LiveAt DEF MoveSession, At, LiveSteps, Installed, LiveOK
<1>2. /\ UNCHANGED <<files, disk, images, retired, reports, candidate, todo>>
      /\ sess' \in [Ops -> {"none", "forked", "installed", "used"}]
  BY <1>1 DEF MoveSession, TypeOK, reports
<1>3. CASE sess' = [sess EXCEPT ![job.op] = "installed"] /\ Go("manifest", job) /\ Sound
  <2>1. /\ pc' = "manifest" /\ job' = job /\ "manifest" \in LiveSteps
        /\ sess'[job.op] = "installed"
    BY <1>1, <1>3 DEF Go, LiveSteps, TypeOK
  <2>2. /\ TypeOK' /\ FilesOK' /\ OrderOK' /\ JobOK' /\ RecoveryOK'
        /\ UNCHANGED <<tree, author, outcome, disk, images>>
    BY <1>1, <1>2, <1>3, <2>1, GoesOnQuietly
  <2>3. LiveOK'
    BY <1>1, <2>1, <2>2 DEF LiveOK, Live, Mine, Early, Applying
  <2>4. PlanOK' /\ RollbackOK'
    BY <1>1, <2>1, <2>2 DEF PlanOK, RollbackOK, Rolling, Applying, Installed, Good
  <2> QED
    BY <2>2, <2>3, <2>4 DEF IInv, StepOK
<1>4. CASE Faulty /\ Go("catch", job)
  BY <1>1, <1>2, <1>4, GivesUp DEF Go
<1> QED
  BY <1>3, <1>4 DEF MoveSession

LEMMA RecordSessionOK == ASSUME IInv, RecordSession PROVE IInv'
<1> DEFINE j == [job EXCEPT !.mem.created = TRUE]
<1>1. /\ pc = "manifest" /\ Live /\ LiveOK /\ PlanOK /\ Installed /\ job \in JobType
      /\ job.live /\ job.mem \in JournalType
  BY LiveAt DEF RecordSession, At, LiveSteps, Installed, TypeOK, Live
<1>2. /\ j \in JobType /\ j.op = job.op /\ j.live /\ j.mem.paths = job.mem.paths
      /\ j.mem.phase = job.mem.phase
  BY <1>1 DEF JobType, JournalType
<1>3. Saves(j, "done") /\ UNCHANGED <<files, evidence, reports, todo>> /\ UNCHANGED <<tree, sess>>
  BY DEF RecordSession, files, evidence
<1> HIDE DEF j
<1>4. /\ j.mem.phase \in {"prepared", "applying", "applied", "conflict"}
      /\ \A p \in Paths : Mine(p) => j.mem.phase # "prepared"
      /\ outcome[job.op] = "none"
  BY <1>1, <1>2 DEF LiveOK, JournalType, Phases
<1>5. /\ PlanOK' => IInv'
      /\ PlanOK' \/ (pc' = "done" /\ job' = j)
  BY <1>1, <1>2, <1>3, <1>4, LateSaves
<1>6. ASSUME pc' = "done", job' = j PROVE PlanOK'
  BY <1>1, <1>2, <1>3, <1>4, <1>6 DEF PlanOK, Live, Applying, Installed, Good
<1> QED
  BY <1>5, <1>6

LEMMA ReportType ==
    ASSUME TypeOK, NEW o \in Ops, NEW status \in {"none", "done", "failed", "conflict"},
           Report(o, status)
    PROVE  /\ outcome' \in [Ops -> {"none", "done", "failed", "conflict"}]
           /\ outcome'[o] = status /\ \A q \in Ops \ {o} : outcome'[q] = outcome[q]
           /\ completed' \subseteq Ops /\ completed \subseteq completed'
           /\ status = "done" => o \in completed'
           /\ \A q \in Ops \ {o} : q \in completed' <=> q \in completed
BY DEF TypeOK, Report

\* A report on one promotion, with its journal as it is.
LEMMA FilesReported ==
    ASSUME TypeOK, FilesOK, NEW o \in Ops, NEW status \in {"done", "failed", "conflict"},
           Report(o, status), UNCHANGED <<tree, author, disk, images>>,
           tears <= tears', tears' \in Nat,
           marked' \subseteq marked \union {o},
           status # "done" => disk[o].phase # "done"
                              /\ \A p \in Paths : author[p] = o => disk[o].phase # "none",
           status = "failed" => \A p \in Paths : author[p] # o
    PROVE  FilesOK'
<1>1. /\ outcome'[o] = status /\ \A q \in Ops \ {o} : outcome'[q] = outcome[q]
      /\ completed \subseteq completed' /\ (status = "done" => o \in completed')
      /\ \A q \in Ops \ {o} : q \in completed' <=> q \in completed
  BY ReportType
<1>2. Intact' => Intact
  BY DEF Intact, TypeOK
<1>3. Named' /\ AuthorOK' /\ Readable'
  BY <1>2 DEF FilesOK, Named, AuthorOK, Readable
<1>4. Gone' /\ DoneOnDisk'
  BY <1>1 DEF FilesOK, Gone, DoneOnDisk
<1>5. Held'
  BY <1>1, <1>2 DEF FilesOK, Held
<1>6. ReportsOK' /\ FailedLeavesNothing'
  BY <1>1 DEF FilesOK, ReportsOK, FailedLeavesNothing
<1> QED
  BY <1>3, <1>4, <1>5, <1>6 DEF FilesOK

LEMMA DoneOK == ASSUME IInv, Done PROVE IInv'
<1> DEFINE j == [job EXCEPT !.mem.phase = "done"]
           status == IF disk'[job.op].phase = "done" THEN "done" ELSE outcome[job.op]
<1>1. /\ pc = "done" /\ Live /\ LiveOK /\ PlanOK /\ Installed /\ job \in JobType /\ TypeOK
      /\ job.live /\ job.mem \in JournalType /\ job.op \in Ops /\ FilesOK
  BY LiveAt DEF Done, At, LiveSteps, Installed, TypeOK, Live, IInv
<1>2. /\ j \in JobType /\ j.op = job.op /\ j.live /\ j.mem.paths = job.mem.paths
      /\ j.mem.phase = "done" /\ j.mem \in JournalType
  BY <1>1 DEF JobType, JournalType, Phases
<1>3. writePromotionJournal(j, "finish", "catch", j) /\ Report(job.op, status)
  BY DEF Done, Saves
<1> HIDE DEF j
<1>4. /\ UNCHANGED <<tree, author, marked, images, retired, sess, todo>>
  BY DEF Done, files, evidence
<1>5. /\ disk' \in [Ops -> JournalType] /\ Counted
      /\ \A o \in Ops \ {job.op} : disk'[o] = disk[o]
      /\ \/ disk'[job.op] = disk[job.op]
         \/ disk'[job.op] = j.mem
         \/ disk'[job.op] = Torn /\ tears' > 0
      /\ \/ pc' = "finish" /\ job' = j /\ candidate' = candidate
         \/ pc' = "catch" /\ Like(job', j) /\ candidate' = candidate
         \/ pc' = "down" /\ job' = NoJob /\ candidate' = FALSE
  BY <1>1, <1>2, <1>3, SaveStep
<1>6. /\ outcome' \in [Ops -> {"none", "done", "failed", "conflict"}]
      /\ outcome'[job.op] \in {"done", outcome[job.op]}
      /\ disk'[job.op].phase = "done" => outcome'[job.op] = "done"
      /\ outcome'[job.op] = "done" => job.op \in completed'
      /\ \A q \in Ops \ {job.op} : outcome'[q] = outcome[q]
      /\ completed' \subseteq Ops /\ completed \subseteq completed'
      /\ \A q \in Ops \ {job.op} : q \in completed' <=> q \in completed
  <2>1. status \in {"none", "done", "failed", "conflict"}
        /\ status \in {"done", outcome[job.op]}
        /\ (disk'[job.op].phase = "done" => status = "done")
    BY <1>1 DEF TypeOK
  <2> HIDE DEF status
  <2> QED
    BY <1>1, <1>3, <2>1, ReportType
<1>7. TypeOK'
  BY <1>1, <1>2, <1>4, <1>5, <1>6, Basics DEF TypeOK, Counted, Like, LiveSteps
<1>8. FilesOK'
  <2>1. (Intact' => Intact) /\ (Intact' => ~(disk'[job.op] = Torn /\ tears' > 0))
    BY <1>1, <1>5 DEF Intact, TypeOK, Counted
  <2>2. Torn.phase = "torn"
    BY Basics
  <2>3. Named' /\ Gone'
    BY <1>1, <1>2, <1>4, <1>5, <1>6, <2>2 DEF FilesOK, Named, Gone, LiveOK, Mine
  <2>4. AuthorOK' /\ DoneOnDisk'
    BY <1>1, <1>4, <1>5, <1>6, <2>2 DEF FilesOK, AuthorOK, DoneOnDisk
  <2>5. Readable'
    BY <1>1, <1>2, <1>5, <2>1 DEF FilesOK, Readable
  <2>6. Held'
    <3> SUFFICES ASSUME Intact', NEW o \in Ops, NEW p \in Paths,
                        author[p] = o, o \notin completed'
                 PROVE  /\ disk'[o].phase \in {"applying", "applied", "conflict"}
                        /\ disk'[o].paths[p] # Missing => p \in images[o]
      BY <1>4 DEF Held
    <3>1. disk'[o] = disk[o] /\ o \notin completed /\ Intact
      BY <1>2, <1>5, <1>6, <2>1
    <3> QED
      BY <1>1, <3>1 DEF FilesOK, Held
  <2>7. ReportsOK' /\ FailedLeavesNothing'
    BY <1>1, <1>4, <1>6 DEF FilesOK, ReportsOK, FailedLeavesNothing
  <2> QED
    BY <2>3, <2>4, <2>5, <2>6, <2>7 DEF FilesOK
<1>9. CASE pc' = "down" /\ job' = NoJob /\ candidate' = FALSE
  BY <1>7, <1>8, <1>9, DownOK DEF IInv
<1>10. CASE pc' \in {"finish", "catch"} /\ Like(job', j) /\ candidate' = candidate
  <2>1. /\ job'.op = job.op /\ job'.live /\ job'.mem.paths = job.mem.paths
        /\ job'.mem = j.mem /\ job'.mem.phase = "done" /\ pc' \in LiveSteps
    BY <1>2, <1>10 DEF Like, LiveSteps
  <2>2. JobOK' /\ RecoveryOK' /\ OrderOK'
    BY <1>1, <1>4, <1>5, <1>6, <1>10, <2>1, GoesOn DEF Counted
  <2>3. DOMAIN disk'[job.op].paths \subseteq DOMAIN job.mem.paths
    BY <1>1, <1>2, <1>5, Basics DEF LiveOK
  <2>4. LiveOK'
    BY <1>1, <1>4, <1>10, <2>1, <2>3 DEF LiveOK, Live, Mine, Early, Applying
  <2>5. PlanOK' /\ RollbackOK'
    BY <1>1, <1>4, <1>10, <2>1 DEF PlanOK, RollbackOK, Rolling, Applying, Installed, Good
  <2> QED
    BY <1>7, <1>8, <2>2, <2>4, <2>5 DEF IInv, StepOK
<1>11. Like(j, j)
  BY <1>2 DEF Like
<1> QED
  BY <1>5, <1>9, <1>10, <1>11

LEMMA FinishOK == ASSUME IInv, Finish PROVE IInv'
<1>1. /\ pc \in {"finish", "catch"} /\ Live /\ LiveOK /\ PlanOK /\ TypeOK /\ FilesOK
      /\ job.op \in Ops
  BY LiveAt DEF Finish, At, LiveSteps, IInv
<1>2. /\ Report(job.op, "done") /\ candidate' = FALSE /\ pc' = "remove" /\ job' = job
      /\ Counted
      /\ UNCHANGED <<tree, author, marked, disk, images, retired, sess, todo>>
  BY <1>1, SoundCounts DEF Finish, Go, files, evidence
<1>3. /\ outcome' \in [Ops -> {"none", "done", "failed", "conflict"}]
      /\ outcome'[job.op] = "done" /\ \A q \in Ops \ {job.op} : outcome'[q] = outcome[q]
      /\ completed' \subseteq Ops
  BY <1>1, <1>2, ReportType
<1>4. TypeOK'
  BY <1>1, <1>2, <1>3 DEF TypeOK, Counted, LiveSteps
<1>5. FilesOK'
  BY <1>1, <1>2, FilesReported DEF Counted
<1>6. JobOK' /\ RecoveryOK' /\ OrderOK'
  BY <1>1, <1>2, <1>3, GoesOn DEF Counted, LiveSteps, Live
<1>7. LiveOK'
  BY <1>1, <1>2, <1>3 DEF LiveOK, Live, Mine, Early, Applying
<1>8. PlanOK' /\ RollbackOK'
  BY <1>2 DEF PlanOK, RollbackOK, Rolling, Applying, Installed
<1> QED
  BY <1>4, <1>5, <1>6, <1>7, <1>8 DEF IInv, StepOK

LEMMA FailOK == ASSUME IInv, Fail PROVE IInv'
<1>1. /\ pc = "fail" /\ Live /\ LiveOK /\ Early /\ TypeOK /\ FilesOK /\ job.op \in Ops
      /\ outcome[job.op] = "none"
  BY LiveAt DEF Fail, At, LiveSteps, IInv, Early, LiveOK
<1>2. /\ Report(job.op, "failed") /\ pc' = "remove" /\ job' = job /\ Counted
      /\ UNCHANGED <<tree, author, marked, disk, images, retired, sess, todo, candidate>>
  BY <1>1, SoundCounts DEF Fail, Go, files, evidence
<1>3. /\ outcome' \in [Ops -> {"none", "done", "failed", "conflict"}]
      /\ outcome'[job.op] = "failed" /\ \A q \in Ops \ {job.op} : outcome'[q] = outcome[q]
      /\ completed' \subseteq Ops
  BY <1>1, <1>2, ReportType
<1>4. TypeOK'
  BY <1>1, <1>2, <1>3 DEF TypeOK, Counted, LiveSteps
<1>5. \A p \in Paths : author[p] # job.op
  BY <1>1 DEF LiveOK, Mine
<1>6. FilesOK'
  <2>1. disk[job.op].phase # "done"
    BY <1>1 DEF FilesOK, DoneOnDisk
  <2> QED
    BY <1>1, <1>2, <1>5, <2>1, FilesReported DEF Counted
<1>7. JobOK' /\ RecoveryOK' /\ OrderOK'
  BY <1>1, <1>2, <1>3, GoesOn DEF Counted, LiveSteps, Live
<1>8. LiveOK'
  BY <1>1, <1>2, <1>3, <1>5 DEF LiveOK, Live, Mine, Early, Applying
<1>9. PlanOK' /\ RollbackOK'
  BY <1>2 DEF PlanOK, RollbackOK, Rolling, Applying, Installed
<1> QED
  BY <1>4, <1>6, <1>7, <1>8, <1>9 DEF IInv, StepOK

LEMMA RemoveJournalOK == ASSUME IInv, RemoveJournal PROVE IInv'
<1>1. /\ pc = "remove" /\ Live /\ LiveOK /\ TypeOK /\ FilesOK /\ OrderOK /\ job.op \in Ops
  BY LiveAt DEF RemoveJournal, At, LiveSteps, IInv
<1>2. /\ pc' = "idle" /\ job' = NoJob /\ Counted
      /\ UNCHANGED <<tree, author, marked, retired, outcome, completed, candidate, todo>>
  BY <1>1, SoundCounts DEF RemoveJournal, Ends, files, reports
<1>3. /\ \/ disk' = [disk EXCEPT ![job.op] = None]
         \/ disk' = disk
      /\ \/ images' = [images EXCEPT ![job.op] = {}]
            /\ sess' = [sess EXCEPT ![job.op] = IF @ = "forked" THEN "none" ELSE @]
         \/ UNCHANGED <<images, sess>>
  BY DEF RemoveJournal
<1>4. /\ disk' \in [Ops -> JournalType] /\ images' \in [Ops -> SUBSET Paths]
      /\ sess' \in [Ops -> {"none", "forked", "installed", "used"}]
      /\ \A q \in Ops \ {job.op} : disk'[q] = disk[q] /\ images'[q] = images[q]
      /\ disk'[job.op] \in {None, disk[job.op]}
  BY <1>1, <1>3, Basics DEF TypeOK
<1>5. TypeOK'
  BY <1>1, <1>2, <1>4, Basics DEF TypeOK, Counted
<1>6. /\ outcome[job.op] # "none"
      /\ \A p \in Paths : author[p] = job.op => outcome[job.op] = "done"
  BY <1>1 DEF LiveOK, Mine
<1>7. FilesOK'
  <2>1. (Intact' => Intact) /\ None.phase = "none"
    BY <1>1, <1>2, Basics DEF Intact, TypeOK, Counted
  <2>2. Named' /\ Gone'
    BY <1>1, <1>2, <1>4, <1>6, <2>1 DEF FilesOK, Named, Gone
  <2>3. AuthorOK' /\ DoneOnDisk' /\ Readable'
    BY <1>1, <1>2, <1>4, <2>1 DEF FilesOK, AuthorOK, DoneOnDisk, Readable
  <2>4. Held'
    BY <1>1, <1>2, <1>4, <1>6, <2>1 DEF FilesOK, Held, ReportsOK
  <2>5. ReportsOK' /\ FailedLeavesNothing'
    BY <1>1, <1>2 DEF FilesOK, ReportsOK, FailedLeavesNothing
  <2> QED
    BY <2>2, <2>3, <2>4, <2>5 DEF FilesOK
<1>8. StepOK'
  BY <1>2, AtRest DEF Resting
<1>9. Unsettled'
  <2>1. Intact' => Intact
    BY <1>1, <1>2 DEF Intact, TypeOK, Counted
  <2> QED
    BY <1>1, <1>2, <1>6, <2>1 DEF OrderOK, Unsettled
<1>10. Unstarted'
  BY <1>1, <1>2, <1>4, <1>6, Basics DEF OrderOK, Unstarted
<1> QED
  BY <1>5, <1>7, <1>8, <1>9, <1>10 DEF IInv, OrderOK

\* A live promotion ends with a report and keeps its journal.
LEMMA ReportsAndEnds ==
    ASSUME IInv, Live, pc # "remove", job.mem.phase # "done",
           NEW status \in {"failed", "conflict"},
           Report(job.op, status), Ends, Sound \/ Faulty,
           UNCHANGED <<files, disk, evidence, candidate, todo>>,
           status = "failed" => \A p \in Paths : author[p] # job.op
    PROVE  IInv'
<1>1. /\ TypeOK /\ FilesOK /\ OrderOK /\ job.op \in Ops /\ outcome[job.op] = "none"
      /\ pc # "down"
  BY Basics DEF IInv, StepOK, JobOK, Live, LiveOK
<1>2. /\ pc' = "idle" /\ job' = NoJob /\ Counted
      /\ UNCHANGED <<tree, author, marked, disk, images, retired, sess, todo, candidate>>
  BY <1>1, SoundCounts DEF Ends, files, evidence
<1>3. /\ outcome' \in [Ops -> {"none", "done", "failed", "conflict"}]
      /\ outcome'[job.op] = status /\ \A q \in Ops \ {job.op} : outcome'[q] = outcome[q]
      /\ completed' \subseteq Ops
  BY <1>1, ReportType
<1>4. TypeOK'
  BY <1>1, <1>2, <1>3, Basics DEF TypeOK, Counted
<1>5. FilesOK'
  <2>1. /\ disk[job.op].phase # "done"
        /\ \A p \in Paths : author[p] = job.op => disk[job.op].phase # "none"
    BY <1>1 DEF FilesOK, DoneOnDisk, Gone
  <2>2. status \in {"done", "failed", "conflict"}
    OBVIOUS
  <2> QED
    BY <1>1, <1>2, <2>1, <2>2, FilesReported DEF Counted
<1>6. StepOK'
  BY <1>2, AtRest DEF Resting
<1>7. Unsettled'
  <2>1. Intact' => Intact
    BY <1>1, <1>2 DEF Intact, TypeOK, Counted
  <2> QED
    BY <1>1, <1>2, <1>3, <2>1 DEF OrderOK, Unsettled
<1>8. Unstarted'
  BY <1>1, <1>2, <1>3, Basics DEF OrderOK, Unstarted
<1> QED
  BY <1>4, <1>5, <1>6, <1>7, <1>8 DEF IInv, OrderOK

LEMMA CatchOK == ASSUME IInv, Catch PROVE IInv'
<1> DEFINE j == [job EXCEPT !.left = DOMAIN job.mem.paths]
<1>1. /\ pc = "catch" /\ Live /\ LiveOK /\ TypeOK /\ job.op \in Ops /\ job.mem.phase # "done"
      /\ job \in JobType /\ job.mem \in JournalType
  BY LiveAt DEF Catch, At, LiveSteps, TypeOK
<1>2. DOMAIN job.mem.paths \subseteq Paths
  BY <1>1, PathStatesType DEF JournalType
<1>3. /\ j \in JobType /\ j.op = job.op /\ j.live /\ j.mem = job.mem
      /\ j.left = DOMAIN job.mem.paths
  BY <1>1, <1>2 DEF JobType, Live
<1> HIDE DEF j
<1>4. CASE Go("rollback", j) /\ Sound /\ UNCHANGED reports
  <2>1. /\ UNCHANGED <<files, disk, retired, reports, candidate, todo>>
        /\ UNCHANGED <<images, author, outcome>>
        /\ sess' \in [Ops -> {"none", "forked", "installed", "used"}]
        /\ images' \in [Ops -> SUBSET Paths]
        /\ \A q \in Ops : images[q] \subseteq images'[q]
    BY <1>1, <1>4 DEF Catch, evidence, TypeOK, files, reports
  <2>2. pc' = "rollback" /\ job' = j /\ "rollback" \in LiveSteps
    BY <1>4 DEF Go, LiveSteps
  <2>3. TypeOK' /\ FilesOK' /\ OrderOK' /\ JobOK' /\ RecoveryOK'
    BY <1>1, <1>3, <1>4, <2>1, <2>2, StepKeeps
  <2>4. LiveOK'
    BY <1>1, <1>3, <2>1, <2>2 DEF LiveOK, Live, Mine, Early, Applying
  <2>5. PlanOK' /\ RollbackOK'
    BY <1>3, <2>2 DEF PlanOK, RollbackOK, Rolling, Applying, Installed
  <2> QED
    BY <2>3, <2>4, <2>5 DEF IInv, StepOK
<1>5. CASE Report(job.op, "conflict") /\ Ends /\ Faulty
  <2>1. UNCHANGED <<files, disk, evidence, candidate, todo>> /\ pc # "remove"
    BY <1>1 DEF Catch
  <2>2. "conflict" \in {"failed", "conflict"}
    OBVIOUS
  <2> QED
    BY <1>1, <1>5, <2>1, <2>2, ReportsAndEnds
<1> QED
  BY <1>4, <1>5 DEF Catch, j

LEMMA ReportConflictOK == ASSUME IInv, ReportConflict PROVE IInv'
<1>1. /\ pc = "report" /\ Live /\ LiveOK /\ job.mem.phase # "done"
  BY LiveAt DEF ReportConflict, At, LiveSteps, LiveOK
<1>2. /\ Report(job.op, "conflict") /\ Ends /\ Sound
      /\ UNCHANGED <<files, disk, evidence, candidate, todo>> /\ pc # "remove"
      /\ "conflict" \in {"failed", "conflict"}
  BY <1>1 DEF ReportConflict
<1> QED
  BY <1>1, <1>2, ReportsAndEnds

LEMMA RollingFacts ==
    ASSUME IInv, Rolling
    PROVE  /\ job.op \in Ops /\ TypeOK /\ FilesOK /\ job \in JobType /\ job.mem \in JournalType
           /\ job.mem.phase \in {"prepared", "applying", "applied", "conflict"}
           /\ Live => LiveOK /\ outcome[job.op] = "none"
           /\ ~Live => RecoveryOK /\ ~candidate
           /\ \A p \in Paths : Mine(p) =>
                  /\ p \in DOMAIN job.mem.paths /\ job.mem.paths[p] # Target[p]
                  /\ tree[p] = Target[p]
                  /\ job.mem.phase # "prepared" \/ ~Live
<1>1. job.op \in Ops /\ TypeOK /\ FilesOK /\ job \in JobType /\ job.mem \in JournalType
  BY DEF IInv, StepOK, JobOK, Rolling, TypeOK, JobType
<1>2. CASE Live
  <2>1. LiveOK /\ outcome[job.op] = "none" /\ job.mem.phase # "done"
    BY <1>2 DEF IInv, StepOK, LiveOK, Rolling
  <2>2. job.mem.phase \in {"prepared", "applying", "applied", "conflict"}
    BY <1>1, <1>2, <2>1 DEF LiveOK, JournalType, Phases
  <2> QED
    BY <1>1, <1>2, <2>1, <2>2 DEF LiveOK, FilesOK, AuthorOK, Mine
<1>3. CASE ~Live
  <2>1. RecoveryOK /\ ~candidate /\ job.mem = disk[job.op]
        /\ job.mem.phase \in {"prepared", "applying", "applied"}
    BY <1>1, <1>3 DEF IInv, StepOK, OrderOK, RecoveryOK, Unstarted, TypeOK
  <2> QED
    BY <1>1, <1>3, <2>1 DEF FilesOK, AuthorOK, Named, Mine
<1> QED
  BY <1>2, <1>3

LEMMA RollsOn ==
    ASSUME IInv, Rolling, NEW k \in JobType, k.op = job.op, k.live = job.live, k.mem = job.mem,
           job' = k, pc' \in {"rollback", "restore", "swap", "reread"},
           UNCHANGED <<files, disk, evidence, reports, candidate, todo>>,
           Sound \/ Faulty, RollbackOK'
    PROVE  IInv'
<1>1. /\ job.op \in Ops /\ TypeOK /\ FilesOK /\ LiveOK /\ RecoveryOK /\ OrderOK
      /\ pc \notin {"down", "open"}
  BY RollingFacts DEF IInv, StepOK, Rolling
<1>2. /\ Counted /\ (Intact' => Intact)
      /\ UNCHANGED <<tree, author, marked, disk, images, retired, sess, outcome, completed,
                     candidate, todo>>
  BY <1>1, SoundCounts DEF files, evidence, reports, Counted, Intact, TypeOK
<1>3. TypeOK'
  BY <1>1, <1>2 DEF TypeOK, Counted, LiveSteps
<1>4. FilesOK'
  BY <1>1, <1>2, FilesKept DEF Counted
<1>5. JobOK' /\ RecoveryOK' /\ PlanOK'
  BY <1>1, <1>2
  DEF JobOK, RecoveryOK, PlanOK, Live, Rolling, LiveSteps, Applying, Installed
<1>6. LiveOK'
  BY <1>1, <1>2 DEF LiveOK, Live, Mine, Early, Rolling
<1>7. OrderOK'
  BY <1>1, <1>2 DEF OrderOK, Unsettled, Unstarted, Live
<1> QED
  BY <1>3, <1>4, <1>5, <1>6, <1>7 DEF IInv, StepOK

LEMMA NextPathFacts ==
    ASSUME TypeOK, NEW p
    PROVE  /\ NextPath(p) \in JobType /\ NextPath(p).op = job.op /\ NextPath(p).mem = job.mem
           /\ NextPath(p).live = job.live /\ NextPath(p).left = job.left \ {p}
           /\ NextPath(p).conflict = job.conflict
           /\ Conflicts(p) \in JobType /\ Conflicts(p).op = job.op
           /\ Conflicts(p).mem = job.mem /\ Conflicts(p).live = job.live
           /\ Conflicts(p).conflict /\ Conflicts(p).left = job.left \ {p}
BY DEF TypeOK, JobType, NextPath, Conflicts, Past

LEMMA RollbackLookOK == ASSUME IInv, RollbackLook PROVE IInv'
<1>1. Rolling /\ pc = "rollback" /\ RollbackOK
  BY DEF RollbackLook, At, Rolling, IInv, StepOK
<1>2. /\ job.op \in Ops /\ TypeOK /\ job \in JobType
      /\ job.mem.phase \in {"prepared", "applying", "applied", "conflict"}
      /\ \A p \in Paths : Mine(p) =>
             /\ p \in DOMAIN job.mem.paths /\ job.mem.paths[p] # Target[p]
             /\ tree[p] = Target[p]
             /\ job.mem.phase # "prepared" \/ ~Live
      /\ Live => outcome[job.op] = "none"
  BY <1>1, RollingFacts
<1>3. UNCHANGED <<files, evidence, reports, todo>> /\ UNCHANGED author
  BY DEF RollbackLook, files
<1>4. PICK p \in Current :
          \/ /\ tree[p] = Before(p)
             /\ Go("rollback", NextPath(p)) /\ Sound /\ UNCHANGED <<disk, candidate>>
          \/ Go("rollback", Conflicts(p)) /\ (Sound \/ Faulty) /\ UNCHANGED <<disk, candidate>>
          \/ Live /\ writePromotionJournal(job, "restore", "rollback", Conflicts(p))
          \/ Go("restore", job) /\ Sound /\ UNCHANGED <<disk, candidate>>
  BY DEF RollbackLook, Live
<1>5. p \in Paths /\ p \in job.left
  BY <1>2, CurrentIsLeft
<1> DEFINE n == NextPath(p)
           c == Conflicts(p)
<1>6. /\ n \in JobType /\ n.op = job.op /\ n.mem = job.mem /\ n.live = job.live
      /\ n.left = job.left \ {p} /\ n.conflict = job.conflict
      /\ c \in JobType /\ c.op = job.op /\ c.mem = job.mem /\ c.live = job.live /\ c.conflict
      /\ c.left = job.left \ {p}
  BY <1>2, NextPathFacts
<1> HIDE DEF n, c
<1>7. CASE tree[p] = Before(p) /\ Go("rollback", n) /\ Sound /\ UNCHANGED <<disk, candidate>>
  <2>1. ~Mine(p)
    BY <1>2, <1>5, <1>7 DEF Before
  <2>2. RollbackOK'
    BY <1>1, <1>3, <1>6, <1>7, <2>1 DEF RollbackOK, Rolling, Mine, Go
  <2>3. job' = n /\ pc' \in {"rollback", "restore", "swap", "reread"}
    BY <1>7 DEF Go
  <2> QED
    BY <1>1, <1>3, <1>6, <1>7, <2>2, <2>3, RollsOn
<1>8. CASE Go("rollback", c) /\ (Sound \/ Faulty) /\ UNCHANGED <<disk, candidate>>
  <2>1. RollbackOK'
    BY <1>1, <1>6, <1>8 DEF RollbackOK, Rolling, Go
  <2>2. job' = c /\ pc' \in {"rollback", "restore", "swap", "reread"}
    BY <1>8 DEF Go
  <2> QED
    BY <1>1, <1>3, <1>6, <1>8, <2>1, <2>2, RollsOn
<1>9. CASE Live /\ writePromotionJournal(job, "restore", "rollback", c)
  <2>1. /\ "restore" \in {"plan", "fork", "done", "catch", "restore", "report"}
        /\ "rollback" \in {"catch", "rollback", "report"}
        /\ \A q \in Paths : Mine(q) => job.mem.phase # "prepared"
        /\ job.live /\ c.live
    BY <1>2, <1>6, <1>9 DEF Live
  <2>2. /\ PlanOK' /\ RollbackOK' => IInv'
        /\ \/ IInv'
           \/ pc' = "restore" /\ job' = job
           \/ pc' = "rollback" /\ Like(job', c)
    BY <1>2, <1>3, <1>6, <1>9, <2>1, LateSave
  <2>3. ASSUME pc' = "restore", job' = job PROVE PlanOK' /\ RollbackOK'
    BY <1>1, <1>3, <2>3 DEF PlanOK, RollbackOK, Rolling, Applying, Installed, Mine
  <2>4. ASSUME pc' = "rollback", Like(job', c) PROVE PlanOK' /\ RollbackOK'
    BY <1>1, <1>6, <2>4 DEF PlanOK, RollbackOK, Rolling, Applying, Installed, Like
  <2> QED
    BY <2>2, <2>3, <2>4
<1>10. CASE Go("restore", job) /\ Sound /\ UNCHANGED <<disk, candidate>>
  <2>1. RollbackOK'
    BY <1>1, <1>3, <1>10 DEF RollbackOK, Rolling, Mine, Go
  <2>2. job' = job /\ pc' \in {"rollback", "restore", "swap", "reread"}
    BY <1>10 DEF Go
  <2> QED
    BY <1>1, <1>2, <1>3, <1>10, <2>1, <2>2, RollsOn
<1> QED
  BY <1>4, <1>7, <1>8, <1>9, <1>10 DEF n, c

LEMMA RollbackCheckOK == ASSUME IInv, RollbackCheck PROVE IInv'
<1>1. Rolling /\ pc = "restore" /\ RollbackOK
  BY DEF RollbackCheck, At, Rolling, IInv, StepOK
<1>2. TypeOK /\ job \in JobType
  BY <1>1, RollingFacts
<1>3. UNCHANGED <<files, disk, evidence, reports, candidate, todo>> /\ Sound /\ UNCHANGED author
  BY DEF RollbackCheck, files
<1>4. PICK p \in Current : Go("swap", job) \/ Go("rollback", Conflicts(p))
  BY DEF RollbackCheck
<1> DEFINE c == Conflicts(p)
<1>5. /\ c \in JobType /\ c.op = job.op /\ c.mem = job.mem /\ c.live = job.live /\ c.conflict
      /\ c.left = job.left \ {p}
  BY <1>2, NextPathFacts
<1> HIDE DEF c
<1>6. CASE Go("swap", job)
  <2>1. RollbackOK'
    BY <1>1, <1>3, <1>6 DEF RollbackOK, Rolling, Mine, Go
  <2>2. job' = job /\ pc' \in {"rollback", "restore", "swap", "reread"}
    BY <1>6 DEF Go
  <2> QED
    BY <1>1, <1>2, <1>3, <2>1, <2>2, RollsOn
<1>7. CASE Go("rollback", c)
  <2>1. RollbackOK'
    BY <1>1, <1>5, <1>7 DEF RollbackOK, Rolling, Go
  <2>2. job' = c /\ pc' \in {"rollback", "restore", "swap", "reread"}
    BY <1>7 DEF Go
  <2> QED
    BY <1>1, <1>3, <1>5, <2>1, <2>2, RollsOn
<1> QED
  BY <1>4, <1>6, <1>7 DEF c

LEMMA RollbackRereadOK == ASSUME IInv, RollbackReread PROVE IInv'
<1>1. Rolling /\ pc = "reread" /\ RollbackOK
  BY DEF RollbackReread, At, Rolling, IInv, StepOK
<1>2. TypeOK /\ job \in JobType
  BY <1>1, RollingFacts
<1>3. UNCHANGED <<files, disk, evidence, reports, candidate, todo>> /\ Sound /\ UNCHANGED author
  BY DEF RollbackReread, files
<1>4. PICK p \in Current : Go("rollback", NextPath(p)) \/ Go("rollback", Conflicts(p))
  BY DEF RollbackReread
<1> DEFINE n == NextPath(p)
           c == Conflicts(p)
<1>5. /\ n \in JobType /\ n.op = job.op /\ n.mem = job.mem /\ n.live = job.live
      /\ n.left = job.left \ {p} /\ n.conflict = job.conflict
      /\ c \in JobType /\ c.op = job.op /\ c.mem = job.mem /\ c.live = job.live /\ c.conflict
      /\ c.left = job.left \ {p}
  BY <1>2, NextPathFacts
<1> HIDE DEF n, c
<1>6. CASE Go("rollback", n)
  <2>1. RollbackOK'
    BY <1>1, <1>3, <1>5, <1>6 DEF RollbackOK, Rolling, Mine, Go
  <2>2. job' = n /\ pc' \in {"rollback", "restore", "swap", "reread"}
    BY <1>6 DEF Go
  <2> QED
    BY <1>1, <1>3, <1>5, <2>1, <2>2, RollsOn
<1>7. CASE Go("rollback", c)
  <2>1. RollbackOK'
    BY <1>1, <1>5, <1>7 DEF RollbackOK, Rolling, Go
  <2>2. job' = c /\ pc' \in {"rollback", "restore", "swap", "reread"}
    BY <1>7 DEF Go
  <2> QED
    BY <1>1, <1>3, <1>5, <2>1, <2>2, RollsOn
<1> QED
  BY <1>4, <1>6, <1>7 DEF n, c

\* A path that is written by the user, or put back, belongs to no promotion.
LEMMA UserWrites ==
    ASSUME TypeOK, FilesOK, NEW p \in Paths, NEW v \in Values, Write(p, v, User),
           UNCHANGED <<disk, images, outcome, completed>>, tears <= tears', tears' \in Nat
    PROVE  /\ FilesOK'
           /\ tree' \in [Paths -> Values] /\ author' \in [Paths -> Ops \union {User}]
           /\ marked' \subseteq marked
           /\ tree'[p] = v /\ \A q \in Paths \ {p} : tree'[q] = tree[q]
           /\ author'[p] = User /\ \A q \in Paths \ {p} : author'[q] = author[q]
<1>1. /\ tree' \in [Paths -> Values] /\ author' \in [Paths -> Ops \union {User}]
      /\ marked' \subseteq marked
      /\ tree'[p] = v /\ \A q \in Paths \ {p} : tree'[q] = tree[q]
      /\ author'[p] = User /\ \A q \in Paths \ {p} : author'[q] = author[q]
  BY DEF Write, TypeOK
<1>2. \A q \in Paths, o \in Ops : author'[q] = o => author[q] = o /\ tree'[q] = tree[q]
  BY <1>1, Basics
<1>3. Intact' => Intact
  BY DEF Intact, TypeOK
<1>4. Named' /\ Gone' /\ AuthorOK' /\ FailedLeavesNothing'
  BY <1>2 DEF FilesOK, Named, Gone, AuthorOK, FailedLeavesNothing
<1>5. DoneOnDisk' /\ Readable' /\ ReportsOK'
  BY <1>1, <1>3 DEF FilesOK, DoneOnDisk, Readable, ReportsOK
<1>6. Held'
  BY <1>2, <1>3 DEF FilesOK, Held
<1> QED
  BY <1>1, <1>4, <1>5, <1>6 DEF FilesOK

LEMMA SwapKeeps ==
    ASSUME IInv, pc = "swap", NEW p \in Paths, p \in job.left, Write(p, Before(p), User),
           retired' \in [Ops -> SUBSET Paths], Sound \/ Faulty,
           UNCHANGED <<disk, images, sess, reports, candidate, todo>>,
           \/ pc' = "reread" /\ job' = job /\ p \in Current
           \/ pc' = "rollback" /\ job' = Conflicts(p)
    PROVE  IInv'
<1>1. /\ Rolling /\ LiveOK /\ RecoveryOK /\ RollbackOK /\ OrderOK
  BY DEF IInv, StepOK, Rolling
<1>2. /\ job.op \in Ops /\ TypeOK /\ FilesOK /\ job \in JobType /\ job.mem \in JournalType
  BY <1>1, RollingFacts
<1>3. Before(p) \in Values
  BY <1>1, <1>2, PathStatesType DEF RollbackOK, Before, JournalType
<1>4. /\ Counted /\ (Intact' => Intact)
      /\ UNCHANGED <<disk, images, sess, outcome, completed, candidate, todo>>
  BY <1>2, SoundCounts DEF reports, Counted, Intact, TypeOK
<1>5. /\ FilesOK'
      /\ tree' \in [Paths -> Values] /\ author' \in [Paths -> Ops \union {User}]
      /\ marked' \subseteq marked /\ author'[p] = User
      /\ \A q \in Paths \ {p} : author'[q] = author[q]
  <2> DEFINE v == Before(p)
  <2>1. v \in Values /\ Write(p, v, User)
    BY <1>3
  <2> HIDE DEF v
  <2> QED
    BY <1>2, <1>4, <2>1, UserWrites DEF Counted
<1>6. /\ job' \in JobType /\ job'.op = job.op /\ job'.mem = job.mem /\ job'.live = job.live
      /\ pc' \in {"reread", "rollback"}
      /\ pc' = "reread" => job' = job
      /\ pc' = "rollback" => job'.conflict
      /\ job'.left \subseteq job.left
  BY <1>2, NextPathFacts
<1>7. TypeOK'
  BY <1>2, <1>4, <1>5, <1>6 DEF TypeOK, Counted, LiveSteps
<1>8. JobOK' /\ RecoveryOK' /\ PlanOK'
  BY <1>1, <1>2, <1>4, <1>6
  DEF JobOK, RecoveryOK, PlanOK, Live, Rolling, LiveSteps, Applying, Installed
<1>9. \A q \in Paths : Mine(q)' => Mine(q) /\ q # p
  BY <1>2, <1>5, <1>6, Basics DEF Mine
<1>10. LiveOK'
  BY <1>1, <1>4, <1>6, <1>9 DEF LiveOK, Live, Early, Rolling
<1>11. RollbackOK'
  <2>1. CASE pc' = "rollback"
    BY <1>1, <1>6, <2>1 DEF RollbackOK, Rolling
  <2>2. CASE pc' = "reread"
    <3>1. job' = job /\ p \in Current /\ pc # "reread"
      BY <2>2
    <3>2. \A q \in Current : q = p
      <4> SUFFICES ASSUME NEW q \in Current PROVE q = p
        OBVIOUS
      <4>1. Precedes(p, q) /\ Precedes(q, p) /\ q \in Paths
        BY <1>2, <3>1, CurrentIsLeft DEF Current
      <4> QED
        BY <4>1, FirstIsOne
    <3>3. DOMAIN job.mem.paths \subseteq Paths
      BY <1>2, PathStatesType DEF JournalType
    <3>4. Current' = Current
      BY <3>1 DEF Current
    <3> QED
      BY <1>1, <1>9, <2>2, <3>1, <3>2, <3>3, <3>4, CurrentIsLeft DEF RollbackOK, Rolling
  <2> QED
    BY <1>6, <2>1, <2>2
<1>12. OrderOK'
  BY <1>1, <1>2, <1>4, <1>5, <1>6, <1>9, Basics DEF OrderOK, Unsettled, Unstarted, Live, Mine, Rolling
<1> QED
  BY <1>5, <1>7, <1>8, <1>10, <1>11, <1>12 DEF IInv, StepOK

LEMMA RollbackSwapOK == ASSUME IInv, RollbackSwap PROVE IInv'
<1>1. Rolling /\ pc = "swap" /\ RollbackOK
  BY DEF RollbackSwap, At, Rolling, IInv, StepOK
<1>2. TypeOK /\ job \in JobType /\ job.op \in Ops
  BY <1>1, RollingFacts
<1>3. UNCHANGED <<disk, images, sess, reports, candidate, todo>>
  BY DEF RollbackSwap
<1>4. PICK p \in Current :
          \/ /\ Write(p, Before(p), User)
             /\ retired' = IF Before(p) # Missing THEN retired
                           ELSE [retired EXCEPT ![job.op] = @ \union {p}]
             /\ \/ Sound /\ (Go("reread", job) \/ Go("rollback", Conflicts(p)))
                \/ Faulty /\ Go("rollback", Conflicts(p))
          \/ UNCHANGED <<files, retired>> /\ (Sound \/ Faulty) /\ Go("rollback", Conflicts(p))
  BY DEF RollbackSwap
<1>5. p \in Paths /\ p \in job.left
  BY <1>2, CurrentIsLeft
<1> DEFINE c == Conflicts(p)
<1>6. /\ c \in JobType /\ c.op = job.op /\ c.mem = job.mem /\ c.live = job.live /\ c.conflict
      /\ c.left = job.left \ {p}
  BY <1>2, NextPathFacts
<1> HIDE DEF c
<1>7. CASE /\ Write(p, Before(p), User)
           /\ retired' = IF Before(p) # Missing THEN retired
                         ELSE [retired EXCEPT ![job.op] = @ \union {p}]
           /\ \/ Sound /\ (Go("reread", job) \/ Go("rollback", c))
              \/ Faulty /\ Go("rollback", c)
  <2>1. retired' \in [Ops -> SUBSET Paths]
    BY <1>2, <1>5, <1>7 DEF TypeOK
  <2>2. /\ Sound \/ Faulty
        /\ \/ pc' = "reread" /\ job' = job /\ p \in Current
           \/ pc' = "rollback" /\ job' = Conflicts(p)
    BY <1>7 DEF Go, c
  <2> QED
    BY <1>1, <1>3, <1>5, <1>7, <2>1, <2>2, SwapKeeps
<1>8. CASE UNCHANGED <<files, retired>> /\ (Sound \/ Faulty) /\ Go("rollback", c)
  <2>1. RollbackOK'
    BY <1>1, <1>6, <1>8 DEF RollbackOK, Rolling, Go
  <2>2. /\ job' = c /\ pc' \in {"rollback", "restore", "swap", "reread"}
        /\ UNCHANGED <<files, disk, evidence, reports, candidate, todo>>
    BY <1>3, <1>8 DEF Go, evidence
  <2> QED
    BY <1>1, <1>6, <1>8, <2>1, <2>2, RollsOn
<1> QED
  BY <1>4, <1>7, <1>8 DEF c

LEMMA RolledBack ==
    ASSUME IInv, pc = "rollback", job.left = {}, ~job.conflict
    PROVE  \A p \in Paths : author[p] # job.op
BY RollingFacts DEF IInv, StepOK, RollbackOK, Rolling, Mine

LEMMA LiveRolledBackOK == ASSUME IInv, LiveRolledBack PROVE IInv'
<1>1. /\ pc = "rollback" /\ Rolling /\ Live /\ job.left = {} /\ ~job.conflict
      /\ \A p \in Paths : author[p] # job.op
  BY RolledBack DEF LiveRolledBack, At, Rolling, Live
<1>2. /\ LiveOK /\ TypeOK /\ FilesOK /\ job.op \in Ops /\ outcome[job.op] = "none"
      /\ job.mem.phase # "done"
  BY <1>1, RollingFacts
<1>3. /\ Report(job.op, "failed") /\ Sound
      /\ UNCHANGED <<files, disk, evidence, candidate, todo>>
  BY DEF LiveRolledBack
<1>4. CASE Ends
  <2>1. "failed" \in {"failed", "conflict"} /\ pc # "remove"
    BY <1>1
  <2> QED
    BY <1>1, <1>2, <1>3, <1>4, <2>1, ReportsAndEnds
<1>5. CASE Go("remove", job)
  <2>1. /\ Counted /\ pc' = "remove" /\ job' = job
        /\ UNCHANGED <<tree, author, marked, disk, images, retired, sess, todo, candidate>>
    BY <1>2, <1>3, <1>5, SoundCounts DEF Go, files, evidence
  <2>2. /\ outcome' \in [Ops -> {"none", "done", "failed", "conflict"}]
        /\ outcome'[job.op] = "failed" /\ \A q \in Ops \ {job.op} : outcome'[q] = outcome[q]
        /\ completed' \subseteq Ops
    BY <1>2, <1>3, ReportType
  <2>3. TypeOK'
    BY <1>2, <2>1, <2>2 DEF TypeOK, Counted, LiveSteps
  <2>4. disk[job.op].phase # "done"
    BY <1>2 DEF FilesOK, DoneOnDisk
  <2>5. FilesOK'
    BY <1>1, <1>2, <1>3, <2>1, <2>4, FilesReported DEF Counted
  <2>6. JobOK' /\ RecoveryOK' /\ OrderOK'
    BY <1>1, <1>2, <2>1, <2>2, GoesOn DEF Counted, LiveSteps, Live
  <2>7. LiveOK'
    BY <1>1, <1>2, <2>1, <2>2 DEF LiveOK, Live, Mine, Early, Applying
  <2>8. PlanOK' /\ RollbackOK'
    BY <2>1 DEF PlanOK, RollbackOK, Rolling, Applying, Installed
  <2> QED
    BY <2>3, <2>5, <2>6, <2>7, <2>8 DEF IInv, StepOK
<1> QED
  BY <1>4, <1>5 DEF LiveRolledBack

LEMMA LiveConflictOK == ASSUME IInv, LiveConflict PROVE IInv'
<1> DEFINE j == [job EXCEPT !.mem.phase = "conflict"]
<1>1. pc = "rollback" /\ Rolling /\ Live /\ job.live
  BY DEF LiveConflict, At, Rolling, Live
<1>2. /\ job.op \in Ops /\ job \in JobType /\ job.mem \in JournalType
      /\ outcome[job.op] = "none"
  BY <1>1, RollingFacts
<1>3. /\ j \in JobType /\ j.op = job.op /\ j.live /\ j.mem.paths = job.mem.paths
      /\ j.mem.phase = "conflict"
  BY <1>1, <1>2 DEF JobType, JournalType, Phases
<1>4. /\ writePromotionJournal(j, "report", "report", j)
      /\ UNCHANGED <<files, evidence, reports, todo>>
  BY DEF LiveConflict
<1> HIDE DEF j
<1>5. /\ "report" \in {"plan", "fork", "done", "catch", "restore", "report"}
      /\ "report" \in {"catch", "rollback", "report"}
  OBVIOUS
<1>6. /\ PlanOK' /\ RollbackOK' => IInv'
      /\ IInv' \/ pc' = "report"
  BY <1>1, <1>2, <1>3, <1>4, <1>5, LateSave
<1>7. ASSUME pc' = "report" PROVE PlanOK' /\ RollbackOK'
  BY <1>7 DEF PlanOK, RollbackOK, Rolling, Applying, Installed
<1> QED
  BY <1>6, <1>7

\* While the project is down or being opened, no candidate is left.
LEMMA RestFacts ==
    ASSUME IInv, pc \in Resting
    PROVE  /\ TypeOK /\ FilesOK /\ OrderOK /\ job = NoJob /\ job.op \notin Ops
           /\ pc \in {"down", "open"} => candidate = FALSE
BY Basics DEF IInv, StepOK, JobOK, OrderOK, Unstarted, Resting, TypeOK

LEMMA RestsQuietly ==
    ASSUME IInv, job' = NoJob, pc' \in Resting, todo' \subseteq Ops, candidate' \in BOOLEAN,
           UNCHANGED <<files, disk, evidence, reports>>, Counted, OrderOK'
    PROVE  IInv'
<1>1. UNCHANGED <<tree, author, marked, disk, images, retired, sess, outcome, completed>>
  BY DEF files, evidence, reports
<1>2. TypeOK'
  BY <1>1, Basics DEF IInv, TypeOK, Counted, Resting
<1>3. FilesOK'
  BY <1>1, FilesKept DEF IInv, Counted
<1>4. StepOK'
  BY AtRest
<1> QED
  BY <1>2, <1>3, <1>4 DEF IInv

LEMMA OpenOK == ASSUME IInv, Open PROVE IInv'
<1>1. /\ pc = "down" /\ TypeOK /\ FilesOK /\ job = NoJob /\ candidate = FALSE
  BY RestFacts DEF Open, At, Resting
<1>2. /\ pc' = "open" /\ todo' = {o \in Ops : disk[o].phase # "none"} /\ Counted
      /\ UNCHANGED <<files, disk, evidence, reports, candidate, job, author>>
      /\ UNCHANGED outcome
  BY <1>1, SoundCounts DEF Open, files, reports
<1>3. OrderOK'
  BY <1>1, <1>2, Basics DEF Live, OrderOK, Unsettled, Unstarted, FilesOK, Gone
<1> QED
  BY <1>1, <1>2, <1>3, RestsQuietly DEF Resting

LEMMA OpenDoneOK == ASSUME IInv, OpenDone PROVE IInv'
<1>1. /\ pc = "open" /\ TypeOK /\ FilesOK /\ OrderOK /\ job.op \notin Ops
      /\ candidate = FALSE /\ todo = {}
  BY RestFacts DEF OpenDone, At, Resting
<1>2. /\ pc' = "idle" /\ job' = NoJob /\ Counted
      /\ UNCHANGED <<files, disk, evidence, reports, candidate, todo>>
      /\ UNCHANGED <<author, outcome>>
  BY <1>1, SoundCounts DEF OpenDone, Ends, files, reports
<1>3. Intact' => Intact
  BY <1>1, <1>2 DEF Intact, TypeOK, Counted
<1>4. OrderOK'
  BY <1>1, <1>2, <1>3 DEF OrderOK, Unsettled, Unstarted
<1> QED
  BY <1>1, <1>2, <1>4, RestsQuietly DEF Resting

LEMMA StopOK == ASSUME IInv, Stop PROVE IInv'
<1>1. /\ pc' = "down" /\ job' = NoJob /\ todo' = {} /\ candidate' = FALSE /\ Counted
      /\ UNCHANGED <<files, disk, evidence, reports>>
  BY DEF Stop, Go, Counted, IInv, TypeOK
<1>2. OrderOK'
  BY <1>1 DEF OrderOK, Unsettled, Unstarted
<1> QED
  BY <1>1, <1>2, RestsQuietly DEF Resting

LEMMA OpenUnreadableOK == ASSUME IInv, NEW o \in Ops, OpenUnreadable(o) PROVE IInv'
<1>1. /\ pc = "open" /\ TypeOK /\ FilesOK /\ OrderOK /\ job.op \notin Ops
      /\ candidate = FALSE
  BY RestFacts DEF OpenUnreadable, At, Resting
<1>2. /\ pc' = "open" /\ job' = NoJob /\ todo' = todo \ {o}
      /\ UNCHANGED <<files, disk, evidence, reports, candidate>>
      /\ UNCHANGED <<author, outcome>>
      /\ \/ disk[o].phase = "torn" /\ Sound
         \/ tears' = tears + 1 /\ UNCHANGED <<edits, stops, faults>>
  BY DEF OpenUnreadable, Opened, Skips, files, reports
<1>3. Counted
  BY <1>1, <1>2, SoundCounts DEF Counted, TypeOK
<1>4. Intact' => Intact /\ disk[o].phase = "torn"
  BY <1>1, <1>2, <1>3 DEF Intact, TypeOK, Counted
<1>5. ~Intact'
  BY <1>1, <1>4 DEF FilesOK, Readable
<1>6. OrderOK'
  BY <1>1, <1>2, <1>5, Basics DEF OrderOK, Unsettled, Unstarted, Live
<1> QED
  BY <1>1, <1>2, <1>3, <1>6, RestsQuietly DEF Resting, TypeOK

\* A recovery that passes journals over is not Intact any more.
LEMMA SkipsQuietly ==
    ASSUME IInv, Skips, pc' = "open", job' = NoJob, todo' \subseteq Ops, candidate = FALSE,
           UNCHANGED <<files, disk, evidence, reports, candidate>>
    PROVE  IInv'
<1>1. tears \in Nat /\ tears' = tears + 1 /\ Counted
  BY DEF Skips, Counted, IInv, TypeOK
<1>2. ~Intact'
  BY <1>1 DEF Intact
<1>3. OrderOK'
  BY <1>2, Basics DEF OrderOK, Unsettled, Unstarted, Live
<1> QED
  BY <1>1, <1>3, RestsQuietly DEF Resting

LEMMA OpenUnboundOK == ASSUME IInv, OpenUnbound PROVE IInv'
<1>1. candidate = FALSE
  BY RestFacts DEF OpenUnbound, At, Resting
<1> QED
  BY <1>1, SkipsQuietly DEF OpenUnbound, Opened

LEMMA OpenThrowsOK == ASSUME IInv, OpenThrows PROVE IInv'
<1>1. candidate = FALSE /\ todo \subseteq Ops
  BY RollingFacts DEF OpenThrows, At, Rolling, Live, TypeOK
<1> QED
  BY <1>1, SkipsQuietly DEF OpenThrows, Opened

\* An opening reports on a journal, and goes on with the next.
LEMMA OpeningReports ==
    ASSUME IInv, pc \in {"open", "complete", "rollback"}, NEW o \in Ops,
           NEW status \in {"done", "failed", "conflict"}, Report(o, status),
           Opened, candidate = FALSE, Sound \/ Faulty,
           UNCHANGED <<tree, author, disk, images, retired, candidate>>,
           marked' \subseteq marked \union {o},
           sess' \in [Ops -> {"none", "forked", "installed", "used"}],
           todo \ {o} \subseteq todo', todo' \subseteq Ops,
           job.op \in Ops => job.op = o,
           status # "done" => disk[o].phase \notin {"done", "none"}
                              \/ (disk[o].phase # "done"
                                  /\ \A p \in Paths : author[p] # o),
           status = "failed" => \A p \in Paths : author[p] # o
    PROVE  IInv'
<1>1. TypeOK /\ FilesOK /\ OrderOK
  BY DEF IInv
<1>2. /\ outcome' \in [Ops -> {"none", "done", "failed", "conflict"}]
      /\ outcome'[o] = status /\ \A q \in Ops \ {o} : outcome'[q] = outcome[q]
      /\ completed' \subseteq Ops /\ Counted /\ pc' = "open" /\ job' = NoJob
  <2>1. status \in {"none", "done", "failed", "conflict"}
    OBVIOUS
  <2> QED
    BY <1>1, <2>1, ReportType, SoundCounts DEF Opened
<1>3. TypeOK'
  BY <1>1, <1>2, Basics DEF TypeOK, Counted
<1>4. FilesOK'
  BY <1>1, <1>2, FilesReported DEF Counted
<1>5. StepOK'
  BY <1>2, AtRest DEF Resting
<1>6. Unsettled'
  <2>1. Intact' => Intact
    BY <1>1, <1>2 DEF Intact, TypeOK, Counted
  <2> QED
    BY <1>1, <1>2, <2>1 DEF OrderOK, Unsettled
<1>7. Unstarted'
  BY <1>2, Basics DEF Unstarted, Live
<1> QED
  BY <1>3, <1>4, <1>5, <1>6, <1>7 DEF IInv, OrderOK

LEMMA OpenSettledOK == ASSUME IInv, NEW o \in Ops, OpenSettled(o) PROVE IInv'
<1> DEFINE status == IF disk[o].phase \in {"done", "conflict"} THEN disk[o].phase ELSE outcome[o]
<1>1. /\ pc = "open" /\ TypeOK /\ FilesOK /\ job.op \notin Ops /\ candidate = FALSE
  BY RestFacts DEF OpenSettled, At, Resting
<1>2. /\ Report(o, status) /\ Opened /\ Sound /\ todo' = todo \ {o}
      /\ UNCHANGED <<tree, author, marked, disk, images, retired, sess, candidate>>
      /\ disk[o].phase \in {"done", "conflict"} \/ o \in marked
  BY DEF OpenSettled, files, evidence
<1>3. /\ status \in {"done", "failed", "conflict"}
      /\ status # "done" => disk[o].phase # "done"
      /\ status # "done" /\ disk[o].phase = "none" => \A p \in Paths : author[p] # o
      /\ status = "failed" => \A p \in Paths : author[p] # o
  BY <1>1, <1>2 DEF FilesOK, ReportsOK, Gone, FailedLeavesNothing, TypeOK
<1> HIDE DEF status
<1>4. /\ sess' \in [Ops -> {"none", "forked", "installed", "used"}]
      /\ todo' \subseteq Ops /\ todo \ {o} \subseteq todo' /\ marked' \subseteq marked \union {o}
  BY <1>1, <1>2 DEF TypeOK
<1> QED
  BY <1>1, <1>2, <1>3, <1>4, OpeningReports

LEMMA OpenPendingOK == ASSUME IInv, NEW o \in Ops, OpenPending(o) PROVE IInv'
<1> DEFINE j == [NoJob EXCEPT !.op = o, !.mem = disk[o], !.left = DOMAIN disk[o].paths]
<1>1. /\ pc = "open" /\ TypeOK /\ FilesOK /\ OrderOK /\ job.op \notin Ops
      /\ candidate = FALSE
  BY RestFacts DEF OpenPending, At, Resting
<1>2. DOMAIN disk[o].paths \subseteq Paths /\ disk[o] \in JournalType
  BY <1>1, PathStatesType DEF TypeOK, JournalType
<1>3. /\ j \in JobType /\ j.op = o /\ j.mem = disk[o] /\ j.left = DOMAIN disk[o].paths
      /\ ~j.live
  BY <1>2 DEF NoJob, JobType
<1>4. /\ pc' = IF Completable(o) THEN "complete" ELSE "rollback"
      /\ job' = j /\ todo' = todo \ {o} /\ Sound
      /\ disk[o].phase \in {"prepared", "applying", "applied"}
      /\ UNCHANGED <<tree, author, marked, disk, images, retired, sess, outcome, completed,
                     candidate>>
  BY DEF OpenPending, Go, files, evidence, reports
<1> HIDE DEF j
<1>5. Counted /\ (Intact' => Intact)
  BY <1>1, <1>4, SoundCounts DEF Counted, Intact, TypeOK
<1>6. TypeOK'
  BY <1>1, <1>3, <1>4, <1>5 DEF TypeOK, Counted, LiveSteps
<1>7. FilesOK'
  BY <1>1, <1>4, <1>5, FilesKept DEF Counted
<1>8. JobOK' /\ LiveOK' /\ PlanOK'
  BY <1>3, <1>4 DEF JobOK, LiveOK, PlanOK, Live, Rolling
<1>9. RecoveryOK'
  BY <1>3, <1>4 DEF RecoveryOK, Completable, Good
<1>10. RollbackOK'
  BY <1>3, <1>4 DEF RollbackOK, Rolling
<1>11. OrderOK'
  BY <1>1, <1>3, <1>4, <1>5 DEF OrderOK, Unsettled, Unstarted, Live
<1> QED
  BY <1>6, <1>7, <1>8, <1>9, <1>10, <1>11 DEF IInv, StepOK

\* The journal a recovery works on is the one on disk, and pending.
LEMMA RecoveryFacts ==
    ASSUME IInv, pc = "complete" \/ (Rolling /\ ~Live)
    PROVE  /\ TypeOK /\ job \in JobType /\ job.op \in Ops /\ ~Live /\ candidate = FALSE
           /\ RecoveryOK /\ job.mem = disk[job.op] /\ job.mem \in JournalType
           /\ disk[job.op].phase \in {"prepared", "applying", "applied"}
<1>1. TypeOK /\ JobOK /\ RecoveryOK /\ LiveOK /\ OrderOK /\ job.op \in Ops
  BY DEF IInv, StepOK, JobOK, Rolling
<1>2. ~Live
  BY <1>1 DEF JobOK, LiveSteps
<1> QED
  BY <1>1, <1>2 DEF RecoveryOK, OrderOK, Unstarted, TypeOK, JobType

LEMMA CompleteOK == ASSUME IInv, Complete PROVE IInv'
<1>1. /\ pc = "complete" /\ TypeOK /\ job \in JobType /\ job.op \in Ops /\ ~Live
      /\ candidate = FALSE /\ RecoveryOK /\ FilesOK /\ OrderOK
      /\ job.left = DOMAIN job.mem.paths
      /\ disk[job.op].phase \in {"prepared", "applying", "applied"}
  BY RecoveryFacts DEF Complete, At, RecoveryOK, IInv
<1>2. UNCHANGED <<tree, author, disk, images, retired, candidate, todo>>
  BY DEF Complete
<1>3. CASE /\ Mark("done")
           /\ sess' = [sess EXCEPT ![job.op] = IF @ = "forked" THEN "installed" ELSE @]
  <2> DEFINE o == job.op
             status == "done"
  <2>1. /\ o \in Ops /\ status \in {"done", "failed", "conflict"} /\ status = "done"
        /\ Report(o, status) /\ Opened /\ (Sound \/ Faulty)
        /\ marked' \subseteq marked \union {o} /\ (job.op \in Ops => job.op = o)
    BY <1>1, <1>3 DEF Mark
  <2>2. /\ sess' \in [Ops -> {"none", "forked", "installed", "used"}]
        /\ todo \ {o} \subseteq todo' /\ todo' \subseteq Ops
        /\ pc \in {"open", "complete", "rollback"}
    BY <1>1, <1>2, <1>3 DEF TypeOK
  <2> HIDE DEF o, status
  <2> QED
    BY <1>1, <1>2, <2>1, <2>2, OpeningReports
<1>4. CASE /\ sess' \in {sess, [sess EXCEPT ![job.op] = "installed"]}
           /\ Go("rollback", job) /\ Faulty /\ UNCHANGED <<marked, reports>>
  <2>1. /\ pc' = "rollback" /\ job' = job /\ Counted /\ (Intact' => Intact)
        /\ UNCHANGED <<marked, outcome, completed>>
        /\ sess' \in [Ops -> {"none", "forked", "installed", "used"}]
    BY <1>1, <1>4, SoundCounts DEF Go, reports, Counted, Intact, TypeOK
  <2>2. TypeOK'
    BY <1>1, <1>2, <2>1 DEF TypeOK, Counted, LiveSteps
  <2>3. FilesOK'
    BY <1>1, <1>2, <2>1, FilesKept DEF Counted
  <2>4. JobOK' /\ LiveOK' /\ PlanOK' /\ RecoveryOK'
    BY <1>1, <1>2, <2>1 DEF JobOK, LiveOK, PlanOK, RecoveryOK, Live, Rolling
  <2>5. RollbackOK'
    BY <1>1, <2>1 DEF RollbackOK, Rolling
  <2>6. OrderOK'
    BY <1>1, <1>2, <2>1 DEF OrderOK, Unsettled, Unstarted, Live
  <2> QED
    BY <2>2, <2>3, <2>4, <2>5, <2>6 DEF IInv, StepOK
<1> QED
  BY <1>3, <1>4 DEF Complete

LEMMA OpenRolledBackOK == ASSUME IInv, OpenRolledBack PROVE IInv'
<1>1. /\ pc = "rollback" /\ TypeOK /\ job.op \in Ops /\ candidate = FALSE
      /\ job.left = {} /\ pc \in {"open", "complete", "rollback"}
      /\ disk[job.op].phase \in {"prepared", "applying", "applied"}
  BY RecoveryFacts DEF OpenRolledBack, At, Rolling, Live
<1>2. /\ UNCHANGED <<tree, author, disk, images, retired, candidate>>
      /\ sess' \in [Ops -> {"none", "forked", "installed", "used"}]
      /\ todo \ {job.op} \subseteq todo' /\ todo' \subseteq Ops
  BY <1>1 DEF OpenRolledBack, TypeOK, evidence
<1>3. CASE ~job.conflict /\ Mark("failed")
  <2> DEFINE o == job.op
             status == "failed"
  <2>1. /\ Report(o, status) /\ Opened /\ (Sound \/ Faulty)
        /\ marked' \subseteq marked \union {o}
        /\ status \in {"done", "failed", "conflict"}
    BY <1>3 DEF Mark
  <2>2. \A p \in Paths : author[p] # o
    BY <1>1, <1>3, RolledBack
  <2>3. /\ o \in Ops /\ (job.op \in Ops => job.op = o) /\ disk[o].phase \notin {"done", "none"}
        /\ todo \ {o} \subseteq todo'
    BY <1>1, <1>2
  <2> HIDE DEF o, status
  <2> QED
    BY <1>1, <1>2, <2>1, <2>2, <2>3, OpeningReports
<1>4. CASE Report(job.op, "conflict") /\ Opened /\ Sound /\ UNCHANGED marked
  <2>1. /\ marked' \subseteq marked \union {job.op}
        /\ "conflict" \in {"done", "failed", "conflict"}
    BY <1>4
  <2> QED
    BY <1>1, <1>2, <1>4, <2>1, OpeningReports
<1> QED
  BY <1>3, <1>4 DEF OpenRolledBack

LEMMA EditOK == ASSUME IInv, NEW p \in Paths, NEW v \in EditValues, Edit(p, v) PROVE IInv'
<1>1. /\ TypeOK /\ FilesOK /\ StepOK /\ OrderOK
  BY DEF IInv
<1>2. /\ Write(p, v, User) /\ v \in Values /\ Counted /\ (Intact' => Intact)
      /\ UNCHANGED <<disk, images, retired, sess, outcome, completed, candidate, pc, job, todo>>
  BY <1>1 DEF Edit, Values, evidence, reports, Counted, Intact, TypeOK
<1>3. /\ FilesOK'
      /\ tree' \in [Paths -> Values] /\ author' \in [Paths -> Ops \union {User}]
      /\ marked' \subseteq marked
      /\ tree'[p] = v /\ \A q \in Paths \ {p} : tree'[q] = tree[q]
      /\ author'[p] = User /\ \A q \in Paths \ {p} : author'[q] = author[q]
  BY <1>1, <1>2, UserWrites DEF Counted
<1>4. TypeOK'
  BY <1>1, <1>2, <1>3 DEF TypeOK, Counted
<1>5. \A q \in Paths, o \in Ops : author'[q] = o => author[q] = o
  BY <1>3, Basics
<1>6. JobOK'
  BY <1>1, <1>2 DEF StepOK, JobOK, Live, Rolling
<1>7. LiveOK'
  <2>1. Live => job.op \in Ops
    BY <1>1, Basics DEF StepOK, JobOK, Live
  <2>2. Live => \A q \in Paths : Mine(q)' => Mine(q)
    BY <1>2, <1>5, <2>1 DEF Mine
  <2> QED
    BY <1>1, <1>2, <2>2 DEF StepOK, LiveOK, Live, Early, Mine
<1>8. \A q \in Paths : (Good(q) => Good(q)') /\ (Same(q) => Same(q)')
  BY <1>2, <1>3 DEF Good, Same
<1>9. job.mem \in JournalType /\ DOMAIN job.mem.paths \subseteq Paths
      /\ job.left \subseteq Paths
  BY <1>1, PathStatesType DEF TypeOK, JobType, JournalType
<1>10. PlanOK'
  BY <1>1, <1>2, <1>8, <1>9 DEF StepOK, PlanOK, Live, Applying, Installed
<1>11. RecoveryOK'
  BY <1>1, <1>2, <1>8, <1>9 DEF StepOK, RecoveryOK, Live
<1>12. RollbackOK'
  <2>1. Rolling => job.op \in Ops
    BY <1>1 DEF StepOK, JobOK, Rolling
  <2>2. Rolling => \A q \in Paths : Mine(q)' => Mine(q)
    BY <1>2, <1>5, <2>1 DEF Mine
  <2>3. Current' = Current /\ Current \subseteq Paths
    BY <1>2, <1>9 DEF Current
  <2> QED
    BY <1>1, <1>2, <1>9, <2>2, <2>3 DEF StepOK, RollbackOK, Rolling
<1>13. OrderOK'
  BY <1>1, <1>2, <1>5 DEF OrderOK, Unsettled, Unstarted, Live
<1> QED
  BY <1>3, <1>4, <1>6, <1>7, <1>10, <1>11, <1>12, <1>13 DEF IInv, StepOK

LEMMA UseSessionOK == ASSUME IInv, NEW o \in Ops, UseSession(o) PROVE IInv'
<1>1. /\ pc = "idle" /\ TypeOK /\ FilesOK /\ OrderOK /\ job = NoJob
  BY RestFacts DEF UseSession, At, Resting
<1>2. /\ UNCHANGED <<tree, author, marked, disk, images, retired, outcome, completed,
                     candidate, pc, job, todo>>
      /\ Counted /\ (Intact' => Intact)
      /\ sess' \in [Ops -> {"none", "forked", "installed", "used"}]
  BY <1>1 DEF UseSession, files, reports, Counted, Intact, TypeOK
<1>3. TypeOK'
  BY <1>1, <1>2 DEF TypeOK, Counted
<1>4. FilesOK'
  BY <1>1, <1>2, FilesKept DEF Counted
<1>5. StepOK'
  BY <1>1, <1>2, AtRest DEF Resting
<1>6. OrderOK'
  BY <1>1, <1>2 DEF OrderOK, Unsettled, Unstarted, Live
<1> QED
  BY <1>3, <1>4, <1>5, <1>6 DEF IInv

LEMMA InitOK == ASSUME Init PROVE IInv
<1>1. TypeOK
  <2>1. Base \in [Paths -> Values] /\ {} \subseteq Ops
    BY TreeAssumption DEF Values
  <2> QED
    BY <2>1, Basics DEF Init, TypeOK
<1>2. FilesOK
  BY Basics DEF Init, FilesOK, Named, Gone, AuthorOK, DoneOnDisk, Readable, Held, ReportsOK,
                FailedLeavesNothing
<1>3. StepOK
  BY Basics DEF Init, StepOK, JobOK, LiveOK, PlanOK, RecoveryOK, RollbackOK, Live, Rolling
<1>4. OrderOK
  BY Basics DEF Init, OrderOK, Unsettled, Unstarted
<1> QED
  BY <1>1, <1>2, <1>3, <1>4 DEF IInv

LEMMA StutterOK == ASSUME IInv, UNCHANGED vars PROVE IInv'
<1>1. UNCHANGED <<tree, author, disk, images, retired, sess, marked, outcome, completed,
                  candidate, pc, job, todo, edits, stops, faults, tears>>
  BY DEF vars
<1>2. TypeOK' /\ FilesOK'
  BY <1>1 DEF IInv, TypeOK, FilesOK, Named, Gone, AuthorOK, DoneOnDisk, Readable, Held,
              ReportsOK, FailedLeavesNothing, Intact
<1>3. JobOK' /\ LiveOK'
  BY <1>1 DEF IInv, StepOK, JobOK, LiveOK, Live, Rolling, Early, Mine
<1>4. PlanOK' /\ RecoveryOK' /\ RollbackOK'
  BY <1>1 DEF IInv, StepOK, PlanOK, RecoveryOK, RollbackOK, Live, Rolling, Applying,
              Installed, Same, Good, Mine, Current
<1>5. OrderOK'
  BY <1>1 DEF IInv, OrderOK, Unsettled, Unstarted, Intact, Live
<1> QED
  BY <1>2, <1>3, <1>4, <1>5 DEF IInv, StepOK

LEMMA NextOK == ASSUME IInv, Next PROVE IInv'
<1>1. CASE Works
  <2>1. CASE \/ Capture \/ Gather \/ GatherSpill \/ GatherDone \/ Stage \/ Uncertain
             \/ Verify \/ VerifyDone \/ Apply \/ Install \/ ApplyDone
    BY <2>1, CaptureOK, GatherOK, GatherSpillOK, GatherDoneOK, StageOK, UncertainOK,
       VerifyOK, VerifyDoneOK, ApplyOK, InstallOK, ApplyDoneOK
  <2>2. CASE \/ PlanSession \/ ForkSession \/ MoveSession \/ RecordSession
             \/ Done \/ Finish \/ Fail \/ RemoveJournal
    BY <2>2, PlanSessionOK, ForkSessionOK, MoveSessionOK, RecordSessionOK, DoneOK,
       FinishOK, FailOK, RemoveJournalOK
  <2>3. CASE \/ Catch \/ RollbackLook \/ RollbackCheck \/ RollbackSwap \/ RollbackReread
             \/ LiveRolledBack \/ LiveConflict \/ ReportConflict
    BY <2>3, CatchOK, RollbackLookOK, RollbackCheckOK, RollbackSwapOK, RollbackRereadOK,
       LiveRolledBackOK, LiveConflictOK, ReportConflictOK
  <2>4. CASE Open \/ OpenUnbound \/ OpenThrows \/ Complete \/ OpenRolledBack \/ OpenDone
    BY <2>4, OpenOK, OpenUnboundOK, OpenThrowsOK, CompleteOK, OpenRolledBackOK, OpenDoneOK
  <2>5. CASE \E o \in Ops : OpenUnreadable(o) \/ OpenSettled(o) \/ OpenPending(o)
    BY <2>5, OpenUnreadableOK, OpenSettledOK, OpenPendingOK
  <2> QED
    BY <1>1, <2>1, <2>2, <2>3, <2>4, <2>5 DEF Works
<1>2. CASE Stop
  BY <1>2, StopOK
<1>3. CASE \E o \in Ops : Begin(o) \/ UseSession(o)
  BY <1>3, BeginOK, UseSessionOK
<1>4. CASE \E p \in Paths, v \in EditValues : Edit(p, v)
  BY <1>4, EditOK
<1> QED
  BY <1>1, <1>2, <1>3, <1>4 DEF Next

-----------------------------------------------------------------------------
(* The theorems.                                                           *)

\* The inductive invariant holds throughout.
THEOREM Invariance == Spec => []IInv
<1>1. IInv /\ [Next]_vars => IInv'
  BY NextOK, StutterOK
<1> QED
  BY InitOK, <1>1, PTL DEF Spec

\* The project, the journals and the application's state keep their types.
THEOREM TypeCorrect == Spec => []TypeOK
<1>1. IInv => TypeOK
  BY DEF IInv
<1> QED
  BY <1>1, Invariance, PTL

\* The process may die anywhere in promoteUnderTransaction (manager.ts), in its
\* rollback or in a recovery: as long as no journal was left unreadable, a file of a
\* promotion that was never reported complete has a journal on disk that names it,
\* in a phase recovery acts on or keeps, with its before-image.
THEOREM FilesAreCovered == Spec => []Covered
<1>1. IInv => Covered
  <2> SUFFICES ASSUME IInv, Intact, NEW o \in Ops, NEW p \in Paths,
                      author[p] = o, o \notin completed
               PROVE  /\ disk[o].phase \in {"applying", "applied", "conflict"}
                      /\ p \in DOMAIN disk[o].paths
                      /\ disk[o].paths[p] # Missing => p \in images[o]
    BY DEF Covered
  <2> QED
    BY DEF IInv, FilesOK, Held, Named
<1> QED
  BY <1>1, Invariance, PTL

\* recoverPromotionJournals (recovery.ts) runs before openProject (main.ts)
\* registers the project, so an open project holds no file of a promotion that
\* neither completed nor was reported as a conflict.
THEOREM OpenProjectsAreSettled == Spec => []OpenIsSettled
<1>1. IInv => OpenIsSettled
  <2> SUFFICES ASSUME IInv, Intact, pc = "idle", NEW o \in Ops, Half(o)
               PROVE  FALSE
    BY DEF OpenIsSettled
  <2>1. job = NoJob /\ job.op \notin Ops
    BY RestFacts DEF Resting
  <2>2. PICK p \in Paths : author[p] = o
    BY DEF Half
  <2>3. outcome[o] = "none"
    BY <2>2 DEF Half, IInv, FilesOK, FailedLeavesNothing, TypeOK
  <2>4. o \in todo
    BY <2>1, <2>2, <2>3 DEF IInv, OrderOK, Unsettled
  <2> QED
    BY <2>4 DEF IInv, OrderOK, Unstarted
<1> QED
  BY <1>1, Invariance, PTL

\* A promotion reported as failed, by itself after a rollback without conflicts
\* (rollbackPromotionPaths) or by a recovery, has left none of its files, whatever
\* the user wrote meanwhile.
THEOREM FailuresLeaveNothing == Spec => []FailedLeavesNothing
<1>1. IInv => FailedLeavesNothing
  BY DEF IInv, FilesOK
<1> QED
  BY <1>1, Invariance, PTL

\* What DoneIsWhole asks of one promotion in a step.
Whole(o) ==
    outcome'[o] = "done" /\ outcome[o] # "done" =>
        /\ sess'[o] \in {"installed", "used"}
        /\ \A p \in DOMAIN disk'[o].paths : tree[p] = Target[p] \/ tree[p] \in EditValues

\* Any other report.
LEMMA OtherReport ==
    ASSUME TypeOK, NEW o \in Ops, NEW status \in {"failed", "conflict"}, Report(o, status)
    PROVE  \A q \in Ops : Whole(q)
<1>1. status \in {"none", "done", "failed", "conflict"}
  OBVIOUS
<1>2. outcome'[o] = status /\ \A q \in Ops \ {o} : outcome'[q] = outcome[q]
  BY <1>1, ReportType
<1> QED
  BY <1>2 DEF Whole

LEMMA NoReport == ASSUME UNCHANGED reports PROVE \A q \in Ops : Whole(q)
BY DEF reports, Whole

LEMMA DoneWhole == ASSUME IInv, Done PROVE \A q \in Ops : Whole(q)
<1> DEFINE j == [job EXCEPT !.mem.phase = "done"]
           status == IF disk'[job.op].phase = "done" THEN "done" ELSE outcome[job.op]
<1>1. /\ pc = "done" /\ LiveOK /\ PlanOK /\ Installed /\ job \in JobType /\ TypeOK /\ Live
      /\ job.mem \in JournalType /\ job.op \in Ops
  BY LiveAt DEF Done, At, LiveSteps, Installed, TypeOK
<1>2. /\ j \in JobType /\ j.op = job.op /\ j.mem.paths = job.mem.paths
  BY <1>1 DEF JobType, JournalType, Phases
<1>3. writePromotionJournal(j, "finish", "catch", j) /\ Report(job.op, status) /\ UNCHANGED sess
  BY DEF Done, Saves, evidence
<1> HIDE DEF j
<1>4. \/ disk'[job.op] = disk[job.op]
      \/ disk'[job.op] = j.mem
      \/ disk'[job.op] = Torn
  BY <1>1, <1>2, <1>3, SaveStep
<1>5. DOMAIN disk'[job.op].paths \subseteq DOMAIN job.mem.paths
  BY <1>1, <1>2, <1>4, Basics DEF LiveOK
<1>6. \A q \in Ops \ {job.op} : outcome'[q] = outcome[q]
  BY <1>1, <1>3 DEF Report, TypeOK
<1>7. /\ sess[job.op] = "installed"
      /\ \A p \in DOMAIN job.mem.paths : tree[p] = Target[p] \/ tree[p] \in EditValues
  BY <1>1 DEF PlanOK, Good
<1> QED
  BY <1>3, <1>5, <1>6, <1>7 DEF Whole

LEMMA FinishWhole == ASSUME IInv, Finish PROVE \A q \in Ops : Whole(q)
<1>1. /\ pc = "finish" \/ (pc = "catch" /\ job.mem.phase = "done")
      /\ Live /\ LiveOK /\ PlanOK /\ TypeOK /\ job.op \in Ops
  BY LiveAt DEF Finish, At, LiveSteps
<1>2. /\ Report(job.op, "done") /\ UNCHANGED <<disk, sess>>
  BY DEF Finish, evidence
<1>3. \A q \in Ops \ {job.op} : outcome'[q] = outcome[q]
  BY <1>1, <1>2 DEF Report, TypeOK
<1>4. /\ sess[job.op] = "installed"
      /\ \A p \in DOMAIN job.mem.paths : tree[p] = Target[p] \/ tree[p] \in EditValues
      /\ DOMAIN disk[job.op].paths \subseteq DOMAIN job.mem.paths
  BY <1>1 DEF PlanOK, LiveOK, Good, Installed
<1> QED
  BY <1>2, <1>3, <1>4 DEF Whole

LEMMA OpenSettledWhole ==
    ASSUME IInv, NEW o \in Ops, OpenSettled(o)
    PROVE  \A q \in Ops : Whole(q)
<1>1. TypeOK /\ FilesOK
  BY DEF IInv
<1>2. Report(o, IF disk[o].phase \in {"done", "conflict"} THEN disk[o].phase ELSE outcome[o])
  BY DEF OpenSettled
<1>3. \A q \in Ops : outcome'[q] = "done" => outcome[q] = "done"
  BY <1>1, <1>2 DEF Report, TypeOK, FilesOK, DoneOnDisk
<1> QED
  BY <1>3 DEF Whole

LEMMA CompleteWhole == ASSUME IInv, Complete PROVE \A q \in Ops : Whole(q)
<1>1. /\ pc = "complete" /\ TypeOK /\ job.op \in Ops /\ ~Live /\ RecoveryOK
      /\ job.mem = disk[job.op]
  BY RecoveryFacts DEF Complete, At
<1>2. UNCHANGED disk
  BY DEF Complete
<1>3. CASE UNCHANGED reports
  BY <1>3, NoReport
<1>4. CASE /\ Report(job.op, "done")
           /\ sess' = [sess EXCEPT ![job.op] = IF @ = "forked" THEN "installed" ELSE @]
  <2>1. \A q \in Ops \ {job.op} : outcome'[q] = outcome[q]
    BY <1>1, <1>4 DEF Report, TypeOK
  <2>2. sess'[job.op] \in {"installed", "used"}
    BY <1>1, <1>4 DEF RecoveryOK, TypeOK
  <2>3. \A p \in DOMAIN disk[job.op].paths : tree[p] = Target[p] \/ tree[p] \in EditValues
    BY <1>1 DEF RecoveryOK, Good
  <2> QED
    BY <1>2, <2>1, <2>2, <2>3 DEF Whole
<1> QED
  BY <1>3, <1>4 DEF Complete, Mark, reports

LEMMA NextWhole == ASSUME IInv, Next PROVE \A q \in Ops : Whole(q)
<1>1. TypeOK /\ "failed" \in {"failed", "conflict"} /\ "conflict" \in {"failed", "conflict"}
  BY DEF IInv
<1>2. CASE Done \/ Finish \/ Complete \/ \E o \in Ops : OpenSettled(o)
  BY <1>2, DoneWhole, FinishWhole, CompleteWhole, OpenSettledWhole
<1>3. CASE Fail
  <2>1. Report(job.op, "failed") /\ job.op \in Ops
    BY <1>3, LiveAt DEF Fail, At, LiveSteps
  <2> QED
    BY <1>1, <2>1, OtherReport
<1>4. CASE Catch
  <2>1. job.op \in Ops
    BY <1>4, LiveAt DEF Catch, At, LiveSteps
  <2>2. UNCHANGED reports \/ Report(job.op, "conflict")
    BY <1>4 DEF Catch
  <2> QED
    BY <1>1, <2>1, <2>2, OtherReport, NoReport
<1>5. CASE LiveRolledBack
  <2>1. Report(job.op, "failed") /\ job.op \in Ops
    BY <1>5, RollingFacts DEF LiveRolledBack, At, Rolling
  <2> QED
    BY <1>1, <2>1, OtherReport
<1>6. CASE ReportConflict
  <2>1. Report(job.op, "conflict") /\ job.op \in Ops
    BY <1>6, LiveAt DEF ReportConflict, At, LiveSteps
  <2> QED
    BY <1>1, <2>1, OtherReport
<1>7. CASE OpenRolledBack
  <2>1. job.op \in Ops
    BY <1>7, RollingFacts DEF OpenRolledBack, At, Rolling
  <2>2. Report(job.op, "failed") \/ Report(job.op, "conflict")
    BY <1>7 DEF OpenRolledBack, Mark
  <2> QED
    BY <1>1, <2>1, <2>2, OtherReport
<1>8. CASE \/ Capture \/ Gather \/ GatherSpill \/ GatherDone \/ Stage \/ Uncertain
           \/ Verify \/ VerifyDone \/ Apply \/ Install \/ ApplyDone
           \/ PlanSession \/ ForkSession \/ MoveSession \/ RecordSession \/ RemoveJournal
  BY <1>8, NoReport
  DEF Capture, Gather, GatherSpill, GatherDone, Stage, Uncertain, Verify, VerifyDone, Apply,
      Install, ApplyDone, PlanSession, ForkSession, MoveSession, RecordSession, RemoveJournal
<1>9. CASE \/ RollbackLook \/ RollbackCheck \/ RollbackSwap \/ RollbackReread
           \/ LiveConflict \/ Open \/ OpenUnbound \/ OpenThrows \/ OpenDone \/ Stop
           \/ \E o \in Ops : \/ OpenUnreadable(o) \/ OpenPending(o)
                             \/ Begin(o) \/ UseSession(o)
           \/ \E p \in Paths, v \in EditValues : Edit(p, v)
  BY <1>9, NoReport
  DEF RollbackLook, RollbackCheck, RollbackSwap, RollbackReread, LiveConflict, Open, OpenDone,
      Stop, OpenUnbound, OpenThrows, OpenUnreadable, OpenPending, Begin, UseSession, Edit
<1> QED
  BY <1>2, <1>3, <1>4, <1>5, <1>6, <1>7, <1>8, <1>9 DEF Next, Works

\* A promotion is reported complete, by itself at the commit point or by
\* tryCompleteAppliedPromotion in a later process, only with every path installed,
\* or edited by the user since, and its session in place.
THEOREM CompletionsAreWhole == Spec => DoneIsWhole
<1>1. ASSUME IInv, [Next]_vars PROVE \A o \in Ops : Whole(o)
  <2>1. UNCHANGED vars => UNCHANGED reports
    BY DEF vars, reports
  <2> QED
    BY <1>1, <2>1, NextWhole, NoReport
<1>2. IInv /\ [Next]_vars =>
          [\A o \in Ops : outcome'[o] = "done" /\ outcome[o] # "done" =>
               /\ sess'[o] \in {"installed", "used"}
               /\ \A p \in DOMAIN disk'[o].paths :
                      tree[p] = Target[p] \/ tree[p] \in EditValues]_vars
  BY <1>1 DEF Whole
<1> QED
  BY <1>2, Invariance, PTL DEF Spec, DoneIsWhole
=============================================================================
