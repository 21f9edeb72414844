------------------------ MODULE RetentionLockProofs ------------------------
(***************************************************************************)
(* What a retention lease guarantees, for any number of processes,         *)
(* crashes, I/O errors and directories, whether or not inodes are used     *)
(* again.                                                                  *)
(*                                                                         *)
(* The argument: a process takes down only what belongs to a dead owner or *)
(* to itself (WantOK), so the record and the guard of a live holder stay   *)
(* where they are, the directory at the path is never empty under it, and  *)
(* every later listing shows them (RecordOK).  A validation asks for a     *)
(* listing of nothing but its own record and guard, so of two holders at   *)
(* most one can ever have such a listing (CleanOK).                        *)
(***************************************************************************)
EXTENDS RetentionLock, TLAPS

\* Where a process has a lock of its own, and where it takes one down.
OwnPcs == {"write", "fill", "guard", "held", "retire", "retired"}
WantPcs == {"claim", "rename", "moved", "rmguard", "unlink",
            "empty1", "empty2", "empty3", "empty4", "rmdir"}

FrameOK(p) ==
  /\ p \notin alive => proc[p].pc = "dead"
  /\ proc[p].ret # "none" <=> proc[p].pc \in {"look", "list", "read"}

MineOK(p) ==
  LET f == proc[p] IN
  /\ f.mine # NoOwner => f.mine.pid = p
  /\ f.pc \in OwnPcs \/ f.ret \in {"undo", "validate", "release"} => f.mine # NoOwner
  /\ f.pc \in {"idle", "dead", "mkdir", "stat"} \/ f.ret \in {"acquire", "resume"} => f.mine = NoOwner
  /\ f.mine = NoOwner /\ f.pc \notin {"idle", "dead"} => serial[p] < MaxTokens

\* What is being taken down is the lock of a dead owner, or the process's own.
WantOK(p) ==
  LET f == proc[p] IN
  f.pc \in WantPcs \/ f.ret \in {"cleanup", "afterGuard"} =>
    /\ f.want \in [kind : {"released", "recovered"}, owner : Owner]
    /\ \/ f.mine = NoOwner /\ f.want.owner.pid \notin alive
       \/ f.mine # NoOwner /\ f.want.owner = f.mine /\ f.pc \notin {"claim", "rename", "moved"}

\* The record of a live owner, once made, and the guard of a holder are there.
RecordOK(p) ==
  /\ proc[p].pc \in {"fill", "guard"} \/ Holds(p) => Named("record", proc[p].mine) \in Here
  /\ Holds(p) => Named("guard", proc[p].mine) \in Here

\* A lease that was validated, or is about to be.
Clean(p) ==
  \/ p \in proved
  \/ Reading(p, "validate") /\ proc[p].names \subseteq {Named(k, proc[p].mine) : k \in {"record", "guard"}}

CleanOK ==
  /\ \A p \in proved : Holds(p)
  /\ \A p, q \in Procs : Clean(p) /\ Clean(q) => p = q

\* The process that made the directory at the path, while every process lives.
Owning(p) == At(p, "stat") \/ proc[p].mine # NoOwner

AllLiveOK ==
  alive = Procs =>
    /\ \A p \in Procs : Owning(p) => at # Absent
    /\ \A p, q \in Procs : Owning(p) /\ Owning(q) => p = q

IInv ==
  /\ TypeOK
  /\ \A p \in Procs : FrameOK(p) /\ MineOK(p) /\ WantOK(p) /\ RecordOK(p)
  /\ CleanOK /\ AllLiveOK

-----------------------------------------------------------------------------
(* Frames *)

Others(p) ==
  /\ proc' \in [Procs -> Frame]
  /\ \A q \in Procs : q # p => proc'[q] = proc[q]

Pcs == {"idle", "mkdir", "stat", "write", "fill", "guard", "held", "look",
        "list", "read", "claim", "rename", "moved", "retire", "retired",
        "rmguard", "unlink", "empty1", "empty2", "empty3", "empty4",
        "rmdir", "dead"}

LEMMA FrameFacts ==
  ASSUME TypeOK, NEW p \in Procs
  PROVE  /\ proc[p] \in Frame
         /\ proc[p].pc \in Pcs /\ proc[p].ret \in Inspections \cup {"none"}
         /\ proc[p].dir \in Inodes \cup {Absent} /\ proc[p].names \subseteq Entry
         /\ proc[p].mine \in Owner \cup {NoOwner}
BY DEF TypeOK, Frame, Pcs

LEMMA FreshFacts ==
  /\ Fresh \in Frame /\ Fresh.pc = "idle" /\ Fresh.ret = "none" /\ Fresh.names = {}
  /\ Fresh.mine = NoOwner /\ Fresh.want = NotFound /\ Fresh.dir = Absent
BY DEF Fresh, Frame

LEMMA GotoFacts ==
  ASSUME TypeOK, NEW p \in Procs, NEW x \in Pcs, Goto(p, x)
  PROVE  /\ Others(p)
         /\ proc'[p].pc = x /\ proc'[p].ret = proc[p].ret /\ proc'[p].dir = proc[p].dir
         /\ proc'[p].names = proc[p].names /\ proc'[p].mine = proc[p].mine /\ proc'[p].want = proc[p].want
<1>1. proc' = [proc EXCEPT ![p] = [proc[p] EXCEPT !.pc = x]]
  BY DEF Goto, TypeOK
<1>2. [proc[p] EXCEPT !.pc = x] \in Frame
  BY FrameFacts DEF Frame, Pcs
<1> QED BY <1>1, <1>2, FrameFacts DEF TypeOK, Others, Frame

LEMMA InspectFacts ==
  ASSUME TypeOK, NEW p \in Procs, NEW r \in Inspections, Inspect(p, r)
  PROVE  /\ Others(p)
         /\ proc'[p].pc = "look" /\ proc'[p].ret = r /\ proc'[p].dir = proc[p].dir
         /\ proc'[p].names = proc[p].names /\ proc'[p].mine = proc[p].mine /\ proc'[p].want = proc[p].want
<1> DEFINE f == [proc[p] EXCEPT !.pc = "look", !.ret = r]
<1>1. proc' = [proc EXCEPT ![p] = f]
  BY DEF Inspect, TypeOK
<1>2. f \in Frame
  BY FrameFacts DEF Frame
<1> QED BY <1>1, <1>2, FrameFacts DEF TypeOK, Others, Frame

LEMMA ReturnFacts ==
  ASSUME TypeOK, NEW p \in Procs, NEW x \in Pcs, Return(p, x)
  PROVE  /\ Others(p)
         /\ proc'[p].pc = x /\ proc'[p].ret = "none" /\ proc'[p].names = {}
         /\ proc'[p].mine = proc[p].mine /\ proc'[p].want = proc[p].want
<1>1. Answered(p, x) \in Frame
  BY FrameFacts, ZenonT(60) DEF Frame, Pcs, Answered
<1> QED BY <1>1, FrameFacts DEF Return, Answered, TypeOK, Others, Frame

LEMMA LeaveFacts ==
  ASSUME TypeOK, NEW p \in Procs, Leave(p)
  PROVE  Others(p) /\ proc'[p] = Fresh
BY FreshFacts DEF Leave, TypeOK, Others

LEMMA CleanedFacts ==
  ASSUME TypeOK, NEW p \in Procs, NEW ok, Cleaned(p, ok)
  PROVE  /\ Others(p)
         /\ proc'[p].ret = "none" /\ proc'[p].names = {} /\ proc'[p].mine = NoOwner /\ proc'[p].want = NotFound
         /\ proc'[p].pc = "idle" \/ (proc'[p].pc = "mkdir" /\ proc[p].mine = NoOwner)
<1>1. CASE ok /\ proc[p].mine = NoOwner
  <2> DEFINE f == [Fresh EXCEPT !.pc = "mkdir"]
  <2>1. proc' = [proc EXCEPT ![p] = f]
    BY <1>1 DEF Cleaned
  <2>2. f \in Frame /\ f.pc = "mkdir" /\ f.ret = "none" /\ f.names = {} /\ f.mine = NoOwner /\ f.want = NotFound
    BY DEF Frame, Fresh
  <2> HIDE DEF f
  <2> QED BY <1>1, <2>1, <2>2 DEF TypeOK, Others
<1>2. CASE ~(ok /\ proc[p].mine = NoOwner)
  <2>1. Leave(p)
    BY <1>2 DEF Cleaned
  <2> QED BY <2>1, LeaveFacts, FreshFacts
<1> QED BY <1>1, <1>2

\* What an inspection answers was listed, is there, and is nobody else's.
LEMMA FoundFacts ==
  ASSUME TypeOK, NEW p \in Procs, Found(p) # NotFound
  PROVE  LET f == Found(p) IN
         /\ f \in Finding /\ f.kind \in Sought(proc[p].ret) /\ f.owner \in Owner
         /\ proc[p].names \subseteq {Named(f.kind, f.owner), Named("guard", f.owner)}
         /\ Named(f.kind, f.owner) \in proc[p].names
<1> DEFINE fr == proc[p]
           hits == {e \in fr.names : e.kind \in Sought(fr.ret)}
           c == CHOOSE x \in hits : TRUE
<1>1. PICK e \in hits : hits = {e} /\ fr.names \subseteq {e, Named("guard", e.owner)}
  BY DEF Found
<1>2. c = e
  BY <1>1
<1>3. Found(p) = [kind |-> e.kind, owner |-> e.owner, guarded |-> Named("guard", e.owner) \in fr.names]
  <2>1. \E x \in hits : /\ hits = {x} /\ fr.names \subseteq {x, Named("guard", x.owner)}
                        /\ fr.names \subseteq Here /\ x.owner.ino = fr.dir /\ x.owner \notin blank
    BY DEF Found
  <2> QED BY <1>2, <2>1 DEF Found
<1>4. e \in Entry /\ e = Named(e.kind, e.owner)
  BY <1>1, FrameFacts DEF Entry, Named
<1>5. e.kind \in {"record", "released", "recovered"}
  BY <1>1 DEF Sought
<1> QED BY <1>1, <1>3, <1>4, <1>5 DEF Finding, Entry

-----------------------------------------------------------------------------
(* What a step of one process must not disturb. *)

\* No record and no guard of another live process goes.
Keeps(p) ==
  \A e \in Here : e.kind \in {"record", "guard"} /\ e.owner.pid \in alive \ {p} => e \in Here'

LEMMA StepIInv ==
  ASSUME IInv, NEW p \in Procs, Others(p), alive' = alive,
         at' \in Inodes \cup {Absent}, entries' \in [Inodes -> SUBSET Entry],
         blank' \subseteq Owner, used' \subseteq Inodes, faults' \in 0 .. MaxFaults,
         serial' \in [Procs -> 0 .. MaxTokens], \A q \in Procs : q # p => serial'[q] = serial[q],
         FrameOK(p)', MineOK(p)', WantOK(p)', RecordOK(p)',
         Keeps(p),
         proved' \subseteq alive, \A q \in Procs : q # p => (q \in proved' <=> q \in proved),
         p \in proved' => Holds(p)',
         Clean(p)' => Clean(p) \/ \A q \in Procs : q # p => ~Clean(q),
         alive = Procs => /\ Owning(p)' => at' # Absent
                          /\ Owning(p)' => Owning(p) \/ \A q \in Procs : ~Owning(q)
                          /\ at' = Absent /\ at # Absent => Owning(p)
  PROVE  IInv'
<1>1. TypeOK'
  BY DEF IInv, TypeOK, Others
<1>2. ASSUME NEW q \in Procs, q # p
      PROVE  /\ FrameOK(q)' /\ MineOK(q)' /\ WantOK(q)' /\ RecordOK(q)'
             /\ (Holds(q)' <=> Holds(q)) /\ (Clean(q)' <=> Clean(q)) /\ (Owning(q)' <=> Owning(q))
  <2>1. proc'[q] = proc[q] /\ serial'[q] = serial[q]
    BY <1>2 DEF Others
  <2>2. FrameOK(q)' /\ MineOK(q)' /\ WantOK(q)'
    BY <1>2, <2>1 DEF IInv, FrameOK, MineOK, WantOK
  <2>3. (Holds(q)' <=> Holds(q)) /\ (Clean(q)' <=> Clean(q)) /\ (Owning(q)' <=> Owning(q))
    BY <1>2, <2>1 DEF Holds, Clean, Owning, At, Reading
  <2>4. RecordOK(q)'
    <3>1. ASSUME NEW k \in {"record", "guard"}, Named(k, proc[q].mine) \in Here, q \in alive,
                 proc[q].mine # NoOwner
          PROVE  Named(k, proc[q].mine) \in Here'
      <4>1. proc[q].mine.pid = q
        BY <1>2, <3>1 DEF IInv, MineOK
      <4> QED BY <1>2, <3>1, <4>1 DEF Keeps, Named
    <3>2. proc[q].pc \in {"fill", "guard"} \/ Holds(q) => q \in alive /\ proc[q].mine # NoOwner
      BY <1>2 DEF IInv, FrameOK, MineOK, Holds, At, OwnPcs
    <3>3. RecordOK(q)
      BY <1>2 DEF IInv
    <3> QED BY <2>1, <2>3, <3>1, <3>2, <3>3 DEF RecordOK
  <2> QED BY <2>2, <2>3, <2>4
<1>3. CleanOK'
  <2>1. \A q \in proved' : q \in Procs /\ Holds(q)'
    BY <1>1, <1>2 DEF IInv, CleanOK, TypeOK
  <2>2. \A q, r \in Procs : Clean(q)' /\ Clean(r)' => q = r
    BY <1>2 DEF IInv, CleanOK
  <2> QED BY <2>1, <2>2 DEF CleanOK
<1>4. AllLiveOK'
  <2> SUFFICES ASSUME alive = Procs PROVE AllLiveOK'
    BY DEF AllLiveOK
  <2>1. ASSUME NEW q \in Procs, Owning(q)'
        PROVE  at' # Absent
    BY <1>2, <2>1 DEF IInv, AllLiveOK
  <2>2. ASSUME NEW q \in Procs, NEW r \in Procs, Owning(q)', Owning(r)'
        PROVE  q = r
    BY <1>2, <2>2 DEF IInv, AllLiveOK
  <2> QED BY <2>1, <2>2 DEF AllLiveOK
<1> QED BY <1>1, <1>2, <1>3, <1>4 DEF IInv

\* A step that touches no directory.
LEMMA QuietIInv ==
  ASSUME IInv, NEW p \in Procs, Others(p), UNCHANGED <<Disk, alive>>,
         faults' \in 0 .. MaxFaults,
         serial' \in [Procs -> 0 .. MaxTokens], \A q \in Procs : q # p => serial'[q] = serial[q],
         FrameOK(p)', MineOK(p)', WantOK(p)', RecordOK(p)',
         proved' \subseteq alive, \A q \in Procs : q # p => (q \in proved' <=> q \in proved),
         p \in proved' => Holds(p)',
         Clean(p)' => Clean(p) \/ \A q \in Procs : q # p => ~Clean(q),
         Owning(p)' => Owning(p)
  PROVE  IInv'
<1>1. at' \in Inodes \cup {Absent} /\ entries' \in [Inodes -> SUBSET Entry] /\ blank' \subseteq Owner /\ used' \subseteq Inodes
  BY DEF IInv, TypeOK, Disk
<1>2. Keeps(p)
  BY DEF Keeps, Here, Disk
<1>3. alive = Procs => /\ Owning(p)' => at' # Absent
                       /\ Owning(p)' => Owning(p) \/ \A q \in Procs : ~Owning(q)
                       /\ at' = Absent /\ at # Absent => Owning(p)
  BY DEF IInv, AllLiveOK, Disk
<1> QED BY <1>1, <1>2, <1>3, StepIInv

\* A step of the process outside its own holding proves nothing.
LEMMA Unproved ==
  ASSUME IInv, NEW p \in Procs, proved' = proved, ~Holds(p)
  PROVE  p \notin proved /\ p \notin proved'
BY DEF IInv, CleanOK

\* A step of a process that is not handed the lock, before or after.
LEMMA AwayIInv ==
  ASSUME IInv, NEW p \in Procs, Others(p), UNCHANGED <<Disk, Rest, proved>>,
         ~Holds(p), ~Holds(p)', proc'[p].pc \notin {"fill", "guard"},
         FrameOK(p)', MineOK(p)', WantOK(p)', Owning(p)' => Owning(p)
  PROVE  IInv'
<1>1. p \notin proved /\ p \notin proved'
  BY Unproved
<1>2. RecordOK(p)'
  BY DEF RecordOK
<1>3. ~Clean(p)'
  BY <1>1 DEF Clean, Reading, Holds
<1>4. /\ faults' \in 0 .. MaxFaults /\ serial' \in [Procs -> 0 .. MaxTokens] /\ serial' = serial
      /\ proved' \subseteq alive /\ alive' = alive
  BY DEF IInv, TypeOK, Rest
<1> QED BY <1>1, <1>2, <1>3, <1>4, QuietIInv

LEMMA Alive ==
  ASSUME IInv, NEW p \in Procs, proc[p].pc # "dead"
  PROVE  p \in alive
BY DEF IInv, FrameOK

LEMMA Constants ==
  /\ NoOwner \notin Owner /\ Absent \notin Inodes /\ MaxTokens \in Nat /\ MaxFaults \in Nat
BY RetentionLockAssumption, NoOwnerAssumption

-----------------------------------------------------------------------------
(* Inspections *)

LEMMA LookIInv == ASSUME IInv, NEW p \in Procs, Look(p) PROVE IInv'
<1>1. /\ Others(p) /\ proc'[p].pc \in {"read", "list"} /\ proc'[p].ret = proc[p].ret
      /\ proc'[p].mine = proc[p].mine /\ proc'[p].want = proc[p].want /\ proc'[p].names = proc[p].names
  <2>1. CASE at = Absent
    BY <2>1, GotoFacts DEF Look, IInv, Pcs
  <2>2. CASE at # Absent
    <3> DEFINE f == [proc[p] EXCEPT !.pc = "list", !.dir = at]
    <3>1. proc' = [proc EXCEPT ![p] = f]
      BY <2>2 DEF Look, IInv, TypeOK
    <3>2. f \in Frame
      BY FrameFacts, ZenonT(60) DEF Frame, IInv, TypeOK
    <3> QED BY <3>1, <3>2, FrameFacts DEF IInv, TypeOK, Others, Frame
  <2> QED BY <2>1, <2>2
<1>2. proc[p].pc = "look" /\ UNCHANGED <<Disk, Rest, proved>>
  BY DEF Look, At
<1>3. FrameOK(p) /\ MineOK(p) /\ WantOK(p) /\ RecordOK(p) /\ TypeOK
  BY DEF IInv
<1>4. FrameOK(p)' /\ MineOK(p)' /\ WantOK(p)'
  BY <1>1, <1>2, <1>3 DEF FrameOK, MineOK, WantOK, OwnPcs, WantPcs, Rest
<1>5. RecordOK(p)' /\ (Holds(p)' <=> Holds(p)) /\ (Owning(p)' => Owning(p))
  BY <1>1, <1>2, <1>3 DEF RecordOK, Holds, At, Owning, Here, Disk
<1>6. Clean(p)' => Clean(p)
  <2>1. CASE at = Absent
    <3>1. ~Holds(p)
      BY <1>3, <2>1 DEF RecordOK, Here
    <3> QED BY <1>1, <1>2, <3>1 DEF Clean, Reading, Holds
  <2>2. CASE at # Absent
    <3>1. proc'[p].pc = "list"
      BY <2>2, <1>2, <1>3, FrameFacts DEF Look, TypeOK, Frame
    <3> QED BY <1>2, <3>1 DEF Clean, Reading, At
  <2> QED BY <2>1, <2>2
<1>7. /\ faults' \in 0 .. MaxFaults /\ serial' \in [Procs -> 0 .. MaxTokens] /\ serial' = serial
      /\ proved' \subseteq alive /\ proved' = proved /\ alive' = alive /\ (p \in proved' => Holds(p)')
  BY <1>2, <1>3, <1>5 DEF IInv, TypeOK, Rest, CleanOK
<1> QED BY <1>1, <1>2, <1>4, <1>5, <1>6, <1>7, QuietIInv

\* Whatever a listing shows, another holder's record is in it.
LEMMA ListIInv == ASSUME IInv, NEW p \in Procs, List(p) PROVE IInv'
<1>1. FrameOK(p) /\ MineOK(p) /\ WantOK(p) /\ RecordOK(p) /\ TypeOK
  BY DEF IInv
<1>2. /\ Others(p) /\ proc'[p].pc = "read" /\ proc'[p].ret = proc[p].ret
      /\ proc'[p].mine = proc[p].mine /\ proc'[p].want = proc[p].want /\ proc'[p].names = Here
  <2> DEFINE f == [proc[p] EXCEPT !.pc = "read", !.names = Here]
  <2>1. proc' = [proc EXCEPT ![p] = f]
    BY <1>1 DEF List, TypeOK
  <2>2. Here \subseteq Entry
    BY <1>1 DEF Here, TypeOK
  <2>3. f \in Frame
    BY <1>1, <2>2, FrameFacts DEF Frame
  <2> QED BY <1>1, <2>1, <2>3, FrameFacts DEF TypeOK, Others, Frame
<1>3. proc[p].pc = "list" /\ UNCHANGED <<Disk, Rest, proved>>
  BY DEF List, At
<1>4. FrameOK(p)' /\ MineOK(p)' /\ WantOK(p)'
  BY <1>1, <1>2, <1>3 DEF FrameOK, MineOK, WantOK, OwnPcs, WantPcs, Rest
<1>5. RecordOK(p)' /\ (Holds(p)' <=> Holds(p)) /\ (Owning(p)' => Owning(p))
  BY <1>1, <1>2, <1>3 DEF RecordOK, Holds, At, Owning, Here, Disk
<1>6. ASSUME Clean(p)', NEW q \in Procs, q # p, Clean(q)
      PROVE  Clean(p)
  <2>1. CASE p \in proved
    BY <2>1 DEF Clean
  <2>2. CASE p \notin proved
    <3>1. Here \subseteq {Named(k, proc[p].mine) : k \in {"record", "guard"}} /\ proc[p].ret = "validate"
      BY <1>2, <1>3, <1>6, <2>2 DEF Clean, Reading
    <3>2. Holds(q)
      BY <1>6 DEF IInv, CleanOK, Clean, Reading, Holds
    <3>3. Named("record", proc[q].mine) \in Here /\ proc[q].mine # NoOwner /\ proc[q].mine.pid = q
      BY <3>2 DEF IInv, RecordOK, MineOK, Holds, At, OwnPcs
    <3>4. proc[p].mine # NoOwner /\ proc[p].mine.pid = p
      BY <1>1, <3>1 DEF MineOK
    <3> QED BY <1>6, <3>1, <3>3, <3>4 DEF Named
  <2> QED BY <2>1, <2>2
<1>7. /\ faults' \in 0 .. MaxFaults /\ serial' \in [Procs -> 0 .. MaxTokens] /\ serial' = serial
      /\ proved' \subseteq alive /\ proved' = proved /\ alive' = alive /\ (p \in proved' => Holds(p)')
  BY <1>3, <1>5 DEF IInv, TypeOK, Rest, CleanOK
<1>8. Clean(p)' => Clean(p) \/ \A q \in Procs : q # p => ~Clean(q)
  BY <1>6
<1> QED BY <1>2, <1>3, <1>4, <1>5, <1>7, <1>8, QuietIInv

-----------------------------------------------------------------------------
(* acquireSessionRetentionLock *)

LEMMA BeginIInv == ASSUME IInv, NEW p \in Procs, Begin(p) PROVE IInv'
<1>1. FrameOK(p) /\ MineOK(p) /\ TypeOK
  BY DEF IInv
<1>2. /\ Others(p) /\ proc'[p].pc = "mkdir" /\ proc'[p].ret = proc[p].ret /\ proc'[p].mine = proc[p].mine
  BY <1>1, GotoFacts DEF Begin, Pcs
<1>3. proc[p].pc = "idle" /\ serial[p] < MaxTokens /\ UNCHANGED <<Disk, Rest, proved>>
  BY DEF Begin, At, Asks
<1>4. FrameOK(p)' /\ MineOK(p)' /\ WantOK(p)'
  BY <1>1, <1>2, <1>3 DEF FrameOK, MineOK, WantOK, OwnPcs, WantPcs, Rest
<1>5. ~Holds(p) /\ ~Holds(p)' /\ (Owning(p)' => Owning(p))
  BY <1>1, <1>2, <1>3 DEF FrameOK, Holds, At, Owning
<1> QED BY <1>2, <1>3, <1>4, <1>5, AwayIInv

\* The directory made is empty, and while every process lives nobody else has
\* one.
LEMMA MkdirIInv == ASSUME IInv, NEW p \in Procs, Mkdir(p) PROVE IInv'
<1>1. FrameOK(p) /\ MineOK(p) /\ TypeOK
  BY DEF IInv
<1>2. /\ Others(p) /\ proc'[p].pc = "stat" /\ proc'[p].ret = proc[p].ret /\ proc'[p].mine = proc[p].mine
  BY <1>1, GotoFacts DEF Mkdir, Pcs
<1>3. /\ proc[p].pc = "mkdir" /\ at = Absent /\ UNCHANGED <<blank, Rest, proved>>
      /\ at' \in Inodes /\ entries' \in [Inodes -> SUBSET Entry] /\ used' \subseteq Inodes
  BY <1>1 DEF Mkdir, At, TypeOK
<1>4. FrameOK(p)' /\ MineOK(p)' /\ WantOK(p)'
  BY <1>1, <1>2, <1>3 DEF FrameOK, MineOK, WantOK, OwnPcs, WantPcs, Rest
<1>5. ~Holds(p) /\ ~Holds(p)'
  BY <1>1, <1>2, <1>3 DEF FrameOK, Holds, At
<1>6. p \notin proved /\ p \notin proved' /\ ~Clean(p)' /\ RecordOK(p)'
  BY <1>2, <1>3, <1>5, Unproved DEF Clean, Reading, Holds, At, RecordOK
<1>7. Keeps(p)
  BY <1>3 DEF Keeps, Here
<1>8. alive = Procs => \A q \in Procs : ~Owning(q)
  BY <1>3 DEF IInv, AllLiveOK
<1>9. /\ faults' \in 0 .. MaxFaults /\ serial' \in [Procs -> 0 .. MaxTokens] /\ serial' = serial
      /\ proved' \subseteq alive /\ proved' = proved /\ alive' = alive /\ blank' \subseteq Owner
  BY <1>1, <1>3 DEF TypeOK, Rest
<1> QED BY <1>2, <1>3, <1>4, <1>6, <1>7, <1>8, <1>9, Constants, StepIInv

LEMMA MkdirExistsIInv == ASSUME IInv, NEW p \in Procs, MkdirExists(p) PROVE IInv'
<1>1. FrameOK(p) /\ MineOK(p) /\ TypeOK
  BY DEF IInv
<1>2. /\ Others(p) /\ proc'[p].pc = "look" /\ proc'[p].ret = "acquire" /\ proc'[p].mine = proc[p].mine
  BY <1>1, InspectFacts DEF MkdirExists, Inspections
<1>3. proc[p].pc = "mkdir" /\ UNCHANGED <<Disk, Rest, proved>>
  BY DEF MkdirExists, At
<1>4. FrameOK(p)' /\ MineOK(p)' /\ WantOK(p)'
  BY <1>1, <1>2, <1>3 DEF FrameOK, MineOK, WantOK, OwnPcs, WantPcs, Rest
<1>5. ~Holds(p) /\ ~Holds(p)' /\ (Owning(p)' => Owning(p))
  BY <1>1, <1>2, <1>3 DEF FrameOK, Holds, At, Owning
<1> QED BY <1>2, <1>3, <1>4, <1>5, AwayIInv

LEMMA StatNewIInv == ASSUME IInv, NEW p \in Procs, StatNew(p) PROVE IInv'
<1>1. FrameOK(p) /\ MineOK(p) /\ TypeOK
  BY DEF IInv
<1>2. proc[p].pc = "stat" /\ UNCHANGED <<Disk, alive, faults, proved>>
  BY DEF StatNew, At
<1>3. CASE at = Absent
  <2>1. Others(p) /\ proc'[p] = Fresh /\ serial' = serial
    BY <1>1, <1>3, LeaveFacts DEF StatNew
  <2>2. FrameOK(p)' /\ MineOK(p)' /\ WantOK(p)'
    BY <1>1, <1>2, <2>1, FreshFacts DEF FrameOK, MineOK, WantOK, OwnPcs, WantPcs
  <2>3. ~Holds(p) /\ ~Holds(p)' /\ (Owning(p)' => Owning(p)) /\ proc'[p].pc \notin {"fill", "guard"}
    BY <1>1, <1>2, <2>1, FreshFacts DEF FrameOK, Holds, At, Owning
  <2> QED BY <1>2, <2>1, <2>2, <2>3, AwayIInv DEF Rest
<1>4. CASE at # Absent
  <2> DEFINE o == [pid |-> p, token |-> serial[p] + 1, ino |-> at]
             f == [proc[p] EXCEPT !.pc = "write", !.mine = o]
  <2>1. serial[p] + 1 \in 1 .. MaxTokens /\ serial' = [serial EXCEPT ![p] = serial[p] + 1]
    BY <1>1, <1>2, <1>4, Constants DEF MineOK, TypeOK, StatNew
  <2>2. o \in Owner
    BY <1>1, <1>4, <2>1 DEF Owner, TypeOK
  <2>3. proc' = [proc EXCEPT ![p] = f]
    BY <1>1, <1>4 DEF StatNew, TypeOK
  <2>4. f \in Frame
    BY <1>1, <2>2, FrameFacts DEF Frame
  <2>5. o.pid = p
    OBVIOUS
  <2>6. /\ Others(p) /\ proc'[p].pc = "write" /\ proc'[p].ret = proc[p].ret /\ proc'[p].mine = o
    BY <1>1, <2>3, <2>4, FrameFacts DEF TypeOK, Others, Frame
  <2> HIDE DEF o, f
  <2>7. FrameOK(p)' /\ MineOK(p)' /\ WantOK(p)'
    BY <1>1, <1>2, <2>2, <2>5, <2>6, Constants DEF FrameOK, MineOK, WantOK, OwnPcs, WantPcs
  <2>8. ~Holds(p) /\ ~Holds(p)' /\ Owning(p)
    BY <1>1, <1>2, <2>6 DEF FrameOK, Holds, At, Owning
  <2>9. p \notin proved /\ p \notin proved' /\ ~Clean(p)' /\ RecordOK(p)'
    BY <1>2, <2>6, <2>8, Unproved DEF Clean, Reading, Holds, At, RecordOK
  <2>10. /\ faults' \in 0 .. MaxFaults /\ serial' \in [Procs -> 0 .. MaxTokens]
         /\ \A q \in Procs : q # p => serial'[q] = serial[q]
         /\ proved' \subseteq alive /\ proved' = proved /\ alive' = alive
    BY <1>1, <1>2, <2>1 DEF TypeOK
  <2> QED BY <1>2, <2>6, <2>7, <2>8, <2>9, <2>10, QuietIInv
<1> QED BY <1>3, <1>4

\* A step that changes what is in the directories, of a process that is not
\* handed the lock before it.
LEMMA WriteIInv ==
  ASSUME IInv, NEW p \in Procs, Others(p), UNCHANGED <<at, used, Rest, proved>>,
         entries' \in [Inodes -> SUBSET Entry], blank' \subseteq Owner,
         ~Holds(p), proc'[p].pc # "read",
         FrameOK(p)', MineOK(p)', WantOK(p)', RecordOK(p)', Keeps(p), Owning(p)' => Owning(p)
  PROVE  IInv'
<1>1. p \notin proved /\ p \notin proved'
  BY Unproved
<1>2. ~Clean(p)'
  BY <1>1 DEF Clean, Reading, At
<1>3. /\ faults' \in 0 .. MaxFaults /\ serial' \in [Procs -> 0 .. MaxTokens] /\ serial' = serial
      /\ proved' \subseteq alive /\ alive' = alive /\ at' \in Inodes \cup {Absent} /\ used' \subseteq Inodes
  BY DEF IInv, TypeOK, Rest
<1>4. alive = Procs => /\ Owning(p)' => at' # Absent
                       /\ Owning(p)' => Owning(p) \/ \A q \in Procs : ~Owning(q)
                       /\ at' = Absent /\ at # Absent => Owning(p)
  BY DEF IInv, AllLiveOK
<1> QED BY <1>1, <1>2, <1>3, <1>4, StepIInv

LEMMA CreateRecordIInv == ASSUME IInv, NEW p \in Procs, CreateRecord(p) PROVE IInv'
<1>1. FrameOK(p) /\ MineOK(p) /\ TypeOK
  BY DEF IInv
<1>2. /\ Others(p) /\ proc'[p].pc = "fill" /\ proc'[p].ret = proc[p].ret /\ proc'[p].mine = proc[p].mine
  BY <1>1, GotoFacts DEF CreateRecord, Pcs
<1>3. /\ proc[p].pc = "write" /\ at # Absent /\ at \in Inodes /\ UNCHANGED <<at, used, Rest, proved>>
      /\ proc[p].mine \in Owner
  BY <1>1, FrameFacts DEF CreateRecord, At, TypeOK, MineOK, OwnPcs
<1>4. FrameOK(p)' /\ MineOK(p)' /\ WantOK(p)'
  BY <1>1, <1>2, <1>3 DEF FrameOK, MineOK, WantOK, OwnPcs, WantPcs, Rest
<1>5. ~Holds(p) /\ ~Holds(p)' /\ (Owning(p)' => Owning(p))
  BY <1>1, <1>2, <1>3 DEF FrameOK, Holds, At, Owning
<1>6. Named("record", proc[p].mine) \in Entry
  BY <1>3 DEF Named, Entry
<1>7. /\ entries' \in [Inodes -> SUBSET Entry] /\ blank' \subseteq Owner
      /\ Here' = Here \cup {Named("record", proc[p].mine)}
  BY <1>1, <1>3, <1>6 DEF CreateRecord, TypeOK, Here
<1>8. RecordOK(p)' /\ Keeps(p)
  BY <1>2, <1>5, <1>7 DEF RecordOK, Keeps
<1> QED BY <1>2, <1>3, <1>4, <1>5, <1>7, <1>8, WriteIInv

LEMMA FillRecordIInv == ASSUME IInv, NEW p \in Procs, FillRecord(p) PROVE IInv'
<1>1. FrameOK(p) /\ MineOK(p) /\ RecordOK(p) /\ TypeOK
  BY DEF IInv
<1>2. /\ Others(p) /\ proc'[p].pc = "guard" /\ proc'[p].ret = proc[p].ret /\ proc'[p].mine = proc[p].mine
  BY <1>1, GotoFacts DEF FillRecord, Pcs
<1>3. /\ proc[p].pc = "fill" /\ UNCHANGED <<at, entries, used, Rest, proved>> /\ blank' \subseteq Owner
  BY <1>1 DEF FillRecord, At, TypeOK
<1>4. FrameOK(p)' /\ MineOK(p)' /\ WantOK(p)'
  BY <1>1, <1>2, <1>3 DEF FrameOK, MineOK, WantOK, OwnPcs, WantPcs, Rest
<1>5. ~Holds(p) /\ ~Holds(p)' /\ (Owning(p)' => Owning(p))
  BY <1>1, <1>2, <1>3 DEF FrameOK, Holds, At, Owning
<1>6. RecordOK(p)' /\ Keeps(p) /\ entries' \in [Inodes -> SUBSET Entry]
  BY <1>1, <1>2, <1>3, <1>5 DEF RecordOK, Keeps, Here, TypeOK
<1> QED BY <1>2, <1>3, <1>4, <1>5, <1>6, WriteIInv

\* The lock is handed out with its record and its guard in place.
LEMMA MakeGuardIInv == ASSUME IInv, NEW p \in Procs, MakeGuard(p) PROVE IInv'
<1>1. FrameOK(p) /\ MineOK(p) /\ RecordOK(p) /\ TypeOK
  BY DEF IInv
<1>2. /\ Others(p) /\ proc'[p].pc = "held" /\ proc'[p].ret = proc[p].ret /\ proc'[p].mine = proc[p].mine
  BY <1>1, GotoFacts DEF MakeGuard, Pcs
<1>3. /\ proc[p].pc = "guard" /\ at # Absent /\ at \in Inodes /\ UNCHANGED <<at, blank, used, Rest, proved>>
      /\ proc[p].mine \in Owner
  BY <1>1, FrameFacts DEF MakeGuard, At, TypeOK, MineOK, OwnPcs
<1>4. FrameOK(p)' /\ MineOK(p)' /\ WantOK(p)'
  BY <1>1, <1>2, <1>3 DEF FrameOK, MineOK, WantOK, OwnPcs, WantPcs, Rest
<1>5. ~Holds(p) /\ (Owning(p)' => Owning(p))
  BY <1>1, <1>2, <1>3 DEF FrameOK, Holds, At, Owning
<1>6. Named("guard", proc[p].mine) \in Entry
  BY <1>3 DEF Named, Entry
<1>7. /\ entries' \in [Inodes -> SUBSET Entry] /\ blank' \subseteq Owner
      /\ Here' = Here \cup {Named("guard", proc[p].mine)}
  BY <1>1, <1>3, <1>6 DEF MakeGuard, TypeOK, Here
<1>8. RecordOK(p)' /\ Keeps(p)
  BY <1>1, <1>2, <1>3, <1>7 DEF RecordOK, Keeps
<1> QED BY <1>2, <1>3, <1>4, <1>5, <1>7, <1>8, WriteIInv

LEMMA WriteFailsIInv == ASSUME IInv, NEW p \in Procs, WriteFails(p) PROVE IInv'
<1>1. FrameOK(p) /\ MineOK(p) /\ TypeOK
  BY DEF IInv
<1>2. /\ Others(p) /\ proc'[p].pc = "look" /\ proc'[p].ret = "undo" /\ proc'[p].mine = proc[p].mine
  BY <1>1, InspectFacts DEF WriteFails, Inspections
<1>3. proc[p].pc \in {"write", "fill", "guard"} /\ UNCHANGED <<Disk, alive, serial, proved>>
  BY DEF WriteFails
<1>4. FrameOK(p)' /\ MineOK(p)' /\ WantOK(p)'
  BY <1>1, <1>2, <1>3 DEF FrameOK, MineOK, WantOK, OwnPcs, WantPcs
<1>5. ~Holds(p) /\ ~Holds(p)' /\ (Owning(p)' => Owning(p)) /\ RecordOK(p)'
  BY <1>1, <1>2, <1>3 DEF FrameOK, Holds, At, Owning, RecordOK
<1>6. p \notin proved /\ p \notin proved' /\ ~Clean(p)'
  BY <1>2, <1>3, <1>5, Unproved DEF Clean, Reading, At
<1>7. /\ faults' \in 0 .. MaxFaults /\ serial' \in [Procs -> 0 .. MaxTokens] /\ serial' = serial
      /\ proved' \subseteq alive /\ proved' = proved /\ alive' = alive
  BY <1>1, <1>3, Constants DEF TypeOK, WriteFails
<1> QED BY <1>2, <1>3, <1>4, <1>5, <1>6, <1>7, QuietIInv

\* A process that leaves or gives up has no lock of its own any more.
LEMMA LeaveIInv ==
  ASSUME IInv, NEW p \in Procs, Leave(p), p \in alive, UNCHANGED <<Disk, Rest, proved>>, ~Holds(p)
  PROVE  IInv'
<1>1. Others(p) /\ proc'[p] = Fresh
  BY LeaveFacts DEF IInv
<1>2. FrameOK(p)' /\ MineOK(p)' /\ WantOK(p)'
  BY <1>1, FreshFacts DEF FrameOK, MineOK, WantOK, OwnPcs, WantPcs, Rest
<1>3. ~Holds(p)' /\ ~Owning(p)' /\ proc'[p].pc \notin {"fill", "guard"}
  BY <1>1, FreshFacts DEF Holds, At, Owning
<1> QED BY <1>1, <1>2, <1>3, AwayIInv

LEMMA UndoIInv == ASSUME IInv, NEW p \in Procs, Undo(p) PROVE IInv'
<1>1. FrameOK(p) /\ MineOK(p) /\ TypeOK
  BY DEF IInv
<1>2. proc[p].pc = "read" /\ proc[p].ret = "undo" /\ UNCHANGED <<Disk, Rest, proved>> /\ p \in alive
  BY Alive DEF Undo, Reading, At
<1>3. ~Holds(p)
  BY <1>2 DEF Holds, At
<1>4. CASE Leave(p)
  BY <1>2, <1>3, <1>4, LeaveIInv
<1>5. CASE Inspect(p, "release")
  <2>1. Others(p) /\ proc'[p].pc = "look" /\ proc'[p].ret = "release" /\ proc'[p].mine = proc[p].mine
    BY <1>1, <1>5, InspectFacts DEF Inspections
  <2>2. FrameOK(p)' /\ MineOK(p)' /\ WantOK(p)'
    BY <1>1, <1>2, <2>1 DEF FrameOK, MineOK, WantOK, OwnPcs, WantPcs, Rest
  <2>3. ~Holds(p)' /\ (Owning(p)' => Owning(p))
    BY <1>2, <2>1 DEF Holds, At, Owning
  <2> QED BY <1>2, <1>3, <2>1, <2>2, <2>3, AwayIInv
<1> QED BY <1>4, <1>5 DEF Undo

\* The frame of an inspection that goes on to another step, or another
\* inspection, with what it is after.
Taken == [kind : {"record", "released", "recovered"}, owner : Owner] \cup {NotFound}

LEMMA AnsweredFacts ==
  ASSUME TypeOK, NEW p \in Procs, NEW x \in Pcs
  PROVE  LET f == Answered(p, x) IN
         /\ f \in Frame /\ f.pc = x /\ f.ret = "none" /\ f.names = {}
         /\ f.mine = proc[p].mine /\ f.want = proc[p].want
BY FrameFacts, ZenonT(60) DEF Frame, Pcs, Answered

LEMMA SetFacts ==
  ASSUME TypeOK, NEW p \in Procs, NEW f \in Frame, proc' = [proc EXCEPT ![p] = f]
  PROVE  Others(p) /\ proc'[p] = f
BY DEF TypeOK, Others

LEMMA OnwardFacts ==
  ASSUME TypeOK, NEW p \in Procs, NEW x \in Pcs, NEW r \in Inspections,
         proc' = [proc EXCEPT ![p] = [Answered(p, x) EXCEPT !.ret = r]]
  PROVE  /\ Others(p) /\ proc'[p].pc = x /\ proc'[p].ret = r
         /\ proc'[p].mine = proc[p].mine /\ proc'[p].want = proc[p].want
<1> DEFINE a == Answered(p, x)
           f == [a EXCEPT !.ret = r]
<1>1. a \in Frame /\ a.pc = x /\ a.mine = proc[p].mine /\ a.want = proc[p].want
  BY AnsweredFacts
<1> HIDE DEF a
<1>2. f \in Frame /\ f.pc = x /\ f.ret = r /\ f.mine = a.mine /\ f.want = a.want
  BY <1>1 DEF Frame
<1>3. proc' = [proc EXCEPT ![p] = f]
  BY DEF a
<1> HIDE DEF f
<1> QED BY <1>1, <1>2, <1>3, SetFacts

LEMMA ResumeFacts ==
  ASSUME TypeOK, NEW p \in Procs, NEW w \in Taken,
         proc' = [proc EXCEPT ![p] = [Answered(p, "look") EXCEPT !.ret = "cleanup", !.want = w]]
  PROVE  /\ Others(p) /\ proc'[p].pc = "look" /\ proc'[p].ret = "cleanup"
         /\ proc'[p].mine = proc[p].mine /\ proc'[p].want = w
<1> DEFINE a == Answered(p, "look")
           f == [a EXCEPT !.ret = "cleanup", !.want = w]
<1>1. a \in Frame /\ a.pc = "look" /\ a.mine = proc[p].mine
  BY AnsweredFacts DEF Pcs
<1> HIDE DEF a
<1>2. f \in Frame /\ f.pc = "look" /\ f.ret = "cleanup" /\ f.mine = a.mine /\ f.want = w
  BY <1>1 DEF Frame, Taken, Inspections
<1>3. proc' = [proc EXCEPT ![p] = f]
  BY DEF a
<1> HIDE DEF f
<1> QED BY <1>1, <1>2, <1>3, SetFacts

LEMMA ClaimFacts ==
  ASSUME TypeOK, NEW p \in Procs, NEW w \in Taken,
         proc' = [proc EXCEPT ![p] = [Answered(p, "claim") EXCEPT !.want = w]]
  PROVE  /\ Others(p) /\ proc'[p].pc = "claim" /\ proc'[p].ret = "none"
         /\ proc'[p].mine = proc[p].mine /\ proc'[p].want = w
<1> DEFINE a == Answered(p, "claim")
           f == [a EXCEPT !.want = w]
<1>1. a \in Frame /\ a.pc = "claim" /\ a.ret = "none" /\ a.mine = proc[p].mine
  BY AnsweredFacts DEF Pcs
<1> HIDE DEF a
<1>2. f \in Frame /\ f.pc = "claim" /\ f.ret = "none" /\ f.mine = a.mine /\ f.want = w
  BY <1>1 DEF Frame, Taken
<1>3. proc' = [proc EXCEPT ![p] = f]
  BY DEF a
<1> HIDE DEF f
<1> QED BY <1>1, <1>2, <1>3, SetFacts

LEMMA InspectedIInv == ASSUME IInv, NEW p \in Procs, Inspected(p) PROVE IInv'
<1>1. FrameOK(p) /\ MineOK(p) /\ TypeOK
  BY DEF IInv
<1>2. proc[p].pc = "read" /\ proc[p].ret = "acquire" /\ UNCHANGED <<Disk, Rest, proved>> /\ p \in alive
  BY Alive DEF Inspected, Reading, At
<1>3. ~Holds(p) /\ proc[p].mine = NoOwner
  BY <1>1, <1>2 DEF Holds, At, MineOK
<1>4. CASE Found(p) = NotFound
  <2>1. proc' = [proc EXCEPT ![p] = [Answered(p, "look") EXCEPT !.ret = "resume"]]
    BY <1>4 DEF Inspected
  <2>2. Others(p) /\ proc'[p].pc = "look" /\ proc'[p].ret = "resume" /\ proc'[p].mine = proc[p].mine
    <3>1. "look" \in Pcs /\ "resume" \in Inspections
      BY DEF Pcs, Inspections
    <3> QED BY <1>1, <2>1, <3>1, OnwardFacts
  <2>3. FrameOK(p)' /\ MineOK(p)' /\ WantOK(p)'
    BY <1>1, <1>2, <1>3, <2>2 DEF FrameOK, MineOK, WantOK, OwnPcs, WantPcs, Rest
  <2>4. ~Holds(p)' /\ (Owning(p)' => Owning(p))
    BY <1>2, <2>2 DEF Holds, At, Owning
  <2> QED BY <1>2, <1>3, <2>2, <2>3, <2>4, AwayIInv
<1>5. CASE Found(p) # NotFound /\ Found(p).owner.pid \in alive
  BY <1>2, <1>3, <1>5, LeaveIInv DEF Inspected
<1>6. CASE Found(p) # NotFound /\ Found(p).owner.pid \notin alive
  <2> DEFINE w == [kind |-> "recovered", owner |-> Found(p).owner]
  <2>1. w \in Taken /\ w.kind = "recovered" /\ w.owner = Found(p).owner /\ w.owner \in Owner
    BY <1>1, <1>6, FoundFacts DEF Taken
  <2>2. proc' = [proc EXCEPT ![p] = [Answered(p, "claim") EXCEPT !.want = w]]
    BY <1>6 DEF Inspected
  <2>3. w \in [kind : {"released", "recovered"}, owner : Owner]
    BY <2>1
  <2> HIDE DEF w
  <2>4. Others(p) /\ proc'[p].pc = "claim" /\ proc'[p].ret = "none" /\ proc'[p].mine = proc[p].mine /\ proc'[p].want = w
    BY <1>1, <2>1, <2>2, ClaimFacts
  <2>5. FrameOK(p)' /\ MineOK(p)' /\ WantOK(p)'
    BY <1>1, <1>2, <1>3, <1>6, <2>1, <2>3, <2>4 DEF FrameOK, MineOK, WantOK, OwnPcs, WantPcs, Rest
  <2>6. ~Holds(p)' /\ (Owning(p)' => Owning(p))
    BY <1>2, <2>4 DEF Holds, At, Owning
  <2> QED BY <1>2, <1>3, <2>4, <2>5, <2>6, AwayIInv
<1> QED BY <1>4, <1>5, <1>6

LEMMA ResumeLockIInv == ASSUME IInv, NEW p \in Procs, ResumeLock(p) PROVE IInv'
<1>1. FrameOK(p) /\ MineOK(p) /\ TypeOK
  BY DEF IInv
<1>2. proc[p].pc = "read" /\ proc[p].ret = "resume" /\ UNCHANGED <<Disk, Rest, proved>> /\ p \in alive
  BY Alive DEF ResumeLock, Reading, At
<1>3. ~Holds(p) /\ proc[p].mine = NoOwner
  BY <1>1, <1>2 DEF Holds, At, MineOK
<1>4. CASE Found(p) = NotFound \/ Found(p).owner.pid \in alive
  BY <1>2, <1>3, <1>4, LeaveIInv DEF ResumeLock
<1>5. CASE Found(p) # NotFound /\ Found(p).owner.pid \notin alive
  <2> DEFINE w == [kind |-> Found(p).kind, owner |-> Found(p).owner]
  <2>1. /\ w.kind \in {"released", "recovered"} /\ w.owner = Found(p).owner /\ w.owner \in Owner
    BY <1>1, <1>2, <1>5, FoundFacts DEF Sought
  <2>2. w \in Taken /\ w \in [kind : {"released", "recovered"}, owner : Owner]
    BY <2>1 DEF Taken
  <2>3. proc' = [proc EXCEPT ![p] = [Answered(p, "look") EXCEPT !.ret = "cleanup", !.want = w]]
    BY <1>5 DEF ResumeLock
  <2> HIDE DEF w
  <2>4. Others(p) /\ proc'[p].pc = "look" /\ proc'[p].ret = "cleanup" /\ proc'[p].mine = proc[p].mine /\ proc'[p].want = w
    BY <1>1, <2>2, <2>3, ResumeFacts
  <2>5. FrameOK(p)' /\ MineOK(p)' /\ WantOK(p)'
    BY <1>1, <1>2, <1>3, <1>5, <2>1, <2>2, <2>4 DEF FrameOK, MineOK, WantOK, OwnPcs, WantPcs, Rest
  <2>6. ~Holds(p)' /\ (Owning(p)' => Owning(p))
    BY <1>2, <2>4 DEF Holds, At, Owning
  <2> QED BY <1>2, <1>3, <2>4, <2>5, <2>6, AwayIInv
<1> QED BY <1>4, <1>5

-----------------------------------------------------------------------------
(* Taking a lock down *)

\* In the middle of a cleanup nothing is held, and what is being cleaned up
\* belongs to no other live process.
LEMMA WantFacts ==
  ASSUME IInv, NEW p \in Procs, proc[p].pc \in WantPcs \/ proc[p].ret \in {"cleanup", "afterGuard"}
  PROVE  /\ ~Holds(p) /\ p \in alive
         /\ proc[p].want \in [kind : {"released", "recovered"}, owner : Owner]
         /\ proc[p].want.owner.pid \notin alive \ {p}
<1>1. FrameOK(p) /\ MineOK(p) /\ WantOK(p)
  BY DEF IInv
<1> QED BY <1>1 DEF FrameOK, MineOK, WantOK, WantPcs, Holds, At

\* A step from one place of a cleanup to another.
LEMMA TakeDownIInv ==
  ASSUME IInv, NEW p \in Procs, Others(p), UNCHANGED <<at, blank, used, Rest, proved>>,
         entries' \in [Inodes -> SUBSET Entry], Keeps(p),
         proc[p].pc \in WantPcs \/ proc[p].ret \in {"cleanup", "afterGuard"},
         \/ proc'[p].pc \in WantPcs /\ proc'[p].ret = "none"
         \/ proc'[p].pc = "look" /\ proc'[p].ret \in {"cleanup", "afterGuard"},
         proc'[p].mine = NoOwner \/ proc'[p].pc \notin {"claim", "rename", "moved"},
         proc'[p].mine = proc[p].mine, proc'[p].want = proc[p].want
  PROVE  IInv'
<1>1. FrameOK(p) /\ MineOK(p) /\ WantOK(p) /\ TypeOK
  BY DEF IInv
<1>2. FrameOK(p)' /\ MineOK(p)' /\ WantOK(p)'
  BY <1>1 DEF FrameOK, MineOK, WantOK, OwnPcs, WantPcs, Rest
<1>3. ~Holds(p) /\ ~Holds(p)'
  BY WantFacts DEF Holds, At, WantPcs
<1>4. proc[p].pc # "stat" /\ proc'[p].pc \notin {"stat", "read", "fill", "guard"}
  BY <1>1 DEF FrameOK, WantPcs
<1>5. RecordOK(p)' /\ (Owning(p)' => Owning(p)) /\ blank' \subseteq Owner
  BY <1>1, <1>3, <1>4 DEF RecordOK, Owning, At, TypeOK
<1> QED BY <1>2, <1>3, <1>4, <1>5, WriteIInv

\* A cleanup that ends: a process without a lock of its own may try again.
LEMMA CleanedIInv ==
  ASSUME IInv, NEW p \in Procs, NEW ok, Cleaned(p, ok), UNCHANGED <<Disk, Rest, proved>>,
         proc[p].pc \in WantPcs \/ proc[p].ret \in {"cleanup", "afterGuard"}
  PROVE  IInv'
<1>1. FrameOK(p) /\ MineOK(p) /\ TypeOK
  BY DEF IInv
<1>2. /\ Others(p) /\ proc'[p].ret = "none" /\ proc'[p].mine = NoOwner
      /\ proc'[p].pc = "idle" \/ (proc'[p].pc = "mkdir" /\ proc[p].mine = NoOwner)
  BY <1>1, CleanedFacts
<1>3. ~Holds(p) /\ p \in alive
  BY WantFacts
<1>4. proc[p].pc \notin {"idle", "dead"}
  BY <1>1 DEF FrameOK, WantPcs
<1>5. FrameOK(p)' /\ MineOK(p)' /\ WantOK(p)'
  BY <1>1, <1>2, <1>3, <1>4 DEF FrameOK, MineOK, WantOK, OwnPcs, WantPcs, Rest
<1>6. ~Holds(p)' /\ ~Owning(p)'
  BY <1>2 DEF Holds, At, Owning
<1> QED BY <1>2, <1>3, <1>5, <1>6, AwayIInv

LEMMA Untouched ==
  ASSUME IInv, NEW p \in Procs, UNCHANGED <<at, entries>>
  PROVE  entries' \in [Inodes -> SUBSET Entry] /\ Keeps(p)
BY DEF IInv, TypeOK, Keeps, Here

LEMMA ClaimIInv == ASSUME IInv, NEW p \in Procs, Claim(p) PROVE IInv'
<1>1. proc[p].pc = "claim" /\ UNCHANGED <<Disk, Rest, proved>> /\ TypeOK /\ WantOK(p)
  BY DEF Claim, At, IInv
<1>2. ~Holds(p) /\ p \in alive /\ proc[p].mine = NoOwner
  BY <1>1, WantFacts DEF WantPcs, WantOK
<1>3. CASE Leave(p)
  BY <1>1, <1>2, <1>3, LeaveIInv
<1>4. CASE Goto(p, "rename")
  <2>1. /\ Others(p) /\ proc'[p].pc = "rename" /\ proc'[p].ret = proc[p].ret
        /\ proc'[p].mine = proc[p].mine /\ proc'[p].want = proc[p].want
    BY <1>1, <1>4, GotoFacts DEF Pcs
  <2>2. proc[p].ret = "none"
    BY <1>1 DEF IInv, FrameOK
  <2> QED BY <1>1, <1>2, <2>1, <2>2, Untouched, TakeDownIInv DEF WantPcs, Disk
<1> QED BY <1>3, <1>4 DEF Claim

\* The record that is renamed away belongs to a dead owner.
LEMMA RenameStaleIInv == ASSUME IInv, NEW p \in Procs, RenameStale(p) PROVE IInv'
<1> DEFINE o == proc[p].want.owner
<1>1. proc[p].pc = "rename" /\ UNCHANGED <<at, blank, used, Rest, proved>> /\ TypeOK /\ WantOK(p)
  BY DEF RenameStale, At, IInv
<1>2. ~Holds(p) /\ p \in alive /\ proc[p].mine = NoOwner /\ o \in Owner /\ o.pid \notin alive
  BY <1>1, WantFacts DEF WantPcs, WantOK
<1>3. CASE Named("record", o) \notin Here
  BY <1>1, <1>3, CleanedIInv DEF RenameStale, WantPcs, Disk
<1>4. CASE Named("record", o) \in Here
  <2>1. at \in Inodes /\ entries' = [entries EXCEPT ![at] = (entries[at] \ {Named("record", o)}) \cup {Named("recovered", o)}]
    BY <1>1, <1>4 DEF RenameStale, Renamed, Here, TypeOK
  <2>2. Named("recovered", o) \in Entry /\ Named("record", o).owner = o
    BY <1>2 DEF Named, Entry
  <2>3. entries' \in [Inodes -> SUBSET Entry] /\ Here' = (Here \ {Named("record", o)}) \cup {Named("recovered", o)}
    BY <1>1, <2>1, <2>2, Constants DEF Here, TypeOK
  <2>4. Keeps(p)
    BY <1>2, <2>2, <2>3 DEF Keeps
  <2>5. /\ Others(p) /\ proc'[p].pc = "moved" /\ proc'[p].ret = proc[p].ret
        /\ proc'[p].mine = proc[p].mine /\ proc'[p].want = proc[p].want
    BY <1>1, <1>4, GotoFacts DEF Pcs, RenameStale
  <2>6. proc[p].ret = "none"
    BY <1>1 DEF IInv, FrameOK
  <2> QED BY <1>1, <1>2, <2>3, <2>4, <2>5, <2>6, TakeDownIInv DEF WantPcs
<1> QED BY <1>3, <1>4

LEMMA MovedIInv == ASSUME IInv, NEW p \in Procs, Moved(p) PROVE IInv'
<1>1. proc[p].pc = "moved" /\ UNCHANGED <<Disk, Rest, proved>> /\ TypeOK
  BY DEF Moved, At, IInv
<1>2. ~Holds(p) /\ p \in alive
  BY <1>1, WantFacts DEF WantPcs
<1>3. CASE Leave(p)
  BY <1>1, <1>2, <1>3, LeaveIInv
<1>4. CASE Inspect(p, "cleanup")
  <2>1. /\ Others(p) /\ proc'[p].pc = "look" /\ proc'[p].ret = "cleanup"
        /\ proc'[p].mine = proc[p].mine /\ proc'[p].want = proc[p].want
    BY <1>1, <1>4, InspectFacts DEF Inspections
  <2> QED BY <1>1, <2>1, Untouched, TakeDownIInv DEF WantPcs, Disk
<1> QED BY <1>3, <1>4 DEF Moved

LEMMA CleanupIInv == ASSUME IInv, NEW p \in Procs, Cleanup(p) PROVE IInv'
<1>1. proc[p].ret = "cleanup" /\ UNCHANGED <<Disk, Rest, proved>> /\ TypeOK
  BY DEF Cleanup, Reading, IInv
<1>2. CASE Cleaned(p, FALSE)
  BY <1>1, <1>2, CleanedIInv
<1>3. CASE Return(p, "rmguard")
  <2>1. /\ Others(p) /\ proc'[p].pc = "rmguard" /\ proc'[p].ret = "none"
        /\ proc'[p].mine = proc[p].mine /\ proc'[p].want = proc[p].want
    BY <1>1, <1>3, ReturnFacts DEF Pcs
  <2> QED BY <1>1, <2>1, Untouched, TakeDownIInv DEF WantPcs, Disk
<1>4. CASE proc' = [proc EXCEPT ![p] = [Answered(p, "look") EXCEPT !.ret = "afterGuard"]]
  <2>1. /\ Others(p) /\ proc'[p].pc = "look" /\ proc'[p].ret = "afterGuard"
        /\ proc'[p].mine = proc[p].mine /\ proc'[p].want = proc[p].want
    BY <1>1, <1>4, OnwardFacts DEF Pcs, Inspections
  <2> QED BY <1>1, <2>1, Untouched, TakeDownIInv DEF WantPcs, Disk
<1> QED BY <1>2, <1>3, <1>4 DEF Cleanup

\* The guard that is removed is that of the lock being taken down.
LEMMA RemoveGuardIInv == ASSUME IInv, NEW p \in Procs, RemoveGuard(p) PROVE IInv'
<1> DEFINE o == proc[p].want.owner
           g == Named("guard", o)
<1>1. proc[p].pc = "rmguard" /\ UNCHANGED <<at, blank, used, Rest, proved>> /\ TypeOK
  BY DEF RemoveGuard, At, IInv
<1>2. o.pid \notin alive \ {p} /\ g.owner = o
  BY <1>1, WantFacts DEF WantPcs, Named
<1>3. CASE g \in Here
  <2>1. at \in Inodes /\ entries' = [entries EXCEPT ![at] = entries[at] \ {g}] /\ Inspect(p, "afterGuard")
    BY <1>1, <1>3 DEF RemoveGuard, Here, TypeOK
  <2>2. entries' \in [Inodes -> SUBSET Entry] /\ Here' = Here \ {g}
    BY <1>1, <2>1, Constants DEF Here, TypeOK
  <2>3. Keeps(p)
    BY <1>2, <2>2 DEF Keeps
  <2>4. /\ Others(p) /\ proc'[p].pc = "look" /\ proc'[p].ret = "afterGuard"
        /\ proc'[p].mine = proc[p].mine /\ proc'[p].want = proc[p].want
    BY <1>1, <2>1, InspectFacts DEF Inspections
  <2> QED BY <1>1, <2>2, <2>3, <2>4, TakeDownIInv DEF WantPcs
<1>4. CASE g \notin Here
  <2>1. /\ Others(p) /\ proc'[p].pc = "empty1" /\ proc'[p].ret = proc[p].ret
        /\ proc'[p].mine = proc[p].mine /\ proc'[p].want = proc[p].want /\ entries' = entries
    BY <1>1, <1>4, GotoFacts DEF Pcs, RemoveGuard
  <2>2. proc[p].ret = "none"
    BY <1>1 DEF IInv, FrameOK
  <2> QED BY <1>1, <2>1, <2>2, Untouched, TakeDownIInv DEF WantPcs
<1> QED BY <1>3, <1>4

LEMMA AfterGuardIInv == ASSUME IInv, NEW p \in Procs, AfterGuard(p) PROVE IInv'
<1>1. proc[p].ret = "afterGuard" /\ UNCHANGED <<Disk, Rest, proved>> /\ TypeOK
  BY DEF AfterGuard, Reading, IInv
<1>2. CASE Cleaned(p, FALSE)
  BY <1>1, <1>2, CleanedIInv
<1>3. ASSUME NEW x \in {"empty1", "unlink"}, Return(p, x)
      PROVE  IInv'
  <2>1. /\ Others(p) /\ proc'[p].pc = x /\ proc'[p].ret = "none"
        /\ proc'[p].mine = proc[p].mine /\ proc'[p].want = proc[p].want
    BY <1>1, <1>3, ReturnFacts DEF Pcs
  <2> QED BY <1>1, <1>3, <2>1, Untouched, TakeDownIInv DEF WantPcs, Disk
<1> QED BY <1>2, <1>3 DEF AfterGuard

\* What is unlinked is a transition: no record and no guard.
LEMMA UnlinkIInv == ASSUME IInv, NEW p \in Procs, Unlink(p) PROVE IInv'
<1> DEFINE e == Named(proc[p].want.kind, proc[p].want.owner)
<1>1. proc[p].pc = "unlink" /\ UNCHANGED <<at, blank, used, Rest, proved>> /\ TypeOK
  BY DEF Unlink, At, IInv
<1>2. e.kind \notin {"record", "guard"}
  BY <1>1, WantFacts DEF WantPcs, Named
<1>3. entries' = IF at = Absent THEN entries ELSE [entries EXCEPT ![at] = entries[at] \ {e}]
  BY DEF Unlink
<1> HIDE DEF e
<1>4. entries' \in [Inodes -> SUBSET Entry] /\ Here' = Here \ {e}
  BY <1>1, <1>3 DEF Here, TypeOK
<1>5. Keeps(p)
  BY <1>2, <1>4 DEF Keeps
<1>6. /\ Others(p) /\ proc'[p].pc = "empty1" /\ proc'[p].ret = proc[p].ret
      /\ proc'[p].mine = proc[p].mine /\ proc'[p].want = proc[p].want
  BY <1>1, GotoFacts DEF Pcs, Unlink
<1>7. proc[p].ret = "none"
  BY <1>1 DEF IInv, FrameOK
<1> QED BY <1>1, <1>4, <1>5, <1>6, <1>7, TakeDownIInv DEF WantPcs

LEMMA CheckEmptyIInv == ASSUME IInv, NEW p \in Procs, CheckEmpty(p) PROVE IInv'
<1>1. PICK x \in {"empty1", "empty2", "empty3", "empty4"}, y \in {"empty2", "empty3", "empty4", "rmdir"} :
        /\ proc[p].pc = x /\ UNCHANGED <<Disk, Rest, proved>>
        /\ Goto(p, y) \/ \E ok \in BOOLEAN : Cleaned(p, ok)
  <2>1. ASSUME NEW x, NEW y, SameDirectory(p, x, y) \/ IsEmpty(p, x, y)
        PROVE  /\ proc[p].pc = x /\ UNCHANGED <<Disk, Rest, proved>>
               /\ Goto(p, y) \/ \E ok \in BOOLEAN : Cleaned(p, ok)
    BY <2>1 DEF SameDirectory, IsEmpty, At
  <2>2. /\ "empty1" \in {"empty1", "empty2", "empty3", "empty4"} /\ "empty2" \in {"empty2", "empty3", "empty4", "rmdir"}
        /\ "empty2" \in {"empty1", "empty2", "empty3", "empty4"} /\ "empty3" \in {"empty2", "empty3", "empty4", "rmdir"}
        /\ "empty3" \in {"empty1", "empty2", "empty3", "empty4"} /\ "empty4" \in {"empty2", "empty3", "empty4", "rmdir"}
        /\ "empty4" \in {"empty1", "empty2", "empty3", "empty4"} /\ "rmdir" \in {"empty2", "empty3", "empty4", "rmdir"}
    OBVIOUS
  <2> QED BY <2>1, <2>2 DEF CheckEmpty
<1>2. TypeOK /\ x \in WantPcs /\ y \in WantPcs /\ y \in Pcs /\ y \notin {"claim", "rename", "moved"}
  BY DEF IInv, WantPcs, Pcs
<1>3. ASSUME NEW ok \in BOOLEAN, Cleaned(p, ok)
      PROVE  IInv'
  BY <1>1, <1>2, <1>3, CleanedIInv
<1>4. CASE Goto(p, y)
  <2>1. /\ Others(p) /\ proc'[p].pc = y /\ proc'[p].ret = proc[p].ret
        /\ proc'[p].mine = proc[p].mine /\ proc'[p].want = proc[p].want
    BY <1>2, <1>4, GotoFacts
  <2>2. proc[p].ret = "none"
    BY <1>1 DEF IInv, FrameOK
  <2> QED BY <1>1, <1>2, <2>1, <2>2, Untouched, TakeDownIInv DEF Disk
<1> QED BY <1>1, <1>3, <1>4

\* An empty directory is nobody's: while every process lives, it is the one the
\* process that removes it has made.
LEMMA RemoveDirectoryIInv == ASSUME IInv, NEW p \in Procs, RemoveDirectory(p) PROVE IInv'
<1>1. /\ proc[p].pc = "rmdir" /\ UNCHANGED <<entries, blank, used, Rest, proved>>
      /\ TypeOK /\ FrameOK(p) /\ MineOK(p) /\ WantOK(p)
  BY DEF RemoveDirectory, At, IInv
<1>2. CASE Here # {}
  BY <1>1, <1>2, CleanedIInv DEF RemoveDirectory, WantPcs, Disk
<1>3. CASE Here = {}
  <2>1. at' = Absent /\ Cleaned(p, TRUE)
    BY <1>3 DEF RemoveDirectory
  <2>2. /\ Others(p) /\ proc'[p].ret = "none" /\ proc'[p].mine = NoOwner
        /\ proc'[p].pc = "idle" \/ (proc'[p].pc = "mkdir" /\ proc[p].mine = NoOwner)
    BY <1>1, <2>1, CleanedFacts
  <2>3. ~Holds(p) /\ p \in alive /\ proc[p].want.owner.pid \in Procs
    BY <1>1, WantFacts DEF WantPcs, Owner
  <2>4. FrameOK(p)' /\ MineOK(p)' /\ WantOK(p)'
    BY <1>1, <2>2, <2>3 DEF FrameOK, MineOK, WantOK, OwnPcs, WantPcs, Rest
  <2>5. p \notin proved /\ p \notin proved'
    BY <1>1, <2>3, Unproved
  <2>6. RecordOK(p)' /\ ~Owning(p)' /\ ~Clean(p)' /\ Keeps(p)
    BY <1>3, <2>2, <2>5 DEF RecordOK, Holds, At, Owning, Clean, Reading, Keeps
  <2>7. alive = Procs => Owning(p)
    BY <1>1, <2>3 DEF WantOK, WantPcs, Owning
  <2>8. /\ faults' \in 0 .. MaxFaults /\ serial' \in [Procs -> 0 .. MaxTokens] /\ serial' = serial
        /\ proved' \subseteq alive /\ proved' = proved /\ alive' = alive /\ blank' \subseteq Owner
        /\ used' \subseteq Inodes /\ entries' \in [Inodes -> SUBSET Entry]
    BY <1>1 DEF TypeOK, Rest
  <2> QED BY <2>1, <2>2, <2>4, <2>5, <2>6, <2>7, <2>8, StepIInv
<1> QED BY <1>2, <1>3

-----------------------------------------------------------------------------
(* validateSessionRetentionLease and releaseSessionRetentionLock *)

LEMMA ValidateIInv == ASSUME IInv, NEW p \in Procs, Validate(p) PROVE IInv'
<1>1. FrameOK(p) /\ MineOK(p) /\ RecordOK(p) /\ TypeOK /\ CleanOK
  BY DEF IInv
<1>2. /\ Others(p) /\ proc'[p].pc = "look" /\ proc'[p].ret = "validate" /\ proc'[p].mine = proc[p].mine
  BY <1>1, InspectFacts DEF Validate, Inspections
<1>3. proc[p].pc = "held" /\ UNCHANGED <<Disk, Rest, proved>>
  BY DEF Validate, At
<1>4. FrameOK(p)' /\ MineOK(p)' /\ WantOK(p)'
  BY <1>1, <1>2, <1>3 DEF FrameOK, MineOK, WantOK, OwnPcs, WantPcs, Rest
<1>5. Holds(p) /\ Holds(p)' /\ (Owning(p)' => Owning(p))
  BY <1>2, <1>3 DEF Holds, At, Owning
<1>6. RecordOK(p)' /\ (Clean(p)' => Clean(p))
  BY <1>1, <1>2, <1>3, <1>5 DEF RecordOK, Here, Disk, Clean, Reading, At
<1>7. /\ faults' \in 0 .. MaxFaults /\ serial' \in [Procs -> 0 .. MaxTokens] /\ serial' = serial
      /\ proved' \subseteq alive /\ proved' = proved /\ alive' = alive
  BY <1>1, <1>3 DEF TypeOK, Rest
<1> QED BY <1>2, <1>3, <1>4, <1>5, <1>6, <1>7, QuietIInv

\* A validation that succeeds has listed nothing but its own record and guard.
LEMMA ValidatedIInv == ASSUME IInv, NEW p \in Procs, Validated(p) PROVE IInv'
<1>1. FrameOK(p) /\ MineOK(p) /\ RecordOK(p) /\ TypeOK /\ CleanOK
  BY DEF IInv
<1>2. /\ Others(p) /\ proc'[p].pc = "held" /\ proc'[p].ret = "none" /\ proc'[p].mine = proc[p].mine
  BY <1>1, ReturnFacts DEF Validated, Pcs
<1>3. proc[p].pc = "read" /\ proc[p].ret = "validate" /\ UNCHANGED <<Disk, Rest>> /\ p \in alive
  BY Alive DEF Validated, Reading, At
<1>4. FrameOK(p)' /\ MineOK(p)' /\ WantOK(p)'
  BY <1>1, <1>2, <1>3 DEF FrameOK, MineOK, WantOK, OwnPcs, WantPcs, Rest
<1>5. Holds(p) /\ Holds(p)' /\ (Owning(p)' => Owning(p))
  BY <1>2, <1>3 DEF Holds, At, Owning
<1>6. RecordOK(p)'
  BY <1>1, <1>2, <1>3, <1>5 DEF RecordOK, Here, Disk
<1>7. Clean(p)' => Clean(p)
  <2> SUFFICES ASSUME Clean(p)' PROVE Clean(p)
    OBVIOUS
  <2>1. p \in proved'
    BY <1>2 DEF Clean, Reading, At
  <2>2. Found(p) # NotFound /\ Found(p).owner = proc[p].mine
    BY <2>1 DEF Validated
  <2>3. Found(p).kind = "record"
    BY <1>1, <1>3, <2>2, FoundFacts DEF Sought
  <2>4. proc[p].names \subseteq {Named("record", proc[p].mine), Named("guard", proc[p].mine)}
    BY <1>1, <2>2, <2>3, FoundFacts
  <2> QED BY <1>3, <2>4 DEF Clean, Reading, At
<1>8. /\ proved' = proved \cup {p} \/ proved' = proved \ {p}
      /\ proved' \subseteq alive
  BY <1>1, <1>3 DEF Validated, TypeOK
<1>9. /\ faults' \in 0 .. MaxFaults /\ serial' \in [Procs -> 0 .. MaxTokens] /\ serial' = serial /\ alive' = alive
  BY <1>1, <1>3 DEF TypeOK, Rest
<1>10. \A q \in Procs : q # p => (q \in proved' <=> q \in proved)
  BY <1>8
<1> QED BY <1>2, <1>3, <1>4, <1>5, <1>6, <1>7, <1>8, <1>9, <1>10, QuietIInv

LEMMA ReleaseIInv == ASSUME IInv, NEW p \in Procs, Release(p) PROVE IInv'
<1>1. FrameOK(p) /\ MineOK(p) /\ TypeOK
  BY DEF IInv
<1>2. /\ Others(p) /\ proc'[p].pc = "look" /\ proc'[p].ret = "release" /\ proc'[p].mine = proc[p].mine
  BY <1>1, InspectFacts DEF Release, Inspections
<1>3. proc[p].pc = "held" /\ UNCHANGED <<Disk, Rest>> /\ proved' = proved \ {p}
  BY DEF Release, At
<1>4. FrameOK(p)' /\ MineOK(p)' /\ WantOK(p)'
  BY <1>1, <1>2, <1>3 DEF FrameOK, MineOK, WantOK, OwnPcs, WantPcs, Rest
<1>5. ~Holds(p)' /\ (Owning(p)' => Owning(p)) /\ RecordOK(p)' /\ ~Clean(p)'
  BY <1>2, <1>3 DEF Holds, At, Owning, RecordOK, Clean, Reading
<1>6. /\ faults' \in 0 .. MaxFaults /\ serial' \in [Procs -> 0 .. MaxTokens] /\ serial' = serial
      /\ proved' \subseteq alive /\ alive' = alive /\ p \notin proved'
      /\ \A q \in Procs : q # p => (q \in proved' <=> q \in proved)
  BY <1>1, <1>3 DEF TypeOK, Rest
<1> QED BY <1>2, <1>3, <1>4, <1>5, <1>6, QuietIInv

LEMMA ReleasedIInv == ASSUME IInv, NEW p \in Procs, Released(p) PROVE IInv'
<1>1. FrameOK(p) /\ MineOK(p) /\ TypeOK
  BY DEF IInv
<1>2. proc[p].pc = "read" /\ proc[p].ret = "release" /\ UNCHANGED <<Disk, Rest, proved>> /\ p \in alive
  BY Alive DEF Released, Reading, At
<1>3. ~Holds(p)
  BY <1>2 DEF Holds, At
<1>4. CASE Leave(p)
  BY <1>2, <1>3, <1>4, LeaveIInv
<1>5. CASE Return(p, "retire")
  <2>1. /\ Others(p) /\ proc'[p].pc = "retire" /\ proc'[p].ret = "none" /\ proc'[p].mine = proc[p].mine
    BY <1>1, <1>5, ReturnFacts DEF Pcs
  <2>2. FrameOK(p)' /\ MineOK(p)' /\ WantOK(p)'
    BY <1>1, <1>2, <2>1 DEF FrameOK, MineOK, WantOK, OwnPcs, WantPcs, Rest
  <2>3. ~Holds(p)' /\ (Owning(p)' => Owning(p))
    BY <2>1 DEF Holds, At, Owning
  <2> QED BY <1>2, <1>3, <2>1, <2>2, <2>3, AwayIInv
<1> QED BY <1>4, <1>5 DEF Released

\* A process renames away its own record only.
LEMMA RetireIInv == ASSUME IInv, NEW p \in Procs, Retire(p) PROVE IInv'
<1> DEFINE o == proc[p].mine
<1>1. /\ proc[p].pc = "retire" /\ UNCHANGED <<at, blank, used, Rest, proved>> /\ p \in alive
      /\ TypeOK /\ FrameOK(p) /\ MineOK(p)
  BY Alive DEF Retire, At, IInv
<1>2. ~Holds(p) /\ o \in Owner /\ o # NoOwner /\ o.pid = p
  BY <1>1, FrameFacts DEF Holds, At, FrameOK, MineOK, OwnPcs
<1>3. CASE Named("record", o) \notin Here
  BY <1>1, <1>2, <1>3, LeaveIInv DEF Retire, Disk
<1>4. CASE Named("record", o) \in Here
  <2>1. at \in Inodes /\ entries' = [entries EXCEPT ![at] = (entries[at] \ {Named("record", o)}) \cup {Named("released", o)}]
    BY <1>1, <1>4 DEF Retire, Renamed, Here, TypeOK
  <2>2. Named("released", o) \in Entry /\ Named("record", o).owner = o
    BY <1>2 DEF Named, Entry
  <2>3. entries' \in [Inodes -> SUBSET Entry] /\ Here' = (Here \ {Named("record", o)}) \cup {Named("released", o)}
    BY <1>1, <2>1, <2>2, Constants DEF Here, TypeOK
  <2>4. Keeps(p)
    BY <1>2, <2>2, <2>3 DEF Keeps
  <2>5. /\ Others(p) /\ proc'[p].pc = "retired" /\ proc'[p].ret = proc[p].ret /\ proc'[p].mine = proc[p].mine
    BY <1>1, <1>4, GotoFacts DEF Pcs, Retire
  <2>6. FrameOK(p)' /\ MineOK(p)' /\ WantOK(p)'
    BY <1>1, <2>5 DEF FrameOK, MineOK, WantOK, OwnPcs, WantPcs, Rest
  <2>7. RecordOK(p)' /\ (Owning(p)' => Owning(p)) /\ blank' \subseteq Owner
    BY <1>1, <1>2, <2>5 DEF RecordOK, Holds, At, Owning, TypeOK
  <2> QED BY <1>1, <1>2, <2>3, <2>4, <2>5, <2>6, <2>7, WriteIInv
<1> QED BY <1>3, <1>4

LEMMA RetiredIInv == ASSUME IInv, NEW p \in Procs, Retired(p) PROVE IInv'
<1>1. /\ proc[p].pc = "retired" /\ UNCHANGED <<Disk, Rest, proved>> /\ p \in alive
      /\ TypeOK /\ FrameOK(p) /\ MineOK(p)
  BY Alive DEF Retired, At, IInv
<1>2. ~Holds(p) /\ proc[p].mine \in Owner /\ proc[p].mine # NoOwner
  BY <1>1, FrameFacts DEF Holds, At, FrameOK, MineOK, OwnPcs
<1>3. CASE Leave(p)
  BY <1>1, <1>2, <1>3, LeaveIInv
<1>4. CASE proc' = [proc EXCEPT ![p].pc = "look", ![p].ret = "cleanup",
                      ![p].want = [kind |-> "released", owner |-> proc[p].mine]]
  <2> DEFINE w == [kind |-> "released", owner |-> proc[p].mine]
             f == [proc[p] EXCEPT !.pc = "look", !.ret = "cleanup", !.want = w]
  <2>1. w \in Taken /\ w \in [kind : {"released", "recovered"}, owner : Owner] /\ w.owner = proc[p].mine
    BY <1>2 DEF Taken
  <2>2. proc' = [proc EXCEPT ![p] = f]
    BY <1>1, <1>4 DEF TypeOK
  <2> HIDE DEF w
  <2>3. f \in Frame /\ f.pc = "look" /\ f.ret = "cleanup" /\ f.want = w /\ f.mine = proc[p].mine
    BY <1>1, <2>1, FrameFacts, ZenonT(60) DEF Frame, Taken, Inspections
  <2> HIDE DEF f
  <2>4. Others(p) /\ proc'[p].pc = "look" /\ proc'[p].ret = "cleanup" /\ proc'[p].want = w /\ proc'[p].mine = proc[p].mine
    BY <1>1, <2>2, <2>3, SetFacts
  <2>5. FrameOK(p)' /\ MineOK(p)' /\ WantOK(p)'
    BY <1>1, <1>2, <2>1, <2>4 DEF FrameOK, MineOK, WantOK, OwnPcs, WantPcs, Rest
  <2>6. ~Holds(p)' /\ (Owning(p)' => Owning(p))
    BY <2>4 DEF Holds, At, Owning
  <2> QED BY <1>1, <1>2, <2>4, <2>5, <2>6, AwayIInv
<1> QED BY <1>3, <1>4 DEF Retired

-----------------------------------------------------------------------------
(* A crash leaves the directories alone, and makes more owners dead. *)

LEMMA CrashIInv == ASSUME IInv, NEW p \in Procs, Crash(p) PROVE IInv'
<1> DEFINE f == [Fresh EXCEPT !.pc = "dead"]
<1>1. TypeOK /\ p \in alive
  BY DEF IInv, Crash
<1>2. /\ alive' = alive \ {p} /\ proved' = proved \ {p} /\ UNCHANGED <<Disk, serial, faults>>
      /\ proc' = [proc EXCEPT ![p] = f]
  BY DEF Crash
<1>3. f \in Frame /\ f.pc = "dead" /\ f.ret = "none" /\ f.mine = NoOwner
  BY DEF Fresh, Frame
<1> HIDE DEF f
<1>4. Others(p) /\ proc'[p] = f
  BY <1>1, <1>2, <1>3, SetFacts
<1>5. TypeOK'
  BY <1>1, <1>2, <1>4 DEF TypeOK, Others, Disk
<1>6. FrameOK(p)' /\ MineOK(p)' /\ WantOK(p)' /\ RecordOK(p)' /\ ~Holds(p)' /\ ~Clean(p)'
  BY <1>2, <1>3, <1>4 DEF FrameOK, MineOK, WantOK, RecordOK, Holds, At, Clean, Reading, OwnPcs, WantPcs
<1>7. ASSUME NEW q \in Procs, q # p
      PROVE  /\ FrameOK(q)' /\ MineOK(q)' /\ WantOK(q)' /\ RecordOK(q)'
             /\ (Holds(q)' <=> Holds(q)) /\ (Clean(q)' <=> Clean(q))
  <2>1. proc'[q] = proc[q] /\ serial' = serial /\ Here' = Here /\ (q \in proved' <=> q \in proved)
    BY <1>2, <1>4, <1>7 DEF Others, Here, Disk
  <2>2. FrameOK(q) /\ MineOK(q) /\ WantOK(q) /\ RecordOK(q)
    BY DEF IInv
  <2>3. FrameOK(q)' /\ MineOK(q)' /\ WantOK(q)'
    BY <1>2, <1>7, <2>1, <2>2 DEF FrameOK, MineOK, WantOK
  <2>4. (Holds(q)' <=> Holds(q)) /\ (Clean(q)' <=> Clean(q))
    BY <2>1 DEF Holds, At, Clean, Reading
  <2>5. RecordOK(q)'
    BY <2>1, <2>2, <2>4 DEF RecordOK
  <2> QED BY <2>3, <2>4, <2>5
<1>8. CleanOK'
  <2>1. \A q \in proved' : q \in Procs /\ q # p /\ Holds(q)'
    BY <1>1, <1>2, <1>7 DEF IInv, CleanOK, TypeOK
  <2>2. \A q, r \in Procs : Clean(q)' /\ Clean(r)' => q = r
    BY <1>6, <1>7 DEF IInv, CleanOK
  <2> QED BY <2>1, <2>2 DEF CleanOK
<1>9. AllLiveOK'
  BY <1>2 DEF AllLiveOK
<1> QED BY <1>5, <1>6, <1>7, <1>8, <1>9 DEF IInv

-----------------------------------------------------------------------------
(* The theorems *)

LEMMA InitIInv == Init => IInv
<1> SUFFICES ASSUME Init PROVE IInv
  OBVIOUS
<1>1. \A p \in Procs : proc[p] = Fresh
  BY DEF Init
<1>2. TypeOK
  BY <1>1, FreshFacts, Constants DEF Init, TypeOK
<1>3. ASSUME NEW p \in Procs
      PROVE  FrameOK(p) /\ MineOK(p) /\ WantOK(p) /\ RecordOK(p) /\ ~Clean(p) /\ ~Owning(p)
  BY <1>1, FreshFacts DEF Init, FrameOK, MineOK, WantOK, RecordOK, Clean, Owning, Holds, At, Reading, OwnPcs, WantPcs
<1>4. CleanOK /\ AllLiveOK
  BY <1>3 DEF CleanOK, AllLiveOK, Init
<1> QED BY <1>2, <1>3, <1>4 DEF IInv

LEMMA NextIInv == IInv /\ [Next]_vars => IInv'
<1> SUFFICES ASSUME IInv, [Next]_vars PROVE IInv'
  OBVIOUS
<1>1. CASE UNCHANGED vars
  <2>1. TypeOK' /\ CleanOK' /\ AllLiveOK'
    BY <1>1 DEF IInv, vars, TypeOK, CleanOK, AllLiveOK, Clean, Owning, Holds, At, Reading
  <2>2. ASSUME NEW p \in Procs
        PROVE  FrameOK(p)' /\ MineOK(p)' /\ WantOK(p)' /\ RecordOK(p)'
    BY <1>1 DEF IInv, vars, FrameOK, MineOK, WantOK, RecordOK, Holds, At, Here
  <2> QED BY <2>1, <2>2 DEF IInv
<1>2. CASE Next
  <2>1. PICK p \in Procs : Step(p) \/ WriteFails(p) \/ Validate(p) \/ Crash(p)
    BY <1>2 DEF Next
  <2>2. CASE WriteFails(p) \/ Validate(p) \/ Crash(p)
    BY <2>2, WriteFailsIInv, ValidateIInv, CrashIInv
  <2>3. CASE Begin(p) \/ Mkdir(p) \/ MkdirExists(p) \/ StatNew(p)
    BY <2>3, BeginIInv, MkdirIInv, MkdirExistsIInv, StatNewIInv
  <2>4. CASE CreateRecord(p) \/ FillRecord(p) \/ MakeGuard(p) \/ Undo(p)
    BY <2>4, CreateRecordIInv, FillRecordIInv, MakeGuardIInv, UndoIInv
  <2>5. CASE Look(p) \/ List(p) \/ Inspected(p) \/ ResumeLock(p)
    BY <2>5, LookIInv, ListIInv, InspectedIInv, ResumeLockIInv
  <2>6. CASE Claim(p) \/ RenameStale(p) \/ Moved(p)
    BY <2>6, ClaimIInv, RenameStaleIInv, MovedIInv
  <2>7. CASE Cleanup(p) \/ RemoveGuard(p) \/ AfterGuard(p) \/ Unlink(p)
    BY <2>7, CleanupIInv, RemoveGuardIInv, AfterGuardIInv, UnlinkIInv
  <2>8. CASE CheckEmpty(p) \/ RemoveDirectory(p)
    BY <2>8, CheckEmptyIInv, RemoveDirectoryIInv
  <2>9. CASE Validated(p) \/ Release(p) \/ Released(p) \/ Retire(p) \/ Retired(p)
    BY <2>9, ValidatedIInv, ReleaseIInv, ReleasedIInv, RetireIInv, RetiredIInv
  <2> QED BY <2>1, <2>2, <2>3, <2>4, <2>5, <2>6, <2>7, <2>8, <2>9 DEF Step
<1> QED BY <1>1, <1>2

\* The inductive invariant holds in every reachable state.
THEOREM Invariance == Spec => []IInv
BY InitIInv, NextIInv, PTL DEF Spec

\* Every variable stays in its domain (the shapes of shared/session-retention-lock.ts:36-72).
THEOREM TypeCorrect == Spec => []TypeOK
<1>1. IInv => TypeOK
  BY DEF IInv
<1> QED BY <1>1, Invariance, PTL

\* Whatever stale recoveries other processes are in the middle of, the record
\* and the guard of a live holder stay in the directory at the lock path
\* (recoverLock, shared/session-retention-lock.ts:302-329).
THEOREM HolderStaysOnRecord == Spec => []HolderOnRecord
<1>1. IInv => HolderOnRecord
  BY DEF IInv, RecordOK, HolderOnRecord
<1> QED BY <1>1, Invariance, PTL

\* At most one process at a time has a lease that validateSessionRetentionLease
\* has accepted, also after a recovery has let two processes think they hold
\* the lock.
THEOREM OneLeaseIsProven == Spec => []OneProvenLease
<1>1. IInv => OneProvenLease
  <2> SUFFICES ASSUME IInv, NEW p \in proved, NEW q \in proved PROVE p = q
    BY DEF OneProvenLease
  <2>1. p \in Procs /\ q \in Procs /\ Clean(p) /\ Clean(q)
    BY DEF IInv, TypeOK, Clean
  <2> QED BY <2>1 DEF IInv, CleanOK
<1> QED BY <1>1, Invariance, PTL

\* A validated lease is still published: the record and the guard it showed
\* are in the directory at the lock path until its owner releases it or dies.
THEOREM ProvenLeaseIsPublished ==
  Spec => [](\A p \in proved : {Named("record", proc[p].mine), Named("guard", proc[p].mine)} \subseteq Here)
<1>1. IInv => \A p \in proved : {Named("record", proc[p].mine), Named("guard", proc[p].mine)} \subseteq Here
  <2> SUFFICES ASSUME IInv, NEW p \in proved
               PROVE  {Named("record", proc[p].mine), Named("guard", proc[p].mine)} \subseteq Here
    OBVIOUS
  <2>1. p \in Procs /\ Holds(p)
    BY DEF IInv, TypeOK, CleanOK
  <2> QED BY <2>1 DEF IInv, RecordOK
<1> QED BY <1>1, Invariance, PTL

\* While every process lives, contenders, resumes, validations and releases
\* alone never let two processes hold the lock.
THEOREM LiveProcessesExclude == Spec => []ExclusiveWhileAllLive
<1>1. IInv => ExclusiveWhileAllLive
  <2> SUFFICES ASSUME IInv, alive = Procs, NEW p \in Procs, NEW q \in Procs, Holds(p), Holds(q)
               PROVE  p = q
    BY DEF ExclusiveWhileAllLive, MutualExclusion
  <2>1. Owning(p) /\ Owning(q)
    BY DEF IInv, MineOK, Holds, At, Owning, OwnPcs
  <2> QED BY <2>1 DEF IInv, AllLiveOK
<1> QED BY <1>1, Invariance, PTL
=============================================================================
