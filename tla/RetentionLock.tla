--------------------------- MODULE RetentionLock ---------------------------
(***************************************************************************)
(* The cross-process admission lock of shared/session-retention-lock.ts.   *)
(* The lock is a directory at one fixed path.  Its owner publishes a       *)
(* record file and a guard directory inside it; a release or the recovery  *)
(* of a dead owner renames the record to a transition and then takes the   *)
(* directory down.  Every step is one system call, because processes       *)
(* interleave at system calls and every call goes through the path: it     *)
(* meets whatever directory is there at that moment.                       *)
(***************************************************************************)
EXTENDS Naturals, FiniteSets

CONSTANTS
  Procs,       \* process ids; a crashed process never comes back
  Absent,      \* no directory at the path
  NoOwner,     \* no lock of its own
  NotFound,    \* an inspection answered null
  Inodes,      \* identities (dev, ino) a lock directory may get
  Reuse,       \* TRUE: the file system may give a freed inode out again
  MaxTokens,   \* bound: lock generations one process creates
  Once,        \* bound: processes that create one generation at most
  MaxCrashes,  \* bound: processes that die
  MaxFaults    \* bound: writes that fail with an I/O error

ASSUME RetentionLockAssumption ==
  /\ IsFiniteSet(Procs) /\ IsFiniteSet(Inodes)
  /\ Absent \notin Inodes
  /\ Reuse \in BOOLEAN /\ Once \subseteq Procs
  /\ MaxTokens \in Nat /\ MaxCrashes \in Nat /\ MaxFaults \in Nat

VARIABLES
  at,       \* identity of the directory at the lock path, or Absent
  entries,  \* entries of each directory
  blank,    \* owners whose record file exists but is still empty
  used,     \* identities given out (kept only when Reuse is FALSE)
  alive,    \* processes that have not crashed
  serial,   \* tokens each process has drawn
  faults,   \* I/O errors so far
  proc,     \* the call each process is in: see Frame
  proved    \* processes whose current lease has passed validation

vars == <<at, entries, blank, used, alive, serial, faults, proc, proved>>

\* A lock owner: randomUUID() is the pair of process and serial, which never
\* repeats; the record also carries the identity of the directory seen at mkdir.
Owner == [pid : Procs, token : 1 .. MaxTokens, ino : Inodes]

\* A process without a lock of its own is told apart from one that has it.
ASSUME NoOwnerAssumption == NoOwner \notin Owner

Entry == [kind : {"record", "guard", "released", "recovered"}, owner : Owner]
Named(k, o) == [kind |-> k, owner |-> o]

\* What an inspection answers.
Finding == [kind : {"record", "released", "recovered"}, owner : Owner,
            guarded : BOOLEAN]

Inspections == {"acquire", "undo", "validate", "release",
                "resume", "cleanup", "afterGuard"}

\* The local state of a process: where it is, which inspection it is in and
\* what that has read, the lock it owns, the transition it is cleaning up.
Frame ==
  [pc : {"idle", "mkdir", "stat", "write", "fill", "guard", "held", "look",
         "list", "read", "claim", "rename", "moved", "retire", "retired",
         "rmguard", "unlink", "empty1", "empty2", "empty3", "empty4",
         "rmdir", "dead"},
   ret : Inspections \cup {"none"},
   dir : Inodes \cup {Absent},
   names : SUBSET Entry,
   mine : Owner \cup {NoOwner},
   want : [kind : {"record", "released", "recovered"}, owner : Owner] \cup {NotFound}]

Fresh == [pc |-> "idle", ret |-> "none", dir |-> Absent, names |-> {},
          mine |-> NoOwner, want |-> NotFound]

Here == IF at = Absent THEN {} ELSE entries[at]

Init ==
  /\ at = Absent
  /\ entries = [i \in Inodes |-> {}]
  /\ blank = {} /\ used = {} /\ alive = Procs /\ faults = 0 /\ proved = {}
  /\ serial = [p \in Procs |-> 0]
  /\ proc = [p \in Procs |-> Fresh]

-----------------------------------------------------------------------------
(* Moving one process along. *)

At(p, pc) == proc[p].pc = pc
Goto(p, pc) == proc' = [proc EXCEPT ![p].pc = pc]

\* Call inspectLock or inspectLockTransition and come back as r.
Inspect(p, r) == proc' = [proc EXCEPT ![p].pc = "look", ![p].ret = r]

\* The frame after an inspection has answered.
Answered(p, pc) == [proc[p] EXCEPT !.pc = pc, !.ret = "none", !.dir = Absent, !.names = {}]
Return(p, pc) == proc' = [proc EXCEPT ![p] = Answered(p, pc)]

Leave(p) == proc' = [proc EXCEPT ![p] = Fresh]

\* cleanupLockTransition answers ok: an acquisition that recovered a lock
\* tries mkdir again, or gives up; a release is over either way.
Cleaned(p, ok) ==
  IF ok /\ proc[p].mine = NoOwner
  THEN proc' = [proc EXCEPT ![p] = [Fresh EXCEPT !.pc = "mkdir"]]
  ELSE Leave(p)

Disk == <<at, entries, blank, used>>
Rest == <<alive, serial, faults>>

-----------------------------------------------------------------------------
(* inspectLock and inspectLockTransition: lstat the path, list it, read the *)
(* one record it names.  The three calls may meet three different states.   *)

Look(p) ==
  /\ At(p, "look")
  /\ IF at = Absent
     THEN Goto(p, "read")
     ELSE proc' = [proc EXCEPT ![p].pc = "list", ![p].dir = at]
  /\ UNCHANGED <<Disk, Rest, proved>>

List(p) ==
  /\ At(p, "list")
  /\ proc' = [proc EXCEPT ![p].pc = "read", ![p].names = Here]
  /\ UNCHANGED <<Disk, Rest, proved>>

Sought(r) ==
  IF r \in {"resume", "cleanup", "afterGuard"} THEN {"released", "recovered"} ELSE {"record"}

\* Mutant: An inspection that accepts a record with other entries beside it (line 206).
FoundAmong(p) ==
  LET f == proc[p]
      hits == {e \in f.names : e.kind \in Sought(f.ret)}
      mineOf == {e \in hits : f.ret = "validate" => e.owner = f.mine}
  IN IF \E e \in mineOf : e \in Here /\ e.owner.ino = f.dir /\ e.owner \notin blank
     THEN LET e == CHOOSE x \in mineOf : x \in Here /\ x.owner.ino = f.dir /\ x.owner \notin blank
          IN [kind |-> e.kind, owner |-> e.owner,
              guarded |-> Named("guard", e.owner) \in f.names]
     ELSE NotFound

\* The listing shows exactly one record of the sought kind and at most its own
\* guard beside it; the files are still there when they are read; the record
\* is complete and names the directory that was there first.
Found(p) ==
  LET f == proc[p]
      hits == {e \in f.names : e.kind \in Sought(f.ret)}
      Readable(e) ==
        /\ f.names \subseteq {e, Named("guard", e.owner)}
        /\ f.names \subseteq Here
        /\ e.owner.ino = f.dir
        /\ e.owner \notin blank
  IN IF \E e \in hits : hits = {e} /\ Readable(e)
     THEN LET e == CHOOSE x \in hits : TRUE
          IN [kind |-> e.kind, owner |-> e.owner,
              guarded |-> Named("guard", e.owner) \in f.names]
     ELSE NotFound

Reading(p, r) == At(p, "read") /\ proc[p].ret = r

-----------------------------------------------------------------------------
(* acquireSessionRetentionLock *)

\* p's client may ask for the lock again.
Asks(p) == serial[p] < MaxTokens /\ (p \in Once => serial[p] = 0)

Begin(p) ==
  /\ At(p, "idle")
  /\ Asks(p)
  /\ Goto(p, "mkdir")
  /\ UNCHANGED <<Disk, Rest, proved>>

\* Mutant: A directory that is there already counts as made (mkdirSync recursive).
MkdirRecursive(p) ==
  /\ At(p, "mkdir")
  /\ IF at # Absent THEN UNCHANGED <<at, entries, used>>
     ELSE \E i \in Inodes \ used :
            /\ at' = i
            /\ entries' = [entries EXCEPT ![i] = {}]
            /\ used' = IF Reuse THEN used ELSE used \cup {i}
  /\ Goto(p, "stat")
  /\ UNCHANGED <<blank, Rest, proved>>

Mkdir(p) ==
  /\ At(p, "mkdir") /\ at = Absent
  /\ \E i \in Inodes \ used :
       /\ at' = i
       /\ entries' = [entries EXCEPT ![i] = {}]
       /\ used' = IF Reuse THEN used ELSE used \cup {i}
  /\ Goto(p, "stat")
  /\ UNCHANGED <<blank, Rest, proved>>

MkdirExists(p) ==
  /\ At(p, "mkdir") /\ at # Absent
  /\ Inspect(p, "acquire")
  /\ UNCHANGED <<Disk, Rest, proved>>

\* lockDirectory(path) after mkdir: the directory there now, not the one made.
StatNew(p) ==
  /\ At(p, "stat")
  /\ IF at = Absent
     THEN Leave(p) /\ UNCHANGED serial
     ELSE /\ serial' = [serial EXCEPT ![p] = @ + 1]
          /\ proc' = [proc EXCEPT ![p].pc = "write",
                        ![p].mine = [pid |-> p, token |-> serial[p] + 1, ino |-> at]]
  /\ UNCHANGED <<Disk, alive, faults, proved>>

\* writeFileSync with "wx" creates the file, then fills it.
CreateRecord(p) ==
  /\ At(p, "write") /\ at # Absent
  /\ entries' = [entries EXCEPT ![at] = @ \cup {Named("record", proc[p].mine)}]
  /\ blank' = blank \cup {proc[p].mine}
  /\ Goto(p, "fill")
  /\ UNCHANGED <<at, used, Rest, proved>>

FillRecord(p) ==
  /\ At(p, "fill")
  /\ blank' = blank \ {proc[p].mine}
  /\ Goto(p, "guard")
  /\ UNCHANGED <<at, entries, used, Rest, proved>>

MakeGuard(p) ==
  /\ At(p, "guard") /\ at # Absent
  /\ entries' = [entries EXCEPT ![at] = @ \cup {Named("guard", proc[p].mine)}]
  /\ Goto(p, "held")
  /\ UNCHANGED <<at, blank, used, Rest, proved>>

\* A failed write: the path is gone, or the disk refuses.
WriteFails(p) ==
  /\ proc[p].pc \in {"write", "fill", "guard"}
  /\ IF at = Absent THEN UNCHANGED faults
     ELSE faults < MaxFaults /\ faults' = faults + 1
  /\ Inspect(p, "undo")
  /\ UNCHANGED <<Disk, alive, serial, proved>>

\* The catch of acquireSessionRetentionLock: release only what is provably ours.
Undo(p) ==
  /\ Reading(p, "undo")
  /\ IF Found(p) # NotFound /\ Found(p).owner = proc[p].mine
     THEN Inspect(p, "release") ELSE Leave(p)
  /\ UNCHANGED <<Disk, Rest, proved>>

\* Mutant: Recovery without the liveness check of line 391.
InspectedUnchecked(p) ==
  /\ Reading(p, "acquire")
  /\ LET f == Found(p) IN
       IF f = NotFound THEN proc' = [proc EXCEPT ![p] = [Answered(p, "look") EXCEPT !.ret = "resume"]]
       ELSE proc' = [proc EXCEPT ![p] = [Answered(p, "claim") EXCEPT
                       !.want = [kind |-> "recovered", owner |-> f.owner]]]
  /\ UNCHANGED <<Disk, Rest, proved>>

\* A live owner, this process included, keeps its lock; a dead one is claimed.
Inspected(p) ==
  /\ Reading(p, "acquire")
  /\ LET f == Found(p) IN
       IF f = NotFound THEN proc' = [proc EXCEPT ![p] = [Answered(p, "look") EXCEPT !.ret = "resume"]]
       ELSE IF f.owner.pid \in alive THEN Leave(p)
       ELSE proc' = [proc EXCEPT ![p] = [Answered(p, "claim") EXCEPT
                       !.want = [kind |-> "recovered", owner |-> f.owner]]]
  /\ UNCHANGED <<Disk, Rest, proved>>

\* Mutant: resumeLock that leaves every transition alone.
ResumeLockNever(p) ==
  /\ Reading(p, "resume")
  /\ Leave(p)
  /\ UNCHANGED <<Disk, Rest, proved>>

\* resumeLock: only a transition whose owner is dead is taken further.
ResumeLock(p) ==
  /\ Reading(p, "resume")
  /\ LET f == Found(p) IN
       IF f = NotFound \/ f.owner.pid \in alive THEN Leave(p)
       ELSE proc' = [proc EXCEPT ![p] = [Answered(p, "look") EXCEPT
                       !.ret = "cleanup", !.want = [kind |-> f.kind, owner |-> f.owner]]]
  /\ UNCHANGED <<Disk, Rest, proved>>

-----------------------------------------------------------------------------
(* recoverLock *)

Claim(p) ==
  /\ At(p, "claim")
  /\ IF at = proc[p].want.owner.ino THEN Goto(p, "rename") ELSE Leave(p)
  /\ UNCHANGED <<Disk, Rest, proved>>

Renamed(p, k, o) ==
  entries' = [entries EXCEPT ![at] = (@ \ {Named("record", o)}) \cup {Named(k, o)}]

\* ENOENT: another contender claimed this generation; look at the next one.
RenameStale(p) ==
  /\ At(p, "rename")
  /\ IF Named("record", proc[p].want.owner) \in Here
     THEN Renamed(p, "recovered", proc[p].want.owner) /\ Goto(p, "moved")
     ELSE Cleaned(p, TRUE) /\ UNCHANGED entries
  /\ UNCHANGED <<at, blank, used, Rest, proved>>

Moved(p) ==
  /\ At(p, "moved")
  /\ IF at = proc[p].want.owner.ino /\ Named("recovered", proc[p].want.owner) \in Here
     THEN Inspect(p, "cleanup") ELSE Leave(p)
  /\ UNCHANGED <<Disk, Rest, proved>>

-----------------------------------------------------------------------------
(* cleanupLockTransition and removeEmptyLock *)

Expected(p) ==
  Found(p) # NotFound /\ proc[p].want = [kind |-> Found(p).kind, owner |-> Found(p).owner]

Cleanup(p) ==
  /\ Reading(p, "cleanup")
  /\ IF ~Expected(p) THEN Cleaned(p, FALSE)
     ELSE IF Found(p).guarded THEN Return(p, "rmguard")
     ELSE proc' = [proc EXCEPT ![p] = [Answered(p, "look") EXCEPT !.ret = "afterGuard"]]
  /\ UNCHANGED <<Disk, Rest, proved>>

RemoveGuard(p) ==
  /\ At(p, "rmguard")
  /\ LET g == Named("guard", proc[p].want.owner) IN
       IF g \in Here
       THEN entries' = [entries EXCEPT ![at] = @ \ {g}] /\ Inspect(p, "afterGuard")
       ELSE UNCHANGED entries /\ Goto(p, "empty1")
  /\ UNCHANGED <<at, blank, used, Rest, proved>>

AfterGuard(p) ==
  /\ Reading(p, "afterGuard")
  /\ IF Found(p) = NotFound THEN Return(p, "empty1")
     ELSE IF Expected(p) /\ ~Found(p).guarded THEN Return(p, "unlink")
     ELSE Cleaned(p, FALSE)
  /\ UNCHANGED <<Disk, Rest, proved>>

\* Gone already (ENOENT) and unlinked now lead to the same place.
Unlink(p) ==
  /\ At(p, "unlink")
  /\ entries' = IF at = Absent THEN entries
                ELSE [entries EXCEPT ![at] = @ \ {Named(proc[p].want.kind, proc[p].want.owner)}]
  /\ Goto(p, "empty1")
  /\ UNCHANGED <<at, blank, used, Rest, proved>>

\* removeEmptyLock asks twice, identity then listing, before the removal.
SameDirectory(p, from, to) ==
  /\ At(p, from)
  /\ IF at = proc[p].want.owner.ino THEN Goto(p, to)
     ELSE Cleaned(p, at = Absent /\ from = "empty1")
  /\ UNCHANGED <<Disk, Rest, proved>>

IsEmpty(p, from, to) ==
  /\ At(p, from)
  /\ IF at = Absent THEN Cleaned(p, TRUE)
     ELSE IF Here = {} THEN Goto(p, to) ELSE Cleaned(p, FALSE)
  /\ UNCHANGED <<Disk, Rest, proved>>

CheckEmpty(p) ==
  \/ SameDirectory(p, "empty1", "empty2")
  \/ IsEmpty(p, "empty2", "empty3")
  \/ SameDirectory(p, "empty3", "empty4")
  \/ IsEmpty(p, "empty4", "rmdir")

\* rmdir goes through the path, so it removes whatever empty directory is there.
RemoveDirectory(p) ==
  /\ At(p, "rmdir")
  /\ IF Here = {}
     THEN at' = Absent /\ Cleaned(p, TRUE)
     ELSE UNCHANGED at /\ Cleaned(p, FALSE)
  /\ UNCHANGED <<entries, blank, used, Rest, proved>>

-----------------------------------------------------------------------------
(* validateSessionRetentionLease and releaseSessionRetentionLock *)

Validate(p) ==
  /\ At(p, "held")
  /\ Inspect(p, "validate")
  /\ UNCHANGED <<Disk, Rest, proved>>

Validated(p) ==
  /\ Reading(p, "validate")
  /\ LET f == Found(p) IN
       proved' = IF f # NotFound /\ f.guarded /\ f.owner = proc[p].mine
                 THEN proved \cup {p} ELSE proved \ {p}
  /\ Return(p, "held")
  /\ UNCHANGED <<Disk, Rest>>

Release(p) ==
  /\ At(p, "held")
  /\ Inspect(p, "release")
  /\ proved' = proved \ {p}
  /\ UNCHANGED <<Disk, Rest>>

Released(p) ==
  /\ Reading(p, "release")
  /\ IF Found(p) # NotFound /\ Found(p).owner = proc[p].mine
     THEN Return(p, "retire") ELSE Leave(p)
  /\ UNCHANGED <<Disk, Rest, proved>>

Retire(p) ==
  /\ At(p, "retire")
  /\ IF Named("record", proc[p].mine) \in Here
     THEN Renamed(p, "released", proc[p].mine) /\ Goto(p, "retired")
     ELSE UNCHANGED entries /\ Leave(p)
  /\ UNCHANGED <<at, blank, used, Rest, proved>>

Retired(p) ==
  /\ At(p, "retired")
  /\ IF Named("released", proc[p].mine) \in Here
     THEN proc' = [proc EXCEPT ![p].pc = "look", ![p].ret = "cleanup",
                     ![p].want = [kind |-> "released", owner |-> proc[p].mine]]
     ELSE Leave(p)
  /\ UNCHANGED <<Disk, Rest, proved>>

-----------------------------------------------------------------------------
\* A process dies between two system calls; what it wrote stays on the disk.
Crash(p) ==
  /\ p \in alive
  /\ Cardinality(Procs \ alive) < MaxCrashes
  /\ alive' = alive \ {p}
  /\ proved' = proved \ {p}
  /\ proc' = [proc EXCEPT ![p] = [Fresh EXCEPT !.pc = "dead"]]
  /\ UNCHANGED <<Disk, serial, faults>>

Step(p) ==
  \/ Begin(p) \/ Mkdir(p) \/ MkdirExists(p) \/ StatNew(p)
  \/ CreateRecord(p) \/ FillRecord(p) \/ MakeGuard(p) \/ Undo(p)
  \/ Look(p) \/ List(p) \/ Inspected(p) \/ ResumeLock(p)
  \/ Claim(p) \/ RenameStale(p) \/ Moved(p)
  \/ Cleanup(p) \/ RemoveGuard(p) \/ AfterGuard(p) \/ Unlink(p)
  \/ CheckEmpty(p) \/ RemoveDirectory(p)
  \/ Validated(p) \/ Release(p) \/ Released(p) \/ Retire(p) \/ Retired(p)

Next == \E p \in Procs : Step(p) \/ WriteFails(p) \/ Validate(p) \/ Crash(p)

Spec == Init /\ [][Next]_vars

\* A live process goes on with the call it is in, and its client asks again
\* (the 25 ms retry of acquireSessionRetentionLockAsync) and releases what it got.
FairSpec == Spec /\ \A p \in Procs : WF_vars(Step(p))
-----------------------------------------------------------------------------
(* Properties *)

\* Every variable stays in its domain (the shapes of lines 36-72).
TypeOK ==
  /\ at \in Inodes \cup {Absent}
  /\ entries \in [Inodes -> SUBSET Entry]
  /\ blank \subseteq Owner /\ used \subseteq Inodes
  /\ alive \subseteq Procs /\ proved \subseteq alive
  /\ serial \in [Procs -> 0 .. MaxTokens]
  /\ faults \in 0 .. MaxFaults
  /\ proc \in [Procs -> Frame]

\* p has been handed the lock and has not called release.
Holds(p) == At(p, "held") \/ proc[p].ret = "validate"

\* The published record and guard of a live holder stay in the directory at the
\* lock path, whatever stale recoveries other processes are in the middle of:
\* recovery may rename, unlink and rmdir only what belongs to a dead owner.
HolderOnRecord ==
  \A p \in Procs : Holds(p) =>
    {Named("record", proc[p].mine), Named("guard", proc[p].mine)} \subseteq Here

\* At most one process holds the lock: every caller of
\* acquireSessionRetentionLock works on the shared root on this understanding.
MutualExclusion == \A p, q \in Procs : Holds(p) /\ Holds(q) => p = q

\* While every process lives, contenders, resumes, validations and releases
\* alone never let two processes hold the lock.
ExclusiveWhileAllLive == alive = Procs => MutualExclusion

\* At most one process at a time holds a lease that validateSessionRetentionLease
\* has accepted, even where two processes were handed the lock: claims are
\* published only under such a lease.
OneProvenLease == \A p, q \in proved : p = q

\* When every call has returned without a crash or an I/O error the lock is
\* free: neither a release racing contenders nor their failed attempts leave a
\* directory behind that later callers would wait for in vain.
QuietMeansFree ==
  (alive = Procs /\ faults = 0 /\ \A p \in Procs : At(p, "idle")) => at = Absent

\* A dead owner's lock that an inspection can read: one complete record, or the
\* transition it was renamed to, and at most the guard of that generation.
Abandoned ==
  \E e \in Here :
    /\ e.kind # "guard" /\ e.owner.pid \notin alive
    /\ e.owner.ino = at /\ e.owner \notin blank
    /\ Here \subseteq {e, Named("guard", e.owner)}

\* Two generations have met in one directory: two recoverers both published there.
\* No inspection can read it any more, as little as a directory without a complete
\* record, and lines 299-301 retain what cannot be read for a person to look at.
Tangled == \E e, f \in Here : e.owner # f.owner

\* Some live process may still ask for the lock.
Contended == \E p \in alive : Asks(p)

\* A readable lock whose owner died holding it, or in the middle of releasing or
\* recovering it, does not stay while a contender keeps asking: the directory goes,
\* or two generations meet in it.  Only where a second process dies may something
\* else be left there that no inspection can read.
StaleIsRecovered ==
  Abandoned /\ Contended
    ~> at = Absent \/ Tangled \/ ~Contended \/ (~Abandoned /\ Cardinality(Procs \ alive) > 1)
=============================================================================
