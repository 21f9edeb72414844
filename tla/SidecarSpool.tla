---------------------------- MODULE SidecarSpool ----------------------------
(***************************************************************************)
(* The event spool of one terminal: the producer inside the agent appends  *)
(* records to the active file and seals it when it is full                 *)
(* (agent-core/main/sidecar.ts), and SidecarTailer reads the active file,  *)
(* the sealed generation and the retained anchor in sequence order and     *)
(* retires what it has drained through a chain of hard links               *)
(* (electron/sidecar/tailer.ts).  Two processes share a directory: each    *)
(* system call that changes a name is a step, so is each listing the       *)
(* producer decides on.                                                    *)
(*                                                                         *)
(* A record is written as two pieces, the second of which ends in the      *)
(* newline; bytes are counted in pieces.  A name is <<inode, kind>>, the   *)
(* inode standing for the unique base of a generation's names.  An event   *)
(* is handled and its cursor written in one step (SidecarDelivery has the  *)
(* steps between them).  No descriptor outlives the append that opened it, *)
(* so a sealed inode no longer changes; records are below the size cap.    *)
(***************************************************************************)
EXTENDS SpoolDirectory, Sequences, SequencesExt

CONSTANTS
  MaxBytes,     \* SIDECAR_MAX_BYTES
  MaxBacklog,   \* maxBacklogBytes
  ReadBytes,    \* SIDECAR_TAIL_READ_BYTES
  MaxGap,       \* SIDECAR_MAX_SEQUENCE_GAP_POLLS
  MaxAttempts,  \* SIDECAR_MAX_APPEND_RETRIES
  MaxPending,   \* SIDECAR_MAX_PENDING_EVENTS
  MaxRecords,   \* bound: records of one producer
  MaxBridges,   \* bound: producers, one after the other
  MaxFails,     \* bound: failing system calls
  MayTear       \* whether a producer may die inside a line

ASSUME SidecarSpoolBounds ==
  /\ {MaxBytes, MaxBacklog, ReadBytes, MaxGap, MaxAttempts, MaxPending, MaxFiles, MaxRecords, MaxBridges}
       \subseteq Nat \ {0}
  /\ MaxFails \in Nat /\ MayTear \in BOOLEAN

VARIABLES
  file,    \* content of each inode
  marker,  \* whether the quarantine marker file exists
  prod,    \* the producer: createSidecarWriter
  disk,    \* the cursor file
  t,       \* the maps of the tailer for this terminal
  pass,    \* locals of readTail and what it calls
  fails,   \* bound: system calls that failed so far
  got      \* history: records delivered

spool == <<file, dir>>
vars == <<file, dir, marker, prod, disk, t, pass, fails, got>>

Anchors == {"draining", "final", "retained"}
None == <<0, "none">>
Active == <<0, "active">>
Files == Inodes \X ({"sealed"} \cup Anchors)

SealedNames == {n \in Files : n[2] = "sealed" /\ n[2] \in dir[n[1]]}
AnchorNames == {n \in Files : n[2] \in Anchors /\ n[2] \in dir[n[1]]}

-----------------------------------------------------------------------------
(* Lines *)

Piece(r, part) == [bridge |-> r.bridge, seq |-> r.seq, part |-> part]
RecordOf(piece) == [bridge |-> piece.bridge, seq |-> piece.seq]
Line(r) == <<Piece(r, 1), Piece(r, 2)>>

\* The offset behind the first newline after `at`, if there is one up to `end`.
LineEnds(s, at, end) == {n \in (at + 1) .. end : s[n].part = 2}
LineEnd(s, at, end) == CHOOSE n \in LineEnds(s, at, end) : \A m \in LineEnds(s, at, end) : n <= m

\* parseSidecarRecord: two halves of different records are not a record.
Parsed(pieces) == {r \in {RecordOf(pieces[1])} : pieces = Line(r)}

\* The records from `at` on that a reader can parse, with where their lines end.
Readable(s, at) ==
  {f \in LineEnds(s, at, Len(s)) \X {RecordOf(s[k]) : k \in (at + 1) .. Len(s)} :
     LET n == f[1] IN
     /\ n >= 2 /\ SubSeq(s, n - 1, n) = Line(f[2])
     /\ n = at + 2 \/ (n > at + 2 /\ s[n - 2].part = 2)}

Torn == \E i \in Named("active") : file[i] # <<>> /\ Last(file[i]).part = 1

-----------------------------------------------------------------------------
(* The producer: logEvent, flushPendingSidecar, sealBeforeAppend, appendDurable *)

Producer(b) == [bridge |-> b, seq |-> 0, pending |-> 0, frozen |-> FALSE, attempts |-> 0,
                pc |-> "idle", stopped |-> FALSE]

Next1(p) == [bridge |-> p.bridge, seq |-> p.seq + 1]
Step(pc) == prod' = [prod EXCEPT !.pc = pc]

\* failPendingSidecar: `m` is the quarantine marker so far.
Failed(m) ==
  LET stop == prod.attempts + 1 >= MaxAttempts IN
  /\ prod' = [prod EXCEPT !.attempts = @ + 1, !.stopped = stop, !.pc = "idle"]
  /\ marker' = (m \/ stop)

\* The loop of flushPendingSidecar: a frozen line is not sealed again.
Flushing(p) == [p EXCEPT !.pc = IF p.pending = 0 THEN "idle" ELSE IF p.frozen THEN "append" ELSE "seal"]

Log ==
  /\ prod.pc = "idle" /\ ~prod.stopped /\ prod.seq + prod.pending < MaxRecords
  /\ IF prod.pending >= MaxPending
     THEN prod' = [prod EXCEPT !.stopped = TRUE] /\ marker' = TRUE
     ELSE prod' = Flushing([prod EXCEPT !.pending = @ + 1]) /\ UNCHANGED marker
  /\ UNCHANGED <<spool, disk, t, pass, fails, got>>

\* The retry timer, or another logEvent.
Retry ==
  /\ prod.pc = "idle" /\ ~prod.stopped /\ prod.pending > 0
  /\ prod' = Flushing(prod)
  /\ UNCHANGED <<spool, marker, disk, t, pass, fails, got>>

\* A quarantine ends every wait, that of a retry too, and refuses every seal.
Refused ==
  /\ prod.pc \in {"idle", "seal", "wait"} /\ ~prod.stopped /\ prod.pending > 0 /\ marker
  /\ Failed(TRUE)
  /\ UNCHANGED <<spool, disk, t, pass, fails, got>>

\* hasUnsettledSidecar: a name of a reclaim chain under way.
Unsettled == Named("draining") \cup Named("final") # {}

Frozen == prod' = [prod EXCEPT !.frozen = TRUE, !.pc = "append"]

Create ==
  LET i == Cardinality({k \in Inodes : dir[k] # {} \/ file[k] # <<>>}) + 1 IN
  /\ i \in Inodes /\ dir[i] = {}
  /\ dir' = [dir EXCEPT ![i] = {"active"}]

Full == \E i \in Named("active") : file[i] # <<>> /\ Len(file[i]) + 2 > MaxBytes

Seal ==
  /\ prod.pc = "seal" /\ ~marker
  /\ \/ Named("active") = {} /\ Create /\ Frozen /\ UNCHANGED marker
     \/ Named("active") # {} /\ ~Full /\ Frozen /\ UNCHANGED <<dir, marker>>
     \/ Full /\ Unsettled /\ Failed(TRUE) /\ UNCHANGED dir
     \/ Full /\ ~Unsettled /\ Step("list") /\ UNCHANGED <<dir, marker>>
  /\ UNCHANGED <<file, disk, t, pass, fails, got>>

\* Mutant: the rotation does not wait for the generation before.
NonePending == FALSE

\* The second listing: is a sealed generation still published?
SealPending == Named("sealed") # {}

ListSealed ==
  /\ prod.pc = "list"
  /\ Step(IF SealPending THEN "wait" ELSE "rename")
  /\ UNCHANGED <<spool, marker, disk, t, pass, fails, got>>

\* One poll of the wait for it to retire.
Wait ==
  /\ prod.pc = "wait" /\ ~marker
  /\ IF Unsettled THEN Failed(TRUE) ELSE Step("list") /\ UNCHANGED marker
  /\ UNCHANGED <<spool, disk, t, pass, fails, got>>

\* The bounded budget of polls is spent.
WaitEnds ==
  /\ prod.pc = "wait" /\ ~marker
  /\ Failed(TRUE)
  /\ UNCHANGED <<spool, disk, t, pass, fails, got>>

Rename ==
  /\ prod.pc = "rename"
  /\ dir' = [i \in Inodes |-> IF "active" \in dir[i] THEN {"sealed"} ELSE dir[i]]
  /\ Step("create")
  /\ UNCHANGED <<file, marker, disk, t, pass, fails, got>>

CreateActive ==
  /\ prod.pc = "create"
  /\ Create /\ Frozen
  /\ UNCHANGED <<file, marker, disk, t, pass, fails, got>>

\* Mutant: a retry looks for the whole line only.
MissingWhole(s, r) == IF Len(s) >= 2 /\ SubSeq(s, Len(s) - 1, Len(s)) = Line(r) THEN <<>> ELSE Line(r)

\* What is missing of the line at the end of the file: nothing, its tail, all.
Missing(s, r) ==
  IF Len(s) >= 2 /\ SubSeq(s, Len(s) - 1, Len(s)) = Line(r) THEN <<>>
  ELSE IF s # <<>> /\ Last(s) = Piece(r, 1) THEN <<Piece(r, 2)>>
  ELSE Line(r)

\* The kernel takes as much of the rest as it likes.
AppendSome ==
  /\ prod.pc = "append"
  /\ \E i \in Named("active") :
       /\ Missing(file[i], Next1(prod)) # <<>>
       /\ file' = [file EXCEPT ![i] = Append(@, Head(Missing(@, Next1(prod))))]
  /\ UNCHANGED <<dir, marker, prod, disk, t, pass, fails, got>>

\* fsync succeeded: the sequence number is committed.
Commit ==
  /\ prod.pc = "append"
  /\ \E i \in Named("active") : Missing(file[i], Next1(prod)) = <<>>
  /\ prod' = Flushing([prod EXCEPT !.seq = @ + 1, !.pending = @ - 1, !.frozen = FALSE, !.attempts = 0])
  /\ UNCHANGED <<spool, marker, disk, t, pass, fails, got>>

ProducerFails ==
  /\ prod.pc \in {"seal", "rename", "create", "append"} /\ fails < MaxFails
  /\ fails' = fails + 1
  /\ Failed(marker)
  /\ UNCHANGED <<spool, disk, t, pass, got>>

\* The producer dies and the terminal starts another.
Kill ==
  /\ prod.bridge < MaxBridges /\ (Torn => MayTear)
  /\ prod' = Producer(prod.bridge + 1)
  /\ UNCHANGED <<spool, marker, disk, t, pass, fails, got>>

-----------------------------------------------------------------------------
(* The tailer's state *)

At(off, rest) == [off |-> off, rest |-> rest, gaps |-> 0]
NewAt(at, n, v) == [m \in DOMAIN at \cup {n} |-> IF m = n THEN v ELSE at[m]]
Drop(at, ns) == [m \in DOMAIN at \ ns |-> at[m]]

Idle == [pc |-> "idle", sealed |-> {}, kept |-> {}, todo |-> {}, src |-> None, ino |-> 0, at |-> 0, end |-> 0,
         deferred |-> FALSE, last |-> FALSE, link |-> 0]

Rank(kind) == CHOOSE k \in 1 .. 4 : <<"sealed", "draining", "final", "retained">>[k] = kind
FirstName(ns) == CHOOSE a \in ns : \A b \in ns : a = b \/ a[1] < b[1] \/ (a[1] = b[1] /\ Rank(a[2]) < Rank(b[2]))

InodeOf(n) == IF n = Active THEN Named("active") ELSE {i \in Inodes : i = n[1] /\ n[2] \in dir[i]}
SizeOf(n) == IF InodeOf(n) = {} THEN 0 ELSE Len(file[CHOOSE i \in InodeOf(n) : TRUE])
Content(n) == file[CHOOSE i \in InodeOf(n) : TRUE]

AtOf(n) == IF n \in DOMAIN t.at THEN t.at[n] ELSE At(0, 0)
HasSegmentState == DOMAIN t.at # {Active}
Matches(c, n) == c # None /\ n # None /\ (c = n \/ (c[1] = n[1] /\ c[2] = "sealed"))

\* persistCursor of a segment position: the stream stays.
AtSegment(c, off, n, segOff) == [c EXCEPT !.off = off, !.seg = n, !.segOff = segOff]

Quarantined(tt, why) == [tt EXCEPT !.stop = why]

\* watch: the source the cursor names, else the first sealed, else the first anchor.
Watched ==
  LET c == disk
      own == {n \in SealedNames : n = c.seg}
      alias == {n \in AnchorNames : c.seg[2] = "sealed" /\ n[1] = c.seg[1]}
      src == IF own # {} THEN c.seg
             ELSE IF alias # {} THEN FirstName(alias)
             ELSE IF SealedNames # {} THEN FirstName(SealedNames)
             ELSE IF AnchorNames # {} THEN FirstName(AnchorNames) ELSE None
      fits == c.off <= SizeOf(Active)
      from == IF c.seg = None \/ c.seg[1] # src[1] THEN 0
              ELSE IF c.segOff < SizeOf(src) THEN c.segOff ELSE SizeOf(src)
      start == IF src # None THEN IF Matches(c.seg, src) /\ fits THEN c.off ELSE 0
               ELSE IF fits THEN c.off ELSE SizeOf(Active)
      at == IF src = None THEN [n \in {Active} |-> At(start, 0)]
            ELSE [n \in {Active, src} |-> IF n = src THEN At(from, 0) ELSE At(start, 0)]
  IN /\ t' = [at |-> at, anchor |-> IF src[2] \in Anchors THEN src ELSE None, drain |-> None,
              last |-> src, once |-> {}, stream |-> c.stream,
              known |-> {s.bridge : s \in c.stream}, stop |-> "no"]
     /\ disk' = IF fits /\ (src = None \/ Matches(c.seg, src)) THEN c
                ELSE [off |-> start, seg |-> IF src = None THEN IF fits THEN c.seg ELSE None ELSE src,
                      segOff |-> IF src = None THEN IF fits THEN c.segOff ELSE 0 ELSE from,
                      stream |-> IF fits THEN c.stream ELSE {}]

\* The application dies with its terminals; the next launch starts another
\* producer and sweeps the marker of a dead one.
Crash ==
  /\ prod.bridge < MaxBridges /\ (Torn => MayTear)
  /\ prod' = Producer(prod.bridge + 1)
  /\ marker' = FALSE
  /\ pass' = Idle
  /\ Watched
  /\ UNCHANGED <<spool, fails, got>>

-----------------------------------------------------------------------------
(* A pass of the tailer: readTail, bindRetainedAnchor, drainSegmentCandidates *)

Tailing == UNCHANGED <<file, prod, got>>
EndPass == pass' = Idle

\* quarantine: the marker is published and the terminal stays held.
Stop(tt, why) == t' = Quarantined(tt, why) /\ marker' = TRUE /\ EndPass

Candidates(sealed, kept) == sealed \cup kept \cup (IF sealed = {} THEN {Active} ELSE {})

\* Mutant: the position in the active file outlives its rotation.
NotRewound(tt, sealed) == tt

\* A sealed generation excludes the active file from the pass and rewinds it.
Rewound(tt, sealed) ==
  IF sealed = {} THEN tt ELSE [tt EXCEPT !.at[Active].off = 0, !.at[Active].rest = 0]
Scan(sealed, kept) ==
  [Idle EXCEPT !.pc = "drain", !.sealed = sealed, !.kept = kept, !.todo = Candidates(sealed, kept)]

\* One listing of the directory serves the pass.
StartPass ==
  /\ pass.pc = "idle" /\ t.stop = "no"
  /\ IF AnchorNames = {}
     THEN pass' = Scan(SealedNames, {}) /\ t' = Rewound(t, SealedNames)
     ELSE pass' = [Idle EXCEPT !.pc = "bind", !.sealed = SealedNames, !.kept = AnchorNames] /\ UNCHANGED t
  /\ UNCHANGED <<dir, marker, disk, fails>> /\ Tailing

\* bindRetainedAnchor: one of the listed links becomes the anchor.
Bind ==
  LET kept == pass.kept
      n == IF t.anchor \in kept THEN t.anchor
           ELSE IF t.anchor = None /\ t.drain \in kept THEN t.drain ELSE FirstName(kept)
      prior == IF t.last[2] \in Anchors /\ t.last \in DOMAIN t.at THEN t.last ELSE None
      from == IF n \in DOMAIN t.at THEN t.at[n]
              ELSE IF prior # None THEN t.at[prior]
              ELSE At(IF Matches(disk.seg, n) THEN disk.segOff ELSE 0, 0)
  IN /\ pass.pc = "bind"
     /\ IF \E a, b \in kept : a[1] # b[1]
        THEN Stop(t, "identities")
        ELSE IF prior # None /\ prior[1] # n[1] THEN Stop(t, "changed")
        ELSE /\ t' = [t EXCEPT !.at = NewAt(Drop(@, {prior} \ {n}), n, from), !.last = n, !.anchor = n]
             /\ pass' = [pass EXCEPT !.pc = "alias", !.src = n]
             /\ UNCHANGED marker
     /\ UNCHANGED <<dir, disk, fails>> /\ Tailing

Unlink(n) == dir' = [dir EXCEPT ![n[1]] = @ \ {n[2]}]

\* The other links to the same inode go one by one, then the cursor is written.
Alias ==
  LET others == pass.kept \ {pass.src}
      twins == {n \in pass.sealed : n[1] = pass.src[1]}
  IN /\ pass.pc = "alias"
     /\ IF others # {}
        THEN /\ Unlink(FirstName(others))
             /\ t' = [t EXCEPT !.at = Drop(@, {FirstName(others)})]
             /\ pass' = [pass EXCEPT !.kept = @ \ {FirstName(others)}]
             /\ UNCHANGED disk
        ELSE IF twins # {}
        THEN /\ Unlink(FirstName(twins))
             /\ pass' = [pass EXCEPT !.sealed = @ \ twins]
             /\ UNCHANGED <<t, disk>>
        ELSE /\ disk' = AtSegment(disk, t.at[Active].off, pass.src, t.at[pass.src].off)
             /\ t' = [Rewound(t, pass.sealed) EXCEPT !.drain = None]
             /\ pass' = Scan(pass.sealed, pass.kept)
             /\ UNCHANGED dir
     /\ UNCHANGED <<marker, fails>> /\ Tailing

AliasFails ==
  /\ pass.pc = "alias" /\ fails < MaxFails
  /\ pass.kept # {pass.src} \/ \E n \in pass.sealed : n[1] = pass.src[1]
  /\ fails' = fails + 1
  /\ Stop(t, "alias")
  /\ UNCHANGED <<dir, disk>> /\ Tailing

-----------------------------------------------------------------------------
(* Choosing a source *)

Expected == {s.seq + 1 : s \in t.stream}

\* peekSegmentRecord and the rank of what it found.
Peek(n) ==
  LET found == IF InodeOf(n) = {} THEN {} ELSE Readable(Content(n), AtOf(n).off)
      seq == (CHOOSE f \in found : \A g \in found : f[1] <= g[1])[2].seq
  IN IF found # {}
     THEN [rank |-> IF seq \in Expected THEN 0 ELSE 1, seq |-> seq]
     ELSE [seq |-> MaxRecords + 1,
           rank |-> IF SizeOf(n) <= AtOf(n).off THEN 3
                    ELSE IF Last(Content(n)).part = 1 THEN -1 ELSE 2]

Earlier(a, b) ==
  LET p == Peek(a)
      q == Peek(b)
  IN \/ p.rank < q.rank
     \/ p.rank = q.rank /\ p.seq < q.seq
     \/ /\ p.rank = q.rank /\ p.seq = q.seq
        /\ a[2] \in Anchors \/ (b[2] \notin Anchors /\ a[1] <= b[1])

Choice == CHOOSE n \in pass.todo : \A m \in pass.todo : m = n \/ Earlier(n, m)

\* A fresh listing: active bytes wait while a sealed generation exists.
Gate == SealedNames # {}

\* Where readSource goes from a source it does not read.
Skipped(p) == [p EXCEPT !.pc = IF p.last THEN "end" ELSE "drain"]

\* readSource up to the open: at most one chunk behind what is held of a line.
Visited(n, todo, last) ==
  LET from == AtOf(n)
      want == from.off + from.rest + ReadBytes
      p == [pass EXCEPT !.todo = todo, !.last = last]
  IN IF n = Active /\ (InodeOf(n) = {} \/ Gate) THEN Skipped(p)
     ELSE [p EXCEPT !.pc = IF n = Active THEN "open" ELSE "line",
                    !.src = n, !.ino = CHOOSE i \in InodeOf(n) : TRUE,
                    !.at = from.off, !.end = IF want < SizeOf(n) THEN want ELSE SizeOf(n)]

\* A generation cannot be ordered beside a reclaim under way.
Beside == t.drain # None /\ \E n \in pass.todo : n[2] = "sealed"

\* drainSegmentCandidates: the source whose next record is due comes first.
Choose ==
  /\ pass.pc = "drain" /\ pass.todo # {}
  /\ IF Beside THEN Stop(t, "beside")
     ELSE /\ pass' = Visited(Choice, pass.todo \ {Choice}, FALSE)
          /\ t' = IF Choice = Active THEN t ELSE [t EXCEPT !.last = Choice]
          /\ UNCHANGED marker
  /\ UNCHANGED <<dir, disk, fails>> /\ Tailing

\* Mutant: whatever the active name leads to is read.
AnyInode(i) == Named("active") # {}

SameInode(i) == Named("active") = {i}

\* The active name may lead to another inode since it was looked up.
Open ==
  /\ pass.pc = "open"
  /\ pass' = IF SameInode(pass.ino)
             THEN [pass EXCEPT !.pc = "line", !.ino = CHOOSE i \in Named("active") : TRUE,
                               !.end = IF pass.end < SizeOf(Active) THEN pass.end ELSE SizeOf(Active)]
             ELSE Skipped(pass)
  /\ UNCHANGED <<dir, marker, disk, t, fails>> /\ Tailing

-----------------------------------------------------------------------------
(* readSource, line by line *)

\* canAcceptEvent: the first record of a bridge is its session_ready.
CanAccept(r) ==
  \/ t.stream = {} /\ r.bridge \notin t.known
  \/ \E s \in t.stream :
       \/ s.bridge = r.bridge /\ r.seq > s.seq
       \/ s.bridge # r.bridge /\ r.bridge \notin t.known /\ r.seq = 1

\* eventDisposition: with segments about, a gap is left to an older source.
Defers(r) == HasSegmentState /\ \E s \in t.stream : s.bridge = r.bridge /\ r.seq > s.seq + 1

Here == file[pass.ino]
LineReady == LineEnds(Here, pass.at, pass.end) # {}
NextEnd == LineEnd(Here, pass.at, pass.end)
NextRecord == Parsed(SubSeq(Here, pass.at + 1, NextEnd))
Stored(tt, off, gaps) == [tt EXCEPT !.at = NewAt(@, pass.src, [off |-> off, rest |-> pass.end - off, gaps |-> gaps])]

\* A line that is no record, or one the stream does not accept.
SkipLine ==
  /\ pass.pc = "line" /\ LineReady
  /\ \A r \in NextRecord : ~CanAccept(r)
  /\ pass' = [pass EXCEPT !.at = NextEnd, !.deferred = @ /\ NextRecord = {}]
  /\ t' = IF NextRecord = {} THEN t ELSE [t EXCEPT !.at = NewAt(@, pass.src, [AtOf(pass.src) EXCEPT !.gaps = 0])]
  /\ UNCHANGED <<dir, marker, disk, fails>> /\ Tailing

\* The handler takes the event, then the cursor is written, then the stream moves.
Delivered(r) ==
  /\ got' = Append(got, r)
  /\ disk' = IF pass.src = Active
             THEN [disk EXCEPT !.off = NextEnd, !.stream = {r},
                               !.segOff = IF t.last \in DOMAIN t.at THEN t.at[t.last].off ELSE @]
             ELSE [AtSegment(disk, t.at[Active].off, pass.src, NextEnd) EXCEPT !.stream = {r}]
  /\ t' = [t EXCEPT !.stream = {r}, !.known = @ \cup {r.bridge},
                    !.at = IF pass.src \in DOMAIN @ THEN [@ EXCEPT ![pass.src].gaps = 0] ELSE @]
  /\ pass' = [pass EXCEPT !.at = NextEnd, !.deferred = FALSE]
  /\ UNCHANGED marker

\* The other sources are read first; the pass is repeated a bounded number of times.
Deferred ==
  LET gaps == AtOf(pass.src).gaps + 1
      tt == Stored(t, pass.at, gaps)
  IN /\ UNCHANGED <<got, disk>>
     /\ IF gaps >= MaxGap THEN Stop(tt, "gap")
        ELSE /\ t' = tt /\ UNCHANGED marker
             /\ pass' = [Skipped(pass) EXCEPT !.deferred = TRUE]

Accept ==
  /\ pass.pc = "line" /\ LineReady
  /\ \E r \in NextRecord : CanAccept(r) /\ IF Defers(r) THEN Deferred ELSE Delivered(r)
  /\ UNCHANGED <<file, dir, prod, fails>>

\* checkBacklog: only the source selected last counts from its offset.
Unread(names, tt) ==
  LET counted(n) == IF n = Active \/ n = tt.last THEN IF n \in DOMAIN tt.at THEN tt.at[n].off ELSE 0 ELSE 0
      left(n) == IF SizeOf(n) > counted(n) THEN SizeOf(n) - counted(n) ELSE 0
      chosen(i) == FirstName({n \in names : n[1] = i})
  IN left(Active) + FoldLeft(LAMBDA sum, i : sum + left(chosen(i)), 0, SetToSeq({n[1] : n \in names}))

Overflow(names, tt) == tt.anchor # None /\ Unread(names, tt) > MaxBacklog

Backlogged(names, tt) ==
  IF Overflow(names, tt) THEN Stop(tt, "backlog")
  ELSE t' = tt /\ EndPass /\ UNCHANGED marker

\* What drainSegmentCandidates does once a source has been read.
AfterRead(tt, rest) ==
  IF tt.drain # None /\ \E n \in pass.todo : n[2] = "sealed" THEN Stop(tt, "beside")
  ELSE IF pass.last THEN t' = tt /\ pass' = [pass EXCEPT !.pc = "end"] /\ UNCHANGED marker
  ELSE IF rest /\ AtOf(pass.src).gaps = 0 THEN Backlogged(SealedNames \cup AnchorNames, tt)
  ELSE t' = tt /\ pass' = [pass EXCEPT !.pc = "drain"] /\ UNCHANGED marker

\* maybeReclaimSegment starts at the second visit that finds nothing new.
ReadEnds ==
  /\ pass.pc = "line" /\ ~LineReady
  /\ LET tt == Stored(t, pass.at, AtOf(pass.src).gaps)
         rest == pass.at < pass.end
         drained == pass.at = SizeOf(pass.src)
     IN IF pass.src[2] = "sealed" /\ ~rest /\ t.drain = None
        THEN IF drained /\ pass.src \in t.once
             THEN t' = tt /\ pass' = [pass EXCEPT !.pc = "older"] /\ UNCHANGED marker
             ELSE AfterRead([tt EXCEPT !.once = IF drained THEN @ \cup {pass.src} ELSE @ \ {pass.src}], rest)
        ELSE AfterRead(tt, rest)
  /\ UNCHANGED <<dir, disk, fails>> /\ Tailing

\* The end of the candidates: a last read of the active file, unless a line
\* waits for its rest or an older source.
Drained ==
  /\ pass.pc = "drain" /\ pass.todo = {} /\ ~pass.deferred
  /\ ~\E n \in Candidates(pass.sealed, pass.kept) \cup {Active} : AtOf(n).rest > 0
  /\ pass' = Visited(Active, {}, TRUE)
  /\ UNCHANGED <<dir, marker, disk, t, fails>> /\ Tailing

PassEnds ==
  /\ \/ pass.pc = "end"
     \/ /\ pass.pc = "drain" /\ pass.todo = {}
        /\ pass.deferred \/ \E n \in Candidates(pass.sealed, pass.kept) \cup {Active} : AtOf(n).rest > 0
  /\ Backlogged((pass.sealed \cup pass.kept) \cap (SealedNames \cup AnchorNames), t)
  /\ UNCHANGED <<dir, disk, fails>> /\ Tailing

-----------------------------------------------------------------------------
(* maybeReclaimSegment: one generation after the other keeps one link *)

\* Mutant: the links are taken down before the next one is made.
UnlinkFirst == <<<<"unlink", "sealed">>, <<"link", "draining">>, <<"link", "final">>, <<"unlink", "draining">>,
                 <<"link", "retained">>, <<"unlink", "final">>>>

Links == <<<<"link", "draining">>, <<"unlink", "sealed">>, <<"link", "final">>, <<"unlink", "draining">>,
           <<"link", "retained">>, <<"unlink", "final">>>>

OlderDrained == SizeOf(t.anchor) = AtOf(t.anchor).off /\ AtOf(t.anchor).rest = 0

\* The older anchor goes only when all of it has been delivered or skipped;
\* the position in the new generation is durable before its first link.
RetireOlder ==
  LET new(tt) == /\ t' = tt /\ pass' = [pass EXCEPT !.pc = "chain", !.link = 1]
                 /\ disk' = AtSegment(disk, t.at[Active].off, pass.src, pass.at)
                 /\ UNCHANGED marker
  IN /\ pass.pc = "older"
     /\ IF t.anchor = None THEN new(t) /\ UNCHANGED dir
        ELSE IF ~OlderDrained THEN AfterRead(t, FALSE) /\ UNCHANGED <<dir, disk>>
        ELSE /\ Unlink(t.anchor)
             /\ new([t EXCEPT !.at = Drop(@, {t.anchor}), !.anchor = None,
                              !.last = IF @ = t.anchor THEN None ELSE @])
     /\ UNCHANGED fails /\ Tailing

Drain(k) == IF k >= 6 THEN "retained" ELSE IF k >= 4 THEN "final" ELSE "draining"

Chain ==
  LET i == pass.src[1]
      op == Links[pass.link]
  IN /\ pass.pc = "chain" /\ pass.link <= Len(Links)
     /\ dir' = [dir EXCEPT ![i] = IF op[1] = "link" THEN @ \cup {op[2]} ELSE @ \ {op[2]}]
     /\ t' = [t EXCEPT !.drain = <<i, Drain(pass.link)>>]
     /\ pass' = [pass EXCEPT !.link = @ + 1]
     /\ UNCHANGED <<marker, disk, fails>> /\ Tailing

\* The anchor is settled: its position takes the place of the generation's.
Settle ==
  LET n == <<pass.src[1], "retained">> IN
  /\ pass.pc = "chain" /\ pass.link > Len(Links)
  /\ disk' = AtSegment(disk, t.at[Active].off, n, pass.at)
  /\ AfterRead([t EXCEPT !.at = NewAt(Drop(@, {pass.src}), n, At(pass.at, 0)), !.anchor = n, !.last = n,
                         !.once = @ \ {pass.src}, !.drain = None], FALSE)
  /\ UNCHANGED <<dir, fails>> /\ Tailing

\* A failing call ends the reclaim where it is; a later pass binds what is left.
ReclaimFails ==
  /\ pass.pc = "chain" /\ pass.link <= Len(Links) /\ fails < MaxFails
  /\ fails' = fails + 1
  /\ AfterRead(t, FALSE)
  /\ UNCHANGED <<dir, disk>> /\ Tailing

-----------------------------------------------------------------------------
Init ==
  /\ file = [i \in Inodes |-> <<>>]
  /\ dir = [i \in Inodes |-> {}]
  /\ marker = FALSE
  /\ prod = Producer(1)
  /\ disk = [off |-> 0, seg |-> None, segOff |-> 0, stream |-> {}]
  /\ t = [at |-> [n \in {Active} |-> At(0, 0)], anchor |-> None, drain |-> None, last |-> None,
          once |-> {}, stream |-> {}, known |-> {}, stop |-> "no"]
  /\ pass = Idle
  /\ fails = 0 /\ got = <<>>

Produce == \/ Log \/ Retry \/ Refused \/ Seal \/ ListSealed \/ Wait \/ WaitEnds
           \/ Rename \/ CreateActive \/ AppendSome \/ Commit \/ ProducerFails \/ Kill

TailStep == \/ StartPass \/ Bind \/ Alias \/ Choose \/ Open \/ SkipLine \/ Accept \/ ReadEnds
            \/ Drained \/ PassEnds \/ RetireOlder \/ Chain \/ Settle

Next == Produce \/ TailStep \/ AliasFails \/ ReclaimFails \/ Crash

Spec == Init /\ [][Next]_vars

\* The poll timer and file operations of the tailer make progress.
FairSpec == Spec /\ WF_vars(TailStep)

-----------------------------------------------------------------------------
(* Properties *)

\* Every variable stays in its domain.
TypeOK ==
  /\ file \in [Inodes -> Seq([bridge : 1 .. MaxBridges, seq : 1 .. MaxRecords, part : {1, 2}])]
  /\ dir \in [Inodes -> SUBSET ({"active", "sealed"} \cup Anchors)]
  /\ marker \in BOOLEAN
  /\ prod.pc \in {"idle", "seal", "list", "wait", "rename", "create", "append"}
  /\ prod.pending \in 0 .. MaxPending /\ prod.attempts \in 0 .. MaxAttempts
  /\ DOMAIN t.at \subseteq Files \cup {Active} /\ Active \in DOMAIN t.at
  /\ t.stop \in {"no", "identities", "changed", "alias", "gap", "beside", "backlog"}
  /\ pass.pc \in {"idle", "bind", "alias", "drain", "open", "line", "end", "older", "chain"}

Follows(a, b) == IF a.bridge = b.bridge THEN b.seq = a.seq + 1 ELSE a.bridge < b.bridge /\ b.seq = 1

\* Whatever is renamed, relinked or retired in between, the events of one
\* producer are handled once each and in sequence, those of an older producer
\* before those of a newer one.
InSequence ==
  \A k \in 1 .. Len(got) : IF k = 1 THEN got[k].seq = 1 ELSE Follows(got[k - 1], got[k])

AllPieces == FoldLeft(LAMBDA s, i : s \o file[i], <<>>, [k \in Inodes |-> k])

\* "Append one exact record idempotently": across the generations the spool
\* is whole lines, each record once and in sequence; only the line being
\* written may still miss its end.
WrittenOnce ==
  \A k \in 1 .. Len(AllPieces) :
    LET p == AllPieces[k] IN
    IF k = 1 THEN p.seq = 1 /\ p.part = 1
    ELSE LET q == AllPieces[k - 1] IN
         IF p.part = 2 THEN p = Piece(q, 2) /\ q.part = 1
         ELSE q.part = 2 /\ Follows(q, p)

Read(i) == \A k \in DOMAIN file[i] : RecordOf(file[i][k]) \in Range(got)

\* The last name of a generation goes only when it and a newer sealed
\* generation have been delivered completely.
LastLinkOutlives ==
  [][\A i \in Inodes : dir[i] # {} /\ dir'[i] = {} =>
       Read(i) /\ \E j \in Inodes : j > i /\ "sealed" \in dir[j] /\ Read(j)]_vars

Written(s) == {RecordOf(s[k]) : k \in {n \in 2 .. Len(s) : s[n].part = 2 /\ s[n - 1] = Piece(s[n], 1)}}

Undelivered == UNION {Written(file[i]) : i \in Inodes} \ Range(got)

\* Every record that was written whole is handled, unless the tailer has
\* quarantined the terminal.
Drains == (Undelivered # {}) ~> (Undelivered = {} \/ t.stop # "no")

\* A terminal is quarantined for its backlog only if that much is undelivered.
BacklogIsReal == [][t'.stop = "backlog" /\ t.stop # "backlog" => 2 * Cardinality(Undelivered) > MaxBacklog]_vars
=============================================================================
