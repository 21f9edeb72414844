--------------------------- MODULE SidecarDelivery ---------------------------
(***************************************************************************)
(* From the event file of one terminal to its handler: the producer        *)
(* appends records, SidecarTailer (electron/sidecar/tailer.ts) reads them  *)
(* from a durable cursor, TerminalRuntime admits each to the terminal's    *)
(* SidecarEventQueue, and the cursor advances only after the handler's     *)
(* acknowledgement.  Every await of the tailer is a point where the watch  *)
(* may be stopped, replaced or killed; `live' is the current watch         *)
(* generation, and passes of older generations run on until they look.     *)
(*                                                                         *)
(* Modelled: the active file of one terminal whose records carry no        *)
(* producer pid.  Here the active file only grows; its rotation to sealed  *)
(* segments, and with it quarantine, is in SidecarSpool.                   *)
(***************************************************************************)
EXTENDS SidecarQueueState

CONSTANTS
  MaxRecords,   \* bound: records appended
  MaxBridges,   \* bound: producer streams, one after the other
  MaxWatches,   \* bound: calls of watch()
  MaxCrashes,   \* bound: deaths of the application
  MaxReleases,  \* bound: terminals released with their queue
  MaxFails,     \* bound: failed cursor writes
  MaxHolds,     \* bound: times admission is withdrawn
  MaxFaults,    \* bound: crashes, releases, failed writes and holds together
  MaxBacklog,   \* options.maxBacklogBytes, in records
  HandlerMayFail, \* whether onSidecarEvent may reject
  HasCursor     \* whether the terminal id left a cursor file behind earlier

ASSUME SidecarDeliveryBounds ==
  /\ {MaxRecords, MaxBridges, MaxWatches, MaxCrashes, MaxReleases, MaxFails, MaxHolds, MaxBacklog} \subseteq Nat
  /\ HandlerMayFail \in BOOLEAN /\ HasCursor \in BOOLEAN

VARIABLES
  log,       \* the event file
  disk,      \* the cursor file: {} or the singleton of its content
  live,      \* terminalGenerations.get(id), 0 when nothing is watched
  gens,      \* lifecycleGeneration
  offset,    \* offsets.get(id): the scan cursor of the live generation
  stream,    \* streams.get(id), as a set of at most one [bridge, seq]
  known,     \* bridgeIds.get(id)
  initOf,    \* the generation whose promise cursorInitializations holds, or 0
  initRes,   \* state of each generation's initial cursor write
  pass,      \* the tail pass of each generation
  writes,    \* the chain of cursor writes; only its head may be running
  paused,    \* paused.has(id): a 300 ms retry timer is pending
  admit,     \* shouldAdmitTerminalSidecar
  qs,        \* every queue made for this terminal id
  cur,       \* the queue in sidecarQueues, or 0
  settled,   \* ids whose acknowledgement has resolved
  count,     \* how often each bounded event has happened
  done,      \* history: records whose delivery settled
  ignored,   \* history: records that were passed over or hold no event
  last,      \* history: the record whose handler ended last, in the queue in place
  base,      \* history: where the latest watch without a cursor file began
  retired    \* history: bridges that lost the stream to a newer one

tailer == <<live, gens, offset, stream, known, initOf, initRes, pass, writes, paused>>
queues == <<qs, cur, settled>>
history == <<done, ignored, last, base, retired>>
vars == <<log, disk, tailer, admit, queues, count, history>>

Generations == 1 .. MaxWatches
Positions == 1 .. MaxRecords
RecordKinds == {"session_ready", "event", "plan", "unknown"}
Spent == count.crash + count.release + count.fail + count.hold
Bump(what) == Spent < MaxFaults /\ count' = [count EXCEPT ![what] = @ + 1]

Init ==
  /\ log = <<>>
  /\ disk = IF HasCursor THEN {[offset |-> 0, stream |-> {}]} ELSE {}
  /\ live = 0 /\ gens = 0 /\ offset = 0 /\ stream = {} /\ known = {}
  /\ initOf = 0 /\ initRes = [g \in Generations |-> "none"]
  /\ pass = [g \in Generations |-> [st |-> "idle", at |-> 0]]
  /\ writes = <<>> /\ paused = FALSE /\ admit = TRUE
  /\ qs = <<>> /\ cur = 0 /\ settled = {}
  /\ count = [crash |-> 0, release |-> 0, fail |-> 0, hold |-> 0]
  /\ done = {} /\ ignored = {} /\ last = 0 /\ base = 0 /\ retired = {}

-----------------------------------------------------------------------------
(* The producer and the host *)

\* A bridge numbers its records from 1 and opens with session_ready.  An old
\* bridge may still append after its successor has started.
Produce(b, k) ==
  LET seq == Cardinality({i \in DOMAIN log : log[i].bridge = b}) + 1
  IN /\ Len(log) < MaxRecords
     /\ b = 1 \/ \E i \in DOMAIN log : log[i].bridge = b - 1
     /\ k = "session_ready" <=> seq = 1
     /\ log' = Append(log, [bridge |-> b, seq |-> seq, kind |-> k])
     /\ UNCHANGED <<disk, tailer, admit, queues, count, history>>

\* The host withdraws admission (the terminal is not adopted, its project is
\* being closed) or gives it back.
SetAdmit ==
  /\ admit => count.hold < MaxHolds
  /\ admit' = ~admit
  /\ IF admit THEN Bump("hold") ELSE UNCHANGED count
  /\ UNCHANGED <<log, disk, tailer, queues, history>>

-----------------------------------------------------------------------------
(* Watch lifecycle *)

\* Mutant: the watch takes the number before it is advanced.
GenerationBefore == gens

\* ++lifecycleGeneration, which names the new watch.
NewGeneration == gens + 1

\* watch: a new generation starts at the cursor, or at the end of the file
\* behind an initial cursor that is written first.
Watch ==
  /\ gens < MaxWatches
  /\ gens' = gens + 1 /\ live' = NewGeneration
  /\ paused' = FALSE
  /\ IF disk # {}
     THEN \E c \in disk :
            /\ offset' = c.offset
            /\ stream' = c.stream /\ known' = {s.bridge : s \in c.stream}
            /\ initOf' = 0
            /\ UNCHANGED <<initRes, writes, base>>
     ELSE /\ offset' = Len(log) /\ base' = Len(log)
          /\ stream' = {} /\ known' = {}
          /\ initOf' = NewGeneration
          /\ initRes' = [initRes EXCEPT ![NewGeneration] = "pending"]
          /\ writes' = Append(writes, [gen |-> NewGeneration, init |-> TRUE, st |-> "queued",
                                       cursor |-> [offset |-> Len(log), stream |-> {}]])
  /\ UNCHANGED <<log, disk, pass, admit, queues, count, done, ignored, last, retired>>

StoppedTailer ==
  /\ live' = 0 /\ offset' = 0 /\ stream' = {} /\ known' = {}
  /\ initOf' = 0 /\ paused' = FALSE

\* stopWatching: suspended passes and queued writes stay, and find out later.
StopWatching ==
  /\ live # 0
  /\ StoppedTailer
  /\ UNCHANGED <<log, disk, gens, initRes, pass, writes, admit, queues, count, history>>

\* release: the queue is dropped from the map, neither drained nor disposed.
Release ==
  /\ live # 0 /\ count.release < MaxReleases
  /\ Bump("release")
  /\ cur' = 0
  /\ StoppedTailer
  /\ UNCHANGED <<log, disk, gens, initRes, pass, writes, admit, qs, settled, history>>

\* The application dies: the files survive, a running write has landed or not.
Crash ==
  /\ count.crash < MaxCrashes
  /\ Bump("crash")
  /\ StoppedTailer
  /\ initRes' = [g \in Generations |-> "none"]
  /\ pass' = [g \in Generations |-> [st |-> "idle", at |-> 0]]
  /\ writes' = <<>> /\ qs' = <<>> /\ cur' = 0 /\ settled' = {}
  /\ UNCHANGED <<log, disk, gens, admit, history>>

-----------------------------------------------------------------------------
(* Tail passes *)

Go(g, st, at) == pass' = [pass EXCEPT ![g] = [st |-> st, at |-> at]]
EndPass(g) == Go(g, "idle", 0)

\* storeSourceState and pause: the record at the cursor is retried later.
HoldAt(g, at) ==
  /\ offset' = at /\ paused' = TRUE
  /\ EndPass(g)

\* tail: one pass at a time per generation, behind the initial cursor.
TailPass(g) ==
  /\ g = live /\ ~paused /\ pass[g].st = "idle"
  /\ offset # Len(log)
  /\ Go(g, IF initOf # 0 THEN "init" ELSE "read", offset)
  /\ UNCHANGED <<log, disk, live, gens, offset, stream, known, initOf, initRes, writes, paused,
                 admit, queues, count, history>>

\* The awaited initialization settled.  The entry is deleted whoever put it.
InitAwaited(g) ==
  /\ pass[g].st = "init" /\ initRes[g] # "pending"
  /\ initOf' = 0
  /\ \/ /\ live # g /\ EndPass(g) /\ UNCHANGED <<offset, paused>>
     \/ /\ live = g /\ initRes[g] = "ok" /\ Go(g, "read", offset) /\ UNCHANGED <<offset, paused>>
     \/ /\ live = g /\ initRes[g] = "failed" /\ HoldAt(g, offset)
  /\ UNCHANGED <<log, disk, live, gens, stream, known, initRes, writes, admit, queues, count, history>>

\* Mutant: a record of a superseded bridge is taken back.
CanAcceptAny(r) == \A s \in stream : s.bridge = r.bridge => r.seq > s.seq

\* canAcceptEvent: the stream continues, or a new bridge opens with session_ready.
CanAccept(r) ==
  \/ stream = {} /\ r.bridge \notin known
  \/ \E s \in stream :
       \/ s.bridge = r.bridge /\ r.seq > s.seq
       \/ s.bridge # r.bridge /\ r.bridge \notin known /\ r.kind = "session_ready"

Reading(g) == pass[g].st = "read"
NextRecord(g) == log[pass[g].at + 1]

\* The pass reached the end of the file, or belongs to a generation that ended.
ReadEnds(g) ==
  /\ Reading(g)
  /\ live # g \/ pass[g].at = Len(log)
  /\ offset' = IF live = g THEN pass[g].at ELSE offset
  /\ EndPass(g)
  /\ UNCHANGED <<log, disk, live, gens, stream, known, initOf, initRes, writes, paused, admit,
                 queues, count, history>>

\* A record the stream does not accept moves the scan cursor only.
Skip(g) ==
  /\ Reading(g) /\ live = g /\ pass[g].at < Len(log)
  /\ ~CanAccept(NextRecord(g))
  /\ Go(g, "read", pass[g].at + 1)
  /\ ignored' = ignored \cup {pass[g].at + 1}
  /\ UNCHANGED <<log, disk, live, gens, offset, stream, known, initOf, initRes, writes, paused,
                 admit, queues, count, done, last, base, retired>>

CursorWrite(g) ==
  LET at == pass[g].at + 1
  IN [gen |-> g, init |-> FALSE, st |-> "queued",
      cursor |-> [offset |-> at, stream |-> {[bridge |-> log[at].bridge, seq |-> log[at].seq]}]]

\* An accepted record that holds no event occupies its place in the stream.
Occupy(g) ==
  /\ Reading(g) /\ live = g /\ pass[g].at < Len(log)
  /\ CanAccept(NextRecord(g)) /\ NextRecord(g).kind = "unknown"
  /\ Go(g, "persist", pass[g].at)
  /\ writes' = Append(writes, CursorWrite(g))
  /\ ignored' = ignored \cup {pass[g].at + 1}
  /\ UNCHANGED <<log, disk, live, gens, offset, stream, known, initOf, initRes, paused, admit,
                 queues, count, done, last, base, retired>>

QueueKind(r) == IF r.kind \in Replaceable THEN r.kind ELSE "boundary"

\* onEvent: the runtime admits the event to the terminal's queue, made on
\* demand, or the tailer holds at the record.
Deliver(g) ==
  LET at == pass[g].at
      e == NewItem(<<g, at + 1>>, QueueKind(NextRecord(g)), 1)
      q == IF cur = 0 THEN NewQueue ELSE qs[cur]
      all == IF cur = 0 /\ admit THEN Append(qs, NewQueue) ELSE qs
      c == IF admit THEN IF cur = 0 THEN Len(all) ELSE cur ELSE cur
  IN /\ Reading(g) /\ live = g /\ at < Len(log)
     /\ CanAccept(NextRecord(g)) /\ NextRecord(g).kind # "unknown"
     /\ IF admit /\ Accepts(q, e)
        THEN /\ qs' = [all EXCEPT ![c] = Admitted(q, e)]
             /\ settled' = settled \cup Superseded(q, e)
             /\ done' = done \cup {i[2] : i \in Superseded(q, e)}
             /\ Go(g, "await", at)
             /\ UNCHANGED <<offset, paused>>
        ELSE /\ qs' = all
             /\ HoldAt(g, at)
             /\ UNCHANGED <<settled, done>>
     /\ cur' = c
     /\ UNCHANGED <<log, disk, live, gens, stream, known, initOf, initRes, writes, admit, count,
                    ignored, last, base, retired>>

\* Mutant: the cursor advances as soon as the queue has the event.
AcknowledgedOnAdmission(g) == pass[g].st = "await"

\* delivery.completed resolves.
Acknowledged(g) == pass[g].st = "await" /\ <<g, pass[g].at + 1>> \in settled

Persist(g) ==
  /\ Acknowledged(g)
  /\ settled' = settled \ {<<g, pass[g].at + 1>>}
  /\ IF live = g
     THEN Go(g, "persist", pass[g].at) /\ writes' = Append(writes, CursorWrite(g))
     ELSE EndPass(g) /\ UNCHANGED writes
  /\ UNCHANGED <<log, disk, live, gens, offset, stream, known, initOf, initRes, paused, admit, qs,
                 cur, count, history>>

\* Mutant: the retry never lifts a hold while records wait.
MayResumeEmpty == Len(log) = offset

\* checkBacklog in the retry timer.
MayResume == Len(log) - offset <= MaxBacklog

\* The 300 ms retry: a spool above the bound keeps the terminal held.
Resume ==
  /\ paused /\ MayResume
  /\ paused' = FALSE
  /\ UNCHANGED <<log, disk, live, gens, offset, stream, known, initOf, initRes, pass, writes,
                 admit, queues, count, history>>

-----------------------------------------------------------------------------
(* persistCursor: one write at a time, fenced before and after *)

Without(i) == SubSeq(writes, 1, i - 1) \o SubSeq(writes, i + 1, Len(writes))

\* The settled write i returns ok to its generation.
Written(i, ok) ==
  LET w == writes[i] IN
  /\ writes' = Without(i)
  /\ IF w.init
     THEN /\ initRes' = [initRes EXCEPT ![w.gen] = IF ok THEN "ok" ELSE "failed"]
          /\ UNCHANGED <<pass, offset, paused, stream, known, retired>>
     ELSE /\ UNCHANGED initRes
          /\ \/ /\ ok
                /\ Go(w.gen, "read", w.cursor.offset)
                /\ stream' = w.cursor.stream
                /\ known' = known \cup {s.bridge : s \in w.cursor.stream}
                /\ retired' = retired \cup ({s.bridge : s \in stream} \ {s.bridge : s \in w.cursor.stream})
                /\ UNCHANGED <<offset, paused>>
             \/ /\ ~ok /\ live = w.gen
                /\ HoldAt(w.gen, w.cursor.offset - 1)
                /\ UNCHANGED <<stream, known, retired>>
             \/ /\ ~ok /\ live # w.gen
                /\ EndPass(w.gen)
                /\ UNCHANGED <<offset, paused, stream, known, retired>>

\* Mutant: cursor writes are not chained.
MayRunAny(i) == i \in DOMAIN writes

\* Each write is chained behind the one before it.
MayRun(i) == i = 1 /\ writes # <<>>

\* isLive, asked before the write.
MayWrite(i) == live = writes[i].gen

\* A write whose generation ended before its turn never reaches the file.
StartWrite(i) ==
  /\ MayRun(i) /\ writes[i].st = "queued"
  /\ IF MayWrite(i)
     THEN writes' = [writes EXCEPT ![i].st = "running"]
          /\ UNCHANGED <<initRes, pass, offset, paused, stream, known, retired>>
     ELSE Written(i, FALSE)
  /\ UNCHANGED <<log, disk, live, gens, initOf, admit, queues, count, done, ignored, last, base>>

\* The rename of atomicWriteFile.
LandWrite(i) ==
  /\ MayRun(i) /\ writes[i].st = "running"
  /\ disk' = {writes[i].cursor}
  /\ writes' = [writes EXCEPT ![i].st = "landed"]
  /\ UNCHANGED <<log, live, gens, offset, stream, known, initOf, initRes, pass, paused, admit,
                 queues, count, history>>

FailWrite(i) ==
  /\ MayRun(i) /\ writes[i].st = "running"
  /\ count.fail < MaxFails /\ Bump("fail")
  /\ Written(i, FALSE)
  /\ UNCHANGED <<log, disk, live, gens, initOf, admit, queues, done, ignored, last, base>>

\* isLive, asked again after the write.
Fenced(i) == live = writes[i].gen

\* persistCursor returns true only to the generation that is still live.
FinishWrite(i) ==
  /\ MayRun(i) /\ writes[i].st = "landed"
  /\ Written(i, Fenced(i))
  /\ UNCHANGED <<log, disk, live, gens, initOf, admit, queues, count, done, ignored, last, base>>

-----------------------------------------------------------------------------
(* The queues: the terminal's own, and those dropped with their work *)

HandlerOk(k, e) ==
  /\ e \in qs[k].active
  /\ qs' = [qs EXCEPT ![k] = Succeeded(@, e)]
  /\ settled' = settled \cup {e.id}
  /\ done' = done \cup {e.id[2]} /\ last' = IF k = cur THEN e.id[2] ELSE last
  /\ UNCHANGED <<log, disk, tailer, admit, cur, count, ignored, base, retired>>

\* A dead letter is acknowledged like a success.
HandlerFails(k, e) ==
  /\ HandlerMayFail
  /\ e \in qs[k].active
  /\ IF Poison(qs[k], e)
     THEN /\ qs' = [qs EXCEPT ![k] = DeadLettered(@, e)]
          /\ settled' = settled \cup {e.id}
          /\ done' = done \cup {e.id[2]} /\ last' = IF k = cur THEN e.id[2] ELSE last
     ELSE /\ qs' = [qs EXCEPT ![k] = Requeued(@, e)]
          /\ UNCHANGED <<settled, done, last>>
  /\ UNCHANGED <<log, disk, tailer, admit, cur, count, ignored, base, retired>>

RetryTimer(k) ==
  /\ qs[k].retry
  /\ qs' = [qs EXCEPT ![k] = Retried(@)]
  /\ UNCHANGED <<log, disk, tailer, admit, cur, settled, count, history>>

-----------------------------------------------------------------------------
Handling == \E k \in DOMAIN qs : \E e \in qs[k].active : HandlerOk(k, e) \/ HandlerFails(k, e)
Reads(g) == ReadEnds(g) \/ Skip(g) \/ Occupy(g) \/ Deliver(g)
Writing == \E i \in DOMAIN writes : LandWrite(i) \/ FinishWrite(i)

\* Promise continuations run before any timer, file operation or callback.
Continuation == (\E i \in DOMAIN writes : StartWrite(i)) \/ (\E g \in Generations : InitAwaited(g))
ContinuationDue ==
  \/ \E i \in DOMAIN writes : MayRun(i) /\ writes[i].st = "queued"
  \/ \E g \in Generations : pass[g].st = "init" /\ initRes[g] # "pending"

Event ==
  \/ \E b \in 1 .. MaxBridges, k \in RecordKinds : Produce(b, k)
  \/ SetAdmit
  \/ Watch \/ StopWatching \/ Release \/ Crash
  \/ \E g \in Generations : TailPass(g) \/ Reads(g) \/ Persist(g)
  \/ Resume
  \/ Writing
  \/ \E i \in DOMAIN writes : FailWrite(i)
  \/ Handling
  \/ \E k \in DOMAIN qs : RetryTimer(k)

Next == Continuation \/ (~ContinuationDue /\ Event)

Spec == Init /\ [][Next]_vars

\* The poll timer tails, promises and file operations settle, timers fire,
\* and admission comes back.
FairSpec ==
  /\ Spec
  /\ WF_vars(Continuation)
  /\ \A g \in Generations :
       /\ WF_vars(~ContinuationDue /\ TailPass(g))
       /\ WF_vars(~ContinuationDue /\ (Reads(g) \/ Persist(g)))
  /\ WF_vars(~ContinuationDue /\ Resume)
  /\ WF_vars(~ContinuationDue /\ Writing)
  /\ WF_vars(~ContinuationDue /\ Handling)
  /\ WF_vars(~ContinuationDue /\ \E k \in DOMAIN qs : RetryTimer(k))
  /\ WF_vars(~ContinuationDue /\ ~admit /\ SetAdmit)

-----------------------------------------------------------------------------
(* Properties *)

\* Every variable stays in its domain.
TypeOK ==
  /\ log \in Seq([bridge : 1 .. MaxBridges, seq : Positions, kind : RecordKinds])
  /\ disk \subseteq [offset : 0 .. MaxRecords, stream : SUBSET [bridge : 1 .. MaxBridges, seq : Positions]]
  /\ Cardinality(disk) <= 1
  /\ live \in {0, gens} /\ gens \in 0 .. MaxWatches /\ initOf \in 0 .. gens
  /\ offset \in 0 .. Len(log)
  /\ Cardinality(stream) <= 1 /\ known \subseteq 1 .. MaxBridges
  /\ pass \in [Generations -> [st : {"idle", "init", "read", "await", "persist"}, at : 0 .. MaxRecords]]
  /\ initRes \in [Generations -> {"none", "pending", "ok", "failed"}]
  /\ cur \in 0 .. Len(qs)
  /\ settled \subseteq Generations \X Positions
  /\ done \cup ignored \subseteq Positions /\ last \in 0 .. MaxRecords

\* The durable cursor never passes a record that was not dealt with: whatever
\* dies, and whenever, each record after the initial cursor is handled, dead
\* lettered, superseded, or one the stream does not accept.
NothingSkipped == \A c \in disk : (base + 1) .. c.offset \subseteq done \cup ignored

\* "A redelivery window of one event": at most one record that has been
\* handled lies beyond the durable cursor, so a restart repeats at most one.
RedeliveryWindow == \A c \in disk : Cardinality({p \in done : p > c.offset}) <= 1

\* Once a newer bridge owns the stream, no event of an older one is waiting in
\* the terminal's queue or running from it.
OwnerIsNotReplacedBack ==
  cur # 0 => \A e \in qs[cur].active \cup {qs[cur].queue[i] : i \in DOMAIN qs[cur].queue} :
               log[e.id[2]].bridge \notin retired

\* A stopped watch leaves nothing behind: no late completion of its passes or
\* of its cursor writes repopulates the maps the next watch starts from.
NoGhostState == live = 0 => offset = 0 /\ stream = {} /\ known = {} /\ ~paused

\* The cursor file never moves back, whichever generation's write is late.
CursorMovesForward == [][\A c \in disk, d \in disk' : c.offset <= d.offset]_vars

\* Handlers of one terminal end in file order; a redelivery repeats the latest
\* record and never an earlier one.
HandledInOrder == [][last' >= last]_vars

\* The terminal's events run one at a time.
OneHandler == \A j, k \in DOMAIN qs : qs[j].active # {} /\ qs[k].active # {} => j = k

\* Every record of a watched terminal is eventually passed by the scan.
Delivered == \A p \in Positions : (live # 0 /\ Len(log) >= p) ~> (live = 0 \/ offset >= p)

\* "The same record is retried later": a hold ends.
HoldEnds == paused ~> ~paused
=============================================================================
