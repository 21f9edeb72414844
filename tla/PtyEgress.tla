------------------------------ MODULE PtyEgress ------------------------------
(***************************************************************************)
(* The PTY output scheduler of the Electron main process                   *)
(* (electron/pty-egress.ts, class PtyEgressScheduler), under its most      *)
(* general client: any caller may use any method at any time the single    *)
(* thread is free, and also re-entrantly while the pump is inside a        *)
(* transport call.                                                         *)
(*                                                                         *)
(* Output is abstracted to byte offsets: the n-th byte a terminal          *)
(* generation produced is the number n, a data record covers the offsets   *)
(* from+1 .. from+bytes.  A renderer document, the pair (window            *)
(* generation, renderer generation) ordered lexicographically, is its rank *)
(* `doc` in that order.                                                    *)
(***************************************************************************)
EXTENDS Integers, Sequences, FiniteSets, SequencesExt

CONSTANTS
  Terminals,      \* terminal ids
  ChunkBytes,     \* PTY_EGRESS_CHUNK_BYTES
  MaxBytes,       \* queue high-water mark, bytes
  MaxChunks,      \* queue high-water mark, records
  LowBytes,       \* low-water mark, bytes
  LowChunks,      \* low-water mark, records
  BatchBytes,     \* bytes one frame may send
  BatchChunks,    \* records one frame may send
  Paced,          \* flushIntervalMs > 0: coalescing and one record per terminal and frame
  MaxProduced,    \* bound: bytes a generation of each terminal produces
  MaxGen,         \* bound: generations of each terminal id
  MaxDoc          \* bound: renderer documents

(* The constructor rejects low-water marks at or above high water; the     *)
(* production values also leave room for one more chunk above low water.   *)
ASSUME WaterMarks ==
  /\ {ChunkBytes, MaxBytes, MaxChunks, LowBytes, LowChunks, BatchBytes, BatchChunks}
        \subseteq Nat \ {0}
  /\ LowBytes < MaxBytes /\ LowChunks < MaxChunks
  /\ ChunkBytes + LowBytes <= MaxBytes
  /\ Paced \in BOOLEAN
  /\ {MaxProduced, MaxGen} \subseteq [Terminals -> Nat] /\ MaxDoc \in Nat

VARIABLES
  queue,      \* [Terminals -> queue record]; `live` says whether the map `queues` holds it
  order,      \* round-robin order of the live terminals
  cursor,     \* where the next search starts (0-based, as in the code)
  ready,      \* rendererReady
  doc,        \* (windowGeneration, rendererGeneration), 0 before the first window
  disposed,
  timer,      \* pumpTimer # null
  pump        \* locals of pump() and the transport call it may be inside

vars == <<queue, order, cursor, ready, doc, disposed, timer, pump>>
-----------------------------------------------------------------------------
(* Records and queues *)

DataRecord(seq, from, n) ==
  [kind |-> "data", seq |-> seq, from |-> from, bytes |-> n, sealed |-> FALSE]

ExitRecord(seq) ==
  [kind |-> "exit", seq |-> seq, from |-> 0, bytes |-> 0, sealed |-> TRUE]

Record == [kind : {"data", "exit"}, seq : Nat, from : Nat, bytes : Nat, sealed : BOOLEAN]

(* `verdict` is what the promise returned by finish() resolved to;         *)
(* `produced` and `acked` are history: the offsets admitted, and those in  *)
(* records the renderer acknowledged.                                      *)
NewQueue(gen) ==
  [live |-> TRUE, gen |-> gen, chunks |-> <<>>, queuedBytes |-> 0,
   inFlight |-> <<>>, inFlightBytes |-> 0, next |-> 1,
   paused |-> FALSE, closing |-> FALSE, hydrated |-> FALSE, exitQueued |-> FALSE,
   verdict |-> "none", produced |-> 0, acked |-> {}]

Covers(r) == (r.from + 1) .. (r.from + r.bytes)
IsData(r) == r.kind = "data"
SumBytes(s) == FoldLeft(LAMBDA sum, r : sum + r.bytes, 0, s)
HasData(s) == \E i \in DOMAIN s : IsData(s[i])

RetainedBytes(q) == q.queuedBytes + q.inFlightBytes
RetainedChunks(q) == Len(q.chunks) + Len(q.inFlight)
CanDeliver(q, rdy) == q.live /\ rdy /\ q.hydrated
Deliverable(q, rdy) == q.chunks # <<>> /\ CanDeliver(q, rdy)

Ascending(s) == \A i, j \in DOMAIN s : i < j => s[i].seq < s[j].seq

(* The in-flight Map holds its records in send order; replay sorts them.   *)
BySequence(s) ==
  CHOOSE p \in [1 .. Len(s) -> Range(s)] : Range(p) = Range(s) /\ Ascending(p)

Paused(q) == [q EXCEPT !.paused = TRUE]

(* Mutation: replayed bytes are not charged to the queue again.            *)
ReplayedUncounted(q) ==
  [q EXCEPT !.inFlight = <<>>, !.inFlightBytes = 0,
            !.chunks = BySequence(q.inFlight) \o @]

(* replayInFlight() for one queue.  The code adds the records' sizes one   *)
(* by one; their sum is inFlightBytes in every reachable state             *)
(* (CountersAgree).                                                        *)
Replayed(q) ==
  [q EXCEPT !.inFlight = <<>>, !.inFlightBytes = 0,
            !.chunks = BySequence(q.inFlight) \o @,
            !.queuedBytes = @ + q.inFlightBytes]

(* Mutation: the low-water marks themselves do not resume.                 *)
ResumedBelow(q, rdy) ==
  IF /\ q.paused /\ ~q.closing /\ CanDeliver(q, rdy)
     /\ RetainedBytes(q) < LowBytes /\ RetainedChunks(q) < LowChunks
  THEN [q EXCEPT !.paused = FALSE]
  ELSE q

Resumed(q, rdy) ==
  IF /\ q.paused /\ ~q.closing /\ CanDeliver(q, rdy)
     /\ RetainedBytes(q) <= LowBytes /\ RetainedChunks(q) <= LowChunks
  THEN [q EXCEPT !.paused = FALSE]
  ELSE q

(* Mutation: every removal answers the finish() waiter with true.          *)
RemovedDelivered(q, delivered) ==
  [q EXCEPT !.live = FALSE, !.chunks = <<>>, !.queuedBytes = 0,
            !.inFlight = <<>>, !.inFlightBytes = 0, !.paused = @ \/ ~delivered,
            !.verdict = IF @ = "pending" THEN "delivered" ELSE @]

Removed(q, delivered) ==
  IF q.live
  THEN [q EXCEPT !.live = FALSE, !.chunks = <<>>, !.queuedBytes = 0,
                 !.inFlight = <<>>, !.inFlightBytes = 0,
                 !.paused = @ \/ ~delivered,
                 !.verdict = IF @ # "pending" THEN @
                             ELSE IF delivered THEN "delivered" ELSE "abandoned"]
  ELSE q

(* Mutation: the marker waits for the queued records only.                 *)
WithExitEarly(q) ==
  IF q.live /\ q.closing /\ ~q.exitQueued /\ ~HasData(q.chunks)
  THEN [q EXCEPT !.exitQueued = TRUE,
                 !.chunks = Append(@, ExitRecord(q.next)),
                 !.next = @ + 1]
  ELSE q

WithExit(q) ==
  IF /\ q.live /\ q.closing /\ ~q.exitQueued
     /\ ~HasData(q.chunks) /\ ~HasData(q.inFlight)
  THEN [q EXCEPT !.exitQueued = TRUE,
                 !.chunks = Append(@, ExitRecord(q.next)),
                 !.next = @ + 1]
  ELSE q

Finished(q, rdy) ==
  LET e == WithExit(q) IN
  IF e.closing /\ e.exitQueued /\ RetainedChunks(e) = 0 /\ CanDeliver(e, rdy)
  THEN Removed(e, TRUE)
  ELSE e

(* Only the in-flight owner of a refused record puts it back.              *)
Owns(q, seq) == \E i \in DOMAIN q.inFlight : q.inFlight[i].seq = seq

(* Mutation: a refused record leaves in-flight storage for nowhere.        *)
RequeuedNowhere(q, seq) ==
  LET i == CHOOSE k \in DOMAIN q.inFlight : q.inFlight[k].seq = seq
  IN [q EXCEPT !.inFlight = RemoveAt(@, i),
               !.inFlightBytes = @ - q.inFlight[i].bytes]

Requeued(q, seq) ==
  LET i == CHOOSE k \in DOMAIN q.inFlight : q.inFlight[k].seq = seq
      r == q.inFlight[i]
      out == [q EXCEPT !.inFlight = RemoveAt(@, i), !.inFlightBytes = @ - r.bytes]
  IN IF \E k \in DOMAIN q.chunks : q.chunks[k].seq = seq THEN out
     ELSE [out EXCEPT !.chunks = <<r>> \o @, !.queuedBytes = @ + r.bytes]
-----------------------------------------------------------------------------
(* Effects shared by the operations *)

NoPump == [stage |-> "idle", bytes |-> 0, chunks |-> 0, served |-> {},
           terminal |-> "none", gen |-> 0, seq |-> 0, doc |-> 0]

(* The single thread is free for a caller: the pump is not running, or it  *)
(* is inside transport.send, which may call back.                          *)
Callable == pump.stage # "select"

(* schedulePump(): evaluated on the state the operation leaves behind.     *)
Armed(qs, rdy, pumping) ==
  \/ timer
  \/ ~disposed /\ rdy /\ ~pumping /\ \E t \in Terminals : Deliverable(qs[t], rdy)

(* Mutation: the cursor moves back whatever the place of the terminal.     *)
DropOrderAlwaysBack(t, qs) ==
  IF qs[t].live \/ t \notin Range(order) THEN UNCHANGED <<order, cursor>>
  ELSE LET i == CHOOSE k \in DOMAIN order : order[k] = t
       IN order' = RemoveAt(order, i) /\ cursor' = cursor - 1

(* removeQueue() splices the terminal out of `order` and moves the cursor. *)
DropOrder(t, qs) ==
  IF qs[t].live \/ t \notin Range(order) THEN UNCHANGED <<order, cursor>>
  ELSE LET i == CHOOSE k \in DOMAIN order : order[k] = t
           back == IF i <= cursor THEN cursor - 1 ELSE cursor
       IN /\ order' = RemoveAt(order, i)
          /\ cursor' = IF back >= Len(order) - 1 THEN 0 ELSE back

Update(t, q) == [queue EXCEPT ![t] = q]
-----------------------------------------------------------------------------
Init ==
  /\ queue = [t \in Terminals |-> [NewQueue(0) EXCEPT !.live = FALSE]]
  /\ order = <<>> /\ cursor = 0
  /\ ready = FALSE /\ doc = 0 /\ disposed = FALSE
  /\ timer = FALSE /\ pump = NoPump

Register(t) ==
  /\ Callable /\ ~disposed /\ ~queue[t].live
  /\ queue[t].gen < MaxGen[t]
  /\ queue' = Update(t, NewQueue(queue[t].gen + 1))
  /\ order' = Append(order, t)
  /\ UNCHANGED <<cursor, ready, doc, disposed, timer, pump>>

(* Mutation: a record that was already sent still grows.                   *)
CoalescesSealed(q, n) ==
  /\ Paced /\ q.chunks # <<>>
  /\ LET tail == q.chunks[Len(q.chunks)] IN IsData(tail) /\ tail.bytes + n <= ChunkBytes

Coalesces(q, n) ==
  /\ Paced /\ q.chunks # <<>>
  /\ LET tail == q.chunks[Len(q.chunks)] IN
       IsData(tail) /\ ~tail.sealed /\ tail.bytes + n <= ChunkBytes

(* Mutation: in-flight records are not charged to the high-water marks.    *)
OverHighWaterQueued(q, n) ==
  \/ q.queuedBytes + n > MaxBytes
  \/ Len(q.chunks) + (IF Coalesces(q, n) THEN 0 ELSE 1) > MaxChunks

OverHighWater(q, n) ==
  \/ RetainedBytes(q) + n > MaxBytes
  \/ RetainedChunks(q) + (IF Coalesces(q, n) THEN 0 ELSE 1) > MaxChunks

Grown(r, n) == [r EXCEPT !.bytes = r.bytes + n]

(* The quantum joins the last record or becomes a record of its own.       *)
Extended(q, n) ==
  IF Coalesces(q, n)
  THEN [q.chunks EXCEPT ![Len(q.chunks)] = Grown(q.chunks[Len(q.chunks)], n)]
  ELSE Append(q.chunks, DataRecord(q.next, q.produced, n))

Admitted(q, n) ==
  LET full == [q EXCEPT !.chunks = Extended(q, n),
                        !.next = IF Coalesces(q, n) THEN q.next ELSE q.next + 1,
                        !.queuedBytes = q.queuedBytes + n,
                        !.produced = q.produced + n]
  IN IF RetainedBytes(full) >= MaxBytes \/ RetainedChunks(full) >= MaxChunks
     THEN Paused(full) ELSE full

(* The source adapter splits its output with splitPtyData, so a quantum    *)
(* never exceeds ChunkBytes and enqueue's own size guard is not reached.   *)
Enqueue(t, n) ==
  /\ Callable /\ ~disposed /\ queue[t].live /\ ~queue[t].closing
  /\ queue[t].produced + n <= MaxProduced[t]
  /\ IF OverHighWater(queue[t], n)
     THEN queue' = Update(t, Paused(queue[t])) /\ UNCHANGED timer
     ELSE /\ queue' = Update(t, Admitted(queue[t], n))
          /\ timer' = Armed(queue', ready, pump.stage # "idle")
  /\ UNCHANGED <<order, cursor, ready, doc, disposed, pump>>

(* finish(): beginFinish closes the queue and queues the exit marker if no *)
(* data is retained; the runtime calls it once per terminal generation.    *)
Finish(t) ==
  /\ Callable /\ ~disposed /\ queue[t].live /\ ~queue[t].closing
  /\ LET closed == [queue[t] EXCEPT !.closing = TRUE, !.paused = TRUE, !.verdict = "pending"]
     IN queue' = Update(t, Finished(closed, ready))
  /\ DropOrder(t, queue')
  /\ timer' = Armed(queue', ready, pump.stage # "idle")
  /\ UNCHANGED <<ready, doc, disposed, pump>>

(* The budget of finish() runs out: the waiter alone resolves, to false.   *)
FinishTimeout(t) ==
  /\ pump.stage = "idle" /\ queue[t].live /\ queue[t].verdict = "pending"
  /\ queue' = Update(t, [queue[t] EXCEPT !.verdict = "timeout"])
  /\ UNCHANGED <<order, cursor, ready, doc, disposed, timer, pump>>

Cancel(t) ==
  /\ Callable /\ queue[t].live
  /\ queue' = Update(t, Removed(queue[t], FALSE))
  /\ DropOrder(t, queue')
  /\ UNCHANGED <<ready, doc, disposed, timer, pump>>

(* Mutation: what is in flight is left to the old document.                *)
DetachedUnreplayed(q) == IF q.live THEN [q EXCEPT !.hydrated = FALSE] ELSE q

Detached(q) == IF q.live THEN [Replayed(q) EXCEPT !.hydrated = FALSE] ELSE q

(* setRendererReady(): an older document is refused, a newer one or a loss *)
(* of readiness replays what is in flight and needs a new hydration.  The  *)
(* maybeFinishQueue here removes no terminal (RoundRobin says so): a       *)
(* hydrated one was removed as soon as it could be, so `order` stays.      *)
SetReady(d, rdy) ==
  /\ queue' = [t \in Terminals |->
                 LET q == IF d # doc \/ ~rdy THEN Detached(queue[t]) ELSE queue[t]
                 IN IF rdy THEN Finished(Resumed(q, TRUE), TRUE) ELSE q]
  /\ doc' = d
  /\ ready' = rdy
  /\ UNCHANGED <<order, cursor>>

SetRendererReady(d, rdy) ==
  /\ Callable /\ ~disposed /\ d >= doc /\ d > 0 /\ d <= MaxDoc
  /\ SetReady(d, rdy)
  /\ timer' = (rdy /\ Armed(queue', rdy, pump.stage # "idle"))
  /\ UNCHANGED <<disposed, pump>>

HydrateTerminal(t) ==
  /\ Callable /\ ~disposed /\ ready /\ queue[t].live
  /\ LET q == [queue[t] EXCEPT !.hydrated = TRUE]
     IN queue' = Update(t, Finished(Resumed(q, ready), ready))
  /\ DropOrder(t, queue')
  /\ timer' = Armed(queue', ready, pump.stage # "idle")
  /\ UNCHANGED <<ready, doc, disposed, pump>>

(* The renderer acknowledges the i-th in-flight record, in any order.      *)
Acked(q, i) ==
  LET r == q.inFlight[i] IN
  [q EXCEPT !.inFlight = RemoveAt(@, i), !.inFlightBytes = @ - r.bytes,
            !.acked = @ \cup Covers(r)]

(* Mutation: the last acknowledgement does not complete a finish().        *)
AcknowledgeOnly(t, i) ==
  /\ Callable /\ ~disposed /\ ready /\ queue[t].live
  /\ queue' = Update(t, Resumed(Acked(queue[t], i), ready))
  /\ timer' = Armed(queue', ready, pump.stage # "idle")
  /\ UNCHANGED <<order, cursor, ready, doc, disposed, pump>>

Acknowledge(t, i) ==
  /\ Callable /\ ~disposed /\ ready /\ queue[t].live
  /\ queue' = Update(t, Finished(Resumed(Acked(queue[t], i), ready), ready))
  /\ DropOrder(t, queue')
  /\ timer' = Armed(queue', ready, pump.stage # "idle")
  /\ UNCHANGED <<ready, doc, disposed, pump>>

Dispose ==
  /\ Callable /\ ~disposed
  /\ disposed' = TRUE /\ timer' = FALSE
  /\ queue' = [t \in Terminals |-> Removed(queue[t], FALSE)]
  /\ order' = <<>> /\ cursor' = 0
  /\ UNCHANGED <<ready, doc, pump>>
-----------------------------------------------------------------------------
(* pump(): one frame, split at the transport call it makes *)

PumpStart ==
  /\ timer /\ pump.stage = "idle"
  /\ timer' = FALSE
  /\ pump' = IF disposed \/ ~ready THEN pump ELSE [NoPump EXCEPT !.stage = "select"]
  /\ UNCHANGED <<queue, order, cursor, ready, doc, disposed>>

(* nextQueuedQueue(): distances from the cursor of the terminals that have *)
(* something deliverable and were not served in this frame.                *)
Slot(k) == order[((cursor + k) % Len(order)) + 1]
Candidates ==
  {k \in 0 .. (Len(order) - 1) :
     Deliverable(queue[Slot(k)], ready) /\ (Paced => Slot(k) \notin pump.served)}
Chosen == CHOOSE k \in Candidates : \A j \in Candidates : k <= j

Selecting == pump.stage = "select" /\ pump.chunks < BatchChunks /\ ready /\ Candidates # {}
AdvanceCursor == cursor' = (cursor + Chosen + 1) % Len(order)
Fits(r) == pump.chunks = 0 \/ pump.bytes + r.bytes <= BatchBytes

EndFrame(qs) == pump' = NoPump /\ timer' = Armed(qs, ready, FALSE)

Sent(q) ==
  LET r == [Head(q.chunks) EXCEPT !.sealed = TRUE] IN
  [q EXCEPT !.chunks = Tail(@), !.queuedBytes = @ - r.bytes,
            !.inFlight = Append(@, r), !.inFlightBytes = @ + r.bytes]

(* The record moves to in-flight storage before the transport is called.   *)
(* It is counted here: every outcome but success ends the frame.           *)
PumpSend ==
  /\ Selecting
  /\ LET t == Slot(Chosen)
         r == Head(queue[t].chunks)
     IN /\ Fits(r)
        /\ queue' = Update(t, Sent(queue[t]))
        /\ pump' = [pump EXCEPT !.stage = "sending", !.served = @ \cup {t},
                                !.bytes = @ + r.bytes, !.chunks = @ + 1,
                                !.terminal = t, !.gen = queue[t].gen, !.seq = r.seq, !.doc = doc]
  /\ AdvanceCursor
  /\ UNCHANGED <<order, ready, doc, disposed, timer>>

(* A record over the byte budget goes back, but the cursor has moved on.   *)
PumpOverBudget ==
  /\ Selecting
  /\ ~Fits(Head(queue[Slot(Chosen)].chunks))
  /\ AdvanceCursor
  /\ EndFrame(queue)
  /\ UNCHANGED <<queue, order, ready, doc, disposed>>

PumpStop ==
  /\ pump.stage = "select" /\ ~Selecting
  /\ EndFrame(queue)
  /\ UNCHANGED <<queue, order, cursor, ready, doc, disposed>>

(* The queue object pump() holds is still the registered one.              *)
SameQueue == queue[pump.terminal].live /\ queue[pump.terminal].gen = pump.gen

PumpSent ==
  /\ pump.stage = "sending"
  /\ LET t == pump.terminal
         q == IF SameQueue THEN Finished(Resumed(queue[t], ready), ready) ELSE queue[t]
         goOn == ready /\ doc = pump.doc /\ SameQueue /\ q.live /\ Owns(q, pump.seq)
     IN /\ queue' = Update(t, q)
        /\ IF goOn
           THEN pump' = [pump EXCEPT !.stage = "select"] /\ UNCHANGED timer
           ELSE EndFrame(queue')
  /\ DropOrder(pump.terminal, queue')
  /\ UNCHANGED <<ready, doc, disposed>>

(* The transport refused or threw.  The in-flight owner requeues its       *)
(* record and withdraws readiness; otherwise a callback already did.       *)
PumpRefused ==
  /\ pump.stage = "sending"
  /\ IF SameQueue /\ Owns(queue[pump.terminal], pump.seq)
     THEN LET back == Update(pump.terminal, Requeued(queue[pump.terminal], pump.seq))
          IN /\ queue' = [t \in Terminals |-> IF ready THEN Detached(back[t]) ELSE back[t]]
             /\ ready' = FALSE /\ timer' = FALSE /\ pump' = NoPump
     ELSE queue' = queue /\ EndFrame(queue) /\ UNCHANGED ready
  /\ UNCHANGED <<order, cursor, doc, disposed>>

Pump == PumpStart \/ PumpSend \/ PumpOverBudget \/ PumpStop \/ PumpSent \/ PumpRefused

Next ==
  \/ \E t \in Terminals :
       \/ Register(t) \/ Finish(t) \/ FinishTimeout(t) \/ Cancel(t) \/ HydrateTerminal(t)
       \/ \E n \in 1 .. ChunkBytes : Enqueue(t, n)
       \/ \E i \in DOMAIN queue[t].inFlight : Acknowledge(t, i)
  \/ \E d \in 1 .. MaxDoc, rdy \in BOOLEAN : SetRendererReady(d, rdy)
  \/ Dispose
  \/ Pump

Spec == Init /\ [][Next]_vars
-----------------------------------------------------------------------------
(* Safety *)

PumpType ==
  [stage : {"idle", "select", "sending"}, bytes : Nat, chunks : Nat, served : SUBSET Terminals,
   terminal : Terminals \cup {"none"}, gen : Nat, seq : Nat, doc : Nat]

Queue ==
  [live : BOOLEAN, gen : Nat, chunks : Seq(Record), queuedBytes : Int,
   inFlight : Seq(Record), inFlightBytes : Int, next : Nat,
   paused : BOOLEAN, closing : BOOLEAN, hydrated : BOOLEAN, exitQueued : BOOLEAN,
   verdict : {"none", "pending", "delivered", "abandoned", "timeout"},
   produced : Nat, acked : SUBSET Nat]

(* Every variable stays in its domain.                                     *)
TypeOK ==
  /\ queue \in [Terminals -> Queue]
  /\ order \in Seq(Terminals) /\ cursor \in Nat
  /\ ready \in BOOLEAN /\ doc \in Nat /\ disposed \in BOOLEAN /\ timer \in BOOLEAN
  /\ pump \in PumpType

(* The round-robin order lists each live terminal exactly once and the     *)
(* cursor stays inside it, whatever is registered and removed meanwhile:   *)
(* no live terminal drops out of the scheduler.                            *)
RoundRobin ==
  /\ \A i, j \in DOMAIN order : i # j => order[i] # order[j]
  /\ \A t \in Terminals : queue[t].live <=> t \in Range(order)
  /\ cursor < Len(order) \/ cursor = 0

Held(q) == Range(q.inFlight) \cup Range(q.chunks)

InOrder(q) ==
  /\ Ascending(q.inFlight) /\ Ascending(q.chunks)
  /\ \A r \in Range(q.inFlight), s \in Range(q.chunks) : r.seq < s.seq
  /\ \A r \in Held(q) : r.seq < q.next

(* Sends, acknowledgements, refusals and replays in any order keep the     *)
(* retained records in sequence order, in flight before queued, below the  *)
(* next sequence number: a replay never reorders a terminal's output.      *)
LedgerInOrder == \A t \in Terminals : InOrder(queue[t])

(* Every offset of `all` is acknowledged or in exactly one held record.    *)
Partitions(all, acked, held) ==
  /\ all = acked \cup UNION {Covers(r) : r \in held}
  /\ \A r \in held : Covers(r) \cap acked = {}
  /\ \A r, s \in held : r # s => Covers(r) \cap Covers(s) = {}

AllHeld(q) == Partitions(1 .. q.produced, q.acked, Held(q))

(* "No bytes are dropped": each byte a live terminal had admitted was      *)
(* acknowledged or lies in exactly one retained record.                    *)
Lossless == \A t \in Terminals : queue[t].live => AllHeld(queue[t])

TailFirst(q) ==
  /\ \A r \in Held(q) : IsData(r) <=> ~q.exitQueued
  /\ q.closing => Held(q) # {}

(* The exit marker cannot overtake the PTY tail: once queued, it is the    *)
(* only record left, and a closing terminal always has a record left whose *)
(* delivery can complete its finish().                                     *)
ExitAfterTail == \A t \in Terminals : queue[t].live => TailFirst(queue[t])

(* finish() answers true only when the renderer acknowledged every byte.   *)
DeliveredTail ==
  \A t \in Terminals :
    queue[t].verdict = "delivered" => queue[t].acked = 1 .. queue[t].produced

(* The byte counters agree with the records they count.                    *)
CountersAgree ==
  \A t \in Terminals :
    /\ queue[t].queuedBytes = SumBytes(queue[t].chunks)
    /\ queue[t].inFlightBytes = SumBytes(queue[t].inFlight)

BelowHighWater(q) ==
  /\ RetainedBytes(q) <= MaxBytes
  /\ RetainedChunks(q) <= MaxChunks + (IF q.exitQueued THEN 1 ELSE 0)

(* The high-water mark covers queued and in-flight records together, so    *)
(* Chromium never becomes a second, unbounded queue; only the exit marker  *)
(* may go one record over it.                                              *)
HighWater == \A t \in Terminals : BelowHighWater(queue[t])

ResumeOwed(q, rdy) ==
  CanDeliver(q, rdy) /\ q.paused /\ ~q.closing
    => RetainedBytes(q) > LowBytes \/ RetainedChunks(q) > LowChunks

(* Back-pressure is never forgotten: a paused source whose viewer can take *)
(* output still has something above a low-water mark to be acknowledged.   *)
NoLostResume == \A t \in Terminals : ResumeOwed(queue[t], ready)

(* Deliverable output never waits for a frame nobody scheduled.            *)
PumpArmed ==
  (\E t \in Terminals : Deliverable(queue[t], ready)) => timer \/ pump.stage # "idle"

(* Only a hydrated viewer of the current document owes acknowledgements:   *)
(* a document that is gone leaves nothing behind in flight.                *)
InFlightHasViewer ==
  \A t \in Terminals : queue[t].inFlight # <<>> => CanDeliver(queue[t], ready)

(* The renderer deduplicates by sequence number alone, so a record that    *)
(* was sent once never changes or grows, replays included.                 *)
SentIsImmutable ==
  [][\A t \in Terminals : queue[t].live /\ queue'[t].live =>
       \A r \in Held(queue[t]), s \in Held(queue'[t]) :
         r.sealed /\ r.seq = s.seq => s = r]_vars
-----------------------------------------------------------------------------
(* Liveness *)

(* The event loop runs expired timers, a transport call returns, and a     *)
(* viewer acknowledges what xterm consumed.                                *)
Fairness ==
  /\ WF_vars(Pump)
  /\ \A t \in Terminals :
       WF_vars(\E i \in DOMAIN queue[t].inFlight : Acknowledge(t, i))

FairSpec == Spec /\ Fairness

(* A terminal that finished is delivered and released if some document     *)
(* eventually stays ready with the terminal hydrated.                      *)
FinishCompletes ==
  \A t \in Terminals :
    <>[](ready /\ (queue[t].live => queue[t].hydrated)) =>
      [](queue[t].closing => <>~queue[t].live)
=============================================================================
