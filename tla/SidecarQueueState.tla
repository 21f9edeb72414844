-------------------------- MODULE SidecarQueueState --------------------------
(***************************************************************************)
(* The state of one SidecarEventQueue (electron/sidecar/queue.ts) and what *)
(* each of its methods and callbacks does to it, as functions of that      *)
(* state.  SidecarQueue and SidecarDelivery are built on them.             *)
(***************************************************************************)
EXTENDS Naturals, Sequences, FiniteSets

CONSTANTS
  MaxItems,     \* options.maxItems: waiting and running items together
  MaxBytes,     \* options.maxBytes: likewise for their bytes
  MaxInFlight,  \* options.maxInFlight
  MaxAttempts   \* options.maxHandlerAttempts

ASSUME SidecarQueueAssumption ==
  /\ MaxItems \in Nat \ {0} /\ MaxBytes \in Nat \ {0}
  /\ MaxInFlight \in Nat \ {0} /\ MaxAttempts \in Nat \ {0}

\* Event kinds: two latest-state snapshots and everything else.
Replaceable == {"agent_settings", "plan"}
Kinds == Replaceable \cup {"boundary"}

\* One QueuedSidecarEvent: its id stands for the event and its promise.
Item(Ids) == [id : Ids, key : Kinds, bytes : 1 .. MaxBytes, attempts : 0 .. MaxAttempts - 1]
NewItem(i, k, b) == [id |-> i, key |-> k, bytes |-> b, attempts |-> 0]

NewQueue == [queue |-> <<>>, queuedBytes |-> 0, active |-> {}, inFlight |-> 0,
             inFlightBytes |-> 0, retry |-> FALSE, disposed |-> FALSE]

Last(s) == s[Len(s)]
Idle(q) == q.queue = <<>> /\ q.inFlight = 0

\* Mutant: one slot too many.
StartableOneMore(q) ==
  IF q.retry \/ q.disposed \/ q.inFlight > MaxInFlight THEN 0
  ELSE IF Len(q.queue) < MaxInFlight - q.inFlight + 1 THEN Len(q.queue) ELSE MaxInFlight - q.inFlight + 1

\* How many waiting events start: none while a retry is pending.
Startable(q) ==
  IF q.retry \/ q.disposed \/ q.inFlight >= MaxInFlight THEN 0
  ELSE IF Len(q.queue) < MaxInFlight - q.inFlight THEN Len(q.queue) ELSE MaxInFlight - q.inFlight

\* pump: start the head while a slot is free.
Pumped(q) ==
  LET k == Startable(q)
      Bytes[i \in 0 .. k] == IF i = 0 THEN 0 ELSE Bytes[i - 1] + q.queue[i].bytes
  IN [q EXCEPT !.queue = SubSeq(@, k + 1, Len(@)),
               !.queuedBytes = @ - Bytes[k],
               !.active = @ \cup {q.queue[i] : i \in 1 .. k},
               !.inFlight = @ + k,
               !.inFlightBytes = @ + Bytes[k]]

\* Mutant: a snapshot coalesces with any waiting one of its kind.
CoalescesAny(q, e) == e.key \in Replaceable /\ \E i \in DOMAIN q.queue : q.queue[i].key = e.key

\* The new event replaces the last waiting one: adjacent, both snapshots, same kind.
Coalesces(q, e) ==
  /\ q.queue # <<>>
  /\ e.key \in Replaceable /\ Last(q.queue).key = e.key

\* enqueueTracked accepts e.
Accepts(q, e) ==
  /\ ~q.disposed
  /\ e.bytes <= MaxBytes
  /\ IF Coalesces(q, e)
     THEN q.inFlightBytes + q.queuedBytes - Last(q.queue).bytes + e.bytes <= MaxBytes
     ELSE /\ Len(q.queue) + q.inFlight < MaxItems
          /\ q.queuedBytes + q.inFlightBytes + e.bytes <= MaxBytes

\* The state after enqueueTracked accepted e.
Admitted(q, e) ==
  Pumped(IF Coalesces(q, e)
         THEN [q EXCEPT !.queue[Len(q.queue)] = e,
                        !.queuedBytes = @ - Last(q.queue).bytes + e.bytes]
         ELSE [q EXCEPT !.queue = Append(@, e), !.queuedBytes = @ + e.bytes])

\* Mutant: the superseded snapshot is never acknowledged.
SupersededNone(q, e) == {}

\* The ids whose acknowledgement admission resolves: a superseded snapshot.
Superseded(q, e) == IF Coalesces(q, e) THEN {Last(q.queue).id} ELSE {}

Ended(q, e) == [q EXCEPT !.active = @ \ {e}, !.inFlight = @ - 1, !.inFlightBytes = @ - e.bytes]

\* The handler of e completed.
Succeeded(q, e) == Pumped(Ended(q, e))

\* The handler of e failed for the last time it may: e is skipped.
Poison(q, e) == ~q.disposed /\ e.attempts + 1 >= MaxAttempts
DeadLettered(q, e) == Pumped(Ended(q, e))

\* Mutant: a failed event goes to the tail.
RequeuedLast(q, e) ==
  [Ended(q, e) EXCEPT !.queue = Append(@, [e EXCEPT !.attempts = @ + 1]),
                      !.queuedBytes = @ + e.bytes,
                      !.retry = TRUE]

\* Mutant: a failed event waits for a timer nobody set.
RequeuedUntimed(q, e) ==
  [Ended(q, e) EXCEPT !.queue = <<[e EXCEPT !.attempts = @ + 1]>> \o @,
                      !.queuedBytes = @ + e.bytes]

\* The handler of e failed and e goes back to the head behind a retry timer.
Requeued(q, e) ==
  [Ended(q, e) EXCEPT !.queue = <<[e EXCEPT !.attempts = @ + 1]>> \o @,
                      !.queuedBytes = @ + e.bytes,
                      !.retry = TRUE]

\* The retry timer fires.
Retried(q) == Pumped([q EXCEPT !.retry = FALSE])

\* dispose: waiting items are dropped, running handlers are left to end.
Disposed(q) ==
  [q EXCEPT !.disposed = TRUE, !.retry = FALSE, !.queue = <<>>, !.queuedBytes = 0]
=============================================================================
