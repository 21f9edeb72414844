----------------------------- MODULE SidecarQueue -----------------------------
(***************************************************************************)
(* One SidecarEventQueue (electron/sidecar/queue.ts): bounded, ordered     *)
(* delivery of sidecar events to one asynchronous handler, with coalescing *)
(* of adjacent snapshots, retries of a failing head, dead letters, drain   *)
(* waiters and disposal.  Each action is one turn of the event loop.       *)
(***************************************************************************)
EXTENDS SidecarQueueState

CONSTANTS
  Waiters,      \* callers of drain()
  MaxEvents     \* bound: events offered to the queue

ASSUME SidecarQueueBounds == IsFiniteSet(Waiters) /\ MaxEvents \in Nat

VARIABLES
  q,        \* the queue
  offered,  \* kind of every event offered so far; its index is its id
  fate,     \* what became of each offered event
  log,      \* ids in the order their handlers ended, dead letters included
  waiting   \* each drain() caller: "none", "waiting" or "resolved"

vars == <<q, offered, fate, log, waiting>>

Ids == 1 .. MaxEvents
Fates == {"refused", "pending", "handled", "dead", "superseded", "rejected"}

Init ==
  /\ q = NewQueue
  /\ offered = <<>> /\ fate = <<>> /\ log = <<>>
  /\ waiting = [w \in Waiters |-> "none"]

\* resolveDrainWaiters, after the queue has become nq.
Wake(nq) ==
  waiting' = IF Idle(nq) THEN [w \in Waiters |-> IF waiting[w] = "waiting" THEN "resolved" ELSE waiting[w]]
             ELSE waiting

\* Promises settle once: only a pending acknowledgement changes.
Settle(f, ids, to) == [i \in DOMAIN f |-> IF i \in ids /\ f[i] = "pending" THEN to ELSE f[i]]

Enqueue(k, b) ==
  LET i == Len(offered) + 1
      e == NewItem(i, k, b)
      ok == Accepts(q, e)
  IN /\ i <= MaxEvents
     /\ offered' = Append(offered, k)
     /\ fate' = Append(IF ok THEN Settle(fate, Superseded(q, e), "superseded") ELSE fate,
                       IF ok THEN "pending" ELSE "refused")
     /\ q' = IF ok THEN Admitted(q, e) ELSE q
     /\ UNCHANGED <<log, waiting>>

HandlerOk(e) ==
  /\ e \in q.active
  /\ q' = Succeeded(q, e)
  /\ fate' = Settle(fate, {e.id}, "handled")
  /\ log' = Append(log, e.id)
  /\ Wake(Ended(q, e))
  /\ UNCHANGED offered

\* The rejection of a handler that outlived dispose() settles nothing new.
HandlerFails(e) ==
  /\ e \in q.active
  /\ IF Poison(q, e)
     THEN q' = DeadLettered(q, e) /\ fate' = Settle(fate, {e.id}, "dead") /\ log' = Append(log, e.id)
     ELSE q' = (IF q.disposed THEN Ended(q, e) ELSE Requeued(q, e)) /\ UNCHANGED <<fate, log>>
  /\ Wake(q')
  /\ UNCHANGED offered

Retry ==
  /\ q.retry
  /\ q' = Retried(q)
  /\ UNCHANGED <<offered, fate, log, waiting>>

Drain(w) ==
  /\ waiting[w] = "none"
  /\ waiting' = [waiting EXCEPT ![w] = IF Idle(q) THEN "resolved" ELSE "waiting"]
  /\ UNCHANGED <<q, offered, fate, log>>

Dispose ==
  /\ ~q.disposed
  /\ q' = Disposed(q)
  /\ fate' = Settle(fate, DOMAIN fate, "rejected")
  /\ waiting' = [w \in Waiters |-> IF waiting[w] = "waiting" THEN "resolved" ELSE waiting[w]]
  /\ UNCHANGED <<offered, log>>

Next ==
  \/ \E k \in Kinds, b \in 1 .. MaxBytes : Enqueue(k, b)
  \/ \E e \in q.active : HandlerOk(e) \/ HandlerFails(e)
  \/ Retry
  \/ \E w \in Waiters : Drain(w)
  \/ Dispose

Spec == Init /\ [][Next]_vars

\* A handler settles, one way or the other, and the retry timer fires.
FairSpec ==
  /\ Spec
  /\ WF_vars(\E e \in q.active : HandlerOk(e) \/ HandlerFails(e))
  /\ WF_vars(Retry)

-----------------------------------------------------------------------------
(* Properties *)

\* Every variable stays in its domain.
TypeOK ==
  /\ q \in [queue : Seq(Item(Ids)), queuedBytes : Nat, active : SUBSET Item(Ids), inFlight : Nat,
            inFlightBytes : Nat, retry : BOOLEAN, disposed : BOOLEAN]
  /\ offered \in Seq(Kinds) /\ fate \in Seq(Fates) /\ Len(fate) = Len(offered)
  /\ log \in Seq(Ids)
  /\ waiting \in [Waiters -> {"none", "waiting", "resolved"}]

\* The running items and the waiting ones, and their byte counters, never
\* exceed the high-water marks, on the coalescing path as well.
Bounded ==
  /\ Len(q.queue) + q.inFlight <= MaxItems
  /\ q.inFlight <= MaxInFlight
  /\ q.queuedBytes + q.inFlightBytes <= MaxBytes

\* An unacknowledged event is waiting or running, exactly once: no path
\* (coalescing, retry, dead letter) loses an event or delivers it twice.
NothingLost ==
  \A i \in DOMAIN fate : fate[i] = "pending" =>
    \/ \E j \in DOMAIN q.queue : q.queue[j].id = i /\ \A k \in DOMAIN q.queue : q.queue[k].id = i => k = j
    \/ \E e \in q.active : e.id = i

\* With one handler at a time, events finish in the order they were admitted:
\* a later event never passes one that failed and is being retried.
InOrder == MaxInFlight = 1 => \A i, j \in DOMAIN log : i < j => log[i] < log[j]

\* A snapshot is superseded only by a newer one of its kind with no admitted
\* boundary event between them: coalescing never moves state across a boundary.
CoalescesWithinBoundary ==
  \A i \in DOMAIN fate : fate[i] = "superseded" =>
    \E j \in DOMAIN fate :
      /\ i < j /\ offered[j] = offered[i] /\ fate[j] # "refused"
      /\ \A k \in i + 1 .. j - 1 : fate[k] = "refused" \/ offered[k] = offered[i]

\* drain() resolves only when everything admitted before it is settled.
\* (Stated of the step that resolves it.)
DrainIsSound ==
  [][\A w \in Waiters : (waiting[w] # "resolved" /\ waiting'[w] = "resolved") =>
       \A i \in DOMAIN fate : fate'[i] # "pending"]_vars

\* A failing handler never wedges a drain: every drain() returns, because a
\* poison event is skipped after MaxAttempts (the close and shutdown paths
\* of main.ts await it).
DrainReturns == \A w \in Waiters : waiting[w] = "waiting" ~> waiting[w] = "resolved"
=============================================================================
