---------------------------- MODULE PtyDelivery ----------------------------
(***************************************************************************)
(* The output of one terminal id on its way from the main process to the   *)
(* terminal view of a renderer document, and back as acknowledgements:     *)
(* the roster pushes and the pty:ready handshake that open the delivery,   *)
(* the documents that crash, reload and are replaced, the sequence ledger  *)
(* and the asynchronous writes of the view (electron/main.ts,              *)
(* electron/terminal-runtime.ts, src/main.ts, src/pty-sequence-ledger.ts). *)
(*                                                                         *)
(* The scheduler of PtyEgress appears here only by what it promises: it    *)
(* sends the records of a hydrated terminal in order, keeps them until     *)
(* they are acknowledged and takes them back when the document goes.       *)
(*                                                                         *)
(* webContents.send and ipcRenderer.send are FIFO channels; the reply of   *)
(* an invoke may overtake a push or be overtaken.                          *)
(***************************************************************************)
EXTENDS PtyPane, FiniteSets

CONSTANTS
  MaxGap,         \* PTY_RENDERER_SEQUENCE_GAP_WINDOW
  MaxGen,         \* bound: lives of the terminal id
  MaxDoc,         \* bound: renderer documents
  MaxData,        \* bound: data records of one life
  MaxPushes       \* bound: roster pushes of unrelated activity

ASSUME PtyDeliveryBounds == {MaxGap, MaxGen, MaxDoc, MaxData} \subseteq Nat \ {0} /\ MaxPushes \in Nat

VARIABLES
  doc,        \* rendererGeneration of the document main talks to
  ready,      \* rendererReady
  spawning,   \* the document captured by a createTerminal under way, 0 if none
  asking,     \* the close request main is confirming
  push,       \* main -> renderer, webContents.send
  replies,    \* main -> renderer, replies of invokes
  up,         \* renderer -> main
  pushes      \* bound: roster pushes of unrelated activity so far

vars == <<doc, ready, term, spawning, asking, view, push, replies, up, pushes, hist>>
-----------------------------------------------------------------------------
(* Records, ledgers, documents *)

Rec(kind, seq) == [kind |-> kind, seq |-> seq]
Records == [kind : {"data", "exit"}, seq : 1 .. MaxData + 1]

NewLedger == [init |-> FALSE, contiguous |-> 0, finished |-> FALSE, exitAt |-> 0, gaps |-> {}]

NewView(d) ==
  [doc |-> d, alive |-> TRUE, stage |-> "loaded", pane |-> 0, ledger |-> NewLedger,
   writes |-> <<>>, shown |-> <<>>, closing |-> 0, fence |-> 0]

NoTerm == [live |-> FALSE, gen |-> 0, closed |-> FALSE, target |-> 0, closing |-> FALSE,
           exitQueued |-> FALSE, hydrated |-> FALSE, next |-> 1, queue |-> <<>>, flight |-> <<>>]

NotAsking == [gen |-> 0, doc |-> 0]

\* The records that follow seq s in `gaps` with no hole, up to an exit.
Following(gaps, s) ==
  {r \in gaps : /\ \A k \in (s + 1) .. r.seq : \E x \in gaps : x.seq = k
                /\ \A x \in gaps : x.seq < r.seq => x.kind # "exit"}

\* The records rs, which follow seq s, in order.
Ordered(rs, s) ==
  LET end == CHOOSE e \in {s} \union {r.seq : r \in rs} : \A r \in rs : r.seq <= e
  IN [i \in 1 .. end - s |-> CHOOSE r \in rs : r.seq = s + i]

Verdict(l, kind, out) == [ledger |-> l, kind |-> kind, records |-> out]

(* Mutation: every document starts its ledger at sequence one.             *)
StartedAtOne(l, r) == [l EXCEPT !.init = TRUE]

Started(l, r) == IF l.init THEN l ELSE [l EXCEPT !.init = TRUE, !.contiguous = r.seq - 1]

Admit(l, r) ==
  LET out == <<r>> \o (IF r.kind = "exit" THEN <<>> ELSE Ordered(Following(l.gaps, r.seq), r.seq))
      last == out[Len(out)]
      finished == last.kind = "exit"
  IN Verdict([l EXCEPT !.contiguous = last.seq, !.finished = finished,
                       !.gaps = IF finished THEN {} ELSE @ \ Range(out)],
             "accepted", out)

\* PtySequenceLedger.accept
Accept(before, r) ==
  LET l == Started(before, r)
  IN IF r.seq <= l.contiguous \/ \E x \in l.gaps : x.seq = r.seq THEN Verdict(l, "duplicate", <<>>)
     ELSE IF \/ l.finished
             \/ l.exitAt # 0 /\ r.seq > l.exitAt
             \/ r.seq - l.contiguous > MaxGap THEN Verdict(l, "rejected", <<>>)
     ELSE IF r.seq - l.contiguous > 1
          THEN Verdict([l EXCEPT !.gaps = @ \union {r},
                                 !.exitAt = IF r.kind = "exit" THEN r.seq ELSE @],
                       "buffered", <<>>)
     ELSE Admit(l, r)
-----------------------------------------------------------------------------
(* The egress queue, as the main process uses it *)

(* Mutation: what the old document was sent is taken as shown.             *)
DetachedShown(t) == [t EXCEPT !.hydrated = FALSE, !.flight = <<>>]

(* Mutation: the replay goes behind what was never sent.                   *)
DetachedLast(t) == [t EXCEPT !.hydrated = FALSE, !.flight = <<>>, !.queue = @ \o t.flight]

\* A document is replaced: what is in flight is replayed to the next one.
Detached(t) == [t EXCEPT !.hydrated = FALSE, !.flight = <<>>, !.queue = t.flight \o @]

Cancelled(t) == [t EXCEPT !.hydrated = FALSE, !.flight = <<>>, !.queue = <<>>]

(* Mutation: every acknowledgement of a closing queue adds a marker.       *)
WithExitAgain(t) ==
  IF t.closing /\ t.queue = <<>> /\ t.flight = <<>>
  THEN [t EXCEPT !.exitQueued = TRUE, !.queue = <<Rec("exit", t.next)>>, !.next = @ + 1]
  ELSE t

\* The exit marker follows the last data record that is retained.
WithExit(t) ==
  IF t.closing /\ ~t.exitQueued /\ t.queue = <<>> /\ t.flight = <<>>
  THEN [t EXCEPT !.exitQueued = TRUE, !.queue = <<Rec("exit", t.next)>>, !.next = @ + 1]
  ELSE t

Retire(t, seq) ==
  LET i == CHOOSE i \in DOMAIN t.flight : t.flight[i].seq = seq
  IN WithExit([t EXCEPT !.flight = RemoveAt(@, i)])

\* The generation the roster shows, 0 for none.
Listed(t) == IF t.live /\ ~t.closed THEN t.gen ELSE 0
-----------------------------------------------------------------------------
(* Documents: `Become` is what a step of the main process leaves of the    *)
(* delivery state, `t` the terminal before the step talks to the renderer. *)

Replaced(t) ==
  /\ doc' = doc + 1
  /\ ready' = FALSE
  /\ term' = Detached(t)
  /\ UNCHANGED push

(* A push is sent to the document it was meant for; a renderer found       *)
(* crashed is reloaded on the spot.                                        *)
Pushed(t, target, msg) ==
  IF target # doc \/ ~ready
  THEN term' = t /\ UNCHANGED <<doc, ready, push>>
  ELSE IF view.alive
       THEN term' = t /\ push' = Append(push, msg) /\ UNCHANGED <<doc, ready>>
       ELSE Replaced(t)

ListMsg(t) == [kind |-> "list", gen |-> Listed(t), doc |-> doc, rec |-> Rec("data", 1)]
RecMsg(r) == [kind |-> "record", gen |-> term.gen, doc |-> doc, rec |-> r]
-----------------------------------------------------------------------------
Init ==
  /\ doc = 1 /\ ready = FALSE
  /\ term = NoTerm
  /\ spawning = 0 /\ asking = NotAsking
  /\ view = NewView(1)
  /\ push = <<>> /\ replies = {} /\ up = <<>>
  /\ pushes = 0
  /\ hist = [shown |-> {}, retired |-> {}, closed |-> 0]

(* The main process *)

\* createTerminal captures the document before its first await ...
SpawnBegin ==
  /\ spawning = 0 /\ ~term.live /\ term.gen < MaxGen
  /\ spawning' = doc
  /\ UNCHANGED <<doc, ready, term, asking, view, push, replies, up, pushes, hist>>

\* ... and adopts the terminal and pushes the roster after the last one.
SpawnEnd ==
  /\ spawning # 0
  /\ LET t == [NoTerm EXCEPT !.live = TRUE, !.gen = term.gen + 1, !.target = spawning]
     IN Pushed(t, spawning, ListMsg(t))
  /\ spawning' = 0
  /\ UNCHANGED <<asking, view, replies, up, pushes, hist>>

\* Every other event of an agent pushes the roster to the current document.
PushList ==
  /\ pushes < MaxPushes
  /\ pushes' = pushes + 1
  /\ Pushed(term, doc, ListMsg(term))
  /\ UNCHANGED <<spawning, asking, view, replies, up, hist>>

Output ==
  /\ term.live /\ ~term.closed /\ ~term.closing
  /\ term.next <= MaxData
  /\ term' = [term EXCEPT !.queue = Append(@, Rec("data", term.next)), !.next = @ + 1]
  /\ UNCHANGED <<doc, ready, spawning, asking, view, push, replies, up, pushes, hist>>

NativeExit ==
  /\ term.live /\ ~term.closing
  /\ term' = IF term.closed THEN [term EXCEPT !.closing = TRUE]
             ELSE WithExit([term EXCEPT !.closing = TRUE])
  /\ UNCHANGED <<doc, ready, spawning, asking, view, push, replies, up, pushes, hist>>

(* onExit: the drain ended, or its budget did, or the user had closed the  *)
(* terminal; it leaves the map and the roster goes to the document that    *)
(* was current when the terminal was created.                              *)
Release ==
  /\ term.live /\ term.closing
  /\ LET t == [NoTerm EXCEPT !.gen = term.gen] IN Pushed(t, term.target, ListMsg(t))
  /\ hist' = [hist EXCEPT !.shown = {}, !.retired = {}]
  /\ UNCHANGED <<spawning, asking, view, replies, up, pushes>>

\* sendPtyChunk, sendPtyExit: the head of the queue, in order.
Send ==
  /\ term.live /\ term.hydrated /\ ready /\ term.queue # <<>>
  /\ IF view.alive
     THEN /\ push' = Append(push, RecMsg(Head(term.queue)))
          /\ term' = [term EXCEPT !.queue = Tail(@), !.flight = Append(@, Head(term.queue))]
          /\ UNCHANGED <<doc, ready>>
     ELSE Replaced(term)
  /\ UNCHANGED <<spawning, asking, view, replies, up, pushes, hist>>

(* A navigation, a reload, render-process-gone, or the window closed and   *)
(* opened again: the capability of the running document is void.           *)
Replace ==
  /\ doc < MaxDoc
  /\ Replaced(term)
  /\ UNCHANGED <<spawning, asking, view, replies, up, pushes, hist>>

\* The head of `up` came from the current document and its main frame.
Trusted(m) == m.doc = doc

TakeUp == up # <<>> /\ up' = Tail(up)

\* The reply of an invoke reaches the document that made it, or nobody.
Answer(kind, gen, d) ==
  replies' = IF view.doc = d THEN replies \union {[kind |-> kind, gen |-> gen]} ELSE replies

DropUntrusted ==
  /\ TakeUp /\ ~Trusted(Head(up))
  /\ IF Head(up).kind = "close" THEN Answer("kept", Head(up).gen, Head(up).doc)
     ELSE UNCHANGED replies
  /\ UNCHANGED <<doc, ready, term, spawning, asking, view, push, pushes, hist>>

\* terminals:list
ListTerminals ==
  /\ TakeUp /\ Trusted(Head(up)) /\ Head(up).kind = "boot"
  /\ Pushed(term, doc, ListMsg(term))
  /\ Answer("boot", Listed(term), doc)
  /\ UNCHANGED <<spawning, asking, view, pushes, hist>>

\* TerminalRuntime.attach
Attached(t, gen) ==
  IF t.live /\ ~t.closed /\ t.gen = gen THEN [t EXCEPT !.hydrated = TRUE] ELSE t

\* pty:ready
ReadyHandshake ==
  /\ TakeUp /\ Trusted(Head(up)) /\ Head(up).kind = "ready"
  /\ ready' = TRUE
  /\ term' = Attached(term, Head(up).gen)
  /\ UNCHANGED <<doc, spawning, asking, view, push, replies, pushes, hist>>

\* pty:ack
Acknowledge ==
  /\ TakeUp /\ Trusted(Head(up)) /\ Head(up).kind = "ack"
  /\ LET m == Head(up) IN
     IF term.live /\ term.gen = m.gen /\ m.seq \in Seqs(term.flight)
     THEN /\ term' = Retire(term, m.seq)
          /\ hist' = [hist EXCEPT !.retired = @ \union {m.seq}]
     ELSE UNCHANGED <<term, hist>>
  /\ UNCHANGED <<doc, ready, spawning, asking, view, push, replies, pushes>>

\* terminals:close: performTerminalClose asks, and acts when it is answered.
CloseRequest ==
  /\ TakeUp /\ Trusted(Head(up)) /\ Head(up).kind = "close"
  /\ IF term.live /\ ~term.closed /\ term.gen = Head(up).gen
     THEN asking' = [gen |-> Head(up).gen, doc |-> doc] /\ UNCHANGED replies
     ELSE Answer("kept", Head(up).gen, doc) /\ UNCHANGED asking
  /\ UNCHANGED <<doc, ready, term, spawning, view, push, pushes, hist>>

CloseDeclined ==
  /\ asking # NotAsking
  /\ Answer("kept", asking.gen, asking.doc)
  /\ asking' = NotAsking
  /\ UNCHANGED <<doc, ready, term, spawning, view, push, up, pushes, hist>>

CloseConfirmed ==
  /\ asking # NotAsking
  /\ term.live /\ ~term.closed /\ term.gen = asking.gen /\ asking.doc = doc
  /\ LET t == [Cancelled(term) EXCEPT !.closed = TRUE]
     IN Pushed(t, doc, ListMsg(t))
  /\ Answer("closed", asking.gen, asking.doc)
  /\ asking' = NotAsking
  /\ UNCHANGED <<spawning, view, up, pushes, hist>>
-----------------------------------------------------------------------------
(* The renderer *)

Say(kind, gen, seq) == [kind |-> kind, gen |-> gen, seq |-> seq, doc |-> view.doc]

\* The process of the renderer dies with everything it was sent.
Crash ==
  /\ view.alive /\ doc < MaxDoc
  /\ view' = [view EXCEPT !.alive = FALSE]
  /\ push' = <<>>
  /\ UNCHANGED <<doc, ready, term, spawning, asking, replies, up, pushes, hist>>

\* The next document takes the capability of the moment; the old one is gone.
Load ==
  /\ view.doc # doc
  /\ view' = NewView(doc)
  /\ push' = <<>>
  /\ replies' = {}
  /\ UNCHANGED <<doc, ready, term, spawning, asking, up, pushes, hist>>

BootRequest ==
  /\ view.alive /\ view.stage = "loaded"
  /\ view' = [view EXCEPT !.stage = "asked"]
  /\ up' = Append(up, Say("boot", 0, 0))
  /\ UNCHANGED <<doc, ready, term, spawning, asking, push, replies, pushes, hist>>

\* createPaneShell and applyTerminalGeneration
WithPane(v, gen) ==
  IF v.pane = gen THEN v
  ELSE [v EXCEPT !.pane = gen, !.ledger = NewLedger, !.shown = <<>>]

\* disposePane
WithoutPane(v) ==
  [v EXCEPT !.pane = 0, !.ledger = NewLedger, !.writes = <<>>, !.shown = <<>>]

\* A document with no terminal says so with the id of no terminal.
BootReply ==
  /\ view.alive
  /\ \E m \in replies :
       /\ m.kind = "boot"
       /\ replies' = replies \ {m}
       /\ view' = [(IF m.gen = 0 THEN view ELSE WithPane(view, m.gen)) EXCEPT !.stage = "listed"]
       /\ up' = Append(up, Say("ready", m.gen, 0))
  /\ UNCHANGED <<doc, ready, term, spawning, asking, push, pushes, hist>>

ClosePane ==
  /\ view.alive /\ view.pane # 0 /\ view.closing = 0
  /\ view' = [view EXCEPT !.closing = view.pane]
  /\ up' = Append(up, Say("close", view.pane, 0))
  /\ UNCHANGED <<doc, ready, term, spawning, asking, push, replies, pushes, hist>>

CloseReply ==
  /\ view.alive
  /\ \E m \in replies :
       /\ m.kind \in {"closed", "kept"}
       /\ replies' = replies \ {m}
       /\ IF m.kind = "closed" /\ view.pane \in {0, m.gen}
          THEN view' = [WithoutPane(view) EXCEPT !.closing = 0, !.fence = m.gen]
          ELSE view' = [view EXCEPT !.closing = 0]
       /\ hist' = IF m.kind = "closed" THEN [hist EXCEPT !.closed = m.gen] ELSE hist
  /\ UNCHANGED <<doc, ready, term, spawning, asking, push, up, pushes>>

(* Mutation: no fence.                                                     *)
FencedNever(v, gen) == FALSE

\* A roster push for a life that is already closing is not this pane's.
Fenced(v, gen) == v.fence # 0 /\ gen <= v.fence

\* onInstances
ReceiveList ==
  /\ view.alive /\ push # <<>> /\ Head(push).kind = "list"
  /\ push' = Tail(push)
  /\ LET gen == Head(push).gen
         shown == IF Fenced(view, gen) THEN 0 ELSE gen
         fence == IF gen = 0 \/ gen > view.fence THEN 0 ELSE view.fence
     IN IF shown = 0
        THEN view' = [WithoutPane(view) EXCEPT !.fence = fence] /\ UNCHANGED up
        ELSE /\ view' = [WithPane(view, gen) EXCEPT !.fence = fence]
             /\ up' = Append(up, Say("ready", gen, 0))
  /\ UNCHANGED <<doc, ready, term, spawning, asking, replies, pushes, hist>>

\* onPtyData, onPtyExit
ReceiveRecord ==
  /\ view.alive /\ push # <<>> /\ Head(push).kind = "record"
  /\ push' = Tail(push)
  /\ LET m == Head(push)
         v == Accept(view.ledger, m.rec)
     IN IF view.pane # m.gen
        THEN UNCHANGED <<view, up>>
        ELSE /\ view' = [view EXCEPT !.ledger = v.ledger,
                           !.writes = @ \o [i \in DOMAIN v.records |->
                                              [gen |-> m.gen, seq |-> v.records[i].seq]]]
             /\ up' = IF v.kind = "duplicate" THEN Append(up, Say("ack", m.gen, m.rec.seq)) ELSE up
  /\ UNCHANGED <<doc, ready, term, spawning, asking, replies, pushes, hist>>

\* The terminal view has consumed a write and calls back.
Consume ==
  /\ view.alive /\ view.writes # <<>>
  /\ LET w == Head(view.writes) IN
     /\ view' = [view EXCEPT !.writes = Tail(@),
                             !.shown = IF w.gen = view.pane THEN Append(@, w.seq) ELSE @]
     /\ up' = Append(up, Say("ack", w.gen, w.seq))
     /\ hist' = IF term.live /\ w.gen = term.gen
                THEN [hist EXCEPT !.shown = @ \union {w.seq}] ELSE hist
  /\ UNCHANGED <<doc, ready, term, spawning, asking, push, replies, pushes>>
-----------------------------------------------------------------------------
Renderer ==
  \/ Load \/ BootRequest \/ BootReply \/ CloseReply
  \/ ReceiveList \/ ReceiveRecord \/ Consume

Main ==
  \/ SpawnEnd \/ Send \/ DropUntrusted \/ ListTerminals \/ ReadyHandshake
  \/ Acknowledge \/ CloseRequest

Next ==
  \/ Main \/ Renderer
  \/ SpawnBegin \/ PushList \/ Output \/ NativeExit \/ Release \/ Replace
  \/ CloseDeclined \/ CloseConfirmed \/ Crash \/ ClosePane

Spec == Init /\ [][Next]_vars

(* The event loops of the two processes run; a terminal view consumes what *)
(* it was given; a renderer that died is noticed.                          *)
Fairness ==
  /\ WF_vars(Send) /\ WF_vars(DropUntrusted) /\ WF_vars(ListTerminals)
  /\ WF_vars(ReadyHandshake) /\ WF_vars(Acknowledge) /\ WF_vars(CloseRequest)
  /\ WF_vars(Load) /\ WF_vars(BootRequest) /\ WF_vars(BootReply)
  /\ WF_vars(ReceiveList) /\ WF_vars(ReceiveRecord) /\ WF_vars(Consume)
  /\ WF_vars(Replace /\ view.doc = doc /\ ~view.alive)

FairSpec == Spec /\ Fairness
-----------------------------------------------------------------------------
(* Properties (those of one pane are in PtyPane) *)

Ledger ==
  [init : BOOLEAN, contiguous : 0 .. MaxData + 1, finished : BOOLEAN,
   exitAt : 0 .. MaxData + 1, gaps : SUBSET Records]

\* The type of every variable; a queue holds each record once.
TypeOK ==
  /\ doc \in 1 .. MaxDoc /\ ready \in BOOLEAN
  /\ term.gen \in 0 .. MaxGen /\ term.target \in 0 .. MaxDoc /\ term.next \in 1 .. MaxData + 2
  /\ Range(term.queue) \union Range(term.flight) \subseteq Records
  /\ Cardinality(Seqs(term.queue \o term.flight)) = Len(term.queue \o term.flight)
  /\ spawning \in 0 .. MaxDoc
  /\ asking \in [gen : 0 .. MaxGen, doc : 0 .. MaxDoc]
  /\ view.doc \in 1 .. doc /\ view.pane \in 0 .. MaxGen /\ view.fence \in 0 .. MaxGen
  /\ view.stage \in {"loaded", "asked", "listed"} /\ view.ledger \in Ledger
  /\ \A m \in Range(push) : m.kind \in {"list", "record"} /\ m.rec \in Records
  /\ \A m \in Range(up) : m.kind \in {"boot", "ready", "ack", "close"} /\ m.doc \in 1 .. doc
  /\ pushes \in 0 .. MaxPushes

(* A record in flight to a document that runs is on its way to it, waits   *)
(* in its terminal view, or its acknowledgement is on its way back: no     *)
(* hydration, roster push or close leaves one that nobody will acknowledge *)
(* (the PTY would stay paused).                                            *)
Carried ==
  (view.alive /\ view.doc = doc /\ term.live) =>
    \A r \in Range(term.flight) :
      \/ \E m \in Range(push) : m.kind = "record" /\ m.gen = term.gen /\ m.rec = r
      \/ [gen |-> term.gen, seq |-> r.seq] \in Range(view.writes)
      \/ \E m \in Range(up) : m.kind = "ack" /\ m.gen = term.gen /\ m.seq = r.seq /\ m.doc = doc

(* Main forgets a record only after a terminal view has consumed it, the   *)
(* acknowledgement of a duplicate included (onPtyData, pty:ack).           *)
RetiredWasShown == hist.retired \subseteq hist.shown

Outstanding(s) == term.live /\ term.hydrated /\ s \in Seqs(term.queue \o term.flight)

(* Every record of a hydrated terminal is retired, unless the document is  *)
(* replaced or the terminal closed or released first.                      *)
Delivers == \A s \in 1 .. MaxData + 1 : Outstanding(s) ~> ~Outstanding(s)

Quiet ==
  /\ view.alive /\ view.doc = doc /\ ready /\ spawning = 0 /\ asking = NotAsking
  /\ push = <<>> /\ up = <<>> /\ replies = {}

(* "Terminal views rebuild from main-owned state"                          *)
(* (docs/reference/USER-GUIDE.md:813): with nothing under way, the running *)
(* document shows the terminals main lists.  The code does not keep it.    *)
RosterAgrees == Quiet => view.pane = Listed(term)
=============================================================================
