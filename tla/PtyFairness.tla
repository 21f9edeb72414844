----------------------------- MODULE PtyFairness -----------------------------
(***************************************************************************)
(* Who is served by the frames of PtyEgressScheduler.pump() when every     *)
(* terminal may have output again at any time (electron/pty-egress.ts).    *)
(* PtyEgress models what happens to the records; here only the size of the *)
(* head record of each terminal is kept, so that output need not end.      *)
(* All terminals are registered and hydrated and the document is ready.    *)
(***************************************************************************)
EXTENDS Naturals, FiniteSets

CONSTANTS
  Count,       \* number of terminals in `order'
  ChunkBytes,  \* largest record
  BatchBytes,  \* batchBytes
  BatchChunks  \* batchChunks, all four positive

VARIABLES
  head,     \* bytes of the head record of each terminal, 0 when it has none
  cursor,   \* where the next pick starts
  pumping,  \* a frame is being filled
  sent,     \* sentTerminals: served in this frame
  sentBytes

vars == <<head, cursor, pumping, sent, sentBytes>>

Places == 0 .. Count - 1

Init ==
  /\ head = [i \in Places |-> 0]
  /\ cursor = 0
  /\ pumping = FALSE /\ sent = {} /\ sentBytes = 0

\* The source of a terminal produces, and it is acknowledged meanwhile.
Produce(i, n) ==
  /\ ~pumping /\ head[i] = 0
  /\ head' = [head EXCEPT ![i] = n]
  /\ UNCHANGED <<cursor, pumping, sent, sentBytes>>

\* The frame timer fires.
StartFrame ==
  /\ ~pumping /\ \E i \in Places : head[i] > 0
  /\ pumping' = TRUE /\ sent' = {} /\ sentBytes' = 0
  /\ UNCHANGED <<head, cursor>>

Offers(i) == head[i] > 0 /\ i \notin sent

\* The first terminal with output from the cursor on that this frame has not served.
NextQueued(i) ==
  /\ Offers(i)
  /\ \A j \in Places : Offers(j) => (i + Count - cursor) % Count <= (j + Count - cursor) % Count

\* Mutant: every frame starts from the same terminal.
AfterNone(i) == cursor

\* The pick itself moves the cursor past the terminal.
After(i) == (i + 1) % Count

Room == Cardinality(sent) < BatchChunks
\* Mutant: the byte budget is asked of the first record too.
FitsStrictly(i) == sentBytes + head[i] <= BatchBytes

\* The byte budget; a frame takes its first record whatever its size.
Fits(i) == sent = {} \/ sentBytes + head[i] <= BatchBytes

Send(i) ==
  /\ pumping /\ Room /\ NextQueued(i) /\ Fits(i)
  /\ cursor' = After(i)
  /\ head' = [head EXCEPT ![i] = 0]
  /\ sent' = sent \cup {i} /\ sentBytes' = sentBytes + head[i]
  /\ UNCHANGED pumping

\* The record is put back and the frame ends; the cursor has already moved.
PutBack(i) ==
  /\ pumping /\ Room /\ NextQueued(i) /\ ~Fits(i)
  /\ cursor' = After(i)
  /\ pumping' = FALSE
  /\ UNCHANGED <<head, sent, sentBytes>>

EndFrame ==
  /\ pumping /\ (~Room \/ ~\E i \in Places : Offers(i))
  /\ pumping' = FALSE
  /\ UNCHANGED <<head, cursor, sent, sentBytes>>

Fill == EndFrame \/ \E i \in Places : Send(i) \/ PutBack(i)

Next == StartFrame \/ Fill \/ \E i \in Places, n \in 1 .. ChunkBytes : Produce(i, n)

\* Frames run to their end, and the timer fires while there is output.
Spec == Init /\ [][Next]_vars /\ WF_vars(StartFrame) /\ WF_vars(Fill)

-----------------------------------------------------------------------------
(* Properties *)

\* A frame that was started serves someone: a record larger than the whole
\* budget must not end frame after frame with nothing sent.
FrameServes == [][pumping /\ ~pumping' => sent # {}]_vars

\* The round robin comes to every terminal with output, whatever the others
\* produce: its record is sent, or was the one that ended a frame.
EveryTerminalPicked ==
  \A i \in Places : head[i] > 0 ~> (head[i] = 0 \/ cursor = (i + 1) % Count)

\* "Fair": output that can be delivered is sent, whatever the others produce.
EveryTerminalServed == \A i \in Places : head[i] > 0 ~> head[i] = 0
=============================================================================
