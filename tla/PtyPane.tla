------------------------------ MODULE PtyPane ------------------------------
(***************************************************************************)
(* What the running document shows of one terminal id, whatever the main   *)
(* process, the pushes and the replies between them do (PtyDelivery): the  *)
(* records of one life as one run, and a closed pane never again.          *)
(***************************************************************************)
EXTENDS Integers, Sequences, SequencesExt

VARIABLES
  term,       \* the terminal and its egress queue
  view,       \* the document that runs in the renderer
  hist        \* history: the records of this life consumed and retired, the life closed last

Seqs(s) == {s[i].seq : i \in DOMAIN s}

\* The pane shows, or is about to, the records from `first` on: its writes are
\* the last ones, behind b of earlier lives.
Shows(first, b) ==
  /\ \A i \in DOMAIN view.writes : view.writes[i].gen = view.pane <=> i > b
  /\ \A i \in DOMAIN view.shown : view.shown[i] = first + i - 1
  /\ \A i \in DOMAIN view.writes : i > b => view.writes[i].seq = first + Len(view.shown) + (i - b) - 1

(* What one document shows of one life of a terminal is a run of its       *)
(* records with no hole and no repeat, and everything before the run was   *)
(* retired by an earlier document: a reload loses nothing and shows        *)
(* nothing twice (src/pty-sequence-ledger.ts, onPtyData, replayInFlight).  *)
OneRun ==
  \E first \in {1} \union Range(view.shown) \union Seqs(view.writes), b \in 0 .. Len(view.writes) :
    /\ Shows(first, b)
    /\ term.live /\ view.pane = term.gen => 1 .. first - 1 \subseteq hist.retired

(* A pane the user closed does not come back with a roster push that was   *)
(* queued before the close (closingPanes, onInstances).                    *)
ClosedStaysClosed == view.pane = 0 \/ view.pane > hist.closed
=============================================================================
