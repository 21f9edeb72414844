--------------------------- MODULE PtyEgressProofs ---------------------------
(***************************************************************************)
(* The safety properties of PtyEgress, for every set of terminals, every   *)
(* bound and every water mark the constructor accepts.  First what each    *)
(* method of PtyEgressScheduler does to the queue of one terminal (it      *)
(* preserves QueueOK), with the facts about sequences and records this     *)
(* rests on; then the inductive invariant, which joins the queues with the *)
(* renderer gate and with the pump; then what a step leaves of the records *)
(* already sent.                                                           *)
(*                                                                         *)
(* The second half is about PtyDelivery (the instance D): a pane that was  *)
(* closed stays closed, and a document shows the records of a life as one  *)
(* run.                                                                    *)
(***************************************************************************)
EXTENDS PtyEgress, PtyPane, SequenceTheorems, WellFoundedInduction, TLAPS

-----------------------------------------------------------------------------
(* Sequences *)

(* Removing one position keeps the others in their order.                  *)
LEMMA RemoveAtProperties ==
  ASSUME NEW S, NEW s \in Seq(S), NEW i \in 1 .. Len(s)
  PROVE  /\ RemoveAt(s, i) \in Seq(S)
         /\ Len(RemoveAt(s, i)) = Len(s) - 1
         /\ \A j \in 1 .. Len(s) - 1 :
              RemoveAt(s, i)[j] = IF j < i THEN s[j] ELSE s[j + 1]
<1> DEFINE a == SubSeq(s, 1, i - 1)
           b == SubSeq(s, i + 1, Len(s))
<1>1. Len(s) \in Nat /\ \A j \in 1 .. Len(s) : s[j] \in S
  BY LenProperties, ElementOfSeq
<1>2. a \in Seq(S) /\ Len(a) = i - 1 /\ \A j \in 1 .. i - 1 : a[j] = s[j]
  <2>1. \A j \in 1 .. i - 1 : s[j] \in S
    BY <1>1
  <2>2. /\ a \in Seq(S)
        /\ Len(a) = IF 1 <= i - 1 THEN (i - 1) - 1 + 1 ELSE 0
        /\ \A j \in 1 .. (i - 1) - 1 + 1 : a[j] = s[1 + j - 1]
    BY <1>1, <2>1, SubSeqProperties
  <2> QED BY <1>1, <2>2
<1>3. b \in Seq(S) /\ Len(b) = Len(s) - i /\ \A j \in 1 .. Len(s) - i : b[j] = s[i + j]
  <2>1. \A j \in i + 1 .. Len(s) : s[j] \in S
    BY <1>1
  <2>2. /\ b \in Seq(S)
        /\ Len(b) = IF i + 1 <= Len(s) THEN Len(s) - (i + 1) + 1 ELSE 0
        /\ \A j \in 1 .. Len(s) - (i + 1) + 1 : b[j] = s[(i + 1) + j - 1]
    BY <1>1, <2>1, SubSeqProperties
  <2> QED BY <1>1, <2>2
<1>4. /\ a \o b \in Seq(S) /\ Len(a \o b) = Len(a) + Len(b)
      /\ \A j \in 1 .. Len(a) + Len(b) :
           (a \o b)[j] = IF j <= Len(a) THEN a[j] ELSE b[j - Len(a)]
  BY <1>2, <1>3, ConcatProperties
<1> HIDE DEF a, b
<1>5. Len(a) + Len(b) = Len(s) - 1
  BY <1>1, <1>2, <1>3
<1>6. ASSUME NEW j \in 1 .. Len(s) - 1
      PROVE  (a \o b)[j] = IF j < i THEN s[j] ELSE s[j + 1]
  <2>1. (a \o b)[j] = IF j <= i - 1 THEN a[j] ELSE b[j - (i - 1)]
    BY <1>2, <1>4, <1>5
  <2>2. CASE j < i
    <3>1. j \in 1 .. i - 1 /\ j <= i - 1
      BY <1>1, <2>2
    <3> QED BY <1>2, <2>1, <2>2, <3>1
  <2>3. CASE ~(j < i)
    <3>1. j - (i - 1) \in 1 .. Len(s) - i /\ ~(j <= i - 1) /\ i + (j - (i - 1)) = j + 1
      BY <1>1, <2>3
    <3> QED BY <1>3, <2>1, <2>3, <3>1
  <2> QED BY <2>2, <2>3
<1> QED BY <1>4, <1>5, <1>6 DEF RemoveAt, a, b

(* Appending adds exactly the appended element.                            *)
LEMMA RangeAppend ==
  ASSUME NEW S, NEW s \in Seq(S), NEW e \in S
  PROVE  Range(Append(s, e)) = Range(s) \cup {e}
<1>1. /\ Append(s, e) \in Seq(S) /\ Len(Append(s, e)) = Len(s) + 1 /\ Len(s) \in Nat
      /\ \A i \in 1 .. Len(s) : Append(s, e)[i] = s[i]
      /\ Append(s, e)[Len(s) + 1] = e
  BY AppendProperties, LenProperties
<1>2. Range(s) = {s[i] : i \in 1 .. Len(s)}
  BY RangeEquality
<1>3. Range(Append(s, e)) = {Append(s, e)[i] : i \in 1 .. Len(s) + 1}
  BY <1>1, RangeEquality
<1>4. \A i \in 1 .. Len(s) + 1 : i \in 1 .. Len(s) \/ i = Len(s) + 1
  BY <1>1
<1>5. 1 .. Len(s) \subseteq 1 .. Len(s) + 1 /\ Len(s) + 1 \in 1 .. Len(s) + 1
  BY <1>1
<1> HIDE DEF Range
<1> QED BY <1>1, <1>2, <1>3, <1>4, <1>5, Z3

(* Removing the head leaves the head and the rest as the elements.         *)
LEMMA RangeTail ==
  ASSUME NEW S, NEW s \in Seq(S), s # <<>>
  PROVE  Range(s) = {Head(s)} \cup Range(Tail(s))
<1>1. /\ Tail(s) \in Seq(S) /\ Len(Tail(s)) = Len(s) - 1 /\ Len(s) \in Nat \ {0}
      /\ \A i \in 1 .. Len(s) - 1 : Tail(s)[i] = s[i + 1]
  BY HeadTailProperties, EmptySeq
<1>2. Head(s) = s[1]
  OBVIOUS
<1>3. Range(s) = {s[i] : i \in 1 .. Len(s)}
  BY RangeEquality
<1>4. Range(Tail(s)) = {Tail(s)[i] : i \in 1 .. Len(s) - 1}
  BY <1>1, RangeEquality
<1>5. ASSUME NEW i \in 1 .. Len(s)
      PROVE  i = 1 \/ (i - 1 \in 1 .. Len(s) - 1 /\ s[i] = Tail(s)[i - 1])
  BY <1>1
<1>6. \A i \in 1 .. Len(s) - 1 : i + 1 \in 1 .. Len(s)
  BY <1>1
<1>7. 1 \in 1 .. Len(s)
  BY <1>1
<1>8. Range(s) \subseteq {Head(s)} \cup Range(Tail(s))
  BY <1>2, <1>3, <1>4, <1>5, ZenonT(60)
<1>9. {Head(s)} \cup Range(Tail(s)) \subseteq Range(s)
  BY <1>1, <1>2, <1>3, <1>4, <1>6, <1>7
<1> QED BY <1>8, <1>9

(* What acknowledging one of several in-flight records leaves behind.      *)
LEMMA RangeRemoveAt ==
  ASSUME NEW S, NEW s \in Seq(S), NEW i \in 1 .. Len(s),
         \A j \in 1 .. Len(s) : j # i => s[j] # s[i]
  PROVE  Range(RemoveAt(s, i)) = Range(s) \ {s[i]}
<1> DEFINE w == RemoveAt(s, i)
<1>1. /\ w \in Seq(S) /\ Len(w) = Len(s) - 1 /\ Len(s) \in Nat
      /\ \A j \in 1 .. Len(s) - 1 : w[j] = IF j < i THEN s[j] ELSE s[j + 1]
  BY RemoveAtProperties, LenProperties
<1> HIDE DEF w
<1>2. Range(s) = {s[j] : j \in 1 .. Len(s)} /\ Range(w) = {w[j] : j \in 1 .. Len(s) - 1}
  BY <1>1, RangeEquality
<1>3. ASSUME NEW j \in 1 .. Len(s) - 1
      PROVE  w[j] \in Range(s) \ {s[i]}
  <2>1. CASE j < i
    BY <1>1, <1>2, <2>1
  <2>2. CASE ~(j < i)
    BY <1>1, <1>2, <2>2
  <2> QED BY <2>1, <2>2
<1>4. ASSUME NEW j \in 1 .. Len(s), j # i
      PROVE  s[j] \in Range(w)
  <2>1. CASE j < i
    <3>1. j \in 1 .. Len(s) - 1 /\ w[j] = s[j]
      BY <1>1, <2>1
    <3> QED BY <1>2, <3>1
  <2>2. CASE i < j
    <3>1. j - 1 \in 1 .. Len(s) - 1 /\ w[j - 1] = s[j]
      BY <1>1, <2>2
    <3> QED BY <1>2, <3>1
  <2> QED BY <1>1, <1>4, <2>1, <2>2
<1> QED BY <1>2, <1>3, <1>4 DEF w
(* What SMT needs of a sequence of records.                                *)
LEMMA SequenceFacts ==
  ASSUME NEW s \in Seq(Record)
  PROVE  /\ Len(s) \in Nat /\ DOMAIN s = 1 .. Len(s)
         /\ Range(s) \subseteq Record
         /\ \A i \in 1 .. Len(s) : s[i] \in Record /\ s[i] \in Range(s)
         /\ \A r \in Range(s) : \E i \in 1 .. Len(s) : r = s[i]
         /\ s = <<>> <=> Len(s) = 0
         /\ s = <<>> <=> Range(s) = {}
<1>1. Len(s) \in Nat /\ DOMAIN s = 1 .. Len(s) /\ \A i \in 1 .. Len(s) : s[i] \in Record
  BY LenProperties, ElementOfSeq
<1>2. Range(s) = {s[i] : i \in 1 .. Len(s)}
  BY RangeEquality
<1>3. s = <<>> <=> Len(s) = 0
  BY EmptySeq
<1>4. Len(s) = 0 <=> Range(s) = {}
  <2>1. CASE Len(s) = 0
    BY <1>2, <2>1
  <2>2. CASE Len(s) # 0
    <3>1. 1 \in 1 .. Len(s)
      BY <1>1, <2>2
    <3> QED BY <1>2, <2>2, <3>1
  <2> QED BY <2>1, <2>2
<1> QED BY <1>1, <1>2, <1>3, <1>4

(* Sequence order survives each way the scheduler moves records.           *)
LEMMA AscendingAppend ==
  ASSUME NEW s \in Seq(Record), NEW e \in Record, Ascending(s),
         \A r \in Range(s) : r.seq < e.seq
  PROVE  Ascending(Append(s, e))
<1> DEFINE w == Append(s, e)
<1>1. /\ w \in Seq(Record) /\ Len(w) = Len(s) + 1 /\ Len(s) \in Nat
      /\ DOMAIN s = 1 .. Len(s)
      /\ \A i \in 1 .. Len(s) : w[i] = s[i] /\ s[i] \in Range(s)
      /\ w[Len(s) + 1] = e
  BY AppendProperties, SequenceFacts
<1> HIDE DEF w
<1>2. DOMAIN w = 1 .. Len(s) + 1
  BY <1>1, SequenceFacts
<1>3. ASSUME NEW i \in 1 .. Len(s) + 1, NEW j \in 1 .. Len(s) + 1, i < j
      PROVE  w[i].seq < w[j].seq
  <2>1. i \in 1 .. Len(s)
    BY <1>1, <1>3
  <2>2. CASE j = Len(s) + 1
    BY <1>1, <2>1, <2>2
  <2>3. CASE j # Len(s) + 1
    <3>1. j \in 1 .. Len(s)
      BY <1>1, <2>3
    <3> QED BY <1>1, <1>3, <2>1, <3>1 DEF Ascending
  <2> QED BY <2>2, <2>3
<1> QED BY <1>2, <1>3 DEF Ascending, w

(* The tail of an ascending sequence ascends, above its old head.          *)
LEMMA AscendingTail ==
  ASSUME NEW s \in Seq(Record), Ascending(s), s # <<>>
  PROVE  /\ Ascending(Tail(s))
         /\ \A r \in Range(Tail(s)) : Head(s).seq < r.seq
<1> DEFINE w == Tail(s)
<1>1. /\ w \in Seq(Record) /\ Len(w) = Len(s) - 1 /\ Len(s) \in Nat \ {0}
      /\ DOMAIN s = 1 .. Len(s)
      /\ \A i \in 1 .. Len(s) - 1 : w[i] = s[i + 1]
  BY HeadTailProperties, SequenceFacts
<1>2. Head(s) = s[1]
  OBVIOUS
<1> HIDE DEF w
<1>3. DOMAIN w = 1 .. Len(s) - 1
  BY <1>1, SequenceFacts
<1>4. ASSUME NEW i \in 1 .. Len(s) - 1, NEW j \in 1 .. Len(s) - 1, i < j
      PROVE  w[i].seq < w[j].seq
  <2>1. i + 1 \in DOMAIN s /\ j + 1 \in DOMAIN s /\ i + 1 < j + 1
    BY <1>1, <1>4
  <2> QED BY <1>1, <2>1 DEF Ascending
<1>5. ASSUME NEW r \in Range(w)
      PROVE  Head(s).seq < r.seq
  <2>1. PICK i \in 1 .. Len(s) - 1 : r = w[i]
    BY <1>1, SequenceFacts
  <2>2. 1 \in DOMAIN s /\ i + 1 \in DOMAIN s /\ 1 < i + 1
    BY <1>1
  <2> QED BY <1>1, <1>2, <2>1, <2>2 DEF Ascending
<1> QED BY <1>3, <1>4, <1>5 DEF Ascending, w

(* Removing one position keeps a sequence ascending.                       *)
LEMMA AscendingRemoveAt ==
  ASSUME NEW s \in Seq(Record), Ascending(s), NEW i \in 1 .. Len(s)
  PROVE  Ascending(RemoveAt(s, i))
<1> DEFINE w == RemoveAt(s, i)
<1>1. /\ w \in Seq(Record) /\ Len(w) = Len(s) - 1 /\ Len(s) \in Nat
      /\ DOMAIN s = 1 .. Len(s)
      /\ \A j \in 1 .. Len(s) - 1 : w[j] = IF j < i THEN s[j] ELSE s[j + 1]
  BY RemoveAtProperties, SequenceFacts
<1> HIDE DEF w
<1>2. DOMAIN w = 1 .. Len(s) - 1
  BY <1>1, SequenceFacts
<1>3. ASSUME NEW j \in 1 .. Len(s) - 1, NEW k \in 1 .. Len(s) - 1, j < k
      PROVE  w[j].seq < w[k].seq
  <2> DEFINE a == IF j < i THEN j ELSE j + 1
             b == IF k < i THEN k ELSE k + 1
  <2>1. a \in DOMAIN s /\ b \in DOMAIN s /\ a < b
    BY <1>1, <1>3
  <2>2. w[j] = s[a] /\ w[k] = s[b]
    BY <1>1
  <2> QED BY <2>1, <2>2 DEF Ascending
<1> QED BY <1>2, <1>3 DEF Ascending, w

(* Ascending sequences concatenate when the first lies below the second.   *)
LEMMA AscendingConcat ==
  ASSUME NEW s \in Seq(Record), NEW u \in Seq(Record), Ascending(s), Ascending(u),
         \A r \in Range(s), e \in Range(u) : r.seq < e.seq
  PROVE  Ascending(s \o u)
<1> DEFINE w == s \o u
<1>1. /\ w \in Seq(Record) /\ Len(w) = Len(s) + Len(u)
      /\ \A i \in 1 .. Len(s) + Len(u) : w[i] = IF i <= Len(s) THEN s[i] ELSE u[i - Len(s)]
  BY ConcatProperties
<1>2. /\ Len(s) \in Nat /\ Len(u) \in Nat /\ DOMAIN s = 1 .. Len(s) /\ DOMAIN u = 1 .. Len(u)
      /\ \A i \in 1 .. Len(s) : s[i] \in Range(s)
      /\ \A i \in 1 .. Len(u) : u[i] \in Range(u)
  BY SequenceFacts
<1> HIDE DEF w
<1>3. DOMAIN w = 1 .. Len(s) + Len(u)
  BY <1>1, SequenceFacts
<1>4. ASSUME NEW i \in 1 .. Len(s) + Len(u), NEW j \in 1 .. Len(s) + Len(u), i < j
      PROVE  w[i].seq < w[j].seq
  <2>1. CASE j <= Len(s)
    <3>1. i \in DOMAIN s /\ j \in DOMAIN s /\ i <= Len(s)
      BY <1>2, <1>4, <2>1
    <3>2. w[i] = s[i] /\ w[j] = s[j]
      BY <1>1, <2>1, <3>1
    <3> QED BY <1>4, <3>1, <3>2 DEF Ascending
  <2>2. CASE i > Len(s)
    <3>1. i - Len(s) \in DOMAIN u /\ j - Len(s) \in DOMAIN u /\ i - Len(s) < j - Len(s)
      BY <1>2, <1>4, <2>2
    <3>2. u[i - Len(s)].seq < u[j - Len(s)].seq
      BY <3>1 DEF Ascending
    <3> QED BY <1>1, <1>2, <1>4, <2>2, <3>2
  <2>3. CASE i <= Len(s) /\ j > Len(s)
    <3>1. i \in 1 .. Len(s) /\ j - Len(s) \in 1 .. Len(u)
      BY <1>2, <2>3
    <3> QED BY <1>1, <1>2, <2>3, <3>1
  <2> QED BY <1>2, <2>1, <2>2, <2>3
<1> QED BY <1>3, <1>4 DEF Ascending, w

-----------------------------------------------------------------------------
(* The inductive invariant of one queue *)

SealedInFlight(q) == \A r \in Range(q.inFlight) : r.sealed

(* Only the last admitted record still grows.                              *)
OpenTail(q) ==
  q.chunks # <<>> =>
    LET tail == q.chunks[Len(q.chunks)] IN
    IsData(tail) /\ ~tail.sealed => tail.from + tail.bytes = q.produced

(* What holds of a queue even between an acknowledgement and the           *)
(* maybeFinishQueue that follows it.                                       *)
QueueOK(q) ==
  /\ q \in Queue
  /\ InOrder(q)
  /\ SealedInFlight(q) /\ OpenTail(q)
  /\ ~q.live => q.chunks = <<>> /\ q.inFlight = <<>>
  /\ q.live => /\ AllHeld(q) /\ q.verdict # "delivered"
               /\ \A r \in Held(q) : IsData(r) <=> ~q.exitQueued
  /\ q.exitQueued => q.closing
  /\ q.verdict = "delivered" => q.acked = 1 .. q.produced
  /\ BelowHighWater(q)

Closing(q) == q.live /\ q.closing => Held(q) # {}

(* What the water marks the constructor accepts satisfy.                   *)
LEMMA Constants ==
  /\ ChunkBytes \in Nat /\ MaxBytes \in Nat /\ MaxChunks \in Nat /\ LowBytes \in Nat
  /\ LowChunks \in Nat /\ LowBytes < MaxBytes /\ LowChunks < MaxChunks
  /\ ChunkBytes + LowBytes <= MaxBytes /\ MaxChunks > 0
  BY WaterMarks

(* A function on the fields of a queue with values in their types.         *)
LEMMA QueueUpdate ==
  ASSUME NEW q \in Queue, NEW n, n = [f \in DOMAIN q |-> n[f]],
         n.live \in BOOLEAN, n.gen \in Nat, n.chunks \in Seq(Record), n.queuedBytes \in Int,
         n.inFlight \in Seq(Record), n.inFlightBytes \in Int, n.next \in Nat,
         n.paused \in BOOLEAN, n.closing \in BOOLEAN, n.hydrated \in BOOLEAN,
         n.exitQueued \in BOOLEAN,
         n.verdict \in {"none", "pending", "delivered", "abandoned", "timeout"},
         n.produced \in Nat, n.acked \in SUBSET Nat
  PROVE  n \in Queue
  BY SMT DEF Queue

(* The types of the fields of a queue.                                     *)
LEMMA QueueFields ==
  ASSUME NEW q \in Queue
  PROVE  /\ q.live \in BOOLEAN /\ q.gen \in Nat /\ q.chunks \in Seq(Record)
         /\ q.queuedBytes \in Int /\ q.inFlight \in Seq(Record) /\ q.inFlightBytes \in Int
         /\ q.next \in Nat /\ q.paused \in BOOLEAN /\ q.closing \in BOOLEAN
         /\ q.hydrated \in BOOLEAN /\ q.exitQueued \in BOOLEAN
         /\ q.verdict \in {"none", "pending", "delivered", "abandoned", "timeout"}
         /\ q.produced \in Nat /\ q.acked \in SUBSET Nat
  BY DEF Queue

(* Sorting a sequence that is already in sequence order loses no record    *)
(* and leaves it in order.                                                 *)
LEMMA BySequenceProperties ==
  ASSUME NEW s \in Seq(Record), Ascending(s)
  PROVE  /\ BySequence(s) \in Seq(Record) /\ Len(BySequence(s)) = Len(s)
         /\ Range(BySequence(s)) = Range(s) /\ Ascending(BySequence(s))
<1> DEFINE Sorts(p) == Range(p) = Range(s) /\ Ascending(p)
           w == BySequence(s)
<1>1. s \in [1 .. Len(s) -> Range(s)] /\ Len(s) \in Nat
  BY SequenceFacts
<1>2. \E p \in [1 .. Len(s) -> Range(s)] : Sorts(p)
  BY <1>1
<1>3. w = CHOOSE p \in [1 .. Len(s) -> Range(s)] : Sorts(p)
  BY DEF BySequence
<1> HIDE DEF Sorts, w
<1>4. w \in [1 .. Len(s) -> Range(s)] /\ Sorts(w)
  BY <1>2, <1>3
<1>5. Range(s) \subseteq Record
  BY SequenceFacts
<1>6. w \in [1 .. Len(s) -> Record]
  BY <1>4, <1>5
<1>7. w \in Seq(Record) /\ Len(w) = Len(s)
  <2>1. w \in Seq(Record)
    BY <1>1, <1>6, SeqDef
  <2>2. DOMAIN w = 1 .. Len(w) /\ Len(w) \in Nat
    BY <2>1, LenProperties
  <2> QED BY <1>1, <1>6, <2>1, <2>2
<1> QED BY <1>4, <1>7 DEF Sorts, w

(* replayInFlight keeps the queue invariant and the records held.          *)
LEMMA ReplayedOK ==
  ASSUME NEW q, QueueOK(q)
  PROVE  /\ QueueOK(Replayed(q))
         /\ Held(Replayed(q)) = Held(q) /\ Replayed(q).inFlight = <<>>
<1> DEFINE w == BySequence(q.inFlight)
           n == Replayed(q)
           f == q.inFlight
           c == q.chunks
<1>1. q \in Queue /\ f \in Seq(Record) /\ c \in Seq(Record) /\ InOrder(q)
  BY DEF QueueOK, Queue
<1>2. /\ w \in Seq(Record) /\ Len(w) = Len(f) /\ Range(w) = Range(f) /\ Ascending(w)
  BY <1>1, BySequenceProperties DEF InOrder
<1> HIDE DEF w
<1>3. /\ w \o c \in Seq(Record) /\ Len(w \o c) = Len(w) + Len(c)
      /\ \A i \in 1 .. Len(w) + Len(c) :
           (w \o c)[i] = IF i <= Len(w) THEN w[i] ELSE c[i - Len(w)]
  BY <1>1, <1>2, ConcatProperties
<1>4. Range(w \o c) = Range(f) \cup Range(c)
  BY <1>1, <1>2, RangeConcatenation
<1>5. n = [q EXCEPT !.inFlight = <<>>, !.inFlightBytes = 0, !.chunks = w \o c,
                    !.queuedBytes = q.queuedBytes + q.inFlightBytes]
  BY DEF Replayed, w
<1>6. /\ n \in Queue /\ n.inFlight = <<>> /\ n.chunks = w \o c
      /\ n.queuedBytes = q.queuedBytes + q.inFlightBytes /\ n.inFlightBytes = 0
      /\ n.live = q.live /\ n.next = q.next /\ n.produced = q.produced
      /\ n.acked = q.acked /\ n.verdict = q.verdict /\ n.closing = q.closing
      /\ n.exitQueued = q.exitQueued
  <2>1. q \in Queue /\ <<>> \in Seq(Record) /\ w \o c \in Seq(Record)
    BY <1>1, <1>3, EmptySeq
  <2>2. q.queuedBytes + q.inFlightBytes \in Int
    BY <2>1, QueueFields
  <2> HIDE DEF n
  <2>4. /\ n.inFlight = <<>> /\ n.chunks = w \o c
        /\ n.queuedBytes = q.queuedBytes + q.inFlightBytes /\ n.inFlightBytes = 0
    BY <1>5, <2>1 DEF Queue
  <2>5. /\ n.live = q.live /\ n.next = q.next /\ n.produced = q.produced
        /\ n.acked = q.acked /\ n.verdict = q.verdict /\ n.closing = q.closing
        /\ n.exitQueued = q.exitQueued
    BY <1>5, <2>1 DEF Queue
  <2>6. n.gen = q.gen /\ n.paused = q.paused /\ n.hydrated = q.hydrated
    BY <1>5, <2>1 DEF Queue
  <2>7. n = [x \in DOMAIN q |-> n[x]]
    BY <1>5, <2>1, Zenon DEF Queue
  <2>8. n \in Queue
    <3>1. /\ n.chunks \in Seq(Record) /\ n.inFlight \in Seq(Record)
          /\ n.queuedBytes \in Int /\ n.inFlightBytes \in Int
      BY <2>1, <2>2, <2>4
    <3>2. /\ n.live \in BOOLEAN /\ n.gen \in Nat /\ n.next \in Nat /\ n.produced \in Nat
          /\ n.acked \in SUBSET Nat /\ n.closing \in BOOLEAN /\ n.paused \in BOOLEAN
          /\ n.exitQueued \in BOOLEAN /\ n.hydrated \in BOOLEAN
          /\ n.verdict \in {"none", "pending", "delivered", "abandoned", "timeout"}
      BY <2>1, <2>5, <2>6, QueueFields
    <3> QED BY <2>1, <2>7, <3>1, <3>2, QueueUpdate
  <2> QED BY <2>4, <2>5, <2>8
<1> HIDE DEF n
<1>7. Range(<<>>) = {}
  BY DEF Range
<1>8. Held(n) = Held(q)
  BY <1>4, <1>6, <1>7 DEF Held
<1>9. InOrder(n)
  <2>1. Ascending(w \o c)
    BY <1>1, <1>2, AscendingConcat DEF InOrder
  <2>2. Ascending(<<>>)
    BY DEF Ascending
  <2>3. \A r \in Held(n) : r.seq < n.next
    BY <1>1, <1>6, <1>8 DEF InOrder
  <2> QED BY <1>6, <1>7, <2>1, <2>2, <2>3 DEF InOrder
<1>10. OpenTail(n)
  <2>1. CASE c = <<>>
    <3>1. w \o c = w
      BY <1>2, <2>1, ConcatEmptySeq
    <3>2. \A r \in Range(w) : r.sealed
      BY <1>2 DEF QueueOK, SealedInFlight
    <3>3. w # <<>> => w[Len(w)] \in Range(w)
      <4>1. w # <<>> => Len(w) \in 1 .. Len(w)
        BY <1>2, SequenceFacts
      <4> QED BY <1>2, <4>1, SequenceFacts
    <3> QED BY <1>6, <3>1, <3>2, <3>3 DEF OpenTail
  <2>2. CASE c # <<>>
    <3>1. Len(w) \in Nat /\ Len(c) \in Nat /\ Len(c) # 0
      BY <1>1, <1>2, <2>2, SequenceFacts
    <3>2. Len(w) + Len(c) \in 1 .. Len(w) + Len(c) /\ ~(Len(w) + Len(c) <= Len(w))
          /\ (Len(w) + Len(c)) - Len(w) = Len(c)
      BY <3>1
    <3>3. (w \o c)[Len(w \o c)] = c[Len(c)]
      BY <1>3, <3>2
    <3> QED BY <1>6, <2>2, <3>3 DEF OpenTail, QueueOK
  <2> QED BY <2>1, <2>2
<1>11. BelowHighWater(n)
  <2>1. Len(w) \in Nat /\ Len(c) \in Nat /\ Len(f) \in Nat /\ Len(<<>>) = 0
    BY <1>1, <1>2, SequenceFacts, EmptySeq
  <2>2. RetainedChunks(n) = RetainedChunks(q)
    <3>1. RetainedChunks(n) = Len(w \o c) + Len(<<>>)
      BY <1>6 DEF RetainedChunks
    <3>2. RetainedChunks(q) = Len(c) + Len(f)
      BY DEF RetainedChunks
    <3> HIDE DEF c, f
    <3> QED BY <1>2, <1>3, <2>1, <3>1, <3>2
  <2>3. RetainedBytes(n) = RetainedBytes(q)
    BY <1>1, <1>6 DEF RetainedBytes, Queue
  <2> QED BY <1>6, <2>2, <2>3 DEF BelowHighWater, QueueOK
<1>12. ~n.live => n.chunks = <<>> /\ n.inFlight = <<>>
  <2>1. ~q.live => c = <<>> /\ Range(f) = {}
    BY <1>1, SequenceFacts DEF QueueOK
  <2>2. ~q.live => Range(w \o c) = {}
    BY <1>4, <2>1, <1>7
  <2> QED BY <1>3, <1>6, <2>2, SequenceFacts
<1>13. n.live => AllHeld(n) /\ n.verdict # "delivered" /\ \A r \in Held(n) : IsData(r) <=> ~n.exitQueued
  BY <1>6, <1>8 DEF QueueOK, AllHeld, Partitions
<1>14. SealedInFlight(n)
  BY <1>6, <1>7 DEF SealedInFlight
<1>15. /\ n.exitQueued => n.closing
       /\ n.verdict = "delivered" => n.acked = 1 .. n.produced
  BY <1>6 DEF QueueOK
<1>16. QueueOK(n)
  BY <1>6, <1>9, <1>10, <1>11, <1>12, <1>13, <1>14, <1>15 DEF QueueOK
<1> QED BY <1>6, <1>8, <1>16 DEF n

(* What a queue retains, counted and as a set of records.                  *)
LEMMA Retention ==
  ASSUME NEW q, QueueOK(q), NEW n, NEW c \in Seq(Record), NEW f \in Seq(Record),
         n.chunks = c, n.inFlight = f
  PROVE  /\ RetainedChunks(n) = Len(c) + Len(f) /\ RetainedChunks(n) \in Nat
         /\ RetainedBytes(q) \in Int
         /\ RetainedChunks(n) = 0 <=> Held(n) = {}
<1>1. Len(c) \in Nat /\ Len(f) \in Nat
      /\ (Len(c) = 0 <=> Range(c) = {}) /\ (Len(f) = 0 <=> Range(f) = {})
  BY SequenceFacts
<1>2. RetainedChunks(n) = Len(c) + Len(f)
  BY DEF RetainedChunks
<1>3. RetainedBytes(q) \in Int
  <2>1. q.queuedBytes \in Int /\ q.inFlightBytes \in Int
    BY QueueFields DEF QueueOK
  <2> QED BY <2>1 DEF RetainedBytes
<1>4. Held(n) = Range(f) \cup Range(c)
  BY DEF Held
<1>5. Len(c) + Len(f) = 0 <=> Len(c) = 0 /\ Len(f) = 0
  BY <1>1
<1>6. Held(n) = {} <=> Range(c) = {} /\ Range(f) = {}
  BY <1>4
<1> QED BY <1>1, <1>2, <1>3, <1>5, <1>6

(* Retaining no more than before stays below high water.                   *)
LEMMA HighWaterMonotone ==
  ASSUME NEW q, NEW n, BelowHighWater(q), n.exitQueued = q.exitQueued,
         RetainedBytes(q) \in Int, RetainedBytes(n) \in Int, RetainedBytes(n) <= RetainedBytes(q),
         RetainedChunks(q) \in Int, RetainedChunks(n) \in Int,
         RetainedChunks(n) <= RetainedChunks(q)
  PROVE  BelowHighWater(n)
<1> DEFINE bq == RetainedBytes(q)
           bn == RetainedBytes(n)
           cq == RetainedChunks(q)
           cn == RetainedChunks(n)
           mark == MaxChunks + (IF q.exitQueued THEN 1 ELSE 0)
<1>1. bq <= MaxBytes /\ cq <= mark /\ mark \in Int
  BY Constants DEF BelowHighWater
<1>2. BelowHighWater(n) <=> bn <= MaxBytes /\ cn <= mark
  BY DEF BelowHighWater
<1>3. bq \in Int /\ bn \in Int /\ cq \in Int /\ cn \in Int /\ bn <= bq /\ cn <= cq
  OBVIOUS
<1> HIDE DEF bq, bn, cq, cn, mark
<1> QED BY <1>1, <1>2, <1>3, Constants

(* Changing only flags, or resolving the waiter to anything but true,      *)
(* leaves the ledger as it was.                                            *)
LEMMA SameLedger ==
  ASSUME NEW q, QueueOK(q), NEW n \in Queue,
         n.chunks = q.chunks, n.inFlight = q.inFlight,
         n.queuedBytes = q.queuedBytes, n.inFlightBytes = q.inFlightBytes,
         n.next = q.next, n.produced = q.produced, n.acked = q.acked, n.live = q.live,
         n.exitQueued = q.exitQueued, q.closing => n.closing,
         n.verdict = q.verdict \/ n.verdict # "delivered"
  PROVE  /\ QueueOK(n) /\ Held(n) = Held(q)
         /\ RetainedBytes(n) = RetainedBytes(q) /\ RetainedChunks(n) = RetainedChunks(q)
<1>1. Held(n) = Held(q)
  BY DEF Held
<1>2. RetainedBytes(n) = RetainedBytes(q) /\ RetainedChunks(n) = RetainedChunks(q)
  BY DEF RetainedBytes, RetainedChunks
<1>3. InOrder(n)
  BY <1>1 DEF QueueOK, InOrder
<1>4. SealedInFlight(n) /\ OpenTail(n)
  BY DEF QueueOK, SealedInFlight, OpenTail
<1>5. BelowHighWater(n)
  BY <1>2 DEF QueueOK, BelowHighWater
<1>6. AllHeld(q) => AllHeld(n)
  BY <1>1 DEF AllHeld, Partitions
<1> QED BY <1>1, <1>2, <1>3, <1>4, <1>5, <1>6 DEF QueueOK

(* Pausing, resuming and hydrating leave the ledger alone.                 *)
LEMMA FlagsOK ==
  ASSUME NEW q, QueueOK(q), NEW b \in BOOLEAN
  PROVE  /\ LET n == [q EXCEPT !.paused = b] IN
              QueueOK(n) /\ Held(n) = Held(q) /\ n.live = q.live /\ n.closing = q.closing
              /\ n.inFlight = q.inFlight /\ n.chunks = q.chunks
              /\ n.hydrated = q.hydrated
              /\ RetainedBytes(n) = RetainedBytes(q) /\ RetainedChunks(n) = RetainedChunks(q)
         /\ LET n == [q EXCEPT !.hydrated = b] IN
              QueueOK(n) /\ Held(n) = Held(q) /\ n.live = q.live /\ n.closing = q.closing
              /\ n.inFlight = q.inFlight /\ n.chunks = q.chunks
              /\ n.hydrated = b
              /\ RetainedBytes(n) = RetainedBytes(q) /\ RetainedChunks(n) = RetainedChunks(q)
<1>1. q \in Queue
  BY DEF QueueOK
<1>2. ASSUME NEW n, n = [q EXCEPT !.paused = b] \/ n = [q EXCEPT !.hydrated = b]
      PROVE  /\ n \in Queue /\ n.chunks = q.chunks /\ n.inFlight = q.inFlight
             /\ n.queuedBytes = q.queuedBytes /\ n.inFlightBytes = q.inFlightBytes
             /\ n.next = q.next /\ n.produced = q.produced /\ n.acked = q.acked
             /\ n.live = q.live /\ n.exitQueued = q.exitQueued /\ n.closing = q.closing
             /\ n.verdict = q.verdict
  <2>1. CASE n = [q EXCEPT !.paused = b]
    BY <1>1, <2>1 DEF Queue
  <2>2. CASE n = [q EXCEPT !.hydrated = b]
    BY <1>1, <2>2 DEF Queue
  <2> QED BY <1>2, <2>1, <2>2
<1>3. ASSUME NEW n, n = [q EXCEPT !.paused = b] \/ n = [q EXCEPT !.hydrated = b]
      PROVE  /\ QueueOK(n) /\ Held(n) = Held(q)
             /\ RetainedBytes(n) = RetainedBytes(q) /\ RetainedChunks(n) = RetainedChunks(q)
  BY <1>2, <1>3, SameLedger
<1>4. [q EXCEPT !.paused = b].hydrated = q.hydrated /\ [q EXCEPT !.hydrated = b].hydrated = b
  BY <1>1 DEF Queue
<1> QED BY <1>2, <1>3, <1>4

(* maybeResumeSource leaves no resume owed.                                *)
LEMMA ResumedOK ==
  ASSUME NEW q, QueueOK(q), NEW rdy \in BOOLEAN
  PROVE  LET n == Resumed(q, rdy) IN
           /\ QueueOK(n) /\ Held(n) = Held(q) /\ n.live = q.live /\ n.closing = q.closing
           /\ n.inFlight = q.inFlight /\ n.chunks = q.chunks /\ n.hydrated = q.hydrated
           /\ ResumeOwed(n, rdy)
<1>1. CASE /\ q.paused /\ ~q.closing /\ CanDeliver(q, rdy)
           /\ RetainedBytes(q) <= LowBytes /\ RetainedChunks(q) <= LowChunks
  <2> DEFINE n == [q EXCEPT !.paused = FALSE]
  <2>1. Resumed(q, rdy) = n
    BY <1>1 DEF Resumed
  <2>2. ~n.paused
    <3>1. q \in Queue
      BY DEF QueueOK
    <3> QED BY <3>1 DEF Queue
  <2>3. /\ QueueOK(n) /\ Held(n) = Held(q) /\ n.live = q.live /\ n.closing = q.closing
        /\ n.inFlight = q.inFlight /\ n.chunks = q.chunks /\ n.hydrated = q.hydrated
    BY FlagsOK
  <2> QED BY <2>1, <2>2, <2>3 DEF ResumeOwed
<1>2. CASE ~(/\ q.paused /\ ~q.closing /\ CanDeliver(q, rdy)
             /\ RetainedBytes(q) <= LowBytes /\ RetainedChunks(q) <= LowChunks)
  <2>1. Resumed(q, rdy) = q
    BY <1>2 DEF Resumed
  <2>2. RetainedBytes(q) \in Int /\ RetainedChunks(q) \in Int
    <3>1. q.chunks \in Seq(Record) /\ q.inFlight \in Seq(Record)
      BY QueueFields DEF QueueOK
    <3> QED BY <3>1, Retention
  <2>3. ResumeOwed(q, rdy)
    BY <1>2, <2>2, Constants DEF ResumeOwed
  <2> QED BY <2>1, <2>3
<1> QED BY <1>1, <1>2

(* The empty sequence of records.                                          *)
LEMMA EmptyLedger ==
  /\ <<>> \in Seq(Record) /\ Range(<<>>) = {} /\ Ascending(<<>>) /\ Len(<<>>) = 0
<1>1. <<>> \in Seq(Record) /\ Len(<<>>) = 0
  BY EmptySeq
<1> QED BY <1>1 DEF Range, Ascending

(* removeQueue leaves an empty queue that is no longer live.               *)
LEMMA RemovedOK ==
  ASSUME NEW q, QueueOK(q), NEW delivered \in BOOLEAN, delivered => Held(q) = {}
  PROVE  LET n == Removed(q, delivered) IN
           QueueOK(n) /\ ~n.live /\ n.chunks = <<>> /\ n.inFlight = <<>> /\ Held(n) = {}
<1>1. q \in Queue
  BY DEF QueueOK
<1>2. CASE ~q.live
  <2>1. Removed(q, delivered) = q
    BY <1>2 DEF Removed
  <2>2. q.chunks = <<>> /\ q.inFlight = <<>>
    BY <1>2 DEF QueueOK
  <2> QED BY <1>2, <2>1, <2>2, EmptyLedger DEF Held
<1>3. CASE q.live
  <2> DEFINE v == IF q.verdict # "pending" THEN q.verdict
                  ELSE IF delivered THEN "delivered" ELSE "abandoned"
             p == q.paused \/ ~delivered
             n == [q EXCEPT !.live = FALSE, !.chunks = <<>>, !.queuedBytes = 0,
                            !.inFlight = <<>>, !.inFlightBytes = 0,
                            !.paused = p, !.verdict = v]
  <2>1. Removed(q, delivered) = n
    BY <1>3 DEF Removed
  <2>2. v \in {"none", "pending", "delivered", "abandoned", "timeout"} /\ p \in BOOLEAN
    <3>1. q.verdict \in {"none", "pending", "delivered", "abandoned", "timeout"} /\ q.paused \in BOOLEAN
      BY <1>1, QueueFields
    <3> QED BY <3>1
  <2>3. v = "delivered" => q.acked = 1 .. q.produced
    <3> SUFFICES ASSUME v = "delivered" PROVE q.acked = 1 .. q.produced
      OBVIOUS
    <3>1. q.verdict # "delivered" /\ AllHeld(q)
      BY <1>3 DEF QueueOK
    <3>2. delivered
      BY <3>1
    <3>3. UNION {Covers(r) : r \in Held(q)} = {}
      BY <3>2
    <3> QED BY <3>1, <3>3 DEF AllHeld, Partitions
  <2> HIDE DEF v, p
  <2>4. /\ n.live = FALSE /\ n.chunks = <<>> /\ n.queuedBytes = 0 /\ n.inFlight = <<>>
        /\ n.inFlightBytes = 0 /\ n.verdict = v /\ n.paused = p
    BY <1>1 DEF Queue
  <2>5. /\ n.gen = q.gen /\ n.next = q.next /\ n.closing = q.closing /\ n.hydrated = q.hydrated
        /\ n.exitQueued = q.exitQueued /\ n.produced = q.produced /\ n.acked = q.acked
    BY <1>1 DEF Queue
  <2>6. n = [f \in DOMAIN q |-> n[f]]
    BY <1>1, Zenon DEF Queue
  <2> HIDE DEF n
  <2>7. n \in Queue
    <3>1. /\ n.live \in BOOLEAN /\ n.chunks \in Seq(Record) /\ n.inFlight \in Seq(Record)
          /\ n.queuedBytes \in Int /\ n.inFlightBytes \in Int /\ n.paused \in BOOLEAN
          /\ n.verdict \in {"none", "pending", "delivered", "abandoned", "timeout"}
      <4>1. n.paused \in BOOLEAN /\ n.live \in BOOLEAN
        BY <2>2, <2>4, Zenon
      <4>2. n.verdict \in {"none", "pending", "delivered", "abandoned", "timeout"}
        BY <2>2, <2>4, Zenon
      <4>3. n.chunks \in Seq(Record) /\ n.inFlight \in Seq(Record)
        BY <2>4, EmptyLedger
      <4>4. n.queuedBytes \in Int /\ n.inFlightBytes \in Int
        BY <2>4
      <4> QED BY <4>1, <4>2, <4>3, <4>4
    <3>2. /\ n.gen \in Nat /\ n.next \in Nat /\ n.produced \in Nat /\ n.acked \in SUBSET Nat
          /\ n.closing \in BOOLEAN /\ n.exitQueued \in BOOLEAN /\ n.hydrated \in BOOLEAN
      BY <1>1, <2>5, QueueFields
    <3> QED BY <1>1, <2>6, <3>1, <3>2, QueueUpdate
  <2>8. Held(n) = {}
    BY <2>4, EmptyLedger DEF Held
  <2>9. BelowHighWater(n)
    <3>1. RetainedBytes(n) = 0
      BY <2>4 DEF RetainedBytes
    <3>2. RetainedChunks(n) = 0
      BY <2>4, EmptyLedger DEF RetainedChunks
    <3> QED BY <3>1, <3>2, Constants DEF BelowHighWater
  <2>10. InOrder(n)
    BY <2>4, <2>8, EmptyLedger DEF InOrder
  <2>11. SealedInFlight(n) /\ OpenTail(n)
    BY <2>4, EmptyLedger DEF SealedInFlight, OpenTail
  <2>12. QueueOK(n)
    BY <2>3, <2>4, <2>5, <2>7, <2>9, <2>10, <2>11 DEF QueueOK
  <2> QED BY <2>1, <2>4, <2>8, <2>12
<1> QED BY <1>1, <1>2, <1>3, QueueFields

(* The exit marker joins an empty ledger.                                  *)
LEMMA WithExitOK ==
  ASSUME NEW q, QueueOK(q)
  PROVE  LET n == WithExit(q) IN
           /\ QueueOK(n) /\ n.live = q.live /\ n.closing = q.closing /\ n.hydrated = q.hydrated
           /\ n.inFlight = q.inFlight
           /\ n.live /\ n.closing => n.exitQueued \/ Held(n) # {}
           /\ Held(q) # {} => Held(n) = Held(q)
           /\ q.exitQueued => n = q
<1>1. q \in Queue /\ q.chunks \in Seq(Record) /\ q.inFlight \in Seq(Record)
  BY QueueFields DEF QueueOK
<1> DEFINE quiet == ~HasData(q.chunks) /\ ~HasData(q.inFlight)
<1>2. HasData(q.chunks) \/ HasData(q.inFlight) <=> \E r \in Held(q) : IsData(r)
  BY <1>1, SequenceFacts DEF HasData, Held
<1>3. CASE ~(q.live /\ q.closing /\ ~q.exitQueued /\ quiet)
  <2>1. WithExit(q) = q
    BY <1>3 DEF WithExit
  <2>2. q.live /\ q.closing => q.exitQueued \/ Held(q) # {}
    BY <1>2, <1>3
  <2> QED BY <2>1, <2>2
<1>4. CASE q.live /\ q.closing /\ ~q.exitQueued /\ quiet
  <2>1. Held(q) = {}
    BY <1>2, <1>4 DEF QueueOK
  <2>2. q.chunks = <<>> /\ q.inFlight = <<>>
    <3>1. Range(q.chunks) = {} /\ Range(q.inFlight) = {}
      BY <2>1 DEF Held
    <3> QED BY <1>1, <3>1, SequenceFacts
  <2> DEFINE e == ExitRecord(q.next)
             c == Append(q.chunks, e)
             k == q.next + 1
             n == [q EXCEPT !.exitQueued = TRUE, !.chunks = c, !.next = k]
  <2>3. WithExit(q) = n
    BY <1>4 DEF WithExit
  <2>4. q.next \in Nat /\ k \in Nat /\ q.next < k
    BY <1>1, QueueFields
  <2>5. e \in Record /\ e.seq = q.next /\ ~IsData(e) /\ Covers(e) = {}
    <3>1. e \in Record /\ e.seq = q.next /\ ~IsData(e)
      BY <2>4 DEF ExitRecord, Record, IsData
    <3>2. e.from = 0 /\ e.bytes = 0
      BY DEF ExitRecord
    <3>3. Covers(e) = 1 .. 0
      BY <3>2 DEF Covers
    <3> QED BY <3>1, <3>3
  <2> HIDE DEF e
  <2>6. /\ c \in Seq(Record) /\ Range(c) = {e} /\ Ascending(c) /\ Len(c) = 1 /\ c[1] = e /\ c # <<>>
    <3>1. c \in Seq(Record) /\ Len(c) = 1 /\ c[1] = e
      <4>1. Len(q.chunks) = 0
        BY <2>2, EmptyLedger
      <4> QED BY <1>1, <2>5, <4>1, AppendProperties
    <3>2. Range(c) = {e}
      <4>1. Range(q.chunks) = {}
        BY <2>2, EmptyLedger
      <4>2. Range(c) = Range(q.chunks) \cup {e}
        BY <1>1, <2>5, RangeAppend
      <4> QED BY <4>1, <4>2
    <3>3. Ascending(c)
      BY <1>1, <2>2, <2>5, AscendingAppend, EmptyLedger
    <3> QED BY <3>1, <3>2, <3>3, EmptyLedger
  <2> HIDE DEF c, k
  <2>7. n.exitQueued = TRUE /\ n.chunks = c /\ n.next = k
    BY <1>1 DEF Queue
  <2>8. /\ n.live = q.live /\ n.gen = q.gen /\ n.queuedBytes = q.queuedBytes
        /\ n.inFlight = q.inFlight /\ n.inFlightBytes = q.inFlightBytes /\ n.paused = q.paused
        /\ n.closing = q.closing /\ n.hydrated = q.hydrated /\ n.verdict = q.verdict
        /\ n.produced = q.produced /\ n.acked = q.acked
    BY <1>1 DEF Queue
  <2>9. n = [f \in DOMAIN q |-> n[f]]
    BY <1>1, Zenon DEF Queue
  <2> HIDE DEF n
  <2>10. n \in Queue
    BY <1>1, <2>4, <2>6, <2>7, <2>8, <2>9, QueueFields, QueueUpdate
  <2>11. Held(n) = {e}
    BY <2>2, <2>6, <2>7, <2>8, EmptyLedger DEF Held
  <2>12. InOrder(n)
    BY <2>2, <2>4, <2>5, <2>6, <2>7, <2>8, <2>11, EmptyLedger DEF InOrder
  <2>13. SealedInFlight(n) /\ OpenTail(n)
    BY <2>2, <2>5, <2>6, <2>7, <2>8, EmptyLedger DEF SealedInFlight, OpenTail
  <2>14. AllHeld(n)
    <3>1. UNION {Covers(r) : r \in Held(n)} = {} /\ UNION {Covers(r) : r \in Held(q)} = {}
      BY <2>1, <2>5, <2>11
    <3>2. 1 .. q.produced = q.acked
      BY <1>4, <3>1 DEF QueueOK, AllHeld, Partitions
    <3> QED BY <2>5, <2>8, <2>11, <3>1, <3>2 DEF AllHeld, Partitions
  <2>15. BelowHighWater(n)
    <3>1. RetainedChunks(n) = 1
      BY <2>2, <2>6, <2>7, <2>8, EmptyLedger DEF RetainedChunks
    <3>2. RetainedBytes(n) = RetainedBytes(q)
      BY <2>8 DEF RetainedBytes
    <3> QED BY <2>7, <3>1, <3>2, Constants DEF BelowHighWater, QueueOK
  <2>16. QueueOK(n)
    BY <1>4, <2>5, <2>7, <2>8, <2>10, <2>11, <2>12, <2>13, <2>14, <2>15 DEF QueueOK
  <2> QED BY <1>4, <2>1, <2>3, <2>7, <2>8, <2>16
<1> QED BY <1>3, <1>4

(* maybeFinishQueue: a closing queue is left with something to deliver.    *)
LEMMA FinishedOK ==
  ASSUME NEW q, QueueOK(q), NEW rdy \in BOOLEAN, ResumeOwed(q, rdy),
         q.live /\ q.closing /\ Held(q) = {} /\ q.exitQueued => CanDeliver(q, rdy)
  PROVE  LET n == Finished(q, rdy) IN
           /\ QueueOK(n) /\ Closing(n) /\ ResumeOwed(n, rdy)
           /\ n.inFlight = q.inFlight \/ n.inFlight = <<>>
           /\ n.live => q.live /\ n.hydrated = q.hydrated
           /\ ~q.live => n = q
<1> DEFINE e == WithExit(q)
<1>1. /\ QueueOK(e) /\ e.live = q.live /\ e.closing = q.closing /\ e.hydrated = q.hydrated
      /\ e.inFlight = q.inFlight
      /\ e.live /\ e.closing => e.exitQueued \/ Held(e) # {}
      /\ Held(q) # {} => Held(e) = Held(q)
      /\ q.exitQueued => e = q
  BY WithExitOK
<1>2. ~q.live => e = q
  BY DEF WithExit
<1>3. ~q.closing => e = q
  BY DEF WithExit
<1>4. ~q.exitQueued /\ e.live /\ e.exitQueued => Held(e) # {}
  <2> SUFFICES ASSUME ~q.exitQueued, e.exitQueued, e.live, Held(e) = {}
               PROVE  FALSE
    OBVIOUS
  <2>1. e.chunks = Append(q.chunks, ExitRecord(q.next))
    <3>1. q \in Queue
      BY DEF QueueOK
    <3> QED BY <3>1 DEF WithExit, Queue
  <2>2. q.chunks \in Seq(Record) /\ ExitRecord(q.next) \in Record
    BY QueueFields DEF QueueOK, ExitRecord, Record
  <2>3. ExitRecord(q.next) \in Held(e)
    BY <2>1, <2>2, RangeAppend DEF Held
  <2> QED BY <2>3
<1>5. RetainedChunks(e) = 0 <=> Held(e) = {}
  <2>1. e.chunks \in Seq(Record) /\ e.inFlight \in Seq(Record)
    BY <1>1, QueueFields DEF QueueOK
  <2> QED BY <1>1, <2>1, Retention
<1>6. Finished(q, rdy) = IF e.closing /\ e.exitQueued /\ RetainedChunks(e) = 0 /\ CanDeliver(e, rdy)
                         THEN Removed(e, TRUE) ELSE e
  BY DEF Finished
<1> HIDE DEF e
<1>7. CASE e.closing /\ e.exitQueued /\ RetainedChunks(e) = 0 /\ CanDeliver(e, rdy)
  <2> DEFINE n == Removed(e, TRUE)
  <2>1. QueueOK(n) /\ ~n.live /\ n.chunks = <<>> /\ n.inFlight = <<>> /\ Held(n) = {}
    BY <1>1, <1>5, <1>7, RemovedOK
  <2>2. ~CanDeliver(n, rdy)
    BY <2>1 DEF CanDeliver
  <2>3. q.live
    BY <1>1, <1>7 DEF CanDeliver
  <2> QED BY <1>6, <1>7, <2>1, <2>2, <2>3 DEF Closing, ResumeOwed
<1>8. CASE ~(e.closing /\ e.exitQueued /\ RetainedChunks(e) = 0 /\ CanDeliver(e, rdy))
  <2>1. Finished(q, rdy) = e
    BY <1>6, <1>8
  <2>2. Closing(e)
    <3> SUFFICES ASSUME e.live, e.closing, Held(e) = {} PROVE FALSE
      BY DEF Closing
    <3>1. e.exitQueued
      BY <1>1
    <3>2. q.exitQueued
      BY <1>4, <3>1
    <3>3. e = q
      BY <1>1, <3>2
    <3> QED BY <1>5, <1>8, <3>1, <3>3
  <2>3. ResumeOwed(e, rdy)
    BY <1>1, <1>3 DEF ResumeOwed
  <2> QED BY <1>1, <1>2, <2>1, <2>2, <2>3
<1> QED BY <1>7, <1>8

(* The types of the fields of a record.                                    *)
LEMMA RecordFields ==
  ASSUME NEW r \in Record
  PROVE  /\ r.seq \in Nat /\ r.from \in Nat /\ r.bytes \in Nat /\ r.sealed \in BOOLEAN
         /\ Covers(r) \subseteq Nat
<1>1. r.seq \in Nat /\ r.from \in Nat /\ r.bytes \in Nat /\ r.sealed \in BOOLEAN
  BY DEF Record
<1>2. (r.from + 1) .. (r.from + r.bytes) \subseteq Nat
  BY <1>1
<1> QED BY <1>1, <1>2 DEF Covers

(* Within a ledger the sequence number identifies the record.              *)
LEMMA DistinctRecords ==
  ASSUME NEW q, QueueOK(q)
  PROVE  /\ \A r, s \in Held(q) : r.seq = s.seq => r = s
         /\ \A i, j \in 1 .. Len(q.inFlight) : i # j => q.inFlight[i].seq # q.inFlight[j].seq
         /\ Held(q) \subseteq Record
<1> DEFINE f == q.inFlight
           c == q.chunks
<1>1. f \in Seq(Record) /\ c \in Seq(Record) /\ Ascending(f) /\ Ascending(c)
      /\ \A r \in Range(f), s \in Range(c) : r.seq < s.seq
  BY QueueFields DEF QueueOK, InOrder
<1>2. ASSUME NEW s \in Seq(Record), Ascending(s), NEW i \in 1 .. Len(s), NEW j \in 1 .. Len(s), i # j
      PROVE  s[i].seq # s[j].seq
  <2>1. DOMAIN s = 1 .. Len(s) /\ Len(s) \in Nat
    BY SequenceFacts
  <2>2. s[i] \in Record /\ s[j] \in Record
    BY SequenceFacts
  <2>3. s[i].seq \in Nat /\ s[j].seq \in Nat
    BY <2>2, RecordFields
  <2>4. i < j \/ j < i
    BY <1>2, <2>1
  <2> QED BY <1>2, <2>1, <2>3, <2>4 DEF Ascending
<1>3. ASSUME NEW s \in Seq(Record), Ascending(s), NEW r \in Range(s), NEW e \in Range(s), r.seq = e.seq
      PROVE  r = e
  <2>1. PICK i \in 1 .. Len(s) : r = s[i]
    BY SequenceFacts
  <2>2. PICK j \in 1 .. Len(s) : e = s[j]
    BY SequenceFacts
  <2> QED BY <1>2, <1>3, <2>1, <2>2
<1>4. Range(f) \subseteq Record /\ Range(c) \subseteq Record
  BY <1>1, SequenceFacts
<1>5. \A r \in Range(f), s \in Range(c) : r.seq # s.seq
  <2> SUFFICES ASSUME NEW r \in Range(f), NEW s \in Range(c) PROVE r.seq # s.seq
    OBVIOUS
  <2>1. r.seq \in Nat /\ s.seq \in Nat
    BY <1>4, RecordFields
  <2> QED BY <1>1, <2>1
<1>6. \A i, j \in 1 .. Len(f) : i # j => f[i].seq # f[j].seq
  BY <1>1, <1>2
<1>7. ASSUME NEW r \in Held(q), NEW s \in Held(q), r.seq = s.seq
      PROVE  r = s
  BY <1>1, <1>3, <1>5, <1>7 DEF Held
<1> QED BY <1>4, <1>6, <1>7 DEF Held

(* An acknowledgement retires exactly the record it names.                 *)
LEMMA AckedOK ==
  ASSUME NEW q, QueueOK(q), NEW i \in 1 .. Len(q.inFlight)
  PROVE  LET n == Acked(q, i) IN
           /\ QueueOK(n) /\ n.live = q.live /\ n.closing = q.closing /\ n.hydrated = q.hydrated
           /\ n.exitQueued = q.exitQueued /\ q.live
           /\ Range(n.inFlight) \subseteq Range(q.inFlight)
<1> DEFINE f == q.inFlight
           r == f[i]
           w == RemoveAt(f, i)
           k == q.inFlightBytes - r.bytes
           a == q.acked \cup Covers(r)
           n == [q EXCEPT !.inFlight = w, !.inFlightBytes = k, !.acked = a]
<1>1. q \in Queue /\ q.chunks \in Seq(Record) /\ f \in Seq(Record) /\ Ascending(f)
      /\ q.inFlightBytes \in Int /\ q.queuedBytes \in Int /\ q.acked \in SUBSET Nat
  BY QueueFields DEF QueueOK, InOrder
<1>2. Acked(q, i) = n
  BY DEF Acked
<1>3. r \in Range(f) /\ r \in Record /\ r \in Held(q) /\ f # <<>>
  <2>1. r \in Range(f) /\ r \in Record
    BY <1>1, SequenceFacts
  <2>2. Range(f) # {}
    BY <2>1
  <2> QED BY <1>1, <2>1, <2>2, SequenceFacts DEF Held
<1>4. /\ w \in Seq(Record) /\ Len(w) = Len(f) - 1 /\ Ascending(w) /\ Range(w) = Range(f) \ {r}
  <2>1. \A j \in 1 .. Len(f) : j # i => f[j] # f[i]
    BY DistinctRecords
  <2> QED BY <1>1, <2>1, RemoveAtProperties, AscendingRemoveAt, RangeRemoveAt
<1>5. k \in Int /\ a \in SUBSET Nat /\ k <= q.inFlightBytes
  BY <1>1, <1>3, RecordFields
<1>6. q.live
  BY <1>3 DEF QueueOK
<1> HIDE DEF w, k, a
<1>7. n.inFlight = w /\ n.inFlightBytes = k /\ n.acked = a
  BY <1>1 DEF Queue
<1>8. /\ n.live = q.live /\ n.gen = q.gen /\ n.chunks = q.chunks /\ n.queuedBytes = q.queuedBytes
      /\ n.next = q.next /\ n.paused = q.paused /\ n.closing = q.closing
      /\ n.hydrated = q.hydrated /\ n.exitQueued = q.exitQueued /\ n.verdict = q.verdict
      /\ n.produced = q.produced
  BY <1>1 DEF Queue
<1>9. n = [x \in DOMAIN q |-> n[x]]
  BY <1>1, Zenon DEF Queue
<1> HIDE DEF n
<1>10. n \in Queue
  BY <1>1, <1>4, <1>5, <1>7, <1>8, <1>9, QueueFields, QueueUpdate
<1>11. Held(n) = Held(q) \ {r}
  <2>1. r \notin Range(q.chunks)
    <3>1. \A s \in Range(q.chunks) : r.seq < s.seq
      BY <1>3 DEF QueueOK, InOrder
    <3>2. r.seq \in Nat
      BY <1>3, RecordFields
    <3> QED BY <3>1, <3>2
  <2> QED BY <1>4, <1>7, <1>8, <2>1 DEF Held
<1>12. InOrder(n)
  BY <1>4, <1>7, <1>8, <1>11 DEF InOrder, QueueOK
<1>13. SealedInFlight(n) /\ OpenTail(n)
  BY <1>4, <1>7, <1>8 DEF SealedInFlight, OpenTail, QueueOK
<1>14. AllHeld(n)
  <2> DEFINE H == Held(q)
             U(S) == UNION {Covers(s) : s \in S}
  <2>1. /\ 1 .. q.produced = q.acked \cup U(H)
        /\ \A s \in H : Covers(s) \cap q.acked = {}
        /\ \A s, t \in H : s # t => Covers(s) \cap Covers(t) = {}
    BY <1>6 DEF QueueOK, AllHeld, Partitions
  <2>2. U(H) = Covers(r) \cup U(H \ {r})
    BY <1>3
  <2>3. 1 .. n.produced = n.acked \cup U(Held(n))
    BY <1>7, <1>8, <1>11, <2>1, <2>2 DEF a
  <2>4. \A s \in Held(n) : Covers(s) \cap n.acked = {}
    BY <1>3, <1>7, <1>11, <2>1 DEF a
  <2> QED BY <1>11, <2>1, <2>3, <2>4 DEF AllHeld, Partitions
<1>15. BelowHighWater(n)
  <2>1. RetainedChunks(n) = Len(q.chunks) + Len(w) /\ RetainedChunks(q) = Len(q.chunks) + Len(f)
        /\ RetainedChunks(n) \in Nat /\ RetainedChunks(q) \in Nat
    BY <1>1, <1>4, <1>7, <1>8, Retention, ZenonT(60)
  <2>2. RetainedChunks(n) <= RetainedChunks(q)
    <3>1. Len(q.chunks) \in Nat /\ Len(f) \in Nat /\ Len(w) \in Nat /\ Len(w) <= Len(f)
      BY <1>1, <1>4, SequenceFacts
    <3> DEFINE lc == Len(q.chunks)
               lf == Len(f)
               lw == Len(w)
    <3> HIDE DEF lc, lf, lw
    <3>2. lc \in Nat /\ lf \in Nat /\ lw \in Nat /\ lw <= lf
      BY <3>1 DEF lc, lf, lw
    <3>3. RetainedChunks(n) = lc + lw /\ RetainedChunks(q) = lc + lf
      BY <2>1 DEF lc, lf, lw
    <3> QED BY <3>2, <3>3
  <2>3. RetainedBytes(n) = q.queuedBytes + k /\ RetainedBytes(q) = q.queuedBytes + q.inFlightBytes
    BY <1>7, <1>8 DEF RetainedBytes
  <2>4. RetainedBytes(n) <= RetainedBytes(q) /\ RetainedBytes(q) \in Int /\ RetainedBytes(n) \in Int
    BY <1>1, <1>5, <2>3
  <2>5. n.exitQueued = q.exitQueued /\ BelowHighWater(q)
    BY <1>8 DEF QueueOK
  <2>6. RetainedChunks(n) \in Int /\ RetainedChunks(q) \in Int
    BY <2>1
  <2> QED BY <2>2, <2>4, <2>5, <2>6, HighWaterMonotone, Zenon
<1>16. QueueOK(n)
  <2>1. \A s \in Held(n) : IsData(s) <=> ~n.exitQueued
    BY <1>6, <1>8, <1>11 DEF QueueOK
  <2>2. n.verdict # "delivered" /\ (n.exitQueued => n.closing) /\ n.live
    BY <1>6, <1>8 DEF QueueOK
  <2> QED BY <1>10, <1>12, <1>13, <1>14, <1>15, <2>1, <2>2 DEF QueueOK
<1> QED BY <1>2, <1>4, <1>6, <1>7, <1>8, <1>16

(* Replacing one record by another over the same or a longer stretch of    *)
(* bytes no other record covers.                                           *)
LEMMA ReplaceHeld ==
  ASSUME NEW all, NEW acked, NEW held, NEW r \in held, NEW e, NEW extra,
         Partitions(all, acked, held), extra \cap all = {},
         Covers(e) = Covers(r) \cup extra
  PROVE  Partitions(all \cup extra, acked, (held \ {r}) \cup {e})
<1> DEFINE U(S) == UNION {Covers(s) : s \in S}
           new == (held \ {r}) \cup {e}
<1>1. /\ all = acked \cup U(held)
      /\ \A s \in held : Covers(s) \cap acked = {}
      /\ \A s, u \in held : s # u => Covers(s) \cap Covers(u) = {}
  BY DEF Partitions
<1>2. acked \subseteq all /\ \A s \in held : Covers(s) \subseteq all
  BY <1>1
<1>3. \A s \in held \ {r} : Covers(s) \cap Covers(e) = {}
  BY <1>1, <1>2
<1>4. Covers(e) \cap acked = {}
  BY <1>1, <1>2
<1>5. U(held) = U(held \ {r}) \cup Covers(r)
  OBVIOUS
<1>6. U(new) = U(held \ {r}) \cup Covers(e)
  OBVIOUS
<1>7. all \cup extra = acked \cup U(new)
  BY <1>1, <1>5, <1>6
<1>8. \A s \in new : Covers(s) \cap acked = {}
  BY <1>1, <1>4
<1>9. \A s, u \in new : s # u => Covers(s) \cap Covers(u) = {}
  BY <1>1, <1>3
<1> QED BY <1>7, <1>8, <1>9 DEF Partitions

(* Holding one more record over bytes no other record covers.              *)
LEMMA AddHeld ==
  ASSUME NEW all, NEW acked, NEW held, NEW e,
         Partitions(all, acked, held), Covers(e) \cap all = {}
  PROVE  Partitions(all \cup Covers(e), acked, held \cup {e})
<1> DEFINE U(S) == UNION {Covers(s) : s \in S}
           new == held \cup {e}
<1>1. /\ all = acked \cup U(held)
      /\ \A s \in held : Covers(s) \cap acked = {}
      /\ \A s, u \in held : s # u => Covers(s) \cap Covers(u) = {}
  BY DEF Partitions
<1>2. acked \subseteq all /\ \A s \in held : Covers(s) \subseteq all
  BY <1>1
<1>3. U(new) = U(held) \cup Covers(e)
  OBVIOUS
<1>4. \A s \in new : Covers(s) \cap acked = {}
  BY <1>1, <1>2
<1>5. \A s, u \in new : s # u => Covers(s) \cap Covers(u) = {}
  BY <1>1, <1>2
<1> QED BY <1>1, <1>3, <1>4, <1>5 DEF Partitions

(* A send moves the head of the queue behind what is in flight.            *)
LEMMA SentOK ==
  ASSUME NEW q, QueueOK(q), q.live, q.chunks # <<>>
  PROVE  LET n == Sent(q) IN
           /\ QueueOK(n) /\ n.live /\ n.closing = q.closing /\ n.hydrated = q.hydrated
           /\ n.gen = q.gen /\ n.paused = q.paused
           /\ RetainedBytes(n) = RetainedBytes(q) /\ RetainedChunks(n) = RetainedChunks(q)
           /\ Held(n) # {}
           /\ \A r \in Range(n.inFlight) : r.seq <= Head(q.chunks).seq
<1> DEFINE f == q.inFlight
           c == q.chunks
           h == Head(c)
           r == [h EXCEPT !.sealed = TRUE]
           f2 == Append(f, r)
           c2 == Tail(c)
           k == q.queuedBytes - r.bytes
           m == q.inFlightBytes + r.bytes
           n == [q EXCEPT !.chunks = c2, !.queuedBytes = k, !.inFlight = f2, !.inFlightBytes = m]
<1>1. /\ q \in Queue /\ c \in Seq(Record) /\ f \in Seq(Record) /\ Ascending(f) /\ Ascending(c)
      /\ q.inFlightBytes \in Int /\ q.queuedBytes \in Int
      /\ \A x \in Range(f), y \in Range(c) : x.seq < y.seq
  BY QueueFields DEF QueueOK, InOrder
<1>2. Sent(q) = n
  BY DEF Sent
<1>3. /\ h \in Record /\ c2 \in Seq(Record) /\ Range(c) = {h} \cup Range(c2)
      /\ Ascending(c2) /\ \A y \in Range(c2) : h.seq < y.seq
  BY <1>1, HeadTailProperties, RangeTail, AscendingTail
<1>4. /\ r \in Record /\ r.seq = h.seq /\ r.sealed /\ r.bytes = h.bytes /\ r.from = h.from
      /\ r.kind = h.kind
  BY <1>3 DEF Record
<1>5. Covers(r) = Covers(h) /\ (IsData(r) <=> IsData(h))
  BY <1>4 DEF Covers, IsData
<1>6. k \in Int /\ m \in Int /\ k + m = q.queuedBytes + q.inFlightBytes
  <2>1. r.bytes \in Nat
    BY <1>4, RecordFields
  <2> QED BY <1>1, <2>1
<1> HIDE DEF h, r
<1>7. /\ f2 \in Seq(Record) /\ Range(f2) = Range(f) \cup {r} /\ Ascending(f2)
  <2>1. \A x \in Range(f) : x.seq < r.seq
    BY <1>1, <1>3, <1>4
  <2> QED BY <1>1, <1>4, <2>1, AppendProperties, RangeAppend, AscendingAppend
<1>8. Len(c2) + Len(f2) = Len(c) + Len(f)
  <2>1. Len(c2) = Len(c) - 1 /\ Len(f2) = Len(f) + 1
    BY <1>1, <1>4, HeadTailProperties, AppendProperties
  <2>2. Len(c) \in Nat /\ Len(f) \in Nat
    BY <1>1, SequenceFacts
  <2> DEFINE lc == Len(c)
             lf == Len(f)
  <2>3. lc \in Nat /\ lf \in Nat /\ Len(c2) = lc - 1 /\ Len(f2) = lf + 1
    BY <2>1, <2>2
  <2> HIDE DEF lc, lf, c2, f2
  <2>4. Len(c2) + Len(f2) = lc + lf
    BY <2>3
  <2> QED BY <2>4 DEF lc, lf
<1> HIDE DEF k, m, f2, c2
<1>9. n.chunks = c2 /\ n.queuedBytes = k /\ n.inFlight = f2 /\ n.inFlightBytes = m
  BY <1>1 DEF Queue
<1>10. /\ n.live = q.live /\ n.gen = q.gen /\ n.next = q.next /\ n.paused = q.paused
       /\ n.closing = q.closing /\ n.hydrated = q.hydrated /\ n.exitQueued = q.exitQueued
       /\ n.verdict = q.verdict /\ n.produced = q.produced /\ n.acked = q.acked
  BY <1>1 DEF Queue
<1>11. n = [x \in DOMAIN q |-> n[x]]
  BY <1>1, Zenon DEF Queue
<1> HIDE DEF n
<1>12. n \in Queue
  BY <1>1, <1>3, <1>6, <1>7, <1>9, <1>10, <1>11, QueueFields, QueueUpdate
<1>13. h \in Held(q)
  BY <1>3 DEF Held
<1>14. Held(n) = (Held(q) \ {h}) \cup {r}
  <2>1. h \notin Range(f) /\ h \notin Range(c2)
    <3>1. h.seq \in Nat
      BY <1>3, RecordFields
    <3> QED BY <1>1, <1>3, <3>1
  <2> QED BY <1>3, <1>7, <1>9, <2>1 DEF Held
<1>15. InOrder(n)
  <2>1. \A x \in Range(f2), y \in Range(c2) : x.seq < y.seq
    BY <1>1, <1>3, <1>4, <1>7
  <2>2. \A x \in Held(n) : x.seq < n.next
    BY <1>4, <1>10, <1>13, <1>14 DEF QueueOK, InOrder
  <2> QED BY <1>3, <1>7, <1>9, <2>1, <2>2 DEF InOrder
<1>16. SealedInFlight(n)
  BY <1>4, <1>7, <1>9 DEF QueueOK, SealedInFlight
<1>17. OpenTail(n)
  <2> SUFFICES ASSUME c2 # <<>>
               PROVE  c2[Len(c2)] = c[Len(c)]
    BY <1>9, <1>10, EmptyLedger DEF OpenTail, QueueOK
  <2>1. /\ Len(c2) = Len(c) - 1 /\ Len(c2) \in Nat \ {0} /\ Len(c) \in Nat
        /\ \A j \in 1 .. Len(c2) : c2[j] = c[j + 1]
    <3>1. PICK d : d = Tail(c)
      OBVIOUS
    <3>2. c2 = d /\ d # <<>>
      BY <1>3, <3>1 DEF c2
    <3>3. Len(d) = Len(c) - 1 /\ \A j \in 1 .. Len(d) : d[j] = c[j + 1]
      BY <1>1, <1>3, <3>1, HeadTailProperties
    <3>4. Len(c) \in Nat /\ Len(d) \in Nat \ {0}
      BY <1>1, <1>3, <3>2, SequenceFacts
    <3> QED BY <3>2, <3>3, <3>4
  <2>2. Len(c2) \in 1 .. Len(c2) /\ Len(c2) + 1 = Len(c)
    BY <2>1
  <2> QED BY <2>1, <2>2
<1>18. AllHeld(n)
  <2> DEFINE P == 1 .. q.produced
  <2>1. Partitions(P, q.acked, Held(q))
    BY DEF QueueOK, AllHeld
  <2>2. Covers(r) = Covers(h) \cup {} /\ {} \cap P = {}
    BY <1>5
  <2> HIDE DEF P
  <2>3. Partitions(P \cup {}, q.acked, (Held(q) \ {h}) \cup {r})
    BY <1>13, <2>1, <2>2, ReplaceHeld
  <2>4. P \cup {} = P
    OBVIOUS
  <2>5. Partitions(P, q.acked, Held(n))
    BY <1>14, <2>3, <2>4
  <2> QED BY <1>10, <2>5 DEF AllHeld, P
<1>19. RetainedBytes(n) = RetainedBytes(q) /\ RetainedChunks(n) = RetainedChunks(q)
  BY <1>6, <1>8, <1>9 DEF RetainedBytes, RetainedChunks
<1>20. BelowHighWater(n)
  BY <1>10, <1>19 DEF BelowHighWater, QueueOK
<1>21. QueueOK(n)
  <2>1. \A x \in Held(n) : IsData(x) <=> ~n.exitQueued
    BY <1>5, <1>10, <1>13, <1>14 DEF QueueOK
  <2>2. n.verdict # "delivered" /\ (n.exitQueued => n.closing) /\ n.live
    BY <1>10 DEF QueueOK
  <2> QED BY <1>12, <1>15, <1>16, <1>17, <1>18, <1>20, <2>1, <2>2 DEF QueueOK
<1>22. \A x \in Range(f2) : x.seq <= h.seq
  <2> SUFFICES ASSUME NEW x \in Range(f2) PROVE x.seq <= h.seq
    OBVIOUS
  <2>1. x \in Record /\ h.seq \in Nat
    BY <1>3, <1>7, RecordFields, SequenceFacts
  <2>2. x.seq \in Nat
    BY <2>1, RecordFields
  <2> QED BY <1>1, <1>3, <1>4, <1>7, <2>1, <2>2
<1> QED BY <1>2, <1>9, <1>10, <1>14, <1>19, <1>21, <1>22 DEF h

(* A refused record is the last one in flight, so it goes back in front.   *)
LEMMA RequeuedOK ==
  ASSUME NEW q, QueueOK(q), NEW seq, Owns(q, seq),
         \A r \in Range(q.inFlight) : r.seq <= seq
  PROVE  LET n == Requeued(q, seq) IN QueueOK(n) /\ Held(n) = Held(q) /\ n.live = q.live
           /\ n.closing = q.closing
<1> DEFINE f == q.inFlight
           c == q.chunks
           i == CHOOSE j \in DOMAIN f : f[j].seq = seq
           r == f[i]
           w == RemoveAt(f, i)
           c2 == <<r>> \o c
           k == q.inFlightBytes - r.bytes
           m == q.queuedBytes + r.bytes
           out == [q EXCEPT !.inFlight = w, !.inFlightBytes = k]
           n == [q EXCEPT !.inFlight = w, !.inFlightBytes = k, !.chunks = c2, !.queuedBytes = m]
<1>1. /\ q \in Queue /\ c \in Seq(Record) /\ f \in Seq(Record) /\ Ascending(f) /\ Ascending(c)
      /\ q.inFlightBytes \in Int /\ q.queuedBytes \in Int
      /\ \A x \in Range(f), y \in Range(c) : x.seq < y.seq
  BY QueueFields DEF QueueOK, InOrder
<1>2. i \in 1 .. Len(f) /\ f[i].seq = seq
  <2>1. DOMAIN f = 1 .. Len(f)
    BY <1>1, SequenceFacts
  <2> QED BY <2>1 DEF Owns
<1> HIDE DEF i
<1>3. /\ r \in Range(f) /\ r \in Record /\ r \in Held(q) /\ r.seq = seq /\ seq \in Nat
  <2>1. r \in Range(f) /\ r \in Record
    BY <1>1, <1>2, SequenceFacts
  <2> QED BY <1>2, <2>1, RecordFields DEF Held
<1>4. Requeued(q, seq) = n
  <2>1. ~\E j \in DOMAIN q.chunks : q.chunks[j].seq = seq
    <3> SUFFICES ASSUME NEW j \in DOMAIN c, c[j].seq = seq PROVE FALSE
      OBVIOUS
    <3>1. c[j] \in Range(c)
      BY <1>1, SequenceFacts
    <3>2. r.seq < c[j].seq
      BY <1>1, <1>3, <3>1
    <3> QED BY <1>3, <3>2
  <2>2. Requeued(q, seq) = [out EXCEPT !.chunks = <<r>> \o @, !.queuedBytes = @ + r.bytes]
    BY <2>1 DEF Requeued, i
  <2>3. out.chunks = c /\ out.queuedBytes = q.queuedBytes
    BY <1>1 DEF Queue
  <2>4. Requeued(q, seq) = [out EXCEPT !.chunks = c2, !.queuedBytes = m]
    BY <2>2, <2>3
  <2> HIDE DEF w, k, c2, m
  <2>5. [out EXCEPT !.chunks = c2, !.queuedBytes = m] = n
    BY <1>1, SMT DEF Queue
  <2> QED BY <2>4, <2>5
<1>5. /\ w \in Seq(Record) /\ Len(w) = Len(f) - 1 /\ Ascending(w) /\ Range(w) = Range(f) \ {r}
  <2>1. \A j \in 1 .. Len(f) : j # i => f[j] # f[i]
    BY <1>2, DistinctRecords
  <2> QED BY <1>1, <1>2, <2>1, RemoveAtProperties, AscendingRemoveAt, RangeRemoveAt
<1> HIDE DEF r, w
<1>6. <<r>> \in Seq(Record) /\ Range(<<r>>) = {r} /\ Ascending(<<r>>) /\ Len(<<r>>) = 1
      /\ <<r>>[1] = r
  <2>1. <<r>> \in Seq(Record) /\ Len(<<r>>) = 1 /\ <<r>>[1] = r
    BY <1>3
  <2>2. Range(<<r>>) = {<<r>>[j] : j \in 1 .. 1}
    BY <2>1, RangeEquality
  <2>3. Ascending(<<r>>)
    <3>1. DOMAIN <<r>> = 1 .. 1
      BY <2>1, SequenceFacts
    <3>2. \A a, b \in 1 .. 1 : ~(a < b)
      OBVIOUS
    <3> QED BY <3>1, <3>2 DEF Ascending
  <2>4. Range(<<r>>) = {r}
    <3>1. \A j \in 1 .. 1 : j = 1
      OBVIOUS
    <3>2. 1 \in 1 .. 1
      OBVIOUS
    <3> QED BY <2>1, <2>2, <3>1, <3>2
  <2> QED BY <2>1, <2>3, <2>4
<1>7. /\ c2 \in Seq(Record) /\ Len(c2) = 1 + Len(c) /\ Range(c2) = {r} \cup Range(c)
      /\ Ascending(c2)
      /\ \A j \in 1 .. 1 + Len(c) : c2[j] = IF j <= 1 THEN <<r>>[j] ELSE c[j - 1]
  <2>1. /\ c2 \in Seq(Record) /\ Len(c2) = 1 + Len(c)
        /\ \A j \in 1 .. 1 + Len(c) : c2[j] = IF j <= 1 THEN <<r>>[j] ELSE c[j - 1]
    BY <1>1, <1>6, ConcatProperties
  <2>2. Range(c2) = {r} \cup Range(c)
    <3> DEFINE one == <<r>>
    <3>1. one \in Seq(Record) /\ Range(one) = {r} /\ c2 = one \o c
      BY <1>6
    <3> HIDE DEF one
    <3>2. Range(one \o c) = Range(one) \cup Range(c)
      BY <1>1, <3>1, RangeConcatenation
    <3> QED BY <3>1, <3>2
  <2>3. \A x \in Range(<<r>>), y \in Range(c) : x.seq < y.seq
    BY <1>1, <1>3, <1>6
  <2>4. Ascending(c2)
    BY <1>1, <1>6, <2>3, AscendingConcat
  <2> QED BY <2>1, <2>2, <2>4
<1>8. k \in Int /\ m \in Int /\ k + m = q.queuedBytes + q.inFlightBytes
  <2>1. r.bytes \in Nat
    BY <1>3, RecordFields
  <2> QED BY <1>1, <2>1
<1> HIDE DEF k, m, c2
<1>9. n.chunks = c2 /\ n.queuedBytes = m /\ n.inFlight = w /\ n.inFlightBytes = k
  BY <1>1 DEF Queue
<1>10. /\ n.live = q.live /\ n.gen = q.gen /\ n.next = q.next /\ n.paused = q.paused
       /\ n.closing = q.closing /\ n.hydrated = q.hydrated /\ n.exitQueued = q.exitQueued
       /\ n.verdict = q.verdict /\ n.produced = q.produced /\ n.acked = q.acked
  BY <1>1 DEF Queue
<1>11. n = [x \in DOMAIN q |-> n[x]]
  BY <1>1, Zenon DEF Queue
<1> HIDE DEF n
<1>12. n \in Queue
  BY <1>1, <1>5, <1>7, <1>8, <1>9, <1>10, <1>11, QueueFields, QueueUpdate
<1>13. Held(n) = Held(q)
  BY <1>3, <1>5, <1>7, <1>9 DEF Held
<1>14. InOrder(n)
  <2>1. ASSUME NEW x \in Range(w), NEW y \in Range(c2)
        PROVE  x.seq < y.seq
    <3>1. x \in Range(f) /\ x # r /\ x \in Held(q) /\ x \in Record
      BY <1>1, <1>5, SequenceFacts DEF Held
    <3>2. x.seq # r.seq /\ x.seq \in Nat
      BY <1>3, <3>1, DistinctRecords, RecordFields
    <3>3. x.seq <= seq
      BY <3>1
    <3>4. CASE y = r
      BY <1>3, <3>2, <3>3, <3>4
    <3>5. CASE y \in Range(c)
      BY <1>1, <3>1, <3>5
    <3> QED BY <1>7, <3>4, <3>5
  <2>2. \A x \in Held(n) : x.seq < n.next
    BY <1>10, <1>13 DEF QueueOK, InOrder
  <2> QED BY <1>5, <1>7, <1>9, <2>1, <2>2 DEF InOrder
<1>15. SealedInFlight(n)
  BY <1>5, <1>9 DEF QueueOK, SealedInFlight
<1>16. OpenTail(n)
  <2>1. Len(c) \in Nat /\ (c = <<>> <=> Len(c) = 0)
    BY <1>1, SequenceFacts
  <2>2. CASE c = <<>>
    <3>1. Len(c2) = 1 /\ c2[1] = r
      BY <1>6, <1>7, <2>1, <2>2
    <3>2. r.sealed
      BY <1>3 DEF QueueOK, SealedInFlight
    <3> QED BY <1>9, <3>1, <3>2 DEF OpenTail
  <2>3. CASE c # <<>>
    <3>1. 1 + Len(c) \in 1 .. 1 + Len(c) /\ ~(1 + Len(c) <= 1) /\ (1 + Len(c)) - 1 = Len(c)
      BY <2>1, <2>3
    <3>2. c2[Len(c2)] = c[Len(c)]
      BY <1>7, <3>1
    <3> QED BY <1>9, <1>10, <2>3, <3>2 DEF OpenTail, QueueOK
  <2> QED BY <2>2, <2>3
<1>17. AllHeld(n)
  BY <1>3, <1>10, <1>13, EmptyLedger DEF AllHeld, QueueOK
<1>18. BelowHighWater(n)
  <2>1. RetainedBytes(n) = RetainedBytes(q)
    BY <1>8, <1>9 DEF RetainedBytes
  <2>2. Len(c2) + Len(w) = Len(c) + Len(f)
    <3> DEFINE lc == Len(c)
               lf == Len(f)
    <3>1. lc \in Nat /\ lf \in Nat /\ Len(c2) = 1 + lc /\ Len(w) = lf - 1
      BY <1>1, <1>5, <1>7, SequenceFacts
    <3> HIDE DEF lc, lf
    <3>2. Len(c2) + Len(w) = lc + lf
      BY <3>1
    <3> QED BY <3>2 DEF lc, lf
  <2>3. RetainedChunks(n) = RetainedChunks(q)
    BY <1>9, <2>2 DEF RetainedChunks
  <2> QED BY <1>10, <2>1, <2>3 DEF BelowHighWater, QueueOK
<1>19. QueueOK(n)
  <2>1. n.live
    <3>1. f # <<>>
      BY <1>3, EmptyLedger
    <3> QED BY <1>10, <3>1 DEF QueueOK
  <2>2. \A x \in Held(n) : IsData(x) <=> ~n.exitQueued
    BY <1>10, <1>13, <2>1 DEF QueueOK
  <2>3. n.verdict # "delivered" /\ (n.exitQueued => n.closing)
    BY <1>10, <2>1 DEF QueueOK
  <2> QED BY <1>12, <1>14, <1>15, <1>16, <1>17, <1>18, <2>1, <2>2, <2>3 DEF QueueOK
<1> QED BY <1>4, <1>10, <1>13, <1>19

(* Coalescing replaces the last record by a longer one.                    *)
LEMMA GrowLast ==
  ASSUME NEW c \in Seq(Record), c # <<>>, Ascending(c), NEW e \in Record,
         e.seq = c[Len(c)].seq
  PROVE  LET d == [c EXCEPT ![Len(c)] = e] IN
           /\ d \in Seq(Record) /\ Len(d) = Len(c) /\ d # <<>> /\ d[Len(d)] = e
           /\ Ascending(d)
           /\ Range(d) = (Range(c) \ {c[Len(c)]}) \cup {e}
           /\ c[Len(c)] \in Range(c)
<1> DEFINE l == Len(c)
           d == [c EXCEPT ![l] = e]
<1>1. l \in Nat \ {0} /\ DOMAIN c = 1 .. l /\ \A j \in 1 .. l : c[j] \in Range(c) /\ c[j] \in Record
  BY SequenceFacts
<1>2. l \in 1 .. l
  BY <1>1
<1>3. d \in Seq(Record) /\ Len(d) = l /\ \A j \in 1 .. l : d[j] = IF j = l THEN e ELSE c[j]
  BY <1>2, ExceptSeq
<1> HIDE DEF l, d
<1>4. d # <<>> /\ d[Len(d)] = e
  BY <1>1, <1>2, <1>3, EmptyLedger
<1>5. DOMAIN d = 1 .. l
  BY <1>3, SequenceFacts
<1>6. \A j \in 1 .. l : d[j].seq = c[j].seq
  <2> SUFFICES ASSUME NEW j \in 1 .. l PROVE d[j].seq = c[j].seq
    OBVIOUS
  <2>1. CASE j = l
    BY <1>3, <2>1 DEF l
  <2>2. CASE j # l
    BY <1>3, <2>2
  <2> QED BY <2>1, <2>2
<1>7. Ascending(d)
  <2> SUFFICES ASSUME NEW j \in 1 .. l, NEW k \in 1 .. l, j < k PROVE d[j].seq < d[k].seq
    BY <1>5 DEF Ascending
  <2>1. c[j].seq < c[k].seq
    BY <1>1 DEF Ascending
  <2> QED BY <1>6, <2>1
<1>8. Range(c) = {c[j] : j \in 1 .. l} /\ Range(d) = {d[j] : j \in 1 .. l}
  BY <1>3, RangeEquality DEF l
<1>9. \A j \in 1 .. l : j # l => c[j] # c[l]
  <2> SUFFICES ASSUME NEW j \in 1 .. l, j # l PROVE c[j] # c[l]
    OBVIOUS
  <2>1. j < l
    BY <1>1
  <2>2. c[j].seq < c[l].seq
    BY <1>1, <1>2, <2>1 DEF Ascending
  <2>3. c[l].seq \in Nat
    BY <1>1, <1>2, RecordFields
  <2> QED BY <2>2, <2>3
<1>10. Range(d) = (Range(c) \ {c[l]}) \cup {e}
  <2>1. ASSUME NEW x \in Range(d) PROVE x \in (Range(c) \ {c[l]}) \cup {e}
    <3>1. PICK j \in 1 .. l : x = d[j]
      BY <1>8
    <3> QED BY <1>1, <1>3, <1>9, <3>1
  <2>2. ASSUME NEW x \in (Range(c) \ {c[l]}) \cup {e} PROVE x \in Range(d)
    <3>1. CASE x = e
      BY <1>2, <1>3, <1>8, <3>1
    <3>2. CASE x # e
      <4>1. PICK j \in 1 .. l : x = c[j] /\ j # l
        BY <1>8, <3>2
      <4> QED BY <1>3, <1>8, <4>1
    <3> QED BY <3>1, <3>2
  <2> QED BY <2>1, <2>2
<1> QED BY <1>1, <1>2, <1>3, <1>4, <1>7, <1>10 DEF l, d

(* An admitted quantum is held, by a new record or by the growing last     *)
(* one, and stays below high water.                                        *)
LEMMA AdmittedOK ==
  ASSUME NEW q, QueueOK(q), q.live, ~q.closing, NEW rdy \in BOOLEAN, ResumeOwed(q, rdy),
         NEW n \in 1 .. ChunkBytes, ~OverHighWater(q, n)
  PROVE  LET a == Admitted(q, n) IN
           /\ QueueOK(a) /\ a.live /\ ~a.closing /\ a.hydrated = q.hydrated
           /\ a.inFlight = q.inFlight /\ ResumeOwed(a, rdy)
<1> DEFINE c == q.chunks
           f == q.inFlight
           new == DataRecord(q.next, q.produced, n)
           tail == c[Len(c)]
           long == Grown(tail, n)
           c2 == Extended(q, n)
           x2 == IF Coalesces(q, n) THEN q.next ELSE q.next + 1
           b2 == q.queuedBytes + n
           p2 == q.produced + n
           full == [q EXCEPT !.chunks = c2, !.next = x2, !.queuedBytes = b2, !.produced = p2]
           more == (q.produced + 1) .. (q.produced + n)
           all == 1 .. q.produced
<1>1. /\ q \in Queue /\ c \in Seq(Record) /\ f \in Seq(Record)
      /\ Ascending(f) /\ Ascending(c) /\ q.next \in Nat /\ q.produced \in Nat
      /\ q.queuedBytes \in Int /\ q.inFlightBytes \in Int
      /\ n \in Nat /\ ~q.exitQueued
      /\ \A r \in Held(q) : r.seq < q.next
      /\ \A x \in Range(f), y \in Range(c) : x.seq < y.seq
  <2>1. n \in Nat
    BY Constants
  <2> QED BY <2>1, QueueFields DEF QueueOK, InOrder
<1>2. Admitted(q, n) = IF RetainedBytes(full) >= MaxBytes \/ RetainedChunks(full) >= MaxChunks
                       THEN Paused(full) ELSE full
  BY DEF Admitted
<1>3. new \in Record /\ new.seq = q.next /\ IsData(new) /\ Covers(new) = more
      /\ new.from + new.bytes = p2
  <2>1. new \in Record /\ new.seq = q.next /\ IsData(new)
    BY <1>1 DEF DataRecord, Record, IsData
  <2>2. new.from = q.produced /\ new.bytes = n
    BY DEF DataRecord
  <2> QED BY <2>1, <2>2 DEF Covers
<1>4. /\ all \cap more = {} /\ 1 .. p2 = all \cup more /\ p2 \in Nat /\ b2 \in Int /\ x2 \in Nat
      /\ q.next <= x2
  BY <1>1
<1>5. Partitions(all, q.acked, Held(q))
  BY DEF QueueOK, AllHeld
<1> HIDE DEF new, all, more
<1>6. /\ c2 \in Seq(Record) /\ Ascending(c2) /\ c2 # <<>>
      /\ c2[Len(c2)].from + c2[Len(c2)].bytes = p2
      /\ \A x \in Range(f), y \in Range(c2) : x.seq < y.seq
      /\ \A y \in Range(c2) : y.seq < x2 /\ IsData(y)
      /\ Partitions(all \cup more, q.acked, Range(f) \cup Range(c2))
      /\ Len(c2) = Len(c) + (IF Coalesces(q, n) THEN 0 ELSE 1)
  <2>0. \A y \in Range(c) : y.seq < q.next /\ IsData(y)
    BY <1>1 DEF QueueOK, Held
  <2>1. CASE Coalesces(q, n)
    <3>1. c # <<>> /\ IsData(tail) /\ ~tail.sealed /\ x2 = q.next /\ c2 = [c EXCEPT ![Len(c)] = long]
      BY <2>1 DEF Coalesces, Extended
    <3>2. tail \in Range(c) /\ tail \in Record /\ tail.from + tail.bytes = q.produced
      <4>1. Len(c) \in 1 .. Len(c)
        BY <1>1, <3>1, SequenceFacts
      <4>2. tail.from + tail.bytes = q.produced
        BY <3>1 DEF QueueOK, OpenTail
      <4> QED BY <1>1, <4>1, <4>2, SequenceFacts
    <3>3. tail.bytes + n \in Nat /\ tail.from \in Nat /\ tail.bytes \in Nat
      BY <1>1, <3>2, RecordFields, SMTT(60)
    <3> HIDE DEF tail
    <3>4. /\ long \in Record /\ long.seq = tail.seq /\ IsData(long)
          /\ long.from = tail.from /\ long.bytes = tail.bytes + n
      BY <3>1, <3>2, <3>3 DEF Grown, Record, IsData
    <3>5. Covers(long) = Covers(tail) \cup more /\ long.from + long.bytes = p2
      <4> DEFINE fr == tail.from
                 by == tail.bytes
      <4>1. Covers(long) = (fr + 1) .. (fr + (by + n)) /\ Covers(tail) = (fr + 1) .. (fr + by)
        BY <3>4 DEF Covers
      <4>2. fr \in Nat /\ by \in Nat /\ q.produced = fr + by
        BY <3>2, <3>3
      <4> HIDE DEF fr, by
      <4>3. (fr + 1) .. (fr + (by + n)) = ((fr + 1) .. (fr + by)) \cup ((fr + by + 1) .. (fr + by + n))
        BY <1>1, <4>2
      <4>4. fr + (by + n) = p2
        BY <1>1, <4>2
      <4> QED BY <3>4, <4>1, <4>2, <4>3, <4>4 DEF fr, by, more
    <3> HIDE DEF long, c2
    <3>6. /\ c2 \in Seq(Record) /\ Len(c2) = Len(c) /\ c2 # <<>> /\ c2[Len(c2)] = long
          /\ Ascending(c2) /\ Range(c2) = (Range(c) \ {tail}) \cup {long}
      <4>1. long.seq = c[Len(c)].seq
        BY <3>4 DEF tail
      <4> HIDE DEF c
      <4>2. /\ [c EXCEPT ![Len(c)] = long] \in Seq(Record)
            /\ Len([c EXCEPT ![Len(c)] = long]) = Len(c)
            /\ [c EXCEPT ![Len(c)] = long] # <<>>
            /\ [c EXCEPT ![Len(c)] = long][Len([c EXCEPT ![Len(c)] = long])] = long
            /\ Ascending([c EXCEPT ![Len(c)] = long])
            /\ Range([c EXCEPT ![Len(c)] = long]) = (Range(c) \ {c[Len(c)]}) \cup {long}
        BY <1>1, <3>1, <3>4, <4>1, GrowLast
      <4> QED BY <3>1, <4>2 DEF tail
    <3>7. Partitions(all \cup more, q.acked, Range(f) \cup Range(c2))
      <4>1. tail \in Held(q) /\ Held(q) = Range(f) \cup Range(c)
        BY <3>2 DEF Held
      <4>2. more \cap all = {}
        BY <1>4
      <4>3. Partitions(all \cup more, q.acked, (Held(q) \ {tail}) \cup {long})
        BY <1>5, <3>5, <4>1, <4>2, ReplaceHeld
      <4>4. tail \notin Range(f)
        <5>1. tail.seq \in Nat
          BY <3>2, RecordFields
        <5> QED BY <1>1, <3>2, <5>1
      <4>5. (Held(q) \ {tail}) \cup {long} = Range(f) \cup Range(c2)
        BY <3>6, <4>1, <4>4
      <4> QED BY <4>3, <4>5
    <3>8. \A x \in Range(f), y \in Range(c2) : x.seq < y.seq
      BY <1>1, <3>2, <3>4, <3>6
    <3>9. \A y \in Range(c2) : y.seq < x2 /\ IsData(y)
      BY <2>0, <3>1, <3>2, <3>4, <3>6
    <3>10. Len(c2) = Len(c) + (IF Coalesces(q, n) THEN 0 ELSE 1)
      <4>1. Len(c) \in Nat
        BY <1>1, SequenceFacts
      <4> DEFINE lc == Len(c)
      <4> HIDE DEF lc
      <4>2. lc \in Nat /\ Len(c2) = lc
        BY <3>6, <4>1 DEF lc
      <4>3. Len(c2) = lc + 0
        BY <4>2
      <4> QED BY <2>1, <4>3 DEF lc
    <3> QED BY <3>5, <3>6, <3>7, <3>8, <3>9, <3>10
  <2>2. CASE ~Coalesces(q, n)
    <3>1. c2 = Append(c, new) /\ x2 = q.next + 1
      BY <2>2 DEF Extended, new
    <3>2. \A y \in Range(c) : y.seq < new.seq
      <4>1. new.seq = q.next
        BY <1>3
      <4> QED BY <2>0, <4>1, Zenon
    <3> HIDE DEF c2
    <3>3. /\ c2 \in Seq(Record) /\ Ascending(c2) /\ Range(c2) = Range(c) \cup {new}
          /\ Len(c2) = Len(c) + 1 /\ c2[Len(c2)] = new
      <4>1. Len(c) \in Nat
        BY <1>1, SequenceFacts
      <4> QED BY <1>1, <1>3, <3>1, <3>2, <4>1, AppendProperties, RangeAppend, AscendingAppend
    <3>4. c2 # <<>>
      BY <3>3, EmptyLedger
    <3>5. Partitions(all \cup more, q.acked, Range(f) \cup Range(c2))
      <4>1. Covers(new) \cap all = {}
        BY <1>3, <1>4
      <4>2. Partitions(all \cup Covers(new), q.acked, Held(q) \cup {new})
        BY <1>5, <4>1, AddHeld
      <4>3. Held(q) \cup {new} = Range(f) \cup Range(c2)
        BY <3>3 DEF Held
      <4> QED BY <1>3, <4>2, <4>3
    <3>6. \A x \in Range(f) : x.seq < new.seq
      BY <1>1, <1>3 DEF Held
    <3>7. \A y \in Range(c2) : y.seq < x2 /\ IsData(y)
      <4>1. \A y \in Range(c) : y.seq \in Nat
        BY <1>1, SequenceFacts, RecordFields
      <4> QED BY <1>1, <1>3, <2>0, <3>1, <3>3, <4>1
    <3> QED BY <1>1, <1>3, <2>2, <3>3, <3>4, <3>5, <3>6, <3>7
  <2> QED BY <2>1, <2>2
<1> HIDE DEF c2, x2, b2, p2
<1>7. full.chunks = c2 /\ full.next = x2 /\ full.queuedBytes = b2 /\ full.produced = p2
  BY <1>1 DEF Queue
<1>8. /\ full.live = q.live /\ full.gen = q.gen /\ full.inFlight = f
      /\ full.inFlightBytes = q.inFlightBytes /\ full.paused = q.paused
      /\ full.closing = q.closing /\ full.hydrated = q.hydrated
      /\ full.exitQueued = q.exitQueued /\ full.verdict = q.verdict /\ full.acked = q.acked
  BY <1>1 DEF Queue
<1>9. full = [x \in DOMAIN q |-> full[x]]
  BY <1>1, Zenon DEF Queue
<1> HIDE DEF full
<1>10. full \in Queue
  BY <1>1, <1>4, <1>6, <1>7, <1>8, <1>9, QueueFields, QueueUpdate
<1>11. Held(full) = Range(f) \cup Range(c2)
  BY <1>7, <1>8 DEF Held
<1>12. InOrder(full)
  <2>1. \A r \in Range(f) : r.seq < x2
    <3> SUFFICES ASSUME NEW r \in Range(f) PROVE r.seq < x2
      OBVIOUS
    <3>1. r \in Record /\ r \in Held(q)
      BY <1>1, SequenceFacts DEF Held
    <3>2. r.seq \in Nat /\ r.seq < q.next
      BY <1>1, <3>1, RecordFields
    <3> QED BY <1>1, <1>4, <3>2
  <2> QED BY <1>1, <1>6, <1>7, <1>8, <1>11, <2>1 DEF InOrder
<1>13. SealedInFlight(full)
  BY <1>8 DEF QueueOK, SealedInFlight
<1>14. OpenTail(full)
  BY <1>6, <1>7 DEF OpenTail
<1>15. AllHeld(full)
  BY <1>4, <1>6, <1>7, <1>8, <1>11 DEF AllHeld
<1>16. /\ RetainedBytes(full) = RetainedBytes(q) + n /\ RetainedBytes(q) \in Int
       /\ RetainedChunks(full) = RetainedChunks(q) + (IF Coalesces(q, n) THEN 0 ELSE 1)
       /\ RetainedChunks(q) \in Int
  <2>1. RetainedBytes(full) = RetainedBytes(q) + n /\ RetainedBytes(q) \in Int
    BY <1>1, <1>7, <1>8 DEF RetainedBytes, b2
  <2> DEFINE lc == Len(c)
             lf == Len(f)
             one == IF Coalesces(q, n) THEN 0 ELSE 1
  <2>2. lc \in Nat /\ lf \in Nat /\ one \in Nat /\ Len(c2) = lc + one
    BY <1>1, <1>6, SequenceFacts
  <2>3. RetainedChunks(full) = Len(c2) + lf /\ RetainedChunks(q) = lc + lf
    BY <1>7, <1>8 DEF RetainedChunks
  <2> HIDE DEF lc, lf, one
  <2>4. RetainedChunks(full) = RetainedChunks(q) + one /\ RetainedChunks(q) \in Int
    BY <2>2, <2>3
  <2> QED BY <2>1, <2>4 DEF one
<1>17. BelowHighWater(full)
  <2>1. /\ RetainedBytes(q) + n <= MaxBytes
        /\ RetainedChunks(q) + (IF Coalesces(q, n) THEN 0 ELSE 1) <= MaxChunks
    <3> DEFINE one == IF Coalesces(q, n) THEN 0 ELSE 1
    <3>1. one \in Nat /\ ~(RetainedBytes(q) + n > MaxBytes) /\ ~(RetainedChunks(q) + one > MaxChunks)
      BY DEF OverHighWater
    <3> HIDE DEF one
    <3>2. RetainedBytes(q) + n <= MaxBytes /\ RetainedChunks(q) + one <= MaxChunks
      BY <1>1, <1>16, <3>1, Constants
    <3> QED BY <3>2 DEF one
  <2>2. ~full.exitQueued
    BY <1>1, <1>8
  <2> DEFINE rc == RetainedChunks(full)
  <2>3. RetainedBytes(full) <= MaxBytes /\ rc <= MaxChunks /\ rc \in Int
    BY <1>16, <2>1
  <2> HIDE DEF rc
  <2>4. rc <= MaxChunks + 0
    BY <2>3, Constants
  <2> QED BY <2>2, <2>3, <2>4 DEF BelowHighWater, rc
<1>18. QueueOK(full)
  <2>1. \A r \in Held(full) : IsData(r)
    BY <1>1, <1>6, <1>11 DEF QueueOK, Held
  <2>2. full.verdict # "delivered" /\ ~full.exitQueued /\ full.live
    BY <1>1, <1>8 DEF QueueOK
  <2> QED BY <1>10, <1>12, <1>13, <1>14, <1>15, <1>17, <2>1, <2>2 DEF QueueOK
<1>19. CASE RetainedBytes(full) >= MaxBytes \/ RetainedChunks(full) >= MaxChunks
  <2> DEFINE a == [full EXCEPT !.paused = TRUE]
  <2>1. Admitted(q, n) = a
    BY <1>2, <1>19 DEF Paused
  <2>2. RetainedBytes(full) > LowBytes \/ RetainedChunks(full) > LowChunks
    <3> DEFINE rb == RetainedBytes(full)
               rc == RetainedChunks(full)
    <3>1. rb \in Int /\ rc \in Int /\ (rb >= MaxBytes \/ rc >= MaxChunks)
      BY <1>1, <1>16, <1>19
    <3> HIDE DEF rb, rc
    <3>2. rb > LowBytes \/ rc > LowChunks
      BY <3>1, Constants
    <3> QED BY <3>2 DEF rb, rc
  <2>3. /\ QueueOK(a) /\ a.live = full.live /\ a.closing = full.closing
        /\ a.inFlight = full.inFlight /\ a.hydrated = full.hydrated
        /\ RetainedBytes(a) = RetainedBytes(full) /\ RetainedChunks(a) = RetainedChunks(full)
    BY <1>18, FlagsOK
  <2> QED BY <1>8, <2>1, <2>2, <2>3 DEF ResumeOwed
<1>20. CASE ~(RetainedBytes(full) >= MaxBytes \/ RetainedChunks(full) >= MaxChunks)
  <2>1. Admitted(q, n) = full
    BY <1>2, <1>20
  <2>2. ASSUME CanDeliver(full, rdy), full.paused
        PROVE  RetainedBytes(full) > LowBytes \/ RetainedChunks(full) > LowChunks
    <3>1. CanDeliver(q, rdy) /\ q.paused
      BY <1>8, <2>2 DEF CanDeliver
    <3>2. RetainedBytes(q) > LowBytes \/ RetainedChunks(q) > LowChunks
      BY <3>1 DEF ResumeOwed
    <3>3. RetainedBytes(full) >= RetainedBytes(q) /\ RetainedChunks(full) >= RetainedChunks(q)
          /\ RetainedBytes(full) \in Int /\ RetainedChunks(full) \in Int
          /\ RetainedBytes(q) \in Int /\ RetainedChunks(q) \in Int
      BY <1>1, <1>16
    <3> QED BY <3>2, <3>3, Constants
  <2> QED BY <1>8, <1>18, <2>1, <2>2 DEF ResumeOwed
<1> QED BY <1>19, <1>20

(* A refused quantum pauses a source that is above low water.              *)
LEMMA RefusedOK ==
  ASSUME NEW q, QueueOK(q), q.live, ~q.closing, NEW rdy \in BOOLEAN,
         NEW n \in 1 .. ChunkBytes, OverHighWater(q, n)
  PROVE  LET a == Paused(q) IN
           /\ QueueOK(a) /\ a.live /\ ~a.closing /\ a.hydrated = q.hydrated
           /\ a.inFlight = q.inFlight /\ ResumeOwed(a, rdy)
<1> DEFINE a == [q EXCEPT !.paused = TRUE]
<1>1. /\ QueueOK(a) /\ a.live = q.live /\ a.closing = q.closing
      /\ a.inFlight = q.inFlight /\ a.hydrated = q.hydrated
      /\ RetainedBytes(a) = RetainedBytes(q) /\ RetainedChunks(a) = RetainedChunks(q)
  BY FlagsOK
<1>2. RetainedBytes(q) > LowBytes \/ RetainedChunks(q) > LowChunks
  <2> DEFINE one == IF Coalesces(q, n) THEN 0 ELSE 1
             rb == RetainedBytes(q)
             rc == RetainedChunks(q)
  <2>1. rb \in Int /\ rc \in Nat
    <3>1. q.chunks \in Seq(Record) /\ q.inFlight \in Seq(Record)
      BY QueueFields DEF QueueOK
    <3> QED BY <3>1, Retention
  <2>2. one \in 0 .. 1 /\ (rb + n > MaxBytes \/ rc + one > MaxChunks)
    BY DEF OverHighWater
  <2> HIDE DEF one, rb, rc
  <2>3. rb > LowBytes \/ rc > LowChunks
    BY <2>1, <2>2, Constants
  <2> QED BY <2>3 DEF rb, rc
<1> QED BY <1>1, <1>2 DEF Paused, ResumeOwed

(* A registered queue starts within the invariant.                         *)
LEMMA NewQueueOK ==
  ASSUME NEW g \in Nat
  PROVE  LET q == NewQueue(g) IN
           QueueOK(q) /\ q.live /\ ~q.closing /\ ~q.hydrated /\ q.inFlight = <<>> /\ q.gen = g
<1> DEFINE q == NewQueue(g)
<1>1. /\ q.live /\ q.gen = g /\ q.chunks = <<>> /\ q.queuedBytes = 0 /\ q.inFlight = <<>>
      /\ q.inFlightBytes = 0 /\ q.next = 1 /\ ~q.paused /\ ~q.closing /\ ~q.hydrated
      /\ ~q.exitQueued /\ q.verdict = "none" /\ q.produced = 0 /\ q.acked = {}
  BY DEF NewQueue
<1>2. q \in Queue
  <2>1. <<>> \in Seq(Record)
    BY EmptyLedger
  <2> QED BY <2>1 DEF NewQueue, Queue
<1> HIDE DEF q
<1>3. Held(q) = {}
  BY <1>1, EmptyLedger DEF Held
<1>4. InOrder(q) /\ SealedInFlight(q) /\ OpenTail(q)
  BY <1>1, <1>3, EmptyLedger DEF InOrder, SealedInFlight, OpenTail
<1>5. AllHeld(q)
  BY <1>1, <1>3 DEF AllHeld, Partitions
<1>6. BelowHighWater(q)
  <2>1. RetainedBytes(q) = 0 /\ RetainedChunks(q) = 0
    BY <1>1, EmptyLedger DEF RetainedBytes, RetainedChunks
  <2> QED BY <1>1, <2>1, Constants DEF BelowHighWater
<1>7. QueueOK(q)
  BY <1>1, <1>2, <1>3, <1>4, <1>5, <1>6 DEF QueueOK
<1> QED BY <1>1, <1>7 DEF q

(* A detached queue has nothing in flight and needs a new hydration.       *)
LEMMA DetachedOK ==
  ASSUME NEW q, QueueOK(q)
  PROVE  LET n == Detached(q) IN
           /\ QueueOK(n) /\ n.live = q.live /\ n.closing = q.closing /\ Held(n) = Held(q)
           /\ n.inFlight = <<>> /\ (n.live => ~n.hydrated)
<1> DEFINE p == Replayed(q)
           n == [p EXCEPT !.hydrated = FALSE]
<1>1. /\ QueueOK(p) /\ Held(p) = Held(q) /\ p.inFlight = <<>>
      /\ p.live = q.live /\ p.closing = q.closing
  <2>1. p.live = q.live /\ p.closing = q.closing
    BY DEF Replayed, Queue, QueueOK
  <2> QED BY <2>1, ReplayedOK
<1>2. CASE q.live
  <2>1. Detached(q) = n
    BY <1>2 DEF Detached
  <2> HIDE DEF p
  <2>2. /\ QueueOK(n) /\ Held(n) = Held(p) /\ n.live = p.live /\ n.closing = p.closing
        /\ n.inFlight = p.inFlight /\ n.hydrated = FALSE
    BY <1>1, FlagsOK
  <2> QED BY <1>1, <2>1, <2>2
<1>3. CASE ~q.live
  <2>1. Detached(q) = q
    BY <1>3 DEF Detached
  <2> QED BY <1>3, <2>1 DEF QueueOK
<1> QED BY <1>2, <1>3

-----------------------------------------------------------------------------
(* The queues, the renderer gate and the pump *)

QueueInv(q, rdy) ==
  /\ QueueOK(q) /\ Closing(q) /\ ResumeOwed(q, rdy)
  /\ q.inFlight # <<>> => CanDeliver(q, rdy)

(* A queue only a send adds in-flight records to.                          *)
Shrinks(q, n) == Range(n.inFlight) \subseteq Range(q.inFlight)

(* Clearing or keeping the in-flight records adds none.                    *)
LEMMA ShrinksWhenEmpty ==
  ASSUME NEW q, NEW n, n.inFlight = <<>> \/ n.inFlight = q.inFlight
  PROVE  Shrinks(q, n)
  BY EmptyLedger DEF Shrinks

(* maybeFinishQueue restores the invariant after an acknowledgement.       *)
LEMMA FinishedInv ==
  ASSUME NEW q, QueueOK(q), NEW rdy \in BOOLEAN, ResumeOwed(q, rdy),
         q.inFlight # <<>> => CanDeliver(q, rdy),
         q.live /\ q.closing /\ Held(q) = {} /\ q.exitQueued => CanDeliver(q, rdy)
  PROVE  LET n == Finished(q, rdy) IN
           QueueInv(n, rdy) /\ (n.inFlight = <<>> \/ n.inFlight = q.inFlight)
<1> DEFINE n == Finished(q, rdy)
<1>1. /\ QueueOK(n) /\ Closing(n) /\ ResumeOwed(n, rdy)
      /\ n.inFlight = q.inFlight \/ n.inFlight = <<>>
      /\ n.live => q.live /\ n.hydrated = q.hydrated
  BY FinishedOK
<1> HIDE DEF n
<1>2. n.inFlight # <<>> => n.live
  BY <1>1 DEF QueueOK
<1>3. n.inFlight # <<>> => CanDeliver(n, rdy)
  BY <1>1, <1>2 DEF CanDeliver
<1> QED BY <1>1, <1>3 DEF QueueInv, n

(* maybeResumeSource and then maybeFinishQueue.                            *)
LEMMA ResumedFinishedInv ==
  ASSUME NEW q, QueueOK(q), NEW rdy \in BOOLEAN,
         q.inFlight # <<>> => CanDeliver(q, rdy),
         q.live /\ q.closing /\ Held(q) = {} /\ q.exitQueued => CanDeliver(q, rdy)
  PROVE  LET n == Finished(Resumed(q, rdy), rdy) IN
           QueueInv(n, rdy) /\ (n.inFlight = <<>> \/ n.inFlight = q.inFlight)
<1> DEFINE p == Resumed(q, rdy)
<1>1. /\ QueueOK(p) /\ Held(p) = Held(q) /\ p.live = q.live /\ p.closing = q.closing
      /\ p.inFlight = q.inFlight /\ p.hydrated = q.hydrated /\ ResumeOwed(p, rdy)
  BY ResumedOK
<1>2. p.exitQueued = q.exitQueued
  BY DEF Resumed, QueueOK, Queue
<1> HIDE DEF p
<1>3. CanDeliver(p, rdy) <=> CanDeliver(q, rdy)
  BY <1>1 DEF CanDeliver
<1>4. LET n == Finished(p, rdy) IN
        QueueInv(n, rdy) /\ (n.inFlight = <<>> \/ n.inFlight = p.inFlight)
  BY <1>1, <1>2, <1>3, FinishedInv
<1> QED BY <1>1, <1>4 DEF p

(* enqueue() refuses and pauses, or admits, within the invariant.          *)
LEMMA EnqueueInv ==
  ASSUME NEW q, NEW rdy \in BOOLEAN, QueueInv(q, rdy), q.live, ~q.closing,
         NEW n \in 1 .. ChunkBytes
  PROVE  /\ OverHighWater(q, n) => QueueInv(Paused(q), rdy) /\ Shrinks(q, Paused(q))
                                   /\ Paused(q).live
                                   /\ (Deliverable(Paused(q), rdy) => Deliverable(q, rdy))
         /\ ~OverHighWater(q, n) => QueueInv(Admitted(q, n), rdy) /\ Shrinks(q, Admitted(q, n))
                                    /\ Admitted(q, n).live
<1>1. QueueOK(q) /\ ResumeOwed(q, rdy) /\ (q.inFlight # <<>> => CanDeliver(q, rdy))
  BY DEF QueueInv
<1>2. ASSUME NEW a, QueueOK(a), a.live, ~a.closing, a.hydrated = q.hydrated,
             a.inFlight = q.inFlight, ResumeOwed(a, rdy)
      PROVE  QueueInv(a, rdy) /\ Shrinks(q, a)
  <2>1. CanDeliver(a, rdy) <=> CanDeliver(q, rdy)
    BY <1>2 DEF CanDeliver
  <2> QED BY <1>1, <1>2, <2>1 DEF QueueInv, Closing, Shrinks
<1>3. CASE OverHighWater(q, n)
  <2> DEFINE a == Paused(q)
  <2>1. /\ QueueOK(a) /\ a.live /\ ~a.closing /\ a.hydrated = q.hydrated
        /\ a.inFlight = q.inFlight /\ ResumeOwed(a, rdy)
    BY <1>1, <1>3, RefusedOK
  <2>2. a.chunks = q.chunks
    BY <1>1 DEF Paused, QueueOK, Queue
  <2> HIDE DEF a
  <2>3. Deliverable(a, rdy) => Deliverable(q, rdy)
    BY <2>1, <2>2 DEF Deliverable, CanDeliver
  <2> QED BY <1>2, <1>3, <2>1, <2>3 DEF a
<1>4. CASE ~OverHighWater(q, n)
  <2> DEFINE a == Admitted(q, n)
  <2>1. /\ QueueOK(a) /\ a.live /\ ~a.closing /\ a.hydrated = q.hydrated
        /\ a.inFlight = q.inFlight /\ ResumeOwed(a, rdy)
    BY <1>1, <1>4, AdmittedOK
  <2> HIDE DEF a
  <2> QED BY <1>2, <1>4, <2>1 DEF a
<1> QED BY <1>3, <1>4

(* beginFinish closes a queue within the invariant.                        *)
LEMMA FinishInv ==
  ASSUME NEW q, NEW rdy \in BOOLEAN, QueueInv(q, rdy), q.live, ~q.closing
  PROVE  LET c == [q EXCEPT !.closing = TRUE, !.paused = TRUE, !.verdict = "pending"]
             n == Finished(c, rdy)
         IN QueueInv(n, rdy) /\ Shrinks(q, n)
<1> DEFINE c == [q EXCEPT !.closing = TRUE, !.paused = TRUE, !.verdict = "pending"]
<1>1. QueueOK(q) /\ q \in Queue /\ ~q.exitQueued
  BY DEF QueueInv, QueueOK
<1>2. /\ c.chunks = q.chunks /\ c.inFlight = q.inFlight
      /\ c.queuedBytes = q.queuedBytes /\ c.inFlightBytes = q.inFlightBytes
      /\ c.next = q.next /\ c.produced = q.produced /\ c.acked = q.acked /\ c.live = q.live
      /\ c.exitQueued = q.exitQueued /\ c.closing = TRUE /\ c.verdict = "pending"
      /\ c.hydrated = q.hydrated /\ c.gen = q.gen /\ c.paused = TRUE
  BY <1>1 DEF Queue
<1>3. c = [x \in DOMAIN q |-> c[x]]
  BY <1>1, Zenon DEF Queue
<1> HIDE DEF c
<1>4. c \in Queue
  BY <1>1, <1>2, <1>3, QueueFields, QueueUpdate
<1>5. QueueOK(c)
  BY <1>1, <1>2, <1>4, SameLedger
<1>6. ResumeOwed(c, rdy)
  BY <1>2 DEF ResumeOwed
<1>7. CanDeliver(c, rdy) <=> CanDeliver(q, rdy)
  BY <1>2 DEF CanDeliver
<1>8. LET n == Finished(c, rdy) IN
        QueueInv(n, rdy) /\ (n.inFlight = <<>> \/ n.inFlight = c.inFlight)
  <2>1. c.inFlight # <<>> => CanDeliver(c, rdy)
    BY <1>2, <1>7 DEF QueueInv
  <2> QED BY <1>1, <1>2, <1>5, <1>6, <2>1, FinishedInv
<1>9. Shrinks(q, Finished(c, rdy))
  BY <1>2, <1>8, ShrinksWhenEmpty
<1> QED BY <1>8, <1>9 DEF c

(* The budget of finish() running out touches the waiter only.             *)
LEMMA FinishTimeoutInv ==
  ASSUME NEW q, NEW rdy \in BOOLEAN, QueueInv(q, rdy)
  PROVE  LET n == [q EXCEPT !.verdict = "timeout"] IN
           /\ QueueInv(n, rdy) /\ Shrinks(q, n) /\ n.live = q.live
           /\ Deliverable(n, rdy) <=> Deliverable(q, rdy)
<1> DEFINE n == [q EXCEPT !.verdict = "timeout"]
<1>1. QueueOK(q) /\ q \in Queue
  BY DEF QueueInv, QueueOK
<1>2. /\ n.chunks = q.chunks /\ n.inFlight = q.inFlight
      /\ n.queuedBytes = q.queuedBytes /\ n.inFlightBytes = q.inFlightBytes
      /\ n.next = q.next /\ n.produced = q.produced /\ n.acked = q.acked /\ n.live = q.live
      /\ n.exitQueued = q.exitQueued /\ n.closing = q.closing /\ n.verdict = "timeout"
      /\ n.hydrated = q.hydrated /\ n.paused = q.paused
  BY <1>1 DEF Queue
<1>3. n \in Queue
  BY <1>1 DEF Queue
<1> HIDE DEF n
<1>4. /\ QueueOK(n) /\ Held(n) = Held(q)
      /\ RetainedBytes(n) = RetainedBytes(q) /\ RetainedChunks(n) = RetainedChunks(q)
  BY <1>1, <1>2, <1>3, SameLedger
<1>5. CanDeliver(n, rdy) <=> CanDeliver(q, rdy)
  BY <1>2 DEF CanDeliver
<1>6. Deliverable(n, rdy) <=> Deliverable(q, rdy)
  BY <1>2, <1>5 DEF Deliverable
<1>7. Closing(n) /\ ResumeOwed(n, rdy)
  BY <1>2, <1>4, <1>5 DEF QueueInv, Closing, ResumeOwed
<1>8. QueueInv(n, rdy) /\ Shrinks(q, n)
  BY <1>2, <1>4, <1>5, <1>7 DEF QueueInv, Shrinks
<1> QED BY <1>2, <1>6, <1>8 DEF n

(* A cancelled queue satisfies the invariant whatever the gate is.         *)
LEMMA RemovedInv ==
  ASSUME NEW q, QueueOK(q), NEW rdy
  PROVE  LET n == Removed(q, FALSE) IN
           QueueInv(n, rdy) /\ Shrinks(q, n) /\ ~n.live /\ ~Deliverable(n, rdy)
<1> DEFINE n == Removed(q, FALSE)
<1>1. QueueOK(n) /\ ~n.live /\ n.chunks = <<>> /\ n.inFlight = <<>> /\ Held(n) = {}
  BY RemovedOK
<1> HIDE DEF n
<1>2. ~CanDeliver(n, rdy)
  BY <1>1 DEF CanDeliver
<1>3. QueueInv(n, rdy)
  BY <1>1, <1>2 DEF QueueInv, Closing, ResumeOwed
<1>4. Shrinks(q, n) /\ ~Deliverable(n, rdy)
  BY <1>1, <1>2, EmptyLedger DEF Shrinks, Deliverable
<1> QED BY <1>1, <1>3, <1>4 DEF n

(* Losing the viewer satisfies the invariant under any later gate.         *)
LEMMA DetachedInv ==
  ASSUME NEW q, QueueOK(q), Closing(q), NEW rdy
  PROVE  LET n == Detached(q) IN
           QueueInv(n, rdy) /\ Shrinks(q, n) /\ n.live = q.live /\ ~Deliverable(n, rdy)
           /\ n.inFlight = <<>>
<1> DEFINE n == Detached(q)
<1>1. /\ QueueOK(n) /\ n.live = q.live /\ n.closing = q.closing /\ Held(n) = Held(q)
      /\ n.inFlight = <<>> /\ (n.live => ~n.hydrated)
  BY DetachedOK
<1> HIDE DEF n
<1>2. ~CanDeliver(n, rdy)
  BY <1>1 DEF CanDeliver
<1>3. QueueInv(n, rdy)
  BY <1>1, <1>2 DEF QueueInv, Closing, ResumeOwed
<1>4. Shrinks(q, n) /\ ~Deliverable(n, rdy)
  BY <1>1, <1>2, EmptyLedger DEF Shrinks, Deliverable
<1> QED BY <1>1, <1>3, <1>4 DEF n

(* hydrateTerminal() within a ready document.                              *)
LEMMA HydrateInv ==
  ASSUME NEW q, QueueInv(q, TRUE)
  PROVE  LET h == [q EXCEPT !.hydrated = TRUE]
             n == Finished(Resumed(h, TRUE), TRUE)
         IN QueueInv(n, TRUE) /\ Shrinks(q, n)
<1> DEFINE h == [q EXCEPT !.hydrated = TRUE]
<1>1. QueueOK(q) /\ Closing(q) /\ (q.inFlight # <<>> => CanDeliver(q, TRUE))
  BY DEF QueueInv
<1>2. /\ QueueOK(h) /\ Held(h) = Held(q) /\ h.live = q.live /\ h.closing = q.closing
      /\ h.inFlight = q.inFlight /\ h.hydrated
  BY <1>1, FlagsOK
<1> HIDE DEF h
<1>3. h.inFlight # <<>> => CanDeliver(h, TRUE)
  BY <1>1, <1>2 DEF CanDeliver
<1>4. ~(h.live /\ h.closing /\ Held(h) = {})
  BY <1>1, <1>2 DEF Closing
<1>5. LET n == Finished(Resumed(h, TRUE), TRUE) IN
        QueueInv(n, TRUE) /\ (n.inFlight = <<>> \/ n.inFlight = h.inFlight)
  BY <1>2, <1>3, <1>4, ResumedFinishedInv
<1>6. Shrinks(q, Finished(Resumed(h, TRUE), TRUE))
  BY <1>2, <1>5, ShrinksWhenEmpty
<1> QED BY <1>5, <1>6 DEF h

(* acknowledge() of any in-flight record.                                  *)
LEMMA AcknowledgeInv ==
  ASSUME NEW q, NEW rdy \in BOOLEAN, QueueInv(q, rdy), NEW i \in DOMAIN q.inFlight
  PROVE  LET n == Finished(Resumed(Acked(q, i), rdy), rdy) IN
           QueueInv(n, rdy) /\ Shrinks(q, n)
<1> DEFINE p == Acked(q, i)
<1>1. QueueOK(q) /\ (q.inFlight # <<>> => CanDeliver(q, rdy))
  BY DEF QueueInv
<1>2. i \in 1 .. Len(q.inFlight) /\ q.inFlight # <<>>
  <2>1. q.inFlight \in Seq(Record)
    BY <1>1, QueueFields DEF QueueOK
  <2>2. DOMAIN q.inFlight = 1 .. Len(q.inFlight)
    BY <2>1, SequenceFacts
  <2>3. q.inFlight # <<>>
    BY <2>2, EmptyLedger
  <2> QED BY <2>2, <2>3
<1>3. /\ QueueOK(p) /\ p.live = q.live /\ p.hydrated = q.hydrated
      /\ Range(p.inFlight) \subseteq Range(q.inFlight)
  BY <1>1, <1>2, AckedOK
<1> HIDE DEF p
<1>4. CanDeliver(p, rdy)
  BY <1>1, <1>2, <1>3 DEF CanDeliver
<1>5. LET n == Finished(Resumed(p, rdy), rdy) IN
        QueueInv(n, rdy) /\ (n.inFlight = <<>> \/ n.inFlight = p.inFlight)
  BY <1>3, <1>4, ResumedFinishedInv
<1>6. Shrinks(q, Finished(Resumed(p, rdy), rdy))
  BY <1>3, <1>5, ShrinksWhenEmpty DEF Shrinks
<1> QED BY <1>5, <1>6 DEF p

(* Resuming and finishing a queue that already satisfies the invariant.    *)
LEMMA SettleInv ==
  ASSUME NEW q, NEW rdy \in BOOLEAN, QueueInv(q, rdy)
  PROVE  LET n == Finished(Resumed(q, rdy), rdy) IN
           QueueInv(n, rdy) /\ Shrinks(q, n)
<1>1. ~(q.live /\ q.closing /\ Held(q) = {})
  BY DEF QueueInv, Closing
<1>2. LET n == Finished(Resumed(q, rdy), rdy) IN
        QueueInv(n, rdy) /\ (n.inFlight = <<>> \/ n.inFlight = q.inFlight)
  BY <1>1, ResumedFinishedInv DEF QueueInv
<1> QED BY <1>2, ShrinksWhenEmpty

(* Sending the head of a deliverable queue.                                *)
LEMMA SendInv ==
  ASSUME NEW q, NEW rdy \in BOOLEAN, QueueInv(q, rdy), Deliverable(q, rdy)
  PROVE  LET n == Sent(q) IN
           /\ QueueInv(n, rdy) /\ n.live
           /\ \A r \in Range(n.inFlight) : r.seq <= Head(q.chunks).seq
<1> DEFINE n == Sent(q)
<1>1. QueueOK(q) /\ q.live /\ q.chunks # <<>> /\ ResumeOwed(q, rdy) /\ CanDeliver(q, rdy)
  BY DEF QueueInv, Deliverable, CanDeliver
<1>2. /\ QueueOK(n) /\ n.live /\ n.closing = q.closing /\ n.hydrated = q.hydrated
      /\ n.paused = q.paused
      /\ RetainedBytes(n) = RetainedBytes(q) /\ RetainedChunks(n) = RetainedChunks(q)
      /\ Held(n) # {}
      /\ \A r \in Range(n.inFlight) : r.seq <= Head(q.chunks).seq
  BY <1>1, SentOK
<1> HIDE DEF n
<1>3. CanDeliver(n, rdy)
  BY <1>1, <1>2 DEF CanDeliver
<1>4. Closing(n) /\ ResumeOwed(n, rdy)
  BY <1>1, <1>2, <1>3 DEF Closing, ResumeOwed
<1> QED BY <1>2, <1>3, <1>4 DEF QueueInv, n

-----------------------------------------------------------------------------
(* The inductive invariant *)

(* The record the pump is sending is the last one its terminal has in      *)
(* flight, whatever callbacks ran inside the transport call.               *)
PumpLast ==
  pump.stage = "sending" =>
    /\ pump.terminal \in Terminals
    /\ \A r \in Range(queue[pump.terminal].inFlight) : r.seq <= pump.seq

QueuesInv == (\A t \in Terminals : QueueInv(queue[t], ready)) /\ PumpLast
DisposedInv == disposed => \A t \in Terminals : ~queue[t].live

IInv == TypeOK /\ RoundRobin /\ QueuesInv /\ DisposedInv /\ PumpArmed

(* A non-empty set of naturals has a least element.                        *)
LEMMA LeastNat ==
  ASSUME NEW S, S \subseteq Nat, S # {}
  PROVE  \E k \in S : \A j \in S : k <= j
<1> DEFINE R == OpToRel(<, Nat)
<1>1. IsWellFoundedOn(R, Nat)
  BY NatLessThanWellFounded
<1>2. \A x, y \in Nat : <<x, y>> \in R <=> x < y
  BY DEF OpToRel
<1> HIDE DEF R
<1>3. PICK k \in S : \A j \in S : ~(<<j, k>> \in R)
  BY <1>1, WFMin
<1>4. \A j \in S : k <= j
  <2> SUFFICES ASSUME NEW j \in S PROVE k <= j
    OBVIOUS
  <2>1. ~(j < k) /\ j \in Nat /\ k \in Nat
    BY <1>2, <1>3
  <2> QED BY <2>1
<1> QED BY <1>4

(* nextQueuedQueue returns a terminal with deliverable output.             *)
LEMMA ChosenSlot ==
  ASSUME order \in Seq(Terminals), cursor \in Nat, Selecting
  PROVE  /\ Slot(Chosen) \in Terminals /\ Deliverable(queue[Slot(Chosen)], ready)
         /\ (cursor + Chosen + 1) % Len(order) \in 0 .. (Len(order) - 1)
<1>1. Candidates \subseteq Nat /\ Candidates # {}
  <2>1. Len(order) \in Nat
    BY LenProperties
  <2>2. Candidates \subseteq 0 .. (Len(order) - 1)
    BY DEF Candidates
  <2> QED BY <2>1, <2>2 DEF Selecting
<1>2. Chosen \in Candidates
  BY <1>1, LeastNat DEF Chosen
<1>3. /\ Len(order) \in Nat \ {0} /\ Chosen \in Nat
      /\ Deliverable(queue[Slot(Chosen)], ready)
  <2>1. Chosen \in 0 .. (Len(order) - 1) /\ Deliverable(queue[Slot(Chosen)], ready)
    BY <1>2 DEF Candidates
  <2>2. Len(order) \in Nat
    BY LenProperties
  <2> QED BY <2>1, <2>2
<1>4. \A a \in Nat, b \in Nat \ {0} : a % b \in 0 .. (b - 1)
  OBVIOUS
<1>5. Slot(Chosen) \in Terminals
  <2> DEFINE m == (cursor + Chosen) % Len(order)
  <2>1. m \in 0 .. (Len(order) - 1)
    <3>1. cursor + Chosen \in Nat
      BY <1>3
    <3> QED BY <1>3, <1>4, <3>1
  <2>2. m + 1 \in 1 .. Len(order)
    BY <1>3, <2>1
  <2> HIDE DEF m
  <2>3. order[m + 1] \in Terminals
    BY <2>2, ElementOfSeq
  <2> QED BY <2>3 DEF Slot, m
<1>6. (cursor + Chosen + 1) % Len(order) \in 0 .. (Len(order) - 1)
  <2>1. cursor + Chosen + 1 \in Nat
    BY <1>3
  <2> QED BY <1>3, <1>4, <2>1
<1> QED BY <1>3, <1>5, <1>6

(* One terminal's queue changes and the gate does not.                     *)
LEMMA UpdateStep ==
  ASSUME TypeOK, QueuesInv, NEW t \in Terminals, NEW n, queue' = Update(t, n), ready' = ready,
         QueueInv(n, ready),
         Shrinks(queue[t], n), pump'.stage = "sending" => pump' = pump
  PROVE  QueuesInv' /\ (queue \in [Terminals -> Queue])'
<1>1. /\ queue \in [Terminals -> Queue]
      /\ \A u \in Terminals : queue'[u] = IF u = t THEN n ELSE queue[u]
  BY DEF TypeOK, Update
<1>2. n \in Queue
  BY DEF QueueInv, QueueOK
<1>3. queue' \in [Terminals -> Queue]
  BY <1>1, <1>2 DEF Update
<1>4. \A u \in Terminals : QueueInv(queue'[u], ready')
  BY <1>1 DEF QueuesInv
<1>5. PumpLast'
  <2> SUFFICES ASSUME pump'.stage = "sending" PROVE PumpLast'
    BY DEF PumpLast
  <2>1. pump' = pump
    OBVIOUS
  <2>2. \A u \in Terminals : Range(queue'[u].inFlight) \subseteq Range(queue[u].inFlight)
    BY <1>1 DEF Shrinks
  <2> QED BY <2>1, <2>2 DEF QueuesInv, PumpLast
<1> QED BY <1>3, <1>4, <1>5 DEF QueuesInv

(* Every terminal's queue may change, and the gate.                        *)
LEMMA UpdateAllStep ==
  ASSUME TypeOK, QueuesInv, NEW f, queue' = [t \in Terminals |-> f[t]],
         \A t \in Terminals : QueueInv(f[t], ready') /\ Shrinks(queue[t], f[t]),
         pump'.stage = "sending" => pump' = pump
  PROVE  QueuesInv' /\ (queue \in [Terminals -> Queue])'
<1>1. \A u \in Terminals : queue'[u] = f[u]
  OBVIOUS
<1>2. \A u \in Terminals : f[u] \in Queue
  BY DEF QueueInv, QueueOK
<1>3. queue' \in [Terminals -> Queue]
  BY <1>2
<1>4. \A u \in Terminals : QueueInv(queue'[u], ready')
  BY <1>1
<1>5. PumpLast'
  <2> SUFFICES ASSUME pump'.stage = "sending" PROVE PumpLast'
    BY DEF PumpLast
  <2>1. pump' = pump
    OBVIOUS
  <2>2. \A u \in Terminals : Range(queue'[u].inFlight) \subseteq Range(queue[u].inFlight)
    BY <1>1 DEF Shrinks
  <2> QED BY <2>1, <2>2 DEF QueuesInv, PumpLast
<1> QED BY <1>3, <1>4, <1>5 DEF QueuesInv

-----------------------------------------------------------------------------
(* Preservation: the queues *)

(* The constructor establishes the invariant.                              *)
LEMMA InitInv == Init => IInv
<1> SUFFICES ASSUME Init PROVE IInv
  OBVIOUS
<1> DEFINE dead == [NewQueue(0) EXCEPT !.live = FALSE]
<1>1. /\ queue = [t \in Terminals |-> dead] /\ order = <<>> /\ cursor = 0
      /\ ready = FALSE /\ doc = 0 /\ disposed = FALSE /\ timer = FALSE /\ pump = NoPump
  BY DEF Init
<1>2. QueueOK(NewQueue(0)) /\ NewQueue(0).inFlight = <<>>
  BY NewQueueOK
<1>3. NewQueue(0).chunks = <<>> /\ NewQueue(0).verdict = "none" /\ ~NewQueue(0).exitQueued
  BY DEF NewQueue
<1>4. NewQueue(0) \in Queue
  BY <1>2 DEF QueueOK
<1>5. /\ dead \in Queue /\ ~dead.live /\ dead.chunks = <<>> /\ dead.inFlight = <<>>
      /\ dead.verdict = "none" /\ ~dead.exitQueued
      /\ dead.queuedBytes = NewQueue(0).queuedBytes
      /\ dead.inFlightBytes = NewQueue(0).inFlightBytes /\ dead.next = NewQueue(0).next
  BY <1>2, <1>3, <1>4 DEF Queue
<1> HIDE DEF dead
<1>6. Held(dead) = {}
  BY <1>5, EmptyLedger DEF Held
<1>7. InOrder(dead) /\ SealedInFlight(dead) /\ OpenTail(dead)
  BY <1>5, <1>6, EmptyLedger DEF InOrder, SealedInFlight, OpenTail
<1>8. BelowHighWater(dead)
  <2>1. RetainedBytes(dead) = RetainedBytes(NewQueue(0))
        /\ RetainedChunks(dead) = RetainedChunks(NewQueue(0))
    BY <1>2, <1>3, <1>5 DEF RetainedBytes, RetainedChunks
  <2> QED BY <1>2, <1>3, <1>5, <2>1 DEF QueueOK, BelowHighWater
<1>9. QueueInv(dead, FALSE)
  BY <1>5, <1>6, <1>7, <1>8 DEF QueueInv, QueueOK, Closing, ResumeOwed, CanDeliver
<1>10. \A t \in Terminals : queue[t] = dead
  BY <1>1
<1>11. QueuesInv /\ DisposedInv
  BY <1>1, <1>5, <1>9, <1>10 DEF QueuesInv, PumpLast, NoPump, DisposedInv
<1>12. TypeOK
  <2>1. <<>> \in Seq(Terminals)
    BY EmptySeq
  <2>2. queue \in [Terminals -> Queue]
    BY <1>1, <1>5
  <2>3. pump \in PumpType
    BY <1>1 DEF NoPump, PumpType
  <2> QED BY <1>1, <2>1, <2>2, <2>3 DEF TypeOK
<1>13. RoundRobin
  BY <1>1, <1>5, <1>10, EmptyLedger DEF RoundRobin
<1>14. PumpArmed
  BY <1>1, <1>5, <1>10 DEF PumpArmed, Deliverable
<1> QED BY <1>11, <1>12, <1>13, <1>14 DEF IInv

(* setRendererReady() preserves the queue invariants of every terminal.    *)
LEMMA SetReadyStep ==
  ASSUME TypeOK, QueuesInv, NEW d, NEW rdy \in BOOLEAN, SetReady(d, rdy), pump' = pump
  PROVE  /\ QueuesInv' /\ (queue \in [Terminals -> Queue])'
         /\ ~rdy => \A t \in Terminals : ~Deliverable(queue'[t], rdy)
<1> DEFINE base(t) == IF d # doc \/ ~rdy THEN Detached(queue[t]) ELSE queue[t]
           f == [t \in Terminals |->
                   IF rdy THEN Finished(Resumed(base(t), TRUE), TRUE) ELSE base(t)]
<1>1. queue' = [t \in Terminals |-> f[t]] /\ ready' = rdy
  BY DEF SetReady
<1>2. ASSUME NEW t \in Terminals
      PROVE  QueueInv(f[t], rdy) /\ Shrinks(queue[t], f[t]) /\ (~rdy => ~Deliverable(f[t], rdy))
  <2>1. QueueInv(queue[t], ready) /\ ready \in BOOLEAN
    BY DEF QueuesInv, TypeOK
  <2>2. /\ QueueOK(base(t)) /\ Closing(base(t)) /\ Shrinks(queue[t], base(t))
        /\ base(t).inFlight # <<>> => CanDeliver(base(t), rdy)
        /\ ~rdy => QueueInv(base(t), rdy) /\ ~Deliverable(base(t), rdy)
    <3>1. CASE d # doc \/ ~rdy
      <4>1. base(t) = Detached(queue[t])
        BY <3>1
      <4> HIDE DEF base
      <4> QED BY <2>1, <4>1, DetachedInv DEF QueueInv
    <3>2. CASE ~(d # doc \/ ~rdy)
      <4>1. base(t) = queue[t] /\ rdy = TRUE
        BY <3>2
      <4> HIDE DEF base
      <4> QED BY <2>1, <4>1 DEF QueueInv, CanDeliver, Shrinks
    <3> QED BY <3>1, <3>2
  <2> HIDE DEF base
  <2>3. CASE rdy
    <3> DEFINE n == Finished(Resumed(base(t), TRUE), TRUE)
    <3>1. f[t] = n /\ rdy = TRUE
      BY <2>3
    <3>2. ~(base(t).live /\ base(t).closing /\ Held(base(t)) = {})
      BY <2>2 DEF Closing
    <3>3. QueueInv(n, TRUE) /\ (n.inFlight = <<>> \/ n.inFlight = base(t).inFlight)
      BY <2>2, <3>1, <3>2, ResumedFinishedInv
    <3> HIDE DEF n
    <3>4. Shrinks(base(t), n)
      BY <3>3, ShrinksWhenEmpty
    <3> QED BY <2>2, <2>3, <3>1, <3>3, <3>4 DEF Shrinks
  <2>4. CASE ~rdy
    BY <2>2, <2>4
  <2> QED BY <2>3, <2>4
<1> HIDE DEF f
<1>3. QueuesInv' /\ (queue \in [Terminals -> Queue])'
  BY <1>1, <1>2, UpdateAllStep
<1> QED BY <1>1, <1>2, <1>3

(* A send makes its record the last one in flight.                         *)
LEMMA SendStep ==
  ASSUME TypeOK, QueuesInv, PumpSend
  PROVE  QueuesInv' /\ (queue \in [Terminals -> Queue])'
<1> DEFINE t == Slot(Chosen)
           q == queue[t]
           n == Sent(q)
<1>1. t \in Terminals /\ Deliverable(q, ready)
  BY ChosenSlot DEF TypeOK, PumpSend
<1>2. /\ queue' = Update(t, n) /\ ready' = ready
      /\ pump' = [pump EXCEPT !.stage = "sending", !.served = pump.served \cup {t},
                              !.bytes = pump.bytes + Head(q.chunks).bytes,
                              !.chunks = pump.chunks + 1,
                              !.terminal = t, !.gen = q.gen, !.seq = Head(q.chunks).seq,
                              !.doc = doc]
  BY DEF PumpSend
<1>3. pump'.terminal = t /\ pump'.seq = Head(q.chunks).seq
  BY <1>2 DEF TypeOK, PumpType
<1> HIDE DEF t
<1>4. QueueInv(q, ready) /\ ready \in BOOLEAN
  BY <1>1 DEF QueuesInv, TypeOK
<1>5. /\ QueueInv(n, ready) /\ n.live
      /\ \A r \in Range(n.inFlight) : r.seq <= Head(q.chunks).seq
  BY <1>1, <1>4, SendInv
<1>6. n \in Queue
  BY <1>5 DEF QueueInv, QueueOK
<1> HIDE DEF n
<1>7. /\ queue \in [Terminals -> Queue]
      /\ queue' \in [Terminals -> Queue]
      /\ \A u \in Terminals : queue'[u] = IF u = t THEN n ELSE queue[u]
  BY <1>1, <1>2, <1>6 DEF TypeOK, Update
<1>8. \A u \in Terminals : QueueInv(queue'[u], ready')
  BY <1>2, <1>5, <1>7 DEF QueuesInv
<1>9. PumpLast'
  BY <1>1, <1>3, <1>5, <1>7 DEF PumpLast
<1> QED BY <1>7, <1>8, <1>9 DEF QueuesInv

(* A refused or throwing transport returns its record in order.            *)
LEMMA RefusedStep ==
  ASSUME TypeOK, QueuesInv, PumpRefused
  PROVE  /\ QueuesInv' /\ (queue \in [Terminals -> Queue])'
         /\ queue' = queue \/ ~ready'
<1>1. /\ pump.stage = "sending" /\ pump.terminal \in Terminals
      /\ \A r \in Range(queue[pump.terminal].inFlight) : r.seq <= pump.seq
  BY DEF PumpRefused, QueuesInv, PumpLast
<1>2. pump'.stage # "sending"
  <2>1. pump' = NoPump
    BY DEF PumpRefused, EndFrame
  <2> QED BY <2>1 DEF NoPump
<1>3. CASE SameQueue /\ Owns(queue[pump.terminal], pump.seq)
  <2> DEFINE u == pump.terminal
             m == Requeued(queue[u], pump.seq)
             back == Update(u, m)
             f == [t \in Terminals |-> IF ready THEN Detached(back[t]) ELSE back[t]]
  <2>1. queue' = [t \in Terminals |-> f[t]] /\ ready' = FALSE
    BY <1>3 DEF PumpRefused
  <2>2. QueueInv(queue[u], ready) /\ QueueOK(queue[u])
    BY <1>1 DEF QueuesInv, QueueInv
  <2>3. ready = TRUE
    <3>1. queue[u].inFlight # <<>>
      BY <1>3, EmptySeq DEF Owns
    <3> QED BY <2>2, <3>1 DEF QueueInv, CanDeliver, TypeOK
  <2>4. QueueOK(m) /\ Held(m) = Held(queue[u]) /\ m.live = queue[u].live
        /\ m.closing = queue[u].closing
    BY <1>1, <1>3, <2>2, RequeuedOK
  <2>5. Closing(m)
    BY <2>2, <2>4 DEF QueueInv, Closing
  <2> HIDE DEF m
  <2>6. \A t \in Terminals : back[t] = IF t = u THEN m ELSE queue[t]
    BY DEF TypeOK, Update
  <2>7. \A t \in Terminals : QueueOK(back[t]) /\ Closing(back[t])
    BY <2>4, <2>5, <2>6 DEF QueuesInv, QueueInv
  <2>8. \A t \in Terminals : f[t] = Detached(back[t])
    BY <2>3
  <2> HIDE DEF f, back
  <2>9. ASSUME NEW t \in Terminals
        PROVE  QueueInv(f[t], ready') /\ Shrinks(queue[t], f[t])
    <3>1. QueueInv(f[t], ready') /\ f[t].inFlight = <<>>
      BY <2>7, <2>8, DetachedInv
    <3> QED BY <3>1, ShrinksWhenEmpty
  <2>10. QueuesInv' /\ (queue \in [Terminals -> Queue])'
    BY <1>2, <2>1, <2>9, UpdateAllStep
  <2> QED BY <2>1, <2>10
<1>4. CASE ~(SameQueue /\ Owns(queue[pump.terminal], pump.seq))
  <2>1. queue' = queue /\ ready' = ready
    BY <1>4 DEF PumpRefused
  <2> QED BY <1>2, <2>1 DEF QueuesInv, PumpLast, TypeOK
<1> QED BY <1>3, <1>4

(* Every step preserves the invariant of every queue.                      *)
LEMMA QueuesStep ==
  ASSUME TypeOK, QueuesInv, [Next]_vars
  PROVE  QueuesInv' /\ (queue \in [Terminals -> Queue])'
<1>1. /\ queue \in [Terminals -> Queue] /\ ready \in BOOLEAN
      /\ \A t \in Terminals : QueueInv(queue[t], ready)
  BY DEF TypeOK, QueuesInv
<1>2. ASSUME queue' = queue, ready' = ready, pump'.stage = "sending" => pump' = pump
      PROVE  QueuesInv' /\ (queue \in [Terminals -> Queue])'
  BY <1>1, <1>2 DEF QueuesInv, PumpLast
<1>3. ASSUME NEW t \in Terminals, NEW n, QueueInv(n, ready), Shrinks(queue[t], n),
             queue' = Update(t, n), ready' = ready, pump'.stage = "sending" => pump' = pump
      PROVE  QueuesInv' /\ (queue \in [Terminals -> Queue])'
  BY <1>3, UpdateStep
<1>4. ASSUME NEW t \in Terminals, Register(t)
      PROVE  QueuesInv' /\ (queue \in [Terminals -> Queue])'
  <2> DEFINE n == NewQueue(queue[t].gen + 1)
  <2>1. queue[t].gen + 1 \in Nat
    BY <1>1, QueueFields
  <2>2. QueueOK(n) /\ n.live /\ ~n.closing /\ ~n.hydrated /\ n.inFlight = <<>>
    BY <2>1, NewQueueOK
  <2>3. queue' = Update(t, n) /\ ready' = ready /\ pump' = pump
    BY <1>4 DEF Register
  <2> HIDE DEF n
  <2>4. QueueInv(n, ready) /\ Shrinks(queue[t], n)
    BY <2>2, ShrinksWhenEmpty DEF QueueInv, Closing, ResumeOwed, CanDeliver
  <2> QED BY <1>3, <2>3, <2>4
<1>5. ASSUME NEW t \in Terminals, Finish(t)
      PROVE  QueuesInv' /\ (queue \in [Terminals -> Queue])'
  <2> DEFINE c == [queue[t] EXCEPT !.closing = TRUE, !.paused = TRUE, !.verdict = "pending"]
             n == Finished(c, ready)
  <2>1. queue' = Update(t, n) /\ ready' = ready /\ pump' = pump
        /\ queue[t].live /\ ~queue[t].closing
    BY <1>5 DEF Finish
  <2>2. QueueInv(n, ready) /\ Shrinks(queue[t], n)
    BY <1>1, <2>1, FinishInv
  <2> HIDE DEF n
  <2> QED BY <1>3, <2>1, <2>2
<1>6. ASSUME NEW t \in Terminals, FinishTimeout(t)
      PROVE  QueuesInv' /\ (queue \in [Terminals -> Queue])'
  <2> DEFINE n == [queue[t] EXCEPT !.verdict = "timeout"]
  <2>1. queue' = Update(t, n) /\ ready' = ready /\ pump' = pump
    BY <1>6 DEF FinishTimeout
  <2>2. QueueInv(n, ready) /\ Shrinks(queue[t], n)
    BY <1>1, FinishTimeoutInv
  <2> HIDE DEF n
  <2> QED BY <1>3, <2>1, <2>2
<1>7. ASSUME NEW t \in Terminals, Cancel(t)
      PROVE  QueuesInv' /\ (queue \in [Terminals -> Queue])'
  <2> DEFINE n == Removed(queue[t], FALSE)
  <2>1. queue' = Update(t, n) /\ ready' = ready /\ pump' = pump
    BY <1>7 DEF Cancel
  <2>2. QueueInv(n, ready) /\ Shrinks(queue[t], n)
    BY <1>1, RemovedInv DEF QueueInv
  <2> HIDE DEF n
  <2> QED BY <1>3, <2>1, <2>2
<1>8. ASSUME NEW t \in Terminals, HydrateTerminal(t)
      PROVE  QueuesInv' /\ (queue \in [Terminals -> Queue])'
  <2> DEFINE h == [queue[t] EXCEPT !.hydrated = TRUE]
             n == Finished(Resumed(h, TRUE), TRUE)
  <2>1. queue' = Update(t, n) /\ ready' = ready /\ pump' = pump /\ ready = TRUE
    BY <1>1, <1>8 DEF HydrateTerminal
  <2>2. QueueInv(n, ready) /\ Shrinks(queue[t], n)
    BY <1>1, <2>1, HydrateInv
  <2> HIDE DEF n
  <2> QED BY <1>3, <2>1, <2>2
<1>9. ASSUME NEW t \in Terminals, NEW k \in 1 .. ChunkBytes, Enqueue(t, k)
      PROVE  QueuesInv' /\ (queue \in [Terminals -> Queue])'
  <2>1. ready' = ready /\ pump' = pump /\ queue[t].live /\ ~queue[t].closing
    BY <1>9 DEF Enqueue
  <2>2. CASE OverHighWater(queue[t], k)
    <3>1. queue' = Update(t, Paused(queue[t]))
      BY <1>9, <2>2 DEF Enqueue
    <3>2. QueueInv(Paused(queue[t]), ready) /\ Shrinks(queue[t], Paused(queue[t]))
      BY <1>1, <2>1, <2>2, EnqueueInv
    <3> QED BY <1>3, <2>1, <3>1, <3>2
  <2>3. CASE ~OverHighWater(queue[t], k)
    <3>1. queue' = Update(t, Admitted(queue[t], k))
      BY <1>9, <2>3 DEF Enqueue
    <3>2. QueueInv(Admitted(queue[t], k), ready) /\ Shrinks(queue[t], Admitted(queue[t], k))
      BY <1>1, <2>1, <2>3, EnqueueInv
    <3> QED BY <1>3, <2>1, <3>1, <3>2
  <2> QED BY <2>2, <2>3
<1>10. ASSUME NEW t \in Terminals, NEW i \in DOMAIN queue[t].inFlight, Acknowledge(t, i)
       PROVE  QueuesInv' /\ (queue \in [Terminals -> Queue])'
  <2> DEFINE n == Finished(Resumed(Acked(queue[t], i), ready), ready)
  <2>1. queue' = Update(t, n) /\ ready' = ready /\ pump' = pump
    BY <1>10 DEF Acknowledge
  <2>2. QueueInv(n, ready) /\ Shrinks(queue[t], n)
    BY <1>1, AcknowledgeInv
  <2> HIDE DEF n
  <2> QED BY <1>3, <2>1, <2>2
<1>11. ASSUME NEW d, NEW rdy \in BOOLEAN, SetRendererReady(d, rdy)
       PROVE  QueuesInv' /\ (queue \in [Terminals -> Queue])'
  BY <1>11, SetReadyStep DEF SetRendererReady
<1>12. ASSUME Dispose
       PROVE  QueuesInv' /\ (queue \in [Terminals -> Queue])'
  <2> DEFINE f == [t \in Terminals |-> Removed(queue[t], FALSE)]
  <2>1. queue' = [t \in Terminals |-> f[t]] /\ ready' = ready /\ pump' = pump
    BY <1>12 DEF Dispose
  <2>2. \A t \in Terminals : QueueInv(f[t], ready') /\ Shrinks(queue[t], f[t])
    <3> SUFFICES ASSUME NEW t \in Terminals
                 PROVE  QueueInv(f[t], ready') /\ Shrinks(queue[t], f[t])
      OBVIOUS
    <3>1. f[t] = Removed(queue[t], FALSE)
      OBVIOUS
    <3> HIDE DEF f
    <3> QED BY <1>1, <2>1, <3>1, RemovedInv DEF QueueInv
  <2> HIDE DEF f
  <2> QED BY <2>1, <2>2, UpdateAllStep
<1>13. ASSUME Pump
       PROVE  QueuesInv' /\ (queue \in [Terminals -> Queue])'
  <2>1. CASE PumpStart
    <3>1. queue' = queue /\ ready' = ready /\ (pump' = pump \/ pump' = [NoPump EXCEPT !.stage = "select"])
      BY <2>1 DEF PumpStart
    <3>2. [NoPump EXCEPT !.stage = "select"].stage # "sending"
      BY DEF NoPump
    <3> QED BY <1>2, <3>1, <3>2
  <2>2. CASE PumpSend
    BY <2>2, SendStep
  <2>3. CASE PumpOverBudget \/ PumpStop
    <3>1. queue' = queue /\ ready' = ready /\ pump' = NoPump
      BY <2>3 DEF PumpOverBudget, PumpStop, EndFrame
    <3>2. NoPump.stage # "sending"
      BY DEF NoPump
    <3> QED BY <1>2, <3>1, <3>2
  <2>4. CASE PumpSent
    <3> DEFINE t == pump.terminal
               n == IF SameQueue THEN Finished(Resumed(queue[t], ready), ready) ELSE queue[t]
    <3>1. queue' = Update(t, n) /\ ready' = ready /\ t \in Terminals
      BY <2>4 DEF PumpSent, QueuesInv, PumpLast
    <3>2. QueueInv(n, ready) /\ Shrinks(queue[t], n)
      <4>1. CASE SameQueue
        BY <1>1, <3>1, <4>1, SettleInv
      <4>2. CASE ~SameQueue
        BY <1>1, <3>1, <4>2 DEF Shrinks
      <4> QED BY <4>1, <4>2
    <3>3. pump'.stage # "sending"
      <4>1. pump' = [pump EXCEPT !.stage = "select"] \/ pump' = NoPump
        BY <2>4 DEF PumpSent, EndFrame
      <4>2. NoPump.stage # "sending"
        BY DEF NoPump
      <4>3. [pump EXCEPT !.stage = "select"].stage # "sending"
        BY DEF TypeOK, PumpType
      <4> QED BY <4>1, <4>2, <4>3
    <3> HIDE DEF t, n
    <3> QED BY <1>3, <3>1, <3>2, <3>3
  <2>5. CASE PumpRefused
    BY <2>5, RefusedStep
  <2> QED BY <1>13, <2>1, <2>2, <2>3, <2>4, <2>5 DEF Pump
<1>14. CASE UNCHANGED vars
  BY <1>2, <1>14 DEF vars
<1> QED
  BY <1>4, <1>5, <1>6, <1>7, <1>8, <1>9, <1>10, <1>11, <1>12, <1>13, <1>14 DEF Next

-----------------------------------------------------------------------------
(* Preservation: the round-robin order *)

(* maybeFinishQueue releases no terminal that still has a record to deliver. *)
LEMMA FinishedKeeps ==
  ASSUME NEW q, QueueOK(q), NEW rdy, q.closing => Held(q) # {}
  PROVE  Finished(q, rdy).live = q.live
<1> DEFINE e == WithExit(q)
<1>1. QueueOK(e) /\ e.live = q.live /\ e.closing = q.closing
      /\ (Held(q) # {} => Held(e) = Held(q))
  BY WithExitOK
<1>2. Finished(q, rdy) = IF e.closing /\ e.exitQueued /\ RetainedChunks(e) = 0 /\ CanDeliver(e, rdy)
                         THEN Removed(e, TRUE) ELSE e
  BY DEF Finished
<1> HIDE DEF e
<1>3. RetainedChunks(e) = 0 <=> Held(e) = {}
  <2>1. e.chunks \in Seq(Record) /\ e.inFlight \in Seq(Record)
    BY <1>1, QueueFields DEF QueueOK
  <2> QED BY <1>1, <2>1, Retention
<1> QED BY <1>1, <1>2, <1>3

(* removeQueue splices one terminal and keeps the cursor in the order.     *)
LEMMA DropStep ==
  ASSUME TypeOK, RoundRobin, NEW t \in Terminals, NEW n \in Queue, queue' = Update(t, n),
         n.live => queue[t].live, DropOrder(t, queue')
  PROVE  (RoundRobin /\ order \in Seq(Terminals) /\ cursor \in Nat)'
<1>1. /\ queue \in [Terminals -> Queue] /\ order \in Seq(Terminals) /\ cursor \in Nat
      /\ \A i, j \in DOMAIN order : i # j => order[i] # order[j]
      /\ \A u \in Terminals : queue[u].live <=> u \in Range(order)
      /\ cursor < Len(order) \/ cursor = 0
  BY DEF TypeOK, RoundRobin
<1>2. /\ \A u \in Terminals : queue'[u] = IF u = t THEN n ELSE queue[u]
      /\ n.live \in BOOLEAN /\ queue[t].live \in BOOLEAN
  BY <1>1, QueueFields DEF Update
<1>3. CASE queue'[t].live \/ t \notin Range(order)
  <2>1. order' = order /\ cursor' = cursor
    BY <1>3 DEF DropOrder
  <2>2. \A u \in Terminals : queue'[u].live <=> queue[u].live
    BY <1>1, <1>2, <1>3
  <2> QED BY <1>1, <2>1, <2>2 DEF RoundRobin
<1>4. CASE ~(queue'[t].live \/ t \notin Range(order))
  <2> DEFINE i == CHOOSE k \in DOMAIN order : order[k] = t
             l == Len(order)
             w == RemoveAt(order, i)
  <2>1. l \in Nat /\ DOMAIN order = 1 .. l
    BY <1>1, LenProperties
  <2>2. \E k \in DOMAIN order : order[k] = t
    BY <1>4 DEF Range
  <2>3. i \in 1 .. l /\ order[i] = t
    BY <2>1, <2>2
  <2>4. /\ order' = w
        /\ cursor' = IF (IF i <= cursor THEN cursor - 1 ELSE cursor) >= l - 1 THEN 0
                     ELSE IF i <= cursor THEN cursor - 1 ELSE cursor
    BY <1>4 DEF DropOrder
  <2> HIDE DEF i
  <2>5. /\ w \in Seq(Terminals) /\ Len(w) = l - 1
        /\ \A j \in 1 .. l - 1 : w[j] = IF j < i THEN order[j] ELSE order[j + 1]
    BY <1>1, <2>3, RemoveAtProperties
  <2>6. Range(w) = Range(order) \ {t}
    <3>1. \A j \in 1 .. l : j # i => order[j] # order[i]
      BY <1>1, <2>1, <2>3
    <3> QED BY <1>1, <2>3, <3>1, RangeRemoveAt
  <2>7. \A j, k \in DOMAIN w : j # k => w[j] # w[k]
    <3>1. DOMAIN w = 1 .. l - 1
      BY <2>5, LenProperties
    <3> SUFFICES ASSUME NEW j \in 1 .. l - 1, NEW k \in 1 .. l - 1, j # k PROVE w[j] # w[k]
      BY <3>1
    <3>2. /\ w[j] = IF j < i THEN order[j] ELSE order[j + 1]
          /\ w[k] = IF k < i THEN order[k] ELSE order[k + 1]
      BY <2>5
    <3>3. \A a, b \in 1 .. l : a # b => order[a] # order[b]
      BY <1>1, <2>1
    <3> QED BY <2>1, <2>3, <3>2, <3>3
  <2>8. cursor' \in Nat /\ (cursor' < l - 1 \/ cursor' = 0)
    BY <1>1, <2>1, <2>3, <2>4
  <2>9. \A u \in Terminals : queue'[u].live <=> u \in Range(w)
    BY <1>1, <1>2, <1>4, <2>6
  <2> HIDE DEF w
  <2> QED BY <2>4, <2>5, <2>7, <2>8, <2>9 DEF RoundRobin
<1> QED BY <1>3, <1>4

(* The order stays and each terminal keeps being live or not.              *)
LEMMA SameOrderStep ==
  ASSUME TypeOK, RoundRobin, order' = order, cursor' = cursor,
         \A t \in Terminals : queue'[t].live = queue[t].live
  PROVE  (RoundRobin /\ order \in Seq(Terminals) /\ cursor \in Nat)'
  BY DEF TypeOK, RoundRobin

(* The search of a frame keeps the cursor inside the order.                *)
LEMMA AdvanceStep ==
  ASSUME TypeOK, RoundRobin, Selecting, order' = order, AdvanceCursor,
         \A t \in Terminals : queue'[t].live = queue[t].live
  PROVE  (RoundRobin /\ order \in Seq(Terminals) /\ cursor \in Nat)'
<1>1. cursor' \in 0 .. (Len(order) - 1)
  BY ChosenSlot DEF TypeOK, AdvanceCursor
<1>2. Len(order) \in Nat
  BY LenProperties DEF TypeOK
<1>3. cursor' \in Nat /\ cursor' < Len(order)
  BY <1>1, <1>2
<1> QED BY <1>3 DEF TypeOK, RoundRobin

(* maybeFinishQueue never brings a terminal back.                          *)
LEMMA SettledLive ==
  ASSUME NEW q, QueueOK(q), NEW rdy \in BOOLEAN
  PROVE  /\ Finished(q, rdy).live => q.live
         /\ Finished(Resumed(q, rdy), rdy).live => q.live
<1>1. ASSUME NEW p, QueueOK(p)
      PROVE  Finished(p, rdy).live => p.live
  <2> DEFINE e == WithExit(p)
  <2>1. e.live = p.live
    BY <1>1, WithExitOK
  <2>2. Finished(p, rdy) = e \/ Finished(p, rdy) = Removed(e, TRUE)
    BY DEF Finished
  <2>3. ~e.live => Removed(e, TRUE) = e
    BY DEF Removed
  <2> HIDE DEF e
  <2> QED BY <2>1, <2>2, <2>3
<1>2. QueueOK(Resumed(q, rdy)) /\ Resumed(q, rdy).live = q.live
  BY ResumedOK
<1> QED BY <1>1, <1>2

(* setRendererReady() removes no terminal, so the order can stay.          *)
LEMMA SetReadyLive ==
  ASSUME TypeOK, QueuesInv, NEW d, NEW rdy \in BOOLEAN, SetReady(d, rdy), NEW t \in Terminals
  PROVE  queue'[t].live = queue[t].live
<1> DEFINE b == IF d # doc \/ ~rdy THEN Detached(queue[t]) ELSE queue[t]
<1>1. queue'[t] = IF rdy THEN Finished(Resumed(b, TRUE), TRUE) ELSE b
  BY DEF SetReady
<1>2. QueueOK(queue[t]) /\ Closing(queue[t])
  BY DEF QueuesInv, QueueInv
<1>3. QueueOK(b) /\ b.live = queue[t].live /\ Closing(b)
  BY <1>2, DetachedOK DEF Closing
<1> HIDE DEF b
<1> DEFINE p == Resumed(b, TRUE)
<1>4. QueueOK(p) /\ p.live = b.live /\ p.closing = b.closing /\ Held(p) = Held(b)
  BY <1>3, ResumedOK
<1> HIDE DEF p
<1>5. Finished(p, TRUE).live = p.live
  <2>1. CASE p.live
    BY <1>3, <1>4, <2>1, FinishedKeeps DEF Closing
  <2>2. CASE ~p.live
    <3>1. Finished(p, TRUE).live => p.live
      BY <1>4, SettledLive
    <3>2. Finished(p, TRUE) = p
      BY <2>2 DEF Finished, WithExit, CanDeliver
    <3> QED BY <3>2
  <2> QED BY <2>1, <2>2
<1> QED BY <1>1, <1>3, <1>4, <1>5 DEF p

(* Every step preserves the round-robin order.                             *)
LEMMA OrderStep ==
  ASSUME TypeOK, QueuesInv, RoundRobin, queue' \in [Terminals -> Queue], [Next]_vars
  PROVE  (RoundRobin /\ order \in Seq(Terminals) /\ cursor \in Nat)'
<1>1. /\ queue \in [Terminals -> Queue] /\ ready \in BOOLEAN
      /\ \A t \in Terminals : QueueOK(queue[t]) /\ queue'[t] \in Queue
  BY DEF TypeOK, QueuesInv, QueueInv
<1>2. ASSUME NEW t \in Terminals, NEW n, queue' = Update(t, n), DropOrder(t, queue'),
             n.live => queue[t].live
      PROVE  (RoundRobin /\ order \in Seq(Terminals) /\ cursor \in Nat)'
  <2>1. queue'[t] = n
    BY <1>1, <1>2 DEF Update
  <2> QED BY <1>1, <1>2, <2>1, DropStep
<1>3. ASSUME NEW t \in Terminals, NEW n, queue' = Update(t, n), n.live = queue[t].live,
             order' = order, cursor' = cursor
      PROVE  (RoundRobin /\ order \in Seq(Terminals) /\ cursor \in Nat)'
  <2>1. \A u \in Terminals : queue'[u].live = queue[u].live
    BY <1>1, <1>3 DEF Update
  <2> QED BY <1>3, <2>1, SameOrderStep
<1>4. ASSUME queue' = queue, order' = order, cursor' = cursor
      PROVE  (RoundRobin /\ order \in Seq(Terminals) /\ cursor \in Nat)'
  BY <1>4, SameOrderStep
<1>5. ASSUME NEW t \in Terminals, Register(t)
      PROVE  (RoundRobin /\ order \in Seq(Terminals) /\ cursor \in Nat)'
  <2> DEFINE n == NewQueue(queue[t].gen + 1)
  <2>1. queue' = Update(t, n) /\ order' = Append(order, t) /\ cursor' = cursor /\ ~queue[t].live
    BY <1>5 DEF Register
  <2>2. n.live
    BY DEF NewQueue
  <2> HIDE DEF n
  <2>3. \A u \in Terminals : queue'[u] = IF u = t THEN n ELSE queue[u]
    BY <1>1, <2>1 DEF Update
  <2>4. /\ order \in Seq(Terminals) /\ Len(order) \in Nat /\ DOMAIN order = 1 .. Len(order)
        /\ cursor \in Nat /\ (cursor < Len(order) \/ cursor = 0)
        /\ \A i, j \in DOMAIN order : i # j => order[i] # order[j]
        /\ \A u \in Terminals : queue[u].live <=> u \in Range(order)
    BY LenProperties DEF TypeOK, RoundRobin
  <2>5. /\ order' \in Seq(Terminals) /\ Len(order') = Len(order) + 1
        /\ \A i \in 1 .. Len(order) : order'[i] = order[i]
        /\ order'[Len(order) + 1] = t
    BY <2>1, <2>4, AppendProperties
  <2>6. Range(order') = Range(order) \cup {t}
    BY <2>1, <2>4, RangeAppend
  <2>7. \A i \in 1 .. Len(order) : order[i] \in Range(order)
    BY <2>4 DEF Range
  <2>8. DOMAIN order' = 1 .. (Len(order) + 1)
    BY <2>5, LenProperties
  <2>9. \A i, j \in DOMAIN order' : i # j => order'[i] # order'[j]
    <3> SUFFICES ASSUME NEW i \in 1 .. (Len(order) + 1), NEW j \in 1 .. (Len(order) + 1), i # j
                 PROVE  order'[i] # order'[j]
      BY <2>8
    <3>1. t \notin Range(order)
      BY <2>1, <2>4
    <3>2. CASE i \in 1 .. Len(order) /\ j \in 1 .. Len(order)
      BY <2>4, <2>5, <3>2
    <3>3. CASE i = Len(order) + 1 /\ j \in 1 .. Len(order)
      BY <2>5, <2>7, <3>1, <3>3
    <3>4. CASE j = Len(order) + 1 /\ i \in 1 .. Len(order)
      BY <2>5, <2>7, <3>1, <3>4
    <3> QED BY <2>4, <3>2, <3>3, <3>4
  <2>10. \A u \in Terminals : queue'[u].live <=> u \in Range(order')
    BY <2>2, <2>3, <2>4, <2>6
  <2>11. cursor' \in Nat /\ (cursor' < Len(order') \/ cursor' = 0)
    BY <2>1, <2>4, <2>5
  <2> QED BY <2>5, <2>9, <2>10, <2>11 DEF RoundRobin
<1>6. ASSUME NEW t \in Terminals, Finish(t)
      PROVE  (RoundRobin /\ order \in Seq(Terminals) /\ cursor \in Nat)'
  <2> DEFINE c == [queue[t] EXCEPT !.closing = TRUE, !.paused = TRUE, !.verdict = "pending"]
             n == Finished(c, ready)
  <2>1. queue' = Update(t, n) /\ DropOrder(t, queue') /\ queue[t].live
    BY <1>6 DEF Finish
  <2> HIDE DEF n
  <2> QED BY <1>2, <2>1
<1>7. ASSUME NEW t \in Terminals, FinishTimeout(t)
      PROVE  (RoundRobin /\ order \in Seq(Terminals) /\ cursor \in Nat)'
  <2> DEFINE n == [queue[t] EXCEPT !.verdict = "timeout"]
  <2>1. queue' = Update(t, n) /\ order' = order /\ cursor' = cursor
    BY <1>7 DEF FinishTimeout
  <2>2. n.live = queue[t].live
    BY <1>1 DEF Queue
  <2> HIDE DEF n
  <2> QED BY <1>3, <2>1, <2>2
<1>8. ASSUME NEW t \in Terminals, Cancel(t)
      PROVE  (RoundRobin /\ order \in Seq(Terminals) /\ cursor \in Nat)'
  <2> DEFINE n == Removed(queue[t], FALSE)
  <2>1. queue' = Update(t, n) /\ DropOrder(t, queue') /\ queue[t].live
    BY <1>8 DEF Cancel
  <2> HIDE DEF n
  <2> QED BY <1>2, <2>1
<1>9. ASSUME NEW t \in Terminals, HydrateTerminal(t)
      PROVE  (RoundRobin /\ order \in Seq(Terminals) /\ cursor \in Nat)'
  <2> DEFINE h == [queue[t] EXCEPT !.hydrated = TRUE]
             n == Finished(Resumed(h, ready), ready)
  <2>1. queue' = Update(t, n) /\ DropOrder(t, queue') /\ queue[t].live
    BY <1>9 DEF HydrateTerminal
  <2> HIDE DEF n
  <2> QED BY <1>2, <2>1
<1>10. ASSUME NEW t \in Terminals, NEW k \in 1 .. ChunkBytes, Enqueue(t, k)
       PROVE  (RoundRobin /\ order \in Seq(Terminals) /\ cursor \in Nat)'
  <2>1. order' = order /\ cursor' = cursor /\ queue[t].live /\ ~queue[t].closing
    BY <1>10 DEF Enqueue
  <2>2. QueueInv(queue[t], ready) /\ queue[t].live = TRUE
    BY <1>1, <2>1, QueueFields DEF QueuesInv
  <2>3. CASE OverHighWater(queue[t], k)
    <3>1. queue' = Update(t, Paused(queue[t]))
      BY <1>10, <2>3 DEF Enqueue
    <3>2. Paused(queue[t]).live = queue[t].live
      BY <1>1 DEF Paused, Queue
    <3> QED BY <1>3, <2>1, <3>1, <3>2
  <2>4. CASE ~OverHighWater(queue[t], k)
    <3>1. queue' = Update(t, Admitted(queue[t], k))
      BY <1>10, <2>4 DEF Enqueue
    <3>2. Admitted(queue[t], k).live /\ QueueInv(Admitted(queue[t], k), ready)
      BY <1>1, <2>1, <2>2, <2>4, EnqueueInv
    <3>3. Admitted(queue[t], k).live = TRUE
      BY <3>2, QueueFields DEF QueueInv, QueueOK
    <3> QED BY <1>3, <2>1, <2>2, <3>1, <3>3
  <2> QED BY <2>3, <2>4
<1>11. ASSUME NEW t \in Terminals, NEW i \in DOMAIN queue[t].inFlight, Acknowledge(t, i)
       PROVE  (RoundRobin /\ order \in Seq(Terminals) /\ cursor \in Nat)'
  <2> DEFINE n == Finished(Resumed(Acked(queue[t], i), ready), ready)
  <2>1. queue' = Update(t, n) /\ DropOrder(t, queue') /\ queue[t].live
    BY <1>11 DEF Acknowledge
  <2> HIDE DEF n
  <2> QED BY <1>2, <2>1
<1>12. ASSUME NEW d, NEW rdy \in BOOLEAN, SetRendererReady(d, rdy)
       PROVE  (RoundRobin /\ order \in Seq(Terminals) /\ cursor \in Nat)'
  <2>1. SetReady(d, rdy) /\ order' = order /\ cursor' = cursor
    BY <1>12 DEF SetRendererReady, SetReady
  <2>2. \A t \in Terminals : queue'[t].live = queue[t].live
    BY <2>1, SetReadyLive
  <2> QED BY <2>1, <2>2, SameOrderStep
<1>13. ASSUME Dispose
       PROVE  (RoundRobin /\ order \in Seq(Terminals) /\ cursor \in Nat)'
  <2>1. order' = <<>> /\ cursor' = 0 /\ queue' = [t \in Terminals |-> Removed(queue[t], FALSE)]
    BY <1>13 DEF Dispose
  <2>2. ASSUME NEW t \in Terminals
        PROVE  ~queue'[t].live
    <3>1. queue'[t] = Removed(queue[t], FALSE)
      BY <2>1
    <3> QED BY <1>1, <3>1, RemovedInv
  <2>3. order' \in Seq(Terminals) /\ Range(order') = {} /\ DOMAIN order' = {}
    BY <2>1, EmptyLedger, EmptySeq
  <2> QED BY <2>1, <2>2, <2>3 DEF RoundRobin
<1>14. ASSUME Pump
       PROVE  (RoundRobin /\ order \in Seq(Terminals) /\ cursor \in Nat)'
  <2>1. CASE PumpStart \/ PumpStop
    BY <1>4, <2>1 DEF PumpStart, PumpStop
  <2>2. CASE PumpSend
    <3> DEFINE t == Slot(Chosen)
               n == Sent(queue[t])
    <3>1. t \in Terminals /\ Deliverable(queue[t], ready)
      BY <2>2, ChosenSlot DEF TypeOK, PumpSend
    <3>2. queue' = Update(t, n) /\ order' = order /\ Selecting /\ AdvanceCursor
      BY <2>2 DEF PumpSend
    <3> HIDE DEF t
    <3>3. n.live = queue[t].live
      BY <1>1, <3>1 DEF Sent, Queue
    <3> HIDE DEF n
    <3>4. \A u \in Terminals : queue'[u].live = queue[u].live
      BY <1>1, <3>2, <3>3 DEF Update
    <3> QED BY <3>2, <3>4, AdvanceStep
  <2>3. CASE PumpOverBudget
    BY <2>3, AdvanceStep DEF PumpOverBudget
  <2>4. CASE PumpSent
    <3> DEFINE t == pump.terminal
               n == IF SameQueue THEN Finished(Resumed(queue[t], ready), ready) ELSE queue[t]
    <3>1. queue' = Update(t, n) /\ DropOrder(t, queue') /\ t \in Terminals
      BY <2>4 DEF PumpSent, QueuesInv, PumpLast
    <3>2. n.live => queue[t].live
      BY <1>1, <3>1, SettledLive
    <3> HIDE DEF t, n
    <3> QED BY <1>2, <3>1, <3>2
  <2>5. CASE PumpRefused
    <3>1. order' = order /\ cursor' = cursor /\ pump.terminal \in Terminals
      BY <2>5 DEF PumpRefused, QueuesInv, PumpLast
    <3>2. CASE SameQueue /\ Owns(queue[pump.terminal], pump.seq)
      <4> DEFINE u == pump.terminal
                 m == Requeued(queue[u], pump.seq)
                 back == Update(u, m)
      <4>1. queue' = [t \in Terminals |-> IF ready THEN Detached(back[t]) ELSE back[t]]
        BY <2>5, <3>2 DEF PumpRefused
      <4>2. /\ queue[u] \in Queue /\ QueueOK(queue[u])
            /\ \A r \in Range(queue[u].inFlight) : r.seq <= pump.seq
        BY <1>1, <2>5, <3>1 DEF PumpRefused, QueuesInv, PumpLast
      <4>3. QueueOK(m) /\ m.live = queue[u].live
        BY <3>2, <4>2, RequeuedOK
      <4> HIDE DEF m
      <4>4. \A t \in Terminals : back[t] = IF t = u THEN m ELSE queue[t]
        BY <1>1 DEF Update
      <4>5. \A t \in Terminals : QueueOK(back[t]) /\ back[t].live = queue[t].live
        BY <1>1, <4>3, <4>4
      <4> HIDE DEF back
      <4>6. \A t \in Terminals : queue'[t].live = queue[t].live
        BY <4>1, <4>5, DetachedOK
      <4> QED BY <3>1, <4>6, SameOrderStep
    <3>3. CASE ~(SameQueue /\ Owns(queue[pump.terminal], pump.seq))
      BY <1>4, <2>5, <3>1, <3>3 DEF PumpRefused
    <3> QED BY <3>2, <3>3
  <2> QED BY <1>14, <2>1, <2>2, <2>3, <2>4, <2>5 DEF Pump
<1>15. CASE UNCHANGED vars
  BY <1>4, <1>15 DEF vars
<1> QED
  BY <1>5, <1>6, <1>7, <1>8, <1>9, <1>10, <1>11, <1>12, <1>13, <1>14, <1>15 DEF Next

-----------------------------------------------------------------------------
(* Preservation: disposal and the frame timer *)

(* After dispose() no terminal is ever live again.                         *)
LEMMA DisposedStep ==
  ASSUME TypeOK, QueuesInv, DisposedInv, [Next]_vars
  PROVE  DisposedInv' /\ disposed' \in BOOLEAN
<1>1. disposed \in BOOLEAN /\ queue \in [Terminals -> Queue] /\ ready \in BOOLEAN
      /\ \A t \in Terminals : QueueOK(queue[t])
  BY DEF TypeOK, QueuesInv, QueueInv
<1>2. CASE Dispose
  <2>1. disposed' = TRUE /\ queue' = [t \in Terminals |-> Removed(queue[t], FALSE)]
    BY <1>2 DEF Dispose
  <2>2. ASSUME NEW t \in Terminals
        PROVE  ~queue'[t].live
    <3>1. queue'[t] = Removed(queue[t], FALSE)
      BY <2>1
    <3> QED BY <1>1, <3>1, RemovedInv
  <2> QED BY <2>1, <2>2 DEF DisposedInv
<1>3. CASE ~Dispose /\ disposed
  <2>1. \A t \in Terminals : ~queue[t].live
    BY <1>3 DEF DisposedInv
  <2>2. disposed' = disposed /\ queue' = queue
    <3>1. CASE Pump
      <4>1. ~PumpSend
        <5> SUFFICES ASSUME PumpSend PROVE FALSE
          OBVIOUS
        <5>1. Slot(Chosen) \in Terminals /\ Deliverable(queue[Slot(Chosen)], ready)
          BY ChosenSlot DEF TypeOK, PumpSend
        <5> QED BY <2>1, <5>1 DEF Deliverable, CanDeliver
      <4>2. CASE PumpSent
        <5>1. pump.terminal \in Terminals /\ ~SameQueue
          BY <2>1, <4>2 DEF PumpSent, QueuesInv, PumpLast, SameQueue
        <5>2. queue' = Update(pump.terminal, queue[pump.terminal]) /\ disposed' = disposed
          BY <4>2, <5>1 DEF PumpSent
        <5> QED BY <1>1, <5>1, <5>2 DEF Update
      <4>3. CASE PumpRefused
        <5>1. ~SameQueue
          BY <2>1, <4>3 DEF PumpRefused, QueuesInv, PumpLast, SameQueue
        <5> QED BY <4>3, <5>1 DEF PumpRefused
      <4> QED BY <3>1, <4>1, <4>2, <4>3 DEF Pump, PumpStart, PumpOverBudget, PumpStop
    <3>2. CASE UNCHANGED vars
      BY <3>2 DEF vars
    <3>3. CASE ~Pump /\ Next
      BY <1>3, <2>1, <3>3 DEF Next, Register, Finish, FinishTimeout, Cancel, HydrateTerminal,
         Enqueue, Acknowledge, SetRendererReady
    <3> QED BY <3>1, <3>2, <3>3
  <2> QED BY <1>1, <2>1, <2>2 DEF DisposedInv
<1>4. CASE ~Dispose /\ ~disposed
  <2>1. disposed' = disposed
    <3>1. CASE Pump
      BY <3>1 DEF Pump, PumpStart, PumpSend, PumpOverBudget, PumpStop, PumpSent, PumpRefused
    <3>2. CASE UNCHANGED vars
      BY <3>2 DEF vars
    <3>3. CASE ~Pump /\ Next
      BY <1>4, <3>3 DEF Next, Register, Finish, FinishTimeout, Cancel, HydrateTerminal,
         Enqueue, Acknowledge, SetRendererReady
    <3> QED BY <3>1, <3>2, <3>3
  <2> QED BY <1>1, <1>4, <2>1 DEF DisposedInv
<1> QED BY <1>2, <1>3, <1>4

(* schedulePump() leaves no deliverable output without a frame.            *)
LEMMA ArmedOK ==
  ASSUME DisposedInv', disposed' = disposed, disposed \in BOOLEAN, NEW p,
         timer' = Armed(queue', ready', p), p => pump'.stage # "idle"
  PROVE  PumpArmed'
<1> SUFFICES ASSUME NEW t \in Terminals, Deliverable(queue'[t], ready')
             PROVE  timer' \/ pump'.stage # "idle"
  BY DEF PumpArmed
<1>1. queue'[t].live /\ ready'
  BY DEF Deliverable, CanDeliver
<1>2. ~disposed
  BY <1>1 DEF DisposedInv
<1> QED BY <1>1, <1>2 DEF Armed

(* A step that makes no output deliverable needs no new frame.             *)
LEMMA NothingNewOK ==
  ASSUME PumpArmed, timer' = timer, pump' = pump, ready' = ready,
         \A t \in Terminals : Deliverable(queue'[t], ready) => Deliverable(queue[t], ready)
  PROVE  PumpArmed'
  BY DEF PumpArmed

(* Every step leaves deliverable output with a frame.                      *)
LEMMA PumpArmedStep ==
  ASSUME IInv, DisposedInv', queue' \in [Terminals -> Queue], [Next]_vars
  PROVE  PumpArmed'
<1>1. /\ queue \in [Terminals -> Queue] /\ ready \in BOOLEAN /\ disposed \in BOOLEAN
      /\ \A t \in Terminals : QueueInv(queue[t], ready) /\ QueueOK(queue[t])
      /\ PumpArmed /\ TypeOK /\ QueuesInv /\ DisposedInv
  BY DEF IInv, TypeOK, QueuesInv, QueueInv
<1>2. ASSUME NEW t \in Terminals, NEW n, queue' = Update(t, n), timer' = timer, pump' = pump,
             ready' = ready, Deliverable(n, ready) => Deliverable(queue[t], ready)
      PROVE  PumpArmed'
  <2>1. \A u \in Terminals : queue'[u] = IF u = t THEN n ELSE queue[u]
    BY <1>1, <1>2 DEF Update
  <2> QED BY <1>1, <1>2, <2>1, NothingNewOK
<1>3. ASSUME NEW t \in Terminals, Register(t)
      PROVE  PumpArmed'
  <2> DEFINE n == NewQueue(queue[t].gen + 1)
  <2>1. queue' = Update(t, n) /\ timer' = timer /\ pump' = pump /\ ready' = ready
    BY <1>3 DEF Register
  <2>2. ~Deliverable(n, ready)
    BY DEF Deliverable, NewQueue
  <2> HIDE DEF n
  <2> QED BY <1>2, <2>1, <2>2
<1>4. ASSUME NEW t \in Terminals, FinishTimeout(t)
      PROVE  PumpArmed'
  <2> DEFINE n == [queue[t] EXCEPT !.verdict = "timeout"]
  <2>1. queue' = Update(t, n) /\ timer' = timer /\ pump' = pump /\ ready' = ready
    BY <1>4 DEF FinishTimeout
  <2>2. Deliverable(n, ready) <=> Deliverable(queue[t], ready)
    BY <1>1, FinishTimeoutInv
  <2> HIDE DEF n
  <2> QED BY <1>2, <2>1, <2>2
<1>5. ASSUME NEW t \in Terminals, Cancel(t)
      PROVE  PumpArmed'
  <2> DEFINE n == Removed(queue[t], FALSE)
  <2>1. queue' = Update(t, n) /\ timer' = timer /\ pump' = pump /\ ready' = ready
    BY <1>5 DEF Cancel
  <2>2. ~Deliverable(n, ready)
    BY <1>1, RemovedInv
  <2> HIDE DEF n
  <2> QED BY <1>2, <2>1, <2>2
<1>6. ASSUME NEW t \in Terminals, Finish(t) \/ HydrateTerminal(t)
      PROVE  PumpArmed'
  <2>1. /\ timer' = Armed(queue', ready, pump.stage # "idle") /\ pump' = pump
        /\ ready' = ready /\ disposed' = disposed
    BY <1>6 DEF Finish, HydrateTerminal
  <2> QED BY <1>1, <2>1, ArmedOK
<1>7. ASSUME NEW t \in Terminals, NEW i \in DOMAIN queue[t].inFlight, Acknowledge(t, i)
      PROVE  PumpArmed'
  <2>1. /\ timer' = Armed(queue', ready, pump.stage # "idle") /\ pump' = pump
        /\ ready' = ready /\ disposed' = disposed
    BY <1>7 DEF Acknowledge
  <2> QED BY <1>1, <2>1, ArmedOK
<1>8. ASSUME NEW t \in Terminals, NEW k \in 1 .. ChunkBytes, Enqueue(t, k)
      PROVE  PumpArmed'
  <2>1. /\ pump' = pump /\ ready' = ready /\ disposed' = disposed
        /\ queue[t].live /\ ~queue[t].closing
    BY <1>8 DEF Enqueue
  <2>2. CASE OverHighWater(queue[t], k)
    <3>1. queue' = Update(t, Paused(queue[t])) /\ timer' = timer
      BY <1>8, <2>2 DEF Enqueue
    <3>2. Deliverable(Paused(queue[t]), ready) => Deliverable(queue[t], ready)
      BY <1>1, <2>1, <2>2, EnqueueInv
    <3> QED BY <1>2, <2>1, <3>1, <3>2
  <2>3. CASE ~OverHighWater(queue[t], k)
    <3>1. timer' = Armed(queue', ready, pump.stage # "idle")
      BY <1>8, <2>3 DEF Enqueue
    <3> QED BY <1>1, <2>1, <3>1, ArmedOK
  <2> QED BY <2>2, <2>3
<1>9. ASSUME NEW d, NEW rdy \in BOOLEAN, SetRendererReady(d, rdy)
      PROVE  PumpArmed'
  <2>1. /\ SetReady(d, rdy) /\ pump' = pump /\ ready' = rdy /\ disposed' = disposed
        /\ timer' = (rdy /\ Armed(queue', rdy, pump.stage # "idle"))
    BY <1>9 DEF SetRendererReady, SetReady
  <2>2. CASE rdy
    <3>1. timer' = Armed(queue', ready', pump.stage # "idle")
      BY <2>1, <2>2, Zenon DEF Armed
    <3> QED BY <1>1, <2>1, <3>1, ArmedOK
  <2>3. CASE ~rdy
    BY <1>1, <2>1, <2>3, SetReadyStep DEF PumpArmed
  <2> QED BY <2>2, <2>3
<1>10. ASSUME Dispose
       PROVE  PumpArmed'
  <2>1. disposed' = TRUE
    BY <1>10 DEF Dispose
  <2> QED BY <2>1 DEF DisposedInv, PumpArmed, Deliverable, CanDeliver
<1>11. ASSUME Pump
       PROVE  PumpArmed'
  <2>1. CASE PumpStart
    <3>1. queue' = queue /\ ready' = ready
          /\ pump' = IF disposed \/ ~ready THEN pump ELSE [NoPump EXCEPT !.stage = "select"]
      BY <2>1 DEF PumpStart
    <3>2. CASE disposed \/ ~ready
      BY <1>1, <3>1, <3>2 DEF DisposedInv, PumpArmed, Deliverable, CanDeliver
    <3>3. CASE ~(disposed \/ ~ready)
      <4>1. pump'.stage # "idle"
        BY <3>1, <3>3 DEF NoPump
      <4> QED BY <4>1 DEF PumpArmed
    <3> QED BY <3>2, <3>3
  <2>2. CASE PumpSend
    <3>1. pump'.stage = "sending"
      <4>1. pump \in PumpType
        BY <1>1 DEF TypeOK
      <4>2. pump' = [pump EXCEPT !.stage = "sending",
                       !.served = pump.served \cup {Slot(Chosen)},
                       !.bytes = pump.bytes + Head(queue[Slot(Chosen)].chunks).bytes,
                       !.chunks = pump.chunks + 1,
                       !.terminal = Slot(Chosen), !.gen = queue[Slot(Chosen)].gen,
                       !.seq = Head(queue[Slot(Chosen)].chunks).seq, !.doc = doc]
        BY <2>2 DEF PumpSend
      <4> QED BY <4>1, <4>2 DEF PumpType
    <3> QED BY <3>1 DEF PumpArmed
  <2>3. CASE PumpOverBudget \/ PumpStop
    <3>1. queue' = queue /\ ready' = ready /\ disposed' = disposed
          /\ timer' = Armed(queue, ready, FALSE)
      BY <2>3 DEF PumpOverBudget, PumpStop, EndFrame
    <3> QED BY <1>1, <3>1, ArmedOK
  <2>4. CASE PumpSent
    <3>1. ready' = ready /\ disposed' = disposed
          /\ (pump' = [pump EXCEPT !.stage = "select"] \/ timer' = Armed(queue', ready, FALSE))
      BY <2>4 DEF PumpSent, EndFrame
    <3>2. [pump EXCEPT !.stage = "select"].stage # "idle"
      BY <1>1 DEF TypeOK, PumpType
    <3>3. CASE timer' = Armed(queue', ready, FALSE)
      BY <1>1, <3>1, <3>3, ArmedOK
    <3> QED BY <3>1, <3>2, <3>3 DEF PumpArmed
  <2>5. CASE PumpRefused
    <3>1. disposed' = disposed
          /\ (ready' = FALSE
              \/ (queue' = queue /\ ready' = ready /\ timer' = Armed(queue, ready, FALSE)))
      <4>1. CASE SameQueue /\ Owns(queue[pump.terminal], pump.seq)
        <5>1. disposed' = disposed
          BY <2>5 DEF PumpRefused
        <5>2. ready' = FALSE
          BY <2>5, <4>1 DEF PumpRefused
        <5> QED BY <5>1, <5>2
      <4>2. CASE ~(SameQueue /\ Owns(queue[pump.terminal], pump.seq))
        BY <2>5, <4>2 DEF PumpRefused, EndFrame
      <4> QED BY <4>1, <4>2
    <3>2. CASE ready' = FALSE
      BY <3>2 DEF PumpArmed, Deliverable, CanDeliver
    <3>3. CASE queue' = queue /\ ready' = ready /\ timer' = Armed(queue, ready, FALSE)
      BY <1>1, <3>1, <3>3, ArmedOK
    <3> QED BY <3>1, <3>2, <3>3
  <2> QED BY <1>11, <2>1, <2>2, <2>3, <2>4, <2>5 DEF Pump
<1>12. CASE UNCHANGED vars
  BY <1>1, <1>12, NothingNewOK DEF vars
<1> QED
  BY <1>3, <1>4, <1>5, <1>6, <1>7, <1>8, <1>9, <1>10, <1>11, <1>12 DEF Next

-----------------------------------------------------------------------------
(* Preservation: the remaining types *)

(* The locals of the pump stay in their types.                             *)
LEMMA PumpTypeStep ==
  ASSUME TypeOK, QueuesInv, [Next]_vars
  PROVE  pump' \in PumpType
<1>1. pump \in PumpType /\ NoPump \in PumpType /\ doc \in Nat
  BY DEF TypeOK, NoPump, PumpType
<1>2. CASE PumpSend
  <2> DEFINE t == Slot(Chosen)
             q == queue[t]
             r == Head(q.chunks)
             p == [pump EXCEPT !.stage = "sending", !.served = pump.served \cup {t},
                               !.bytes = pump.bytes + r.bytes, !.chunks = pump.chunks + 1,
                               !.terminal = t, !.gen = q.gen, !.seq = r.seq, !.doc = doc]
  <2>1. pump' = p
    BY <1>2 DEF PumpSend
  <2>2. t \in Terminals /\ Deliverable(q, ready)
    BY <1>2, ChosenSlot DEF PumpSend, TypeOK
  <2> HIDE DEF t
  <2>3. q \in Queue /\ q.chunks # <<>>
    BY <2>2 DEF TypeOK, Deliverable
  <2> HIDE DEF q
  <2>4. q.gen \in Nat /\ q.chunks \in Seq(Record)
    BY <2>3, QueueFields
  <2>5. r \in Record
    BY <2>3, <2>4, HeadTailProperties
  <2>6. r.bytes \in Nat /\ r.seq \in Nat
    BY <2>5, RecordFields
  <2> HIDE DEF r
  <2>7. /\ pump.bytes \in Nat /\ pump.chunks \in Nat /\ pump.served \in SUBSET Terminals
    BY <1>1 DEF PumpType
  <2>8. pump.bytes + r.bytes \in Nat /\ pump.chunks + 1 \in Nat
        /\ pump.served \cup {t} \in SUBSET Terminals
    BY <2>2, <2>6, <2>7
  <2> DEFINE by == pump.bytes + r.bytes
             ch == pump.chunks + 1
             sv == pump.served \cup {t}
  <2>9. by \in Nat /\ ch \in Nat /\ sv \in SUBSET Terminals
    BY <2>8
  <2>10. p = [pump EXCEPT !.stage = "sending", !.served = sv, !.bytes = by, !.chunks = ch,
                          !.terminal = t, !.gen = q.gen, !.seq = r.seq, !.doc = doc]
    OBVIOUS
  <2> HIDE DEF by, ch, sv, p
  <2>11. p \in PumpType
    BY <1>1, <2>2, <2>4, <2>6, <2>9, <2>10 DEF PumpType
  <2> QED BY <2>1, <2>11
<1>3. CASE PumpStart
  <2>1. [NoPump EXCEPT !.stage = "select"] \in PumpType
    BY <1>1 DEF PumpType
  <2> QED BY <1>1, <1>3, <2>1 DEF PumpStart
<1>4. CASE PumpSent
  <2>1. [pump EXCEPT !.stage = "select"] \in PumpType
    BY <1>1 DEF PumpType
  <2> QED BY <1>1, <1>4, <2>1 DEF PumpSent, EndFrame
<1>5. CASE PumpOverBudget \/ PumpStop
  BY <1>1, <1>5 DEF PumpOverBudget, PumpStop, EndFrame
<1>6. CASE PumpRefused
  BY <1>1, <1>6 DEF PumpRefused, EndFrame
<1>7. CASE UNCHANGED vars
  BY <1>1, <1>7 DEF vars
<1>8. CASE ~Pump /\ Next
  BY <1>1, <1>8 DEF Next, Register, Finish, FinishTimeout, Cancel, HydrateTerminal,
     Enqueue, Acknowledge, SetRendererReady, Dispose
<1> QED BY <1>2, <1>3, <1>4, <1>5, <1>6, <1>7, <1>8 DEF Pump

(* The renderer gate and the timer stay in their types.                    *)
LEMMA GateTypeStep ==
  ASSUME TypeOK, [Next]_vars
  PROVE  ready' \in BOOLEAN /\ doc' \in Nat /\ timer' \in BOOLEAN
<1>1. ready \in BOOLEAN /\ doc \in Nat /\ timer \in BOOLEAN
  BY DEF TypeOK
<1>2. \A qs, rdy, p : Armed(qs, rdy, p) \in BOOLEAN
  BY DEF Armed
<1>3. CASE Pump
  BY <1>1, <1>2, <1>3 DEF Pump, PumpStart, PumpSend, PumpOverBudget, PumpStop, PumpSent,
     PumpRefused, EndFrame
<1>4. CASE UNCHANGED vars
  BY <1>1, <1>4 DEF vars
<1>5. ASSUME NEW d \in 1 .. MaxDoc, NEW rdy \in BOOLEAN, SetRendererReady(d, rdy)
      PROVE  ready' \in BOOLEAN /\ doc' \in Nat /\ timer' \in BOOLEAN
  <2>1. d \in Nat
    OBVIOUS
  <2>2. ready' = rdy /\ doc' = d /\ timer' = (rdy /\ Armed(queue', rdy, pump.stage # "idle"))
    BY <1>5 DEF SetRendererReady, SetReady
  <2> QED BY <2>1, <2>2
<1>6. ASSUME NEW t \in Terminals,
             Register(t) \/ Finish(t) \/ FinishTimeout(t) \/ Cancel(t) \/ HydrateTerminal(t)
      PROVE  ready' \in BOOLEAN /\ doc' \in Nat /\ timer' \in BOOLEAN
  BY <1>1, <1>2, <1>6 DEF Register, Finish, FinishTimeout, Cancel, HydrateTerminal
<1>7. ASSUME NEW t \in Terminals, NEW n \in 1 .. ChunkBytes, Enqueue(t, n)
      PROVE  ready' \in BOOLEAN /\ doc' \in Nat /\ timer' \in BOOLEAN
  BY <1>1, <1>2, <1>7 DEF Enqueue
<1>8. ASSUME NEW t \in Terminals, NEW i \in DOMAIN queue[t].inFlight, Acknowledge(t, i)
      PROVE  ready' \in BOOLEAN /\ doc' \in Nat /\ timer' \in BOOLEAN
  BY <1>1, <1>2, <1>8 DEF Acknowledge
<1>9. CASE Dispose
  BY <1>1, <1>9 DEF Dispose
<1> QED BY <1>3, <1>4, <1>5, <1>6, <1>7, <1>8, <1>9 DEF Next

-----------------------------------------------------------------------------
(* Theorems *)

(* The invariant is inductive.                                             *)
LEMMA InductiveStep ==
  ASSUME IInv, [Next]_vars
  PROVE  IInv'
<1>1. TypeOK /\ RoundRobin /\ QueuesInv /\ DisposedInv /\ PumpArmed
  BY DEF IInv
<1>2. QueuesInv' /\ queue' \in [Terminals -> Queue]
  BY <1>1, QueuesStep
<1>3. RoundRobin' /\ order' \in Seq(Terminals) /\ cursor' \in Nat
  BY <1>1, <1>2, OrderStep
<1>4. DisposedInv' /\ disposed' \in BOOLEAN
  BY <1>1, DisposedStep
<1>5. PumpArmed'
  BY <1>2, <1>4, PumpArmedStep
<1>6. TypeOK'
  BY <1>1, <1>2, <1>3, <1>4, PumpTypeStep, GateTypeStep DEF TypeOK
<1> QED BY <1>2, <1>3, <1>4, <1>5, <1>6 DEF IInv

(* Every reachable state satisfies the inductive invariant.                *)
THEOREM Invariance == Spec => []IInv
<1>1. IInv /\ [Next]_vars => IInv'
  BY InductiveStep
<1> QED BY InitInv, <1>1, PTL DEF Spec

(* Every variable of the scheduler stays in its domain.                    *)
THEOREM TypeCorrect == Spec => []TypeOK
<1>1. IInv => TypeOK
  BY DEF IInv
<1> QED BY Invariance, <1>1, PTL

(* No method loses a live terminal from the round-robin order.             *)
THEOREM RoundRobinHolds == Spec => []RoundRobin
<1>1. IInv => RoundRobin
  BY DEF IInv
<1> QED BY Invariance, <1>1, PTL

(* Replays and refusals never reorder the records of a terminal.           *)
THEOREM LedgerStaysInOrder == Spec => []LedgerInOrder
<1>1. IInv => LedgerInOrder
  BY DEF IInv, QueuesInv, QueueInv, QueueOK, LedgerInOrder
<1> QED BY Invariance, <1>1, PTL

(* Every admitted byte is acknowledged or in exactly one retained record.  *)
THEOREM NoByteIsLost == Spec => []Lossless
<1>1. IInv => Lossless
  BY DEF IInv, QueuesInv, QueueInv, QueueOK, Lossless
<1> QED BY Invariance, <1>1, PTL

(* The exit marker is the last record of its terminal, and a finish() has  *)
(* something left that will complete it.                                   *)
THEOREM ExitComesLast == Spec => []ExitAfterTail
<1>1. IInv => ExitAfterTail
  BY DEF IInv, QueuesInv, QueueInv, QueueOK, Closing, ExitAfterTail, TailFirst
<1> QED BY Invariance, <1>1, PTL

(* finish() reports delivery only of a fully acknowledged terminal.        *)
THEOREM DeliveredMeansAcknowledged == Spec => []DeliveredTail
<1>1. IInv => DeliveredTail
  BY DEF IInv, QueuesInv, QueueInv, QueueOK, DeliveredTail
<1> QED BY Invariance, <1>1, PTL

(* Retention stays below the high-water marks whatever the viewer does.    *)
THEOREM RetentionIsBounded == Spec => []HighWater
<1>1. IInv => HighWater
  BY DEF IInv, QueuesInv, QueueInv, QueueOK, HighWater
<1> QED BY Invariance, <1>1, PTL

(* A paused source always has an acknowledgement coming that resumes it.   *)
THEOREM ResumeIsNotLost == Spec => []NoLostResume
<1>1. IInv => NoLostResume
  BY DEF IInv, QueuesInv, QueueInv, NoLostResume
<1> QED BY Invariance, <1>1, PTL

(* In-flight records belong to a hydrated viewer of the ready document.    *)
THEOREM InFlightIsViewed == Spec => []InFlightHasViewer
<1>1. IInv => InFlightHasViewer
  BY DEF IInv, QueuesInv, QueueInv, InFlightHasViewer
<1> QED BY Invariance, <1>1, PTL

(* Deliverable output always has a frame scheduled or running.             *)
THEOREM OutputIsScheduled == Spec => []PumpArmed
<1>1. IInv => PumpArmed
  BY DEF IInv
<1> QED BY Invariance, <1>1, PTL

-----------------------------------------------------------------------------
(* What was sent never changes *)

(* Every record n holds was held by q, is new, or is the one record of q   *)
(* with its sequence number, which q had not sent yet.                     *)
Kept(q, n) ==
  /\ n.next >= q.next
  /\ \A s \in Held(n) : \/ s \in Held(q) \/ s.seq >= q.next
                        \/ \E o \in Held(q) : o.seq = s.seq /\ ~o.sealed

(* A sealed record of a live queue is still the same in its next state.    *)
Immutable(q, n) ==
  q.live /\ n.live => \A r \in Held(q), s \in Held(n) : r.sealed /\ r.seq = s.seq => s = r

(* A step may be several methods one after the other.                      *)
LEMMA KeptTwice ==
  ASSUME NEW a, QueueOK(a), NEW b, QueueOK(b), NEW c, QueueOK(c), Kept(a, b), Kept(b, c)
  PROVE  Kept(a, c)
<1>1. a.next \in Nat /\ b.next \in Nat /\ c.next \in Nat /\ b.next >= a.next /\ c.next >= b.next
  BY QueueFields DEF QueueOK, Kept
<1>2. PICK k, l, m : k = a.next /\ l = b.next /\ m = c.next
  OBVIOUS
<1>3. k \in Nat /\ l \in Nat /\ m \in Nat /\ l >= k /\ m >= l
  BY <1>1, <1>2
<1>4. m >= k
  BY <1>3
<1>5. ASSUME NEW s \in Held(c)
      PROVE  \/ s \in Held(a) \/ s.seq >= k
             \/ \E o \in Held(a) : o.seq = s.seq /\ ~o.sealed
  <2>1. \A u \in Held(b) : \/ u \in Held(a) \/ u.seq >= k
                           \/ \E o \in Held(a) : o.seq = u.seq /\ ~o.sealed
    BY <1>2 DEF Kept
  <2>2. \/ s \in Held(b) \/ s.seq >= l \/ \E o \in Held(b) : o.seq = s.seq /\ ~o.sealed
    BY <1>2 DEF Kept
  <2>3. CASE s \in Held(b)
    BY <2>1, <2>3
  <2>4. CASE s.seq >= l
    <3>1. s.seq \in Nat
      BY DistinctRecords, RecordFields
    <3> QED BY <1>3, <2>4, <3>1
  <2>5. CASE \E o \in Held(b) : o.seq = s.seq /\ ~o.sealed
    <3>1. PICK o \in Held(b) : o.seq = s.seq /\ ~o.sealed
      BY <2>5
    <3> QED BY <2>1, <3>1
  <2> QED BY <2>2, <2>3, <2>4, <2>5
<1> QED BY <1>2, <1>4, <1>5 DEF Kept

(* Moving records between the two stores, or dropping some, keeps them.    *)
LEMMA KeptHeld ==
  ASSUME NEW q, QueueOK(q), NEW n, n.next = q.next, Held(n) \subseteq Held(q)
  PROVE  Kept(q, n)
<1>1. q.next \in Nat
  BY QueueFields DEF QueueOK
<1> QED BY <1>1 DEF Kept

(* Sequence numbers tell the held records apart, so what Kept allows to    *)
(* change had not been sent.                                               *)
LEMMA KeptImmutable ==
  ASSUME NEW q, QueueOK(q), NEW n, Kept(q, n)
  PROVE  Immutable(q, n)
<1> SUFFICES ASSUME NEW r \in Held(q), NEW s \in Held(n), r.sealed, r.seq = s.seq
             PROVE  s = r
  BY DEF Immutable
<1>1. r.seq \in Nat /\ q.next \in Nat /\ r.seq < q.next
  <2>1. q.next \in Nat /\ r.seq < q.next
    BY QueueFields DEF QueueOK, InOrder
  <2> QED BY <2>1, DistinctRecords, RecordFields
<1>2. ~(s.seq >= q.next)
  BY <1>1
<1>3. CASE s \in Held(q)
  BY <1>3, DistinctRecords
<1>4. CASE \E o \in Held(q) : o.seq = s.seq /\ ~o.sealed
  <2>1. PICK o \in Held(q) : o.seq = s.seq /\ ~o.sealed
    BY <1>4
  <2>2. o = r
    BY <2>1, DistinctRecords
  <2> QED BY <2>1, <2>2
<1> QED BY <1>2, <1>3, <1>4 DEF Kept

(* A removed queue holds nothing.                                          *)
LEMMA KeptRemoved ==
  ASSUME NEW q, QueueOK(q), NEW delivered \in BOOLEAN
  PROVE  Kept(q, Removed(q, delivered))
<1>1. q \in Queue
  BY DEF QueueOK
<1> DEFINE n == Removed(q, delivered)
<1>2. CASE ~q.live
  <2>1. n = q
    BY <1>2 DEF Removed
  <2> QED BY <2>1, KeptHeld
<1>3. CASE q.live
  <2>1. n.next = q.next /\ n.chunks = <<>> /\ n.inFlight = <<>>
    BY <1>1, <1>3 DEF Removed, Queue
  <2> HIDE DEF n
  <2>2. Held(n) = {}
    BY <2>1, EmptyLedger DEF Held
  <2>3. Kept(q, n)
    BY <2>1, <2>2, KeptHeld
  <2> QED BY <2>3 DEF n
<1> QED BY <1>2, <1>3

(* maybeFinishQueue adds the exit marker alone, under a new number.        *)
LEMMA KeptFinished ==
  ASSUME NEW q, QueueOK(q), NEW rdy \in BOOLEAN
  PROVE  Kept(q, Finished(q, rdy))
<1>1. q \in Queue /\ q.next \in Nat /\ q.chunks \in Seq(Record)
  BY QueueFields DEF QueueOK
<1> DEFINE e == WithExit(q)
<1>2. QueueOK(e)
  BY WithExitOK
<1>3. Kept(q, e)
  <2> DEFINE x == ExitRecord(q.next)
             c == Append(q.chunks, x)
             n == [q EXCEPT !.exitQueued = TRUE, !.chunks = c, !.next = q.next + 1]
  <2>1. e = q \/ e = n
    BY DEF WithExit
  <2>2. CASE e = q
    <3>1. Kept(q, q)
      BY KeptHeld
    <3> QED BY <2>2, <3>1
  <2>3. CASE e = n
    <3>1. n.chunks = c /\ n.next = q.next + 1 /\ n.inFlight = q.inFlight
      BY <1>1 DEF Queue
    <3>2. x \in Record /\ x.seq = q.next
      BY <1>1 DEF ExitRecord, Record
    <3> HIDE DEF x
    <3>3. Range(c) = Range(q.chunks) \cup {x}
      BY <1>1, <3>2, RangeAppend
    <3> HIDE DEF c, n
    <3>4. Held(n) = Held(q) \cup {x}
      BY <3>1, <3>3 DEF Held
    <3>5. n.next >= q.next /\ x.seq >= q.next
      BY <1>1, <3>1, <3>2
    <3>6. Kept(q, n)
      BY <3>4, <3>5 DEF Kept
    <3> QED BY <2>3, <3>6
  <2> QED BY <2>1, <2>2, <2>3
<1>4. Finished(q, rdy) = IF e.closing /\ e.exitQueued /\ RetainedChunks(e) = 0 /\ CanDeliver(e, rdy)
                         THEN Removed(e, TRUE) ELSE e
  BY DEF Finished
<1> HIDE DEF e
<1>5. CASE ~(e.closing /\ e.exitQueued /\ RetainedChunks(e) = 0 /\ CanDeliver(e, rdy))
  BY <1>3, <1>4, <1>5
<1>6. CASE e.closing /\ e.exitQueued /\ RetainedChunks(e) = 0 /\ CanDeliver(e, rdy)
  <2>1. Held(e) = {}
    <3>1. e.chunks \in Seq(Record) /\ e.inFlight \in Seq(Record)
      BY <1>2, QueueFields DEF QueueOK
    <3> QED BY <1>6, <3>1, Retention
  <2>2. PICK n : n = Removed(e, TRUE)
    OBVIOUS
  <2>3. QueueOK(n) /\ Kept(e, n)
    BY <1>2, <2>1, <2>2, RemovedOK, KeptRemoved
  <2>4. Kept(q, n)
    BY <1>2, <1>3, <2>3, KeptTwice
  <2> QED BY <1>4, <1>6, <2>2, <2>4
<1> QED BY <1>5, <1>6

(* maybeResumeSource and maybeFinishQueue after another method.            *)
LEMMA KeptSettled ==
  ASSUME NEW q, QueueOK(q), NEW p, QueueOK(p), Kept(q, p), NEW rdy \in BOOLEAN,
         QueueOK(Finished(Resumed(p, rdy), rdy))
  PROVE  Kept(q, Finished(Resumed(p, rdy), rdy))
<1>1. PICK m : m = Resumed(p, rdy)
  OBVIOUS
<1>2. QueueOK(m) /\ Held(m) = Held(p)
  BY <1>1, ResumedOK
<1>3. m.next = p.next
  BY <1>1 DEF Resumed, QueueOK, Queue
<1>4. Kept(p, m)
  BY <1>2, <1>3, KeptHeld
<1>5. PICK n : n = Finished(m, rdy)
  OBVIOUS
<1>6. QueueOK(n) /\ Kept(m, n)
  BY <1>1, <1>2, <1>5, KeptFinished
<1>7. Kept(p, n)
  BY <1>2, <1>4, <1>6, KeptTwice
<1>8. Kept(q, n)
  BY <1>6, <1>7, KeptTwice
<1> QED BY <1>1, <1>5, <1>8

(* An acknowledgement only drops a record.                                 *)
LEMMA KeptAcked ==
  ASSUME NEW q, QueueOK(q), NEW i \in 1 .. Len(q.inFlight)
  PROVE  Kept(q, Acked(q, i))
<1>1. PICK n : n = Acked(q, i)
  OBVIOUS
<1>2. Range(n.inFlight) \subseteq Range(q.inFlight)
  BY <1>1, AckedOK
<1>3. n.chunks = q.chunks /\ n.next = q.next
  BY <1>1 DEF Acked, QueueOK, Queue
<1>4. Held(n) \subseteq Held(q)
  BY <1>2, <1>3 DEF Held
<1>5. Kept(q, n)
  BY <1>3, <1>4, KeptHeld
<1> QED BY <1>1, <1>5

(* A replay moves the records in flight back to the queue.                 *)
LEMMA KeptDetached ==
  ASSUME NEW q, QueueOK(q)
  PROVE  Kept(q, Detached(q))
<1>1. PICK n : n = Detached(q)
  OBVIOUS
<1>2. Held(n) = Held(q)
  BY <1>1, DetachedOK
<1>3. n.next = q.next
  BY <1>1 DEF Detached, Replayed, QueueOK, Queue
<1>4. Kept(q, n)
  BY <1>2, <1>3, KeptHeld
<1> QED BY <1>1, <1>4

(* The refused record goes back in front as it was sent.                   *)
LEMMA KeptRequeued ==
  ASSUME NEW q, QueueOK(q), NEW seq, Owns(q, seq), \A r \in Range(q.inFlight) : r.seq <= seq
  PROVE  Kept(q, Requeued(q, seq))
<1>1. PICK n : n = Requeued(q, seq)
  OBVIOUS
<1>2. Held(n) = Held(q)
  BY <1>1, RequeuedOK
<1>3. n.next = q.next
  <2>1. q \in Queue
    BY DEF QueueOK
  <2> QED BY <1>1, <2>1 DEF Requeued, Queue
<1>4. Kept(q, n)
  BY <1>2, <1>3, KeptHeld
<1> QED BY <1>1, <1>4

(* A send seals the record at the front, which was not sealed or is sent   *)
(* again as it was.                                                        *)
LEMMA KeptSent ==
  ASSUME NEW q, QueueOK(q), q.live, q.chunks # <<>>
  PROVE  Kept(q, Sent(q))
<1>1. q \in Queue /\ q.chunks \in Seq(Record) /\ q.inFlight \in Seq(Record) /\ q.next \in Nat
  BY QueueFields DEF QueueOK
<1>2. PICK h : h = Head(q.chunks)
  OBVIOUS
<1>3. h \in Record /\ Range(q.chunks) = {h} \cup Range(Tail(q.chunks))
  BY <1>1, <1>2, HeadTailProperties, RangeTail
<1>4. PICK r : r = [h EXCEPT !.sealed = TRUE]
  OBVIOUS
<1>5. r \in Record /\ r.seq = h.seq
  BY <1>3, <1>4 DEF Record
<1>6. h.sealed => r = h
  BY <1>3, <1>4 DEF Record
<1>7. PICK n : n = Sent(q)
  OBVIOUS
<1>8. n.chunks = Tail(q.chunks) /\ n.inFlight = Append(q.inFlight, r) /\ n.next = q.next
  BY <1>1, <1>2, <1>4, <1>7 DEF Sent, Queue
<1>9. Range(n.inFlight) = Range(q.inFlight) \cup {r}
  BY <1>1, <1>5, <1>8, RangeAppend
<1>10. Held(n) \subseteq Held(q) \cup {r} /\ h \in Held(q)
  BY <1>3, <1>8, <1>9 DEF Held
<1>11. Kept(q, n)
  <2>1. n.next >= q.next
    BY <1>1, <1>8
  <2>2. r \in Held(q) \/ (h.seq = r.seq /\ ~h.sealed)
    <3>1. CASE h.sealed
      <4>1. r = h
        BY <1>6, <3>1
      <4> QED BY <1>10, <4>1
    <3>2. CASE ~h.sealed
      BY <1>5, <3>2
    <3> QED BY <3>1, <3>2
  <2> QED BY <1>10, <2>1, <2>2 DEF Kept
<1> QED BY <1>7, <1>11

(* An admitted quantum is a new record or joins one that was not sent.     *)
LEMMA KeptAdmitted ==
  ASSUME NEW q, QueueOK(q), NEW n \in 1 .. ChunkBytes
  PROVE  Kept(q, Admitted(q, n))
<1>1. /\ q \in Queue /\ q.chunks \in Seq(Record) /\ q.next \in Nat /\ q.produced \in Nat
      /\ Ascending(q.chunks) /\ n \in Nat
  BY QueueFields, Constants DEF QueueOK, InOrder
<1>2. PICK c, x : c = Extended(q, n) /\ x = IF Coalesces(q, n) THEN q.next ELSE q.next + 1
  OBVIOUS
<1>3. PICK a : a = Admitted(q, n)
  OBVIOUS
<1>4. a.chunks = c /\ a.next = x /\ a.inFlight = q.inFlight
  BY <1>1, <1>2, <1>3 DEF Admitted, Paused, Queue
<1>5. x >= q.next
  BY <1>1, <1>2
<1>6. CASE Coalesces(q, n)
  <2>1. PICK tail : tail = q.chunks[Len(q.chunks)]
    OBVIOUS
  <2>2. q.chunks # <<>> /\ ~tail.sealed
    BY <1>6, <2>1 DEF Coalesces
  <2>3. tail \in Range(q.chunks) /\ tail \in Record
    <3>1. Len(q.chunks) \in 1 .. Len(q.chunks)
      BY <1>1, <2>2, SequenceFacts
    <3> QED BY <1>1, <2>1, <3>1, SequenceFacts
  <2>4. PICK e : e = Grown(tail, n)
    OBVIOUS
  <2>5. e \in Record /\ e.seq = tail.seq
    <3>1. tail.bytes + n \in Nat
      BY <1>1, <2>3, RecordFields
    <3> QED BY <2>3, <2>4, <3>1 DEF Grown, Record
  <2>6. PICK d : d = q.chunks
    OBVIOUS
  <2>7. d \in Seq(Record) /\ d # <<>> /\ Ascending(d) /\ e.seq = d[Len(d)].seq
    BY <1>1, <2>1, <2>2, <2>5, <2>6
  <2>8. c = [d EXCEPT ![Len(d)] = e]
    BY <1>2, <1>6, <2>1, <2>4, <2>6 DEF Extended
  <2>9. Range([d EXCEPT ![Len(d)] = e]) = (Range(d) \ {d[Len(d)]}) \cup {e}
    BY <2>5, <2>7, GrowLast
  <2>10. Range(c) \subseteq Range(q.chunks) \cup {e}
    BY <2>6, <2>8, <2>9
  <2>11. Held(a) \subseteq Held(q) \cup {e} /\ tail \in Held(q)
    BY <1>4, <2>3, <2>10 DEF Held
  <2>12. Kept(q, a)
    BY <1>4, <1>5, <2>2, <2>5, <2>11 DEF Kept
  <2> QED BY <1>3, <2>12
<1>7. CASE ~Coalesces(q, n)
  <2>1. PICK e : e = DataRecord(q.next, q.produced, n)
    OBVIOUS
  <2>2. e \in Record /\ e.seq = q.next
    BY <1>1, <2>1 DEF DataRecord, Record
  <2>3. c = Append(q.chunks, e)
    BY <1>2, <1>7, <2>1 DEF Extended
  <2>4. Range(c) = Range(q.chunks) \cup {e}
    BY <1>1, <2>2, <2>3, RangeAppend
  <2>5. Held(a) = Held(q) \cup {e}
    BY <1>4, <2>4 DEF Held
  <2>6. e.seq >= q.next
    BY <1>1, <2>2
  <2>7. Kept(q, a)
    BY <1>4, <1>5, <2>5, <2>6 DEF Kept
  <2> QED BY <1>3, <2>7
<1> QED BY <1>6, <1>7

(* A method that updates the queue of one terminal.                        *)
LEMMA KeptUpdate ==
  ASSUME TypeOK, QueuesInv, NEW t \in Terminals, NEW n, queue' = Update(t, n), Kept(queue[t], n)
  PROVE  \A u \in Terminals : Immutable(queue[u], queue'[u])
<1>1. queue \in [Terminals -> Queue] /\ \A u \in Terminals : QueueOK(queue[u])
  BY DEF TypeOK, QueuesInv, QueueInv
<1>2. \A u \in Terminals : queue'[u] = IF u = t THEN n ELSE queue[u]
  BY <1>1 DEF Update
<1>3. ASSUME NEW u \in Terminals
      PROVE  Immutable(queue[u], queue'[u])
  <2>1. Kept(queue[u], queue'[u])
    <3>1. CASE u = t
      BY <1>2, <3>1
    <3>2. CASE u # t
      <4>1. Kept(queue[u], queue[u])
        BY <1>1, KeptHeld
      <4> QED BY <1>2, <3>2, <4>1
    <3> QED BY <3>1, <3>2
  <2> QED BY <1>1, <2>1, KeptImmutable
<1> QED BY <1>3

(* A method that updates every queue.                                      *)
LEMMA KeptUpdateAll ==
  ASSUME TypeOK, QueuesInv, NEW f, queue' = [t \in Terminals |-> f[t]],
         \A t \in Terminals : Kept(queue[t], f[t])
  PROVE  \A u \in Terminals : Immutable(queue[u], queue'[u])
<1> SUFFICES ASSUME NEW u \in Terminals PROVE Immutable(queue[u], queue'[u])
  OBVIOUS
<1>1. QueueOK(queue[u])
  BY DEF QueuesInv, QueueInv
<1>2. queue'[u] = f[u]
  OBVIOUS
<1>3. Immutable(queue[u], f[u])
  BY <1>1, KeptImmutable
<1> QED BY <1>2, <1>3

(* No step changes a record that was sent.                                 *)
LEMMA ImmutableStep ==
  ASSUME TypeOK, QueuesInv, [Next]_vars
  PROVE  \A u \in Terminals : Immutable(queue[u], queue'[u])
<1>1. /\ queue \in [Terminals -> Queue] /\ ready \in BOOLEAN
      /\ \A t \in Terminals : QueueInv(queue[t], ready) /\ QueueOK(queue[t]) /\ queue[t] \in Queue
  BY DEF TypeOK, QueuesInv, QueueInv
<1>2. ASSUME queue' = queue
      PROVE  \A u \in Terminals : Immutable(queue[u], queue'[u])
  <2>1. \A u \in Terminals : Kept(queue[u], queue[u])
    BY <1>1, KeptHeld
  <2> QED BY <1>1, <1>2, <2>1, KeptImmutable
<1>3. ASSUME NEW t \in Terminals, NEW n, n.next = queue[t].next,
             n.chunks = queue[t].chunks, n.inFlight = queue[t].inFlight
      PROVE  Kept(queue[t], n)
  <2>1. Held(n) = Held(queue[t])
    BY <1>3 DEF Held
  <2> QED BY <1>1, <1>3, <2>1, KeptHeld
<1>4. ASSUME NEW t \in Terminals, Register(t)
      PROVE  \A u \in Terminals : Immutable(queue[u], queue'[u])
  <2> SUFFICES ASSUME NEW u \in Terminals PROVE Immutable(queue[u], queue'[u])
    OBVIOUS
  <2>1. ~queue[t].live /\ \A x \in Terminals : x # t => queue'[x] = queue[x]
    BY <1>1, <1>4 DEF Register, Update
  <2>2. CASE u = t
    BY <2>1, <2>2 DEF Immutable
  <2>3. CASE u # t
    <3>1. Immutable(queue[u], queue[u])
      BY <1>1, <1>3, KeptImmutable
    <3> QED BY <2>1, <2>3, <3>1
  <2> QED BY <2>2, <2>3
<1>5. ASSUME NEW t \in Terminals, Finish(t)
      PROVE  \A u \in Terminals : Immutable(queue[u], queue'[u])
  <2>1. PICK c : c = [queue[t] EXCEPT !.closing = TRUE, !.paused = TRUE, !.verdict = "pending"]
    OBVIOUS
  <2>2. /\ queue[t].live /\ c \in Queue /\ c.next = queue[t].next /\ c.chunks = queue[t].chunks
        /\ c.inFlight = queue[t].inFlight /\ c.queuedBytes = queue[t].queuedBytes
        /\ c.inFlightBytes = queue[t].inFlightBytes /\ c.produced = queue[t].produced
        /\ c.acked = queue[t].acked /\ c.live = queue[t].live
        /\ c.exitQueued = queue[t].exitQueued /\ c.closing /\ c.verdict # "delivered"
    <3>1. PICK q : q = queue[t] /\ q \in Queue
      BY <1>1
    <3>2. c = [q EXCEPT !.closing = TRUE, !.paused = TRUE, !.verdict = "pending"]
      BY <2>1, <3>1
    <3>3. c \in Queue
      BY <3>1, <3>2 DEF Queue
    <3>4. /\ c.next = q.next /\ c.chunks = q.chunks /\ c.inFlight = q.inFlight /\ c.queuedBytes = q.queuedBytes
          /\ c.inFlightBytes = q.inFlightBytes
      BY <3>1, <3>2 DEF Queue
    <3>5. c.produced = q.produced /\ c.acked = q.acked /\ c.live = q.live /\ c.exitQueued = q.exitQueued
      BY <3>1, <3>2 DEF Queue
    <3>6. c.closing /\ c.verdict # "delivered"
      BY <3>1, <3>2 DEF Queue
    <3>7. queue[t].live
      BY <1>5 DEF Finish
    <3> QED BY <3>1, <3>3, <3>4, <3>5, <3>6, <3>7
  <2>3. QueueOK(c) /\ Kept(queue[t], c)
    <3>1. PICK q : q = queue[t]
      OBVIOUS
    <3>2. QueueOK(c)
      BY <1>1, <2>2, <3>1, SameLedger
    <3> QED BY <1>3, <2>2, <3>2
  <2>4. PICK n : n = Finished(c, ready)
    OBVIOUS
  <2>5. queue' = Update(t, n) /\ queue[t].live /\ ~queue[t].closing
    BY <1>5, <2>1, <2>4 DEF Finish
  <2>6. QueueOK(n)
    BY <1>1, <2>1, <2>4, <2>5, FinishInv DEF QueueInv
  <2>7. Kept(c, n)
    BY <1>1, <2>3, <2>4, KeptFinished
  <2>8. Kept(queue[t], n)
    BY <1>1, <2>3, <2>6, <2>7, KeptTwice
  <2> QED BY <2>5, <2>8, KeptUpdate
<1>6. ASSUME NEW t \in Terminals, FinishTimeout(t)
      PROVE  \A u \in Terminals : Immutable(queue[u], queue'[u])
  <2>1. PICK n : n = [queue[t] EXCEPT !.verdict = "timeout"]
    OBVIOUS
  <2>2. queue' = Update(t, n)
    BY <1>6, <2>1 DEF FinishTimeout
  <2>3. n.next = queue[t].next /\ n.chunks = queue[t].chunks /\ n.inFlight = queue[t].inFlight
    BY <1>1, <2>1 DEF Queue
  <2>4. Kept(queue[t], n)
    BY <1>3, <2>3
  <2> QED BY <2>2, <2>4, KeptUpdate
<1>7. ASSUME NEW t \in Terminals, Cancel(t)
      PROVE  \A u \in Terminals : Immutable(queue[u], queue'[u])
  <2>1. queue' = Update(t, Removed(queue[t], FALSE))
    BY <1>7 DEF Cancel
  <2>2. Kept(queue[t], Removed(queue[t], FALSE))
    BY <1>1, KeptRemoved
  <2> QED BY <2>1, <2>2, KeptUpdate
<1>8. ASSUME NEW t \in Terminals, HydrateTerminal(t)
      PROVE  \A u \in Terminals : Immutable(queue[u], queue'[u])
  <2>1. PICK h : h = [queue[t] EXCEPT !.hydrated = TRUE]
    OBVIOUS
  <2>2. PICK n : n = Finished(Resumed(h, TRUE), TRUE)
    OBVIOUS
  <2>3. queue' = Update(t, n) /\ ready = TRUE
    BY <1>1, <1>8, <2>1, <2>2 DEF HydrateTerminal
  <2>4. QueueOK(n)
    BY <1>1, <2>1, <2>2, <2>3, HydrateInv DEF QueueInv
  <2>5. QueueOK(h)
    BY <1>1, <2>1, FlagsOK
  <2>6. h.next = queue[t].next /\ h.chunks = queue[t].chunks /\ h.inFlight = queue[t].inFlight
    BY <1>1, <2>1 DEF Queue
  <2>7. Kept(queue[t], h)
    BY <1>3, <2>6
  <2>8. Kept(queue[t], n)
    BY <1>1, <2>2, <2>4, <2>5, <2>7, KeptSettled
  <2> QED BY <2>3, <2>8, KeptUpdate
<1>9. ASSUME NEW t \in Terminals, NEW k \in 1 .. ChunkBytes, Enqueue(t, k)
      PROVE  \A u \in Terminals : Immutable(queue[u], queue'[u])
  <2>1. queue' = Update(t, Paused(queue[t])) \/ queue' = Update(t, Admitted(queue[t], k))
    BY <1>9 DEF Enqueue
  <2>2. PICK n : n = Paused(queue[t])
    OBVIOUS
  <2>3. n.next = queue[t].next /\ n.chunks = queue[t].chunks /\ n.inFlight = queue[t].inFlight
    BY <1>1, <2>2 DEF Queue, Paused
  <2>4. Kept(queue[t], n)
    BY <1>3, <2>3
  <2>5. Kept(queue[t], Admitted(queue[t], k))
    BY <1>1, KeptAdmitted
  <2> QED BY <2>1, <2>2, <2>4, <2>5, KeptUpdate
<1>10. ASSUME NEW t \in Terminals, NEW i \in DOMAIN queue[t].inFlight, Acknowledge(t, i)
       PROVE  \A u \in Terminals : Immutable(queue[u], queue'[u])
  <2>1. PICK q : q = queue[t]
    OBVIOUS
  <2>2. QueueInv(q, ready) /\ QueueOK(q) /\ i \in DOMAIN q.inFlight
    BY <1>1, <2>1
  <2>3. i \in 1 .. Len(q.inFlight)
    <3>1. q.inFlight \in Seq(Record)
      BY <2>2, QueueFields DEF QueueOK
    <3> QED BY <2>2, <3>1, SequenceFacts
  <2>4. PICK a : a = Acked(q, i)
    OBVIOUS
  <2>5. QueueOK(a) /\ Kept(q, a)
    BY <2>2, <2>3, <2>4, AckedOK, KeptAcked
  <2>6. PICK n : n = Finished(Resumed(a, ready), ready)
    OBVIOUS
  <2>7. queue' = Update(t, n)
    BY <1>10, <2>1, <2>4, <2>6 DEF Acknowledge
  <2>8. QueueOK(n)
    BY <1>1, <2>2, <2>4, <2>6, AcknowledgeInv DEF QueueInv
  <2>9. Kept(q, n)
    BY <1>1, <2>2, <2>5, <2>6, <2>8, KeptSettled
  <2> QED BY <2>1, <2>7, <2>9, KeptUpdate
<1>11. ASSUME NEW d, NEW rdy \in BOOLEAN, SetRendererReady(d, rdy)
       PROVE  \A u \in Terminals : Immutable(queue[u], queue'[u])
  <2> SUFFICES ASSUME NEW u \in Terminals PROVE Immutable(queue[u], queue'[u])
    OBVIOUS
  <2>1. PICK b : b = IF d # doc \/ ~rdy THEN Detached(queue[u]) ELSE queue[u]
    OBVIOUS
  <2>2. queue'[u] = IF rdy THEN Finished(Resumed(b, TRUE), TRUE) ELSE b
    BY <1>11, <2>1 DEF SetRendererReady, SetReady
  <2>3. QueueOK(b) /\ Kept(queue[u], b)
    <3>1. CASE d # doc \/ ~rdy
      <4>1. b = Detached(queue[u])
        BY <2>1, <3>1
      <4> QED BY <1>1, <4>1, DetachedOK, KeptDetached
    <3>2. CASE ~(d # doc \/ ~rdy)
      <4>1. b = queue[u]
        BY <2>1, <3>2
      <4> QED BY <1>1, <1>3, <4>1
    <3> QED BY <3>1, <3>2
  <2>4. QueueOK(queue'[u])
    <3>1. QueuesInv'
      BY <1>11, SetReadyStep DEF SetRendererReady
    <3> QED BY <3>1 DEF QueuesInv, QueueInv
  <2>5. Kept(queue[u], queue'[u])
    <3>1. CASE rdy
      <4>1. PICK n : n = Finished(Resumed(b, TRUE), TRUE)
        OBVIOUS
      <4>2. QueueOK(n) /\ queue'[u] = n
        BY <2>2, <2>4, <3>1, <4>1
      <4>3. Kept(queue[u], n)
        BY <1>1, <2>3, <4>1, <4>2, KeptSettled
      <4> QED BY <4>2, <4>3
    <3>2. CASE ~rdy
      BY <2>2, <2>3, <3>2
    <3> QED BY <3>1, <3>2
  <2> QED BY <1>1, <2>5, KeptImmutable
<1>12. ASSUME Dispose
       PROVE  \A u \in Terminals : Immutable(queue[u], queue'[u])
  <2>1. PICK f : f = [t \in Terminals |-> Removed(queue[t], FALSE)]
    OBVIOUS
  <2>2. queue' = [t \in Terminals |-> f[t]]
    BY <1>12, <2>1 DEF Dispose
  <2>3. \A t \in Terminals : Kept(queue[t], f[t])
    BY <1>1, <2>1, KeptRemoved
  <2> QED BY <2>2, <2>3, KeptUpdateAll
<1>13. ASSUME Pump
       PROVE  \A u \in Terminals : Immutable(queue[u], queue'[u])
  <2>1. CASE PumpStart \/ PumpOverBudget \/ PumpStop
    <3>1. queue' = queue
      BY <2>1 DEF PumpStart, PumpOverBudget, PumpStop
    <3> QED BY <1>2, <3>1
  <2>2. CASE PumpSend
    <3>1. PICK t : t = Slot(Chosen)
      OBVIOUS
    <3>2. t \in Terminals /\ Deliverable(queue[t], ready)
      BY <2>2, <3>1, ChosenSlot DEF TypeOK, PumpSend
    <3>3. queue' = Update(t, Sent(queue[t]))
      BY <2>2, <3>1 DEF PumpSend
    <3>4. queue[t].live /\ queue[t].chunks # <<>>
      BY <3>2 DEF Deliverable, CanDeliver
    <3>5. Kept(queue[t], Sent(queue[t]))
      BY <1>1, <3>2, <3>4, KeptSent
    <3> QED BY <3>2, <3>3, <3>5, KeptUpdate
  <2>3. CASE PumpSent
    <3>1. PICK t : t = pump.terminal
      OBVIOUS
    <3>2. t \in Terminals
      BY <2>3, <3>1 DEF PumpSent, QueuesInv, PumpLast
    <3>3. PICK n : n = Finished(Resumed(queue[t], ready), ready)
      OBVIOUS
    <3>4. queue' = Update(t, n) \/ queue' = Update(t, queue[t])
      BY <2>3, <3>1, <3>3 DEF PumpSent
    <3>5. QueueOK(n)
      BY <1>1, <3>2, <3>3, SettleInv DEF QueueInv
    <3>6. Kept(queue[t], queue[t])
      BY <1>3, <3>2
    <3>7. Kept(queue[t], n)
      BY <1>1, <3>2, <3>3, <3>5, <3>6, KeptSettled
    <3> QED BY <3>2, <3>4, <3>6, <3>7, KeptUpdate
  <2>4. CASE PumpRefused
    <3>1. PICK t : t = pump.terminal
      OBVIOUS
    <3>2. t \in Terminals /\ \A r \in Range(queue[t].inFlight) : r.seq <= pump.seq
      BY <2>4, <3>1 DEF PumpRefused, QueuesInv, PumpLast
    <3>3. CASE SameQueue /\ Owns(queue[t], pump.seq)
      <4>1. PICK m : m = Requeued(queue[t], pump.seq)
        OBVIOUS
      <4>2. QueueOK(m) /\ Kept(queue[t], m)
        BY <1>1, <3>2, <3>3, <4>1, RequeuedOK, KeptRequeued
      <4>3. PICK back : back = Update(t, m)
        OBVIOUS
      <4>4. \A u \in Terminals : back[u] = IF u = t THEN m ELSE queue[u]
        BY <1>1, <4>3 DEF Update
      <4>5. queue' = [u \in Terminals |-> IF ready THEN Detached(back[u]) ELSE back[u]]
        BY <2>4, <3>1, <3>3, <4>1, <4>3 DEF PumpRefused
      <4> SUFFICES ASSUME NEW u \in Terminals PROVE Immutable(queue[u], queue'[u])
        OBVIOUS
      <4>6. PICK b : b = back[u]
        OBVIOUS
      <4>7. QueueOK(b) /\ Kept(queue[u], b)
        <5>1. CASE u = t
          BY <4>2, <4>4, <4>6, <5>1
        <5>2. CASE u # t
          <6>1. Kept(queue[u], queue[u])
            BY <1>3
          <6> QED BY <1>1, <4>4, <4>6, <5>2, <6>1
        <5> QED BY <5>1, <5>2
      <4>8. QueueOK(Detached(b)) /\ Kept(b, Detached(b))
        BY <4>7, DetachedOK, KeptDetached
      <4>9. Kept(queue[u], Detached(b))
        BY <1>1, <4>7, <4>8, KeptTwice
      <4>10. queue'[u] = Detached(b) \/ queue'[u] = b
        BY <4>5, <4>6
      <4>11. Kept(queue[u], queue'[u])
        BY <4>7, <4>9, <4>10
      <4> QED BY <1>1, <4>11, KeptImmutable
    <3>4. CASE ~(SameQueue /\ Owns(queue[t], pump.seq))
      <4>1. queue' = queue
        BY <2>4, <3>1, <3>4 DEF PumpRefused
      <4> QED BY <1>2, <4>1
    <3> QED BY <3>3, <3>4
  <2> QED BY <1>13, <2>1, <2>2, <2>3, <2>4 DEF Pump
<1>14. CASE UNCHANGED vars
  BY <1>2, <1>14 DEF vars
<1> QED
  BY <1>4, <1>5, <1>6, <1>7, <1>8, <1>9, <1>10, <1>11, <1>12, <1>13, <1>14 DEF Next

(* A record handed to the transport keeps its number and its bytes until   *)
(* it is acknowledged, so what a replay sends is what was sent.            *)
THEOREM SentNeverChanges == Spec => SentIsImmutable
<1>1. TypeOK /\ QueuesInv /\ [Next]_vars =>
        [\A t \in Terminals : queue[t].live /\ queue'[t].live =>
           \A r \in Held(queue[t]), s \in Held(queue'[t]) :
             r.sealed /\ r.seq = s.seq => s = r]_vars
  BY ImmutableStep DEF Immutable
<1>2. IInv => TypeOK /\ QueuesInv
  BY DEF IInv
<1> QED BY <1>1, <1>2, Invariance, PTL DEF Spec, SentIsImmutable

-----------------------------------------------------------------------------
(* The delivery to the renderer (PtyDelivery), whose names this module knows *)
(* as D!...                                                                 *)

CONSTANTS MaxGap, MaxLives, MaxDocuments, MaxData, MaxPushes
VARIABLES document, documentReady, spawning, asking, push, replies, up, pushes

D == INSTANCE PtyDelivery WITH MaxGen <- MaxLives, MaxDoc <- MaxDocuments, doc <- document, ready <- documentReady

(* A pane that was closed stays closed.  The roster is told as a sequence of *)
(* lives, in order, each followed by none before the next (RosterOrder), and *)
(* behind a life p that the view shows, closes or has closed the pushes are  *)
(* of p until p is gone, and of later lives after it (Behind).               *)

TermFields == {"live", "gen", "closed", "target", "closing", "exitQueued", "hydrated", "next", "queue", "flight"}
ViewFields == {"doc", "alive", "stage", "pane", "ledger", "writes", "shown", "closing", "fence"}
HistFields == {"shown", "retired", "closed"}

IsSeq(s) == \E A : s \in Seq(A)

FieldsOK ==
  /\ DOMAIN term = TermFields /\ DOMAIN view = ViewFields /\ DOMAIN hist = HistFields
  /\ IsSeq(push) /\ IsSeq(up)

\* Life p is over for the roster, and stays so.
Gone(T, p) == p < T.gen \/ (p = T.gen /\ D!Listed(T) = 0)

Later(T, U) == /\ DOMAIN U = TermFields /\ U.gen \in Nat /\ T.gen <= U.gen
               /\ \A p \in Nat : p <= T.gen /\ Gone(T, p) => Gone(U, p)

Lists(s) == {i \in DOMAIN s : s[i].kind = "list"}

RosterOrder(s, T) ==
  \A i \in Lists(s) :
    /\ s[i].gen \in Nat /\ s[i].gen <= T.gen
    /\ s[i].gen # 0 => \A j \in Lists(s) : j > i =>
         /\ s[j].gen # 0 => s[i].gen <= s[j].gen
         /\ s[j].gen = 0 => /\ Gone(T, s[i].gen)
                            /\ \A k \in Lists(s) : k > j /\ s[k].gen # 0 => s[i].gen < s[k].gen

Behind(p, s, T, pane, fence) ==
  /\ p \in Nat \ {0} /\ p <= T.gen
  /\ pane = 0 \/ pane >= p
  /\ \A j \in Lists(s) :
       /\ s[j].gen # 0 => s[j].gen >= p /\ \A k \in Lists(s) : k < j /\ s[k].gen = 0 => s[j].gen > p
       /\ s[j].gen = 0 => Gone(T, p)
       /\ s[j].gen = p /\ pane # p => /\ fence >= p
                                      /\ \A k \in Lists(s) : k < j => s[k].gen # 0 /\ s[k].gen <= fence
  /\ pane # p => Gone(T, p)

LEMMA AppendFacts ==
  ASSUME NEW s, IsSeq(s), NEW m
  PROVE  /\ IsSeq(Append(s, m)) /\ Len(s) \in Nat /\ Len(Append(s, m)) = Len(s) + 1
         /\ DOMAIN s = 1 .. Len(s) /\ DOMAIN Append(s, m) = 1 .. Len(s) + 1
         /\ \A i \in 1 .. Len(s) : Append(s, m)[i] = s[i]
         /\ Append(s, m)[Len(s) + 1] = m
<1>1. PICK A : s \in Seq(A)
  BY DEF IsSeq
<1>2. PICK B : B = A \cup {m}
  OBVIOUS
<1>3. s \in Seq(B) /\ m \in B
  <2>1. /\ Len(s) \in Nat /\ DOMAIN s = 1 .. Len(s) /\ \A i \in 1 .. Len(s) : s[i] \in B
    BY <1>1, <1>2
  <2>2. s = [i \in 1 .. Len(s) |-> s[i]]
    BY <1>1
  <2> QED BY <1>2, <2>1, <2>2
<1>4. Append(s, m) \in Seq(B)
  BY <1>3
<1> QED BY <1>3, <1>4 DEF IsSeq

LEMMA TailFacts ==
  ASSUME NEW s, IsSeq(s), s # <<>>
  PROVE  /\ IsSeq(Tail(s)) /\ Len(s) \in Nat \ {0} /\ DOMAIN s = 1 .. Len(s) /\ DOMAIN Tail(s) = 1 .. Len(s) - 1
         /\ \A i \in 1 .. Len(s) - 1 : Tail(s)[i] = s[i + 1]
         /\ Head(s) = s[1] /\ 1 \in DOMAIN s
<1>1. PICK A : s \in Seq(A)
  BY DEF IsSeq
<1>2. Len(s) \in Nat \ {0} /\ DOMAIN s = 1 .. Len(s)
  BY <1>1
<1>3. Tail(s) \in Seq(A) /\ Head(s) = s[1]
  BY <1>1
<1>4. Len(Tail(s)) = Len(s) - 1 /\ \A i \in 1 .. Len(s) - 1 : Tail(s)[i] = s[i + 1]
  BY <1>1, <1>2
<1> QED BY <1>1, <1>2, <1>3, <1>4 DEF IsSeq

LEMMA EmptyFacts == IsSeq(<<>>) /\ Lists(<<>>) = {} /\ DOMAIN <<>> = {}
<1>1. <<>> \in Seq({}) /\ DOMAIN <<>> = {}
  OBVIOUS
<1> QED BY <1>1 DEF IsSeq, Lists

LEMMA ListsAppend ==
  ASSUME NEW s, IsSeq(s), NEW m
  PROVE  Lists(Append(s, m)) = IF m.kind = "list" THEN Lists(s) \cup {Len(s) + 1} ELSE Lists(s)
BY AppendFacts DEF Lists

-----------------------------------------------------------------------------
LEMMA OrderAppend ==
  ASSUME NEW T, NEW U, Later(T, U), T.gen \in Nat, NEW s, IsSeq(s), RosterOrder(s, T), NEW m,
         m.kind = "list" => m.gen = D!Listed(U)
  PROVE  RosterOrder(Append(s, m), U)
<1> DEFINE r == Append(s, m)
           n == Len(s) + 1
<1>1. /\ n \in Nat /\ \A i \in Lists(s) : i \in Nat /\ i < n /\ r[i] = s[i]
      /\ r[n] = m /\ Lists(r) = IF m.kind = "list" THEN Lists(s) \cup {n} ELSE Lists(s)
  BY AppendFacts, ListsAppend DEF Lists
<1> HIDE DEF r, n
<1>2. m.kind = "list" => m.gen \in Nat /\ m.gen <= U.gen /\ (m.gen # 0 => m.gen = U.gen)
  BY DEF D!Listed, Later
<1>3. \A i \in Lists(s) : /\ s[i].gen \in Nat /\ s[i].gen <= U.gen
                          /\ Gone(T, s[i].gen) => Gone(U, s[i].gen)
                          /\ m.kind = "list" /\ m.gen = 0 => Gone(U, s[i].gen)
                          /\ m.kind = "list" /\ m.gen # 0 /\ Gone(U, s[i].gen) => s[i].gen < m.gen
  BY <1>2 DEF RosterOrder, Later, Gone
<1>4. ASSUME NEW i \in Lists(r), r[i].gen # 0, NEW j \in Lists(r), j > i
      PROVE  /\ r[j].gen # 0 => r[i].gen <= r[j].gen
             /\ r[j].gen = 0 => /\ Gone(U, r[i].gen)
                                /\ \A k \in Lists(r) : k > j /\ r[k].gen # 0 => r[i].gen < r[k].gen
  <2>1. i \in Lists(s) /\ r[i] = s[i]
    BY <1>1, <1>4
  <2>2. CASE j \in Lists(s)
    <3>1. /\ s[j].gen # 0 => s[i].gen <= s[j].gen
          /\ s[j].gen = 0 => /\ Gone(T, s[i].gen)
                             /\ \A k \in Lists(s) : k > j /\ s[k].gen # 0 => s[i].gen < s[k].gen
      BY <1>1, <1>4, <2>1, <2>2 DEF RosterOrder
    <3> QED BY <1>1, <1>3, <2>1, <2>2, <3>1
  <2>3. CASE j \notin Lists(s)
    <3>1. j = n /\ m.kind = "list" /\ r[j] = m
      BY <1>1, <2>3
    <3>2. \A k \in Lists(r) : ~(k > j)
      BY <1>1, <3>1
    <3> QED BY <1>2, <1>3, <2>1, <3>1, <3>2
  <2> QED BY <2>2, <2>3
<1>5. \A i \in Lists(r) : r[i].gen \in Nat /\ r[i].gen <= U.gen
  BY <1>1, <1>2, <1>3
<1> QED BY <1>4, <1>5 DEF RosterOrder, r

LEMMA BehindAppend ==
  ASSUME NEW T, NEW U, Later(T, U), T.gen \in Nat, NEW s, IsSeq(s), NEW p, NEW pane, NEW fence,
         Behind(p, s, T, pane, fence), NEW m,
         m.kind = "list" => m.gen = D!Listed(U)
  PROVE  Behind(p, Append(s, m), U, pane, fence)
<1> DEFINE r == Append(s, m)
           n == Len(s) + 1
<1>1. /\ n \in Nat /\ \A i \in Lists(s) : i \in Nat /\ i < n /\ r[i] = s[i]
      /\ r[n] = m /\ Lists(r) = IF m.kind = "list" THEN Lists(s) \cup {n} ELSE Lists(s)
  BY AppendFacts, ListsAppend DEF Lists
<1> HIDE DEF r, n
<1>2. m.kind = "list" => m.gen \in Nat /\ m.gen <= U.gen /\ (m.gen # 0 => m.gen = U.gen /\ D!Listed(U) # 0)
  BY DEF D!Listed, Later
<1>3. p \in Nat \ {0} /\ p <= U.gen /\ p <= T.gen /\ U.gen \in Nat /\ (Gone(T, p) => Gone(U, p))
  BY DEF Behind, Later
<1>4. ASSUME NEW j \in Lists(s)
      PROVE  /\ r[j].gen # 0 => r[j].gen >= p /\ \A k \in Lists(r) : k < j /\ r[k].gen = 0 => r[j].gen > p
             /\ r[j].gen = 0 => Gone(U, p)
             /\ r[j].gen = p /\ pane # p => /\ fence >= p
                                            /\ \A k \in Lists(r) : k < j => r[k].gen # 0 /\ r[k].gen <= fence
  <2>1. \A k \in Lists(r) : k < j => k \in Lists(s) /\ r[k] = s[k]
    BY <1>1
  <2>2. r[j] = s[j]
    BY <1>1
  <2> QED BY <1>3, <2>1, <2>2 DEF Behind
<1>5. ASSUME m.kind = "list"
      PROVE  /\ m.gen # 0 => m.gen >= p /\ \A k \in Lists(s) : s[k].gen = 0 => m.gen > p
             /\ m.gen = 0 => Gone(U, p)
             /\ ~(m.gen = p /\ pane # p)
  <2>1. m.gen # 0 => m.gen >= p
    BY <1>2, <1>3, <1>5
  <2>2. m.gen # 0 /\ Gone(U, p) => m.gen > p
    BY <1>2, <1>3, <1>5 DEF Gone
  <2>3. m.gen = 0 => Gone(U, p)
    BY <1>2, <1>3, <1>5 DEF Gone
  <2>4. \A k \in Lists(s) : s[k].gen = 0 => Gone(U, p)
    BY <1>3 DEF Behind
  <2>5. pane # p => Gone(U, p)
    BY <1>3 DEF Behind
  <2> QED BY <1>3, <2>1, <2>2, <2>3, <2>4, <2>5
<1>6. ASSUME NEW j \in Lists(r)
      PROVE  /\ r[j].gen # 0 => r[j].gen >= p /\ \A k \in Lists(r) : k < j /\ r[k].gen = 0 => r[j].gen > p
             /\ r[j].gen = 0 => Gone(U, p)
             /\ r[j].gen = p /\ pane # p => /\ fence >= p
                                            /\ \A k \in Lists(r) : k < j => r[k].gen # 0 /\ r[k].gen <= fence
  <2>1. CASE j \in Lists(s)
    BY <1>4, <2>1
  <2>2. CASE j \notin Lists(s)
    <3>1. j = n /\ m.kind = "list" /\ r[j] = m
      BY <1>1, <2>2
    <3>2. \A k \in Lists(r) : k < j => k \in Lists(s) /\ r[k] = s[k]
      BY <1>1, <3>1
    <3> QED BY <1>5, <3>1, <3>2
  <2> QED BY <2>1, <2>2
<1> QED BY <1>3, <1>6 DEF Behind, r

\* The pushes that are left when the first is taken.
LEMMA ListsTail ==
  ASSUME NEW s, IsSeq(s), s # <<>>
  PROVE  /\ \A i \in Lists(Tail(s)) : i \in Nat \ {0} /\ i + 1 \in Lists(s) /\ i + 1 > 1 /\ Tail(s)[i] = s[i + 1]
         /\ Head(s) = s[1] /\ (Head(s).kind = "list" => 1 \in Lists(s))
BY TailFacts DEF Lists

LEMMA OrderTail ==
  ASSUME NEW T, NEW s, IsSeq(s), s # <<>>, RosterOrder(s, T)
  PROVE  RosterOrder(Tail(s), T)
<1>1. PICK r : r = Tail(s)
  OBVIOUS
<1>2. \A i \in Lists(r) : i \in Nat \ {0} /\ i + 1 \in Lists(s) /\ r[i] = s[i + 1]
  BY <1>1, ListsTail
<1>3. ASSUME NEW i \in Lists(r), r[i].gen # 0, NEW j \in Lists(r), j > i
      PROVE  /\ r[j].gen # 0 => r[i].gen <= r[j].gen
             /\ r[j].gen = 0 => /\ Gone(T, r[i].gen)
                                /\ \A k \in Lists(r) : k > j /\ r[k].gen # 0 => r[i].gen < r[k].gen
  <2>1. PICK a, b : a = i + 1 /\ b = j + 1
    OBVIOUS
  <2>2. a \in Lists(s) /\ b \in Lists(s) /\ b > a /\ r[i] = s[a] /\ r[j] = s[b]
    BY <1>2, <1>3, <2>1
  <2>3. /\ s[b].gen # 0 => s[a].gen <= s[b].gen
        /\ s[b].gen = 0 => /\ Gone(T, s[a].gen)
                           /\ \A k \in Lists(s) : k > b /\ s[k].gen # 0 => s[a].gen < s[k].gen
    BY <1>3, <2>2 DEF RosterOrder
  <2>4. \A k \in Lists(r) : k > j => \E c \in Lists(s) : c = k + 1 /\ c > b /\ r[k] = s[c]
    BY <1>2, <1>3, <2>1
  <2> QED BY <2>2, <2>3, <2>4
<1>4. \A i \in Lists(r) : r[i].gen \in Nat /\ r[i].gen <= T.gen
  BY <1>2 DEF RosterOrder
<1> QED BY <1>1, <1>3, <1>4 DEF RosterOrder

\* What is behind a life stays behind it, whatever of the view is not below.
LEMMA BehindTail ==
  ASSUME NEW T, NEW s, IsSeq(s), s # <<>>, NEW p, NEW pane, NEW fence, NEW x, NEW f, Behind(p, s, T, pane, fence),
         x = 0 \/ x >= p, x # p => Gone(T, p),
         \A j \in Lists(s) : j > 1 /\ s[j].gen = p /\ x # p =>
            /\ f >= p /\ \A k \in Lists(s) : k > 1 /\ k < j => s[k].gen # 0 /\ s[k].gen <= f
  PROVE  Behind(p, Tail(s), T, x, f)
<1>1. PICK r : r = Tail(s)
  OBVIOUS
<1>2. \A i \in Lists(r) : i \in Nat \ {0} /\ i + 1 \in Lists(s) /\ r[i] = s[i + 1] /\ i + 1 > 1
  BY <1>1, ListsTail
<1>3. ASSUME NEW j \in Lists(r)
      PROVE  /\ r[j].gen # 0 => r[j].gen >= p /\ \A k \in Lists(r) : k < j /\ r[k].gen = 0 => r[j].gen > p
             /\ r[j].gen = 0 => Gone(T, p)
             /\ r[j].gen = p /\ x # p => /\ f >= p
                                         /\ \A k \in Lists(r) : k < j => r[k].gen # 0 /\ r[k].gen <= f
  <2>1. PICK b : b = j + 1
    OBVIOUS
  <2>2. b \in Lists(s) /\ r[j] = s[b] /\ b > 1
    BY <1>2, <2>1
  <2>3. \A k \in Lists(r) : k < j => \E c \in Lists(s) : c > 1 /\ c < b /\ r[k] = s[c]
    <3> SUFFICES ASSUME NEW k \in Lists(r), k < j PROVE \E c \in Lists(s) : c > 1 /\ c < b /\ r[k] = s[c]
      OBVIOUS
    <3>1. k + 1 \in Lists(s) /\ k + 1 > 1 /\ k + 1 < b /\ r[k] = s[k + 1]
      BY <1>2, <2>1
    <3> QED BY <3>1
  <2> QED BY <2>2, <2>3 DEF Behind
<1> QED BY <1>1, <1>3 DEF Behind

-----------------------------------------------------------------------------
(* What the steps of the main process do to the terminal and the pushes *)

SameLife(T, U) == DOMAIN U = TermFields /\ U.live = T.live /\ U.gen = T.gen /\ U.closed = T.closed

LEMMA TermKeeps ==
  ASSUME NEW T, DOMAIN T = TermFields
  PROVE  /\ SameLife(T, T) /\ SameLife(T, D!Detached(T)) /\ SameLife(T, D!WithExit(T))
         /\ \A x : SameLife(T, D!Attached(T, x)) /\ SameLife(T, D!Retire(T, x))
         /\ DOMAIN D!Cancelled(T) = TermFields /\ D!Cancelled(T).live = T.live /\ D!Cancelled(T).gen = T.gen
<1>1. SameLife(T, T)
  BY DEF SameLife
<1>2. SameLife(T, D!Detached(T))
  BY DEF SameLife, D!Detached, TermFields
<1>3. \A V : DOMAIN V = TermFields => SameLife(V, D!WithExit(V))
  BY DEF SameLife, D!WithExit, TermFields
<1>4. \A x : SameLife(T, D!Attached(T, x))
  BY DEF SameLife, D!Attached, TermFields
<1>5. ASSUME NEW x PROVE SameLife(T, D!Retire(T, x))
  <2>1. PICK V, f : V = [T EXCEPT !.flight = f] /\ D!Retire(T, x) = D!WithExit(V)
    BY DEF D!Retire
  <2>2. SameLife(T, V)
    BY <2>1 DEF SameLife, TermFields
  <2> QED BY <1>3, <2>1, <2>2 DEF SameLife
<1>6. DOMAIN D!Cancelled(T) = TermFields /\ D!Cancelled(T).live = T.live /\ D!Cancelled(T).gen = T.gen
  BY DEF D!Cancelled, TermFields
<1> QED BY <1>1, <1>2, <1>3, <1>4, <1>5, <1>6

LEMMA SameIsLater ==
  ASSUME NEW T, NEW U, T.gen \in Nat, SameLife(T, U)
  PROVE  Later(T, U) /\ D!Listed(U) = D!Listed(T)
BY DEF SameLife, Later, Gone, D!Listed

\* A push goes to a document that listens, or to nobody.
Sent1(m) == push' = Append(push, m) /\ documentReady

LEMMA PushedFacts ==
  ASSUME NEW T, DOMAIN T = TermFields, NEW x, NEW m, D!Pushed(T, x, m)
  PROVE  /\ SameLife(T, term')
         /\ push' = push \/ Sent1(m)
         /\ \/ document' = document /\ documentReady' = documentReady
            \/ document' = document + 1 /\ documentReady' = FALSE
BY TermKeeps DEF D!Pushed, D!Replaced, Sent1

MainStep ==
  /\ Later(term, term') /\ view' = view /\ DOMAIN hist' = HistFields /\ hist'.closed = hist.closed
  /\ push' = push \/ \E m : Sent1(m) /\ (m.kind = "list" => m.gen = D!Listed(term'))
  /\ \/ document' = document /\ documentReady' = documentReady
     \/ document' = document + 1 /\ documentReady' = FALSE
     \/ /\ document' = document
        /\ up # <<>> /\ Head(up).kind = "ready" /\ Head(up).doc = document

LEMMA ListMsgFacts == \A T : D!ListMsg(T).kind = "list" /\ D!ListMsg(T).gen = D!Listed(T)
BY DEF D!ListMsg

LEMMA PushedStep ==
  ASSUME FieldsOK, term.gen \in Nat, NEW T, Later(term, T), NEW x, D!Pushed(T, x, D!ListMsg(T)), view' = view,
         DOMAIN hist' = HistFields, hist'.closed = hist.closed
  PROVE  MainStep
<1>1. DOMAIN T = TermFields /\ T.gen \in Nat
  BY DEF Later
<1>2. PICK m : m = D!ListMsg(T) /\ m.kind = "list" /\ m.gen = D!Listed(T)
  BY ListMsgFacts
<1>3. /\ SameLife(T, term')
      /\ push' = push \/ Sent1(m)
      /\ \/ document' = document /\ documentReady' = documentReady
         \/ document' = document + 1 /\ documentReady' = FALSE
  BY <1>1, <1>2, PushedFacts
<1>4. Later(T, term') /\ D!Listed(term') = D!Listed(T)
  BY <1>1, <1>3, SameIsLater
<1>5. Later(term, term')
  BY <1>4 DEF Later
<1> QED BY <1>2, <1>3, <1>4, <1>5 DEF MainStep

\* A step that sends no roster and starts or ends no life.
LEMMA QuietStep ==
  ASSUME FieldsOK, term.gen \in Nat, SameLife(term, term'), view' = view, DOMAIN hist' = HistFields,
         hist'.closed = hist.closed, push' = push \/ \E m : Sent1(m) /\ m.kind # "list",
         \/ document' = document /\ documentReady' = documentReady
         \/ document' = document + 1 /\ documentReady' = FALSE
         \/ document' = document /\ up # <<>> /\ Head(up).kind = "ready" /\ Head(up).doc = document
  PROVE  MainStep
BY SameIsLater DEF MainStep

LEMMA MainSteps ==
  ASSUME FieldsOK, term.gen \in Nat,
         \/ D!SpawnBegin \/ D!SpawnEnd \/ D!PushList \/ D!Output \/ D!NativeExit \/ D!Release \/ D!Send \/ D!Replace
         \/ D!DropUntrusted \/ D!ListTerminals \/ D!ReadyHandshake \/ D!Acknowledge \/ D!CloseRequest
         \/ D!CloseDeclined \/ D!CloseConfirmed
  PROVE  MainStep
<1>1. DOMAIN term = TermFields /\ DOMAIN hist = HistFields /\ SameLife(term, term)
  BY TermKeeps DEF FieldsOK
<1>2. CASE D!SpawnBegin \/ D!DropUntrusted \/ D!CloseRequest \/ D!CloseDeclined
  <2>1. term' = term /\ push' = push /\ view' = view /\ hist' = hist /\ document' = document /\ documentReady' = documentReady
    BY <1>2 DEF D!SpawnBegin, D!DropUntrusted, D!CloseRequest, D!CloseDeclined
  <2> QED BY <1>1, <2>1, QuietStep
<1>3. CASE D!SpawnEnd
  <2>1. PICK T : /\ T = [D!NoTerm EXCEPT !.live = TRUE, !.gen = term.gen + 1, !.target = spawning]
                 /\ D!Pushed(T, spawning, D!ListMsg(T))
    BY <1>3 DEF D!SpawnEnd
  <2>2. DOMAIN T = TermFields /\ T.gen = term.gen + 1
    BY <2>1 DEF D!NoTerm, TermFields
  <2>3. Later(term, T)
    BY <2>2 DEF Later, Gone
  <2>4. view' = view /\ hist' = hist
    BY <1>3 DEF D!SpawnEnd
  <2> QED BY <1>1, <2>1, <2>3, <2>4, PushedStep
<1>4. CASE D!PushList \/ D!ListTerminals
  <2>1. view' = view /\ hist' = hist /\ D!Pushed(term, document, D!ListMsg(term))
    BY <1>4 DEF D!PushList, D!ListTerminals
  <2> QED BY <1>1, <2>1, PushedStep, SameIsLater
<1>5. CASE D!Output
  <2>1. /\ push' = push /\ view' = view /\ hist' = hist /\ document' = document /\ documentReady' = documentReady
        /\ \E a, b : term' = [term EXCEPT !.queue = a, !.next = b]
    BY <1>5 DEF D!Output
  <2>2. SameLife(term, term')
    BY <1>1, <2>1 DEF SameLife, TermFields
  <2> QED BY <1>1, <2>1, <2>2, QuietStep
<1>6. CASE D!NativeExit
  <2>1. push' = push /\ view' = view /\ hist' = hist /\ document' = document /\ documentReady' = documentReady
    BY <1>6 DEF D!NativeExit
  <2>2. PICK T : T = [term EXCEPT !.closing = TRUE]
    OBVIOUS
  <2>3. SameLife(term, T)
    BY <1>1, <2>2 DEF SameLife, TermFields
  <2>4. term' = T \/ term' = D!WithExit(T)
    BY <1>6, <2>2 DEF D!NativeExit
  <2>5. SameLife(term, term')
    BY <2>3, <2>4, TermKeeps DEF SameLife
  <2> QED BY <1>1, <2>1, <2>5, QuietStep
<1>7. CASE D!Release
  <2>1. PICK T : T = [D!NoTerm EXCEPT !.gen = term.gen] /\ D!Pushed(T, term.target, D!ListMsg(T))
    BY <1>7 DEF D!Release
  <2>2. DOMAIN T = TermFields /\ T.gen = term.gen /\ T.live = FALSE
    BY <2>1 DEF D!NoTerm, TermFields
  <2>3. Later(term, T)
    BY <2>2 DEF Later, Gone, D!Listed
  <2>4. view' = view /\ DOMAIN hist' = HistFields /\ hist'.closed = hist.closed
    BY <1>1, <1>7 DEF D!Release, HistFields
  <2> QED BY <2>1, <2>3, <2>4, PushedStep
<1>8. CASE D!Send
  <2>1. view' = view /\ hist' = hist
    BY <1>8 DEF D!Send
  <2>2. CASE view.alive
    <3>1. /\ Sent1(D!RecMsg(Head(term.queue))) /\ document' = document /\ documentReady' = documentReady
          /\ \E a, b : term' = [term EXCEPT !.queue = a, !.flight = b]
      BY <1>8, <2>2 DEF D!Send, Sent1
    <3>2. SameLife(term, term')
      BY <1>1, <3>1 DEF SameLife, TermFields
    <3>3. D!RecMsg(Head(term.queue)).kind # "list"
      BY DEF D!RecMsg
    <3> QED BY <1>1, <2>1, <3>1, <3>2, <3>3, QuietStep
  <2>3. CASE ~view.alive
    <3>1. D!Replaced(term)
      BY <1>8, <2>3 DEF D!Send
    <3> QED BY <1>1, <2>1, <3>1, QuietStep, TermKeeps DEF D!Replaced
  <2> QED BY <2>2, <2>3
<1>9. CASE D!Replace
  <2>1. view' = view /\ hist' = hist /\ D!Replaced(term)
    BY <1>9 DEF D!Replace
  <2> QED BY <1>1, <2>1, QuietStep, TermKeeps DEF D!Replaced
<1>10. CASE D!ReadyHandshake
  <2>1. /\ view' = view /\ hist' = hist /\ push' = push /\ document' = document /\ up # <<>>
        /\ Head(up).kind = "ready" /\ Head(up).doc = document /\ term' = D!Attached(term, Head(up).gen)
    BY <1>10 DEF D!ReadyHandshake, D!TakeUp, D!Trusted
  <2> QED BY <1>1, <2>1, QuietStep, TermKeeps
<1>11. CASE D!Acknowledge
  <2>1. view' = view /\ push' = push /\ document' = document /\ documentReady' = documentReady
    BY <1>11 DEF D!Acknowledge
  <2>2. (\E x : term' = D!Retire(term, x) /\ \E r : hist' = [hist EXCEPT !.retired = r]) \/ (term' = term /\ hist' = hist)
    BY <1>11 DEF D!Acknowledge
  <2>3. SameLife(term, term')
    BY <1>1, <2>2, TermKeeps
  <2>4. DOMAIN hist' = HistFields /\ hist'.closed = hist.closed
    BY <1>1, <2>2 DEF HistFields
  <2> QED BY <2>1, <2>3, <2>4, QuietStep
<1>12. CASE D!CloseConfirmed
  <2>1. PICK T : T = [D!Cancelled(term) EXCEPT !.closed = TRUE] /\ D!Pushed(T, document, D!ListMsg(T))
    BY <1>12 DEF D!CloseConfirmed
  <2>2. PICK V : V = D!Cancelled(term)
    OBVIOUS
  <2>3. DOMAIN V = TermFields /\ V.gen = term.gen
    BY <1>1, <2>2, TermKeeps
  <2>4. DOMAIN T = TermFields /\ T.gen = term.gen /\ T.closed = TRUE
    BY <2>1, <2>2, <2>3 DEF TermFields
  <2>5. Later(term, T)
    BY <2>4 DEF Later, Gone, D!Listed
  <2>6. view' = view /\ hist' = hist
    BY <1>12 DEF D!CloseConfirmed
  <2> QED BY <1>1, <2>1, <2>5, <2>6, PushedStep
<1> QED BY <1>2, <1>3, <1>4, <1>5, <1>6, <1>7, <1>8, <1>9, <1>10, <1>11, <1>12

-----------------------------------------------------------------------------
(* What a document asks is asked once: the question is on its way up, being *)
(* confirmed, or on its way back                                           *)

Mails(s) == {s[i] : i \in DOMAIN s}
Said(s, kind, d) == {i \in DOMAIN s : s[i].kind = kind /\ s[i].doc = d}
Answers(R) == {m \in R : m.kind \in {"closed", "kept"}}
Boots(R) == {m \in R : m.kind = "boot"}

CloseTokens(u, R, ask, d, c) ==
  /\ \A i \in Said(u, "close", d) : u[i].gen = c /\ c # 0
  /\ \A m \in Answers(R) : m.gen = c /\ c # 0
  /\ ask.doc = d => ask.gen = c /\ c # 0
  /\ \A i, j \in Said(u, "close", d) : i = j
  /\ \A m, n \in Answers(R) : m = n
  /\ Said(u, "close", d) # {} => ask.doc # d /\ Answers(R) = {}
  /\ ask.doc = d => Answers(R) = {}

BootTokens(u, R, d, stage) ==
  /\ Said(u, "boot", d) # {} \/ Boots(R) # {} => stage = "asked"
  /\ \A i, j \in Said(u, "boot", d) : i = j
  /\ \A m, n \in Boots(R) : m = n
  /\ Said(u, "boot", d) # {} => Boots(R) = {}

LEMMA SaidAppend ==
  ASSUME NEW s, IsSeq(s), NEW m, NEW kind, NEW d
  PROVE  /\ Mails(Append(s, m)) = Mails(s) \cup {m}
         /\ Said(Append(s, m), kind, d) = Said(s, kind, d) \cup (IF m.kind = kind /\ m.doc = d THEN {Len(s) + 1} ELSE {})
         /\ \A i \in Said(s, kind, d) : Append(s, m)[i] = s[i]
         /\ Append(s, m)[Len(s) + 1] = m
<1>1. PICK r, n : r = Append(s, m) /\ n = Len(s)
  OBVIOUS
<1>2. /\ n \in Nat /\ DOMAIN s = 1 .. n /\ DOMAIN r = 1 .. n + 1
      /\ \A i \in 1 .. n : r[i] = s[i]
      /\ r[n + 1] = m
  BY <1>1, AppendFacts
<1>3. 1 .. n + 1 = (1 .. n) \cup {n + 1} /\ n + 1 \notin 1 .. n
  BY <1>2
<1>4. Mails(r) = Mails(s) \cup {m}
  BY <1>2, <1>3 DEF Mails
<1>5. Said(r, kind, d) = Said(s, kind, d) \cup (IF m.kind = kind /\ m.doc = d THEN {n + 1} ELSE {})
  BY <1>2, <1>3 DEF Said
<1> QED BY <1>1, <1>2, <1>4, <1>5 DEF Said

LEMMA SaidTail ==
  ASSUME NEW s, IsSeq(s), s # <<>>, NEW kind, NEW d
  PROVE  /\ Mails(Tail(s)) \subseteq Mails(s) /\ Head(s) \in Mails(s)
         /\ \A i \in Said(Tail(s), kind, d) : i \in Nat \ {0} /\ i + 1 \in Said(s, kind, d) /\ Tail(s)[i] = s[i + 1]
         /\ Head(s).kind = kind /\ Head(s).doc = d => 1 \in Said(s, kind, d)
         /\ Head(s) = s[1]
<1>1. PICK r, n : r = Tail(s) /\ n = Len(s)
  OBVIOUS
<1>2. /\ n \in Nat \ {0} /\ DOMAIN s = 1 .. n /\ DOMAIN r = 1 .. n - 1
      /\ \A i \in 1 .. n - 1 : r[i] = s[i + 1]
      /\ Head(s) = s[1] /\ 1 \in DOMAIN s
  BY <1>1, TailFacts
<1>3. \A i \in 1 .. n - 1 : i \in Nat \ {0} /\ i + 1 \in 1 .. n
  BY <1>2
<1>4. Mails(r) \subseteq Mails(s) /\ Head(s) \in Mails(s)
  BY <1>2, <1>3 DEF Mails
<1>5. \A i \in Said(r, kind, d) : i \in Nat \ {0} /\ i + 1 \in Said(s, kind, d) /\ r[i] = s[i + 1]
  BY <1>2, <1>3 DEF Said
<1>6. Head(s).kind = kind /\ Head(s).doc = d => 1 \in Said(s, kind, d)
  BY <1>2 DEF Said
<1> QED BY <1>1, <1>2, <1>4, <1>5, <1>6

\* Two places of the rest are two places of the whole, neither the first.
LEMMA SaidOnce ==
  ASSUME NEW s, IsSeq(s), s # <<>>, NEW kind, NEW d, \A i, j \in Said(s, kind, d) : i = j
  PROVE  /\ \A i, j \in Said(Tail(s), kind, d) : i = j
         /\ Head(s).kind = kind /\ Head(s).doc = d => Said(Tail(s), kind, d) = {}
         /\ Said(Tail(s), kind, d) # {} => Said(s, kind, d) # {}
<1>1. \A i \in Said(Tail(s), kind, d) : i \in Nat \ {0} /\ i + 1 \in Said(s, kind, d)
  BY SaidTail
<1>2. ASSUME NEW i \in Said(Tail(s), kind, d), NEW j \in Said(Tail(s), kind, d) PROVE i = j
  <2>1. i + 1 = j + 1 /\ i \in Nat /\ j \in Nat
    BY <1>1
  <2> QED BY <2>1
<1>3. ASSUME 1 \in Said(s, kind, d), NEW i \in Said(Tail(s), kind, d) PROVE FALSE
  <2>1. i + 1 = 1 /\ i \in Nat \ {0}
    BY <1>1, <1>3
  <2> QED BY <2>1
<1> QED BY <1>1, <1>2, <1>3, SaidTail

LEMMA CloseTail ==
  ASSUME NEW u, IsSeq(u), u # <<>>, NEW R, NEW ask, NEW d, NEW c, CloseTokens(u, R, ask, d, c)
  PROVE  /\ CloseTokens(Tail(u), R, ask, d, c)
         /\ Head(u).kind = "close" /\ Head(u).doc = d =>
              /\ Said(Tail(u), "close", d) = {} /\ ask.doc # d /\ Answers(R) = {} /\ Head(u).gen = c /\ c # 0
<1>1. \A i, j \in Said(u, "close", d) : i = j
  BY DEF CloseTokens
<1>2. /\ \A i, j \in Said(Tail(u), "close", d) : i = j
      /\ Head(u).kind = "close" /\ Head(u).doc = d => Said(Tail(u), "close", d) = {}
      /\ Said(Tail(u), "close", d) # {} => Said(u, "close", d) # {}
  BY <1>1, SaidOnce
<1>3. /\ \A i \in Said(Tail(u), "close", d) : \E j \in Said(u, "close", d) : Tail(u)[i] = u[j]
      /\ Head(u).kind = "close" /\ Head(u).doc = d => 1 \in Said(u, "close", d)
      /\ Head(u) = u[1]
  <2>1. PICK k : k = "close"
    OBVIOUS
  <2>2. \A i \in Said(Tail(u), k, d) : i + 1 \in Said(u, k, d) /\ Tail(u)[i] = u[i + 1]
    <3>1. PICK v, n : v = Tail(u) /\ n \in Nat \ {0} /\ DOMAIN u = 1 .. n /\ DOMAIN v = 1 .. n - 1
                      /\ \A i \in 1 .. n - 1 : v[i] = u[i + 1]
      BY TailFacts
    <3>2. \A i \in 1 .. n - 1 : i + 1 \in 1 .. n
      BY <3>1
    <3>3. \A i \in Said(v, k, d) : i + 1 \in Said(u, k, d) /\ v[i] = u[i + 1]
      BY <3>1, <3>2 DEF Said
    <3> QED BY <3>1, <3>3
  <2>3. Head(u).kind = k /\ Head(u).doc = d => 1 \in Said(u, k, d)
    BY SaidTail, Zenon
  <2>4. Head(u) = u[1]
    BY SaidTail, Zenon
  <2>5. \A i \in Said(Tail(u), k, d) : \E j \in Said(u, k, d) : Tail(u)[i] = u[j]
    BY <2>2
  <2> QED BY <2>1, <2>3, <2>4, <2>5
<1>4. CloseTokens(Tail(u), R, ask, d, c)
  BY <1>2, <1>3 DEF CloseTokens
<1>5. ASSUME Head(u).kind = "close" /\ Head(u).doc = d
      PROVE  /\ Said(Tail(u), "close", d) = {} /\ ask.doc # d /\ Answers(R) = {} /\ Head(u).gen = c /\ c # 0
  BY <1>2, <1>3, <1>5 DEF CloseTokens
<1> QED BY <1>4, <1>5

LEMMA BootTail ==
  ASSUME NEW u, IsSeq(u), u # <<>>, NEW R, NEW d, NEW stage, BootTokens(u, R, d, stage)
  PROVE  /\ BootTokens(Tail(u), R, d, stage)
         /\ Head(u).kind = "boot" /\ Head(u).doc = d =>
              Said(Tail(u), "boot", d) = {} /\ Boots(R) = {} /\ stage = "asked"
<1>1. \A i, j \in Said(u, "boot", d) : i = j
  BY DEF BootTokens
<1>2. /\ \A i, j \in Said(Tail(u), "boot", d) : i = j
      /\ Head(u).kind = "boot" /\ Head(u).doc = d => Said(Tail(u), "boot", d) = {}
      /\ Said(Tail(u), "boot", d) # {} => Said(u, "boot", d) # {}
  BY <1>1, SaidOnce
<1>3. Head(u).kind = "boot" /\ Head(u).doc = d => 1 \in Said(u, "boot", d)
  BY SaidTail
<1> QED BY <1>2, <1>3 DEF BootTokens

LEMMA TokensAppend ==
  ASSUME NEW u, IsSeq(u), NEW m, NEW R, NEW ask, NEW d, NEW c, NEW stage
  PROVE  /\ CloseTokens(u, R, ask, d, c) /\ m.kind # "close" => CloseTokens(Append(u, m), R, ask, d, c)
         /\ BootTokens(u, R, d, stage) /\ m.kind # "boot" => BootTokens(Append(u, m), R, d, stage)
<1>1. PICK v : v = Append(u, m)
  OBVIOUS
<1>2. \A k : m.kind # k => Said(v, k, d) = Said(u, k, d) /\ \A i \in Said(u, k, d) : v[i] = u[i]
  <2> SUFFICES ASSUME NEW k, m.kind # k PROVE Said(v, k, d) = Said(u, k, d) /\ \A i \in Said(u, k, d) : v[i] = u[i]
    OBVIOUS
  <2>1. PICK n \in Nat : /\ DOMAIN u = 1 .. n /\ DOMAIN v = 1 .. n + 1
                         /\ \A i \in 1 .. n : v[i] = u[i]
                         /\ v[n + 1] = m
    BY <1>1, AppendFacts
  <2>2. 1 .. n + 1 = (1 .. n) \cup {n + 1} /\ n + 1 \notin 1 .. n
    OBVIOUS
  <2> QED BY <2>1, <2>2 DEF Said
<1>3. m.kind # "boot" => Said(v, "boot", d) = Said(u, "boot", d)
  BY <1>2
<1>4. m.kind # "close" => Said(v, "close", d) = Said(u, "close", d) /\ \A i \in Said(u, "close", d) : v[i] = u[i]
  BY <1>2
<1> QED BY <1>1, <1>3, <1>4 DEF CloseTokens, BootTokens

-----------------------------------------------------------------------------
DocsOK ==
  /\ document \in Nat /\ view.doc \in Nat \ {0} /\ view.doc <= document
  /\ asking.doc \in Nat /\ asking.doc <= view.doc
  /\ \A m \in Mails(up) : /\ m.doc \in Nat /\ m.doc <= view.doc
                          /\ m.kind = "ready" /\ m.doc = view.doc => view.stage = "listed"
  /\ documentReady => view.doc = document /\ view.stage = "listed"
  /\ view.stage # "listed" => push = <<>> /\ view.pane = 0 /\ view.closing = 0 /\ view.fence = 0

RosterOK ==
  /\ term.gen \in Nat /\ view.fence \in Nat /\ hist.closed \in Nat
  /\ RosterOrder(push, term)
  /\ view.pane # 0 => Behind(view.pane, push, term, view.pane, view.fence) /\ view.fence = 0
  /\ view.closing # 0 => Behind(view.closing, push, term, view.pane, view.fence)
  /\ hist.closed # 0 => /\ Behind(hist.closed, push, term, view.pane, view.fence)
                        /\ Gone(term, hist.closed) /\ view.pane # hist.closed
  /\ \A m \in Answers(replies) : m.kind = "closed" => Gone(term, m.gen)
  /\ \A m \in Boots(replies) : m.gen \in Nat /\ m.gen <= term.gen /\ (m.gen # 0 => m.gen > hist.closed)

PaneInv ==
  /\ FieldsOK /\ DocsOK /\ RosterOK
  /\ CloseTokens(up, replies, asking, view.doc, view.closing)
  /\ BootTokens(up, replies, view.doc, view.stage)

\* The messages a step of the main process takes and sends.
MainMail ==
  /\ up' = up \/ (up # <<>> /\ up' = Tail(up))
  /\ asking'.doc \in Nat /\ asking'.doc <= view.doc
  /\ \E m : /\ replies' \subseteq replies \cup {m}
            /\ m.kind = "closed" => Gone(term', m.gen)
            /\ m.kind = "boot" => m.gen = D!Listed(term')

LEMMA MainKeeps == ASSUME PaneInv, MainStep, MainMail PROVE FieldsOK' /\ DocsOK' /\ RosterOK'
<1>1. /\ Later(term, term') /\ view' = view /\ hist'.closed = hist.closed /\ term.gen \in Nat
      /\ IsSeq(push) /\ IsSeq(up)
  BY DEF PaneInv, MainStep, RosterOK, FieldsOK
<1>2. FieldsOK'
  <2>1. IsSeq(push')
    <3>1. CASE push' = push
      BY <1>1, <3>1
    <3>2. CASE \E m : Sent1(m)
      <4>1. PICK m : push' = Append(push, m)
        BY <3>2 DEF Sent1
      <4> QED BY <1>1, <4>1, AppendFacts
    <3> QED BY <3>1, <3>2 DEF MainStep
  <2>2. IsSeq(up')
    BY <1>1, TailFacts DEF MainMail
  <2> QED BY <1>1, <2>1, <2>2 DEF MainStep, Later, PaneInv, FieldsOK
<1>3. DocsOK'
  <2>1. Mails(up') \subseteq Mails(up)
    BY <1>1, SaidTail DEF MainMail
  <2>2. up # <<>> => Head(up) \in Mails(up)
    BY <1>1, SaidTail
  <2>3. /\ document' \in Nat /\ document <= document'
        /\ documentReady' => view.doc = document' /\ view.stage = "listed"
    BY <2>2 DEF MainStep, PaneInv, DocsOK
  <2>4. push' # <<>> => push # <<>> \/ documentReady
    BY DEF MainStep, Sent1
  <2> QED BY <1>1, <2>1, <2>3, <2>4 DEF MainMail, PaneInv, DocsOK
<1>4. RosterOrder(push, term) /\ (\A p \in Nat : p <= term.gen /\ Gone(term, p) => Gone(term', p))
  BY DEF MainStep, Later, PaneInv, RosterOK
<1>5. RosterOrder(push', term')
  <2>1. CASE push' = push
    BY <1>1, <1>4, <2>1 DEF RosterOrder, Later
  <2>2. CASE \E m : Sent1(m) /\ (m.kind = "list" => m.gen = D!Listed(term'))
    BY <1>1, <1>4, <2>2, OrderAppend DEF Sent1
  <2> QED BY <2>1, <2>2 DEF MainStep
<1>6. ASSUME NEW p, Behind(p, push, term, view.pane, view.fence)
      PROVE  Behind(p, push', term', view.pane, view.fence)
  <2>1. CASE push' = push
    BY <1>1, <1>6, <2>1 DEF Behind, Later
  <2>2. CASE \E m : Sent1(m) /\ (m.kind = "list" => m.gen = D!Listed(term'))
    BY <1>1, <1>6, <2>2, BehindAppend DEF Sent1
  <2> QED BY <2>1, <2>2 DEF MainStep
<1>7. PICK m : /\ replies' \subseteq replies \cup {m}
               /\ m.kind = "closed" => Gone(term', m.gen)
               /\ m.kind = "boot" => m.gen = D!Listed(term')
  BY DEF MainMail
<1>8. hist.closed # 0 => Gone(term', hist.closed)
  BY <1>4 DEF PaneInv, RosterOK, Behind
<1>9. \A a \in Answers(replies') : a.kind = "closed" => Gone(term', a.gen)
  <2> SUFFICES ASSUME NEW a \in Answers(replies'), a.kind = "closed" PROVE Gone(term', a.gen)
    OBVIOUS
  <2>1. CASE a = m
    BY <1>7, <2>1
  <2>2. CASE a # m
    <3>1. a \in Answers(replies)
      BY <1>7, <2>2 DEF Answers
    <3>2. Gone(term, a.gen) /\ a.gen = view.closing /\ view.closing # 0
      BY <3>1 DEF PaneInv, RosterOK, CloseTokens
    <3>3. a.gen \in Nat /\ a.gen <= term.gen
      BY <3>2 DEF PaneInv, RosterOK, Behind
    <3> QED BY <1>4, <3>2, <3>3
  <2> QED BY <2>1, <2>2
<1>10. \A b \in Boots(replies') : b.gen \in Nat /\ b.gen <= term'.gen /\ (b.gen # 0 => b.gen > hist.closed)
  <2> SUFFICES ASSUME NEW b \in Boots(replies') PROVE b.gen \in Nat /\ b.gen <= term'.gen /\ (b.gen # 0 => b.gen > hist.closed)
    OBVIOUS
  <2>1. CASE b = m
    <3>1. b.gen = D!Listed(term') /\ term'.gen \in Nat
      BY <1>1, <1>7, <2>1 DEF Boots, Later
    <3>2. b.gen # 0 => b.gen = term'.gen /\ D!Listed(term') # 0
      BY <3>1 DEF D!Listed
    <3>3. hist.closed \in Nat
      BY DEF PaneInv, RosterOK
    <3> QED BY <1>8, <3>1, <3>2, <3>3 DEF Gone
  <2>2. CASE b # m
    <3>1. b \in Boots(replies)
      BY <1>7, <2>2 DEF Boots
    <3> QED BY <1>1, <3>1 DEF PaneInv, RosterOK, Later
  <2> QED BY <2>1, <2>2
<1>11. /\ view.pane # 0 => Behind(view.pane, push', term', view.pane, view.fence) /\ view.fence = 0
       /\ view.closing # 0 => Behind(view.closing, push', term', view.pane, view.fence)
       /\ hist.closed # 0 => Behind(hist.closed, push', term', view.pane, view.fence) /\ view.pane # hist.closed
  BY <1>6 DEF PaneInv, RosterOK
<1>12. term'.gen \in Nat /\ view.fence \in Nat /\ hist.closed \in Nat
  BY <1>1 DEF Later, PaneInv, RosterOK
<1>13. RosterOK'
  BY <1>1, <1>5, <1>8, <1>9, <1>10, <1>11, <1>12 DEF RosterOK
<1> QED BY <1>2, <1>3, <1>13

-----------------------------------------------------------------------------
(* Questions and answers of the main process *)

LEMMA CloseAnswered ==
  ASSUME NEW u, NEW R, NEW ask, NEW d, NEW c, NEW stage, NEW m,
         BootTokens(u, R, d, stage), m.kind \in {"closed", "kept"},
         Said(u, "close", d) = {}, ask.doc # d, Answers(R) = {}, m.gen = c, c # 0
  PROVE  CloseTokens(u, R \cup {m}, ask, d, c) /\ BootTokens(u, R \cup {m}, d, stage)
<1>1. Answers(R \cup {m}) = {m} /\ Boots(R \cup {m}) = Boots(R)
  BY DEF Answers, Boots
<1> QED BY <1>1 DEF CloseTokens, BootTokens

LEMMA BootAnswered ==
  ASSUME NEW u, NEW R, NEW ask, NEW d, NEW c, NEW stage, NEW m,
         CloseTokens(u, R, ask, d, c), m.kind = "boot",
         Said(u, "boot", d) = {}, Boots(R) = {}, stage = "asked"
  PROVE  CloseTokens(u, R \cup {m}, ask, d, c) /\ BootTokens(u, R \cup {m}, d, stage)
<1>1. Answers(R \cup {m}) = Answers(R) /\ Boots(R \cup {m}) = {m}
  BY DEF Answers, Boots
<1> QED BY <1>1 DEF CloseTokens, BootTokens

Tokens ==
  /\ CloseTokens(up, replies, asking, view.doc, view.closing)
  /\ BootTokens(up, replies, view.doc, view.stage)

LEMMA NoMail ==
  ASSUME PaneInv, view' = view, replies' = replies, asking' = asking, up' = up \/ (up # <<>> /\ up' = Tail(up))
  PROVE  MainMail /\ Tokens'
<1>1. MainMail
  <2>1. PICK m : m = [kind |-> "kept"]
    OBVIOUS
  <2>2. replies' \subseteq replies \cup {m} /\ m.kind = "kept"
    BY <2>1
  <2> QED BY <2>2 DEF MainMail, PaneInv, DocsOK
<1>2. /\ CloseTokens(up, replies, asking, view.doc, view.closing) /\ BootTokens(up, replies, view.doc, view.stage)
      /\ IsSeq(up)
  BY DEF PaneInv, FieldsOK
<1>3. CASE up' = up
  BY <1>1, <1>2, <1>3 DEF Tokens
<1>4. CASE up # <<>> /\ up' = Tail(up)
  <2>1. CloseTokens(up', replies, asking, view.doc, view.closing)
    BY <1>2, <1>4, CloseTail
  <2>2. BootTokens(up', replies, view.doc, view.stage)
    BY <1>2, <1>4, BootTail
  <2> QED BY <1>1, <2>1, <2>2 DEF Tokens
<1> QED BY <1>3, <1>4

\* What the head of `up` and the rest of it are, and who sent the head.
LEMMA Taken ==
  ASSUME PaneInv, up # <<>>
  PROVE  /\ Head(up).doc \in Nat /\ Head(up).doc <= view.doc
         /\ D!Trusted(Head(up)) => Head(up).doc = document /\ document = view.doc
         /\ CloseTokens(Tail(up), replies, asking, view.doc, view.closing)
         /\ BootTokens(Tail(up), replies, view.doc, view.stage)
         /\ Head(up).kind = "close" /\ Head(up).doc = view.doc =>
              /\ Said(Tail(up), "close", view.doc) = {} /\ asking.doc # view.doc /\ Answers(replies) = {}
              /\ Head(up).gen = view.closing /\ view.closing # 0
         /\ Head(up).kind = "boot" /\ Head(up).doc = view.doc =>
              Said(Tail(up), "boot", view.doc) = {} /\ Boots(replies) = {} /\ view.stage = "asked"
<1>1. /\ CloseTokens(up, replies, asking, view.doc, view.closing) /\ BootTokens(up, replies, view.doc, view.stage)
      /\ IsSeq(up)
  BY DEF PaneInv, FieldsOK
<1>2. Head(up) \in Mails(up)
  BY <1>1, SaidTail
<1>3. Head(up).doc \in Nat /\ Head(up).doc <= view.doc /\ (D!Trusted(Head(up)) => Head(up).doc = document /\ document = view.doc)
  BY <1>2 DEF PaneInv, DocsOK, D!Trusted
<1>4. PICK d, c, g : d = view.doc /\ c = view.closing /\ g = view.stage
  OBVIOUS
<1>5. /\ CloseTokens(Tail(up), replies, asking, d, c)
      /\ Head(up).kind = "close" /\ Head(up).doc = d =>
              /\ Said(Tail(up), "close", d) = {} /\ asking.doc # d /\ Answers(replies) = {}
              /\ Head(up).gen = c /\ c # 0
  BY <1>1, <1>4, CloseTail
<1>6. /\ BootTokens(Tail(up), replies, d, g)
      /\ Head(up).kind = "boot" /\ Head(up).doc = d =>
              Said(Tail(up), "boot", d) = {} /\ Boots(replies) = {} /\ g = "asked"
  BY <1>1, <1>4, BootTail
<1> QED BY <1>3, <1>4, <1>5, <1>6

\* An answer goes to the view that asked, or to nobody.
LEMMA AnswerFacts ==
  ASSUME NEW kind, NEW g, NEW d, D!Answer(kind, g, d)
  PROVE  \E m : /\ m.kind = kind /\ m.gen = g
                /\ replies' = IF view.doc = d THEN replies \cup {m} ELSE replies
<1>1. PICK m : m = [kind |-> kind, gen |-> g]
  OBVIOUS
<1> QED BY <1>1 DEF D!Answer

LEMMA MainAnswers ==
  ASSUME PaneInv, MainStep,
         \/ D!SpawnBegin \/ D!SpawnEnd \/ D!PushList \/ D!Output \/ D!NativeExit \/ D!Release \/ D!Send \/ D!Replace
         \/ D!DropUntrusted \/ D!ListTerminals \/ D!ReadyHandshake \/ D!Acknowledge \/ D!CloseRequest
         \/ D!CloseDeclined \/ D!CloseConfirmed
  PROVE  MainMail /\ Tokens'
<1>1. /\ CloseTokens(up, replies, asking, view.doc, view.closing) /\ BootTokens(up, replies, view.doc, view.stage)
      /\ asking.doc \in Nat /\ asking.doc <= view.doc /\ view' = view
      /\ view.doc \in Nat \ {0} /\ view.doc <= document
  BY DEF PaneInv, DocsOK, MainStep
<1>2. CASE \/ D!SpawnBegin \/ D!SpawnEnd \/ D!PushList \/ D!Output \/ D!NativeExit \/ D!Release \/ D!Send \/ D!Replace
           \/ D!ReadyHandshake \/ D!Acknowledge
  <2>1. replies' = replies /\ asking' = asking /\ (up' = up \/ (up # <<>> /\ up' = Tail(up)))
    BY <1>2 DEF D!SpawnBegin, D!SpawnEnd, D!PushList, D!Output, D!NativeExit, D!Release, D!Send, D!Replace,
         D!ReadyHandshake, D!Acknowledge, D!TakeUp
  <2> QED BY <1>1, <2>1, NoMail
<1>3. CASE D!DropUntrusted
  <2>1. up # <<>> /\ up' = Tail(up) /\ asking' = asking
    BY <1>3 DEF D!DropUntrusted, D!TakeUp
  <2>2. CASE Head(up).kind = "close" /\ Head(up).doc = view.doc
    <3>1. D!Answer("kept", Head(up).gen, Head(up).doc)
      BY <1>3, <2>2 DEF D!DropUntrusted
    <3>2. PICK m : m.kind = "kept" /\ m.gen = Head(up).gen /\ replies' = replies \cup {m}
      BY <2>2, <3>1, AnswerFacts
    <3>3. /\ Said(Tail(up), "close", view.doc) = {} /\ asking.doc # view.doc /\ Answers(replies) = {}
          /\ Head(up).gen = view.closing /\ view.closing # 0 /\ BootTokens(Tail(up), replies, view.doc, view.stage)
      BY <2>1, <2>2, Taken
    <3>4. m.gen = view.closing
      BY <3>2, <3>3
    <3>5. CloseTokens(Tail(up), replies \cup {m}, asking, view.doc, view.closing) /\ BootTokens(Tail(up), replies \cup {m}, view.doc, view.stage)
      BY <3>2, <3>3, <3>4, CloseAnswered
    <3>6. MainMail
      BY <1>1, <2>1, <3>2 DEF MainMail
    <3> QED BY <1>1, <2>1, <3>2, <3>5, <3>6 DEF Tokens
  <2>3. CASE ~(Head(up).kind = "close" /\ Head(up).doc = view.doc)
    <3>1. CASE Head(up).kind = "close"
      <4>1. D!Answer("kept", Head(up).gen, Head(up).doc)
        BY <1>3, <3>1 DEF D!DropUntrusted
      <4>2. replies' = replies
        BY <2>3, <3>1, <4>1 DEF D!Answer
      <4> QED BY <1>1, <2>1, <4>2, NoMail
    <3>2. CASE Head(up).kind # "close"
      <4>1. replies' = replies
        BY <1>3, <3>2 DEF D!DropUntrusted
      <4> QED BY <1>1, <2>1, <4>1, NoMail
    <3> QED BY <3>1, <3>2
  <2> QED BY <2>2, <2>3
<1>4. CASE D!ListTerminals
  <2>1. /\ up # <<>> /\ up' = Tail(up) /\ asking' = asking /\ Head(up).kind = "boot" /\ D!Trusted(Head(up))
        /\ D!Answer("boot", D!Listed(term), document) /\ D!Pushed(term, document, D!ListMsg(term))
    BY <1>4 DEF D!ListTerminals, D!TakeUp
  <2>2. /\ Head(up).doc = view.doc /\ document = view.doc
        /\ CloseTokens(Tail(up), replies, asking, view.doc, view.closing)
        /\ Said(Tail(up), "boot", view.doc) = {} /\ Boots(replies) = {} /\ view.stage = "asked"
    BY <2>1, Taken
  <2>3. PICK m : m.kind = "boot" /\ m.gen = D!Listed(term) /\ replies' = replies \cup {m}
    BY <2>1, <2>2, AnswerFacts
  <2>4. D!Listed(term') = D!Listed(term)
    <3>1. DOMAIN term = TermFields /\ term.gen \in Nat
      BY DEF PaneInv, FieldsOK, RosterOK
    <3>2. SameLife(term, term')
      BY <2>1, <3>1, PushedFacts
    <3> QED BY <3>1, <3>2, SameIsLater
  <2>5. CloseTokens(Tail(up), replies \cup {m}, asking, view.doc, view.closing) /\ BootTokens(Tail(up), replies \cup {m}, view.doc, view.stage)
    BY <2>2, <2>3, BootAnswered
  <2>6. MainMail
    BY <1>1, <2>1, <2>3, <2>4 DEF MainMail
  <2> QED BY <1>1, <2>1, <2>3, <2>5, <2>6 DEF Tokens
<1>5. CASE D!CloseRequest
  <2>1. up # <<>> /\ up' = Tail(up) /\ Head(up).kind = "close" /\ D!Trusted(Head(up))
    BY <1>5 DEF D!CloseRequest, D!TakeUp
  <2>2. /\ Head(up).doc = view.doc /\ document = view.doc
        /\ Said(Tail(up), "close", view.doc) = {} /\ asking.doc # view.doc /\ Answers(replies) = {}
        /\ Head(up).gen = view.closing /\ view.closing # 0 /\ BootTokens(Tail(up), replies, view.doc, view.stage)
    BY <2>1, Taken
  <2>3. CASE asking' = [gen |-> Head(up).gen, doc |-> document] /\ replies' = replies
    <3>1. asking'.doc = view.doc /\ asking'.gen = view.closing
      BY <2>2, <2>3
    <3>2. CloseTokens(Tail(up), replies, asking', view.doc, view.closing)
      BY <2>2, <3>1 DEF CloseTokens
    <3>3. MainMail
      <4>1. PICK m : m = [kind |-> "kept"]
        OBVIOUS
      <4>2. replies' \subseteq replies \cup {m} /\ m.kind = "kept"
        BY <2>3, <4>1
      <4> QED BY <1>1, <2>1, <3>1, <4>2 DEF MainMail
    <3> QED BY <1>1, <2>1, <2>2, <2>3, <3>2, <3>3 DEF Tokens
  <2>4. CASE D!Answer("kept", Head(up).gen, document) /\ asking' = asking
    <3>1. PICK m : m.kind = "kept" /\ m.gen = Head(up).gen /\ replies' = replies \cup {m}
      BY <2>2, <2>4, AnswerFacts
    <3>2. m.gen = view.closing
      BY <2>2, <3>1
    <3>3. CloseTokens(Tail(up), replies \cup {m}, asking, view.doc, view.closing) /\ BootTokens(Tail(up), replies \cup {m}, view.doc, view.stage)
      BY <2>2, <3>1, <3>2, CloseAnswered
    <3>4. MainMail
      BY <1>1, <2>1, <2>4, <3>1 DEF MainMail
    <3> QED BY <1>1, <2>1, <2>4, <3>1, <3>3, <3>4 DEF Tokens
  <2>5. \/ asking' = [gen |-> Head(up).gen, doc |-> document] /\ replies' = replies
        \/ D!Answer("kept", Head(up).gen, document) /\ asking' = asking
    BY <1>5 DEF D!CloseRequest
  <2> QED BY <2>3, <2>4, <2>5
<1>6. CASE D!CloseDeclined \/ D!CloseConfirmed
  <2>1. up' = up /\ asking' = D!NotAsking /\ \E k \in {"kept", "closed"} : D!Answer(k, asking.gen, asking.doc)
    BY <1>6 DEF D!CloseDeclined, D!CloseConfirmed
  <2>2. asking'.doc = 0 /\ asking'.doc # view.doc /\ asking'.doc \in Nat /\ asking'.doc <= view.doc
    BY <1>1, <2>1 DEF D!NotAsking
  <2>3. D!CloseConfirmed => Gone(term', asking.gen)
    <3> SUFFICES ASSUME D!CloseConfirmed PROVE Gone(term', asking.gen)
      OBVIOUS
    <3>1. PICK T : T = [D!Cancelled(term) EXCEPT !.closed = TRUE] /\ D!Pushed(T, document, D!ListMsg(T)) /\ term.gen = asking.gen
      BY DEF D!CloseConfirmed
    <3>2. PICK V : V = D!Cancelled(term)
      OBVIOUS
    <3>3. DOMAIN V = TermFields /\ V.gen = term.gen
      BY <3>2, TermKeeps DEF PaneInv, FieldsOK
    <3>4. DOMAIN T = TermFields /\ T.gen = term.gen /\ T.closed = TRUE
      BY <3>1, <3>2, <3>3 DEF TermFields
    <3>5. SameLife(T, term')
      BY <3>1, <3>4, PushedFacts
    <3> QED BY <3>1, <3>4, <3>5 DEF SameLife, Gone, D!Listed
  <2>4. PICK k \in {"kept", "closed"} : D!Answer(k, asking.gen, asking.doc) /\ (k = "closed" => Gone(term', asking.gen))
    <3>1. D!CloseDeclined => D!Answer("kept", asking.gen, asking.doc)
      BY DEF D!CloseDeclined
    <3>2. D!CloseConfirmed => D!Answer("closed", asking.gen, asking.doc)
      BY DEF D!CloseConfirmed
    <3> QED BY <1>6, <2>3, <3>1, <3>2
  <2>5. PICK m : m.kind = k /\ m.gen = asking.gen /\ replies' = IF view.doc = asking.doc THEN replies \cup {m} ELSE replies
    BY <2>4, AnswerFacts
  <2>6. MainMail
    <3>1. (m.kind = "closed" => Gone(term', m.gen)) /\ m.kind # "boot" /\ replies' \subseteq replies \cup {m}
      BY <2>4, <2>5
    <3> QED BY <2>1, <2>2, <3>1 DEF MainMail
  <2>7. CASE view.doc = asking.doc
    <3>1. Said(up, "close", view.doc) = {} /\ Answers(replies) = {} /\ asking.gen = view.closing /\ view.closing # 0
      BY <1>1, <2>7 DEF CloseTokens
    <3>2. m.gen = view.closing /\ m.kind \in {"closed", "kept"}
      BY <2>5, <3>1
    <3>3. CloseTokens(up, replies \cup {m}, asking', view.doc, view.closing) /\ BootTokens(up, replies \cup {m}, view.doc, view.stage)
      <4>1. PICK a : a = asking'
        OBVIOUS
      <4>2. a.doc # view.doc
        BY <2>2, <4>1
      <4>3. CloseTokens(up, replies \cup {m}, a, view.doc, view.closing) /\ BootTokens(up, replies \cup {m}, view.doc, view.stage)
        BY <1>1, <3>1, <3>2, <4>2, CloseAnswered
      <4> QED BY <4>1, <4>3
    <3> QED BY <1>1, <2>1, <2>5, <2>6, <2>7, <3>3 DEF Tokens
  <2>8. CASE view.doc # asking.doc
    <3>1. CloseTokens(up, replies, asking', view.doc, view.closing)
      BY <1>1, <2>2 DEF CloseTokens
    <3> QED BY <1>1, <2>1, <2>5, <2>6, <2>8, <3>1 DEF Tokens
  <2> QED BY <2>7, <2>8
<1> QED BY <1>2, <1>3, <1>4, <1>5, <1>6

-----------------------------------------------------------------------------
(* The renderer *)

LEMMA ViewKeeps ==
  ASSUME NEW v, DOMAIN v = ViewFields, NEW g
  PROVE  /\ DOMAIN D!WithPane(v, g) = ViewFields /\ D!WithPane(v, g).pane = g
         /\ D!WithPane(v, g).doc = v.doc /\ D!WithPane(v, g).stage = v.stage
         /\ D!WithPane(v, g).closing = v.closing /\ D!WithPane(v, g).fence = v.fence
         /\ DOMAIN D!WithoutPane(v) = ViewFields /\ D!WithoutPane(v).pane = 0
         /\ D!WithoutPane(v).doc = v.doc /\ D!WithoutPane(v).stage = v.stage
         /\ D!WithoutPane(v).closing = v.closing /\ D!WithoutPane(v).fence = v.fence
<1>1. /\ DOMAIN D!WithPane(v, g) = ViewFields /\ D!WithPane(v, g).pane = g
      /\ D!WithPane(v, g).doc = v.doc /\ D!WithPane(v, g).stage = v.stage
      /\ D!WithPane(v, g).closing = v.closing /\ D!WithPane(v, g).fence = v.fence
  <2>1. CASE v.pane = g
    BY <2>1 DEF D!WithPane
  <2>2. CASE v.pane # g
    <3>1. PICK w, a : w = [v EXCEPT !.pane = g, !.ledger = a, !.shown = <<>>] /\ D!WithPane(v, g) = w
      BY <2>2 DEF D!WithPane
    <3>2. /\ DOMAIN w = ViewFields /\ w.pane = g /\ w.doc = v.doc /\ w.stage = v.stage
          /\ w.closing = v.closing /\ w.fence = v.fence
      BY <3>1 DEF ViewFields
    <3> QED BY <3>1, <3>2
  <2> QED BY <2>1, <2>2
<1>2. /\ DOMAIN D!WithoutPane(v) = ViewFields /\ D!WithoutPane(v).pane = 0
      /\ D!WithoutPane(v).doc = v.doc /\ D!WithoutPane(v).stage = v.stage
      /\ D!WithoutPane(v).closing = v.closing /\ D!WithoutPane(v).fence = v.fence
  <2>1. PICK w, a : w = [v EXCEPT !.pane = 0, !.ledger = a, !.writes = <<>>, !.shown = <<>>] /\ D!WithoutPane(v) = w
    BY DEF D!WithoutPane
  <2>2. /\ DOMAIN w = ViewFields /\ w.pane = 0 /\ w.doc = v.doc /\ w.stage = v.stage
        /\ w.closing = v.closing /\ w.fence = v.fence
    BY <2>1 DEF ViewFields
  <2> QED BY <2>1, <2>2
<1> QED BY <1>1, <1>2

LEMMA NothingBehind ==
  /\ \A T : RosterOrder(<<>>, T)
  /\ \A p, s, T, pane, fence, f : Behind(p, s, T, pane, fence) => Behind(p, <<>>, T, pane, f)
BY EmptyFacts DEF RosterOrder, Behind

\* A step of the renderer leaves the main process alone.
ViewStep ==
  /\ UNCHANGED <<document, documentReady, term, asking>>
  /\ DOMAIN view' = ViewFields /\ DOMAIN hist' = HistFields

LEMMA IsSeqAppend == ASSUME NEW s, IsSeq(s), NEW m PROVE IsSeq(Append(s, m))
BY AppendFacts

\* The document says something that asks nothing, or says nothing.
SaysAtMost == up' = up \/ \E m : up' = Append(up, m) /\ m.doc = view.doc /\ (m.kind = "ack" \/ (m.kind = "ready" /\ view'.stage = "listed"))

LEMMA SaysFacts ==
  ASSUME PaneInv, SaysAtMost, view'.doc = view.doc
  PROVE  /\ IsSeq(up')
         /\ \A m \in Mails(up') : m \in Mails(up) \/ (m.doc = view.doc /\ (m.kind = "ready" => view'.stage = "listed"))
         /\ \A R, ask, c : CloseTokens(up, R, ask, view.doc, c) => CloseTokens(up', R, ask, view.doc, c)
         /\ \A R, g : BootTokens(up, R, view.doc, g) => BootTokens(up', R, view.doc, g)
<1>1. IsSeq(up)
  BY DEF PaneInv, FieldsOK
<1>2. CASE up' = up
  BY <1>1, <1>2
<1>3. CASE up' # up
  <2>1. PICK m : up' = Append(up, m) /\ m.doc = view.doc /\ (m.kind = "ack" \/ (m.kind = "ready" /\ view'.stage = "listed"))
    BY <1>3 DEF SaysAtMost
  <2>2. IsSeq(up') /\ Mails(up') = Mails(up) \cup {m}
    <3>1. IsSeq(up')
      BY <1>1, <2>1, IsSeqAppend
    <3>2. Mails(up') = Mails(up) \cup {m}
      BY <1>1, <2>1, SaidAppend
    <3> QED BY <3>1, <3>2
  <2>3. m.kind # "close" /\ m.kind # "boot"
    BY <2>1
  <2>4. \A R, ask, c : CloseTokens(up, R, ask, view.doc, c) => CloseTokens(up', R, ask, view.doc, c)
    BY <1>1, <2>1, <2>3, TokensAppend
  <2>5. \A R, g : BootTokens(up, R, view.doc, g) => BootTokens(up', R, view.doc, g)
    BY <1>1, <2>1, <2>3, TokensAppend
  <2> QED BY <2>1, <2>2, <2>4, <2>5
<1> QED BY <1>2, <1>3

\* A step that changes neither the pane nor what was asked.
LEMMA SamePane ==
  ASSUME PaneInv, ViewStep, replies' = replies, hist'.closed = hist.closed,
         view'.doc = view.doc, view'.stage = view.stage, view'.pane = view.pane,
         view'.closing = view.closing, view'.fence = view.fence, SaysAtMost,
         push' = push \/ push' = <<>> \/ (push # <<>> /\ Head(push).kind = "record" /\ push' = Tail(push))
  PROVE  PaneInv'
<1>1. IsSeq(push) /\ term' = term /\ RosterOrder(push, term)
  BY DEF PaneInv, FieldsOK, ViewStep, RosterOK
<1>2. /\ IsSeq(up')
      /\ \A m \in Mails(up') : m \in Mails(up) \/ (m.doc = view.doc /\ (m.kind = "ready" => view'.stage = "listed"))
      /\ CloseTokens(up', replies, asking, view.doc, view.closing)
      /\ BootTokens(up', replies, view.doc, view.stage)
  BY SaysFacts DEF PaneInv
<1>3. IsSeq(push') /\ RosterOrder(push', term) /\ (push = <<>> => push' = <<>>)
  BY <1>1, NothingBehind, EmptyFacts, TailFacts, OrderTail
<1>4. ASSUME NEW p, Behind(p, push, term, view.pane, view.fence)
      PROVE  Behind(p, push', term, view.pane, view.fence)
  <2>1. CASE push' = push
    BY <1>4, <2>1
  <2>2. CASE push' = <<>>
    BY <1>4, <2>2, NothingBehind
  <2>3. CASE push # <<>> /\ push' = Tail(push)
    <3>1. PICK x, f : x = view.pane /\ f = view.fence
      OBVIOUS
    <3>2. /\ x = 0 \/ x >= p
          /\ x # p => Gone(term, p)
          /\ \A j \in Lists(push) : j > 1 /\ push[j].gen = p /\ x # p =>
              /\ f >= p /\ \A k \in Lists(push) : k > 1 /\ k < j => push[k].gen # 0 /\ push[k].gen <= f
      BY <1>4, <3>1 DEF Behind
    <3> QED BY <1>1, <1>4, <2>3, <3>1, <3>2, BehindTail
  <2> QED BY <2>1, <2>2, <2>3
<1>5. FieldsOK'
  BY <1>1, <1>2, <1>3 DEF PaneInv, FieldsOK, ViewStep
<1>6. DocsOK'
  BY <1>2, <1>3 DEF PaneInv, DocsOK, ViewStep
<1>7. RosterOK'
  BY <1>1, <1>3, <1>4 DEF PaneInv, RosterOK
<1> QED BY <1>2, <1>5, <1>6, <1>7 DEF PaneInv, ViewStep

LEMMA PlainSteps ==
  ASSUME PaneInv, D!Crash \/ D!ReceiveRecord \/ D!Consume
  PROVE  PaneInv'
<1>1. DOMAIN view = ViewFields /\ DOMAIN hist = HistFields
  BY DEF PaneInv, FieldsOK
<1>2. CASE D!Crash
  <2>1. /\ view' = [view EXCEPT !.alive = FALSE] /\ push' = <<>>
        /\ UNCHANGED <<document, documentReady, term, asking, replies, up, hist>>
    BY <1>2 DEF D!Crash
  <2>2. /\ DOMAIN view' = ViewFields /\ view'.doc = view.doc /\ view'.stage = view.stage /\ view'.pane = view.pane
        /\ view'.closing = view.closing /\ view'.fence = view.fence
    BY <1>1, <2>1 DEF ViewFields
  <2>3. ViewStep /\ SaysAtMost /\ hist'.closed = hist.closed
    BY <1>1, <2>1, <2>2 DEF ViewStep, SaysAtMost
  <2> QED BY <2>1, <2>2, <2>3, SamePane
<1>3. CASE D!ReceiveRecord
  <2>1. /\ push # <<>> /\ Head(push).kind = "record" /\ push' = Tail(push)
        /\ UNCHANGED <<document, documentReady, term, asking, replies, hist>>
    BY <1>3 DEF D!ReceiveRecord
  <2>2. view' = view \/ \E l, w : view' = [view EXCEPT !.ledger = l, !.writes = w]
    BY <1>3 DEF D!ReceiveRecord
  <2>3. /\ DOMAIN view' = ViewFields /\ view'.doc = view.doc /\ view'.stage = view.stage /\ view'.pane = view.pane
        /\ view'.closing = view.closing /\ view'.fence = view.fence
    BY <1>1, <2>2 DEF ViewFields
  <2>4. up' = up \/ up' = Append(up, D!Say("ack", Head(push).gen, Head(push).rec.seq))
    BY <1>3 DEF D!ReceiveRecord
  <2>5. D!Say("ack", Head(push).gen, Head(push).rec.seq).doc = view.doc /\ D!Say("ack", Head(push).gen, Head(push).rec.seq).kind = "ack"
    BY DEF D!Say
  <2>6. ViewStep /\ SaysAtMost /\ hist'.closed = hist.closed
    BY <1>1, <2>1, <2>3, <2>4, <2>5 DEF ViewStep, SaysAtMost
  <2> QED BY <2>1, <2>3, <2>6, SamePane
<1>4. CASE D!Consume
  <2>1. PICK w : /\ up' = Append(up, D!Say("ack", w.gen, w.seq))
                 /\ (\E a, b : view' = [view EXCEPT !.writes = a, !.shown = b])
                 /\ (hist' = hist \/ \E a : hist' = [hist EXCEPT !.shown = a])
    BY <1>4 DEF D!Consume
  <2>2. /\ UNCHANGED <<document, documentReady, term, asking, replies, push>>
    BY <1>4 DEF D!Consume
  <2>3. /\ DOMAIN view' = ViewFields /\ view'.doc = view.doc /\ view'.stage = view.stage /\ view'.pane = view.pane
        /\ view'.closing = view.closing /\ view'.fence = view.fence
    BY <1>1, <2>1 DEF ViewFields
  <2>4. DOMAIN hist' = HistFields /\ hist'.closed = hist.closed
    BY <1>1, <2>1 DEF HistFields
  <2>5. D!Say("ack", w.gen, w.seq).doc = view.doc /\ D!Say("ack", w.gen, w.seq).kind = "ack"
    BY DEF D!Say
  <2>6. SaysAtMost
    BY <2>1, <2>5 DEF SaysAtMost
  <2>7. ViewStep
    BY <2>2, <2>3, <2>4 DEF ViewStep
  <2> QED BY <2>2, <2>3, <2>4, <2>6, <2>7, SamePane
<1> QED BY <1>2, <1>3, <1>4

\* A new document has asked nothing, and what others asked is not its own.
LEMMA LoadKeeps == ASSUME PaneInv, D!Load PROVE PaneInv'
<1>1. /\ view' = D!NewView(document) /\ push' = <<>> /\ replies' = {} /\ view.doc # document
      /\ UNCHANGED <<document, documentReady, term, asking, up, hist>>
  BY DEF D!Load
<1>2. /\ DOMAIN view' = ViewFields /\ view'.doc = document /\ view'.pane = 0 /\ view'.closing = 0 /\ view'.fence = 0
  BY <1>1 DEF D!NewView, ViewFields
<1>3. /\ document \in Nat \ {0} /\ view.doc \in Nat /\ view.doc < document /\ ~documentReady
      /\ asking.doc \in Nat /\ asking.doc < document
      /\ \A m \in Mails(up) : m.doc \in Nat /\ m.doc < document
  BY <1>1 DEF PaneInv, DocsOK
<1>4. \A k : Said(up, k, document) = {}
  BY <1>3 DEF Said, Mails
<1>5. Answers({}) = {} /\ Boots({}) = {}
  BY DEF Answers, Boots
<1>6. CloseTokens(up, {}, asking, document, 0) /\ \A g : BootTokens(up, {}, document, g)
  BY <1>3, <1>4, <1>5 DEF CloseTokens, BootTokens
<1>7. FieldsOK'
  BY <1>1, <1>2, EmptyFacts DEF PaneInv, FieldsOK
<1>8. DocsOK'
  BY <1>1, <1>2, <1>3 DEF DocsOK
<1>9. RosterOK'
  <2>1. RosterOrder(push', term)
    BY <1>1, NothingBehind
  <2>2. hist.closed # 0 => Behind(hist.closed, push', term, 0, 0) /\ Gone(term, hist.closed)
    <3>1. hist.closed # 0 => Gone(term, hist.closed) /\ hist.closed \in Nat \ {0} /\ hist.closed <= term.gen
      BY DEF PaneInv, RosterOK, Behind
    <3>2. Lists(push') = {}
      BY <1>1, EmptyFacts
    <3> QED BY <3>1, <3>2 DEF Behind
  <2> QED BY <1>1, <1>2, <1>5, <2>1, <2>2 DEF PaneInv, RosterOK
<1> QED BY <1>1, <1>2, <1>6, <1>7, <1>8, <1>9 DEF PaneInv

LEMMA BootRequestKeeps == ASSUME PaneInv, D!BootRequest PROVE PaneInv'
<1>1. /\ view.stage = "loaded" /\ view' = [view EXCEPT !.stage = "asked"] /\ up' = Append(up, D!Say("boot", 0, 0))
      /\ UNCHANGED <<document, documentReady, term, asking, push, replies, hist>>
  BY DEF D!BootRequest
<1>2. PICK m : up' = Append(up, m) /\ m.kind = "boot" /\ m.doc = view.doc
  BY <1>1 DEF D!Say
<1>3. /\ DOMAIN view' = ViewFields /\ view'.doc = view.doc /\ view'.stage = "asked" /\ view'.pane = view.pane
      /\ view'.closing = view.closing /\ view'.fence = view.fence
  BY <1>1 DEF PaneInv, FieldsOK, ViewFields
<1>4. IsSeq(up) /\ IsSeq(up') /\ Mails(up') = Mails(up) \cup {m}
  BY <1>2, AppendFacts, SaidAppend DEF PaneInv, FieldsOK
<1>5. FieldsOK'
  BY <1>1, <1>3, <1>4 DEF PaneInv, FieldsOK
<1>6. DocsOK'
  <2>1. /\ document \in Nat /\ view.doc \in Nat \ {0} /\ view.doc <= document
        /\ asking.doc \in Nat /\ asking.doc <= view.doc /\ ~documentReady
        /\ push = <<>> /\ view.pane = 0 /\ view.closing = 0 /\ view.fence = 0
    BY <1>1 DEF PaneInv, DocsOK
  <2>2. \A n \in Mails(up') : n.doc \in Nat /\ n.doc <= view.doc /\ ~(n.kind = "ready" /\ n.doc = view.doc)
    BY <1>1, <1>2, <1>4, <2>1 DEF PaneInv, DocsOK
  <2> QED BY <1>1, <1>3, <2>1, <2>2 DEF DocsOK
<1>7. RosterOK'
  BY <1>1, <1>3 DEF PaneInv, RosterOK
<1>8. CloseTokens(up', replies, asking, view.doc, view.closing)
  BY <1>2, <1>4, TokensAppend DEF PaneInv
<1>9. BootTokens(up', replies, view.doc, "asked")
  <2>1. Said(up, "boot", view.doc) = {} /\ Boots(replies) = {}
    BY <1>1 DEF PaneInv, BootTokens
  <2>2. PICK k, d : k = "boot" /\ d = view.doc
    OBVIOUS
  <2>3. Said(up', k, d) = Said(up, k, d) \cup {Len(up) + 1}
    BY <1>2, <1>4, <2>2, SaidAppend
  <2>4. Said(up', "boot", view.doc) = {Len(up) + 1}
    BY <2>1, <2>2, <2>3
  <2> QED BY <2>1, <2>4 DEF BootTokens
<1> QED BY <1>1, <1>3, <1>5, <1>6, <1>7, <1>8, <1>9 DEF PaneInv

LEMMA BootReplyKeeps == ASSUME PaneInv, D!BootReply PROVE PaneInv'
<1>1. PICK m \in replies :
        /\ m.kind = "boot"
        /\ replies' = replies \ {m}
        /\ view' = [(IF m.gen = 0 THEN view ELSE D!WithPane(view, m.gen)) EXCEPT !.stage = "listed"]
        /\ up' = Append(up, D!Say("ready", m.gen, 0))
  BY DEF D!BootReply
<1>2. UNCHANGED <<document, documentReady, term, asking, push, hist>>
  BY DEF D!BootReply
<1>3. m \in Boots(replies) /\ view.stage = "asked" /\ Said(up, "boot", view.doc) = {} /\ Boots(replies') = {}
  BY <1>1 DEF PaneInv, BootTokens, Boots
<1>4. push = <<>> /\ view.pane = 0 /\ view.closing = 0 /\ view.fence = 0 /\ ~documentReady
  BY <1>3 DEF PaneInv, DocsOK
<1>5. PICK v : v = (IF m.gen = 0 THEN view ELSE D!WithPane(view, m.gen)) /\ view' = [v EXCEPT !.stage = "listed"]
  BY <1>1
<1>6. /\ DOMAIN v = ViewFields /\ v.doc = view.doc /\ v.pane = m.gen /\ v.closing = 0 /\ v.fence = 0
  BY <1>4, <1>5, ViewKeeps DEF PaneInv, FieldsOK
<1>7. /\ DOMAIN view' = ViewFields /\ view'.doc = view.doc /\ view'.stage = "listed" /\ view'.pane = m.gen
      /\ view'.closing = 0 /\ view'.fence = 0
  BY <1>5, <1>6 DEF ViewFields
<1>8. SaysAtMost
  <2>1. D!Say("ready", m.gen, 0).doc = view.doc /\ D!Say("ready", m.gen, 0).kind = "ready"
    BY DEF D!Say
  <2> QED BY <1>1, <1>7, <2>1 DEF SaysAtMost
<1>9. /\ IsSeq(up')
      /\ \A n \in Mails(up') : n \in Mails(up) \/ (n.doc = view.doc /\ (n.kind = "ready" => view'.stage = "listed"))
      /\ \A R, ask, c : CloseTokens(up, R, ask, view.doc, c) => CloseTokens(up', R, ask, view.doc, c)
  BY <1>7, <1>8, SaysFacts
<1>10. Answers(replies') = Answers(replies)
  BY <1>1 DEF Answers
<1>11. CloseTokens(up', replies', asking, view.doc, 0)
  <2>1. CloseTokens(up, replies', asking, view.doc, view.closing)
    BY <1>10 DEF PaneInv, CloseTokens
  <2> QED BY <1>4, <1>9, <2>1
<1>12. BootTokens(up', replies', view.doc, "listed")
  <2>1. BootTokens(up, replies', view.doc, "listed")
    BY <1>3 DEF BootTokens
  <2> QED BY <1>8, <1>7, <2>1, SaysFacts
<1>13. FieldsOK'
  BY <1>2, <1>7, <1>9 DEF PaneInv, FieldsOK
<1>14. DocsOK'
  BY <1>2, <1>3, <1>7, <1>9 DEF PaneInv, DocsOK
<1>15. m.gen \in Nat /\ m.gen <= term.gen /\ (m.gen # 0 => m.gen > hist.closed) /\ hist.closed \in Nat
  BY <1>3 DEF PaneInv, RosterOK
<1>16. m.gen # 0 => Behind(m.gen, push, term, m.gen, 0)
  <2>1. Lists(push) = {}
    BY <1>4, EmptyFacts
  <2> QED BY <1>15, <2>1 DEF Behind
<1>17. hist.closed # 0 => Behind(hist.closed, push, term, m.gen, 0) /\ Gone(term, hist.closed) /\ m.gen # hist.closed
  <2>1. hist.closed # 0 => hist.closed <= term.gen /\ Gone(term, hist.closed)
    BY DEF PaneInv, RosterOK, Behind
  <2>2. Lists(push) = {}
    BY <1>4, EmptyFacts
  <2> QED BY <1>15, <2>1, <2>2 DEF Behind
<1>18. RosterOK'
  BY <1>2, <1>3, <1>7, <1>10, <1>15, <1>16, <1>17 DEF PaneInv, RosterOK
<1> QED BY <1>2, <1>7, <1>11, <1>12, <1>13, <1>14, <1>18 DEF PaneInv

LEMMA ClosePaneKeeps == ASSUME PaneInv, D!ClosePane PROVE PaneInv'
<1>1. /\ view.pane # 0 /\ view.closing = 0 /\ view' = [view EXCEPT !.closing = view.pane]
      /\ up' = Append(up, D!Say("close", view.pane, 0))
      /\ UNCHANGED <<document, documentReady, term, asking, push, replies, hist>>
  BY DEF D!ClosePane
<1>2. PICK m : up' = Append(up, m) /\ m.kind = "close" /\ m.doc = view.doc /\ m.gen = view.pane
  BY <1>1 DEF D!Say
<1>3. /\ DOMAIN view' = ViewFields /\ view'.doc = view.doc /\ view'.stage = view.stage /\ view'.pane = view.pane
      /\ view'.closing = view.pane /\ view'.fence = view.fence
  BY <1>1 DEF PaneInv, FieldsOK, ViewFields
<1>4. IsSeq(up) /\ IsSeq(up') /\ Mails(up') = Mails(up) \cup {m}
  BY <1>2, AppendFacts, SaidAppend DEF PaneInv, FieldsOK
<1>5. FieldsOK'
  BY <1>1, <1>3, <1>4 DEF PaneInv, FieldsOK
<1>6. view.stage = "listed"
  BY <1>1 DEF PaneInv, DocsOK
<1>7. DocsOK'
  BY <1>1, <1>2, <1>3, <1>4, <1>6 DEF PaneInv, DocsOK
<1>8. RosterOK'
  BY <1>1, <1>3 DEF PaneInv, RosterOK
<1>9. CloseTokens(up', replies, asking, view.doc, view.pane)
  <2>1. Said(up, "close", view.doc) = {} /\ Answers(replies) = {} /\ asking.doc # view.doc
    BY <1>1 DEF PaneInv, CloseTokens
  <2>2. PICK k, d : k = "close" /\ d = view.doc
    OBVIOUS
  <2>3. Said(up', k, d) = Said(up, k, d) \cup {Len(up) + 1} /\ up'[Len(up) + 1] = m
    BY <1>2, <1>4, <2>2, SaidAppend
  <2>4. Said(up', "close", view.doc) = {Len(up) + 1}
    BY <2>1, <2>2, <2>3
  <2> QED BY <1>1, <1>2, <2>1, <2>3, <2>4 DEF CloseTokens
<1>10. BootTokens(up', replies, view.doc, view.stage)
  BY <1>2, <1>4, TokensAppend DEF PaneInv
<1> QED BY <1>1, <1>3, <1>5, <1>7, <1>8, <1>9, <1>10 DEF PaneInv

LEMMA CloseReplyKeeps == ASSUME PaneInv, D!CloseReply PROVE PaneInv'
<1>1. PICK m \in replies :
        /\ m.kind \in {"closed", "kept"}
        /\ replies' = replies \ {m}
        /\ IF m.kind = "closed" /\ view.pane \in {0, m.gen}
           THEN view' = [D!WithoutPane(view) EXCEPT !.closing = 0, !.fence = m.gen]
           ELSE view' = [view EXCEPT !.closing = 0]
        /\ hist' = IF m.kind = "closed" THEN [hist EXCEPT !.closed = m.gen] ELSE hist
  BY DEF D!CloseReply
<1>2. UNCHANGED <<document, documentReady, term, asking, push, up>>
  BY DEF D!CloseReply
<1>3. /\ m \in Answers(replies) /\ m.gen = view.closing /\ view.closing # 0 /\ Answers(replies') = {}
      /\ Said(up, "close", view.doc) = {} /\ asking.doc # view.doc /\ Boots(replies') = Boots(replies)
  BY <1>1 DEF PaneInv, CloseTokens, Answers, Boots
<1>4. view.stage = "listed" /\ Boots(replies) = {}
  BY <1>3 DEF PaneInv, DocsOK, BootTokens
<1>5. /\ RosterOrder(push, term) /\ Behind(m.gen, push, term, view.pane, view.fence)
      /\ m.kind = "closed" => Gone(term, m.gen)
  BY <1>3 DEF PaneInv, RosterOK
<1>6. CloseTokens(up, replies', asking, view.doc, 0) /\ BootTokens(up, replies', view.doc, view.stage)
  BY <1>3 DEF PaneInv, CloseTokens, BootTokens
<1>7. DOMAIN hist' = HistFields /\ hist'.closed = IF m.kind = "closed" THEN m.gen ELSE hist.closed
  BY <1>1 DEF PaneInv, FieldsOK, HistFields
<1>8. m.gen \in Nat \ {0} /\ m.gen <= term.gen /\ (view.pane = 0 \/ view.pane >= m.gen)
  BY <1>5 DEF Behind
<1>9. CASE m.kind = "closed" /\ view.pane \in {0, m.gen}
  <2>1. PICK v : v = D!WithoutPane(view) /\ view' = [v EXCEPT !.closing = 0, !.fence = m.gen]
    BY <1>1, <1>9
  <2>2. DOMAIN v = ViewFields /\ v.doc = view.doc /\ v.stage = view.stage /\ v.pane = 0
    BY <2>1, ViewKeeps DEF PaneInv, FieldsOK
  <2>3. /\ DOMAIN view' = ViewFields /\ view'.doc = view.doc /\ view'.stage = view.stage /\ view'.pane = 0
        /\ view'.closing = 0 /\ view'.fence = m.gen
    BY <2>1, <2>2 DEF ViewFields
  <2>4. Behind(m.gen, push, term, 0, m.gen)
    <3>1. ASSUME NEW j \in Lists(push), push[j].gen = m.gen, NEW k \in Lists(push), k < j
          PROVE  push[k].gen # 0 /\ push[k].gen <= m.gen
      <4>1. push[k].gen # 0
        BY <1>5, <1>8, <3>1 DEF Behind
      <4>2. j > k
        BY <3>1, TailFacts DEF Lists, PaneInv, FieldsOK
      <4> QED BY <1>5, <1>8, <3>1, <4>1, <4>2 DEF RosterOrder
    <3> QED BY <1>5, <1>8, <1>9, <3>1 DEF Behind
  <2>5. RosterOK'
    BY <1>2, <1>3, <1>4, <1>5, <1>7, <1>8, <1>9, <2>3, <2>4 DEF PaneInv, RosterOK
  <2>6. FieldsOK'
    BY <1>2, <1>7, <2>3 DEF PaneInv, FieldsOK
  <2>7. DocsOK'
    BY <1>2, <1>4, <2>3 DEF PaneInv, DocsOK
  <2> QED BY <1>2, <1>6, <2>3, <2>5, <2>6, <2>7 DEF PaneInv
<1>10. CASE ~(m.kind = "closed" /\ view.pane \in {0, m.gen})
  <2>1. view' = [view EXCEPT !.closing = 0]
    BY <1>1, <1>10
  <2>2. /\ DOMAIN view' = ViewFields /\ view'.doc = view.doc /\ view'.stage = view.stage /\ view'.pane = view.pane
        /\ view'.closing = 0 /\ view'.fence = view.fence
    BY <2>1 DEF PaneInv, FieldsOK, ViewFields
  <2>3. RosterOK'
    BY <1>2, <1>3, <1>4, <1>5, <1>7, <1>8, <1>10, <2>2 DEF PaneInv, RosterOK
  <2>4. FieldsOK'
    BY <1>2, <1>7, <2>2 DEF PaneInv, FieldsOK
  <2>5. DocsOK'
    BY <1>2, <1>4, <2>2 DEF PaneInv, DocsOK
  <2> QED BY <1>2, <1>6, <2>2, <2>3, <2>4, <2>5 DEF PaneInv
<1> QED BY <1>9, <1>10

\* The pushes behind the roster that is taken are of its life, or of later ones.
LEMMA BehindFirst ==
  ASSUME NEW T, NEW s, IsSeq(s), s # <<>>, RosterOrder(s, T), Head(s).kind = "list", Head(s).gen # 0, NEW f
  PROVE  Behind(Head(s).gen, Tail(s), T, Head(s).gen, f)
<1>1. PICK r, g : r = Tail(s) /\ g = Head(s).gen
  OBVIOUS
<1>2. \A i \in Lists(r) : i \in Nat \ {0} /\ i + 1 \in Lists(s) /\ r[i] = s[i + 1] /\ i + 1 > 1
  BY <1>1, ListsTail
<1>3. 1 \in Lists(s) /\ s[1].gen = g /\ g # 0
  BY <1>1, ListsTail
<1>4. /\ g \in Nat /\ g <= T.gen
      /\ \A j \in Lists(s) : j > 1 =>
         /\ s[j].gen # 0 => g <= s[j].gen
         /\ s[j].gen = 0 => /\ Gone(T, g)
                            /\ \A k \in Lists(s) : k > j /\ s[k].gen # 0 => g < s[k].gen
  BY <1>3 DEF RosterOrder
<1>5. ASSUME NEW j \in Lists(r)
      PROVE  /\ r[j].gen # 0 => r[j].gen >= g /\ \A k \in Lists(r) : k < j /\ r[k].gen = 0 => r[j].gen > g
             /\ r[j].gen = 0 => Gone(T, g)
  <2>1. PICK b : b = j + 1 /\ b \in Lists(s) /\ r[j] = s[b] /\ b > 1
    BY <1>2
  <2>2. s[b].gen \in Nat
    BY <2>1 DEF RosterOrder
  <2>3. \A k \in Lists(r) : k < j => \E a \in Lists(s) : a > 1 /\ b > a /\ r[k] = s[a]
    BY <1>2, <2>1
  <2> QED BY <1>4, <2>1, <2>2, <2>3
<1>6. Behind(g, r, T, g, f)
  BY <1>3, <1>4, <1>5 DEF Behind
<1> QED BY <1>1, <1>6

LEMMA ReceiveListKeeps ==
  ASSUME PaneInv, D!ReceiveList
  PROVE  PaneInv' /\ \A p : Behind(p, push, term, view.pane, view.fence) => Behind(p, push', term, view'.pane, view'.fence)
<1>1. PICK g, shown, f :
        /\ g = Head(push).gen
        /\ shown = (IF D!Fenced(view, g) THEN 0 ELSE g)
        /\ f = (IF g = 0 \/ g > view.fence THEN 0 ELSE view.fence)
        /\ IF shown = 0
           THEN view' = [D!WithoutPane(view) EXCEPT !.fence = f] /\ up' = up
           ELSE view' = [D!WithPane(view, g) EXCEPT !.fence = f] /\ up' = Append(up, D!Say("ready", g, 0))
  BY DEF D!ReceiveList
<1>2. /\ push # <<>> /\ Head(push).kind = "list" /\ push' = Tail(push)
      /\ UNCHANGED <<document, documentReady, term, asking, replies, hist>>
  BY DEF D!ReceiveList
<1>3. IsSeq(push) /\ IsSeq(push') /\ view.stage = "listed" /\ RosterOrder(push, term) /\ RosterOrder(push', term)
  BY <1>2, TailFacts, OrderTail DEF PaneInv, FieldsOK, DocsOK, RosterOK
<1>4. 1 \in Lists(push) /\ push[1].gen = g /\ g \in Nat /\ g <= term.gen /\ view.fence \in Nat
  BY <1>1, <1>2, <1>3, ListsTail DEF RosterOrder, PaneInv, RosterOK
<1>5. PICK v : /\ v = (IF shown = 0 THEN D!WithoutPane(view) ELSE D!WithPane(view, g))
               /\ view' = [v EXCEPT !.fence = f]
  BY <1>1
<1>6. shown # 0 => shown = g
  BY <1>1
<1>7. DOMAIN v = ViewFields /\ v.doc = view.doc /\ v.stage = view.stage /\ v.pane = shown /\ v.closing = view.closing
  BY <1>5, <1>6, ViewKeeps DEF PaneInv, FieldsOK
<1>8. /\ DOMAIN view' = ViewFields /\ view'.doc = view.doc /\ view'.stage = view.stage /\ view'.pane = shown
      /\ view'.closing = view.closing /\ view'.fence = f
  BY <1>5, <1>7 DEF ViewFields
<1>9. shown = IF view.fence # 0 /\ g <= view.fence THEN 0 ELSE g
  BY <1>1 DEF D!Fenced
<1>10. view.fence # 0 => view.pane = 0
  BY DEF PaneInv, RosterOK
<1>11. ASSUME NEW p, Behind(p, push, term, view.pane, view.fence)
       PROVE  Behind(p, push', term, shown, f)
  <2>1. /\ p \in Nat \ {0} /\ p <= term.gen /\ (view.pane # p => Gone(term, p))
        /\ g # 0 => g >= p
        /\ g = 0 => Gone(term, p) /\ \A j \in Lists(push) : j > 1 /\ push[j].gen # 0 => push[j].gen > p
    BY <1>4, <1>11 DEF Behind
  <2>2. shown = 0 \/ shown >= p
    BY <1>6, <2>1
  <2>3. shown # p => Gone(term, p)
    <3>1. CASE g = 0
      BY <2>1, <3>1
    <3>2. CASE g # 0 /\ shown = 0
      <4>1. view.pane = 0
        BY <1>4, <1>9, <1>10, <3>2
      <4> QED BY <2>1, <4>1
    <3>3. CASE shown = g /\ g # p /\ g # 0
      <4>1. p < g
        BY <1>4, <2>1, <3>3
      <4>2. p < term.gen
        BY <1>4, <2>1, <4>1 DEF PaneInv, RosterOK
      <4> QED BY <4>2 DEF Gone
    <3> QED BY <1>6, <3>1, <3>2, <3>3
  <2>4. ASSUME NEW j \in Lists(push), j > 1, push[j].gen = p, shown # p
        PROVE  f >= p /\ \A k \in Lists(push) : k > 1 /\ k < j => push[k].gen # 0 /\ push[k].gen <= f
    <3>1. g # 0
      BY <2>1, <2>4
    <3>2. g <= p
      BY <1>3, <1>4, <2>1, <2>4, <3>1 DEF RosterOrder
    <3>3. g = p
      BY <1>4, <2>1, <3>1, <3>2
    <3>4. view.fence # 0 /\ g <= view.fence /\ f = view.fence /\ view.pane # p
      BY <1>1, <1>4, <1>9, <1>10, <2>1, <2>4, <3>3
    <3> QED BY <1>11, <2>4, <3>4 DEF Behind
  <2> QED BY <1>2, <1>3, <1>11, <2>2, <2>3, <2>4, BehindTail
<1>12. shown # 0 => Behind(shown, push', term, shown, f) /\ f = 0
  <2> SUFFICES ASSUME shown # 0 PROVE Behind(shown, push', term, shown, f) /\ f = 0
    OBVIOUS
  <2>1. shown = g /\ g # 0 /\ f = 0
    BY <1>1, <1>4, <1>9
  <2>2. Behind(g, push', term, g, f)
    BY <1>1, <1>2, <1>3, <2>1, BehindFirst
  <2> QED BY <2>1, <2>2
<1>13. hist.closed # 0 => shown # hist.closed
  <2> SUFFICES ASSUME hist.closed # 0, shown = hist.closed PROVE FALSE
    OBVIOUS
  <2>1. Behind(hist.closed, push, term, view.pane, view.fence) /\ view.pane # hist.closed
    BY DEF PaneInv, RosterOK
  <2>2. push[1].gen = hist.closed /\ shown = g
    BY <1>4, <1>6
  <2>3. view.fence >= hist.closed
    BY <1>4, <2>1, <2>2 DEF Behind
  <2> QED BY <1>4, <1>9, <2>2, <2>3
<1>14. f \in Nat
  BY <1>1, <1>4
<1>15. RosterOK'
  BY <1>2, <1>3, <1>8, <1>11, <1>12, <1>13, <1>14 DEF PaneInv, RosterOK
<1>16. SaysAtMost
  <2>1. D!Say("ready", g, 0).doc = view.doc /\ D!Say("ready", g, 0).kind = "ready"
    BY DEF D!Say
  <2> QED BY <1>1, <1>3, <1>8, <2>1 DEF SaysAtMost
<1>17. /\ IsSeq(up')
       /\ \A m \in Mails(up') : m \in Mails(up) \/ (m.doc = view.doc /\ (m.kind = "ready" => view'.stage = "listed"))
       /\ CloseTokens(up', replies, asking, view.doc, view.closing)
       /\ BootTokens(up', replies, view.doc, view.stage)
  BY <1>8, <1>16, SaysFacts DEF PaneInv
<1>18. FieldsOK'
  BY <1>2, <1>3, <1>8, <1>17 DEF PaneInv, FieldsOK
<1>19. DocsOK'
  BY <1>2, <1>3, <1>8, <1>17 DEF PaneInv, DocsOK
<1>20. PaneInv'
  BY <1>2, <1>8, <1>15, <1>17, <1>18, <1>19 DEF PaneInv
<1> QED BY <1>8, <1>11, <1>20

-----------------------------------------------------------------------------
LEMMA PaneStart == D!Init => PaneInv
<1> SUFFICES ASSUME D!Init PROVE PaneInv
  OBVIOUS
<1>1. /\ document = 1 /\ documentReady = FALSE /\ term = D!NoTerm /\ asking = D!NotAsking /\ view = D!NewView(1)
      /\ push = <<>> /\ replies = {} /\ up = <<>> /\ hist = [shown |-> {}, retired |-> {}, closed |-> 0]
  BY DEF D!Init
<1>2. /\ DOMAIN term = TermFields /\ term.gen = 0 /\ asking.doc = 0 /\ DOMAIN hist = HistFields /\ hist.closed = 0
  BY <1>1 DEF D!NoTerm, D!NotAsking, TermFields, HistFields
<1>3. /\ DOMAIN view = ViewFields /\ view.doc = 1 /\ view.pane = 0 /\ view.closing = 0 /\ view.fence = 0
  BY <1>1 DEF D!NewView, ViewFields
<1>4. /\ \A k, d : Said(up, k, d) = {}
      /\ Mails(up) = {} /\ Answers(replies) = {} /\ Boots(replies) = {}
  BY <1>1, EmptyFacts DEF Said, Mails, Answers, Boots
<1>5. FieldsOK
  BY <1>1, <1>2, <1>3, EmptyFacts DEF FieldsOK
<1>6. DocsOK
  BY <1>1, <1>2, <1>3, <1>4 DEF DocsOK
<1>7. RosterOK
  BY <1>1, <1>2, <1>3, <1>4, NothingBehind DEF RosterOK
<1>8. CloseTokens(up, replies, asking, view.doc, view.closing) /\ BootTokens(up, replies, view.doc, view.stage)
  BY <1>2, <1>3, <1>4 DEF CloseTokens, BootTokens
<1> QED BY <1>5, <1>6, <1>7, <1>8 DEF PaneInv

LEMMA PaneStep == PaneInv /\ [D!Next]_D!vars => PaneInv'
<1> SUFFICES ASSUME PaneInv, [D!Next]_D!vars PROVE PaneInv'
  OBVIOUS
<1>1. CASE \/ D!SpawnBegin \/ D!SpawnEnd \/ D!PushList \/ D!Output \/ D!NativeExit \/ D!Release \/ D!Send \/ D!Replace
           \/ D!DropUntrusted \/ D!ListTerminals \/ D!ReadyHandshake \/ D!Acknowledge \/ D!CloseRequest
           \/ D!CloseDeclined \/ D!CloseConfirmed
  <2>1. MainStep
    BY <1>1, MainSteps DEF PaneInv, RosterOK
  <2>2. MainMail /\ Tokens'
    BY <1>1, <2>1, MainAnswers
  <2>3. FieldsOK' /\ DocsOK' /\ RosterOK'
    BY <2>1, <2>2, MainKeeps
  <2> QED BY <2>2, <2>3 DEF PaneInv, Tokens
<1>2. CASE D!Crash \/ D!ReceiveRecord \/ D!Consume
  BY <1>2, PlainSteps
<1>3. CASE D!Load
  BY <1>3, LoadKeeps
<1>4. CASE D!BootRequest
  BY <1>4, BootRequestKeeps
<1>5. CASE D!BootReply
  BY <1>5, BootReplyKeeps
<1>6. CASE D!ClosePane
  BY <1>6, ClosePaneKeeps
<1>7. CASE D!CloseReply
  BY <1>7, CloseReplyKeeps
<1>8. CASE D!ReceiveList
  BY <1>8, ReceiveListKeeps
<1>9. CASE UNCHANGED D!vars
  <2>1. UNCHANGED <<document, documentReady, term, spawning, asking, view, push, replies, up, pushes, hist>>
    BY <1>9 DEF D!vars
  <2> QED BY <2>1 DEF PaneInv, FieldsOK, DocsOK, RosterOK
<1> QED BY <1>1, <1>2, <1>3, <1>4, <1>5, <1>6, <1>7, <1>8, <1>9 DEF D!Next, D!Main, D!Renderer

LEMMA PaneSafe == PaneInv => ClosedStaysClosed
<1> SUFFICES ASSUME PaneInv, view.pane # 0 PROVE view.pane > hist.closed
  BY DEF ClosedStaysClosed
<1>1. hist.closed \in Nat /\ view.pane \in Nat \ {0} /\ (hist.closed # 0 => view.pane >= hist.closed /\ view.pane # hist.closed)
  BY DEF PaneInv, RosterOK, Behind
<1> QED BY <1>1

(* A pane the user closed does not come back with a roster push that was   *)
(* queued before the close, whatever documents come and go, however many   *)
(* lives the terminal id has (closingPanes, onInstances in src/main.ts).   *)
THEOREM ClosedPaneStaysClosed == D!Spec => []ClosedStaysClosed
<1>1. D!Init => PaneInv
  BY PaneStart
<1>2. PaneInv /\ [D!Next]_D!vars => PaneInv'
  BY PaneStep
<1>3. PaneInv => ClosedStaysClosed
  BY PaneSafe
<1> QED BY <1>1, <1>2, <1>3, PTL DEF D!Spec
-----------------------------------------------------------------------------
(* What a document shows of one life of a terminal is one run of its        *)
(* records.  The ledger admits records in order (LedgerOK), whatever holes  *)
(* the records that arrive leave.                                           *)

LedgerFields == {"init", "contiguous", "finished", "exitAt", "gaps"}

Waits(G, s) == \A x \in G : x.seq \in Nat /\ x.seq > s

LedgerOK(l) ==
  /\ DOMAIN l = LedgerFields /\ l.contiguous \in Nat /\ Waits(l.gaps, l.contiguous)
  /\ \A x, y \in l.gaps : x.seq = y.seq => x = y
  /\ \E B \in Nat : \A x \in l.gaps : x.seq <= B
  /\ ~l.init => l.gaps = {} /\ ~l.finished /\ l.exitAt = 0

\* A set of numbers below a bound has a largest one.
LEMMA LargestBelow ==
  ASSUME NEW E \in SUBSET Nat, NEW a \in E, NEW B \in Nat, \A e \in E : e <= B
  PROVE  \E m \in E : \A e \in E : e <= m
<1>2. PICK M : M = {m \in Nat : \A e \in E : e <= m}
  OBVIOUS
<1>3. M \subseteq Nat /\ M # {}
  BY <1>2
<1>4. PICK m \in M : \A k \in M : m <= k
  BY <1>3, LeastNat
<1>5. m \in Nat /\ \A e \in E : e <= m
  BY <1>2
<1>6. \A k \in M : k \in Nat /\ ~(k < m)
  BY <1>3, <1>4, <1>5
<1>7. CASE m \notin E
  <2>1. \A e \in E : e <= m - 1
    BY <1>5, <1>7
  <2>2. m - 1 \in Nat
    BY <1>5, <1>7
  <2>3. m - 1 \in M
    BY <1>2, <2>1, <2>2
  <2>4. m - 1 < m
    BY <1>5
  <2> QED BY <1>6, <2>3, <2>4
<1> QED BY <1>5, <1>7

FirstRun(out, G, s) ==
  \E n \in Nat : /\ out \in [1 .. n -> G]
                 /\ \A i \in 1 .. n : out[i].seq = s + i
                 /\ \A x \in G : x.seq <= s + n => \E i \in 1 .. n : out[i] = x

LEMMA RunFacts ==
  ASSUME NEW G, NEW s \in Nat, Waits(G, s), \A x, y \in G : x.seq = y.seq => x = y,
         NEW B \in Nat, \A x \in G : x.seq <= B,
         NEW out, out = D!Ordered(D!Following(G, s), s)
  PROVE  FirstRun(out, G, s)
<1>1. PICK F : F = D!Following(G, s)
  OBVIOUS
<1>2. \A r : r \in F <=> /\ r \in G
                         /\ \A k \in (s + 1) .. r.seq : \E x \in G : x.seq = k
                         /\ \A x \in G : x.seq < r.seq => x.kind # "exit"
  BY <1>1 DEF D!Following
<1>3. PICK E : E = {s} \cup {r.seq : r \in F}
  OBVIOUS
<1>4. \E e \in E : \A r \in F : r.seq <= e
  <2>1. E \subseteq Nat /\ s \in E
    BY <1>2, <1>3 DEF Waits
  <2>2. PICK C \in Nat : C >= s /\ C >= B
    OBVIOUS
  <2>3. \A e \in E : e <= C
    BY <1>2, <1>3, <2>2 DEF Waits
  <2>4. \E e \in E : \A d \in E : d <= e
    BY <2>1, <2>2, <2>3, LargestBelow
  <2> QED BY <1>3, <2>4
<1>5. PICK e : e = CHOOSE d \in E : \A r \in F : r.seq <= d
  OBVIOUS
<1>6. e \in E /\ \A r \in F : r.seq <= e
  BY <1>4, <1>5
<1>7. e \in Nat /\ e >= s
  BY <1>2, <1>3, <1>6 DEF Waits
<1>8. PICK n : n = e - s
  OBVIOUS
<1>9. n \in Nat /\ s + n = e
  BY <1>7, <1>8
<1>10. out = [i \in 1 .. n |-> CHOOSE r \in F : r.seq = s + i]
  BY <1>1, <1>3, <1>5, <1>8 DEF D!Ordered
<1>11. ASSUME NEW i \in 1 .. n PROVE \E r \in F : r.seq = s + i
  <2>1. PICK r \in F : r.seq = e
    BY <1>3, <1>6, <1>9, <1>11
  <2>2. s + i \in (s + 1) .. r.seq /\ s + i <= r.seq
    BY <1>9, <1>11, <2>1
  <2>3. PICK x \in G : x.seq = s + i
    BY <1>2, <2>1, <2>2
  <2>4. x \in F
    <3>1. \A k \in (s + 1) .. x.seq : k \in (s + 1) .. r.seq
      BY <1>7, <2>1, <2>2, <2>3
    <3>2. \A y \in G : y.seq < x.seq => y.seq < r.seq
      BY <1>7, <2>1, <2>2, <2>3 DEF Waits
    <3> QED BY <1>2, <2>1, <3>1, <3>2
  <2> QED BY <2>3, <2>4
<1>12. \A i \in 1 .. n : out[i] \in F /\ out[i].seq = s + i
  BY <1>10, <1>11
<1>13. out \in [1 .. n -> G]
  BY <1>2, <1>10, <1>12
<1>14. ASSUME NEW x \in G, x.seq <= s + n PROVE \E i \in 1 .. n : out[i] = x
  <2>1. PICK i : i = x.seq - s
    OBVIOUS
  <2>2. i \in 1 .. n /\ x.seq = s + i
    BY <1>9, <1>14, <2>1 DEF Waits
  <2>3. out[i] \in G /\ out[i].seq = x.seq
    BY <1>2, <1>12, <2>2
  <2> QED BY <2>2, <2>3
<1> QED BY <1>9, <1>12, <1>13, <1>14 DEF FirstRun

LEMMA PairFacts ==
  ASSUME NEW A, NEW r \in A, NEW s \in Seq(A)
  PROVE  /\ <<r>> \o s \in Seq(A) /\ Len(s) \in Nat /\ Len(<<r>> \o s) = Len(s) + 1
         /\ (<<r>> \o s)[1] = r /\ \A i \in 1 .. Len(s) : (<<r>> \o s)[i + 1] = s[i]
<1>1. <<r>> \in Seq(A) /\ Len(<<r>>) = 1 /\ <<r>>[1] = r
  OBVIOUS
<1> QED BY <1>1

LEMMA StartedFacts ==
  ASSUME NEW q, LedgerOK(q), NEW r, r.seq \in Nat \ {0}, NEW l, l = D!Started(q, r)
  PROVE  /\ LedgerOK(l) /\ l.init /\ l.contiguous = IF q.init THEN q.contiguous ELSE r.seq - 1
         /\ ~q.init => l.gaps = {} /\ ~l.finished /\ l.exitAt = 0
<1>1. CASE q.init
  BY <1>1 DEF D!Started
<1>2. CASE ~q.init
  <2>1. l = [q EXCEPT !.init = TRUE, !.contiguous = r.seq - 1]
    BY <1>2 DEF D!Started
  <2>2. /\ DOMAIN l = LedgerFields /\ l.init /\ l.contiguous = r.seq - 1 /\ l.gaps = q.gaps /\ l.finished = q.finished
        /\ l.exitAt = q.exitAt
    BY <2>1 DEF LedgerOK, LedgerFields
  <2>3. q.gaps = {} /\ ~q.finished /\ q.exitAt = 0
    BY <1>2 DEF LedgerOK
  <2> QED BY <1>2, <2>2, <2>3 DEF LedgerOK, Waits
<1> QED BY <1>1, <1>2

LEMMA AdmitFacts ==
  ASSUME NEW l, LedgerOK(l), l.init, NEW r, r.seq = l.contiguous + 1, \A x \in l.gaps : x.seq # r.seq,
         NEW v, v = D!Admit(l, r)
  PROVE  /\ LedgerOK(v.ledger) /\ v.ledger.init
         /\ \E n \in Nat : /\ IsSeq(v.records) /\ DOMAIN v.records = 1 .. n + 1
                           /\ \A i \in 1 .. n + 1 : v.records[i].seq = l.contiguous + i
                           /\ v.ledger.contiguous = l.contiguous + (n + 1)
<1>1. PICK G, s : G = l.gaps /\ s = r.seq
  OBVIOUS
<1>2. s \in Nat /\ Waits(G, s) /\ l.contiguous \in Nat
  BY <1>1 DEF LedgerOK, Waits
<1>3. PICK B \in Nat : \A x \in G : x.seq <= B
  BY <1>1 DEF LedgerOK
<1>4. PICK tl : tl = (IF r.kind = "exit" THEN <<>> ELSE D!Ordered(D!Following(G, s), s))
  OBVIOUS
<1>5. PICK n \in Nat : /\ tl \in [1 .. n -> G]
                       /\ \A i \in 1 .. n : tl[i].seq = s + i
                       /\ r.kind # "exit" => \A x \in G : x.seq <= s + n => \E i \in 1 .. n : tl[i] = x
  <2>1. CASE r.kind = "exit"
    <3>1. tl = <<>>
      BY <1>4, <2>1
    <3>2. tl \in [1 .. 0 -> G]
      BY <3>1
    <3>3. \A i \in 1 .. 0 : FALSE
      OBVIOUS
    <3> QED BY <2>1, <3>2, <3>3
  <2>2. CASE r.kind # "exit"
    <3>1. tl = D!Ordered(D!Following(G, s), s)
      BY <1>4, <2>2
    <3>2. \A x, y \in G : x.seq = y.seq => x = y
      BY <1>1 DEF LedgerOK
    <3>3. FirstRun(tl, G, s)
      BY <1>2, <1>3, <3>1, <3>2, RunFacts
    <3> QED BY <3>3 DEF FirstRun
  <2> QED BY <2>1, <2>2
<1>6. PICK A : A = G \cup {r}
  OBVIOUS
<1>7. r \in A /\ tl \in Seq(A) /\ Len(tl) = n
  <2>1. tl \in [1 .. n -> A]
    BY <1>5, <1>6
  <2> QED BY <1>6, <2>1
<1>8. PICK out : out = <<r>> \o tl
  OBVIOUS
<1>9. /\ out \in Seq(A) /\ Len(out) = n + 1 /\ out[1] = r /\ \A i \in 1 .. n : out[i + 1] = tl[i]
  BY <1>7, <1>8, PairFacts
<1>10. DOMAIN out = 1 .. n + 1
  BY <1>9
<1>11. \A i \in 1 .. n + 1 : out[i].seq = l.contiguous + i
  <2> SUFFICES ASSUME NEW i \in 1 .. n + 1 PROVE out[i].seq = l.contiguous + i
    OBVIOUS
  <2>1. CASE i = 1
    BY <1>9, <2>1
  <2>2. CASE i # 1
    <3>1. PICK j : j = i - 1
      OBVIOUS
    <3>2. j \in 1 .. n /\ i = j + 1
      BY <2>2, <3>1
    <3>3. out[i] = tl[j] /\ tl[j].seq = s + j
      BY <1>5, <1>9, <3>2
    <3> QED BY <1>1, <1>2, <3>2, <3>3
  <2> QED BY <2>1, <2>2
<1>12. PICK last : last = out[Len(out)]
  OBVIOUS
<1>13. last.seq = l.contiguous + (n + 1)
  BY <1>9, <1>11, <1>12
<1>14. PICK m, H : /\ H = (IF last.kind = "exit" THEN {} ELSE G \ Range(out))
                   /\ m = [l EXCEPT !.contiguous = last.seq, !.finished = last.kind = "exit", !.gaps = H]
  OBVIOUS
<1>15. v.ledger = m /\ v.records = out
  <2>1. out = <<r>> \o (IF r.kind = "exit" THEN <<>> ELSE D!Ordered(D!Following(l.gaps, r.seq), r.seq))
    BY <1>1, <1>4, <1>8
  <2>2. D!Range(out) = Range(out)
    BY DEF D!Range, Range
  <2>3. PICK k : k = [l EXCEPT !.contiguous = last.seq, !.finished = last.kind = "exit",
                               !.gaps = IF last.kind = "exit" THEN {} ELSE @ \ D!Range(out)]
    OBVIOUS
  <2>4. v = D!Verdict(k, "accepted", out)
    BY <1>12, <2>1, <2>3, Zenon DEF D!Admit
  <2>5. k = m
    BY <1>1, <1>14, <2>2, <2>3
  <2> QED BY <2>4, <2>5 DEF D!Verdict
<1>16. /\ DOMAIN m = LedgerFields /\ m.contiguous = last.seq /\ m.gaps = H /\ m.init
  BY <1>14 DEF LedgerOK, LedgerFields
<1>17. Waits(H, last.seq)
  <2> SUFFICES ASSUME NEW x \in H PROVE x.seq \in Nat /\ x.seq > last.seq
    BY DEF Waits
  <2>1. x \in G /\ x \notin Range(out) /\ last.kind # "exit" /\ x.seq \in Nat
    BY <1>2, <1>14 DEF Waits
  <2>2. CASE r.kind = "exit"
    <3>1. n = 0
      <4>1. tl = <<>> /\ Len(tl) = 0
        BY <1>4, <2>2
      <4> QED BY <1>7, <4>1
    <3>2. last = r
      BY <1>9, <1>12, <3>1
    <3> QED BY <2>1, <2>2, <3>2
  <2>3. CASE r.kind # "exit"
    <3>1. \A i \in 1 .. n : tl[i] # x
      <4> SUFFICES ASSUME NEW i \in 1 .. n, tl[i] = x PROVE FALSE
        OBVIOUS
      <4>1. out[i + 1] = x /\ i + 1 \in DOMAIN out
        BY <1>9, <1>10
      <4> QED BY <2>1, <4>1 DEF Range
    <3>2. ~(x.seq <= s + n)
      BY <1>5, <2>1, <2>3, <3>1
    <3> QED BY <1>1, <1>2, <1>13, <2>1, <3>2
  <2> QED BY <2>2, <2>3
<1>18. H \subseteq G
  BY <1>14
<1>19. LedgerOK(m)
  <2>1. \A x, y \in H : x.seq = y.seq => x = y
    BY <1>1, <1>18 DEF LedgerOK
  <2>2. \A x \in H : x.seq <= B
    BY <1>3, <1>18
  <2>3. m.contiguous \in Nat
    BY <1>2, <1>13, <1>16
  <2> QED BY <1>3, <1>16, <1>17, <2>1, <2>2, <2>3 DEF LedgerOK
<1> QED BY <1>9, <1>10, <1>11, <1>13, <1>15, <1>16, <1>19 DEF IsSeq

\* The answer v of the ledger q hands on the records that follow seq s.
HandsOn(v, q, s) ==
  /\ LedgerOK(v.ledger) /\ v.ledger.init
  /\ \E n \in Nat : /\ IsSeq(v.records) /\ DOMAIN v.records = 1 .. n
                    /\ \A i \in 1 .. n : v.records[i].seq = s + i
                    /\ v.ledger.contiguous = s + n
                    /\ q.init \/ n # 0

\* What accept hands to the terminal view follows what it handed before.
LEMMA AcceptFacts ==
  ASSUME MaxGap \in Nat \ {0}, NEW q, LedgerOK(q), NEW r, r.seq \in Nat \ {0}, NEW v, v = D!Accept(q, r),
         NEW s, s = IF q.init THEN q.contiguous ELSE r.seq - 1
  PROVE  HandsOn(v, q, s)
<1> SUFFICES /\ LedgerOK(v.ledger) /\ v.ledger.init
             /\ \E n \in Nat : /\ IsSeq(v.records) /\ DOMAIN v.records = 1 .. n
                               /\ \A i \in 1 .. n : v.records[i].seq = s + i
                               /\ v.ledger.contiguous = s + n
                               /\ q.init \/ n # 0
  BY DEF HandsOn
<1>1. PICK l : l = D!Started(q, r)
  OBVIOUS
<1>2. /\ LedgerOK(l) /\ l.init /\ l.contiguous = s /\ s \in Nat
      /\ ~q.init => l.gaps = {} /\ ~l.finished /\ l.exitAt = 0
  <2>1. /\ LedgerOK(l) /\ l.init /\ l.contiguous = IF q.init THEN q.contiguous ELSE r.seq - 1
        /\ ~q.init => l.gaps = {} /\ ~l.finished /\ l.exitAt = 0
    BY <1>1, StartedFacts
  <2> QED BY <2>1 DEF LedgerOK
<1>3. ASSUME NEW m, LedgerOK(m), m.init, m.contiguous = s, q.init, v.ledger = m, v.records = <<>>
      PROVE  /\ LedgerOK(v.ledger) /\ v.ledger.init
             /\ \E n \in Nat : /\ IsSeq(v.records) /\ DOMAIN v.records = 1 .. n
                               /\ \A i \in 1 .. n : v.records[i].seq = s + i
                               /\ v.ledger.contiguous = s + n
                               /\ q.init \/ n # 0
  <2>1. IsSeq(<<>>) /\ DOMAIN <<>> = 1 .. 0
    BY EmptyFacts
  <2>2. s + 0 = s
    BY <1>2
  <2> QED BY <1>3, <2>1, <2>2
<1>4. \/ v = D!Verdict(l, "duplicate", <<>>) /\ (r.seq <= l.contiguous \/ \E x \in l.gaps : x.seq = r.seq)
      \/ /\ \A x \in l.gaps : x.seq # r.seq
         /\ ~(r.seq <= l.contiguous)
         /\ \/ /\ v = D!Verdict(l, "rejected", <<>>)
               /\ l.finished \/ l.exitAt # 0 \/ r.seq - l.contiguous > MaxGap
            \/ /\ r.seq - l.contiguous > 1
               /\ \E a : v = D!Verdict([l EXCEPT !.gaps = @ \cup {r}, !.exitAt = a], "buffered", <<>>)
            \/ ~(r.seq - l.contiguous > 1) /\ v = D!Admit(l, r)
  BY <1>1, Zenon DEF D!Accept
<1>5. CASE v = D!Verdict(l, "duplicate", <<>>) /\ (r.seq <= l.contiguous \/ \E x \in l.gaps : x.seq = r.seq)
  <2>1. q.init
    BY <1>2, <1>5
  <2>2. v.ledger = l /\ v.records = <<>>
    BY <1>5 DEF D!Verdict
  <2> QED BY <1>2, <1>3, <2>1, <2>2
<1>6. CASE v = D!Verdict(l, "rejected", <<>>) /\ (l.finished \/ l.exitAt # 0 \/ r.seq - l.contiguous > MaxGap)
  <2>1. q.init
    <3> SUFFICES ASSUME ~q.init PROVE FALSE
      OBVIOUS
    <3>1. r.seq - l.contiguous = 1
      BY <1>2
    <3> QED BY <1>2, <1>6, <3>1
  <2>2. v.ledger = l /\ v.records = <<>>
    BY <1>6 DEF D!Verdict
  <2> QED BY <1>2, <1>3, <2>1, <2>2
<1>7. CASE /\ \A x \in l.gaps : x.seq # r.seq
           /\ r.seq - l.contiguous > 1
           /\ \E a : v = D!Verdict([l EXCEPT !.gaps = @ \cup {r}, !.exitAt = a], "buffered", <<>>)
  <2>1. q.init
    <3> SUFFICES ASSUME ~q.init PROVE FALSE
      OBVIOUS
    <3>1. r.seq - l.contiguous = 1
      BY <1>2
    <3> QED BY <1>7, <3>1
  <2>2. PICK a, m : m = [l EXCEPT !.gaps = @ \cup {r}, !.exitAt = a] /\ v = D!Verdict(m, "buffered", <<>>)
    BY <1>7
  <2>3. v.ledger = m /\ v.records = <<>>
    BY <2>2 DEF D!Verdict
  <2>4. DOMAIN m = LedgerFields /\ m.contiguous = s /\ m.init /\ m.gaps = l.gaps \cup {r}
    BY <1>2, <2>2 DEF LedgerOK, LedgerFields
  <2>5. LedgerOK(m)
    <3>1. Waits(m.gaps, s) /\ \A x, y \in m.gaps : x.seq = y.seq => x = y
      BY <1>2, <1>7, <2>4 DEF LedgerOK, Waits
    <3>2. PICK B \in Nat : \A x \in l.gaps : x.seq <= B
      BY <1>2 DEF LedgerOK
    <3>3. PICK C \in Nat : C >= B /\ C >= r.seq
      OBVIOUS
    <3>4. \A x \in m.gaps : x.seq <= C
      <4> SUFFICES ASSUME NEW x \in m.gaps PROVE x.seq <= C
        OBVIOUS
      <4>1. CASE x = r
        BY <3>3, <4>1
      <4>2. CASE x # r
        <5>1. x \in l.gaps /\ x.seq \in Nat
          BY <1>2, <2>4, <4>2 DEF LedgerOK, Waits
        <5> QED BY <3>2, <3>3, <5>1
      <4> QED BY <4>1, <4>2
    <3> QED BY <1>2, <2>4, <3>1, <3>3, <3>4 DEF LedgerOK
  <2> QED BY <1>3, <2>1, <2>3, <2>4, <2>5
<1>8. CASE /\ \A x \in l.gaps : x.seq # r.seq
           /\ ~(r.seq <= l.contiguous) /\ ~(r.seq - l.contiguous > 1) /\ v = D!Admit(l, r)
  <2>1. r.seq = l.contiguous + 1 /\ LedgerOK(l) /\ l.init
    BY <1>2, <1>8
  <2>6. (\A x \in l.gaps : x.seq # r.seq) /\ v = D!Admit(l, r)
    BY <1>8
  <2>2. /\ LedgerOK(v.ledger) /\ v.ledger.init
        /\ \E n \in Nat : /\ IsSeq(v.records) /\ DOMAIN v.records = 1 .. n + 1
                          /\ \A i \in 1 .. n + 1 : v.records[i].seq = l.contiguous + i
                          /\ v.ledger.contiguous = l.contiguous + (n + 1)
    BY <2>1, <2>6, AdmitFacts
  <2>3. PICK n \in Nat : /\ IsSeq(v.records) /\ DOMAIN v.records = 1 .. n + 1
                         /\ \A i \in 1 .. n + 1 : v.records[i].seq = l.contiguous + i
                         /\ v.ledger.contiguous = l.contiguous + (n + 1)
    BY <2>2
  <2>4. PICK m : m = n + 1
    OBVIOUS
  <2>5. m \in Nat /\ m # 0
    BY <2>4
  <2> QED BY <1>2, <2>2, <2>3, <2>4, <2>5
<1> QED BY <1>4, <1>5, <1>6, <1>7, <1>8
-----------------------------------------------------------------------------
(* Records in sequence order *)

LEMMA ConcatFacts ==
  ASSUME NEW s, IsSeq(s), NEW t, IsSeq(t)
  PROVE  /\ IsSeq(s \o t) /\ Len(s) \in Nat /\ Len(t) \in Nat /\ Len(s \o t) = Len(s) + Len(t)
         /\ DOMAIN s = 1 .. Len(s) /\ DOMAIN t = 1 .. Len(t) /\ DOMAIN (s \o t) = 1 .. Len(s) + Len(t)
         /\ \A i \in 1 .. Len(s) : (s \o t)[i] = s[i]
         /\ \A i \in 1 .. Len(t) : (s \o t)[Len(s) + i] = t[i]
<1>1. PICK A : s \in Seq(A)
  BY DEF IsSeq
<1>2. PICK B : t \in Seq(B)
  BY DEF IsSeq
<1>3. PICK C : C = A \cup B
  OBVIOUS
<1>4. s \in Seq(C) /\ t \in Seq(C)
  <2>1. /\ Len(s) \in Nat /\ DOMAIN s = 1 .. Len(s) /\ \A i \in 1 .. Len(s) : s[i] \in C
    BY <1>1, <1>3
  <2>2. s = [i \in 1 .. Len(s) |-> s[i]]
    BY <1>1
  <2>3. /\ Len(t) \in Nat /\ DOMAIN t = 1 .. Len(t) /\ \A i \in 1 .. Len(t) : t[i] \in C
    BY <1>2, <1>3
  <2>4. t = [i \in 1 .. Len(t) |-> t[i]]
    BY <1>2
  <2>5. s \in Seq(C)
    BY <2>1, <2>2
  <2>6. t \in Seq(C)
    BY <2>3, <2>4
  <2> QED BY <2>5, <2>6
<1>5. s \o t \in Seq(C)
  BY <1>4
<1>6. /\ Len(s) \in Nat /\ Len(t) \in Nat /\ Len(s \o t) = Len(s) + Len(t)
      /\ \A i \in 1 .. Len(s) + Len(t) : (s \o t)[i] = IF i <= Len(s) THEN s[i] ELSE t[i - Len(s)]
  BY <1>4
<1>7. DOMAIN s = 1 .. Len(s) /\ DOMAIN t = 1 .. Len(t) /\ DOMAIN (s \o t) = 1 .. Len(s) + Len(t)
  BY <1>4, <1>5, <1>6
<1>8. PICK m, n, r : m = Len(s) /\ n = Len(t) /\ r = s \o t
  OBVIOUS
<1>9. m \in Nat /\ n \in Nat /\ \A i \in 1 .. m + n : r[i] = IF i <= m THEN s[i] ELSE t[i - m]
  BY <1>6, <1>8
<1>10. \A i \in 1 .. m : r[i] = s[i]
  BY <1>9
<1>11. \A i \in 1 .. n : r[m + i] = t[i]
  <2> SUFFICES ASSUME NEW i \in 1 .. n PROVE r[m + i] = t[i]
    OBVIOUS
  <2>1. PICK j : j = m + i
    OBVIOUS
  <2>2. j \in 1 .. m + n /\ ~(j <= m) /\ j - m = i
    BY <1>9, <2>1
  <2> QED BY <1>9, <2>1, <2>2
<1> QED BY <1>5, <1>6, <1>7, <1>8, <1>10, <1>11 DEF IsSeq

Rising(s) ==
  /\ IsSeq(s)
  /\ \A i \in DOMAIN s : s[i].seq \in Nat \ {0}
  /\ \A i, j \in DOMAIN s : i < j => s[i].seq < s[j].seq

LEMMA RisingEmpty == Rising(<<>>) /\ D!Seqs(<<>>) = {}
BY EmptyFacts DEF Rising, D!Seqs

LEMMA RisingAppend ==
  ASSUME NEW s, Rising(s), NEW m, m.seq \in Nat \ {0}, \A a \in D!Seqs(s) : a < m.seq
  PROVE  Rising(Append(s, m)) /\ D!Seqs(Append(s, m)) = D!Seqs(s) \cup {m.seq}
<1>1. PICK r, n : r = Append(s, m) /\ n = Len(s)
  OBVIOUS
<1>2. /\ IsSeq(r) /\ n \in Nat /\ DOMAIN s = 1 .. n /\ DOMAIN r = 1 .. n + 1
      /\ \A i \in 1 .. n : r[i] = s[i]
      /\ r[n + 1] = m
  BY <1>1, AppendFacts DEF Rising
<1>3. \A i \in 1 .. n : s[i].seq \in D!Seqs(s)
  BY <1>2 DEF D!Seqs
<1>4. \A i \in DOMAIN r : r[i].seq \in Nat \ {0}
  BY <1>2 DEF Rising
<1>5. \A i, j \in DOMAIN r : i < j => r[i].seq < r[j].seq
  <2> SUFFICES ASSUME NEW i \in DOMAIN r, NEW j \in DOMAIN r, i < j PROVE r[i].seq < r[j].seq
    OBVIOUS
  <2>1. i \in 1 .. n /\ r[i] = s[i]
    BY <1>2
  <2>2. CASE j \in 1 .. n
    BY <1>2, <2>1, <2>2 DEF Rising
  <2>3. CASE j \notin 1 .. n
    <3>1. j = n + 1
      BY <1>2, <2>3
    <3> QED BY <1>2, <1>3, <2>1, <3>1
  <2> QED BY <2>2, <2>3
<1>6. D!Seqs(r) = D!Seqs(s) \cup {m.seq}
  <2>1. DOMAIN r = DOMAIN s \cup {n + 1}
    BY <1>2
  <2> QED BY <1>2, <2>1 DEF D!Seqs
<1> QED BY <1>1, <1>2, <1>4, <1>5, <1>6 DEF Rising

LEMMA RisingTail ==
  ASSUME NEW s, Rising(s), s # <<>>
  PROVE  /\ Rising(Tail(s)) /\ Head(s).seq \in Nat \ {0}
         /\ D!Seqs(s) = D!Seqs(Tail(s)) \cup {Head(s).seq}
         /\ \A a \in D!Seqs(Tail(s)) : Head(s).seq < a
<1>1. PICK r, n : r = Tail(s) /\ n = Len(s)
  OBVIOUS
<1>2. /\ IsSeq(r) /\ n \in Nat \ {0} /\ DOMAIN s = 1 .. n /\ DOMAIN r = 1 .. n - 1
      /\ \A i \in 1 .. n - 1 : r[i] = s[i + 1]
      /\ Head(s) = s[1] /\ 1 \in DOMAIN s
  BY <1>1, TailFacts DEF Rising
<1>3. \A i \in 1 .. n - 1 : i + 1 \in 1 .. n /\ 1 < i + 1
  BY <1>2
<1>4. Rising(r)
  <2>1. \A i \in DOMAIN r : r[i].seq \in Nat \ {0}
    BY <1>2, <1>3 DEF Rising
  <2>2. \A i, j \in DOMAIN r : i < j => r[i].seq < r[j].seq
    <3> SUFFICES ASSUME NEW i \in DOMAIN r, NEW j \in DOMAIN r, i < j PROVE r[i].seq < r[j].seq
      OBVIOUS
    <3>1. PICK a, b : a = i + 1 /\ b = j + 1
      OBVIOUS
    <3>2. a \in DOMAIN s /\ b \in DOMAIN s /\ a < b /\ r[i] = s[a] /\ r[j] = s[b]
      BY <1>2, <1>3, <3>1
    <3> QED BY <3>2 DEF Rising
  <2> QED BY <1>2, <2>1, <2>2 DEF Rising
<1>5. \A i \in DOMAIN r : s[1].seq < r[i].seq
  <2> SUFFICES ASSUME NEW i \in DOMAIN r PROVE s[1].seq < r[i].seq
    OBVIOUS
  <2>1. PICK a : a = i + 1
    OBVIOUS
  <2>2. a \in DOMAIN s /\ 1 < a /\ r[i] = s[a]
    BY <1>2, <1>3, <2>1
  <2> QED BY <1>2, <2>2 DEF Rising
<1>6. \A i \in 1 .. n : i = 1 \/ \E j \in 1 .. n - 1 : r[j] = s[i]
  <2> SUFFICES ASSUME NEW i \in 1 .. n, i # 1 PROVE \E j \in 1 .. n - 1 : r[j] = s[i]
    OBVIOUS
  <2>1. PICK j : j = i - 1
    OBVIOUS
  <2>2. j \in 1 .. n - 1 /\ j + 1 = i
    BY <1>2, <2>1
  <2> QED BY <1>2, <2>2
<1>7. D!Seqs(s) = D!Seqs(r) \cup {s[1].seq}
  <2>1. D!Seqs(s) \subseteq D!Seqs(r) \cup {s[1].seq}
    <3> SUFFICES ASSUME NEW i \in 1 .. n PROVE s[i].seq \in D!Seqs(r) \cup {s[1].seq}
      BY <1>2 DEF D!Seqs
    <3>1. CASE i = 1
      BY <3>1
    <3>2. CASE i # 1
      <4>1. PICK j \in 1 .. n - 1 : r[j] = s[i]
        BY <1>6, <3>2
      <4>2. r[j].seq \in D!Seqs(r)
        BY <1>2 DEF D!Seqs
      <4> QED BY <4>1, <4>2
    <3> QED BY <3>1, <3>2
  <2>2. D!Seqs(r) \cup {s[1].seq} \subseteq D!Seqs(s)
    BY <1>2, <1>3 DEF D!Seqs
  <2> QED BY <2>1, <2>2
<1>8. \A a \in D!Seqs(r) : s[1].seq < a
  BY <1>5 DEF D!Seqs
<1>9. s[1].seq \in Nat \ {0}
  BY <1>2 DEF Rising
<1> QED BY <1>1, <1>2, <1>4, <1>7, <1>8, <1>9

LEMMA RisingConcat ==
  ASSUME NEW s, Rising(s), NEW t, Rising(t), \A a \in D!Seqs(s), b \in D!Seqs(t) : a < b
  PROVE  Rising(s \o t) /\ D!Seqs(s \o t) = D!Seqs(s) \cup D!Seqs(t)
<1>1. PICK r, m, n : r = s \o t /\ m = Len(s) /\ n = Len(t)
  OBVIOUS
<1>2. /\ IsSeq(r) /\ m \in Nat /\ n \in Nat
      /\ DOMAIN s = 1 .. m /\ DOMAIN t = 1 .. n /\ DOMAIN r = 1 .. m + n
      /\ \A i \in 1 .. m : r[i] = s[i]
      /\ \A i \in 1 .. n : r[m + i] = t[i]
  BY <1>1, ConcatFacts DEF Rising
<1>3. \A k \in 1 .. m + n : k \in 1 .. m \/ \E i \in 1 .. n : k = m + i
  <2> SUFFICES ASSUME NEW k \in 1 .. m + n, k \notin 1 .. m PROVE \E i \in 1 .. n : k = m + i
    OBVIOUS
  <2>1. PICK i : i = k - m
    OBVIOUS
  <2>2. i \in 1 .. n /\ k = m + i
    BY <1>2, <2>1
  <2> QED BY <2>2
<1>4. \A i \in 1 .. m : s[i].seq \in D!Seqs(s)
  BY <1>2 DEF D!Seqs
<1>5. \A i \in 1 .. n : t[i].seq \in D!Seqs(t)
  BY <1>2 DEF D!Seqs
<1>6. \A k \in DOMAIN r : r[k].seq \in Nat \ {0}
  <2> SUFFICES ASSUME NEW k \in DOMAIN r PROVE r[k].seq \in Nat \ {0}
    OBVIOUS
  <2>1. CASE k \in 1 .. m
    BY <1>2, <2>1 DEF Rising
  <2>2. CASE k \notin 1 .. m
    <3>1. PICK i \in 1 .. n : k = m + i
      BY <1>2, <1>3, <2>2
    <3>2. r[k] = t[i]
      BY <1>2, <3>1
    <3> QED BY <1>2, <3>2 DEF Rising
  <2> QED BY <2>1, <2>2
<1>7. \A k, l \in DOMAIN r : k < l => r[k].seq < r[l].seq
  <2> SUFFICES ASSUME NEW k \in DOMAIN r, NEW l \in DOMAIN r, k < l PROVE r[k].seq < r[l].seq
    OBVIOUS
  <2>1. CASE l \in 1 .. m
    <3>1. k \in 1 .. m
      BY <1>2, <2>1
    <3> QED BY <1>2, <2>1, <3>1 DEF Rising
  <2>2. CASE l \notin 1 .. m
    <3>1. PICK j \in 1 .. n : l = m + j
      BY <1>2, <1>3, <2>2
    <3>2. r[l] = t[j]
      BY <1>2, <3>1
    <3>3. CASE k \in 1 .. m
      BY <1>2, <1>4, <1>5, <3>2, <3>3
    <3>4. CASE k \notin 1 .. m
      <4>1. PICK i \in 1 .. n : k = m + i
        BY <1>2, <1>3, <3>4
      <4>2. r[k] = t[i] /\ i < j
        BY <1>2, <3>1, <4>1
      <4> QED BY <1>2, <3>2, <4>2 DEF Rising
    <3> QED BY <3>3, <3>4
  <2> QED BY <2>1, <2>2
<1>8. D!Seqs(r) = D!Seqs(s) \cup D!Seqs(t)
  <2>1. \A i \in 1 .. n : m + i \in 1 .. m + n
    BY <1>2
  <2>2. \A i \in 1 .. m : i \in 1 .. m + n
    BY <1>2
  <2>3. D!Seqs(s) \subseteq D!Seqs(r)
    <3> SUFFICES ASSUME NEW i \in 1 .. m PROVE s[i].seq \in D!Seqs(r)
      BY <1>2 DEF D!Seqs
    <3>1. r[i].seq \in D!Seqs(r) /\ r[i] = s[i]
      BY <1>2, <2>2 DEF D!Seqs
    <3> QED BY <3>1
  <2>4. D!Seqs(t) \subseteq D!Seqs(r)
    <3> SUFFICES ASSUME NEW i \in 1 .. n PROVE t[i].seq \in D!Seqs(r)
      BY <1>2 DEF D!Seqs
    <3>1. PICK k : k = m + i
      OBVIOUS
    <3>2. r[k].seq \in D!Seqs(r) /\ r[k] = t[i]
      BY <1>2, <2>1, <3>1 DEF D!Seqs
    <3> QED BY <3>2
  <2>5. D!Seqs(r) \subseteq D!Seqs(s) \cup D!Seqs(t)
    <3> SUFFICES ASSUME NEW k \in 1 .. m + n PROVE r[k].seq \in D!Seqs(s) \cup D!Seqs(t)
      BY <1>2 DEF D!Seqs
    <3>1. CASE k \in 1 .. m
      BY <1>2, <1>4, <3>1
    <3>2. CASE k \notin 1 .. m
      <4>1. PICK i \in 1 .. n : k = m + i
        BY <1>3, <3>2
      <4> QED BY <1>2, <1>5, <4>1
    <3> QED BY <3>1, <3>2
  <2> QED BY <2>3, <2>4, <2>5
<1> QED BY <1>1, <1>2, <1>6, <1>7, <1>8 DEF Rising

LEMMA RisingRemove ==
  ASSUME NEW s, Rising(s), NEW i \in DOMAIN s
  PROVE  /\ Rising(RemoveAt(s, i)) /\ D!Seqs(RemoveAt(s, i)) \subseteq D!Seqs(s)
         /\ D!Seqs(s) \subseteq D!Seqs(RemoveAt(s, i)) \cup {s[i].seq}
<1>1. PICK A : s \in Seq(A)
  BY DEF Rising, IsSeq
<1>2. PICK r, n : r = RemoveAt(s, i) /\ n = Len(s)
  OBVIOUS
<1>3. n \in Nat /\ DOMAIN s = 1 .. n /\ i \in 1 .. n
  BY <1>1, <1>2
<1>4. r \in Seq(A) /\ Len(r) = n - 1 /\ \A j \in 1 .. n - 1 : r[j] = IF j < i THEN s[j] ELSE s[j + 1]
  <2>1. PICK k : k = i
    OBVIOUS
  <2>2. /\ RemoveAt(s, k) \in Seq(A) /\ Len(RemoveAt(s, k)) = Len(s) - 1
        /\ \A j \in 1 .. Len(s) - 1 : RemoveAt(s, k)[j] = IF j < k THEN s[j] ELSE s[j + 1]
    BY <1>1, <1>2, <1>3, <2>1, RemoveAtProperties
  <2> QED BY <1>2, <2>1, <2>2
<1>5. IsSeq(r) /\ DOMAIN r = 1 .. n - 1
  BY <1>4 DEF IsSeq
<1>6. \A j \in 1 .. n - 1 : \E k \in 1 .. n : r[j] = s[k] /\ k = IF j < i THEN j ELSE j + 1
  <2> SUFFICES ASSUME NEW j \in 1 .. n - 1 PROVE \E k \in 1 .. n : r[j] = s[k] /\ k = IF j < i THEN j ELSE j + 1
    OBVIOUS
  <2>1. PICK k : k = IF j < i THEN j ELSE j + 1
    OBVIOUS
  <2>2. k \in 1 .. n
    BY <1>3, <2>1
  <2> QED BY <1>4, <2>1, <2>2
<1>7. Rising(r)
  <2>1. \A j \in DOMAIN r : r[j].seq \in Nat \ {0}
    BY <1>3, <1>5, <1>6 DEF Rising
  <2>2. \A j, l \in DOMAIN r : j < l => r[j].seq < r[l].seq
    <3> SUFFICES ASSUME NEW j \in DOMAIN r, NEW l \in DOMAIN r, j < l PROVE r[j].seq < r[l].seq
      OBVIOUS
    <3>1. PICK a \in 1 .. n : r[j] = s[a] /\ a = IF j < i THEN j ELSE j + 1
      BY <1>5, <1>6
    <3>2. PICK b \in 1 .. n : r[l] = s[b] /\ b = IF l < i THEN l ELSE l + 1
      BY <1>5, <1>6
    <3>3. a < b
      BY <1>3, <1>5, <3>1, <3>2
    <3> QED BY <1>3, <3>1, <3>2, <3>3 DEF Rising
  <2> QED BY <1>5, <2>1, <2>2 DEF Rising
<1>8. D!Seqs(r) \subseteq D!Seqs(s)
  BY <1>3, <1>5, <1>6 DEF D!Seqs
<1>9. \A k \in 1 .. n : k = i \/ \E j \in 1 .. n - 1 : r[j] = s[k]
  <2> SUFFICES ASSUME NEW k \in 1 .. n, k # i PROVE \E j \in 1 .. n - 1 : r[j] = s[k]
    OBVIOUS
  <2>1. CASE k < i
    <3>1. k \in 1 .. n - 1
      BY <1>3, <2>1
    <3> QED BY <1>4, <2>1, <3>1
  <2>2. CASE k > i
    <3>1. PICK j : j = k - 1
      OBVIOUS
    <3>2. j \in 1 .. n - 1 /\ j + 1 = k /\ ~(j < i)
      BY <1>3, <2>2, <3>1
    <3> QED BY <1>4, <3>2
  <2> QED BY <1>3, <2>1, <2>2
<1>10. D!Seqs(s) \subseteq D!Seqs(r) \cup {s[i].seq}
  BY <1>3, <1>5, <1>9 DEF D!Seqs
<1> QED BY <1>2, <1>7, <1>8, <1>10
-----------------------------------------------------------------------------
(* The records main holds of the life T: they are in order, those in flight *)
(* before those that wait, and every earlier one is in R, which are retired. *)

LineOK(T, R) ==
  /\ T.next \in Nat \ {0} /\ Rising(T.queue) /\ Rising(T.flight)
  /\ \A a \in D!Seqs(T.queue) \cup D!Seqs(T.flight) : a < T.next
  /\ \A a \in D!Seqs(T.flight), b \in D!Seqs(T.queue) : a < b
  /\ T.live => T.gen # 0
  /\ T.closed \/ ~T.live => T.queue = <<>> /\ T.flight = <<>>
  /\ T.live /\ ~T.closed => \A k \in 1 .. T.next - 1 : k \in R \cup D!Seqs(T.queue) \cup D!Seqs(T.flight)

LEMMA LineFields ==
  ASSUME NEW T, NEW U, NEW R, LineOK(T, R), NEW Q, R \subseteq Q,
         U.queue = T.queue, U.flight = T.flight, U.next = T.next, U.live = T.live, U.gen = T.gen, U.closed = T.closed
  PROVE  LineOK(U, Q)
BY DEF LineOK

LEMMA LineDetached ==
  ASSUME NEW T, DOMAIN T = TermFields, NEW R, LineOK(T, R)
  PROVE  LineOK(D!Detached(T), R) /\ D!Detached(T).hydrated = FALSE /\ D!Detached(T).flight = <<>>
<1>1. PICK U : U = D!Detached(T)
  OBVIOUS
<1>2. /\ U.hydrated = FALSE /\ U.flight = <<>> /\ U.queue = T.flight \o T.queue
      /\ U.next = T.next /\ U.live = T.live /\ U.gen = T.gen /\ U.closed = T.closed
  BY <1>1 DEF D!Detached, TermFields
<1>3. Rising(U.queue) /\ D!Seqs(U.queue) = D!Seqs(T.flight) \cup D!Seqs(T.queue)
  BY <1>2, RisingConcat DEF LineOK
<1>4. Rising(U.flight) /\ D!Seqs(U.flight) = {}
  BY <1>2, RisingEmpty
<1>5. T.queue = <<>> /\ T.flight = <<>> => U.queue = <<>>
  <2> SUFFICES ASSUME T.queue = <<>>, T.flight = <<>> PROVE U.queue = <<>>
    OBVIOUS
  <2>1. U.queue = <<>> \o <<>>
    BY <1>2
  <2> QED BY <2>1
<1> QED BY <1>1, <1>2, <1>3, <1>4, <1>5 DEF LineOK

LEMMA LineWithExit ==
  ASSUME NEW T, DOMAIN T = TermFields, NEW R, LineOK(T, R), T.live, ~T.closed
  PROVE  LineOK(D!WithExit(T), R) /\ D!WithExit(T).hydrated = T.hydrated /\ D!WithExit(T).flight = T.flight
<1>1. CASE D!WithExit(T) = T
  BY <1>1
<1>2. CASE D!WithExit(T) # T
  <2>1. PICK U, m : /\ m = D!Rec("exit", T.next)
                    /\ U = [T EXCEPT !.exitQueued = TRUE, !.queue = <<m>>, !.next = @ + 1]
                    /\ D!WithExit(T) = U /\ T.queue = <<>> /\ T.flight = <<>>
    BY <1>2 DEF D!WithExit
  <2>2. /\ U.hydrated = T.hydrated /\ U.flight = T.flight /\ U.queue = <<m>>
        /\ U.next = T.next + 1 /\ U.live = T.live /\ U.gen = T.gen /\ U.closed = T.closed
    BY <2>1 DEF TermFields
  <2>3. m.seq = T.next
    BY <2>1 DEF D!Rec
  <2>4. <<m>> = Append(<<>>, m)
    OBVIOUS
  <2>5. \A a \in D!Seqs(<<>>) : a < m.seq
    BY RisingEmpty
  <2>6. m.seq \in Nat \ {0}
    BY <2>3 DEF LineOK
  <2>7. Rising(<<m>>) /\ D!Seqs(<<m>>) = {T.next}
    <3>1. Rising(Append(<<>>, m)) /\ D!Seqs(Append(<<>>, m)) = D!Seqs(<<>>) \cup {m.seq}
      BY <2>5, <2>6, RisingEmpty, RisingAppend
    <3> QED BY <2>3, <2>4, <3>1, RisingEmpty
  <2>8. D!Seqs(T.flight) = {} /\ D!Seqs(T.queue) = {}
    BY <2>1, RisingEmpty
  <2>9. T.next \in Nat \ {0}
    BY DEF LineOK
  <2>10. \A k \in 1 .. U.next - 1 : k \in R \cup {T.next}
    <3>1. \A k \in 1 .. T.next - 1 : k \in R
      BY <2>8 DEF LineOK
    <3> QED BY <2>2, <2>9, <3>1
  <2>11. Rising(T.flight)
    BY DEF LineOK
  <2> QED BY <2>1, <2>2, <2>7, <2>8, <2>9, <2>10, <2>11 DEF LineOK
<1> QED BY <1>1, <1>2

LEMMA LineRetire ==
  ASSUME NEW T, DOMAIN T = TermFields, NEW R, LineOK(T, R), NEW a \in D!Seqs(T.flight)
  PROVE  /\ LineOK(D!Retire(T, a), R \cup {a}) /\ D!Retire(T, a).hydrated = T.hydrated
         /\ D!Seqs(D!Retire(T, a).flight) \subseteq D!Seqs(T.flight) /\ T.flight # <<>> /\ T.live
<1>1. PICK i : i = CHOOSE j \in DOMAIN T.flight : T.flight[j].seq = a
  OBVIOUS
<1>2. i \in DOMAIN T.flight /\ T.flight[i].seq = a
  <2>1. \E j \in DOMAIN T.flight : T.flight[j].seq = a
    BY DEF D!Seqs
  <2> QED BY <1>1, <2>1
<1>3. PICK f, U : f = RemoveAt(T.flight, i) /\ U = [T EXCEPT !.flight = f]
  OBVIOUS
<1>4. D!Retire(T, a) = D!WithExit(U)
  <2>1. D!RemoveAt(T.flight, i) = f
    BY <1>3 DEF D!RemoveAt, RemoveAt
  <2> QED BY <1>1, <1>3, <2>1 DEF D!Retire
<1>5. Rising(f) /\ D!Seqs(f) \subseteq D!Seqs(T.flight) /\ D!Seqs(T.flight) \subseteq D!Seqs(f) \cup {a}
  <2>1. PICK s : s = T.flight
    OBVIOUS
  <2>2. Rising(s) /\ i \in DOMAIN s
    BY <1>2, <2>1 DEF LineOK
  <2>3. /\ Rising(RemoveAt(s, i)) /\ D!Seqs(RemoveAt(s, i)) \subseteq D!Seqs(s)
        /\ D!Seqs(s) \subseteq D!Seqs(RemoveAt(s, i)) \cup {s[i].seq}
    BY <2>2, RisingRemove
  <2> QED BY <1>2, <1>3, <2>1, <2>3
<1>6. /\ U.hydrated = T.hydrated /\ U.flight = f /\ U.queue = T.queue /\ DOMAIN U = TermFields
      /\ U.next = T.next /\ U.live = T.live /\ U.gen = T.gen /\ U.closed = T.closed
  BY <1>3 DEF TermFields
<1>7. T.flight # <<>> /\ T.live /\ ~T.closed
  BY RisingEmpty DEF LineOK
<1>8. LineOK(U, R \cup {a})
  <2>1. \A k \in 1 .. U.next - 1 : k \in (R \cup {a}) \cup D!Seqs(U.queue) \cup D!Seqs(U.flight)
    BY <1>5, <1>6, <1>7 DEF LineOK
  <2> QED BY <1>5, <1>6, <1>7, <2>1 DEF LineOK
<1>9. LineOK(D!WithExit(U), R \cup {a}) /\ D!WithExit(U).hydrated = U.hydrated /\ D!WithExit(U).flight = U.flight
  <2>1. PICK Q : Q = R \cup {a}
    OBVIOUS
  <2> QED BY <1>6, <1>7, <1>8, <2>1, LineWithExit
<1> QED BY <1>4, <1>5, <1>6, <1>7, <1>9

LEMMA LineOutput ==
  ASSUME NEW T, NEW R, LineOK(T, R), T.live, ~T.closed, NEW m, m.seq = T.next,
         NEW U, U.queue = Append(T.queue, m), U.next = T.next + 1, U.flight = T.flight,
         U.live = T.live, U.gen = T.gen, U.closed = T.closed
  PROVE  LineOK(U, R)
<1>1. /\ U.flight = T.flight /\ U.queue = Append(T.queue, m)
      /\ U.next = T.next + 1 /\ U.live = T.live /\ U.gen = T.gen /\ U.closed = T.closed
  OBVIOUS
<1>2. Rising(U.queue) /\ D!Seqs(U.queue) = D!Seqs(T.queue) \cup {T.next}
  <2>1. m.seq \in Nat \ {0} /\ \A a \in D!Seqs(T.queue) : a < m.seq
    BY DEF LineOK
  <2> QED BY <1>1, <2>1, RisingAppend DEF LineOK
<1>3. T.next \in Nat /\ \A a \in D!Seqs(T.queue) \cup D!Seqs(T.flight) : a \in Nat /\ a < T.next
  <2>1. \A s : Rising(s) => \A a \in D!Seqs(s) : a \in Nat
    BY DEF Rising, D!Seqs
  <2> QED BY <2>1 DEF LineOK
<1>4. \A k \in 1 .. U.next - 1 : k \in R \cup D!Seqs(U.queue) \cup D!Seqs(U.flight)
  <2> SUFFICES ASSUME NEW k \in 1 .. U.next - 1 PROVE k \in R \cup D!Seqs(U.queue) \cup D!Seqs(U.flight)
    OBVIOUS
  <2>1. k = T.next \/ k \in 1 .. T.next - 1
    BY <1>1, <1>3
  <2> QED BY <1>1, <1>2, <2>1 DEF LineOK
<1>5. \A a \in D!Seqs(U.queue) \cup D!Seqs(U.flight) : a < U.next
  BY <1>1, <1>2, <1>3
<1>6. \A a \in D!Seqs(U.flight), b \in D!Seqs(U.queue) : a < b
  BY <1>1, <1>2, <1>3 DEF LineOK
<1>7. U.next \in Nat \ {0}
  BY <1>1, <1>3
<1> QED BY <1>1, <1>2, <1>4, <1>5, <1>6, <1>7 DEF LineOK

\* The record a is in flight after it was the next of the line: those before
\* it are retired or in flight.
SentInTurn(T, U, R, a) ==
  /\ D!Seqs(U.flight) = D!Seqs(T.flight) \cup {a} /\ a \in Nat \ {0}
  /\ \A k \in 1 .. a - 1 : k \in R \cup D!Seqs(T.flight)

\* What is sent follows records that are retired or in flight.
LEMMA LineSend ==
  ASSUME NEW T, NEW R, LineOK(T, R), T.live, T.queue # <<>>, NEW h, h = Head(T.queue),
         NEW U, U.queue = Tail(T.queue), U.flight = Append(T.flight, h), U.next = T.next,
         U.live = T.live, U.gen = T.gen, U.closed = T.closed
  PROVE  LineOK(U, R) /\ SentInTurn(T, U, R, h.seq)
<1>1. /\ U.flight = Append(T.flight, h) /\ U.queue = Tail(T.queue)
      /\ U.next = T.next /\ U.live = T.live /\ U.gen = T.gen /\ U.closed = T.closed
  OBVIOUS
<1>2. /\ Rising(U.queue) /\ h.seq \in Nat \ {0}
      /\ D!Seqs(T.queue) = D!Seqs(U.queue) \cup {h.seq}
      /\ \A a \in D!Seqs(U.queue) : h.seq < a
  BY <1>1, RisingTail DEF LineOK
<1>3. \A s : Rising(s) => \A a \in D!Seqs(s) : a \in Nat
  BY DEF Rising, D!Seqs
<1>4. Rising(U.flight) /\ D!Seqs(U.flight) = D!Seqs(T.flight) \cup {h.seq}
  <2>1. \A a \in D!Seqs(T.flight) : a < h.seq
    BY <1>2 DEF LineOK
  <2> QED BY <1>1, <1>2, <2>1, RisingAppend DEF LineOK
<1>5. ~T.closed
  BY DEF LineOK
<1>6. \A k \in 1 .. h.seq - 1 : k \in R \cup D!Seqs(T.flight)
  <2> SUFFICES ASSUME NEW k \in 1 .. h.seq - 1 PROVE k \in R \cup D!Seqs(T.flight)
    OBVIOUS
  <2>1. h.seq < T.next /\ T.next \in Nat
    BY <1>2 DEF LineOK
  <2>2. k \in 1 .. T.next - 1 /\ k < h.seq
    BY <1>2, <2>1
  <2>3. k \in R \cup D!Seqs(T.queue) \cup D!Seqs(T.flight)
    BY <1>5, <2>2 DEF LineOK
  <2>4. k \notin D!Seqs(T.queue)
    BY <1>2, <1>3, <2>2
  <2> QED BY <2>3, <2>4
<1>7. LineOK(U, R)
  <2>1. \A k \in 1 .. U.next - 1 : k \in R \cup D!Seqs(U.queue) \cup D!Seqs(U.flight)
    BY <1>1, <1>2, <1>4, <1>5 DEF LineOK
  <2>2. \A a \in D!Seqs(U.queue) \cup D!Seqs(U.flight) : a < U.next
    BY <1>1, <1>2, <1>4 DEF LineOK
  <2>3. \A a \in D!Seqs(U.flight), b \in D!Seqs(U.queue) : a < b
    BY <1>1, <1>2, <1>4 DEF LineOK
  <2> QED BY <1>1, <1>2, <1>4, <1>5, <2>1, <2>2, <2>3 DEF LineOK
<1> QED BY <1>2, <1>4, <1>6, <1>7 DEF SentInTurn

LEMMA LineFresh ==
  ASSUME NEW T, T.next = 1, T.queue = <<>>, T.flight = <<>>, T.live => T.gen # 0, NEW R
  PROVE  LineOK(T, R)
<1>1. 1 .. T.next - 1 = {}
  OBVIOUS
<1> QED BY <1>1, RisingEmpty DEF LineOK

LEMMA LineClosed ==
  ASSUME NEW T, DOMAIN T = TermFields, NEW R, LineOK(T, R), NEW U, U = [D!Cancelled(T) EXCEPT !.closed = TRUE]
  PROVE  /\ LineOK(U, R) /\ U.hydrated = FALSE /\ U.flight = <<>> /\ U.live = T.live /\ U.gen = T.gen
         /\ DOMAIN U = TermFields
<1>1. PICK V : V = D!Cancelled(T)
  OBVIOUS
<1>2. /\ V.hydrated = FALSE /\ V.flight = <<>> /\ V.queue = <<>> /\ V.next = T.next /\ V.live = T.live
      /\ V.gen = T.gen /\ DOMAIN V = TermFields
  BY <1>1 DEF D!Cancelled, TermFields
<1>3. U = [V EXCEPT !.closed = TRUE]
  BY <1>1
<1>4. /\ U.hydrated = FALSE /\ U.flight = <<>> /\ U.queue = <<>> /\ U.next = T.next /\ U.live = T.live
      /\ U.gen = T.gen /\ U.closed = TRUE /\ DOMAIN U = TermFields
  BY <1>2, <1>3 DEF TermFields
<1>5. Rising(U.queue) /\ Rising(U.flight) /\ D!Seqs(U.queue) = {} /\ D!Seqs(U.flight) = {}
  BY <1>4, RisingEmpty
<1> QED BY <1>4, <1>5 DEF LineOK

LEMMA LineAttached ==
  ASSUME NEW T, DOMAIN T = TermFields, NEW R, LineOK(T, R), NEW g
  PROVE  /\ LineOK(D!Attached(T, g), R) /\ D!Attached(T, g).flight = T.flight
         /\ D!Attached(T, g).live = T.live /\ D!Attached(T, g).gen = T.gen
         /\ D!Attached(T, g).hydrated => T.hydrated \/ (T.live /\ T.gen = g)
<1>1. CASE T.live /\ ~T.closed /\ T.gen = g
  <2>1. PICK U : U = [T EXCEPT !.hydrated = TRUE]
    OBVIOUS
  <2>2. /\ U.flight = T.flight /\ U.queue = T.queue /\ U.next = T.next /\ U.live = T.live
        /\ U.gen = T.gen /\ U.closed = T.closed
    BY <2>1 DEF TermFields
  <2>3. D!Attached(T, g) = U
    BY <1>1, <2>1 DEF D!Attached
  <2>4. LineOK(U, R)
    BY <2>2, LineFields
  <2> QED BY <1>1, <2>2, <2>3, <2>4
<1>2. CASE ~(T.live /\ ~T.closed /\ T.gen = g)
  <2>1. D!Attached(T, g) = T
    BY <1>2, Zenon DEF D!Attached
  <2> QED BY <2>1
<1> QED BY <1>1, <1>2
-----------------------------------------------------------------------------
(* The records on their way to a view that has received none of the life it  *)
(* shows                                                                     *)

Recs(s) == {i \in DOMAIN s : s[i].kind = "record"}

\* The records F of life g are all in s, and those in s leave no hole: an
\* earlier one is in R, which are retired, or before them in s.
Ahead(s, F, g, R) ==
  /\ \A a \in F : \E j \in Recs(s) : s[j].gen = g /\ s[j].rec.seq = a
  /\ \A i \in Recs(s) : s[i].gen = g =>
       \A k \in 1 .. s[i].rec.seq - 1 :
         k \in R \/ \E j \in Recs(s) : j < i /\ s[j].gen = g /\ s[j].rec.seq = k

Fresh == view.alive /\ term.live /\ view.pane = term.gen /\ ~view.ledger.init

InTransit == Fresh => Ahead(push, D!Seqs(term.flight), term.gen, hist.retired)

\* What is sent, acknowledged or asked for is of lives the view knows of.
Known ==
  /\ \A m \in Mails(push) : m.kind = "record" =>
       Behind(m.gen, push, term, view.pane, view.fence) /\ m.rec.seq \in Nat \ {0}
  /\ \A m \in Mails(up) : m.kind = "ready" /\ m.doc = view.doc /\ m.gen # 0 =>
       Behind(m.gen, push, term, view.pane, view.fence)
  /\ term.hydrated \/ term.flight # <<>> =>
       documentReady /\ Behind(term.gen, push, term, view.pane, view.fence)
  /\ view.closing # 0 => view.fence = 0

LEMMA AheadLess ==
  ASSUME NEW s, NEW F, NEW g, NEW R, Ahead(s, F, g, R), NEW G, G \subseteq F, NEW Q, R \subseteq Q
  PROVE  Ahead(s, G, g, Q)
BY DEF Ahead

LEMMA AheadAppend ==
  ASSUME NEW s, IsSeq(s), NEW F, NEW g, NEW R, Ahead(s, F, g, R), NEW m, NEW G, NEW Q, R \subseteq Q,
         \/ m.kind # "record" /\ G \subseteq F
         \/ /\ m.kind = "record" /\ m.gen = g /\ G \subseteq F \cup {m.rec.seq}
            /\ \A k \in 1 .. m.rec.seq - 1 : k \in R \cup F
  PROVE  Ahead(Append(s, m), G, g, Q)
<1>1. PICK r, n : r = Append(s, m) /\ n = Len(s)
  OBVIOUS
<1>2. /\ n \in Nat /\ DOMAIN s = 1 .. n /\ DOMAIN r = 1 .. n + 1 /\ r[n + 1] = m
      /\ \A i \in 1 .. n : r[i] = s[i]
  BY <1>1, AppendFacts
<1>3. \A j \in Recs(s) : j \in Recs(r) /\ r[j] = s[j] /\ j \in 1 .. n
  BY <1>2 DEF Recs
<1>4. \A i \in Recs(r) : i \in Recs(s) \/ (i = n + 1 /\ m.kind = "record")
  BY <1>2 DEF Recs
<1>5. m.kind = "record" => n + 1 \in Recs(r)
  BY <1>2 DEF Recs
<1>6. \A a \in F : \E j \in Recs(r) : j \in 1 .. n /\ r[j].gen = g /\ r[j].rec.seq = a
  BY <1>3 DEF Ahead
<1>7. \A a \in G : \E j \in Recs(r) : r[j].gen = g /\ r[j].rec.seq = a
  <2> SUFFICES ASSUME NEW a \in G PROVE \E j \in Recs(r) : r[j].gen = g /\ r[j].rec.seq = a
    OBVIOUS
  <2>1. CASE a \in F
    BY <1>6, <2>1
  <2>2. CASE a \notin F
    <3>1. m.kind = "record" /\ m.gen = g /\ a = m.rec.seq
      BY <2>2
    <3>2. n + 1 \in Recs(r) /\ r[n + 1] = m
      BY <1>2, <1>5, <3>1
    <3> QED BY <3>1, <3>2
  <2> QED BY <2>1, <2>2
<1>8. ASSUME NEW i \in Recs(r), r[i].gen = g, NEW k \in 1 .. r[i].rec.seq - 1
      PROVE  k \in Q \/ \E j \in Recs(r) : j < i /\ r[j].gen = g /\ r[j].rec.seq = k
  <2>1. CASE i \in Recs(s)
    <3>1. r[i] = s[i]
      BY <1>3, <2>1
    <3>2. k \in R \/ \E j \in Recs(s) : j < i /\ s[j].gen = g /\ s[j].rec.seq = k
      BY <1>8, <2>1, <3>1 DEF Ahead
    <3> QED BY <1>3, <3>2
  <2>2. CASE i \notin Recs(s)
    <3>1. i = n + 1 /\ m.kind = "record" /\ r[i] = m
      BY <1>2, <1>4, <2>2
    <3>2. k \in R \cup F
      BY <1>8, <3>1
    <3>3. \A j \in 1 .. n : j < i
      BY <1>2, <3>1
    <3> QED BY <1>6, <3>2, <3>3
  <2> QED BY <2>1, <2>2
<1>9. Ahead(r, G, g, Q)
  BY <1>7, <1>8 DEF Ahead
<1> QED BY <1>1, <1>9

\* What is taken from the head is no record of the life.
LEMMA AheadTail ==
  ASSUME NEW s, IsSeq(s), s # <<>>, NEW F, NEW g, NEW R, Ahead(s, F, g, R),
         ~(Head(s).kind = "record" /\ Head(s).gen = g)
  PROVE  Ahead(Tail(s), F, g, R)
<1>1. PICK r, n : r = Tail(s) /\ n = Len(s)
  OBVIOUS
<1>2. /\ n \in Nat \ {0} /\ DOMAIN s = 1 .. n /\ DOMAIN r = 1 .. n - 1 /\ Head(s) = s[1]
      /\ \A i \in 1 .. n - 1 : r[i] = s[i + 1]
  BY <1>1, TailFacts
<1>3. \A i \in Recs(r) : i \in Nat \ {0} /\ i + 1 \in Recs(s) /\ r[i] = s[i + 1]
  <2>1. \A i \in 1 .. n - 1 : i + 1 \in 1 .. n /\ i \in Nat \ {0}
    BY <1>2
  <2> QED BY <1>2, <2>1 DEF Recs
<1>4. \A j \in Recs(s) : s[j].gen = g => \E i \in Recs(r) : j = i + 1
  <2> SUFFICES ASSUME NEW j \in Recs(s), s[j].gen = g PROVE \E i \in Recs(r) : j = i + 1
    OBVIOUS
  <2>1. j \in 1 .. n /\ j # 1
    BY <1>2 DEF Recs
  <2>2. PICK i : i = j - 1
    OBVIOUS
  <2>3. i \in 1 .. n - 1 /\ i + 1 = j
    BY <1>2, <2>1, <2>2
  <2>4. i \in Recs(r)
    BY <1>2, <2>3 DEF Recs
  <2> QED BY <2>3, <2>4
<1>5. \A a \in F : \E i \in Recs(r) : r[i].gen = g /\ r[i].rec.seq = a
  <2> SUFFICES ASSUME NEW a \in F PROVE \E i \in Recs(r) : r[i].gen = g /\ r[i].rec.seq = a
    OBVIOUS
  <2>1. PICK j \in Recs(s) : s[j].gen = g /\ s[j].rec.seq = a
    BY DEF Ahead
  <2>2. PICK i \in Recs(r) : j = i + 1
    BY <1>4, <2>1
  <2> QED BY <1>3, <2>1, <2>2
<1>6. ASSUME NEW i \in Recs(r), r[i].gen = g, NEW k \in 1 .. r[i].rec.seq - 1
      PROVE  k \in R \/ \E j \in Recs(r) : j < i /\ r[j].gen = g /\ r[j].rec.seq = k
  <2>1. PICK a : a = i + 1
    OBVIOUS
  <2>2. a \in Recs(s) /\ s[a] = r[i] /\ i \in Nat
    BY <1>3, <2>1
  <2>3. k \in R \/ \E b \in Recs(s) : b < a /\ s[b].gen = g /\ s[b].rec.seq = k
    BY <1>6, <2>2 DEF Ahead
  <2>4. ASSUME NEW b \in Recs(s), b < a, s[b].gen = g, s[b].rec.seq = k
        PROVE  \E j \in Recs(r) : j < i /\ r[j].gen = g /\ r[j].rec.seq = k
    <3>1. PICK j \in Recs(r) : b = j + 1
      BY <1>4, <2>4
    <3>2. j < i /\ r[j] = s[b]
      BY <1>3, <2>1, <2>2, <2>4, <3>1
    <3> QED BY <2>4, <3>2
  <2> QED BY <2>3, <2>4
<1>7. Ahead(r, F, g, R)
  BY <1>5, <1>6 DEF Ahead
<1> QED BY <1>1, <1>7

\* A push of another life, or none, is ahead of nothing.
LEMMA AheadNone ==
  ASSUME NEW s, NEW g, \A m \in Mails(s) : m.kind = "record" => m.gen # g, NEW R
  PROVE  Ahead(s, {}, g, R)
BY DEF Ahead, Recs, Mails

-----------------------------------------------------------------------------
\* A step of the main process keeps what is behind a life behind it.
LEMMA BehindMain ==
  ASSUME IsSeq(push), term.gen \in Nat, MainStep, NEW p, NEW x, NEW f, Behind(p, push, term, x, f)
  PROVE  Behind(p, push', term', x, f)
<1>1. Later(term, term')
  BY DEF MainStep
<1>2. CASE push' = push
  BY <1>1, <1>2 DEF Behind, Later
<1>3. CASE \E m : Sent1(m) /\ (m.kind = "list" => m.gen = D!Listed(term'))
  BY <1>1, <1>3, BehindAppend DEF Sent1
<1> QED BY <1>2, <1>3 DEF MainStep

LEMMA PushedLine ==
  ASSUME NEW T, DOMAIN T = TermFields, NEW R, LineOK(T, R), NEW x, NEW m, D!Pushed(T, x, m)
  PROVE  /\ LineOK(term', R) /\ term'.live = T.live /\ term'.gen = T.gen
         /\ D!Seqs(term'.flight) \subseteq D!Seqs(T.flight)
         /\ term'.hydrated \/ term'.flight # <<>> =>
              documentReady' = documentReady /\ (T.hydrated \/ T.flight # <<>>)
         /\ push' = push \/ push' = Append(push, m)
<1>1. \/ term' = T /\ documentReady' = documentReady /\ (push' = push \/ push' = Append(push, m))
      \/ term' = D!Detached(T) /\ push' = push
  BY DEF D!Pushed, D!Replaced
<1>2. CASE term' = T /\ documentReady' = documentReady /\ (push' = push \/ push' = Append(push, m))
  BY <1>2
<1>3. CASE term' = D!Detached(T) /\ push' = push
  <2>1. LineOK(term', R) /\ term'.hydrated = FALSE /\ term'.flight = <<>> /\ D!Seqs(term'.flight) = {}
    BY <1>3, LineDetached, RisingEmpty
  <2>2. term'.live = T.live /\ term'.gen = T.gen
    BY <1>3, TermKeeps DEF SameLife
  <2> QED BY <1>3, <2>1, <2>2
<1> QED BY <1>1, <1>2, <1>3

MainRun ==
  /\ LineOK(term', hist'.retired)
  /\ term'.live => \/ term.live /\ term'.gen = term.gen /\ hist.retired \subseteq hist'.retired
                   \/ term'.gen = term.gen + 1
  /\ term'.hydrated \/ term'.flight # <<>> =>
       documentReady' /\ term'.gen = term.gen /\ Behind(term.gen, push, term, view.pane, view.fence)
  /\ \/ push' = push /\ D!Seqs(term'.flight) \subseteq D!Seqs(term.flight)
     \/ \E m : push' = Append(push, m) /\ m.kind # "record" /\ D!Seqs(term'.flight) \subseteq D!Seqs(term.flight)
     \/ \E m : /\ push' = Append(push, m) /\ m.kind = "record" /\ m.gen = term.gen /\ m.rec.seq \in Nat \ {0}
               /\ Behind(term.gen, push, term, view.pane, view.fence)
               /\ D!Seqs(term'.flight) = D!Seqs(term.flight) \cup {m.rec.seq}
               /\ \A k \in 1 .. m.rec.seq - 1 : k \in hist.retired \cup D!Seqs(term.flight)

LEMMA KnownMain ==
  ASSUME PaneInv, MainStep, MainRun, Known, up' = up \/ (up # <<>> /\ up' = Tail(up))
  PROVE  Known'
<1>1. /\ IsSeq(push) /\ IsSeq(up) /\ term.gen \in Nat /\ view' = view
  BY DEF PaneInv, FieldsOK, RosterOK, MainStep
<1>2. ASSUME NEW p, Behind(p, push, term, view.pane, view.fence) PROVE Behind(p, push', term', view.pane, view.fence)
  <2>1. PICK x, f : x = view.pane /\ f = view.fence
    OBVIOUS
  <2> QED BY <1>1, <1>2, <2>1, BehindMain
<1>3. \A m \in Mails(push') : m.kind = "record" =>
         Behind(m.gen, push', term', view.pane, view.fence) /\ m.rec.seq \in Nat \ {0}
  <2> SUFFICES ASSUME NEW m \in Mails(push'), m.kind = "record"
               PROVE  Behind(m.gen, push, term, view.pane, view.fence) /\ m.rec.seq \in Nat \ {0}
    BY <1>2
  <2>1. CASE m \in Mails(push)
    BY <2>1 DEF Known
  <2>2. CASE m \notin Mails(push)
    <3>1. \A n : push' = Append(push, n) => m = n
      <4> SUFFICES ASSUME NEW n, push' = Append(push, n) PROVE m = n
        OBVIOUS
      <4>1. Mails(push') = Mails(push) \cup {n}
        BY <1>1, SaidAppend
      <4> QED BY <2>2, <4>1
    <3>2. push' # push
      BY <2>2
    <3> QED BY <3>1, <3>2 DEF MainRun
  <2> QED BY <2>1, <2>2
<1>4. \A m \in Mails(up') : m.kind = "ready" /\ m.doc = view.doc /\ m.gen # 0 =>
        Behind(m.gen, push', term', view.pane, view.fence)
  <2>1. Mails(up') \subseteq Mails(up)
    BY <1>1, SaidTail
  <2> QED BY <1>2, <2>1 DEF Known
<1>5. term'.hydrated \/ term'.flight # <<>> =>
        documentReady' /\ Behind(term'.gen, push', term', view.pane, view.fence)
  <2> SUFFICES ASSUME term'.hydrated \/ term'.flight # <<>>
               PROVE  documentReady' /\ Behind(term'.gen, push', term', view.pane, view.fence)
    OBVIOUS
  <2>1. documentReady' /\ term'.gen = term.gen /\ Behind(term.gen, push, term, view.pane, view.fence)
    BY DEF MainRun
  <2>2. Behind(term.gen, push', term', view.pane, view.fence)
    BY <1>2, <2>1
  <2> QED BY <2>1, <2>2
<1>6. view.closing # 0 => view.fence = 0
  BY DEF Known
<1> QED BY <1>1, <1>3, <1>4, <1>5, <1>6 DEF Known

LEMMA TransitMain == ASSUME PaneInv, MainStep, MainRun, InTransit, LineOK(term, hist.retired) PROVE InTransit'
<1> SUFFICES ASSUME view'.alive, term'.live, view'.pane = term'.gen, ~view'.ledger.init
             PROVE  Ahead(push', D!Seqs(term'.flight), term'.gen, hist'.retired)
  BY DEF InTransit, Fresh
<1>1. view' = view /\ IsSeq(push) /\ term.gen \in Nat
  BY DEF MainStep, PaneInv, FieldsOK, RosterOK
<1>2. term'.gen # term.gen + 1
  <2>1. view.pane # 0 => view.pane \in Nat /\ view.pane <= term.gen
    BY DEF PaneInv, RosterOK, Behind
  <2> QED BY <1>1, <2>1
<1>3. term.live /\ term'.gen = term.gen /\ hist.retired \subseteq hist'.retired
  BY <1>2 DEF MainRun
<1>4. PICK F, G, g, R, Q : /\ F = D!Seqs(term.flight) /\ G = D!Seqs(term'.flight) /\ g = term.gen
                           /\ R = hist.retired /\ Q = hist'.retired
  OBVIOUS
<1>5. Ahead(push, F, g, R) /\ R \subseteq Q
  BY <1>1, <1>3, <1>4 DEF InTransit, Fresh
<1>6. Ahead(push', G, g, Q)
  <2>1. CASE push' = push /\ G \subseteq F
    BY <1>5, <2>1, AheadLess
  <2>2. ASSUME NEW m, push' = Append(push, m),
               \/ m.kind # "record" /\ G \subseteq F
               \/ /\ m.kind = "record" /\ m.gen = g /\ G \subseteq F \cup {m.rec.seq}
                  /\ \A k \in 1 .. m.rec.seq - 1 : k \in R \cup F
        PROVE  Ahead(push', G, g, Q)
    BY <1>1, <1>5, <2>2, AheadAppend
  <2> QED BY <1>4, <2>1, <2>2 DEF MainRun
<1> QED BY <1>3, <1>4, <1>6
-----------------------------------------------------------------------------
LEMMA RunPlain ==
  ASSUME Known, LineOK(term', hist'.retired), term'.live = term.live, term'.gen = term.gen,
         hist.retired \subseteq hist'.retired, documentReady' = documentReady, push' = push,
         D!Seqs(term'.flight) \subseteq D!Seqs(term.flight),
         term'.hydrated \/ term'.flight # <<>> => term.hydrated \/ term.flight # <<>>
  PROVE  MainRun
BY DEF MainRun, Known

LEMMA RunPushed ==
  ASSUME Known, NEW T, DOMAIN T = TermFields, LineOK(T, hist'.retired), NEW x, D!Pushed(T, x, D!ListMsg(T)),
         T.live => \/ term.live /\ T.gen = term.gen /\ hist.retired \subseteq hist'.retired
                   \/ T.gen = term.gen + 1,
         D!Seqs(T.flight) \subseteq D!Seqs(term.flight),
         T.hydrated \/ T.flight # <<>> => T.gen = term.gen /\ (term.hydrated \/ term.flight # <<>>)
  PROVE  MainRun
<1>1. PICK m, R : m = D!ListMsg(T) /\ m.kind = "list" /\ R = hist'.retired
  BY ListMsgFacts
<1>2. /\ LineOK(term', R) /\ term'.live = T.live /\ term'.gen = T.gen
      /\ D!Seqs(term'.flight) \subseteq D!Seqs(T.flight)
      /\ term'.hydrated \/ term'.flight # <<>> =>
           documentReady' = documentReady /\ (T.hydrated \/ T.flight # <<>>)
      /\ push' = push \/ push' = Append(push, m)
  BY <1>1, PushedLine
<1>3. D!Seqs(term'.flight) \subseteq D!Seqs(term.flight)
  BY <1>2
<1>4. term'.hydrated \/ term'.flight # <<>> =>
        documentReady' /\ term'.gen = term.gen /\ Behind(term.gen, push, term, view.pane, view.fence)
  BY <1>2 DEF Known
<1>5. push' = push \/ \E n : push' = Append(push, n) /\ n.kind # "record"
  BY <1>1, <1>2
<1> QED BY <1>1, <1>2, <1>3, <1>4, <1>5 DEF MainRun

LEMMA MainRuns ==
  ASSUME PaneInv, LineOK(term, hist.retired), Known,
         \/ D!SpawnBegin \/ D!SpawnEnd \/ D!PushList \/ D!Output \/ D!NativeExit \/ D!Release \/ D!Send \/ D!Replace
         \/ D!DropUntrusted \/ D!ListTerminals \/ D!ReadyHandshake \/ D!Acknowledge \/ D!CloseRequest
         \/ D!CloseDeclined \/ D!CloseConfirmed
  PROVE  MainRun
<1>1. DOMAIN term = TermFields /\ DOMAIN hist = HistFields /\ term.gen \in Nat
  BY DEF PaneInv, FieldsOK, RosterOK
<1>2. CASE D!SpawnBegin \/ D!DropUntrusted \/ D!CloseRequest \/ D!CloseDeclined
  <2>1. term' = term /\ push' = push /\ hist' = hist /\ documentReady' = documentReady
    BY <1>2 DEF D!SpawnBegin, D!DropUntrusted, D!CloseRequest, D!CloseDeclined
  <2> QED BY <2>1, RunPlain
<1>3. CASE D!SpawnEnd
  <2>1. PICK T : /\ T = [D!NoTerm EXCEPT !.live = TRUE, !.gen = term.gen + 1, !.target = spawning]
                 /\ D!Pushed(T, spawning, D!ListMsg(T))
    BY <1>3 DEF D!SpawnEnd
  <2>2. /\ DOMAIN T = TermFields /\ T.gen = term.gen + 1 /\ T.next = 1 /\ T.queue = <<>> /\ T.flight = <<>>
        /\ T.hydrated = FALSE
    BY <2>1 DEF D!NoTerm, TermFields
  <2>3. T.gen # 0
    BY <1>1, <2>2
  <2>4. LineOK(T, hist'.retired)
    BY <2>2, <2>3, LineFresh
  <2>5. D!Seqs(T.flight) = {}
    BY <2>2, RisingEmpty
  <2> QED BY <2>1, <2>2, <2>4, <2>5, RunPushed
<1>4. CASE D!PushList \/ D!ListTerminals
  <2>1. hist' = hist /\ D!Pushed(term, document, D!ListMsg(term))
    BY <1>4 DEF D!PushList, D!ListTerminals
  <2> QED BY <1>1, <2>1, RunPushed
<1>5. CASE D!Output
  <2>1. /\ push' = push /\ hist' = hist /\ documentReady' = documentReady /\ term.live /\ ~term.closed
        /\ term' = [term EXCEPT !.queue = Append(@, D!Rec("data", term.next)), !.next = @ + 1]
    BY <1>5 DEF D!Output
  <2>2. PICK m, T, R, U : m = D!Rec("data", term.next) /\ T = term /\ R = hist.retired /\ U = term'
    OBVIOUS
  <2>3. m.seq = T.next
    BY <2>2 DEF D!Rec
  <2>4. /\ U.queue = Append(T.queue, m) /\ U.next = T.next + 1 /\ U.flight = T.flight
        /\ U.live = T.live /\ U.gen = T.gen /\ U.closed = T.closed /\ U.hydrated = T.hydrated
    BY <1>1, <2>1, <2>2 DEF TermFields
  <2>5. LineOK(T, R) /\ T.live /\ ~T.closed
    BY <2>1, <2>2
  <2>6. LineOK(U, R)
    BY <2>3, <2>4, <2>5, LineOutput
  <2> QED BY <2>1, <2>2, <2>4, <2>6, RunPlain
<1>6. CASE D!NativeExit
  <2>1. push' = push /\ hist' = hist /\ documentReady' = documentReady /\ term.live
    BY <1>6 DEF D!NativeExit
  <2>2. PICK T : T = [term EXCEPT !.closing = TRUE]
    OBVIOUS
  <2>3. /\ DOMAIN T = TermFields /\ T.hydrated = term.hydrated /\ T.flight = term.flight /\ T.queue = term.queue
        /\ T.next = term.next /\ T.live = term.live /\ T.gen = term.gen /\ T.closed = term.closed
    BY <1>1, <2>2 DEF TermFields
  <2>4. LineOK(T, hist.retired)
    BY <2>3, LineFields
  <2>5. term' = T \/ (~T.closed /\ term' = D!WithExit(T))
    BY <1>6, <2>2, <2>3 DEF D!NativeExit
  <2>6. /\ LineOK(term', hist.retired) /\ term'.hydrated = T.hydrated /\ term'.flight = T.flight
        /\ term'.live = T.live /\ term'.gen = T.gen
    <3>1. CASE term' = T
      BY <2>4, <3>1
    <3>2. CASE ~T.closed /\ term' = D!WithExit(T)
      <4>1. LineOK(term', hist.retired) /\ term'.hydrated = T.hydrated /\ term'.flight = T.flight
        BY <2>1, <2>3, <2>4, <3>2, LineWithExit
      <4>2. term'.live = T.live /\ term'.gen = T.gen
        BY <2>3, <3>2, TermKeeps DEF SameLife
      <4> QED BY <4>1, <4>2
    <3> QED BY <2>5, <3>1, <3>2
  <2> QED BY <2>1, <2>3, <2>6, RunPlain
<1>7. CASE D!Release
  <2>1. PICK T : T = [D!NoTerm EXCEPT !.gen = term.gen] /\ D!Pushed(T, term.target, D!ListMsg(T))
    BY <1>7 DEF D!Release
  <2>2. /\ DOMAIN T = TermFields /\ T.live = FALSE /\ T.next = 1 /\ T.queue = <<>> /\ T.flight = <<>>
        /\ T.hydrated = FALSE
    BY <2>1 DEF D!NoTerm, TermFields
  <2>3. LineOK(T, hist'.retired)
    BY <2>2, LineFresh
  <2>4. D!Seqs(T.flight) = {}
    BY <2>2, RisingEmpty
  <2> QED BY <2>1, <2>2, <2>3, <2>4, RunPushed
<1>8. CASE D!Send
  <2>1. hist' = hist /\ term.live /\ term.hydrated /\ term.queue # <<>>
    BY <1>8 DEF D!Send
  <2>2. CASE view.alive
    <3>1. PICK h, m : h = Head(term.queue) /\ m = D!RecMsg(h)
      OBVIOUS
    <3>2. /\ push' = Append(push, m) /\ documentReady' = documentReady
          /\ term' = [term EXCEPT !.queue = Tail(@), !.flight = Append(@, h)]
      BY <1>8, <2>2, <3>1 DEF D!Send
    <3>3. m.kind = "record" /\ m.gen = term.gen /\ m.rec.seq = h.seq
      BY <3>1 DEF D!RecMsg
    <3>4. PICK T, R, U : T = term /\ R = hist.retired /\ U = term'
      OBVIOUS
    <3>8. /\ U.queue = Tail(T.queue) /\ U.flight = Append(T.flight, h) /\ U.next = T.next
          /\ U.live = T.live /\ U.gen = T.gen /\ U.closed = T.closed /\ U.hydrated = T.hydrated
      BY <1>1, <3>2, <3>4 DEF TermFields
    <3>9. h = Head(T.queue) /\ LineOK(T, R) /\ T.live /\ T.queue # <<>>
      BY <2>1, <3>1, <3>4
    <3>10. LineOK(U, R) /\ SentInTurn(T, U, R, h.seq)
      BY <3>8, <3>9, LineSend
    <3>5. /\ LineOK(U, R)
          /\ D!Seqs(U.flight) = D!Seqs(T.flight) \cup {h.seq} /\ h.seq \in Nat \ {0}
          /\ \A k \in 1 .. h.seq - 1 : k \in R \cup D!Seqs(T.flight)
      BY <3>10 DEF SentInTurn
    <3>6. documentReady /\ Behind(term.gen, push, term, view.pane, view.fence)
      BY <2>1 DEF Known
    <3>7. /\ push' = Append(push, m) /\ m.kind = "record" /\ m.gen = term.gen /\ m.rec.seq \in Nat \ {0}
          /\ Behind(term.gen, push, term, view.pane, view.fence)
          /\ D!Seqs(term'.flight) = D!Seqs(term.flight) \cup {m.rec.seq}
          /\ \A k \in 1 .. m.rec.seq - 1 : k \in hist.retired \cup D!Seqs(term.flight)
      BY <3>2, <3>3, <3>4, <3>5, <3>6
    <3> QED BY <2>1, <3>2, <3>4, <3>5, <3>6, <3>7, <3>8 DEF MainRun
  <2>3. CASE ~view.alive
    <3>1. term' = D!Detached(term) /\ push' = push
      BY <1>8, <2>3 DEF D!Send, D!Replaced
    <3>2. LineOK(term', hist.retired) /\ term'.hydrated = FALSE /\ term'.flight = <<>> /\ D!Seqs(term'.flight) = {}
      BY <1>1, <3>1, LineDetached, RisingEmpty
    <3>3. term'.live = term.live /\ term'.gen = term.gen
      BY <1>1, <3>1, TermKeeps DEF SameLife
    <3> QED BY <2>1, <3>1, <3>2, <3>3 DEF MainRun
  <2> QED BY <2>2, <2>3
<1>9. CASE D!Replace
  <2>1. hist' = hist /\ term' = D!Detached(term) /\ push' = push
    BY <1>9 DEF D!Replace, D!Replaced
  <2>2. LineOK(term', hist.retired) /\ term'.hydrated = FALSE /\ term'.flight = <<>> /\ D!Seqs(term'.flight) = {}
    BY <1>1, <2>1, LineDetached, RisingEmpty
  <2>3. term'.live = term.live /\ term'.gen = term.gen
    BY <1>1, <2>1, TermKeeps DEF SameLife
  <2> QED BY <2>1, <2>2, <2>3 DEF MainRun
<1>10. CASE D!ReadyHandshake
  <2>1. PICK g : /\ g = Head(up).gen /\ hist' = hist /\ push' = push /\ documentReady' = TRUE /\ up # <<>>
                 /\ Head(up).kind = "ready" /\ Head(up).doc = document /\ term' = D!Attached(term, g)
    BY <1>10 DEF D!ReadyHandshake, D!TakeUp, D!Trusted
  <2>2. /\ LineOK(term', hist.retired) /\ term'.flight = term.flight /\ term'.live = term.live /\ term'.gen = term.gen
        /\ term'.hydrated => term.hydrated \/ (term.live /\ term.gen = g)
    BY <1>1, <2>1, LineAttached
  <2>3. term.live => term.gen # 0
    BY DEF LineOK
  <2>4. Head(up) \in Mails(up) /\ Head(up).doc = view.doc
    <3>1. IsSeq(up)
      BY DEF PaneInv, FieldsOK
    <3>2. Head(up) \in Mails(up)
      BY <2>1, <3>1, SaidTail
    <3> QED BY <2>1, <3>2 DEF PaneInv, DocsOK
  <2>5. g # 0 => Behind(g, push, term, view.pane, view.fence)
    BY <2>1, <2>4 DEF Known
  <2>6. term'.hydrated \/ term'.flight # <<>> => Behind(term.gen, push, term, view.pane, view.fence)
    BY <2>2, <2>3, <2>5 DEF Known
  <2> QED BY <2>1, <2>2, <2>6 DEF MainRun
<1>11. CASE D!Acknowledge
  <2>1. push' = push /\ documentReady' = documentReady
    BY <1>11 DEF D!Acknowledge
  <2>2. CASE term' = term /\ hist' = hist
    BY <2>1, <2>2, RunPlain
  <2>3. CASE ~(term' = term /\ hist' = hist)
    <3>1. PICK a : /\ a \in D!Seqs(term.flight) /\ term' = D!Retire(term, a)
                   /\ hist' = [hist EXCEPT !.retired = @ \cup {a}]
      BY <1>11, <2>3 DEF D!Acknowledge
    <3>2. hist'.retired = hist.retired \cup {a}
      BY <1>1, <3>1 DEF HistFields
    <3>3. /\ LineOK(D!Retire(term, a), hist.retired \cup {a}) /\ D!Retire(term, a).hydrated = term.hydrated
          /\ D!Seqs(D!Retire(term, a).flight) \subseteq D!Seqs(term.flight) /\ term.flight # <<>>
      BY <1>1, <3>1, LineRetire
    <3>4. term'.live = term.live /\ term'.gen = term.gen
      BY <1>1, <3>1, TermKeeps DEF SameLife
    <3>5. LineOK(term', hist'.retired)
      BY <3>1, <3>2, <3>3
    <3>6. hist.retired \subseteq hist'.retired
      BY <3>2
    <3> QED BY <2>1, <3>1, <3>3, <3>4, <3>5, <3>6, RunPlain
  <2> QED BY <2>2, <2>3
<1>12. CASE D!CloseConfirmed
  <2>1. PICK T : T = [D!Cancelled(term) EXCEPT !.closed = TRUE] /\ D!Pushed(T, document, D!ListMsg(T)) /\ hist' = hist
    BY <1>12 DEF D!CloseConfirmed
  <2>2. /\ LineOK(T, hist.retired) /\ T.hydrated = FALSE /\ T.flight = <<>> /\ T.live = term.live /\ T.gen = term.gen
        /\ DOMAIN T = TermFields
    BY <1>1, <2>1, LineClosed
  <2>3. D!Seqs(T.flight) = {}
    BY <2>2, RisingEmpty
  <2> QED BY <2>1, <2>2, <2>3, RunPushed
<1> QED BY <1>2, <1>3, <1>4, <1>5, <1>6, <1>7, <1>8, <1>9, <1>10, <1>11, <1>12
-----------------------------------------------------------------------------
(* The pane x shows, or is about to, the records from a on: its writes w are *)
(* the last ones, behind b of earlier lives.                                 *)

Run(x, w, s, a, b) ==
  /\ a \in Nat \ {0} /\ b \in Nat /\ b <= Len(w)
  /\ \A i \in 1 .. Len(w) : w[i].gen \in Nat
  /\ \A i \in 1 .. Len(w) : i <= b => w[i].gen < x
  /\ \A i \in 1 .. Len(w) : i > b => w[i].gen = x /\ w[i].seq = a + Len(s) + (i - b) - 1
  /\ \A i \in 1 .. Len(s) : s[i] = a + i - 1

Starts(v, T, R, a, b) ==
  /\ Run(v.pane, v.writes, v.shown, a, b)
  /\ ~v.ledger.init => v.shown = <<>> /\ b = Len(v.writes)
  /\ v.ledger.init => /\ v.ledger.contiguous = a + Len(v.shown) + (Len(v.writes) - b) - 1
                      /\ Len(v.shown) + (Len(v.writes) - b) > 0
  /\ v.ledger.init /\ T.live /\ v.pane = T.gen => \A k \in 1 .. a - 1 : k \in R

RunOK(v, T, R) ==
  /\ LedgerOK(v.ledger) /\ IsSeq(v.writes) /\ IsSeq(v.shown)
  /\ v.pane = 0 => ~v.ledger.init /\ v.writes = <<>>
  /\ \E a, b : Starts(v, T, R, a, b)

LEMMA NewLedgerFacts == LedgerOK(D!NewLedger) /\ ~D!NewLedger.init
<1>1. PICK l : l = D!NewLedger
  OBVIOUS
<1>2. /\ DOMAIN l = LedgerFields /\ ~l.init /\ l.contiguous = 0 /\ ~l.finished /\ l.exitAt = 0 /\ l.gaps = {}
  BY <1>1 DEF D!NewLedger, LedgerFields
<1> QED BY <1>1, <1>2 DEF LedgerOK, Waits

LEMMA RunIntro ==
  ASSUME NEW x, NEW w, NEW s, NEW a \in Nat \ {0}, NEW b \in Nat, NEW m, m = Len(w), NEW p, p = Len(s), b <= m,
         \A i \in 1 .. m : w[i].gen \in Nat /\ (i <= b => w[i].gen < x),
         \A i \in 1 .. m : i > b => w[i].gen = x /\ w[i].seq = a + p + (i - b) - 1,
         \A i \in 1 .. p : s[i] = a + i - 1
  PROVE  Run(x, w, s, a, b)
<1>1. \A i \in 1 .. Len(w) : i > b => w[i].gen = x /\ w[i].seq = a + Len(s) + (i - b) - 1
  OBVIOUS
<1> QED BY <1>1 DEF Run

LEMMA RunElim ==
  ASSUME NEW x, NEW w, NEW s, NEW a, NEW b, Run(x, w, s, a, b), NEW m, m = Len(w), NEW p, p = Len(s)
  PROVE  /\ a \in Nat \ {0} /\ b \in Nat /\ b <= m
         /\ \A i \in 1 .. m : w[i].gen \in Nat /\ (i <= b => w[i].gen < x)
         /\ \A i \in 1 .. m : i > b => w[i].gen = x /\ w[i].seq = a + p + (i - b) - 1
         /\ \A i \in 1 .. p : s[i] = a + i - 1
BY DEF Run

LEMMA LenFacts == \A s : IsSeq(s) => Len(s) \in Nat /\ DOMAIN s = 1 .. Len(s)
BY DEF IsSeq

LEMMA RunEmpty ==
  ASSUME NEW v, v.ledger = D!NewLedger, v.writes = <<>>, v.shown = <<>>, NEW T, NEW R
  PROVE  RunOK(v, T, R)
<1>1. /\ LedgerOK(v.ledger) /\ ~v.ledger.init /\ IsSeq(v.writes) /\ IsSeq(v.shown)
      /\ Len(v.writes) = 0 /\ Len(v.shown) = 0
  BY NewLedgerFacts, EmptyFacts
<1>2. PICK a, b : a = 1 /\ b = 0
  OBVIOUS
<1>3. Run(v.pane, v.writes, v.shown, a, b)
  BY <1>1, <1>2 DEF Run
<1>4. Starts(v, T, R, a, b)
  BY <1>1, <1>2, <1>3 DEF Starts
<1> QED BY <1>1, <1>4 DEF RunOK

LEMMA RunKeeps ==
  ASSUME NEW v, NEW T, NEW R, RunOK(v, T, R), NEW u, NEW U, NEW Q,
         u.pane = v.pane, u.ledger = v.ledger, u.writes = v.writes, u.shown = v.shown,
         U.live /\ v.pane = U.gen => T.live /\ v.pane = T.gen /\ R \subseteq Q
  PROVE  RunOK(u, U, Q)
<1>1. PICK a, b : Starts(v, T, R, a, b)
  BY DEF RunOK
<1>2. Starts(u, U, Q, a, b)
  BY <1>1 DEF Starts
<1> QED BY <1>2 DEF RunOK

\* A pane of a later life: what is not yet shown is of the lives before.
LEMMA RunSwitch ==
  ASSUME NEW v, NEW T, NEW R, RunOK(v, T, R), NEW u, NEW x \in Nat \ {0}, v.pane = 0 \/ v.pane < x, v.pane \in Nat,
         u.pane = x, u.ledger = D!NewLedger, u.writes = v.writes, u.shown = <<>>
  PROVE  RunOK(u, T, R)
<1>1. PICK a, b : Starts(v, T, R, a, b)
  BY DEF RunOK
<1>2. /\ LedgerOK(u.ledger) /\ ~u.ledger.init /\ IsSeq(u.writes) /\ IsSeq(u.shown) /\ Len(u.shown) = 0
      /\ Len(u.writes) \in Nat
  BY NewLedgerFacts, EmptyFacts, LenFacts DEF RunOK
<1>3. \A i \in 1 .. Len(u.writes) : u.writes[i].gen \in Nat /\ u.writes[i].gen < x
  <2> SUFFICES ASSUME NEW i \in 1 .. Len(u.writes) PROVE u.writes[i].gen \in Nat /\ u.writes[i].gen < x
    OBVIOUS
  <2>1. v.pane # 0
    <3> SUFFICES ASSUME v.pane = 0 PROVE FALSE
      OBVIOUS
    <3>1. Len(u.writes) = 0
      BY EmptyFacts, LenFacts DEF RunOK
    <3> QED BY <3>1
  <2>2. PICK y, w, s, m, p : /\ y = v.pane /\ w = v.writes /\ s = v.shown /\ m = Len(w) /\ p = Len(s)
                             /\ m = Len(u.writes) /\ w = u.writes
    OBVIOUS
  <2>3. Run(y, w, s, a, b)
    BY <1>1, <2>2 DEF Starts
  <2>4. /\ b \in Nat
        /\ \A k \in 1 .. m : w[k].gen \in Nat /\ (k <= b => w[k].gen < y)
        /\ \A k \in 1 .. m : k > b => w[k].gen = y
    BY <2>2, <2>3, RunElim
  <2>5. i \in 1 .. m /\ i \in Nat
    BY <1>2, <2>2
  <2>6. CASE i <= b
    <3>1. w[i].gen \in Nat /\ w[i].gen < y /\ y \in Nat /\ y < x
      BY <2>1, <2>2, <2>4, <2>5, <2>6
    <3>2. PICK z : z = w[i].gen
      OBVIOUS
    <3>3. z \in Nat /\ z < x
      BY <3>1, <3>2
    <3> QED BY <2>2, <3>2, <3>3
  <2>7. CASE ~(i <= b)
    <3>1. i > b
      BY <2>4, <2>5, <2>7
    <3>2. w[i].gen = y /\ w[i].gen \in Nat /\ y < x
      BY <2>1, <2>2, <2>4, <2>5, <3>1
    <3> QED BY <2>2, <3>2
  <2> QED BY <2>6, <2>7
<1>4. PICK c, n : c = 1 /\ n = Len(u.writes)
  OBVIOUS
<1>5. Run(u.pane, u.writes, u.shown, c, n)
  <2>1. PICK w, s, p : w = u.writes /\ s = u.shown /\ p = Len(s) /\ n = Len(w) /\ p = 0 /\ n \in Nat
    BY <1>2, <1>4
  <2>2. \A i \in 1 .. n : w[i].gen \in Nat /\ (i <= n => w[i].gen < x)
    BY <1>3, <2>1
  <2>3. \A i \in 1 .. n : ~(i > n)
    BY <2>1
  <2>4. \A i \in 1 .. p : s[i] = c + i - 1
    BY <2>1
  <2>5. c \in Nat \ {0} /\ n <= n
    BY <1>4, <2>1
  <2>6. Run(x, w, s, c, n)
    BY <2>1, <2>2, <2>3, <2>4, <2>5, RunIntro
  <2> QED BY <2>1, <2>6
<1>6. Starts(u, T, R, c, n)
  BY <1>2, <1>4, <1>5 DEF Starts
<1> QED BY <1>2, <1>6 DEF RunOK

\* Where nothing is shown and nothing waits, a run starts anywhere.
LEMMA RunAnyStart ==
  ASSUME NEW x, NEW w, NEW s, NEW a, NEW b, Run(x, w, s, a, b), NEW m, m = Len(w), b = m, m \in Nat,
         NEW p, p = Len(s), p = 0, NEW c \in Nat \ {0}
  PROVE  Run(x, w, s, c, b)
<1>1. b \in Nat /\ b <= m /\ \A i \in 1 .. m : w[i].gen \in Nat /\ (i <= b => w[i].gen < x)
  BY DEF Run
<1>2. \A i \in 1 .. m : i > b => FALSE
  OBVIOUS
<1>3. \A i \in 1 .. p : FALSE
  OBVIOUS
<1> QED BY <1>1, <1>2, <1>3 DEF Run

\* t is w and then n writes of life x that follow record e.
Follow(t, w, x, e, n) ==
  /\ IsSeq(t) /\ Len(w) \in Nat /\ Len(t) = Len(w) + n
  /\ \A i \in 1 .. Len(w) : t[i] = w[i]
  /\ \A i \in 1 .. n : t[Len(w) + i].gen = x /\ t[Len(w) + i].seq = e + i

LEMMA FollowConcat ==
  ASSUME NEW w, IsSeq(w), NEW z, IsSeq(z), NEW n, Len(z) = n, NEW x, NEW e,
         \A i \in 1 .. n : z[i].gen = x /\ z[i].seq = e + i
  PROVE  Follow(w \o z, w, x, e, n)
<1>1. /\ IsSeq(w \o z) /\ Len(w) \in Nat /\ Len(w \o z) = Len(w) + Len(z)
      /\ \A i \in 1 .. Len(w) : (w \o z)[i] = w[i]
      /\ \A i \in 1 .. Len(z) : (w \o z)[Len(w) + i] = z[i]
  <2>1. PICK A : w \in Seq(A)
    BY DEF IsSeq
  <2>2. PICK B : z \in Seq(B)
    BY DEF IsSeq
  <2>3. PICK C : C = A \cup B
    OBVIOUS
  <2>4. w \in Seq(C) /\ z \in Seq(C)
    BY <2>1, <2>2, <2>3
  <2>5. /\ w \o z \in Seq(C) /\ Len(w) \in Nat /\ Len(w \o z) = Len(w) + Len(z)
        /\ \A i \in 1 .. Len(w) : (w \o z)[i] = w[i]
        /\ \A i \in 1 .. Len(z) : (w \o z)[Len(w) + i] = z[i]
    BY <2>4
  <2> QED BY <2>5 DEF IsSeq
<1>2. PICK t : t = w \o z
  OBVIOUS
<1>3. /\ IsSeq(t) /\ Len(w) \in Nat /\ Len(t) = Len(w) + n
      /\ \A i \in 1 .. Len(w) : t[i] = w[i]
      /\ \A i \in 1 .. n : t[Len(w) + i] = z[i]
  BY <1>1, <1>2
<1> QED BY <1>2, <1>3 DEF Follow

Reaches(w, s, c, b, e) == e = c + Len(s) + (Len(w) - b) - 1
Begun(w, s, b) == Len(s) + (Len(w) - b) > 0

\* A run whose last record is e goes on with the n after it.
LEMMA RunGoesOn ==
  ASSUME NEW x, x \in Nat, NEW w, NEW s, NEW c, NEW b, Run(x, w, s, c, b),
         NEW n, n \in Nat, NEW e, Reaches(w, s, c, b, e), IsSeq(s),
         Begun(w, s, b) \/ n # 0, NEW t, Follow(t, w, x, e, n)
  PROVE  Run(x, t, s, c, b) /\ Reaches(t, s, c, b, e + n) /\ Begun(t, s, b)
<1>7. PICK m, p : m = Len(w) /\ p = Len(s)
  OBVIOUS
<1>8. /\ m \in Nat /\ p \in Nat /\ Len(t) = m + n /\ \A i \in 1 .. m : t[i] = w[i]
      /\ \A i \in 1 .. n : t[m + i].gen = x /\ t[m + i].seq = e + i
  BY <1>7, LenFacts DEF Follow
<1>9. e = c + p + (m - b) - 1 /\ (p + (m - b) > 0 \/ n # 0)
  BY <1>7 DEF Reaches, Begun
<1>1. /\ c \in Nat \ {0} /\ b \in Nat /\ b <= m
      /\ \A i \in 1 .. m : w[i].gen \in Nat /\ (i <= b => w[i].gen < x)
      /\ \A i \in 1 .. m : i > b => w[i].gen = x /\ w[i].seq = c + p + (i - b) - 1
      /\ \A i \in 1 .. p : s[i] = c + i - 1
  BY <1>7 DEF Run
<1>2. ASSUME NEW k \in 1 .. m + n
      PROVE  /\ t[k].gen \in Nat
             /\ k <= b => t[k].gen < x
             /\ k > b => t[k].gen = x /\ t[k].seq = c + p + (k - b) - 1
  <2>1. CASE k \in 1 .. m
    <3>1. t[k] = w[k]
      BY <1>8, <2>1
    <3> QED BY <1>1, <2>1, <3>1
  <2>2. CASE k \notin 1 .. m
    <3>1. PICK i : i = k - m
      OBVIOUS
    <3>2. i \in 1 .. n /\ k = m + i
      BY <1>8, <2>2, <3>1
    <3>3. t[k].gen = x /\ t[k].seq = e + i
      BY <1>8, <3>2
    <3>4. e + i = c + p + (k - b) - 1 /\ ~(k <= b)
      BY <1>1, <1>8, <1>9, <3>2
    <3> QED BY <3>3, <3>4
  <2> QED BY <2>1, <2>2
<1>3. PICK M : M = m + n
  OBVIOUS
<1>4. b <= M /\ M = Len(t)
  BY <1>1, <1>3, <1>8
<1>5. Run(x, t, s, c, b)
  BY <1>1, <1>2, <1>3, <1>4, <1>7 DEF Run
<1>6. e + n = c + p + ((m + n) - b) - 1 /\ p + ((m + n) - b) > 0
  <2>1. b \in Nat /\ b <= m /\ c \in Nat /\ m \in Nat /\ p \in Nat
    BY <1>1, <1>8
  <2> QED BY <1>9, <2>1
<1>10. Len(t) = m + n
  BY <1>8
<1> QED BY <1>5, <1>6, <1>7, <1>10 DEF Reaches, Begun

\* The run of a pane goes on with n writes that follow the ledger.
LEMMA RunReceived ==
  ASSUME NEW v, NEW T, NEW R, RunOK(v, T, R), v.pane \in Nat \ {0}, NEW r, r.seq \in Nat \ {0},
         NEW s, s = IF v.ledger.init THEN v.ledger.contiguous ELSE r.seq - 1, NEW n \in Nat,
         v.ledger.init \/ n # 0, NEW y, y = v.writes, NEW g, Follow(g, y, v.pane, s, n),
         NEW u, u.pane = v.pane, u.writes = g, u.shown = v.shown,
         LedgerOK(u.ledger), u.ledger.init, u.ledger.contiguous = s + n,
         ~v.ledger.init /\ T.live /\ v.pane = T.gen => \A k \in 1 .. r.seq - 1 : k \in R
  PROVE  RunOK(u, T, R)
<1>1. PICK a, b : Starts(v, T, R, a, b)
  BY DEF RunOK
<1>2. PICK l : l = v.ledger
  OBVIOUS
<1>3. s = IF l.init THEN l.contiguous ELSE r.seq - 1
  BY <1>2
<1>4. l.init \/ n # 0
  BY <1>2
<1>6. PICK m, p : m = Len(y) /\ p = Len(v.shown)
  OBVIOUS
<1>7. m \in Nat /\ p \in Nat
  BY <1>6, LenFacts DEF RunOK
<1>8. PICK x, z : x = v.pane /\ z = v.shown
  OBVIOUS
<1>9. PICK c : c = IF l.init THEN a ELSE r.seq
  OBVIOUS
<1>10. Run(x, y, z, c, b) /\ s = c + p + (m - b) - 1 /\ (p + (m - b) > 0 \/ n # 0)
  <2>1. CASE l.init
    <3>1. Run(x, y, z, a, b) /\ s = a + p + (m - b) - 1 /\ p + (m - b) > 0
      BY <1>1, <1>2, <1>3, <1>6, <1>8, <2>1 DEF Starts
    <3> QED BY <1>9, <2>1, <3>1
  <2>2. CASE ~l.init
    <3>1. z = <<>> /\ b = m /\ p = 0
      BY <1>1, <1>2, <1>6, <1>8, <2>2, EmptyFacts DEF Starts
    <3>2. c = r.seq /\ s = r.seq - 1 /\ c \in Nat \ {0}
      BY <1>3, <1>9, <2>2
    <3>3. Run(x, y, z, a, b)
      BY <1>1, <1>8 DEF Starts
    <3>4. Run(x, y, z, c, b)
      BY <1>6, <1>7, <1>8, <3>1, <3>2, <3>3, RunAnyStart
    <3>5. s = c + p + (m - b) - 1
      BY <1>7, <3>1, <3>2
    <3> QED BY <1>4, <2>2, <3>4, <3>5
  <2> QED BY <2>1, <2>2
<1>11. Follow(g, y, x, s, n) /\ x \in Nat
  BY <1>8
<1>12. Run(x, g, z, c, b) /\ Reaches(g, z, c, b, s + n) /\ Begun(g, z, b)
  <2>1. Reaches(y, z, c, b, s) /\ IsSeq(z) /\ (Begun(y, z, b) \/ n # 0)
    BY <1>6, <1>8, <1>10 DEF Reaches, Begun, RunOK
  <2> QED BY <1>10, <1>11, <2>1, RunGoesOn
<1>13. Starts(u, T, R, c, b)
  <2>1. u.ledger.init /\ u.ledger.contiguous = s + n
    OBVIOUS
  <2>4. u.pane = x /\ u.writes = g /\ u.shown = z
    BY <1>8
  <2>2. /\ Run(u.pane, u.writes, u.shown, c, b)
        /\ s + n = c + Len(u.shown) + (Len(u.writes) - b) - 1 /\ Len(u.shown) + (Len(u.writes) - b) > 0
    BY <1>12, <2>4 DEF Reaches, Begun
  <2>3. T.live /\ v.pane = T.gen => \A k \in 1 .. c - 1 : k \in R
    <3>1. CASE l.init
      BY <1>1, <1>2, <1>9, <3>1 DEF Starts
    <3>2. CASE ~l.init
      BY <1>2, <1>9, <3>2
    <3> QED BY <3>1, <3>2
  <2> QED BY <2>1, <2>2, <2>3 DEF Starts
<1>14. IsSeq(u.writes) /\ IsSeq(u.shown)
  BY DEF RunOK, Follow
<1> QED BY <1>13, <1>14 DEF RunOK

LEMMA FunctionIsSeq ==
  ASSUME NEW A, NEW n \in Nat, NEW z \in [1 .. n -> A]
  PROVE  z \in Seq(A) /\ Len(z) = n
OBVIOUS

\* The records the ledger admits go on where the pane is.
LEMMA RunReceive ==
  ASSUME MaxGap \in Nat \ {0}, NEW v, NEW T, NEW R, RunOK(v, T, R), v.pane \in Nat \ {0}, NEW r, r.seq \in Nat \ {0},
         NEW q, q = D!Accept(v.ledger, r), NEW w, w = [i \in DOMAIN q.records |-> [gen |-> v.pane, seq |-> q.records[i].seq]],
         NEW u, u.pane = v.pane, u.ledger = q.ledger, u.writes = v.writes \o w, u.shown = v.shown,
         ~v.ledger.init /\ T.live /\ v.pane = T.gen => \A k \in 1 .. r.seq - 1 : k \in R
  PROVE  RunOK(u, T, R)
<1>2. PICK l, s : l = v.ledger /\ s = IF l.init THEN l.contiguous ELSE r.seq - 1
  OBVIOUS
<1>3. /\ LedgerOK(q.ledger) /\ q.ledger.init
      /\ \E n \in Nat : /\ IsSeq(q.records) /\ DOMAIN q.records = 1 .. n
                        /\ \A i \in 1 .. n : q.records[i].seq = s + i
                        /\ q.ledger.contiguous = s + n
                        /\ l.init \/ n # 0
  <2>1. LedgerOK(l) /\ q = D!Accept(l, r) /\ s = IF l.init THEN l.contiguous ELSE r.seq - 1
    BY <1>2 DEF RunOK
  <2>2. HandsOn(q, l, s)
    BY <2>1, AcceptFacts
  <2> QED BY <2>2 DEF HandsOn
<1>4. PICK n \in Nat : /\ DOMAIN q.records = 1 .. n
                       /\ \A i \in 1 .. n : q.records[i].seq = s + i
                       /\ q.ledger.contiguous = s + n
                       /\ l.init \/ n # 0
  BY <1>3
<1>5. /\ DOMAIN w = 1 .. n /\ IsSeq(w) /\ Len(w) = n
      /\ \A i \in 1 .. n : w[i].gen = v.pane /\ w[i].seq = s + i
  <2>1. w = [i \in 1 .. n |-> [gen |-> v.pane, seq |-> q.records[i].seq]]
    BY <1>4
  <2>2. PICK A : A = {w[i] : i \in 1 .. n}
    OBVIOUS
  <2>3. w \in Seq(A) /\ Len(w) = n
    <3>1. PICK z : z = w
      OBVIOUS
    <3>2. DOMAIN z = 1 .. n /\ z = [i \in 1 .. n |-> z[i]]
      BY <2>1, <3>1
    <3>3. \A i \in 1 .. n : z[i] \in A
      BY <2>2, <3>1
    <3>4. z \in [1 .. n -> A]
      BY <3>2, <3>3
    <3>5. z \in Seq(A) /\ Len(z) = n
      BY <3>4, FunctionIsSeq
    <3> QED BY <3>1, <3>5
  <2>4. IsSeq(w)
    BY <2>3 DEF IsSeq
  <2>5. DOMAIN w = 1 .. n
    BY <2>1
  <2>6. \A i \in 1 .. n : w[i].gen = v.pane /\ w[i].seq = s + i
    BY <1>4, <2>1
  <2> QED BY <2>3, <2>4, <2>5, <2>6
<1>6. PICK y, g : y = v.writes /\ g = y \o w
  OBVIOUS
<1>7. Follow(g, y, v.pane, s, n)
  <2>1. IsSeq(y)
    BY <1>6 DEF RunOK
  <2>2. PICK x, z : x = v.pane /\ z = w
    OBVIOUS
  <2>3. IsSeq(z) /\ Len(z) = n /\ \A i \in 1 .. n : z[i].gen = x /\ z[i].seq = s + i
    BY <1>5, <2>2
  <2>4. Follow(y \o z, y, x, s, n)
    BY <2>1, <2>3, FollowConcat
  <2> QED BY <1>6, <2>2, <2>4
<1>8. u.pane = v.pane /\ u.shown = v.shown /\ u.ledger = q.ledger /\ u.writes = g /\ y = v.writes
  BY <1>6
<1>9. /\ LedgerOK(u.ledger) /\ u.ledger.init /\ u.ledger.contiguous = s + n
      /\ v.ledger.init \/ n # 0
      /\ s = IF v.ledger.init THEN v.ledger.contiguous ELSE r.seq - 1
  BY <1>2, <1>3, <1>4, <1>8
<1> QED BY <1>7, <1>8, <1>9, RunReceived

\* The write that is shown is the next of the run, or of an earlier life.
LEMMA RunConsume ==
  ASSUME NEW v, NEW T, NEW R, RunOK(v, T, R), v.writes # <<>>, NEW w, w = Head(v.writes), v.pane \in Nat,
         NEW u, u.pane = v.pane, u.ledger = v.ledger, u.writes = Tail(v.writes),
         u.shown = IF w.gen = v.pane THEN Append(v.shown, w.seq) ELSE v.shown
  PROVE  RunOK(u, T, R)
<1>1. PICK a, b : Starts(v, T, R, a, b)
  BY DEF RunOK
<1>2. PICK m, p : m = Len(v.writes) /\ p = Len(v.shown)
  OBVIOUS
<1>3. /\ IsSeq(u.writes) /\ m \in Nat \ {0} /\ Len(u.writes) = m - 1 /\ w = v.writes[1]
      /\ \A i \in 1 .. m - 1 : u.writes[i] = v.writes[i + 1]
      /\ p \in Nat /\ IsSeq(v.shown)
  <2>1. /\ IsSeq(v.writes) /\ IsSeq(v.shown)
    BY DEF RunOK
  <2>2. /\ IsSeq(Tail(v.writes)) /\ m \in Nat \ {0} /\ DOMAIN Tail(v.writes) = 1 .. m - 1
        /\ \A i \in 1 .. m - 1 : Tail(v.writes)[i] = v.writes[i + 1]
        /\ Head(v.writes) = v.writes[1]
    BY <1>2, <2>1, TailFacts
  <2>3. Len(Tail(v.writes)) = m - 1
    <3>1. PICK t, n : t = Tail(v.writes) /\ n = Len(t)
      OBVIOUS
    <3>2. n \in Nat /\ 1 .. n = 1 .. m - 1
      BY <2>2, <3>1, LenFacts
    <3> QED BY <2>2, <3>1, <3>2
  <2> QED BY <1>2, <2>1, <2>2, <2>3, LenFacts
<1>4. /\ a \in Nat \ {0} /\ b \in Nat /\ b <= m
      /\ \A i \in 1 .. m : v.writes[i].gen \in Nat /\ (i <= b => v.writes[i].gen < v.pane)
      /\ \A i \in 1 .. m : i > b => v.writes[i].gen = v.pane /\ v.writes[i].seq = a + p + (i - b) - 1
      /\ \A i \in 1 .. p : v.shown[i] = a + i - 1
  BY <1>1, <1>2 DEF Starts, Run
<1>5. CASE b = 0
  <2>1. w.gen = v.pane /\ w.seq = a + p
    BY <1>3, <1>4, <1>5
  <2>2. /\ IsSeq(u.shown) /\ Len(u.shown) = p + 1 /\ u.shown[p + 1] = w.seq
        /\ \A i \in 1 .. p : u.shown[i] = v.shown[i]
    BY <1>2, <1>3, <2>1, AppendFacts
  <2>3. v.ledger.init
    BY <1>1, <1>2, <1>3, <1>5 DEF Starts
  <2>4. \A i \in 1 .. m - 1 : u.writes[i].gen = v.pane /\ u.writes[i].seq = a + (p + 1) + (i - b) - 1
    <3> SUFFICES ASSUME NEW i \in 1 .. m - 1 PROVE u.writes[i].gen = v.pane /\ u.writes[i].seq = a + (p + 1) + (i - b) - 1
      OBVIOUS
    <3>1. PICK j : j = i + 1
      OBVIOUS
    <3>2. j \in 1 .. m /\ j > b /\ u.writes[i] = v.writes[j]
      BY <1>3, <1>5, <3>1
    <3> QED BY <1>3, <1>4, <1>5, <3>1, <3>2
  <2>5. \A i \in 1 .. p + 1 : u.shown[i] = a + i - 1
    <3> SUFFICES ASSUME NEW i \in 1 .. p + 1 PROVE u.shown[i] = a + i - 1
      OBVIOUS
    <3>1. CASE i = p + 1
      BY <1>3, <1>4, <2>1, <2>2, <3>1
    <3>2. CASE i # p + 1
      <4>1. i \in 1 .. p
        BY <1>3, <3>2
      <4> QED BY <1>4, <2>2, <4>1
    <3> QED BY <3>1, <3>2
  <2>6. Run(u.pane, u.writes, u.shown, a, b)
    <3>1. PICK x, y, z, n, k : x = v.pane /\ y = u.writes /\ z = u.shown /\ n = m - 1 /\ k = p + 1
      OBVIOUS
    <3>2. n = Len(y) /\ k = Len(z) /\ n \in Nat /\ b <= n
      BY <1>3, <1>5, <2>2, <3>1
    <3>3. \A i \in 1 .. n : y[i].gen = x /\ y[i].seq = a + k + (i - b) - 1
      BY <2>4, <3>1
    <3>4. \A i \in 1 .. n : ~(i <= b)
      BY <1>5, <3>2
    <3>5. x \in Nat /\ \A i \in 1 .. k : z[i] = a + i - 1
      BY <2>5, <3>1
    <3>6. Run(x, y, z, a, b)
      BY <1>4, <3>2, <3>3, <3>4, <3>5, RunIntro
    <3> QED BY <3>1, <3>6
  <2>7. Starts(u, T, R, a, b)
    <3>1. u.ledger.contiguous = a + (p + 1) + ((m - 1) - b) - 1 /\ (p + 1) + ((m - 1) - b) > 0
      <4>1. v.ledger.contiguous = a + p + (m - b) - 1
        BY <1>1, <1>2, <2>3 DEF Starts
      <4>2. a + p + (m - b) - 1 = a + (p + 1) + ((m - 1) - b) - 1 /\ (p + 1) + ((m - 1) - b) > 0
        BY <1>3, <1>4, <1>5
      <4> QED BY <4>1, <4>2
    <3>2. T.live /\ v.pane = T.gen => \A k \in 1 .. a - 1 : k \in R
      BY <1>1, <2>3 DEF Starts
    <3> QED BY <1>3, <2>2, <2>3, <2>6, <3>1, <3>2 DEF Starts
  <2>8. v.pane # 0
    BY <2>3 DEF RunOK
  <2> QED BY <1>3, <2>2, <2>7, <2>8 DEF RunOK
<1>6. CASE b # 0
  <2>1. PICK c : c = b - 1
    OBVIOUS
  <2>2. c \in Nat /\ c <= m - 1 /\ b = c + 1
    BY <1>3, <1>4, <1>6, <2>1
  <2>3. w.gen \in Nat /\ w.gen < v.pane
    BY <1>3, <1>4, <1>6
  <2>4. u.shown = v.shown
    BY <2>3
  <2>5. ASSUME NEW i \in 1 .. m - 1
        PROVE  /\ u.writes[i].gen \in Nat
               /\ i <= c => u.writes[i].gen < v.pane
               /\ i > c => u.writes[i].gen = v.pane /\ u.writes[i].seq = a + p + (i - c) - 1
    <3>1. PICK j : j = i + 1
      OBVIOUS
    <3>2. j \in 1 .. m /\ u.writes[i] = v.writes[j]
      BY <1>3, <3>1
    <3>3. (i <= c => j <= b) /\ (i > c => j > b) /\ j - b = i - c
      BY <1>3, <2>2, <3>1
    <3> QED BY <1>4, <3>2, <3>3
  <2>6. Run(u.pane, u.writes, u.shown, a, c)
    BY <1>2, <1>3, <1>4, <2>2, <2>4, <2>5 DEF Run
  <2>7. Starts(u, T, R, a, c)
    <3>1. (m - 1) - c = m - b
      BY <1>3, <1>4, <2>2
    <3>2. Len(u.writes) - c = Len(v.writes) - b /\ Len(u.shown) = Len(v.shown)
      BY <1>2, <1>3, <2>4, <3>1
    <3>3. b = Len(v.writes) => c = Len(u.writes)
      BY <1>2, <1>3, <2>2
    <3> QED BY <1>1, <2>4, <2>6, <3>2, <3>3 DEF Starts
  <2>8. v.pane # 0
    BY <2>3
  <2> QED BY <1>3, <2>4, <2>7, <2>8 DEF RunOK
<1> QED BY <1>5, <1>6

LEMMA RunSafe == RunOK(view, term, hist.retired) => OneRun
<1> SUFFICES ASSUME RunOK(view, term, hist.retired)
             PROVE  \E first \in {1} \cup Range(view.shown) \cup Seqs(view.writes), b \in 0 .. Len(view.writes) :
                      /\ Shows(first, b)
                      /\ term.live /\ view.pane = term.gen => 1 .. first - 1 \subseteq hist.retired
  BY DEF OneRun
<1>1. PICK a, b : Starts(view, term, hist.retired, a, b)
  BY DEF RunOK
<1>2. PICK w, s, m, p : w = view.writes /\ s = view.shown /\ m = Len(w) /\ p = Len(s)
  OBVIOUS
<1>3. m \in Nat /\ p \in Nat /\ DOMAIN w = 1 .. m /\ DOMAIN s = 1 .. p
  BY <1>2, LenFacts DEF RunOK
<1>4. /\ a \in Nat \ {0} /\ b \in Nat /\ b <= m
      /\ \A i \in 1 .. m : w[i].gen \in Nat /\ (i <= b => w[i].gen < view.pane)
      /\ \A i \in 1 .. m : i > b => w[i].gen = view.pane /\ w[i].seq = a + p + (i - b) - 1
      /\ \A i \in 1 .. p : s[i] = a + i - 1
  BY <1>1, <1>2 DEF Starts, Run
<1>5. \A i \in 1 .. m : w[i].gen = view.pane <=> i > b
  <2> SUFFICES ASSUME NEW i \in 1 .. m PROVE w[i].gen = view.pane <=> i > b
    OBVIOUS
  <2>1. CASE i > b
    BY <1>4, <2>1
  <2>2. CASE ~(i > b)
    <3>1. i <= b /\ w[i].gen \in Nat /\ w[i].gen < view.pane
      BY <1>4, <2>2
    <3>2. view.pane # w[i].gen
      <4> SUFFICES ASSUME view.pane = w[i].gen PROVE FALSE
        OBVIOUS
      <4> QED BY <3>1
    <3> QED BY <2>2, <3>2
  <2> QED BY <2>1, <2>2
<1>6. CASE view.ledger.init
  <2>1. Shows(a, b)
    BY <1>2, <1>3, <1>4, <1>5 DEF Shows
  <2>2. a \in Range(s) \cup Seqs(w)
    <3>1. p + (m - b) > 0
      BY <1>1, <1>2, <1>6 DEF Starts
    <3>2. CASE p > 0
      <4>1. 1 \in DOMAIN s /\ s[1] = a
        BY <1>3, <1>4, <3>2
      <4> QED BY <4>1 DEF Range
    <3>3. CASE ~(p > 0)
      <4>1. PICK i : i = b + 1
        OBVIOUS
      <4>2. i \in 1 .. m /\ i > b /\ i - b = 1 /\ p = 0
        BY <1>3, <1>4, <3>1, <3>3, <4>1
      <4>3. w[i].seq = a
        BY <1>4, <4>2
      <4> QED BY <1>3, <4>2, <4>3 DEF Seqs
    <3> QED BY <3>2, <3>3
  <2>3. term.live /\ view.pane = term.gen => 1 .. a - 1 \subseteq hist.retired
    BY <1>1, <1>6 DEF Starts
  <2>4. b \in 0 .. Len(view.writes)
    BY <1>2, <1>3, <1>4
  <2> QED BY <1>2, <2>1, <2>2, <2>3, <2>4
<1>7. CASE ~view.ledger.init
  <2>1. s = <<>> /\ p = 0 /\ b = m
    BY <1>1, <1>2, <1>7, EmptyFacts DEF Starts
  <2>2. PICK c : c = 1
    OBVIOUS
  <2>3. Shows(c, b)
    BY <1>2, <1>3, <1>5, <2>1 DEF Shows
  <2>4. 1 .. c - 1 = {}
    BY <2>2
  <2>5. b \in 0 .. Len(view.writes)
    BY <1>2, <1>3, <1>4
  <2> QED BY <2>2, <2>3, <2>4, <2>5
<1> QED BY <1>6, <1>7
-----------------------------------------------------------------------------
RInv ==
  /\ LineOK(term, hist.retired) /\ Known /\ InTransit
  /\ RunOK(view, term, hist.retired)

LEMMA RunStart == D!Init => RInv
<1> SUFFICES ASSUME D!Init PROVE RInv
  OBVIOUS
<1>1. /\ term = D!NoTerm /\ view = D!NewView(1) /\ push = <<>> /\ up = <<>>
      /\ hist = [shown |-> {}, retired |-> {}, closed |-> 0]
  BY DEF D!Init
<1>2. /\ term.live = FALSE /\ term.gen = 0 /\ term.next = 1 /\ term.queue = <<>> /\ term.flight = <<>>
      /\ term.hydrated = FALSE
  BY <1>1 DEF D!NoTerm
<1>3. view.ledger = D!NewLedger /\ view.writes = <<>> /\ view.shown = <<>> /\ view.closing = 0
  BY <1>1 DEF D!NewView
<1>4. LineOK(term, hist.retired)
  BY <1>2, LineFresh
<1>5. Mails(push) = {} /\ Mails(up) = {}
  BY <1>1, EmptyFacts DEF Mails
<1>6. Known
  BY <1>2, <1>3, <1>5 DEF Known
<1>7. InTransit
  BY <1>2 DEF InTransit, Fresh
<1>8. RunOK(view, term, hist.retired)
  BY <1>3, RunEmpty
<1> QED BY <1>4, <1>6, <1>7, <1>8 DEF RInv

\* A step of the main process goes on with the run, or starts another life.
LEMMA RunMain == ASSUME PaneInv, MainStep, MainRun, RunOK(view, term, hist.retired) PROVE RunOK(view', term', hist'.retired)
<1>1. view' = view /\ term.gen \in Nat
  BY DEF MainStep, PaneInv, RosterOK
<1>2. view.pane # term.gen + 1
  <2>1. view.pane # 0 => view.pane \in Nat /\ view.pane <= term.gen
    BY DEF PaneInv, RosterOK, Behind
  <2> QED BY <1>1, <2>1
<1>3. PICK v, u, T, U, R, Q : /\ v = view /\ u = view' /\ T = term /\ U = term' /\ R = hist.retired /\ Q = hist'.retired
  OBVIOUS
<1>4. U.live /\ v.pane = U.gen => T.live /\ v.pane = T.gen /\ R \subseteq Q
  BY <1>2, <1>3 DEF MainRun
<1>5. RunOK(u, U, Q)
  <2>1. RunOK(v, T, R) /\ u.pane = v.pane /\ u.ledger = v.ledger /\ u.writes = v.writes /\ u.shown = v.shown
    BY <1>1, <1>3
  <2> QED BY <1>4, <2>1, RunKeeps
<1> QED BY <1>3, <1>5

\* What a step of the renderer has to keep.
LEMMA KnownView ==
  ASSUME Known, term' = term, documentReady' = documentReady, view'.doc = view.doc, Mails(push') \subseteq Mails(push),
         \A p : Behind(p, push, term, view.pane, view.fence) => Behind(p, push', term, view'.pane, view'.fence),
         \A m \in Mails(up') : m \in Mails(up) \/
           (m.kind = "ready" /\ m.gen # 0 => Behind(m.gen, push', term, view'.pane, view'.fence)),
         view'.closing # 0 => view'.fence = 0
  PROVE  Known'
<1>1. \A m \in Mails(push') : m.kind = "record" =>
        Behind(m.gen, push', term', view'.pane, view'.fence) /\ m.rec.seq \in Nat \ {0}
  BY DEF Known
<1>2. \A m \in Mails(up') : m.kind = "ready" /\ m.doc = view'.doc /\ m.gen # 0 =>
        Behind(m.gen, push', term', view'.pane, view'.fence)
  BY DEF Known
<1>3. term'.hydrated \/ term'.flight # <<>> =>
        documentReady' /\ Behind(term'.gen, push', term', view'.pane, view'.fence)
  BY DEF Known
<1> QED BY <1>1, <1>2, <1>3 DEF Known

LEMMA RunSame ==
  ASSUME RunOK(view, term, hist.retired), term' = term, hist'.retired = hist.retired,
         view'.pane = view.pane, view'.ledger = view.ledger, view'.writes = view.writes, view'.shown = view.shown
  PROVE  RunOK(view', term', hist'.retired)
<1>1. PICK v, u, T, R : v = view /\ u = view' /\ T = term /\ R = hist.retired
  OBVIOUS
<1>2. RunOK(v, T, R) /\ u.pane = v.pane /\ u.ledger = v.ledger /\ u.writes = v.writes /\ u.shown = v.shown
  BY <1>1
<1>3. RunOK(u, T, R)
  BY <1>2, RunKeeps
<1> QED BY <1>1, <1>3

LEMMA RunNone ==
  ASSUME view'.ledger = D!NewLedger, view'.writes = <<>>, view'.shown = <<>>
  PROVE  RunOK(view', term', hist'.retired)
<1>1. PICK u, U, Q : u = view' /\ U = term' /\ Q = hist'.retired
  OBVIOUS
<1>2. RunOK(u, U, Q)
  BY <1>1, RunEmpty
<1> QED BY <1>1, <1>2

LEMMA TransitNone == ASSUME \A m \in Mails(push') : m.kind = "record" => m.gen # term'.gen, term'.flight = <<>> PROVE InTransit'
<1>1. PICK s, g, F, Q : s = push' /\ g = term'.gen /\ F = D!Seqs(term'.flight) /\ Q = hist'.retired
  OBVIOUS
<1>2. F = {}
  BY <1>1, RisingEmpty
<1>3. Ahead(s, {}, g, Q)
  BY <1>1, AheadNone
<1> QED BY <1>1, <1>2, <1>3 DEF InTransit, Fresh

LEMMA NoMails == Mails(<<>>) = {}
BY EmptyFacts DEF Mails

LEMMA UpAppend ==
  ASSUME IsSeq(up), NEW m, up' = Append(up, m), NEW n \in Mails(up')
  PROVE  n \in Mails(up) \/ n = m
<1>1. Mails(Append(up, m)) = Mails(up) \cup {m}
  BY SaidAppend
<1> QED BY <1>1

LEMMA LoadRun == ASSUME PaneInv, RInv, D!Load PROVE RInv'
<1>1. /\ view' = D!NewView(document) /\ push' = <<>> /\ view.doc # document
      /\ UNCHANGED <<documentReady, term, up, hist>>
  BY DEF D!Load
<1>2. /\ view'.doc = document /\ view'.closing = 0 /\ view'.ledger = D!NewLedger /\ view'.writes = <<>>
      /\ view'.shown = <<>>
  BY <1>1 DEF D!NewView
<1>3. ~documentReady /\ \A m \in Mails(up) : m.doc # document
  BY <1>1 DEF PaneInv, DocsOK
<1>4. ~term.hydrated /\ term.flight = <<>> /\ Mails(push') = {}
  BY <1>1, <1>3, NoMails DEF RInv, Known
<1>5. Known'
  BY <1>1, <1>2, <1>3, <1>4 DEF Known
<1>6. InTransit'
  BY <1>1, <1>4, TransitNone
<1>7. RunOK(view', term', hist'.retired)
  BY <1>2, RunNone
<1> QED BY <1>1, <1>5, <1>6, <1>7 DEF RInv

LEMMA CrashRun == ASSUME PaneInv, RInv, D!Crash PROVE RInv'
<1>1. view' = [view EXCEPT !.alive = FALSE] /\ push' = <<>> /\ UNCHANGED <<documentReady, term, up, hist>>
  BY DEF D!Crash
<1>2. /\ view'.alive = FALSE /\ view'.doc = view.doc /\ view'.pane = view.pane /\ view'.ledger = view.ledger
      /\ view'.writes = view.writes /\ view'.shown = view.shown /\ view'.closing = view.closing /\ view'.fence = view.fence
  BY <1>1 DEF PaneInv, FieldsOK, ViewFields
<1>3. \A p : Behind(p, push, term, view.pane, view.fence) => Behind(p, push', term, view'.pane, view'.fence)
  BY <1>1, <1>2, NothingBehind
<1>4. Mails(push') \subseteq Mails(push)
  BY <1>1, NoMails
<1>5. view'.closing # 0 => view'.fence = 0
  BY <1>2 DEF RInv, Known
<1>6. Known'
  BY <1>1, <1>2, <1>3, <1>4, <1>5, KnownView DEF RInv
<1>7. InTransit'
  BY <1>2 DEF InTransit, Fresh
<1>8. RunOK(view', term', hist'.retired)
  BY <1>1, <1>2, RunSame DEF RInv
<1> QED BY <1>1, <1>6, <1>7, <1>8 DEF RInv

LEMMA BootRequestRun == ASSUME PaneInv, RInv, D!BootRequest PROVE RInv'
<1>1. /\ view' = [view EXCEPT !.stage = "asked"] /\ up' = Append(up, D!Say("boot", 0, 0))
      /\ UNCHANGED <<documentReady, term, push, hist>>
  BY DEF D!BootRequest
<1>2. /\ view'.alive = view.alive /\ view'.doc = view.doc /\ view'.pane = view.pane /\ view'.ledger = view.ledger
      /\ view'.writes = view.writes /\ view'.shown = view.shown /\ view'.closing = view.closing /\ view'.fence = view.fence
  BY <1>1 DEF PaneInv, FieldsOK, ViewFields
<1>3. PICK m : up' = Append(up, m) /\ m.kind = "boot"
  BY <1>1 DEF D!Say
<1>4. \A n \in Mails(up') : n \in Mails(up) \/ n.kind # "ready"
  <2>1. IsSeq(up) /\ up' = Append(up, m)
    BY <1>3 DEF PaneInv, FieldsOK
  <2>2. \A n \in Mails(up') : n \in Mails(up) \/ n = m
    BY <2>1, UpAppend
  <2> QED BY <1>3, <2>2
<1>5. view'.closing # 0 => view'.fence = 0
  BY <1>2 DEF RInv, Known
<1>6. Known'
  BY <1>1, <1>2, <1>4, <1>5, KnownView DEF RInv
<1>7. InTransit'
  BY <1>1, <1>2 DEF RInv, InTransit, Fresh
<1>8. RunOK(view', term', hist'.retired)
  BY <1>1, <1>2, RunSame DEF RInv
<1> QED BY <1>1, <1>6, <1>7, <1>8 DEF RInv

LEMMA BootReplyRun == ASSUME PaneInv, PaneInv', RInv, D!BootReply PROVE RInv'
<1>1. PICK m \in replies :
        /\ m.kind = "boot"
        /\ view' = [(IF m.gen = 0 THEN view ELSE D!WithPane(view, m.gen)) EXCEPT !.stage = "listed"]
        /\ up' = Append(up, D!Say("ready", m.gen, 0))
  BY DEF D!BootReply
<1>2. UNCHANGED <<documentReady, term, push, hist>>
  BY DEF D!BootReply
<1>3. view.stage = "asked" /\ push = <<>> /\ view.pane = 0 /\ view.closing = 0 /\ ~documentReady
  BY <1>1 DEF PaneInv, BootTokens, Boots, DocsOK
<1>4. PICK v : v = (IF m.gen = 0 THEN view ELSE D!WithPane(view, m.gen)) /\ view' = [v EXCEPT !.stage = "listed"]
  BY <1>1
<1>5. DOMAIN v = ViewFields /\ v.doc = view.doc /\ v.pane = m.gen /\ v.closing = 0
  BY <1>3, <1>4, ViewKeeps DEF PaneInv, FieldsOK
<1>6. /\ view'.doc = view.doc /\ view'.pane = m.gen /\ view'.closing = 0
      /\ view'.ledger = v.ledger /\ view'.writes = v.writes /\ view'.shown = v.shown
  BY <1>4, <1>5 DEF ViewFields
<1>7. ~term.hydrated /\ term.flight = <<>> /\ Mails(push') = {}
  BY <1>2, <1>3, NoMails DEF RInv, Known
<1>8. \A n \in Mails(up) : ~(n.kind = "ready" /\ n.doc = view.doc)
  BY <1>3 DEF PaneInv, DocsOK
<1>9. m.gen # 0 => Behind(m.gen, push', term', view'.pane, view'.fence)
  BY <1>6 DEF PaneInv, RosterOK
<1>10. PICK s : up' = Append(up, s) /\ s.gen = m.gen
  BY <1>1 DEF D!Say
<1>11. \A n \in Mails(up') : n \in Mails(up) \/ n = s
  <2>1. IsSeq(up) /\ up' = Append(up, s)
    BY <1>10 DEF PaneInv, FieldsOK
  <2> QED BY <2>1, UpAppend
<1>12. Known'
  <2>1. \A n \in Mails(up') : n.kind = "ready" /\ n.doc = view'.doc /\ n.gen # 0 =>
          Behind(n.gen, push', term', view'.pane, view'.fence)
    BY <1>6, <1>8, <1>9, <1>10, <1>11
  <2> QED BY <1>2, <1>6, <1>7, <2>1 DEF Known
<1>13. InTransit'
  BY <1>2, <1>7, TransitNone
<1>14. RunOK(view', term', hist'.retired)
  <2>1. CASE m.gen = 0
    <3>1. v = view
      BY <1>4, <2>1
    <3> QED BY <1>2, <1>3, <1>6, <2>1, <3>1, RunSame DEF RInv
  <2>2. CASE m.gen # 0
    <3>1. v = D!WithPane(view, m.gen) /\ view.pane # m.gen
      BY <1>3, <1>4, <2>2
    <3>2. v.ledger = D!NewLedger /\ v.shown = <<>> /\ v.writes = view.writes
      BY <3>1 DEF D!WithPane, PaneInv, FieldsOK, ViewFields
    <3>3. view.writes = <<>>
      BY <1>3 DEF RInv, RunOK
    <3> QED BY <1>6, <3>2, <3>3, RunNone
  <2> QED BY <2>1, <2>2
<1> QED BY <1>2, <1>12, <1>13, <1>14 DEF RInv

LEMMA ClosePaneRun == ASSUME PaneInv, RInv, D!ClosePane PROVE RInv'
<1>1. /\ view.pane # 0 /\ view' = [view EXCEPT !.closing = view.pane] /\ up' = Append(up, D!Say("close", view.pane, 0))
      /\ UNCHANGED <<documentReady, term, push, hist>>
  BY DEF D!ClosePane
<1>2. /\ view'.alive = view.alive /\ view'.doc = view.doc /\ view'.pane = view.pane /\ view'.ledger = view.ledger
      /\ view'.writes = view.writes /\ view'.shown = view.shown /\ view'.fence = view.fence
  BY <1>1 DEF PaneInv, FieldsOK, ViewFields
<1>3. PICK m : up' = Append(up, m) /\ m.kind = "close"
  BY <1>1 DEF D!Say
<1>4. \A n \in Mails(up') : n \in Mails(up) \/ n.kind # "ready"
  <2>1. IsSeq(up) /\ up' = Append(up, m)
    BY <1>3 DEF PaneInv, FieldsOK
  <2>2. \A n \in Mails(up') : n \in Mails(up) \/ n = m
    BY <2>1, UpAppend
  <2> QED BY <1>3, <2>2
<1>5. view'.closing # 0 => view'.fence = 0
  BY <1>1, <1>2 DEF PaneInv, RosterOK
<1>6. Known'
  BY <1>1, <1>2, <1>4, <1>5, KnownView DEF RInv
<1>7. InTransit'
  BY <1>1, <1>2 DEF RInv, InTransit, Fresh
<1>8. RunOK(view', term', hist'.retired)
  BY <1>1, <1>2, RunSame DEF RInv
<1> QED BY <1>1, <1>6, <1>7, <1>8 DEF RInv

LEMMA CloseReplyRun == ASSUME PaneInv, RInv, D!CloseReply PROVE RInv'
<1>1. PICK m \in replies :
        /\ m.kind \in {"closed", "kept"}
        /\ IF m.kind = "closed" /\ view.pane \in {0, m.gen}
           THEN view' = [D!WithoutPane(view) EXCEPT !.closing = 0, !.fence = m.gen]
           ELSE view' = [view EXCEPT !.closing = 0]
        /\ hist' = IF m.kind = "closed" THEN [hist EXCEPT !.closed = m.gen] ELSE hist
  BY DEF D!CloseReply
<1>2. UNCHANGED <<document, documentReady, term, push, up>>
  BY DEF D!CloseReply
<1>3. hist'.retired = hist.retired
  BY <1>1 DEF PaneInv, FieldsOK, HistFields
<1>4. /\ m \in Answers(replies) /\ m.gen = view.closing /\ view.closing # 0 /\ view.fence = 0
      /\ RosterOrder(push, term) /\ Behind(m.gen, push, term, view.pane, view.fence) /\ (m.kind = "closed" => Gone(term, m.gen))
  BY <1>1 DEF PaneInv, CloseTokens, Answers, RosterOK, RInv, Known
<1>5. CASE m.kind = "closed" /\ view.pane \in {0, m.gen}
  <2>1. PICK v : v = D!WithoutPane(view) /\ view' = [v EXCEPT !.closing = 0, !.fence = m.gen]
    BY <1>1, <1>5
  <2>2. DOMAIN v = ViewFields /\ v.doc = view.doc /\ v.pane = 0
    BY <2>1, ViewKeeps DEF PaneInv, FieldsOK
  <2>3. v.ledger = D!NewLedger /\ v.writes = <<>> /\ v.shown = <<>>
    BY <2>1 DEF D!WithoutPane, PaneInv, FieldsOK, ViewFields
  <2>4. /\ view'.doc = view.doc /\ view'.pane = 0 /\ view'.closing = 0 /\ view'.fence = m.gen
        /\ view'.ledger = D!NewLedger /\ view'.writes = <<>> /\ view'.shown = <<>>
    BY <2>1, <2>2, <2>3 DEF ViewFields
  <2>5. ASSUME NEW p, Behind(p, push, term, view.pane, 0) PROVE Behind(p, push, term, 0, m.gen)
    <3>1. p \in Nat \ {0} /\ (view.pane # p => Gone(term, p)) /\ (view.pane = p => p = m.gen /\ Gone(term, p))
      BY <1>4, <1>5, <2>5 DEF Behind
    <3>2. ASSUME NEW j \in Lists(push), push[j].gen = p
          PROVE  m.gen >= p /\ \A k \in Lists(push) : k < j => push[k].gen # 0 /\ push[k].gen <= m.gen
      <4>1. p = m.gen
        BY <2>5, <3>1, <3>2 DEF Behind
      <4>2. ASSUME NEW k \in Lists(push), k < j PROVE push[k].gen # 0 /\ push[k].gen <= p
        <5>1. push[k].gen # 0
          BY <2>5, <3>1, <3>2, <4>2 DEF Behind
        <5>2. j > k
          BY <4>2, TailFacts DEF Lists, PaneInv, FieldsOK
        <5> QED BY <1>4, <3>1, <3>2, <5>1, <5>2 DEF RosterOrder
      <4> QED BY <3>1, <4>1, <4>2
    <3> QED BY <2>5, <3>1, <3>2 DEF Behind
  <2>6. \A p : Behind(p, push, term, view.pane, view.fence) => Behind(p, push', term, view'.pane, view'.fence)
    BY <1>2, <1>4, <2>4, <2>5
  <2>7. Known'
    BY <1>2, <2>4, <2>6, KnownView DEF RInv
  <2>8. InTransit'
    <3>1. term.live => term.gen # 0
      BY DEF RInv, LineOK
    <3> QED BY <1>2, <2>4, <3>1 DEF InTransit, Fresh
  <2>9. RunOK(view', term', hist'.retired)
    BY <2>4, RunNone
  <2> QED BY <1>2, <1>3, <2>7, <2>8, <2>9 DEF RInv
<1>6. CASE ~(m.kind = "closed" /\ view.pane \in {0, m.gen})
  <2>1. view' = [view EXCEPT !.closing = 0]
    BY <1>1, <1>6
  <2>2. /\ view'.alive = view.alive /\ view'.doc = view.doc /\ view'.pane = view.pane /\ view'.ledger = view.ledger
        /\ view'.writes = view.writes /\ view'.shown = view.shown /\ view'.fence = view.fence /\ view'.closing = 0
    BY <2>1 DEF PaneInv, FieldsOK, ViewFields
  <2>3. Known'
    BY <1>2, <2>2, KnownView DEF RInv
  <2>4. InTransit'
    BY <1>2, <1>3, <2>2 DEF RInv, InTransit, Fresh
  <2>5. RunOK(view', term', hist'.retired)
    BY <1>2, <1>3, <2>2, RunSame DEF RInv
  <2> QED BY <1>2, <1>3, <2>3, <2>4, <2>5 DEF RInv
<1> QED BY <1>5, <1>6

\* The roster that opens a pane for a life comes before its first record.
LEMMA ReceiveListRun == ASSUME PaneInv, RInv, D!ReceiveList PROVE RInv'
<1>1. PICK g, shown, f :
        /\ g = Head(push).gen
        /\ shown = (IF D!Fenced(view, g) THEN 0 ELSE g)
        /\ f = (IF g = 0 \/ g > view.fence THEN 0 ELSE view.fence)
        /\ IF shown = 0
           THEN view' = [D!WithoutPane(view) EXCEPT !.fence = f] /\ up' = up
           ELSE view' = [D!WithPane(view, g) EXCEPT !.fence = f] /\ up' = Append(up, D!Say("ready", g, 0))
  BY DEF D!ReceiveList
<1>2. /\ view.alive /\ push # <<>> /\ Head(push).kind = "list" /\ push' = Tail(push)
      /\ UNCHANGED <<document, documentReady, term, hist>>
  BY DEF D!ReceiveList
<1>3. /\ PaneInv'
      /\ \A p : Behind(p, push, term, view.pane, view.fence) => Behind(p, push', term, view'.pane, view'.fence)
  BY ReceiveListKeeps
<1>4. PICK v : /\ v = (IF shown = 0 THEN D!WithoutPane(view) ELSE D!WithPane(view, g))
               /\ view' = [v EXCEPT !.fence = f]
  BY <1>1
<1>5. shown # 0 => shown = g
  BY <1>1
<1>6. DOMAIN v = ViewFields /\ v.doc = view.doc /\ v.pane = shown /\ v.closing = view.closing
  BY <1>4, <1>5, ViewKeeps DEF PaneInv, FieldsOK
<1>7. /\ view'.doc = view.doc /\ view'.pane = shown /\ view'.closing = view.closing /\ view'.fence = f
      /\ view'.ledger = v.ledger /\ view'.writes = v.writes /\ view'.shown = v.shown
  BY <1>4, <1>6 DEF ViewFields
<1>8. shown = IF view.fence # 0 /\ g <= view.fence THEN 0 ELSE g
  BY <1>1 DEF D!Fenced
<1>9. IsSeq(push) /\ IsSeq(up) /\ 1 \in Lists(push) /\ push[1].gen = g /\ view.fence \in Nat
  BY <1>1, <1>2, ListsTail DEF PaneInv, FieldsOK, RosterOK
<1>10. Mails(push') \subseteq Mails(push)
  BY <1>2, <1>9, SaidTail
<1>11. Known'
  <2>1. view'.closing # 0 => view'.fence = 0
    BY <1>1, <1>7 DEF RInv, Known
  <2>2. \A m \in Mails(up') : m \in Mails(up) \/
          (m.kind = "ready" /\ m.gen # 0 => Behind(m.gen, push', term, view'.pane, view'.fence))
    <3>1. CASE shown = 0
      BY <1>1, <3>1
    <3>2. CASE shown # 0
      <4>1. PICK s : up' = Append(up, s) /\ s.gen = g
        BY <1>1, <3>2 DEF D!Say
      <4>2. Behind(g, push', term, view'.pane, view'.fence)
        BY <1>2, <1>3, <1>5, <1>7, <3>2 DEF PaneInv, RosterOK
      <4>3. \A m \in Mails(up') : m \in Mails(up) \/ m = s
        BY <1>9, <4>1, UpAppend
      <4> QED BY <4>1, <4>2, <4>3
    <3> QED BY <3>1, <3>2
  <2> QED BY <1>2, <1>3, <1>7, <1>10, <2>1, <2>2, KnownView DEF RInv
<1>12. InTransit'
  <2>1. CASE shown = 0 \/ shown # term.gen
    <3>1. term.live => term.gen # 0
      BY DEF RInv, LineOK
    <3> QED BY <1>2, <1>7, <2>1, <3>1 DEF InTransit, Fresh
  <2>2. CASE shown = g /\ g = term.gen /\ g # 0 /\ view.pane = g
    <3>1. v = view
      BY <1>4, <2>2 DEF D!WithPane
    <3>2. CASE Fresh'
      <4>1. Fresh
        BY <1>2, <1>7, <2>2, <3>1, <3>2 DEF Fresh
      <4>2. PICK s, F, R : s = push /\ F = D!Seqs(term.flight) /\ R = hist.retired
        OBVIOUS
      <4>3. Ahead(s, F, g, R) /\ IsSeq(s) /\ s # <<>> /\ ~(Head(s).kind = "record" /\ Head(s).gen = g)
        BY <1>2, <1>9, <2>2, <4>1, <4>2 DEF RInv, InTransit
      <4>4. Ahead(Tail(s), F, g, R)
        BY <4>3, AheadTail
      <4> QED BY <1>2, <2>2, <4>2, <4>4 DEF InTransit
    <3>3. CASE ~Fresh'
      BY <3>3 DEF InTransit
    <3> QED BY <3>2, <3>3
  <2>3. CASE shown = g /\ g = term.gen /\ g # 0 /\ view.pane # g
    <3>1. ~Behind(g, push, term, view.pane, view.fence)
      <4> SUFFICES ASSUME Behind(g, push, term, view.pane, view.fence) PROVE FALSE
        OBVIOUS
      <4>1. view.fence >= g /\ g \in Nat \ {0}
        BY <1>9, <2>3 DEF Behind
      <4>2. view.fence # 0 /\ g <= view.fence
        BY <1>9, <4>1
      <4> QED BY <1>8, <2>3, <4>2
    <3>2. term.flight = <<>> /\ \A m \in Mails(push) : m.kind = "record" => m.gen # g
      BY <2>3, <3>1 DEF RInv, Known
    <3> QED BY <1>2, <1>10, <2>3, <3>2, TransitNone
  <2> QED BY <1>5, <2>1, <2>2, <2>3
<1>13. RunOK(view', term', hist'.retired)
  <2>1. CASE shown = 0
    <3>1. v.ledger = D!NewLedger /\ v.writes = <<>> /\ v.shown = <<>>
      BY <1>4, <2>1 DEF D!WithoutPane, PaneInv, FieldsOK, ViewFields
    <3> QED BY <1>7, <3>1, RunNone
  <2>2. CASE shown # 0 /\ view.pane = g
    <3>1. v = view
      BY <1>4, <2>2 DEF D!WithPane
    <3> QED BY <1>2, <1>5, <1>7, <2>2, <3>1, RunSame DEF RInv
  <2>3. CASE shown # 0 /\ view.pane # g
    <3>1. v.ledger = D!NewLedger /\ v.shown = <<>> /\ v.writes = view.writes
      BY <1>4, <2>3 DEF D!WithPane, PaneInv, FieldsOK, ViewFields
    <3>2. g \in Nat \ {0} /\ view.pane \in Nat /\ (view.pane = 0 \/ view.pane < g)
      <4>1. g \in Nat \ {0}
        BY <1>5, <1>9, <2>3 DEF PaneInv, RosterOK, RosterOrder
      <4>2. view.pane # 0 => view.pane \in Nat /\ g >= view.pane
        BY <1>9, <4>1 DEF PaneInv, RosterOK, Behind
      <4> QED BY <2>3, <4>1, <4>2
    <3>3. PICK a, b, T, R : a = view /\ b = view' /\ T = term /\ R = hist.retired
      OBVIOUS
    <3>4. /\ RunOK(a, T, R) /\ (a.pane = 0 \/ a.pane < g) /\ a.pane \in Nat
          /\ b.pane = g /\ b.ledger = D!NewLedger /\ b.writes = a.writes /\ b.shown = <<>>
      BY <1>5, <1>7, <2>3, <3>1, <3>2, <3>3 DEF RInv
    <3>5. RunOK(b, T, R)
      BY <3>2, <3>4, RunSwitch
    <3> QED BY <1>2, <3>3, <3>5
  <2> QED BY <2>1, <2>2, <2>3
<1> QED BY <1>2, <1>11, <1>12, <1>13 DEF RInv

\* The first record of a life comes when all the earlier ones are retired.
LEMMA FirstRecord ==
  ASSUME IsSeq(push), push # <<>>, Head(push).kind = "record", Ahead(push, D!Seqs(term.flight), Head(push).gen, hist.retired)
  PROVE  \A k \in 1 .. Head(push).rec.seq - 1 : k \in hist.retired
<1>1. PICK s, F, g, R, m : s = push /\ F = D!Seqs(term.flight) /\ g = Head(push).gen /\ R = hist.retired /\ m = Head(push)
  OBVIOUS
<1>2. IsSeq(s) /\ s # <<>> /\ m = Head(s) /\ m.kind = "record" /\ m.gen = g /\ Ahead(s, F, g, R)
  BY <1>1
<1>3. PICK n : n \in Nat \ {0} /\ DOMAIN s = 1 .. n /\ Head(s) = s[1]
  BY <1>2, TailFacts
<1>4. 1 \in Recs(s) /\ s[1] = m /\ \A j \in Recs(s) : ~(j < 1)
  BY <1>2, <1>3 DEF Recs
<1>5. \A k \in 1 .. s[1].rec.seq - 1 : k \in R \/ \E j \in Recs(s) : j < 1 /\ s[j].gen = g /\ s[j].rec.seq = k
  BY <1>2, <1>4 DEF Ahead
<1>6. \A k \in 1 .. m.rec.seq - 1 : k \in R
  BY <1>4, <1>5
<1> QED BY <1>1, <1>6

LEMMA ReceiveRecordRun == ASSUME MaxGap \in Nat \ {0}, PaneInv, RInv, D!ReceiveRecord PROVE RInv'
<1>1. PICK m, q :
        /\ m = Head(push) /\ q = D!Accept(view.ledger, m.rec)
        /\ IF view.pane # m.gen
           THEN view' = view /\ up' = up
           ELSE /\ view' = [view EXCEPT !.ledger = q.ledger,
                              !.writes = @ \o [i \in DOMAIN q.records |-> [gen |-> m.gen, seq |-> q.records[i].seq]]]
                /\ up' = IF q.kind = "duplicate" THEN Append(up, D!Say("ack", m.gen, m.rec.seq)) ELSE up
  BY DEF D!ReceiveRecord
<1>2. /\ view.alive /\ push # <<>> /\ Head(push).kind = "record" /\ push' = Tail(push)
      /\ UNCHANGED <<document, documentReady, term, hist>>
  BY DEF D!ReceiveRecord
<1>3. IsSeq(push) /\ IsSeq(up) /\ m \in Mails(push) /\ Mails(push') \subseteq Mails(push)
  <2>1. IsSeq(push) /\ IsSeq(up)
    BY DEF PaneInv, FieldsOK
  <2> QED BY <1>1, <1>2, <2>1, SaidTail
<1>4. Behind(m.gen, push, term, view.pane, view.fence) /\ m.rec.seq \in Nat \ {0} /\ m.gen \in Nat \ {0}
  BY <1>1, <1>2, <1>3 DEF RInv, Known, Behind
<1>5. \A p : Behind(p, push, term, view.pane, view.fence) => Behind(p, push', term, view.pane, view.fence)
  <2> SUFFICES ASSUME NEW p, Behind(p, push, term, view.pane, view.fence) PROVE Behind(p, push', term, view.pane, view.fence)
    OBVIOUS
  <2>1. PICK x, f : x = view.pane /\ f = view.fence
    OBVIOUS
  <2>2. /\ x = 0 \/ x >= p
        /\ x # p => Gone(term, p)
        /\ \A j \in Lists(push) : j > 1 /\ push[j].gen = p /\ x # p =>
            /\ f >= p /\ \A k \in Lists(push) : k > 1 /\ k < j => push[k].gen # 0 /\ push[k].gen <= f
    BY <2>1 DEF Behind
  <2> QED BY <1>2, <1>3, <2>1, <2>2, BehindTail
<1>6. CASE view.pane # m.gen
  <2>1. view' = view /\ up' = up
    BY <1>1, <1>6
  <2>2. Known'
    BY <1>2, <1>3, <1>5, <2>1, KnownView DEF RInv, Known
  <2>3. InTransit'
    <3>1. CASE Fresh'
      <4>1. Fresh
        BY <1>2, <2>1, <3>1 DEF Fresh
      <4>2. PICK s, F, g, R : s = push /\ F = D!Seqs(term.flight) /\ g = term.gen /\ R = hist.retired
        OBVIOUS
      <4>3. Ahead(s, F, g, R) /\ IsSeq(s) /\ s # <<>> /\ ~(Head(s).kind = "record" /\ Head(s).gen = g)
        BY <1>1, <1>2, <1>3, <1>6, <4>1, <4>2 DEF RInv, InTransit, Fresh
      <4>4. Ahead(Tail(s), F, g, R)
        BY <4>3, AheadTail
      <4> QED BY <1>2, <4>2, <4>4 DEF InTransit
    <3>2. CASE ~Fresh'
      BY <3>2 DEF InTransit
    <3> QED BY <3>1, <3>2
  <2>4. RunOK(view', term', hist'.retired)
    BY <1>2, <2>1, RunSame DEF RInv
  <2> QED BY <1>2, <2>2, <2>3, <2>4 DEF RInv
<1>7. CASE view.pane = m.gen
  <2>1. PICK w : w = [i \in DOMAIN q.records |-> [gen |-> view.pane, seq |-> q.records[i].seq]]
    OBVIOUS
  <2>2. view' = [view EXCEPT !.ledger = q.ledger, !.writes = @ \o w]
    BY <1>1, <1>7, <2>1
  <2>3. /\ view'.doc = view.doc /\ view'.pane = view.pane /\ view'.fence = view.fence /\ view'.closing = view.closing
        /\ view'.ledger = q.ledger /\ view'.writes = view.writes \o w /\ view'.shown = view.shown
    BY <2>2 DEF PaneInv, FieldsOK, ViewFields
  <2>4. \A n \in Mails(up') : n \in Mails(up) \/ n.kind # "ready"
    <3>1. CASE up' = up
      BY <3>1
    <3>2. CASE up' # up
      <4>1. PICK a : up' = Append(up, a) /\ a.kind = "ack"
        BY <1>1, <1>7, <3>2 DEF D!Say
      <4>2. \A n \in Mails(up') : n \in Mails(up) \/ n = a
        BY <1>3, <4>1, UpAppend
      <4> QED BY <4>1, <4>2
    <3> QED BY <3>1, <3>2
  <2>5. Known'
    BY <1>2, <1>3, <1>5, <2>3, <2>4, KnownView DEF RInv, Known
  <2>6. PICK v, u, T, R, r : v = view /\ u = view' /\ T = term /\ R = hist.retired /\ r = m.rec
    OBVIOUS
  <2>7. ~v.ledger.init /\ T.live /\ v.pane = T.gen => \A k \in 1 .. r.seq - 1 : k \in R
    <3> SUFFICES ASSUME ~view.ledger.init, term.live, view.pane = term.gen PROVE \A k \in 1 .. m.rec.seq - 1 : k \in hist.retired
      BY <2>6
    <3>1. Ahead(push, D!Seqs(term.flight), Head(push).gen, hist.retired)
      BY <1>1, <1>2, <1>7 DEF RInv, InTransit, Fresh
    <3> QED BY <1>1, <1>2, <1>3, <3>1, FirstRecord
  <2>8. /\ RunOK(v, T, R) /\ v.pane \in Nat \ {0} /\ r.seq \in Nat \ {0} /\ q = D!Accept(v.ledger, r)
        /\ w = [i \in DOMAIN q.records |-> [gen |-> v.pane, seq |-> q.records[i].seq]]
        /\ u.pane = v.pane /\ u.ledger = q.ledger /\ u.writes = v.writes \o w /\ u.shown = v.shown
    BY <1>1, <1>4, <1>7, <2>1, <2>3, <2>6 DEF RInv
  <2>9. RunOK(u, T, R)
    BY <2>7, <2>8, RunReceive
  <2>10. InTransit'
    <3>1. LedgerOK(v.ledger)
      BY <2>8 DEF RunOK
    <3>2. PICK l, s : l = v.ledger /\ s = IF l.init THEN l.contiguous ELSE r.seq - 1
      OBVIOUS
    <3>3. LedgerOK(l) /\ q = D!Accept(l, r) /\ s = IF l.init THEN l.contiguous ELSE r.seq - 1
      BY <2>8, <3>1, <3>2
    <3>4. HandsOn(q, l, s)
      BY <2>8, <3>3, AcceptFacts
    <3> QED BY <2>3, <3>4 DEF HandsOn, InTransit, Fresh
  <2> QED BY <1>2, <2>5, <2>6, <2>9, <2>10 DEF RInv
<1> QED BY <1>6, <1>7

LEMMA ConsumeRun == ASSUME PaneInv, RInv, D!Consume PROVE RInv'
<1>1. PICK w : /\ w = Head(view.writes)
               /\ view' = [view EXCEPT !.writes = Tail(@),
                                       !.shown = IF w.gen = view.pane THEN Append(@, w.seq) ELSE @]
               /\ up' = Append(up, D!Say("ack", w.gen, w.seq))
               /\ hist' = hist \/ \E a : hist' = [hist EXCEPT !.shown = a]
  BY DEF D!Consume
<1>2. view.alive /\ view.writes # <<>> /\ UNCHANGED <<documentReady, term, push>>
  BY DEF D!Consume
<1>3. /\ view'.alive = view.alive /\ view'.doc = view.doc /\ view'.pane = view.pane /\ view'.fence = view.fence
      /\ view'.closing = view.closing /\ view'.ledger = view.ledger /\ view'.writes = Tail(view.writes)
      /\ view'.shown = IF w.gen = view.pane THEN Append(view.shown, w.seq) ELSE view.shown
  BY <1>1 DEF PaneInv, FieldsOK, ViewFields
<1>4. hist'.retired = hist.retired
  BY <1>1 DEF PaneInv, FieldsOK, HistFields
<1>5. PICK m : up' = Append(up, m) /\ m.kind = "ack"
  BY <1>1 DEF D!Say
<1>6. \A n \in Mails(up') : n \in Mails(up) \/ n.kind # "ready"
  <2>1. IsSeq(up)
    BY DEF PaneInv, FieldsOK
  <2>2. \A n \in Mails(up') : n \in Mails(up) \/ n = m
    BY <1>5, <2>1, UpAppend
  <2> QED BY <1>5, <2>2
<1>7. Known'
  BY <1>2, <1>3, <1>6, KnownView DEF RInv, Known
<1>8. InTransit'
  BY <1>2, <1>3, <1>4 DEF RInv, InTransit, Fresh
<1>9. PICK v, u, T, R : v = view /\ u = view' /\ T = term /\ R = hist.retired
  OBVIOUS
<1>10. v.pane \in Nat
  BY <1>9 DEF PaneInv, RosterOK, Behind
<1>11. /\ RunOK(v, T, R) /\ v.writes # <<>> /\ w = Head(v.writes)
       /\ u.pane = v.pane /\ u.ledger = v.ledger /\ u.writes = Tail(v.writes)
       /\ u.shown = IF w.gen = v.pane THEN Append(v.shown, w.seq) ELSE v.shown
  BY <1>1, <1>2, <1>3, <1>9 DEF RInv
<1>12. RunOK(u, T, R)
  BY <1>10, <1>11, RunConsume
<1> QED BY <1>2, <1>4, <1>7, <1>8, <1>9, <1>12 DEF RInv

LEMMA RunStep == ASSUME MaxGap \in Nat \ {0} PROVE PaneInv /\ RInv /\ [D!Next]_D!vars => RInv'
<1> SUFFICES ASSUME PaneInv, RInv, [D!Next]_D!vars PROVE RInv'
  OBVIOUS
<1>1. CASE \/ D!SpawnBegin \/ D!SpawnEnd \/ D!PushList \/ D!Output \/ D!NativeExit \/ D!Release \/ D!Send \/ D!Replace
           \/ D!DropUntrusted \/ D!ListTerminals \/ D!ReadyHandshake \/ D!Acknowledge \/ D!CloseRequest
           \/ D!CloseDeclined \/ D!CloseConfirmed
  <2>1. MainStep
    BY <1>1, MainSteps DEF PaneInv, RosterOK
  <2>2. up' = up \/ (up # <<>> /\ up' = Tail(up))
    BY <1>1, <2>1, MainAnswers DEF MainMail
  <2>3. MainRun
    BY <1>1, MainRuns DEF RInv
  <2>4. Known' /\ InTransit' /\ RunOK(view', term', hist'.retired)
    BY <2>1, <2>2, <2>3, KnownMain, TransitMain, RunMain DEF RInv
  <2> QED BY <2>3, <2>4 DEF RInv, MainRun
<1>2. CASE D!Crash
  BY <1>2, CrashRun
<1>3. CASE D!ReceiveRecord
  BY <1>3, ReceiveRecordRun
<1>4. CASE D!Consume
  BY <1>4, ConsumeRun
<1>5. CASE D!Load
  BY <1>5, LoadRun
<1>6. CASE D!BootRequest
  BY <1>6, BootRequestRun
<1>7. CASE D!BootReply
  <2>1. PaneInv'
    BY PaneStep
  <2> QED BY <1>7, <2>1, BootReplyRun
<1>8. CASE D!ClosePane
  BY <1>8, ClosePaneRun
<1>9. CASE D!CloseReply
  BY <1>9, CloseReplyRun
<1>10. CASE D!ReceiveList
  BY <1>10, ReceiveListRun
<1>11. CASE UNCHANGED D!vars
  <2>1. UNCHANGED <<document, documentReady, term, spawning, asking, view, push, replies, up, pushes, hist>>
    BY <1>11 DEF D!vars
  <2> QED BY <2>1 DEF RInv, Known, InTransit, Fresh
<1> QED BY <1>1, <1>2, <1>3, <1>4, <1>5, <1>6, <1>7, <1>8, <1>9, <1>10, <1>11 DEF D!Next, D!Main, D!Renderer

THEOREM ShowsOneRun == ASSUME MaxGap \in Nat \ {0} PROVE D!Spec => []OneRun
<1>1. D!Init => PaneInv /\ RInv
  BY PaneStart, RunStart
<1>2. (PaneInv /\ RInv) /\ [D!Next]_D!vars => (PaneInv /\ RInv)'
  BY PaneStep, RunStep
<1>3. PaneInv /\ RInv => OneRun
  BY RunSafe DEF RInv
<1> QED BY <1>1, <1>2, <1>3, PTL DEF D!Spec
=============================================================================
