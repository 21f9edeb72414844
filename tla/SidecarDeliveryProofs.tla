----------------------- MODULE SidecarDeliveryProofs -----------------------
(***************************************************************************)
(* What SidecarDelivery promises, for any number of records, bridges,      *)
(* watches, crashes, releases, failed writes and holds.                    *)
(***************************************************************************)
EXTENDS SidecarDelivery, SequenceTheorems, FiniteSetTheorems, TLAPS

Ids == Generations \X Positions
Entry == [id : Ids, key : Kinds, bytes : Nat, attempts : Nat]

-----------------------------------------------------------------------------
(* One queue *)

\* A queue without its byte counters, which only decide what is accepted.
Fields == {"queue", "queuedBytes", "active", "inFlight", "inFlightBytes", "retry", "disposed"}
Shape(r) ==
  /\ DOMAIN r = Fields
  /\ r.queue \in Seq(Entry) /\ r.active \subseteq Entry /\ r.inFlight \in Int
  /\ r.retry \in BOOLEAN /\ ~r.disposed

\* The ids of what a queue holds, waiting or running.
Held(r) == {e.id : e \in r.active} \cup {r.queue[i].id : i \in 1 .. Len(r.queue)}

\* With one handler at a time the queue is a line: whoever runs comes first.
Single(r) == \/ r.active = {} /\ r.inFlight = 0
             \/ \E e \in r.active : r.active = {e} /\ r.inFlight = 1
Size(r) == r.inFlight + Len(r.queue)
IdAt(r, i) == IF i <= r.inFlight THEN (CHOOSE e \in r.active : TRUE).id
              ELSE r.queue[i - r.inFlight].id

LEMMA ShapeFacts ==
  ASSUME NEW r, Shape(r)
  PROVE  /\ r.queue \in Seq(Entry) /\ Len(r.queue) \in Nat /\ DOMAIN r.queue = 1 .. Len(r.queue)
         /\ \A i \in 1 .. Len(r.queue) : r.queue[i] \in Entry
         /\ r.queue = <<>> <=> Len(r.queue) = 0
         /\ r.active \subseteq Entry /\ r.inFlight \in Int
         /\ r.retry \in BOOLEAN /\ ~r.disposed /\ Held(r) \subseteq Ids
<1>1. r.queue \in Seq(Entry) /\ r.active \subseteq Entry /\ r.inFlight \in Int
  BY DEF Shape
<1>2. Len(r.queue) \in Nat /\ DOMAIN r.queue = 1 .. Len(r.queue) /\ \A i \in 1 .. Len(r.queue) : r.queue[i] \in Entry
  BY <1>1, LenProperties, ElementOfSeq
<1>3. r.queue = <<>> <=> Len(r.queue) = 0
  BY <1>1, EmptySeq
<1>4. \A e \in Entry : e.id \in Ids
  BY DEF Entry
<1> QED BY <1>1, <1>2, <1>3, <1>4 DEF Shape, Held

LEMMA SingleFacts ==
  ASSUME NEW r, Shape(r), Single(r)
  PROVE  /\ r.inFlight \in {0, 1} /\ Size(r) \in Nat
         /\ r.inFlight = 0 => /\ r.active = {} /\ Size(r) = Len(r.queue)
                              /\ \A i \in 1 .. Size(r) : IdAt(r, i) = r.queue[i].id
         /\ \A e \in r.active : /\ r.active = {e} /\ r.inFlight = 1 /\ Size(r) = Len(r.queue) + 1
                                /\ IdAt(r, 1) = e.id
                                /\ \A i \in 1 .. Len(r.queue) : IdAt(r, i + 1) = r.queue[i].id
         /\ Held(r) = {IdAt(r, i) : i \in 1 .. Size(r)}
<1>1. Len(r.queue) \in Nat /\ \A i \in 1 .. Len(r.queue) : r.queue[i] \in Entry
  BY ShapeFacts
<1>2. CASE r.active = {} /\ r.inFlight = 0
  <2>1. Size(r) = Len(r.queue)
    BY <1>1, <1>2 DEF Size
  <2>2. \A i \in 1 .. Size(r) : IdAt(r, i) = r.queue[i].id
    BY <1>1, <1>2, <2>1 DEF IdAt
  <2>3. Held(r) = {r.queue[i].id : i \in 1 .. Len(r.queue)}
    BY <1>2 DEF Held
  <2> QED BY <1>1, <1>2, <2>1, <2>2, <2>3
<1>3. CASE \E e \in r.active : r.active = {e} /\ r.inFlight = 1
  <2>1. PICK e \in r.active : r.active = {e} /\ r.inFlight = 1
    BY <1>3
  <2>2. (CHOOSE d \in r.active : TRUE) = e
    BY <2>1
  <2>3. Size(r) = Len(r.queue) + 1 /\ IdAt(r, 1) = e.id
    BY <1>1, <2>1, <2>2 DEF Size, IdAt
  <2>4. \A i \in 1 .. Len(r.queue) : IdAt(r, i + 1) = r.queue[i].id
    BY <1>1, <2>1 DEF IdAt
  <2>5. Held(r) = {IdAt(r, i) : i \in 1 .. Size(r)}
    <3>1. Held(r) \subseteq {IdAt(r, i) : i \in 1 .. Size(r)}
      <4>1. 1 \in 1 .. Size(r) /\ \A i \in 1 .. Len(r.queue) : i + 1 \in 1 .. Size(r)
        BY <1>1, <2>3
      <4> QED BY <2>1, <2>3, <2>4, <4>1 DEF Held
    <3>2. ASSUME NEW i \in 1 .. Size(r) PROVE IdAt(r, i) \in Held(r)
      <4>1. CASE i = 1
        BY <2>1, <2>3, <4>1 DEF Held
      <4>2. CASE i # 1
        <5>1. i - 1 \in 1 .. Len(r.queue) /\ (i - 1) + 1 = i
          BY <1>1, <2>3, <4>2
        <5> QED BY <2>4, <5>1 DEF Held
      <4> QED BY <4>1, <4>2
    <3> QED BY <3>1, <3>2
  <2> QED BY <1>1, <2>1, <2>3, <2>4, <2>5
<1> QED BY <1>2, <1>3 DEF Single

\* pump: some prefix of the queue starts; at most one with one handler at a time.
LEMMA PumpedIs ==
  ASSUME NEW r, Shape(r)
  PROVE  LET p == Pumped(r) IN
         /\ Shape(p) /\ Held(p) = Held(r) /\ p.retry = r.retry
         /\ MaxInFlight = 1 /\ Single(r) =>
              /\ Single(p) /\ Size(p) = Size(r)
              /\ \A i \in 1 .. Size(r) : IdAt(p, i) = IdAt(r, i)
<1> DEFINE k == Startable(r)
           L == Len(r.queue)
           p == Pumped(r)
           b == SubSeq(r.queue, k + 1, L)
<1>1. /\ r.queue \in Seq(Entry) /\ L \in Nat /\ \A i \in 1 .. L : r.queue[i] \in Entry
      /\ r.active \subseteq Entry /\ r.inFlight \in Int /\ MaxInFlight \in Nat
  BY ShapeFacts, SidecarQueueAssumption
<1>2. k \in 0 .. L /\ (MaxInFlight = 1 /\ Single(r) => k = 0 \/ (k = 1 /\ r.inFlight = 0))
  <2>1. CASE r.retry \/ r.disposed \/ r.inFlight >= MaxInFlight
    BY <1>1, <2>1 DEF Startable
  <2>2. CASE ~(r.retry \/ r.disposed \/ r.inFlight >= MaxInFlight)
    <3> DEFINE free == MaxInFlight - r.inFlight
    <3>1. free \in Nat \ {0} /\ k = IF L < free THEN L ELSE free
      BY <1>1, <2>2 DEF Startable
    <3>2. ASSUME MaxInFlight = 1, Single(r) PROVE r.inFlight = 0 /\ free = 1
      BY <2>2, <3>2 DEF Single
    <3> HIDE DEF k, free, L
    <3>3. k \in 0 .. L
      BY <1>1, <3>1
    <3>4. ASSUME MaxInFlight = 1, Single(r) PROVE r.inFlight = 0 /\ (k = 0 \/ k = 1)
      BY <1>1, <3>1, <3>2, <3>4
    <3> QED BY <3>3, <3>4
  <2> QED BY <2>1, <2>2
<1>3. /\ p.queue = b /\ p.active = r.active \cup {r.queue[i] : i \in 1 .. k}
      /\ p.inFlight = r.inFlight + k /\ p.retry = r.retry /\ p.disposed = r.disposed
      /\ DOMAIN p = Fields
  BY DEF Shape, Pumped, Fields
<1>4. b \in Seq(Entry) /\ Len(b) = L - k /\ \A i \in 1 .. L - k : b[i] = r.queue[k + i]
  <2> HIDE DEF k
  <2>1. \A i \in k + 1 .. L : r.queue[i] \in Entry
    BY <1>1, <1>2
  <2>2. /\ b \in Seq(Entry)
        /\ Len(b) = IF k + 1 <= L THEN L - (k + 1) + 1 ELSE 0
        /\ \A i \in 1 .. L - (k + 1) + 1 : b[i] = r.queue[(k + 1) + i - 1]
    BY <1>1, <1>2, <2>1, SubSeqProperties
  <2> QED BY <1>1, <1>2, <2>2
<1> HIDE DEF k, p, b
<1>5. Shape(p)
  <2>1. {r.queue[i] : i \in 1 .. k} \subseteq Entry
    BY <1>1, <1>2
  <2>2. r.inFlight + k \in Int
    BY <1>1, <1>2
  <2> QED BY <1>1, <1>3, <1>4, <2>1, <2>2 DEF Shape
<1>6. Held(p) = Held(r)
  <2>1. \A i \in 1 .. L : i \in 1 .. k \/ \E j \in 1 .. L - k : i = k + j
    <3> SUFFICES ASSUME NEW i \in 1 .. L, i \notin 1 .. k PROVE \E j \in 1 .. L - k : i = k + j
      OBVIOUS
    <3>1. i - k \in 1 .. L - k /\ i = k + (i - k)
      BY <1>1, <1>2
    <3> QED BY <3>1
  <2>2. /\ \A i \in 1 .. k : i \in 1 .. L
        /\ \A j \in 1 .. L - k : k + j \in 1 .. L
    BY <1>1, <1>2
  <2>3. Held(p) = {e.id : e \in r.active \cup {r.queue[i] : i \in 1 .. k}} \cup {b[i].id : i \in 1 .. L - k}
    BY <1>3, <1>4 DEF Held
  <2>4. Held(r) = {e.id : e \in r.active} \cup {r.queue[i].id : i \in 1 .. L}
    BY DEF Held
  <2>5. Held(p) \subseteq Held(r)
    BY <1>4, <2>2, <2>3, <2>4
  <2>6. Held(r) \subseteq Held(p)
    BY <1>4, <2>1, <2>3, <2>4
  <2> QED BY <2>5, <2>6
<1>7. ASSUME MaxInFlight = 1, Single(r)
      PROVE  /\ Single(p) /\ Size(p) = Size(r)
             /\ \A i \in 1 .. Size(r) : IdAt(p, i) = IdAt(r, i)
  <2>1. CASE k = 0
    <3>0. p.queue = b
      BY <1>3
    <3>1. p.active = r.active /\ p.inFlight = r.inFlight /\ Len(b) = L
      BY <1>1, <1>3, <1>4, <2>1
    <3>2. b = r.queue
      BY <1>1, <1>4, <2>1, <3>1, SeqEqual
    <3>3. p.queue = r.queue
      BY <3>0, <3>2
    <3> QED BY <1>7, <3>1, <3>3 DEF Single, Size, IdAt
  <2>2. CASE k = 1
    <3>1. r.inFlight = 0 /\ r.active = {} /\ Size(r) = L /\ \A i \in 1 .. L : IdAt(r, i) = r.queue[i].id
      BY <1>2, <1>7, <2>2, SingleFacts DEF Single
    <3>2. p.active = {r.queue[1]} /\ p.inFlight = 1 /\ 1 \in 1 .. L
      BY <1>1, <1>2, <1>3, <2>2, <3>1
    <3>3. Single(p)
      BY <3>2 DEF Single
    <3>4. Size(p) = L /\ IdAt(p, 1) = r.queue[1].id /\ \A i \in 1 .. L - 1 : IdAt(p, i + 1) = r.queue[i + 1].id
      <4>1. Len(p.queue) = L - 1 /\ r.queue[1] \in p.active /\ \A i \in 1 .. L - 1 : p.queue[i] = r.queue[i + 1]
        BY <1>1, <1>3, <1>4, <2>2, <3>2
      <4>2. /\ Size(p) = Len(p.queue) + 1 /\ IdAt(p, 1) = r.queue[1].id
            /\ \A i \in 1 .. Len(p.queue) : IdAt(p, i + 1) = p.queue[i].id
        BY <1>5, <3>3, <4>1, SingleFacts
      <4>3. ASSUME NEW i \in 1 .. L - 1 PROVE IdAt(p, i + 1) = r.queue[i + 1].id
        <5>1. i \in 1 .. Len(p.queue)
          BY <4>1
        <5>2. IdAt(p, i + 1) = p.queue[i].id
          BY <4>2, <5>1
        <5> QED BY <4>1, <5>2
      <4>4. Size(p) = L
        BY <1>1, <4>1, <4>2
      <4> QED BY <4>2, <4>3, <4>4
    <3>5. ASSUME NEW i \in 1 .. L PROVE IdAt(p, i) = r.queue[i].id
      <4>1. CASE i = 1
        BY <3>4, <4>1
      <4>2. CASE i # 1
        <5>1. i - 1 \in 1 .. L - 1 /\ (i - 1) + 1 = i
          BY <1>1, <4>2
        <5> QED BY <3>4, <5>1
      <4> QED BY <4>1, <4>2
    <3> QED BY <3>1, <3>3, <3>4, <3>5
  <2> QED BY <1>2, <1>7, <2>1, <2>2
<1> QED BY <1>3, <1>5, <1>6, <1>7 DEF p

LEMMA NewQueueIs == Shape(NewQueue) /\ Held(NewQueue) = {} /\ Single(NewQueue) /\ Size(NewQueue) = 0
<1>1. /\ DOMAIN NewQueue = Fields /\ NewQueue.queue = <<>> /\ NewQueue.active = {} /\ NewQueue.inFlight = 0
      /\ NewQueue.retry \in BOOLEAN /\ ~NewQueue.disposed
  BY DEF NewQueue, Fields
<1>2. <<>> \in Seq(Entry) /\ Len(<<>>) = 0
  OBVIOUS
<1>3. Shape(NewQueue)
  <2> DEFINE n == NewQueue
  <2>1. /\ DOMAIN n = Fields /\ n.queue \in Seq(Entry) /\ n.active \subseteq Entry /\ n.inFlight \in Int
        /\ n.retry \in BOOLEAN /\ ~n.disposed
    <3>1. NewQueue.queue \in Seq(Entry) /\ NewQueue.active \subseteq Entry /\ NewQueue.inFlight \in Int
      BY <1>1
    <3> QED BY <1>1, <3>1
  <2> HIDE DEF n
  <2>2. Shape(n)
    BY <2>1 DEF Shape
  <2> QED BY <2>2 DEF n
<1>4. Held(NewQueue) = {}
  BY <1>1, <1>2 DEF Held
<1> QED BY <1>1, <1>2, <1>3, <1>4 DEF Single, Size

LEMMA EndedIs ==
  ASSUME NEW r, Shape(r), NEW e \in r.active
  PROVE  LET p == Ended(r, e) IN
         /\ Shape(p) /\ Held(p) \subseteq Held(r) /\ p.queue = r.queue
         /\ p.active = r.active \ {e} /\ p.inFlight = r.inFlight - 1 /\ p.retry = r.retry
         /\ Single(r) => /\ Single(p) /\ Size(r) = Size(p) + 1 /\ IdAt(r, 1) = e.id
                         /\ \A i \in 1 .. Size(p) : IdAt(p, i) = IdAt(r, i + 1)
<1> DEFINE p == Ended(r, e)
<1>1. /\ DOMAIN p = Fields /\ p.queue = r.queue /\ p.active = r.active \ {e} /\ p.inFlight = r.inFlight - 1
      /\ p.retry = r.retry /\ p.disposed = r.disposed
  BY DEF Ended, Shape, Fields
<1> HIDE DEF p
<1>2. r.inFlight \in Int /\ Len(r.queue) \in Nat
  BY ShapeFacts
<1>3. Shape(p)
  <2>1. /\ r.queue \in Seq(Entry) /\ r.active \ {e} \subseteq Entry /\ r.inFlight - 1 \in Int
        /\ r.retry \in BOOLEAN /\ ~r.disposed
    BY <1>2, ShapeFacts
  <2> QED BY <1>1, <2>1 DEF Shape
<1>4. Held(p) \subseteq Held(r)
  BY <1>1 DEF Held
<1>5. ASSUME Single(r)
      PROVE  /\ Single(p) /\ Size(r) = Size(p) + 1 /\ IdAt(r, 1) = e.id
             /\ \A i \in 1 .. Size(p) : IdAt(p, i) = IdAt(r, i + 1)
  <2>1. /\ r.active = {e} /\ r.inFlight = 1 /\ Size(r) = Len(r.queue) + 1 /\ IdAt(r, 1) = e.id
        /\ \A i \in 1 .. Len(r.queue) : IdAt(r, i + 1) = r.queue[i].id
    BY <1>5, SingleFacts
  <2>2. Single(p) /\ p.inFlight = 0
    BY <1>1, <2>1 DEF Single
  <2>3. Size(p) = Len(p.queue) /\ \A i \in 1 .. Size(p) : IdAt(p, i) = p.queue[i].id
    BY <1>3, <2>2, SingleFacts
  <2>4. p.queue = r.queue
    BY <1>1
  <2> QED BY <2>1, <2>2, <2>3, <2>4
<1> QED BY <1>1, <1>3, <1>4, <1>5 DEF p

\* A handler that ends for good, by success or as a dead letter.
LEMMA SucceededIs ==
  ASSUME NEW r, Shape(r), NEW e \in r.active
  PROVE  LET p == Succeeded(r, e) IN
         /\ Shape(p) /\ Held(p) \subseteq Held(r) /\ e.id \in Held(r) /\ e.id \in Ids
         /\ MaxInFlight = 1 /\ Single(r) =>
              /\ Single(p) /\ Size(r) = Size(p) + 1 /\ IdAt(r, 1) = e.id
              /\ \A i \in 1 .. Size(p) : IdAt(p, i) = IdAt(r, i + 1)
<1> DEFINE d == Ended(r, e)
           p == Pumped(d)
<1>1. p = Succeeded(r, e)
  BY DEF Succeeded
<1>2. /\ Shape(d) /\ Held(d) \subseteq Held(r)
      /\ Single(r) => /\ Single(d) /\ Size(r) = Size(d) + 1 /\ IdAt(r, 1) = e.id
                      /\ \A i \in 1 .. Size(d) : IdAt(d, i) = IdAt(r, i + 1)
  BY EndedIs
<1> HIDE DEF d
<1>3. /\ Shape(p) /\ Held(p) = Held(d)
      /\ MaxInFlight = 1 /\ Single(d) =>
           /\ Single(p) /\ Size(p) = Size(d) /\ \A i \in 1 .. Size(d) : IdAt(p, i) = IdAt(d, i)
  BY <1>2, PumpedIs
<1> HIDE DEF p
<1>4. e.id \in Held(r) /\ e.id \in Ids
  BY ShapeFacts DEF Held
<1> QED BY <1>1, <1>2, <1>3, <1>4

\* A failed event goes back to the head of the line.
LEMMA RequeuedIs ==
  ASSUME NEW r, Shape(r), NEW e \in r.active
  PROVE  LET p == Requeued(r, e) IN
         /\ Shape(p) /\ Held(p) \subseteq Held(r)
         /\ Single(r) => /\ Single(p) /\ Size(p) = Size(r)
                         /\ \A i \in 1 .. Size(r) : IdAt(p, i) = IdAt(r, i)
<1> DEFINE d == Ended(r, e)
           f == [e EXCEPT !.attempts = @ + 1]
           t == <<f>> \o r.queue
           p == Requeued(r, e)
<1>1. /\ Shape(d) /\ Held(d) \subseteq Held(r) /\ d.queue = r.queue /\ d.active = r.active \ {e}
      /\ d.inFlight = r.inFlight - 1
      /\ Single(r) => /\ Single(d) /\ Size(r) = Size(d) + 1 /\ IdAt(r, 1) = e.id
                      /\ \A i \in 1 .. Size(d) : IdAt(d, i) = IdAt(r, i + 1)
  BY EndedIs
<1>2. f \in Entry /\ f.id = e.id
  <2>1. e \in Entry
    BY ShapeFacts
  <2> QED BY <2>1 DEF Entry
<1>3. /\ DOMAIN p = Fields /\ p.queue = <<f>> \o d.queue /\ p.active = d.active /\ p.inFlight = d.inFlight
      /\ p.retry = TRUE /\ p.disposed = d.disposed
  BY <1>1 DEF Requeued, Shape, Fields
<1> HIDE DEF f, d, p
<1>4. /\ t \in Seq(Entry) /\ Len(t) = Len(r.queue) + 1 /\ t[1] = f
      /\ \A i \in 1 .. Len(r.queue) : t[i + 1] = r.queue[i]
  <2>1. <<f>> \in Seq(Entry) /\ r.queue \in Seq(Entry) /\ Len(<<f>>) = 1 /\ Len(r.queue) \in Nat /\ <<f>>[1] = f
    BY <1>2, ShapeFacts
  <2>2. /\ t \in Seq(Entry) /\ Len(t) = Len(<<f>>) + Len(r.queue)
        /\ \A i \in 1 .. Len(<<f>>) + Len(r.queue) : t[i] = IF i <= Len(<<f>>) THEN <<f>>[i] ELSE r.queue[i - Len(<<f>>)]
    BY <2>1, ConcatProperties
  <2> HIDE DEF t
  <2>3. t[1] = f
    BY <2>1, <2>2
  <2>4. ASSUME NEW i \in 1 .. Len(r.queue) PROVE t[i + 1] = r.queue[i]
    <3>1. i + 1 \in 1 .. Len(<<f>>) + Len(r.queue) /\ ~(i + 1 <= Len(<<f>>)) /\ (i + 1) - Len(<<f>>) = i
      BY <2>1
    <3> QED BY <2>2, <3>1
  <2> QED BY <2>1, <2>2, <2>3, <2>4
<1>5. p.queue = t
  BY <1>1, <1>3
<1> HIDE DEF t
<1>6. Len(r.queue) \in Nat /\ r.inFlight \in Int
  BY ShapeFacts
<1>7. Shape(p)
  BY <1>1, <1>3, <1>4, <1>5 DEF Shape
<1>8. Held(p) \subseteq Held(r)
  <2>1. ASSUME NEW i \in 1 .. Len(t) PROVE t[i].id \in Held(r)
    <3>1. CASE i = 1
      BY <1>2, <1>4, <3>1 DEF Held
    <3>2. CASE i # 1
      <4>1. i - 1 \in 1 .. Len(r.queue) /\ (i - 1) + 1 = i
        BY <1>4, <1>6, <3>2
      <4>2. t[i] = r.queue[i - 1]
        BY <1>4, <4>1
      <4> QED BY <4>1, <4>2 DEF Held
    <3> QED BY <3>1, <3>2
  <2>2. \A a \in p.active : a.id \in Held(r)
    BY <1>1, <1>3 DEF Held
  <2> QED BY <1>5, <2>1, <2>2 DEF Held
<1>9. ASSUME Single(r)
      PROVE  Single(p) /\ Size(p) = Size(r) /\ \A i \in 1 .. Size(r) : IdAt(p, i) = IdAt(r, i)
  <2>1. r.active = {e} /\ r.inFlight = 1 /\ Size(r) = Len(r.queue) + 1 /\ IdAt(r, 1) = e.id
        /\ \A i \in 1 .. Len(r.queue) : IdAt(r, i + 1) = r.queue[i].id
    BY <1>9, SingleFacts
  <2>2. Single(p) /\ p.inFlight = 0
    BY <1>1, <1>3, <2>1 DEF Single
  <2>3. Size(p) = Len(t) /\ \A i \in 1 .. Size(p) : IdAt(p, i) = t[i].id
    BY <1>5, <1>7, <2>2, SingleFacts
  <2>4. Size(p) = Size(r)
    BY <1>4, <2>1, <2>3
  <2>5. ASSUME NEW i \in 1 .. Size(r) PROVE IdAt(p, i) = IdAt(r, i)
    <3>1. CASE i = 1
      BY <1>2, <1>4, <2>1, <2>3, <2>4, <3>1
    <3>2. CASE i # 1
      <4>1. i - 1 \in 1 .. Len(r.queue) /\ (i - 1) + 1 = i
        BY <1>6, <2>1, <3>2
      <4>2. t[i] = r.queue[i - 1] /\ IdAt(r, i) = r.queue[i - 1].id
        BY <1>4, <2>1, <4>1
      <4> QED BY <2>3, <2>4, <4>2
    <3> QED BY <3>1, <3>2
  <2> QED BY <2>2, <2>4, <2>5
<1> QED BY <1>7, <1>8, <1>9 DEF p

LEMMA RetriedIs ==
  ASSUME NEW r, Shape(r)
  PROVE  LET p == Retried(r) IN
         /\ Shape(p) /\ Held(p) = Held(r)
         /\ MaxInFlight = 1 /\ Single(r) =>
              /\ Single(p) /\ Size(p) = Size(r)
              /\ \A i \in 1 .. Size(r) : IdAt(p, i) = IdAt(r, i)
<1> DEFINE d == [r EXCEPT !.retry = FALSE]
           p == Pumped(d)
<1>1. /\ DOMAIN d = Fields /\ d.queue = r.queue /\ d.active = r.active /\ d.inFlight = r.inFlight
      /\ d.retry = FALSE /\ d.disposed = r.disposed
  BY DEF Shape, Fields
<1>2. p = Retried(r)
  BY DEF Retried
<1> HIDE DEF d
<1>3. Shape(d)
  BY <1>1 DEF Shape
<1>4. Held(d) = Held(r) /\ (Single(r) => Single(d)) /\ Size(d) = Size(r) /\ \A i : IdAt(d, i) = IdAt(r, i)
  BY <1>1 DEF Held, Single, Size, IdAt
<1>5. /\ Shape(p) /\ Held(p) = Held(d)
      /\ MaxInFlight = 1 /\ Single(d) =>
           /\ Single(p) /\ Size(p) = Size(d) /\ \A i \in 1 .. Size(d) : IdAt(p, i) = IdAt(d, i)
  BY <1>3, PumpedIs
<1> HIDE DEF p
<1> QED BY <1>2, <1>4, <1>5

\* An accepted event goes to the end of the line, or takes the last waiting place.
LEMMA AdmittedIs ==
  ASSUME NEW r, Shape(r), NEW e \in Entry
  PROVE  LET p == Admitted(r, e) IN
         /\ Shape(p) /\ Held(p) \subseteq Held(r) \cup {e.id}
         /\ Superseded(r, e) \subseteq Held(r)
         /\ MaxInFlight = 1 /\ Single(r) =>
              /\ Single(p)
              /\ \/ /\ Superseded(r, e) = {} /\ Size(p) = Size(r) + 1 /\ IdAt(p, Size(p)) = e.id
                    /\ \A i \in 1 .. Size(r) : IdAt(p, i) = IdAt(r, i)
                 \/ /\ Size(r) > 0 /\ Superseded(r, e) = {IdAt(r, Size(r))} /\ Size(p) = Size(r)
                    /\ IdAt(p, Size(p)) = e.id
                    /\ \A i \in 1 .. Size(r) - 1 : IdAt(p, i) = IdAt(r, i)
<1> DEFINE L == Len(r.queue)
           d == IF Coalesces(r, e)
                THEN [r EXCEPT !.queue[Len(r.queue)] = e, !.queuedBytes = @ - Last(r.queue).bytes + e.bytes]
                ELSE [r EXCEPT !.queue = Append(@, e), !.queuedBytes = @ + e.bytes]
           p == Pumped(d)
<1>1. p = Admitted(r, e)
  BY DEF Admitted
<1>2. /\ r.queue \in Seq(Entry) /\ L \in Nat /\ \A i \in 1 .. L : r.queue[i] \in Entry
      /\ r.active \subseteq Entry /\ r.inFlight \in Int /\ r.retry \in BOOLEAN /\ ~r.disposed
      /\ r.queue = <<>> <=> L = 0
  BY ShapeFacts
<1>3. CASE Coalesces(r, e)
  <2> DEFINE t == [r.queue EXCEPT ![L] = e]
  <2>1. /\ DOMAIN d = Fields /\ d.queue = t /\ d.active = r.active /\ d.inFlight = r.inFlight
        /\ d.retry = r.retry /\ d.disposed = r.disposed
    BY <1>3 DEF Shape, Fields
  <2>2. L \in 1 .. L /\ Superseded(r, e) = {r.queue[L].id}
    BY <1>2, <1>3 DEF Coalesces, Superseded, Last
  <2>3. t \in Seq(Entry) /\ Len(t) = L /\ \A j \in 1 .. L : t[j] = IF j = L THEN e ELSE r.queue[j]
    BY <1>2, <2>2, ExceptSeq
  <2> HIDE DEF t, d, L
  <2>4. Shape(d)
    BY <1>2, <2>1, <2>3 DEF Shape
  <2>5. Held(d) \subseteq Held(r) \cup {e.id}
    <3>1. Held(d) = {a.id : a \in r.active} \cup {t[i].id : i \in 1 .. L}
      BY <2>1, <2>3 DEF Held
    <3>2. Held(r) = {a.id : a \in r.active} \cup {r.queue[i].id : i \in 1 .. L}
      BY DEF Held, L
    <3> QED BY <2>3, <3>1, <3>2
  <2>6. Superseded(r, e) \subseteq Held(r)
    BY <2>2 DEF Held, L
  <2>7. /\ Shape(p) /\ Held(p) = Held(d)
        /\ MaxInFlight = 1 /\ Single(d) =>
             /\ Single(p) /\ Size(p) = Size(d) /\ \A i \in 1 .. Size(d) : IdAt(p, i) = IdAt(d, i)
    BY <2>4, PumpedIs
  <2>8. ASSUME Single(r)
        PROVE  /\ Single(d) /\ Size(d) = Size(r) /\ Size(r) > 0 /\ r.queue[L].id = IdAt(r, Size(r))
               /\ IdAt(d, Size(r)) = e.id /\ \A i \in 1 .. Size(r) - 1 : IdAt(d, i) = IdAt(r, i)
    <3>1. r.inFlight \in {0, 1}
      BY <2>8, SingleFacts
    <3>2. Single(d) /\ Size(d) = Size(r) /\ Size(r) = r.inFlight + L
      BY <2>1, <2>3, <2>8 DEF Single, Size, L
    <3>3. Size(r) > 0 /\ ~(Size(r) <= r.inFlight) /\ Size(r) - r.inFlight = L
      BY <1>2, <2>2, <3>1, <3>2
    <3>4. r.queue[L].id = IdAt(r, Size(r)) /\ IdAt(d, Size(r)) = t[L].id
      BY <2>1, <3>3 DEF IdAt
    <3>5. ASSUME NEW i \in 1 .. Size(r) - 1 PROVE IdAt(d, i) = IdAt(r, i)
      <4>1. CASE i <= r.inFlight
        BY <2>1, <4>1 DEF IdAt
      <4>2. CASE ~(i <= r.inFlight)
        <5>1. i - r.inFlight \in 1 .. L /\ i - r.inFlight # L
          BY <1>2, <3>1, <3>2, <4>2
        <5> QED BY <2>1, <2>3, <4>2, <5>1 DEF IdAt
      <4> QED BY <4>1, <4>2
    <3> QED BY <2>2, <2>3, <3>2, <3>3, <3>4, <3>5
  <2> HIDE DEF p
  <2>9. ASSUME MaxInFlight = 1, Single(r)
        PROVE  /\ Single(p) /\ Size(r) > 0 /\ Superseded(r, e) = {IdAt(r, Size(r))} /\ Size(p) = Size(r)
               /\ IdAt(p, Size(p)) = e.id /\ \A i \in 1 .. Size(r) - 1 : IdAt(p, i) = IdAt(r, i)
    <3>1. Size(r) \in Nat
      BY <2>9, SingleFacts
    <3>2. Size(r) \in 1 .. Size(r) /\ \A i \in 1 .. Size(r) - 1 : i \in 1 .. Size(r)
      BY <2>8, <2>9, <3>1
    <3> QED BY <2>2, <2>7, <2>8, <2>9, <3>2
  <2> QED BY <1>1, <2>5, <2>6, <2>7, <2>9
<1>4. CASE ~Coalesces(r, e)
  <2> DEFINE t == Append(r.queue, e)
  <2>1. /\ DOMAIN d = Fields /\ d.queue = t /\ d.active = r.active /\ d.inFlight = r.inFlight
        /\ d.retry = r.retry /\ d.disposed = r.disposed
    BY <1>4 DEF Shape, Fields
  <2>2. Superseded(r, e) = {}
    BY <1>4 DEF Superseded
  <2>3. /\ t \in Seq(Entry) /\ Len(t) = L + 1 /\ t[L + 1] = e
        /\ \A j \in 1 .. L : t[j] = r.queue[j]
    BY <1>2, AppendProperties
  <2> HIDE DEF t, d, L
  <2>4. Shape(d)
    BY <1>2, <2>1, <2>3 DEF Shape
  <2>5. Held(d) \subseteq Held(r) \cup {e.id}
    <3>1. Held(d) = {a.id : a \in r.active} \cup {t[i].id : i \in 1 .. L + 1}
      BY <2>1, <2>3 DEF Held
    <3>2. Held(r) = {a.id : a \in r.active} \cup {r.queue[i].id : i \in 1 .. L}
      BY DEF Held, L
    <3>3. \A i \in 1 .. L + 1 : i \in 1 .. L \/ i = L + 1
      BY <1>2
    <3> QED BY <2>3, <3>1, <3>2, <3>3
  <2>7. /\ Shape(p) /\ Held(p) = Held(d)
        /\ MaxInFlight = 1 /\ Single(d) =>
             /\ Single(p) /\ Size(p) = Size(d) /\ \A i \in 1 .. Size(d) : IdAt(p, i) = IdAt(d, i)
    BY <2>4, PumpedIs
  <2>8. ASSUME Single(r)
        PROVE  /\ Single(d) /\ Size(d) = Size(r) + 1 /\ IdAt(d, Size(d)) = e.id
               /\ \A i \in 1 .. Size(r) : IdAt(d, i) = IdAt(r, i)
    <3>1. r.inFlight \in {0, 1}
      BY <2>8, SingleFacts
    <3>2. Single(d) /\ Size(r) = r.inFlight + L /\ Size(d) = Size(r) + 1
      BY <1>2, <2>1, <2>3, <2>8, <3>1 DEF Single, Size, L
    <3>3. ~(Size(d) <= r.inFlight) /\ Size(d) - r.inFlight = L + 1
      BY <1>2, <3>1, <3>2
    <3>4. IdAt(d, Size(d)) = t[L + 1].id
      BY <2>1, <3>3 DEF IdAt
    <3>5. ASSUME NEW i \in 1 .. Size(r) PROVE IdAt(d, i) = IdAt(r, i)
      <4>1. CASE i <= r.inFlight
        BY <2>1, <4>1 DEF IdAt
      <4>2. CASE ~(i <= r.inFlight)
        <5>1. i - r.inFlight \in 1 .. L
          BY <1>2, <3>1, <3>2, <4>2
        <5> QED BY <2>1, <2>3, <4>2, <5>1 DEF IdAt
      <4> QED BY <4>1, <4>2
    <3> QED BY <2>3, <3>2, <3>4, <3>5
  <2> HIDE DEF p
  <2>9. ASSUME MaxInFlight = 1, Single(r)
        PROVE  /\ Single(p) /\ Size(p) = Size(r) + 1
               /\ IdAt(p, Size(p)) = e.id /\ \A i \in 1 .. Size(r) : IdAt(p, i) = IdAt(r, i)
    <3>1. Size(r) \in Nat
      BY <2>9, SingleFacts
    <3>2. Size(d) \in 1 .. Size(d) /\ \A i \in 1 .. Size(r) : i \in 1 .. Size(d)
      BY <2>8, <2>9, <3>1
    <3> QED BY <2>7, <2>8, <2>9, <3>2
  <2> QED BY <1>1, <2>2, <2>5, <2>7, <2>9
<1> QED BY <1>3, <1>4

-----------------------------------------------------------------------------
(* The bookkeeping of the tailer: what its maps, passes, cursor writes and *)
(* the cursor file say of each other, with no bound on anything            *)

Bridges == 1 .. MaxBridges
Records == [bridge : Bridges, seq : Positions, kind : RecordKinds]
Streams == [bridge : Bridges, seq : Positions]
Cursors == [offset : Nat, stream : SUBSET Streams]
Writes == [gen : Generations, init : BOOLEAN, st : {"queued", "running", "landed"}, cursor : Cursors]
Passes == [st : {"idle", "init", "read", "await", "persist"}, at : Nat]
One(S) == \A s, t \in S : s = t

BookTypes ==
  /\ log \in Seq(Records) /\ Len(log) <= MaxRecords
  /\ disk \subseteq Cursors /\ One(disk)
  /\ gens \in 0 .. MaxWatches /\ live \in {0, gens} /\ offset \in 0 .. Len(log)
  /\ stream \subseteq Streams /\ One(stream) /\ known \subseteq Bridges
  /\ initOf \in 0 .. gens
  /\ initRes \in [Generations -> {"none", "pending", "ok", "failed"}]
  /\ pass \in [Generations -> Passes]
  /\ writes \in Seq(Writes)
  /\ base \in 0 .. Len(log) /\ retired \subseteq Bridges

\* A bridge opens with session_ready, and only opens with it.
LogOK == \A i, j \in 1 .. Len(log) :
  i < j /\ log[j].kind = "session_ready" => log[i].bridge # log[j].bridge

Scanning(g) == pass[g].st \in {"read", "await", "persist"}
Taken(g) == pass[g].st \in {"await", "persist"}
PassOK == \A g \in Generations :
  /\ pass[g].st # "idle" => g <= gens
  /\ pass[g].at <= Len(log)
  /\ Taken(g) => pass[g].at < Len(log)

\* The stream of a cursor is that of the record before it.
StreamAt(p) == {[bridge |-> log[p].bridge, seq |-> log[p].seq]}
Proper(c) == /\ c.offset <= Len(log)
             /\ c.stream = {} \/ (c.offset \in 1 .. Len(log) /\ c.stream = StreamAt(c.offset))

\* Cursor writes: only the first may be running, the one of a pass is for the
\* record it has taken, and initial cursors are queued generation by generation.
WriteOK(w) ==
  /\ w.gen <= gens /\ Proper(w.cursor)
  /\ w.st = "landed" => disk = {w.cursor}
  /\ w.init => w.cursor.stream = {} /\ ~HasCursor
  /\ ~w.init => /\ pass[w.gen].st = "persist" /\ w.cursor.offset = pass[w.gen].at + 1
                /\ w.cursor.stream = StreamAt(w.cursor.offset)
ChainOK ==
  /\ \A i \in 1 .. Len(writes) : WriteOK(writes[i]) /\ (i > 1 => writes[i].st = "queued")
  /\ \A i, j \in 1 .. Len(writes) :
       /\ i < j /\ writes[j].init => writes[i].gen < writes[j].gen
       /\ ~writes[i].init /\ ~writes[j].init /\ writes[i].gen = writes[j].gen => i = j

\* Whether the stream goes on with record p, for a p behind all it has seen.
Acc(S, p) == S = {} \/ \E s \in S : \/ s.bridge = log[p].bridge /\ log[p].seq > s.seq
                                    \/ s.bridge # log[p].bridge /\ log[p].kind = "session_ready"
\* Up to where the live generation has looked.
Scan == IF live # 0 /\ Scanning(live) THEN pass[live].at ELSE offset
Seen(b, x) == \E p \in 1 .. x : log[p].bridge = b

MemOK ==
  /\ \A c \in disk : Proper(c)
  /\ HasCursor => disk # {}
  /\ stream = {} => known = {}
  /\ live = 0 => stream = {}
  /\ \A s \in stream : s.bridge \in known
  /\ \A b \in known : Seen(b, Scan)
  /\ live # 0 /\ Taken(live) => Acc(stream, pass[live].at + 1)

Book == BookTypes /\ LogOK /\ PassOK /\ ChainOK /\ MemOK

booked == <<log, disk, live, gens, offset, stream, known, initOf, initRes, pass, writes, base, retired>>

LEMMA SequenceFacts ==
  ASSUME BookTypes
  PROVE  /\ Len(log) \in Nat /\ DOMAIN log = 1 .. Len(log) /\ \A p \in 1 .. Len(log) : log[p] \in Records
         /\ Len(writes) \in Nat /\ DOMAIN writes = 1 .. Len(writes)
         /\ \A i \in 1 .. Len(writes) : writes[i] \in Writes
         /\ MaxRecords \in Nat /\ MaxWatches \in Nat
<1>1. log \in Seq(Records) /\ writes \in Seq(Writes)
  BY DEF BookTypes
<1>2. MaxRecords \in Nat /\ MaxWatches \in Nat
  BY SidecarDeliveryBounds
<1> QED BY <1>1, <1>2, LenProperties, ElementOfSeq

LEMMA BookStill ==
  ASSUME Book, UNCHANGED booked
  PROVE  Book'
<1>1. /\ log' = log /\ disk' = disk /\ live' = live /\ gens' = gens /\ offset' = offset /\ stream' = stream
      /\ known' = known /\ initOf' = initOf /\ initRes' = initRes /\ pass' = pass /\ writes' = writes
      /\ base' = base /\ retired' = retired
  BY DEF booked
<1>2. BookTypes'
  BY <1>1 DEF Book, BookTypes
<1>3. LogOK' /\ PassOK'
  BY <1>1 DEF Book, LogOK, PassOK, Taken
<1>4. ChainOK'
  BY <1>1 DEF Book, ChainOK, WriteOK, Proper, StreamAt
<1>5. MemOK'
  BY <1>1 DEF Book, MemOK, Proper, StreamAt, Seen, Scan, Scanning, Taken, Acc
<1> QED BY <1>2, <1>3, <1>4, <1>5 DEF Book

LEMMA InitBook == Init => Book
<1> SUFFICES ASSUME Init PROVE Book
  OBVIOUS
<1>1. Len(log) = 0 /\ Len(writes) = 0 /\ MaxWatches \in Nat /\ MaxRecords \in Nat
  BY SidecarDeliveryBounds DEF Init
<1>2. disk \subseteq Cursors /\ One(disk) /\ (HasCursor => disk # {}) /\ \A c \in disk : c.offset = 0 /\ c.stream = {}
  <2> DEFINE c == [offset |-> 0, stream |-> {}]
  <2>1. c \in Cursors /\ c.offset = 0 /\ c.stream = {}
    BY DEF Cursors
  <2>2. disk = IF HasCursor THEN {c} ELSE {}
    BY DEF Init
  <2> HIDE DEF c
  <2> QED BY <2>1, <2>2 DEF One
<1>3. BookTypes
  <2>1. <<>> \in Seq(Records) /\ <<>> \in Seq(Writes)
    OBVIOUS
  <2>2. pass \in [Generations -> Passes] /\ initRes \in [Generations -> {"none", "pending", "ok", "failed"}]
    BY DEF Init, Passes
  <2> QED BY <1>1, <1>2, <2>1, <2>2 DEF Init, BookTypes, One
<1>4. LogOK /\ ChainOK
  BY <1>1 DEF LogOK, ChainOK
<1>5. PassOK
  BY <1>1 DEF Init, PassOK, Taken
<1>6. MemOK
  BY <1>1, <1>2 DEF Init, MemOK, Proper
<1> QED BY <1>3, <1>4, <1>5, <1>6 DEF Book

LEMMA AppendWrite ==
  ASSUME BookTypes, NEW w \in Writes
  PROVE  LET ws == Append(writes, w) IN
         /\ ws \in Seq(Writes) /\ Len(ws) = Len(writes) + 1 /\ ws[Len(ws)] = w
         /\ \A i \in 1 .. Len(writes) : ws[i] = writes[i]
BY SequenceFacts, AppendProperties DEF BookTypes

LEMMA WithoutIs ==
  ASSUME BookTypes, writes # <<>>
  PROVE  /\ Without(1) \in Seq(Writes) /\ Len(writes) > 0 /\ Len(Without(1)) = Len(writes) - 1
         /\ \A i \in 1 .. Len(writes) - 1 : Without(1)[i] = writes[i + 1]
<1> DEFINE L == Len(writes)
           a == SubSeq(writes, 1, 0)
           b == SubSeq(writes, 2, L)
<1>1. L \in Nat /\ L > 0 /\ \A i \in 1 .. L : writes[i] \in Writes
  <2>1. writes \in Seq(Writes)
    BY DEF BookTypes
  <2> QED BY <2>1, SequenceFacts, EmptySeq
<1>2. a \in Seq(Writes) /\ Len(a) = 0
  BY SubSeqProperties
<1>3. b \in Seq(Writes) /\ Len(b) = L - 1 /\ \A i \in 1 .. L - 1 : b[i] = writes[i + 1]
  <2>1. \A i \in 2 .. L : writes[i] \in Writes
    BY <1>1
  <2>2. /\ b \in Seq(Writes)
        /\ Len(b) = IF 2 <= L THEN L - 2 + 1 ELSE 0
        /\ \A i \in 1 .. L - 2 + 1 : b[i] = writes[2 + i - 1]
    BY <1>1, <2>1, SubSeqProperties
  <2> HIDE DEF b, L
  <2> QED BY <1>1, <2>2
<1>4. Without(1) = a \o b
  BY DEF Without
<1> HIDE DEF L, a, b
<1>5. /\ a \o b \in Seq(Writes) /\ Len(a \o b) = L - 1
      /\ \A i \in 1 .. L - 1 : (a \o b)[i] = b[i]
  <2>1. /\ a \o b \in Seq(Writes) /\ Len(a \o b) = Len(a) + Len(b)
        /\ \A i \in 1 .. Len(a) + Len(b) : (a \o b)[i] = IF i <= Len(a) THEN a[i] ELSE b[i - Len(a)]
    BY <1>2, <1>3, ConcatProperties
  <2> QED BY <1>1, <1>2, <1>3, <2>1
<1> QED BY <1>1, <1>3, <1>4, <1>5 DEF L

\* What Produce does to the file.
Grown(r) ==
  /\ log' \in Seq(Records) /\ Len(log') = Len(log) + 1 /\ Len(log') <= MaxRecords
  /\ log'[Len(log')] = r /\ \A p \in 1 .. Len(log) : log'[p] = log[p]

LEMMA ProduceIs ==
  ASSUME Book, NEW b \in Bridges, NEW k \in RecordKinds, Produce(b, k)
  PROVE  \E r \in Records : Grown(r) /\ (r.kind = "session_ready" => \A p \in 1 .. Len(log) : log[p].bridge # r.bridge)
<1> DEFINE S == {i \in DOMAIN log : log[i].bridge = b}
           seq == Cardinality(S) + 1
           r == [bridge |-> b, seq |-> seq, kind |-> k]
<1>1. BookTypes /\ Len(log) \in Nat /\ DOMAIN log = 1 .. Len(log) /\ log \in Seq(Records) /\ MaxRecords \in Nat
  BY SequenceFacts DEF Book, BookTypes
<1>2. Len(log) < MaxRecords /\ log' = Append(log, r) /\ (k = "session_ready" <=> seq = 1)
  BY DEF Produce
<1>3. Cardinality(S) \in Nat /\ Cardinality(S) <= Len(log) /\ (Cardinality(S) = 0 => S = {})
  <2>1. IsFiniteSet(1 .. Len(log)) /\ Cardinality(1 .. Len(log)) = IF 1 > Len(log) THEN 0 ELSE Len(log) - 1 + 1
    BY <1>1, FS_Interval
  <2>2. S \in SUBSET (1 .. Len(log))
    BY <1>1
  <2> HIDE DEF S
  <2>3. IsFiniteSet(S) /\ Cardinality(S) <= Cardinality(1 .. Len(log))
    BY <2>1, <2>2, FS_Subset
  <2>4. Cardinality(S) \in Nat /\ (Cardinality(S) = 0 => S = {})
    BY <2>3, FS_CardinalityType, FS_EmptySet
  <2> QED BY <1>1, <2>1, <2>3, <2>4
<1>4. seq \in Positions /\ (seq = 1 => S = {})
  <2> HIDE DEF S
  <2> QED BY <1>1, <1>2, <1>3 DEF Positions
<1>5. r \in Records
  BY <1>4 DEF Records
<1>6. r.kind = "session_ready" => \A p \in 1 .. Len(log) : log[p].bridge # r.bridge
  BY <1>1, <1>2, <1>4
<1> HIDE DEF r
<1>7. /\ log' \in Seq(Records) /\ Len(log') = Len(log) + 1 /\ log'[Len(log) + 1] = r
      /\ \A p \in 1 .. Len(log) : log'[p] = log[p]
  BY <1>1, <1>2, <1>5, AppendProperties
<1>8. Grown(r)
  BY <1>1, <1>2, <1>7 DEF Grown
<1> QED BY <1>5, <1>6, <1>8

LEMMA GrownBook ==
  ASSUME Book, NEW r \in Records, Grown(r),
         r.kind = "session_ready" => \A p \in 1 .. Len(log) : log[p].bridge # r.bridge,
         UNCHANGED <<disk, live, gens, offset, stream, known, initOf, initRes, pass, writes, base, retired>>
  PROVE  /\ Book' /\ Scan' = Scan /\ Scan \in 0 .. Len(log)
         /\ \A S : \A p \in 1 .. Len(log) : Acc(S, p)' <=> Acc(S, p)
<1>1. BookTypes /\ LogOK /\ PassOK /\ ChainOK /\ MemOK
  BY DEF Book
<1>2. /\ Len(log) \in Nat /\ Len(log') = Len(log) + 1 /\ log'[Len(log) + 1] = r
      /\ \A p \in 1 .. Len(log) : log'[p] = log[p]
      /\ Len(writes) \in Nat /\ \A i \in 1 .. Len(writes) : writes[i] \in Writes
  BY <1>1, SequenceFacts DEF Grown
<1>3. /\ disk' = disk /\ live' = live /\ gens' = gens /\ offset' = offset /\ stream' = stream
      /\ known' = known /\ initOf' = initOf /\ initRes' = initRes /\ pass' = pass /\ writes' = writes
      /\ base' = base /\ retired' = retired
  OBVIOUS
<1>4. BookTypes'
  BY <1>1, <1>2, <1>3 DEF BookTypes, Grown
<1>5. LogOK'
  <2> SUFFICES ASSUME NEW i \in 1 .. Len(log) + 1, NEW j \in 1 .. Len(log) + 1, i < j, log'[j].kind = "session_ready"
               PROVE  log'[i].bridge # log'[j].bridge
    BY <1>2 DEF LogOK
  <2>1. i \in 1 .. Len(log)
    BY <1>2
  <2>2. CASE j = Len(log) + 1
    BY <1>2, <2>1, <2>2
  <2>3. CASE j # Len(log) + 1
    <3>1. j \in 1 .. Len(log)
      BY <1>2, <2>3
    <3> QED BY <1>1, <1>2, <2>1, <3>1 DEF LogOK
  <2> QED BY <2>2, <2>3
<1>6. \A g \in Generations : pass[g].at \in Nat
  BY <1>1 DEF BookTypes, Passes
<1>7. PassOK'
  BY <1>1, <1>2, <1>3, <1>6 DEF PassOK, Taken
<1>8. \A c \in Cursors : Proper(c) => Proper(c)'
  <2> SUFFICES ASSUME NEW c \in Cursors, Proper(c) PROVE Proper(c)'
    OBVIOUS
  <2>1. c.offset \in Nat
    BY DEF Cursors
  <2> QED BY <1>2, <2>1 DEF Proper, StreamAt
<1>9. \A w \in Writes : WriteOK(w) => WriteOK(w)'
  <2> SUFFICES ASSUME NEW w \in Writes, WriteOK(w) PROVE WriteOK(w)'
    OBVIOUS
  <2>1. w.cursor \in Cursors /\ w.gen \in Generations /\ w.cursor.offset \in Nat
    BY DEF Writes, Cursors
  <2>2. ~w.init => pass[w.gen].at + 1 \in 1 .. Len(log)
    <3>1. ~w.init => pass[w.gen].st = "persist"
      BY DEF WriteOK
    <3> QED BY <1>1, <1>2, <1>6, <2>1, <3>1 DEF PassOK, Taken
  <2>3. ~w.init => StreamAt(w.cursor.offset)' = StreamAt(w.cursor.offset)
    BY <1>2, <1>3, <2>1, <2>2 DEF WriteOK, StreamAt
  <2> QED BY <1>3, <1>8, <2>1, <2>3 DEF WriteOK
<1>10. ChainOK'
  BY <1>1, <1>2, <1>3, <1>9 DEF ChainOK
<1>11. Scan' = Scan /\ Scan \in 0 .. Len(log)
  <2>1. Scan' = Scan
    BY <1>3 DEF Scan, Scanning
  <2>2. live # 0 => live \in Generations
    BY <1>1, SidecarDeliveryBounds DEF BookTypes, Generations
  <2> QED BY <1>1, <1>6, <2>1, <2>2, <1>2 DEF Scan, BookTypes, PassOK
<1>12. \A S : \A p \in 1 .. Len(log) : Acc(S, p)' <=> Acc(S, p)
  BY <1>2 DEF Acc
<1>13. MemOK'
  <2>1. \A c \in disk : Proper(c)'
    BY <1>1, <1>8 DEF MemOK, BookTypes
  <2>2. \A b \in known : Seen(b, Scan)'
    BY <1>1, <1>2, <1>11 DEF MemOK, Seen
  <2>3. live # 0 /\ Taken(live) => Acc(stream, pass[live].at + 1)'
    <3>1. live # 0 /\ Taken(live) => live \in Generations /\ pass[live].at + 1 \in 1 .. Len(log)
      BY <1>1, <1>2, <1>6, SidecarDeliveryBounds, SMTT(60) DEF PassOK, BookTypes, Generations
    <3>2. live # 0 /\ Taken(live) => Acc(stream, pass[live].at + 1)
      BY <1>1 DEF MemOK
    <3> QED BY <1>2, <1>3, <3>1, <3>2 DEF Acc
  <2> QED BY <1>1, <1>3, <2>1, <2>2, <2>3 DEF MemOK, Taken
<1> QED BY <1>4, <1>5, <1>7, <1>10, <1>11, <1>12, <1>13 DEF Book

LEMMA LiveFacts ==
  ASSUME Book
  PROVE  /\ gens \in Nat /\ live \in Nat /\ offset \in Nat /\ Scan \in 0 .. Len(log)
         /\ Len(log) \in Nat /\ offset <= Len(log)
         /\ live # 0 => live \in Generations /\ live = gens
         /\ \A g \in Generations : /\ g \in Nat \ {0} /\ pass[g].at \in 0 .. Len(log)
                                   /\ pass[g].st \in {"idle", "init", "read", "await", "persist"}
                                   /\ pass[g].st # "idle" => g <= gens
                                   /\ Taken(g) => pass[g].at + 1 \in 1 .. Len(log)
                                   /\ g > gens => pass[g].st = "idle"
<1>1. BookTypes /\ PassOK /\ MaxWatches \in Nat /\ Len(log) \in Nat
  BY SequenceFacts DEF Book
<1>2. \A g \in Generations : g \in Nat \ {0} /\ pass[g].at \in Nat
                             /\ pass[g].st \in {"idle", "init", "read", "await", "persist"}
  BY <1>1 DEF BookTypes, Passes, Generations
<1>3. \A g \in Generations : /\ pass[g].at \in 0 .. Len(log)
                             /\ pass[g].st # "idle" => g <= gens
                             /\ Taken(g) => pass[g].at + 1 \in 1 .. Len(log)
  BY <1>1, <1>2 DEF PassOK
<1>4. /\ gens \in Nat /\ live \in Nat /\ offset \in Nat /\ offset <= Len(log)
      /\ live # 0 => live \in Generations /\ live = gens
  BY <1>1 DEF BookTypes, Generations
<1>5. \A g \in Generations : g > gens => pass[g].st = "idle"
  BY <1>2, <1>3, <1>4
<1>6. Scan \in 0 .. Len(log)
  BY <1>1, <1>3, <1>4 DEF Scan
<1> QED BY <1>1, <1>2, <1>3, <1>4, <1>5, <1>6

LEMMA ChainStill ==
  ASSUME Book, UNCHANGED <<log, disk, pass, writes>>, gens' \in Nat, gens <= gens'
  PROVE  ChainOK'
<1>1. BookTypes /\ ChainOK /\ gens \in Nat /\ Len(writes) \in Nat /\ \A i \in 1 .. Len(writes) : writes[i] \in Writes
  BY SequenceFacts, LiveFacts DEF Book
<1>2. \A w \in Writes : WriteOK(w) => WriteOK(w)'
  <2> SUFFICES ASSUME NEW w \in Writes, WriteOK(w) PROVE WriteOK(w)'
    OBVIOUS
  <2>1. w.gen \in Nat
    BY SidecarDeliveryBounds DEF Writes, Generations
  <2> QED BY <1>1, <2>1 DEF WriteOK, Proper, StreamAt
<1> QED BY <1>1, <1>2 DEF ChainOK

LEMMA StopBook ==
  ASSUME Book, StoppedTailer, UNCHANGED <<log, disk, gens, initRes, pass, writes, base, retired>>
  PROVE  Book'
<1>1. BookTypes /\ LogOK /\ PassOK /\ MemOK /\ gens \in Nat /\ Len(log) \in Nat
  BY LiveFacts DEF Book
<1>2. BookTypes'
  BY <1>1 DEF BookTypes, StoppedTailer, One
<1>3. LogOK' /\ PassOK'
  BY <1>1 DEF LogOK, PassOK, Taken
<1>4. ChainOK'
  BY <1>1, ChainStill
<1>5. MemOK'
  BY <1>1 DEF MemOK, StoppedTailer, Proper, StreamAt
<1> QED BY <1>2, <1>3, <1>4, <1>5 DEF Book

LEMMA CrashBook ==
  ASSUME Book, Crash
  PROVE  Book'
<1>1. BookTypes /\ LogOK /\ PassOK /\ MemOK /\ gens \in Nat /\ Len(log) \in Nat
  BY LiveFacts DEF Book
<1>2. /\ log' = log /\ disk' = disk /\ gens' = gens /\ base' = base /\ retired' = retired /\ writes' = <<>>
      /\ StoppedTailer
  BY DEF Crash, history
<1>3. pass' = [g \in Generations |-> [st |-> "idle", at |-> 0]] /\ initRes' = [g \in Generations |-> "none"]
  BY DEF Crash
<1>4. \A g \in Generations : pass'[g].st = "idle" /\ pass'[g].at = 0 /\ pass'[g] \in Passes
  BY <1>3 DEF Passes
<1>5. BookTypes'
  <2>1. writes' \in Seq(Writes)
    BY <1>2
  <2>2. pass' \in [Generations -> Passes] /\ initRes' \in [Generations -> {"none", "pending", "ok", "failed"}]
    BY <1>3, <1>4
  <2> QED BY <1>1, <1>2, <2>1, <2>2 DEF BookTypes, StoppedTailer, One
<1>6. LogOK' /\ PassOK' /\ ChainOK'
  <2>1. Len(writes') = 0
    BY <1>2
  <2> QED BY <1>1, <1>2, <1>4, <2>1 DEF LogOK, PassOK, Taken, ChainOK
<1>7. MemOK'
  BY <1>1, <1>2 DEF MemOK, StoppedTailer, Proper, StreamAt
<1> QED BY <1>5, <1>6, <1>7 DEF Book

\* What watch() starts from.
LEMMA WatchIs ==
  ASSUME Book, Watch
  PROVE  /\ UNCHANGED <<log, disk, pass, retired>>
         /\ gens' = gens + 1 /\ live' = gens + 1 /\ gens + 1 \in Generations
         /\ pass[gens + 1].st = "idle" /\ Scan' = offset'
         /\ \/ \E c \in disk : /\ offset' = c.offset /\ stream' = c.stream
                               /\ known' = {s.bridge : s \in c.stream}
                               /\ initOf' = 0
                               /\ UNCHANGED <<initRes, writes, base>>
            \/ /\ disk = {} /\ offset' = Len(log) /\ base' = Len(log) /\ stream' = {} /\ known' = {}
               /\ initOf' = gens + 1
               /\ initRes' = [initRes EXCEPT ![gens + 1] = "pending"]
               /\ \E w \in Writes : /\ writes' = Append(writes, w)
                                    /\ w.gen = gens + 1 /\ w.init /\ w.st = "queued"
                                    /\ w.cursor.offset = Len(log) /\ w.cursor.stream = {}
<1>1. /\ UNCHANGED <<log, disk, pass, retired>> /\ gens' = gens + 1 /\ live' = gens + 1
      /\ gens < MaxWatches
  BY DEF Watch, NewGeneration
<1>2. gens \in Nat /\ gens + 1 \in Generations /\ Len(log) \in Nat
  BY <1>1, LiveFacts, SidecarDeliveryBounds DEF Generations
<1>3. pass[gens + 1].st = "idle"
  BY <1>2, LiveFacts
<1>4. Scan' = offset'
  BY <1>1, <1>3 DEF Scan, Scanning
<1>5. CASE disk # {}
  BY <1>1, <1>2, <1>3, <1>4, <1>5 DEF Watch
<1>6. CASE disk = {}
  <2> DEFINE w == [gen |-> gens + 1, init |-> TRUE, st |-> "queued", cursor |-> [offset |-> Len(log), stream |-> {}]]
  <2>1. w \in Writes
    BY <1>2 DEF Writes, Cursors
  <2>2. w.gen = gens + 1 /\ w.init /\ w.st = "queued" /\ w.cursor.offset = Len(log) /\ w.cursor.stream = {}
    OBVIOUS
  <2>3. /\ offset' = Len(log) /\ base' = Len(log) /\ stream' = {} /\ known' = {} /\ initOf' = gens + 1
        /\ initRes' = [initRes EXCEPT ![gens + 1] = "pending"] /\ writes' = Append(writes, w)
    BY <1>6 DEF Watch, NewGeneration
  <2> HIDE DEF w
  <2> QED BY <1>1, <1>2, <1>3, <1>4, <1>6, <2>1, <2>2, <2>3
<1> QED BY <1>5, <1>6

LEMMA WatchBook ==
  ASSUME Book, Watch
  PROVE  Book'
<1>1. BookTypes /\ LogOK /\ PassOK /\ ChainOK /\ MemOK
  BY DEF Book
<1>2. /\ gens \in Nat /\ Len(log) \in Nat /\ Len(writes) \in Nat /\ gens + 1 \in Generations
      /\ \A i \in 1 .. Len(writes) : writes[i] \in Writes
      /\ log' = log /\ disk' = disk /\ pass' = pass /\ retired' = retired
      /\ gens' = gens + 1 /\ live' = gens + 1 /\ pass[gens + 1].st = "idle" /\ Scan' = offset'
  BY <1>1, LiveFacts, SequenceFacts, WatchIs
<1>3. \A g \in Generations : pass[g].st # "idle" => g <= gens + 1
  BY <1>1, <1>2 DEF PassOK, Generations
<1>4. LogOK' /\ PassOK'
  BY <1>1, <1>2, <1>3 DEF LogOK, PassOK, Taken
<1>5. \A w \in Writes : WriteOK(w) => WriteOK(w)' /\ w.gen <= gens
  <2> SUFFICES ASSUME NEW w \in Writes, WriteOK(w) PROVE WriteOK(w)' /\ w.gen <= gens
    OBVIOUS
  <2>1. w.gen \in Nat
    BY SidecarDeliveryBounds DEF Writes, Generations
  <2> QED BY <1>2, <2>1 DEF WriteOK, Proper, StreamAt
<1>6. gens' \in 0 .. MaxWatches /\ live' \in {0, gens'} /\ live' # 0 /\ pass'[live'].st = "idle"
  BY <1>2, SidecarDeliveryBounds DEF Generations
<1>7. CASE \E c \in disk : /\ offset' = c.offset /\ stream' = c.stream
                           /\ known' = {s.bridge : s \in c.stream} /\ initOf' = 0
                           /\ UNCHANGED <<initRes, writes, base>>
  <2>1. PICK c \in disk : /\ offset' = c.offset /\ stream' = c.stream
                          /\ known' = {s.bridge : s \in c.stream} /\ initOf' = 0
                          /\ UNCHANGED <<initRes, writes, base>>
    BY <1>7
  <2>2. c \in Cursors /\ Proper(c) /\ c.offset \in Nat /\ c.stream \subseteq Streams
    BY <1>1 DEF BookTypes, MemOK, Cursors
  <2>3. c.offset \in 0 .. Len(log) /\ One(c.stream) /\ {s.bridge : s \in c.stream} \subseteq Bridges
    BY <1>2, <2>2 DEF Proper, One, StreamAt, Streams
  <2>4. BookTypes'
    BY <1>1, <1>2, <1>6, <2>1, <2>2, <2>3 DEF BookTypes, One
  <2>5. ChainOK'
    BY <1>1, <1>2, <1>5, <2>1 DEF ChainOK
  <2>6. \A b \in known' : Seen(b, Scan)'
    <3>1. ASSUME NEW s \in c.stream PROVE Seen(s.bridge, c.offset)
      BY <2>2, <3>1 DEF Proper, StreamAt, Seen
    <3> QED BY <1>2, <2>1, <3>1 DEF Seen
  <2>7. MemOK'
    <3>1. \A d \in disk' : Proper(d)'
      BY <1>1, <1>2 DEF MemOK, Proper, StreamAt
    <3> QED BY <1>1, <1>2, <1>6, <2>1, <2>6, <3>1 DEF MemOK, Taken
  <2> QED BY <1>4, <2>4, <2>5, <2>7 DEF Book
<1>8. CASE /\ disk = {} /\ offset' = Len(log) /\ base' = Len(log) /\ stream' = {} /\ known' = {}
           /\ initOf' = gens + 1
           /\ initRes' = [initRes EXCEPT ![gens + 1] = "pending"]
           /\ \E w \in Writes : /\ writes' = Append(writes, w)
                                /\ w.gen = gens + 1 /\ w.init /\ w.st = "queued"
                                /\ w.cursor.offset = Len(log) /\ w.cursor.stream = {}
  <2>1. PICK w \in Writes : /\ writes' = Append(writes, w)
                            /\ w.gen = gens + 1 /\ w.init /\ w.st = "queued"
                            /\ w.cursor.offset = Len(log) /\ w.cursor.stream = {}
    BY <1>8
  <2>2. /\ writes' \in Seq(Writes) /\ Len(writes') = Len(writes) + 1 /\ writes'[Len(writes')] = w
        /\ \A i \in 1 .. Len(writes) : writes'[i] = writes[i]
    BY <1>1, <2>1, AppendWrite
  <2>3. BookTypes'
    <3>1. initRes' \in [Generations -> {"none", "pending", "ok", "failed"}]
      BY <1>1, <1>8 DEF BookTypes
    <3> QED BY <1>1, <1>2, <1>6, <1>8, <2>2, <3>1 DEF BookTypes, One
  <2>4. WriteOK(w)'
    BY <1>1, <1>2, <1>8, <2>1 DEF WriteOK, Proper, MemOK
  <2>5. ChainOK'
    <3>1. \A i \in 1 .. Len(writes') : i \in 1 .. Len(writes) \/ i = Len(writes')
      BY <1>2, <2>2
    <3>2. ASSUME NEW i \in 1 .. Len(writes') PROVE WriteOK(writes[i])' /\ (i > 1 => writes'[i].st = "queued")
      <4>1. CASE i \in 1 .. Len(writes)
        <5>1. WriteOK(writes[i]) /\ writes[i] \in Writes /\ writes'[i] = writes[i] /\ (i > 1 => writes[i].st = "queued")
          BY <1>1, <1>2, <2>2, <4>1 DEF ChainOK
        <5>2. PICK v \in Writes : v = writes'[i] /\ v = writes[i]
          BY <5>1
        <5>3. WriteOK(v)'
          BY <1>5, <5>1, <5>2
        <5> QED BY <5>1, <5>2, <5>3 DEF WriteOK, Proper, StreamAt
      <4>2. CASE i = Len(writes')
        BY <1>2, <2>1, <2>2, <2>4, <4>2
      <4> QED BY <3>1, <4>1, <4>2
    <3>3. ASSUME NEW i \in 1 .. Len(writes'), NEW j \in 1 .. Len(writes')
          PROVE  /\ i < j /\ writes'[j].init => writes'[i].gen < writes'[j].gen
                 /\ ~writes'[i].init /\ ~writes'[j].init /\ writes'[i].gen = writes'[j].gen => i = j
      <4>1. CASE i \in 1 .. Len(writes) /\ j \in 1 .. Len(writes)
        BY <1>1, <2>2, <4>1 DEF ChainOK
      <4>2. CASE i \in 1 .. Len(writes) /\ j = Len(writes')
        <5>1. writes[i].gen <= gens /\ writes[i].gen \in Nat
          BY <1>1, <1>2, <1>5, <4>2, SidecarDeliveryBounds DEF ChainOK, Writes, Generations
        <5> QED BY <1>2, <2>1, <2>2, <4>2, <5>1
      <4>3. CASE i = Len(writes')
        BY <1>2, <2>1, <2>2, <3>1, <4>3
      <4> QED BY <3>1, <4>1, <4>2, <4>3
    <3> QED BY <3>2, <3>3 DEF ChainOK
  <2>6. MemOK'
    BY <1>1, <1>2, <1>6, <1>8 DEF MemOK, Taken
  <2> QED BY <1>4, <2>3, <2>5, <2>6 DEF Book
<1> QED BY <1>7, <1>8, WatchIs

\* A pass that holds no record steps, or takes one.
LEMMA PassBook ==
  ASSUME Book, NEW g \in Generations, NEW st \in {"idle", "init", "read", "await"}, NEW at \in 0 .. Len(log),
         pass[g].st # "persist", Go(g, st, at),
         offset' \in 0 .. Len(log), initOf' \in 0 .. gens, Scan' >= Scan,
         st # "idle" => g <= gens,
         st = "await" => at < Len(log) /\ (g = live => Acc(stream, at + 1)),
         UNCHANGED <<log, disk, live, gens, stream, known, initRes, writes, base, retired>>
  PROVE  Book'
<1>1. BookTypes /\ LogOK /\ PassOK /\ ChainOK /\ MemOK /\ gens \in Nat /\ Len(log) \in Nat
  BY LiveFacts DEF Book
<1>2. /\ Len(writes) \in Nat /\ \A i \in 1 .. Len(writes) : writes[i] \in Writes
  BY <1>1, SequenceFacts
<1>3. /\ pass' \in [Generations -> Passes] /\ pass'[g].st = st /\ pass'[g].at = at
      /\ \A h \in Generations : h # g => pass'[h] = pass[h]
  <2>1. [st |-> st, at |-> at] \in Passes
    BY <1>1 DEF Passes
  <2> QED BY <1>1, <2>1 DEF Go, BookTypes
<1>4. BookTypes'
  BY <1>1, <1>3 DEF BookTypes
<1>5. LogOK'
  BY <1>1 DEF LogOK
<1>6. PassOK'
  <2> SUFFICES ASSUME NEW h \in Generations
               PROVE  /\ pass'[h].st # "idle" => h <= gens
                      /\ pass'[h].at <= Len(log)
                      /\ pass'[h].st \in {"await", "persist"} => pass'[h].at < Len(log)
    BY <1>1 DEF PassOK, Taken
  <2>1. CASE h = g
    BY <1>1, <1>3, <2>1
  <2>2. CASE h # g
    BY <1>1, <1>3, <2>2 DEF PassOK, Taken
  <2> QED BY <2>1, <2>2
<1>7. \A w \in Writes : WriteOK(w) => WriteOK(w)'
  <2> SUFFICES ASSUME NEW w \in Writes, WriteOK(w) PROVE WriteOK(w)'
    OBVIOUS
  <2>1. w.gen \in Generations /\ (~w.init => w.gen # g)
    BY DEF Writes, WriteOK
  <2> QED BY <1>3, <2>1 DEF WriteOK, Proper, StreamAt
<1>8. ChainOK'
  BY <1>1, <1>2, <1>7 DEF ChainOK
<1>9. MemOK'
  <2>1. \A b \in known : Seen(b, Scan)'
    <3>1. Scan \in Nat /\ Scan' \in 0 .. Len(log)
      <4>1. live # 0 => live \in Generations
        BY LiveFacts
      <4>2. live # 0 => pass'[live].at \in 0 .. Len(log)
        BY <1>3, <4>1, LiveFacts
      <4> QED BY <4>2, LiveFacts DEF Scan
    <3> QED BY <1>1, <3>1 DEF MemOK, Seen
  <2>2. live # 0 /\ pass'[live].st \in {"await", "persist"} => Acc(stream, pass'[live].at + 1)
    <3>1. live # 0 => live \in Generations
      BY LiveFacts
    <3> QED BY <1>1, <1>3, <3>1 DEF MemOK, Taken
  <2>3. \A c \in disk : Proper(c)'
    BY <1>1 DEF MemOK, Proper, StreamAt
  <2> QED BY <1>1, <2>1, <2>2, <2>3 DEF MemOK, Taken, Acc
<1> QED BY <1>4, <1>5, <1>6, <1>8, <1>9 DEF Book

\* Accepting a record behind everything the generation has looked at.
LEMMA AcceptIs ==
  ASSUME Book, NEW g \in Generations, live = g, Reading(g), pass[g].at < Len(log)
  PROVE  /\ CanAccept(NextRecord(g)) <=> Acc(stream, pass[g].at + 1)
         /\ Scan = pass[g].at
<1> DEFINE p == pass[g].at + 1
           r == log[p]
<1>1. BookTypes /\ LogOK /\ MemOK /\ Len(log) \in Nat /\ g \in Nat \ {0} /\ pass[g].at \in 0 .. Len(log) /\ pass[g].st = "read"
  BY LiveFacts DEF Book, Reading
<1>2. Scan = pass[g].at
  BY <1>1 DEF Scan, Scanning
<1>3. p \in 1 .. Len(log) /\ r \in Records /\ r.kind \in RecordKinds
  BY <1>1, SequenceFacts DEF Records
<1>4. \A b \in known : \E q \in 1 .. Len(log) : q < p /\ log[q].bridge = b
  BY <1>1, <1>2 DEF MemOK, Seen
<1>5. r.kind = "session_ready" => r.bridge \notin known
  BY <1>1, <1>3, <1>4, SMTT(60) DEF LogOK
<1>6. stream = {} => r.bridge \notin known
  BY <1>1 DEF MemOK
<1> HIDE DEF p
<1>7. CanAccept(r) <=> Acc(stream, p)
  BY <1>5, <1>6 DEF CanAccept, Acc
<1> QED BY <1>2, <1>7 DEF NextRecord, p

LEMMA CursorWriteIs ==
  ASSUME Book, NEW g \in Generations, pass[g].at < Len(log)
  PROVE  LET w == CursorWrite(g) IN
         /\ w \in Writes /\ w.gen = g /\ ~w.init /\ w.st = "queued"
         /\ w.cursor.offset = pass[g].at + 1 /\ w.cursor.stream = StreamAt(pass[g].at + 1)
         /\ pass[g].at + 1 \in 1 .. Len(log)
<1> DEFINE at == pass[g].at + 1
           s == [bridge |-> log[at].bridge, seq |-> log[at].seq]
           c == [offset |-> at, stream |-> {s}]
<1>1. at \in Nat /\ at \in 1 .. Len(log) /\ log[at] \in Records
  BY LiveFacts, SequenceFacts, SMTT(60) DEF Book
<1>2. CursorWrite(g) = [gen |-> g, init |-> FALSE, st |-> "queued", cursor |-> c]
  BY DEF CursorWrite
<1> HIDE DEF at
<1>3. s \in Streams
  BY <1>1 DEF Records, Streams
<1>4. {s} = StreamAt(at)
  BY DEF StreamAt
<1> HIDE DEF s
<1>5. c \in Cursors /\ c.offset = at /\ c.stream = {s}
  BY <1>1, <1>3 DEF Cursors
<1> HIDE DEF c
<1>6. CursorWrite(g) \in Writes
  BY <1>2, <1>5 DEF Writes
<1>7. /\ CursorWrite(g).gen = g /\ ~CursorWrite(g).init /\ CursorWrite(g).st = "queued"
      /\ CursorWrite(g).cursor.offset = at /\ CursorWrite(g).cursor.stream = StreamAt(at)
  <2>1. CursorWrite(g).gen = g /\ CursorWrite(g).st = "queued" /\ CursorWrite(g).cursor = c
    BY <1>2
  <2>2. ~CursorWrite(g).init
    BY <1>2
  <2> QED BY <1>4, <1>5, <2>1, <2>2
<1> QED BY <1>1, <1>6, <1>7 DEF at

\* A pass hands over the cursor behind its record.
LEMMA TakeBook ==
  ASSUME Book, NEW g \in Generations, live = g, pass[g].st \in {"read", "await"}, pass[g].at < Len(log),
         Acc(stream, pass[g].at + 1), Go(g, "persist", pass[g].at), writes' = Append(writes, CursorWrite(g)),
         UNCHANGED <<log, disk, live, gens, offset, stream, known, initOf, initRes, base, retired>>
  PROVE  /\ Book' /\ Scan' = Scan /\ Scan = pass[g].at
<1> DEFINE at == pass[g].at
<1>1. BookTypes /\ LogOK /\ PassOK /\ ChainOK /\ MemOK /\ gens \in Nat /\ Len(log) \in Nat
  BY LiveFacts DEF Book
<1>2. /\ Len(writes) \in Nat /\ \A i \in 1 .. Len(writes) : writes[i] \in Writes
      /\ at \in 0 .. Len(log) /\ at + 1 \in 1 .. Len(log) /\ g \in Nat \ {0} /\ g <= gens
      /\ pass[g].st # "persist"
  BY <1>1, SequenceFacts, LiveFacts
<1>3. PICK w \in Writes : /\ writes' = Append(writes, w) /\ w.gen = g /\ ~w.init /\ w.st = "queued"
                          /\ w.cursor.offset = at + 1 /\ w.cursor.stream = StreamAt(at + 1)
  BY CursorWriteIs
<1>4. /\ writes' \in Seq(Writes) /\ Len(writes') = Len(writes) + 1 /\ writes'[Len(writes')] = w
      /\ \A i \in 1 .. Len(writes) : writes'[i] = writes[i]
  BY <1>1, <1>3, AppendWrite
<1>5. /\ pass' \in [Generations -> Passes] /\ pass'[g].st = "persist" /\ pass'[g].at = at
      /\ \A h \in Generations : h # g => pass'[h] = pass[h]
  <2>1. [st |-> "persist", at |-> at] \in Passes
    BY <1>2 DEF Passes
  <2> QED BY <1>1, <2>1 DEF Go, BookTypes
<1> HIDE DEF at
<1>6. BookTypes' /\ LogOK'
  BY <1>1, <1>4, <1>5 DEF BookTypes, LogOK
<1>7. PassOK'
  <2> SUFFICES ASSUME NEW h \in Generations
               PROVE  /\ pass'[h].st # "idle" => h <= gens
                      /\ pass'[h].at <= Len(log)
                      /\ pass'[h].st \in {"await", "persist"} => pass'[h].at < Len(log)
    BY <1>1 DEF PassOK, Taken
  <2>1. CASE h = g
    BY <1>1, <1>2, <1>5, <2>1
  <2>2. CASE h # g
    BY <1>1, <1>5, <2>2 DEF PassOK, Taken
  <2> QED BY <2>1, <2>2
<1>8. \A v \in Writes : WriteOK(v) => WriteOK(v)' /\ (v.init \/ v.gen # g)
  <2> SUFFICES ASSUME NEW v \in Writes, WriteOK(v) PROVE WriteOK(v)' /\ (v.init \/ v.gen # g)
    OBVIOUS
  <2>1. v.gen \in Generations /\ (~v.init => v.gen # g)
    BY <1>2 DEF Writes, WriteOK
  <2> QED BY <1>5, <2>1 DEF WriteOK, Proper, StreamAt
<1>9. WriteOK(w)'
  BY <1>2, <1>3, <1>5 DEF WriteOK, Proper, StreamAt
<1>10. ChainOK'
  <2>1. \A i \in 1 .. Len(writes') : i \in 1 .. Len(writes) \/ i = Len(writes')
    BY <1>2, <1>4
  <2>2. ASSUME NEW i \in 1 .. Len(writes') PROVE WriteOK(writes[i])' /\ (i > 1 => writes'[i].st = "queued")
    <3>1. CASE i \in 1 .. Len(writes)
      <4>1. WriteOK(writes[i]) /\ writes[i] \in Writes /\ writes'[i] = writes[i] /\ (i > 1 => writes[i].st = "queued")
        BY <1>1, <1>2, <1>4, <3>1 DEF ChainOK
      <4>2. PICK v \in Writes : v = writes'[i] /\ v = writes[i]
        BY <4>1
      <4>3. WriteOK(v)'
        BY <1>8, <4>1, <4>2
      <4> QED BY <4>1, <4>2, <4>3 DEF WriteOK, Proper, StreamAt
    <3>2. CASE i = Len(writes')
      BY <1>3, <1>4, <1>9, <3>2 DEF WriteOK, Proper, StreamAt
    <3> QED BY <2>1, <3>1, <3>2
  <2>3. ASSUME NEW i \in 1 .. Len(writes'), NEW j \in 1 .. Len(writes')
        PROVE  /\ i < j /\ writes'[j].init => writes'[i].gen < writes'[j].gen
               /\ ~writes'[i].init /\ ~writes'[j].init /\ writes'[i].gen = writes'[j].gen => i = j
    <3>1. CASE i \in 1 .. Len(writes) /\ j \in 1 .. Len(writes)
      BY <1>1, <1>4, <3>1 DEF ChainOK
    <3>2. CASE i \in 1 .. Len(writes) /\ j = Len(writes')
      <4>1. writes[i].init \/ writes[i].gen # g
        BY <1>1, <1>2, <1>8, <3>2 DEF ChainOK
      <4> QED BY <1>3, <1>4, <3>2, <4>1
    <3>3. CASE i = Len(writes') /\ j \in 1 .. Len(writes)
      <4>1. writes[j].init \/ writes[j].gen # g
        BY <1>1, <1>2, <1>8, <3>3 DEF ChainOK
      <4> QED BY <1>2, <1>3, <1>4, <3>3, <4>1
    <3>4. CASE i = Len(writes') /\ j = Len(writes')
      BY <1>2, <1>4, <3>4
    <3> QED BY <2>1, <3>1, <3>2, <3>3, <3>4
  <2> QED BY <2>2, <2>3 DEF ChainOK
<1>11. Scan = at /\ Scan' = at
  BY <1>2, <1>5 DEF Scan, Scanning, at
<1>12. MemOK'
  <2>1. \A c \in disk : Proper(c)'
    BY <1>1 DEF MemOK, Proper, StreamAt
  <2> QED BY <1>1, <1>2, <1>5, <1>11, <2>1 DEF MemOK, Taken, Acc, Seen, at
<1> QED BY <1>6, <1>7, <1>10, <1>11, <1>12 DEF Book, at

\* The head of the chain goes on: it starts, or lands in the cursor file.
LEMMA HeadBook ==
  ASSUME Book, writes # <<>>, NEW st \in {"running", "landed"},
         writes' = [writes EXCEPT ![1].st = st],
         st = "landed" => disk' = {writes[1].cursor},
         st = "running" => disk' = disk,
         UNCHANGED <<log, live, gens, offset, stream, known, initOf, initRes, pass, base, retired>>
  PROVE  /\ Book' /\ Scan' = Scan
         /\ Len(writes') = Len(writes) /\ writes'[1] \in Writes /\ writes'[1].st = st
         /\ writes'[1].gen = writes[1].gen /\ writes'[1].init = writes[1].init
         /\ writes'[1].cursor = writes[1].cursor
         /\ \A i \in 2 .. Len(writes) : writes'[i] = writes[i]
<1>1. BookTypes /\ LogOK /\ PassOK /\ ChainOK /\ MemOK /\ gens \in Nat /\ Len(log) \in Nat
  BY LiveFacts DEF Book
<1>2. /\ Len(writes) \in Nat /\ \A i \in 1 .. Len(writes) : writes[i] \in Writes
      /\ writes \in Seq(Writes) /\ Len(writes) > 0
  BY <1>1, SequenceFacts, WithoutIs DEF BookTypes
<1>3. PICK w \in Writes : w = writes[1] /\ WriteOK(w) /\ w.cursor \in Cursors
  BY <1>1, <1>2 DEF ChainOK, Writes
<1>4. PICK v \in Writes : /\ v \in Writes /\ v = [w EXCEPT !.st = st]
                          /\ v.st = st /\ v.gen = w.gen /\ v.init = w.init /\ v.cursor = w.cursor
  <2> DEFINE u == [w EXCEPT !.st = st]
  <2>1. u \in Writes /\ u.st = st /\ u.gen = w.gen /\ u.init = w.init /\ u.cursor = w.cursor
    BY DEF Writes
  <2> QED BY <2>1
<1>5. writes' = [writes EXCEPT ![1] = v]
  BY <1>3, <1>4
<1>6. /\ writes' \in Seq(Writes) /\ Len(writes') = Len(writes) /\ writes'[1] = v
      /\ \A i \in 1 .. Len(writes) : i # 1 => writes'[i] = writes[i]
  <2>1. 1 \in 1 .. Len(writes)
    BY <1>2
  <2> HIDE <1>4
  <2>2. v \in Writes /\ writes \in Seq(Writes)
    BY <1>2
  <2> QED BY <1>5, <2>1, <2>2, ExceptSeq
<1>7. BookTypes'
  BY <1>1, <1>3, <1>6 DEF BookTypes, One
<1>8. LogOK' /\ PassOK'
  BY <1>1 DEF LogOK, PassOK, Taken
<1>9. \A u \in Writes : WriteOK(u) /\ u.st = "queued" => WriteOK(u)'
  BY DEF WriteOK, Proper, StreamAt
<1>10. WriteOK(v)'
  BY <1>3, <1>4 DEF WriteOK, Proper, StreamAt
<1>11. ChainOK'
  <2>1. ASSUME NEW i \in 1 .. Len(writes') PROVE WriteOK(writes[i])' /\ (i > 1 => writes'[i].st = "queued")
    <3>1. CASE i = 1
      <4>1. writes'[i] = v /\ ~(i > 1)
        BY <1>6, <3>1
      <4> HIDE <1>6
      <4> QED BY <1>10, <4>1 DEF WriteOK, Proper, StreamAt
    <3>2. CASE i # 1
      <4>1. WriteOK(writes[i]) /\ writes[i] \in Writes /\ writes'[i] = writes[i] /\ i > 1 /\ writes[i].st = "queued"
        BY <1>1, <1>2, <1>6, <3>2 DEF ChainOK
      <4>2. PICK u \in Writes : u = writes'[i] /\ u = writes[i]
        BY <4>1
      <4>3. WriteOK(u)'
        BY <1>9, <4>1, <4>2
      <4> QED BY <4>1, <4>2, <4>3 DEF WriteOK, Proper, StreamAt
    <3> QED BY <3>1, <3>2
  <2>2. \A i \in 1 .. Len(writes') : i \in 1 .. Len(writes) /\ writes'[i].gen = writes[i].gen /\ writes'[i].init = writes[i].init
    BY <1>3, <1>4, <1>6
  <2>3. ASSUME NEW i \in 1 .. Len(writes'), NEW j \in 1 .. Len(writes')
        PROVE  /\ i < j /\ writes'[j].init => writes'[i].gen < writes'[j].gen
               /\ ~writes'[i].init /\ ~writes'[j].init /\ writes'[i].gen = writes'[j].gen => i = j
    BY <1>1, <2>2 DEF ChainOK
  <2> QED BY <2>1, <2>3 DEF ChainOK
<1>12. Scan' = Scan
  BY DEF Scan, Scanning
<1>13. MemOK'
  <2>1. Proper(w.cursor)
    BY <1>3 DEF WriteOK
  <2>2. \A c \in disk' : Proper(c)'
    <3> SUFFICES ASSUME NEW c \in disk' PROVE Proper(c)
      BY DEF Proper, StreamAt
    <3>1. c = w.cursor \/ c \in disk
      BY <1>3
    <3> QED BY <1>1, <2>1, <3>1 DEF MemOK
  <2>3. HasCursor => disk' # {}
    BY <1>1 DEF MemOK
  <2> QED BY <1>1, <1>12, <2>2, <2>3 DEF MemOK, Taken, Acc, Seen
<1> QED BY <1>2, <1>3, <1>4, <1>6, <1>7, <1>8, <1>11, <1>12, <1>13 DEF Book

\* What the end of the write at the head of the chain changes.
WriteEnds(w, ok) ==
  /\ writes' = Without(1) /\ w = writes[1] /\ w.gen <= gens
  /\ UNCHANGED <<log, disk, live, gens, initOf, base>>
  /\ \/ /\ w.init /\ ~HasCursor /\ w.cursor.stream = {}
        /\ UNCHANGED <<pass, offset, stream, known, retired>>
        /\ initRes' = [initRes EXCEPT ![w.gen] = IF ok THEN "ok" ELSE "failed"]
     \/ /\ ~w.init /\ initRes' = initRes /\ pass[w.gen].st = "persist"
        /\ w.cursor.offset = pass[w.gen].at + 1 /\ w.cursor.stream = StreamAt(w.cursor.offset)
        /\ \/ /\ ok /\ live = w.gen /\ Go(w.gen, "read", w.cursor.offset) /\ offset' = offset
              /\ stream' = w.cursor.stream /\ known' = known \cup {s.bridge : s \in w.cursor.stream}
              /\ retired' = retired \cup ({s.bridge : s \in stream} \ {s.bridge : s \in w.cursor.stream})
           \/ /\ ~ok /\ EndPass(w.gen)
              /\ offset' = IF live = w.gen THEN pass[w.gen].at ELSE offset
              /\ UNCHANGED <<stream, known, retired>>

LEMMA WrittenIs ==
  ASSUME Book, writes # <<>>, NEW ok \in BOOLEAN, ok => live = writes[1].gen, Written(1, ok),
         UNCHANGED <<log, disk, live, gens, initOf, base>>
  PROVE  \E w \in Writes : WriteOK(w) /\ WriteEnds(w, ok)
<1>1. PICK w \in Writes : w = writes[1] /\ WriteOK(w) /\ w.gen \in Generations /\ w.cursor.offset \in Nat
  <2>1. Len(writes) > 0 /\ Len(writes) \in Nat /\ writes[1] \in Writes /\ WriteOK(writes[1])
    BY SequenceFacts, WithoutIs DEF Book, ChainOK
  <2> QED BY <2>1 DEF Writes, Cursors
<1>2. writes' = Without(1) /\ w.gen <= gens
  BY <1>1 DEF Written, WriteOK
<1>3. CASE w.init
  <2>1. initRes' = [initRes EXCEPT ![w.gen] = IF ok THEN "ok" ELSE "failed"] /\ UNCHANGED <<pass, offset, stream, known, retired>>
    BY <1>1, <1>3 DEF Written
  <2> QED BY <1>1, <1>2, <1>3, <2>1 DEF WriteEnds, WriteOK
<1>4. CASE ~w.init
  <2>1. /\ initRes' = initRes /\ pass[w.gen].st = "persist"
        /\ w.cursor.offset = pass[w.gen].at + 1 /\ w.cursor.stream = StreamAt(w.cursor.offset)
    BY <1>1, <1>4 DEF Written, WriteOK
  <2>2. w.cursor.offset - 1 = pass[w.gen].at
    BY <1>1, <2>1, LiveFacts
  <2>3. CASE ok
    BY <1>1, <1>2, <1>4, <2>1, <2>3 DEF Written, WriteEnds
  <2>4. CASE ~ok
    BY <1>1, <1>2, <1>4, <2>1, <2>2, <2>4 DEF Written, WriteEnds, HoldAt
  <2> QED BY <2>3, <2>4
<1> QED BY <1>1, <1>3, <1>4

LEMMA EndBook ==
  ASSUME Book, writes # <<>>, NEW ok \in BOOLEAN, NEW w \in Writes, WriteOK(w), WriteEnds(w, ok)
  PROVE  /\ Book'
         /\ w.init => Scan' = Scan
         /\ ~w.init => IF ok THEN /\ live # 0 /\ Scan = pass[live].at /\ Scan' = Scan + 1 /\ w.cursor.offset = Scan + 1
                                  /\ pass'[live].at = Scan + 1 /\ Acc(stream, Scan + 1)
                       ELSE Scan' = Scan
         /\ \A g \in Generations : g # w.gen \/ w.init => pass'[g] = pass[g]
         /\ ~w.init /\ ~ok => pass'[w.gen].st = "idle"
<1>1. BookTypes /\ LogOK /\ PassOK /\ ChainOK /\ MemOK /\ gens \in Nat /\ Len(log) \in Nat
  BY LiveFacts DEF Book
<1>2. /\ Len(writes) \in Nat /\ \A i \in 1 .. Len(writes) : writes[i] \in Writes
      /\ writes' \in Seq(Writes) /\ Len(writes) > 0 /\ Len(writes') = Len(writes) - 1
      /\ \A i \in 1 .. Len(writes') : writes'[i] = writes[i + 1]
  BY <1>1, SequenceFacts, WithoutIs DEF WriteEnds
<1>3. /\ w.gen \in Generations /\ w.gen \in Nat \ {0} /\ w.cursor \in Cursors /\ w.cursor.offset \in Nat
      /\ w.cursor.stream \subseteq Streams
      /\ w = writes[1] /\ log' = log /\ disk' = disk /\ live' = live /\ gens' = gens /\ initOf' = initOf /\ base' = base
  BY LiveFacts DEF Writes, Cursors, WriteEnds
<1>4. CASE w.init
  <2>1. pass' = pass /\ offset' = offset /\ stream' = stream /\ known' = known /\ retired' = retired /\ Scan' = Scan
    BY <1>3, <1>4 DEF WriteEnds, Scan, Scanning
  <2>2. initRes' \in [Generations -> {"none", "pending", "ok", "failed"}]
    BY <1>1, <1>3, <1>4 DEF WriteEnds, BookTypes
  <2>3. BookTypes' /\ LogOK' /\ PassOK'
    BY <1>1, <1>2, <1>3, <2>1, <2>2 DEF BookTypes, LogOK, PassOK, Taken
  <2>4. \A v \in Writes : WriteOK(v) => WriteOK(v)'
    BY <1>3, <2>1 DEF WriteOK, Proper, StreamAt
  <2>5. MemOK'
    BY <1>1, <1>3, <2>1 DEF MemOK, Proper, StreamAt, Taken, Acc, Seen
  <2>6. ChainOK'
    <3>1. \A i \in 1 .. Len(writes') : i + 1 \in 1 .. Len(writes) /\ i + 1 > 1
      BY <1>2
    <3>2. ASSUME NEW i \in 1 .. Len(writes') PROVE WriteOK(writes[i])' /\ (i > 1 => writes'[i].st = "queued")
      <4>1. PICK v \in Writes : v = writes'[i] /\ v = writes[i + 1]
        BY <1>2, <3>1
      <4>2. WriteOK(v) /\ v.st = "queued"
        BY <1>1, <3>1, <4>1 DEF ChainOK
      <4> QED BY <2>4, <4>1, <4>2 DEF WriteOK, Proper, StreamAt
    <3>3. ASSUME NEW i \in 1 .. Len(writes'), NEW j \in 1 .. Len(writes')
          PROVE  /\ i < j /\ writes'[j].init => writes'[i].gen < writes'[j].gen
                 /\ ~writes'[i].init /\ ~writes'[j].init /\ writes'[i].gen = writes'[j].gen => i = j
      <4>1. i + 1 \in 1 .. Len(writes) /\ j + 1 \in 1 .. Len(writes) /\ (i < j => i + 1 < j + 1) /\ (i + 1 = j + 1 => i = j)
        BY <3>1
      <4> QED BY <1>1, <1>2, <4>1 DEF ChainOK
    <3> QED BY <3>2, <3>3 DEF ChainOK
  <2> QED BY <1>4, <2>1, <2>3, <2>5, <2>6 DEF Book
<1>5. CASE ~w.init
  <2> DEFINE st == IF ok THEN "read" ELSE "idle"
             at == IF ok THEN w.cursor.offset ELSE 0
  <2>1. /\ Go(w.gen, st, at) /\ st \in {"read", "idle"} /\ at \in 0 .. Len(log) /\ initRes' = initRes
        /\ pass[w.gen].st = "persist" /\ w.gen <= gens
    <3>1. w.cursor.offset <= Len(log) /\ initRes' = initRes /\ pass[w.gen].st = "persist" /\ w.gen <= gens
      BY <1>5 DEF WriteEnds, WriteOK, Proper
    <3>2. CASE ok
      BY <1>1, <1>3, <1>5, <3>1, <3>2 DEF WriteEnds
    <3>3. CASE ~ok
      BY <1>1, <1>3, <1>5, <3>1, <3>3 DEF WriteEnds, EndPass
    <3> QED BY <3>2, <3>3
  <2>2. (ok => st = "read" /\ at = w.cursor.offset) /\ (~ok => st = "idle" /\ at = 0)
    OBVIOUS
  <2> HIDE DEF st, at
  <2>3. /\ pass' \in [Generations -> Passes] /\ pass'[w.gen].st = st /\ pass'[w.gen].at = at
        /\ \A h \in Generations : h # w.gen => pass'[h] = pass[h]
    <3>1. [st |-> st, at |-> at] \in Passes
      BY <1>1, <2>1 DEF Passes
    <3> QED BY <1>1, <1>3, <2>1, <3>1 DEF Go, BookTypes
  <2>4. /\ pass[w.gen].at \in 0 .. Len(log) /\ Taken(w.gen) /\ pass[w.gen].at + 1 \in 1 .. Len(log)
        /\ w.cursor.offset = pass[w.gen].at + 1
    BY <1>3, <1>5, <2>1, LiveFacts DEF WriteEnds, Taken
  <2>5. PassOK'
    <3> SUFFICES ASSUME NEW h \in Generations
                 PROVE  /\ pass'[h].st # "idle" => h <= gens
                        /\ pass'[h].at <= Len(log)
                        /\ pass'[h].st \in {"await", "persist"} => pass'[h].at < Len(log)
      BY <1>3 DEF PassOK, Taken
    <3>1. CASE h = w.gen
      BY <1>1, <2>1, <2>3, <3>1
    <3>2. CASE h # w.gen
      BY <1>1, <2>3, <3>2 DEF PassOK, Taken
    <3> QED BY <3>1, <3>2
  <2>6. \A i \in 1 .. Len(writes') : WriteOK(writes[i])'
    <3> SUFFICES ASSUME NEW i \in 1 .. Len(writes') PROVE WriteOK(writes[i])'
      OBVIOUS
    <3>1. i + 1 \in 1 .. Len(writes) /\ 1 \in 1 .. Len(writes) /\ i + 1 # 1
      BY <1>2
    <3>2. PICK v \in Writes : v = writes'[i] /\ v = writes[i + 1]
      BY <1>2, <3>1
    <3>3. WriteOK(v) /\ (v.init \/ v.gen # w.gen) /\ v.gen \in Generations
      BY <1>1, <1>3, <1>5, <3>1, <3>2 DEF ChainOK, Writes
    <3> QED BY <1>3, <2>3, <3>2, <3>3 DEF WriteOK, Proper, StreamAt
  <2>7. ChainOK'
    <3>1. \A i \in 1 .. Len(writes') : i + 1 \in 1 .. Len(writes) /\ i + 1 > 1
      BY <1>2
    <3>2. ASSUME NEW i \in 1 .. Len(writes') PROVE i > 1 => writes'[i].st = "queued"
      BY <1>1, <1>2, <3>1 DEF ChainOK
    <3>3. ASSUME NEW i \in 1 .. Len(writes'), NEW j \in 1 .. Len(writes')
          PROVE  /\ i < j /\ writes'[j].init => writes'[i].gen < writes'[j].gen
                 /\ ~writes'[i].init /\ ~writes'[j].init /\ writes'[i].gen = writes'[j].gen => i = j
      <4>1. i + 1 \in 1 .. Len(writes) /\ j + 1 \in 1 .. Len(writes) /\ (i < j => i + 1 < j + 1) /\ (i + 1 = j + 1 => i = j)
        BY <3>1
      <4> QED BY <1>1, <1>2, <4>1 DEF ChainOK
    <3> QED BY <2>6, <3>2, <3>3 DEF ChainOK
  <2>8. \A c \in disk : Proper(c)'
    BY <1>1, <1>3 DEF MemOK, Proper, StreamAt
  <2>9. CASE ok
    <3> DEFINE p == w.cursor.offset
    <3>1. /\ live = w.gen /\ offset' = offset /\ stream' = StreamAt(p) /\ w.cursor.stream = StreamAt(p)
          /\ known' = known \cup {s.bridge : s \in w.cursor.stream}
          /\ retired' = retired \cup ({s.bridge : s \in stream} \ {s.bridge : s \in w.cursor.stream})
      BY <1>5, <2>9 DEF WriteEnds
    <3>2. live # 0 /\ Scan = pass[live].at /\ Scan' = Scan + 1 /\ p = Scan + 1 /\ pass'[live].at = Scan + 1 /\ Acc(stream, Scan + 1)
      <4>1. live # 0 /\ Scan = pass[live].at /\ p = Scan + 1
        BY <1>3, <2>1, <2>4, <3>1 DEF Scan, Scanning
      <4>2. Scan' = Scan + 1 /\ pass'[live].at = Scan + 1
        BY <1>3, <2>2, <2>3, <2>9, <3>1, <4>1 DEF Scan, Scanning
      <4> QED BY <1>1, <2>4, <3>1, <4>1, <4>2 DEF MemOK
    <3>3. p \in 1 .. Len(log) /\ log[p] \in Records /\ log[p].bridge \in Bridges
      BY <1>1, <2>4, SequenceFacts DEF Records
    <3> HIDE DEF p
    <3>4. /\ stream' = {[bridge |-> log[p].bridge, seq |-> log[p].seq]}
          /\ \A b : b \in known' <=> b \in known \/ b = log[p].bridge
      BY <3>1 DEF StreamAt
    <3>5. /\ stream' \subseteq Streams /\ One(stream') /\ known' \subseteq Bridges /\ retired' \subseteq Bridges
      <4>1. stream' \subseteq Streams
        BY <1>3, <3>1
      <4>2. {s.bridge : s \in stream} \subseteq Bridges
        BY <1>1 DEF BookTypes, Streams
      <4> QED BY <1>1, <3>1, <3>3, <3>4, <4>1, <4>2 DEF BookTypes, One
    <3>6. BookTypes' /\ LogOK'
      BY <1>1, <1>2, <1>3, <2>1, <2>3, <3>1, <3>5 DEF BookTypes, LogOK, One
    <3>7. \A b \in known' : Seen(b, Scan)'
      <4>1. Scan \in Nat
        BY LiveFacts
      <4> QED BY <1>1, <1>3, <3>2, <3>3, <3>4, <4>1 DEF MemOK, Seen
    <3>8. MemOK'
      <4>1. stream' # {} /\ \A s \in stream' : s.bridge \in known'
        BY <3>4
      <4>2. ~(pass'[live].st \in {"await", "persist"})
        BY <2>2, <2>3, <2>9, <3>1
      <4> QED BY <1>1, <1>3, <2>8, <3>2, <3>7, <4>1, <4>2 DEF MemOK, Taken
    <3> QED BY <1>5, <2>3, <2>5, <2>7, <2>9, <3>2, <3>6, <3>8 DEF Book, p
  <2>10. CASE ~ok
    <3>1. /\ offset' = IF live = w.gen THEN pass[w.gen].at ELSE offset
          /\ stream' = stream /\ known' = known /\ retired' = retired
      BY <1>5, <2>10 DEF WriteEnds
    <3>2. Scan' = Scan
      <4>1. CASE live = w.gen
        BY <1>3, <2>1, <2>2, <2>3, <2>10, <3>1, <4>1 DEF Scan, Scanning
      <4>2. CASE live # w.gen
        <5>1. live # 0 => pass'[live] = pass[live]
          BY <2>3, <4>2, LiveFacts
        <5> QED BY <1>3, <3>1, <4>2, <5>1 DEF Scan, Scanning
      <4> QED BY <4>1, <4>2
    <3>3. BookTypes' /\ LogOK'
      BY <1>1, <1>2, <1>3, <2>1, <2>3, <2>4, <3>1 DEF BookTypes, LogOK, One
    <3>4. live # 0 /\ Taken(live)' => Acc(stream, pass[live].at + 1)'
      <4>1. CASE live = w.gen
        BY <1>3, <2>2, <2>3, <2>10, <4>1 DEF Taken
      <4>2. CASE live # w.gen
        <5>1. live # 0 => pass'[live] = pass[live]
          BY <2>3, <4>2, LiveFacts
        <5> QED BY <1>1, <1>3, <3>1, <5>1 DEF MemOK, Taken, Acc
      <4> QED BY <4>1, <4>2
    <3>5. MemOK'
      BY <1>1, <1>3, <2>8, <3>1, <3>2, <3>4 DEF MemOK, Seen
    <3> QED BY <1>5, <2>2, <2>3, <2>5, <2>7, <2>10, <3>2, <3>3, <3>5 DEF Book
  <2> QED BY <2>9, <2>10
<1> QED BY <1>4, <1>5

-----------------------------------------------------------------------------
(* The queues, and the step of every action in the terms used below *)

IsSeq(s) == Len(s) \in Nat /\ s = [i \in 1 .. Len(s) |-> s[i]]

QueuesOK ==
  /\ IsSeq(qs) /\ \A k \in 1 .. Len(qs) : Shape(qs[k])
  /\ cur \in 0 .. Len(qs) /\ settled \subseteq Ids
  /\ done \subseteq Positions /\ ignored \subseteq Positions /\ last \in 0 .. MaxRecords
  /\ \A k \in 1 .. Len(qs) : \A id \in Held(qs[k]) : id[1] <= gens /\ id[2] <= Len(log)
  /\ \A id \in settled : id[1] <= gens

LEMMA AppendAny ==
  ASSUME NEW s, IsSeq(s), NEW e
  PROVE  /\ IsSeq(Append(s, e)) /\ Len(Append(s, e)) = Len(s) + 1 /\ Append(s, e)[Len(s) + 1] = e
         /\ \A i \in 1 .. Len(s) : Append(s, e)[i] = s[i]
<1> DEFINE S == {s[i] : i \in 1 .. Len(s)} \cup {e}
           t == Append(s, e)
<1>1. s \in Seq(S) /\ e \in S
  <2>1. s \in [1 .. Len(s) -> S]
    BY DEF IsSeq
  <2> QED BY <2>1, SeqDef DEF IsSeq
<1> HIDE DEF S
<1>2. t \in Seq(S) /\ Len(t) = Len(s) + 1 /\ t[Len(s) + 1] = e /\ \A i \in 1 .. Len(s) : t[i] = s[i]
  BY <1>1, AppendProperties
<1> HIDE DEF t
<1>3. Len(t) \in Nat /\ t \in [1 .. Len(t) -> S]
  BY <1>2, LenProperties
<1>4. t = [i \in 1 .. Len(t) |-> t[i]]
  BY <1>3
<1> QED BY <1>2, <1>3, <1>4 DEF IsSeq, t

LEMMA LenIs ==
  ASSUME NEW n \in Nat, NEW t, t = [i \in 1 .. n |-> t[i]]
  PROVE  IsSeq(t) /\ Len(t) = n
<1> DEFINE S == {t[i] : i \in 1 .. n}
<1>1. t \in [1 .. n -> S]
  OBVIOUS
<1> HIDE DEF S
<1>2. t \in Seq(S) /\ DOMAIN t = 1 .. n
  BY <1>1, SeqDef
<1>3. Len(t) \in Nat /\ DOMAIN t = 1 .. Len(t)
  BY <1>2, LenProperties
<1>4. Len(t) = n
  BY <1>2, <1>3
<1> QED BY <1>4 DEF IsSeq

LEMMA ReplacedIs ==
  ASSUME IsSeq(qs), NEW k \in 1 .. Len(qs), NEW d, qs' = [qs EXCEPT ![k] = d]
  PROVE  /\ IsSeq(qs') /\ Len(qs') = Len(qs) /\ qs'[k] = d
         /\ \A i \in 1 .. Len(qs) : i # k => qs'[i] = qs[i]
<1> DEFINE n == Len(qs)
<1>1. DOMAIN qs = 1 .. n /\ n \in Nat /\ k \in 1 .. n
  BY DEF IsSeq
<1> HIDE DEF n
<1>2. qs' = [i \in 1 .. n |-> IF i = k THEN d ELSE qs[i]]
  BY <1>1
<1>3. qs' = [i \in 1 .. n |-> qs'[i]] /\ qs'[k] = d /\ \A i \in 1 .. n : i # k => qs'[i] = qs[i]
  BY <1>1, <1>2
<1>4. IsSeq(qs') /\ Len(qs') = n
  BY <1>1, <1>3, LenIs
<1> QED BY <1>3, <1>4 DEF n

outcome == <<done, ignored, last>>

GrowStep(r) ==
  /\ Grown(r) /\ (r.kind = "session_ready" => \A p \in 1 .. Len(log) : log[p].bridge # r.bridge)
  /\ UNCHANGED <<disk, live, gens, offset, stream, known, initOf, initRes, pass, writes, base, retired,
                 queues, outcome>>

StillStep == UNCHANGED <<booked, queues, outcome>>

StopStep ==
  /\ StoppedTailer /\ cur' \in {0, cur}
  /\ UNCHANGED <<log, disk, gens, initRes, pass, writes, base, retired, qs, settled, outcome>>

\* A pass that holds no record goes on, and looks at no record.
MoveStep(g, st, at) ==
  /\ pass[g].st \in {"idle", "init", "read"} /\ Go(g, st, at) /\ (st # "idle" => g <= gens)
  /\ Scan' = Scan /\ offset' \in 0 .. Len(log) /\ initOf' \in {0, initOf}
  /\ (st = "read" => at = offset) /\ offset' = IF pass[g].st = "read" /\ live = g THEN pass[g].at ELSE offset
  /\ pass[g].st = "idle" => initOf' = initOf /\ live = g /\ (initOf # 0 => st = "init")
  /\ pass[g].st = "init" => initRes[g] # "pending"
  /\ UNCHANGED <<log, disk, live, gens, stream, known, initRes, writes, base, retired, queues, outcome>>

\* The live pass looks at the record behind the scan.
AtRecord(g) == live = g /\ Reading(g) /\ pass[g].at < Len(log) /\ Scan = pass[g].at

SkipStep(g) ==
  /\ AtRecord(g) /\ ~Acc(stream, pass[g].at + 1)
  /\ Go(g, "read", pass[g].at + 1) /\ Scan' = Scan + 1
  /\ ignored' = ignored \cup {pass[g].at + 1}
  /\ UNCHANGED <<log, disk, live, gens, offset, stream, known, initOf, initRes, writes, base, retired,
                 queues, done, last>>

OccupyStep(g) ==
  /\ AtRecord(g) /\ Acc(stream, pass[g].at + 1) /\ log[pass[g].at + 1].kind = "unknown"
  /\ Go(g, "persist", pass[g].at) /\ writes' = Append(writes, CursorWrite(g))
  /\ ignored' = ignored \cup {pass[g].at + 1}
  /\ UNCHANGED <<log, disk, live, gens, offset, stream, known, initOf, initRes, base, retired,
                 queues, done, last>>

\* The queue of the terminal, and its place among all queues, if one is made on demand.
Mine == IF cur = 0 THEN NewQueue ELSE qs[cur]
Place == IF cur = 0 THEN Len(qs) + 1 ELSE cur
Arrival(g) == NewItem(<<g, pass[g].at + 1>>, QueueKind(NextRecord(g)), 1)

AdmitStep(g) ==
  /\ AtRecord(g) /\ Acc(stream, pass[g].at + 1) /\ log[pass[g].at + 1].kind # "unknown"
  /\ Go(g, "await", pass[g].at)
  /\ cur' = Place /\ cur' \in 1 .. Len(qs') /\ Arrival(g) \in Entry
  /\ IsSeq(qs') /\ Len(qs') >= Len(qs) /\ qs'[cur'] = Admitted(Mine, Arrival(g))
  /\ \A k \in 1 .. Len(qs') : k # cur' => k \in 1 .. Len(qs) /\ qs'[k] = qs[k]
  /\ settled' = settled \cup Superseded(Mine, Arrival(g))
  /\ done' = done \cup {i[2] : i \in Superseded(Mine, Arrival(g))}
  /\ UNCHANGED <<log, disk, live, gens, offset, stream, known, initOf, initRes, writes, base, retired,
                 ignored, last>>

HoldStep(g) ==
  /\ AtRecord(g) /\ EndPass(g) /\ offset' = pass[g].at /\ Scan' = Scan
  /\ IsSeq(qs') /\ cur' \in 0 .. Len(qs') /\ Len(qs') >= Len(qs)
  /\ cur # 0 => cur' = cur
  /\ \A k \in 1 .. Len(qs') : (k \in 1 .. Len(qs) /\ qs'[k] = qs[k]) \/ qs'[k] = NewQueue
  /\ cur = 0 /\ cur' # 0 => qs'[cur'] = NewQueue
  /\ \A k \in 1 .. Len(qs) : qs'[k] = qs[k]
  /\ UNCHANGED <<log, disk, live, gens, stream, known, initOf, initRes, writes, base, retired,
                 settled, outcome>>

TakeStep(g) ==
  /\ live = g /\ Acknowledged(g) /\ pass[g].at < Len(log) /\ Acc(stream, pass[g].at + 1)
  /\ Go(g, "persist", pass[g].at) /\ writes' = Append(writes, CursorWrite(g))
  /\ settled' = settled \ {<<g, pass[g].at + 1>>}
  /\ UNCHANGED <<log, disk, live, gens, offset, stream, known, initOf, initRes, base, retired,
                 qs, cur, outcome>>

DropStep(g) ==
  /\ live # g /\ Acknowledged(g) /\ EndPass(g) /\ Scan' = Scan
  /\ settled' = settled \ {<<g, pass[g].at + 1>>}
  /\ UNCHANGED <<log, disk, live, gens, offset, stream, known, initOf, initRes, writes, base, retired,
                 qs, cur, outcome>>

HeadStep(st) ==
  /\ writes # <<>> /\ writes' = [writes EXCEPT ![1].st = st]
  /\ st = "running" => writes[1].st = "queued" /\ live = writes[1].gen /\ disk' = disk
  /\ st = "landed" => writes[1].st = "running" /\ disk' = {writes[1].cursor}
  /\ UNCHANGED <<log, live, gens, offset, stream, known, initOf, initRes, pass, base, retired,
                 queues, outcome>>

EndStep(w, ok) ==
  /\ writes # <<>> /\ WriteOK(w) /\ WriteEnds(w, ok)
  /\ ok => w.st = "landed" /\ live = w.gen
  /\ ~ok => w.st = "running" \/ live # w.gen
  /\ UNCHANGED <<queues, outcome>>

SettleStep(k, e) ==
  /\ qs' = [qs EXCEPT ![k] = Succeeded(qs[k], e)]
  /\ settled' = settled \cup {e.id}
  /\ done' = done \cup {e.id[2]} /\ last' = IF k = cur THEN e.id[2] ELSE last
  /\ UNCHANGED <<booked, cur, ignored>>

AgainStep(k, r) ==
  /\ qs' = [qs EXCEPT ![k] = r]
  /\ Shape(r) /\ Held(r) \subseteq Held(qs[k])
  /\ MaxInFlight = 1 /\ Single(qs[k]) =>
       Single(r) /\ Size(r) = Size(qs[k]) /\ \A i \in 1 .. Size(r) : IdAt(r, i) = IdAt(qs[k], i)
  /\ UNCHANGED <<booked, cur, settled, outcome>>

LEMMA QueueFacts ==
  ASSUME QueuesOK
  PROVE  /\ Len(qs) \in Nat /\ DOMAIN qs = 1 .. Len(qs) /\ \A k \in 1 .. Len(qs) : Shape(qs[k])
         /\ cur \in 0 .. Len(qs) /\ IsSeq(qs) /\ Shape(Mine) /\ Place \in Nat \ {0}
         /\ \A k \in 1 .. Len(qs) : Held(qs[k]) \subseteq Ids
<1>1. IsSeq(qs) /\ Len(qs) \in Nat /\ (\A k \in 1 .. Len(qs) : Shape(qs[k])) /\ cur \in 0 .. Len(qs)
  BY DEF QueuesOK, IsSeq
<1>2. DOMAIN qs = 1 .. Len(qs)
  BY <1>1 DEF IsSeq
<1>3. Shape(Mine) /\ Place \in Nat \ {0}
  BY <1>1, NewQueueIs DEF Mine, Place
<1>4. \A k \in 1 .. Len(qs) : Held(qs[k]) \subseteq Ids
  BY <1>1, ShapeFacts
<1> QED BY <1>1, <1>2, <1>3, <1>4

LEMMA PassTypes ==
  ASSUME Book, NEW g \in Generations, NEW st, NEW at, Go(g, st, at)
  PROVE  /\ pass'[g] = [st |-> st, at |-> at] /\ pass'[g].st = st /\ pass'[g].at = at
         /\ \A h \in Generations : h # g => pass'[h] = pass[h]
BY DEF Book, BookTypes, Go

LEMMA TailStep ==
  ASSUME Book, NEW g \in Generations, TailPass(g)
  PROVE  \E st \in {"idle", "init", "read"}, at \in 0 .. Len(log) : MoveStep(g, st, at)
<1> DEFINE st == IF initOf # 0 THEN "init" ELSE "read"
<1>1. /\ g = live /\ pass[g].st = "idle" /\ Go(g, st, offset)
      /\ UNCHANGED <<log, disk, live, gens, offset, stream, known, initOf, initRes, writes, base, retired, queues, outcome>>
  BY DEF TailPass, history, queues, outcome
<1>2. st \in {"idle", "init", "read"} /\ (initOf # 0 => st = "init")
  OBVIOUS
<1> HIDE DEF st
<1>3. offset \in 0 .. Len(log) /\ g <= gens /\ live # 0 /\ initOf \in {0, initOf}
  BY <1>1, LiveFacts
<1>4. Scan' = Scan
  BY <1>1, <1>3, PassTypes DEF Scan, Scanning
<1>5. MoveStep(g, st, offset)
  BY <1>1, <1>2, <1>3, <1>4 DEF MoveStep
<1> QED BY <1>2, <1>3, <1>5

LEMMA InitStep ==
  ASSUME Book, NEW g \in Generations, InitAwaited(g)
  PROVE  \E st \in {"idle", "init", "read"}, at \in 0 .. Len(log) : MoveStep(g, st, at)
<1>1. /\ pass[g].st = "init" /\ initRes[g] # "pending" /\ initOf' = 0
      /\ UNCHANGED <<log, disk, live, gens, stream, known, initRes, writes, base, retired, queues, outcome>>
  BY DEF InitAwaited, history, queues, outcome
<1>2. offset \in 0 .. Len(log) /\ 0 \in 0 .. Len(log) /\ g <= gens /\ (live # 0 => live \in Generations)
  BY <1>1, LiveFacts
<1>3. PICK st \in {"idle", "init", "read"}, at \in 0 .. Len(log) :
        Go(g, st, at) /\ offset' = offset /\ (st = "read" => at = offset)
  BY <1>2 DEF InitAwaited, EndPass, HoldAt
<1>4. Scan' = Scan
  <2>1. CASE live = g
    <3>1. pass'[g].st = st /\ pass'[g].at = at /\ live # 0
      <4>1. pass'[g].st = st /\ pass'[g].at = at
        BY <1>3 DEF Book, BookTypes, Go
      <4>2. live # 0
        BY <2>1, LiveFacts
      <4> QED BY <4>1, <4>2
    <3> QED BY <1>1, <1>3, <2>1, <3>1 DEF Scan, Scanning
  <2>2. CASE live # g
    <3>1. live # 0 => pass'[live] = pass[live]
      BY <1>2, <1>3, <2>2, PassTypes
    <3> QED BY <1>1, <1>3, <3>1 DEF Scan, Scanning
  <2> QED BY <2>1, <2>2
<1>5. MoveStep(g, st, at)
  BY <1>1, <1>2, <1>3, <1>4 DEF MoveStep
<1> QED BY <1>5

LEMMA EndsStep ==
  ASSUME Book, NEW g \in Generations, ReadEnds(g)
  PROVE  \E st \in {"idle", "init", "read"}, at \in 0 .. Len(log) : MoveStep(g, st, at)
<1>1. /\ pass[g].st = "read" /\ Go(g, "idle", 0) /\ initOf' = initOf
      /\ offset' = IF live = g THEN pass[g].at ELSE offset
      /\ UNCHANGED <<log, disk, live, gens, stream, known, initRes, writes, base, retired, queues, outcome>>
  BY DEF ReadEnds, Reading, EndPass, history, queues, outcome
<1>2. /\ offset \in 0 .. Len(log) /\ 0 \in 0 .. Len(log) /\ (live # 0 => live \in Generations)
      /\ pass[g].at \in 0 .. Len(log) /\ g # 0
  BY LiveFacts
<1>3. Scan' = Scan
  <2>1. CASE live = g
    <3>1. pass'[g].st = "idle"
      BY <1>1 DEF Book, BookTypes, Go
    <3> QED BY <1>1, <1>2, <2>1, <3>1 DEF Scan, Scanning
  <2>2. CASE live # g
    <3>1. live # 0 => pass'[live] = pass[live]
      BY <1>1, <1>2, <2>2, PassTypes
    <3> QED BY <1>1, <2>2, <3>1 DEF Scan, Scanning
  <2> QED BY <2>1, <2>2
<1>4. MoveStep(g, "idle", 0)
  BY <1>1, <1>2, <1>3 DEF MoveStep
<1> QED BY <1>2, <1>4

LEMMA SkipIs ==
  ASSUME Book, NEW g \in Generations, Skip(g)
  PROVE  SkipStep(g)
<1>1. /\ Reading(g) /\ live = g /\ pass[g].at < Len(log) /\ ~CanAccept(NextRecord(g))
      /\ Go(g, "read", pass[g].at + 1) /\ ignored' = ignored \cup {pass[g].at + 1}
      /\ UNCHANGED <<log, disk, live, gens, offset, stream, known, initOf, initRes, writes, base, retired, queues, done, last>>
  BY DEF Skip, queues
<1>2. AtRecord(g) /\ ~Acc(stream, pass[g].at + 1)
  BY <1>1, AcceptIs DEF AtRecord
<1>3. Scan' = Scan + 1
  <2>1. pass'[g].st = "read" /\ pass'[g].at = pass[g].at + 1 /\ live # 0
    BY <1>1, LiveFacts DEF Book, BookTypes, Go
  <2> QED BY <1>1, <1>2, <2>1 DEF Scan, Scanning, AtRecord
<1> QED BY <1>1, <1>2, <1>3 DEF SkipStep

LEMMA OccupyIs ==
  ASSUME Book, NEW g \in Generations, Occupy(g)
  PROVE  OccupyStep(g)
<1>1. /\ Reading(g) /\ live = g /\ pass[g].at < Len(log) /\ CanAccept(NextRecord(g)) /\ NextRecord(g).kind = "unknown"
      /\ Go(g, "persist", pass[g].at) /\ ignored' = ignored \cup {pass[g].at + 1}
      /\ writes' = Append(writes, CursorWrite(g))
      /\ UNCHANGED <<log, disk, live, gens, offset, stream, known, initOf, initRes, base, retired, queues, done, last>>
  BY DEF Occupy, queues
<1>2. AtRecord(g) /\ Acc(stream, pass[g].at + 1)
  BY <1>1, AcceptIs DEF AtRecord
<1> QED BY <1>1, <1>2 DEF OccupyStep, NextRecord

LEMMA DeliverIs ==
  ASSUME Book, QueuesOK, NEW g \in Generations, Deliver(g)
  PROVE  AdmitStep(g) \/ HoldStep(g)
<1> DEFINE at == pass[g].at
           e == NewItem(<<g, at + 1>>, QueueKind(NextRecord(g)), 1)
           all == IF cur = 0 /\ admit THEN Append(qs, NewQueue) ELSE qs
           c == IF admit THEN IF cur = 0 THEN Len(all) ELSE cur ELSE cur
<1>1. /\ Reading(g) /\ live = g /\ at < Len(log) /\ CanAccept(NextRecord(g)) /\ NextRecord(g).kind # "unknown"
      /\ cur' = c
      /\ UNCHANGED <<log, disk, live, gens, stream, known, initOf, initRes, writes, base, retired, ignored, last>>
      /\ IF admit /\ Accepts(Mine, e)
         THEN /\ qs' = [all EXCEPT ![c] = Admitted(Mine, e)]
              /\ settled' = settled \cup Superseded(Mine, e)
              /\ done' = done \cup {i[2] : i \in Superseded(Mine, e)}
              /\ Go(g, "await", at) /\ offset' = offset
         ELSE /\ qs' = all /\ HoldAt(g, at) /\ settled' = settled /\ done' = done
  BY DEF Deliver, Mine
<1>2. AtRecord(g) /\ Acc(stream, at + 1) /\ log[at + 1].kind # "unknown" /\ e = Arrival(g)
  BY <1>1, AcceptIs DEF AtRecord, NextRecord, Arrival
<1>3. at + 1 \in Positions /\ at \in 0 .. Len(log) /\ live # 0
  BY <1>1, LiveFacts, SequenceFacts, SMTT(60) DEF Book, BookTypes, Positions
<1>4. Arrival(g) \in Entry
  <2> DEFINE id == <<g, at + 1>>
             key == QueueKind(NextRecord(g))
  <2>1. id \in Ids
    BY <1>3 DEF Ids
  <2>2. key \in Kinds
    BY DEF QueueKind, Kinds
  <2> HIDE DEF id, key
  <2>3. NewItem(id, key, 1) \in Entry
    BY <2>1, <2>2 DEF NewItem, Entry
  <2> QED BY <2>3 DEF Arrival, id, key
<1>5. Len(qs) \in Nat /\ cur \in 0 .. Len(qs) /\ IsSeq(qs)
  BY QueueFacts
<1>6. /\ IsSeq(all) /\ Len(all) \in Nat /\ Len(all) >= Len(qs) /\ (\A k \in 1 .. Len(qs) : all[k] = qs[k])
      /\ c \in 0 .. Len(all) /\ (cur # 0 => c = cur) /\ (admit => c = Place /\ c \in 1 .. Len(all))
      /\ \A k \in 1 .. Len(all) : k \in 1 .. Len(qs) \/ (k = c /\ all[k] = NewQueue /\ cur = 0)
      /\ cur = 0 /\ c # 0 => all[c] = NewQueue
  <2>1. CASE cur = 0 /\ admit
    <3> DEFINE t == Append(qs, NewQueue)
    <3>1. IsSeq(t) /\ Len(t) = Len(qs) + 1 /\ t[Len(qs) + 1] = NewQueue /\ \A i \in 1 .. Len(qs) : t[i] = qs[i]
      BY <1>5, AppendAny
    <3>2. all = t
      BY <2>1
    <3> HIDE DEF t, all
    <3>3. c = Len(all) /\ Place = Len(qs) + 1
      BY <2>1 DEF Place
    <3> HIDE DEF c
    <3> QED BY <1>5, <2>1, <3>1, <3>2, <3>3
  <2>2. CASE ~(cur = 0 /\ admit)
    <3>1. all = qs /\ c = cur /\ (admit => c = Place /\ c # 0)
      BY <2>2 DEF Place
    <3> HIDE DEF all, c
    <3> QED BY <1>5, <2>2, <3>1
  <2> QED BY <2>1, <2>2
<1>7. CASE admit /\ Accepts(Mine, e)
  <2>1. /\ qs' = [all EXCEPT ![c] = Admitted(Mine, Arrival(g))]
        /\ settled' = settled \cup Superseded(Mine, Arrival(g))
        /\ done' = done \cup {i[2] : i \in Superseded(Mine, Arrival(g))}
        /\ Go(g, "await", at) /\ offset' = offset
    BY <1>1, <1>2, <1>7
  <2> HIDE DEF all, c, e
  <2>2. c \in 1 .. Len(all) /\ c = Place
    BY <1>6, <1>7
  <2>3. /\ IsSeq(qs') /\ Len(qs') = Len(all) /\ qs'[c] = Admitted(Mine, Arrival(g))
        /\ \A k \in 1 .. Len(all) : k # c => qs'[k] = all[k]
    <3> DEFINE d == Admitted(Mine, Arrival(g))
    <3>1. qs' = [all EXCEPT ![c] = d]
      BY <2>1
    <3> HIDE DEF d
    <3>2. /\ IsSeq(qs') /\ Len(qs') = Len(all) /\ qs'[c] = d
          /\ \A k \in 1 .. Len(all) : k # c => qs'[k] = all[k]
      <4>1. IsSeq(all) /\ c \in 1 .. Len(all)
        BY <1>6, <2>2
      <4> DEFINE n == Len(all)
      <4>2. DOMAIN all = 1 .. n /\ n \in Nat
        BY <4>1 DEF IsSeq
      <4> HIDE DEF n
      <4>3. qs' = [i \in 1 .. n |-> IF i = c THEN d ELSE all[i]]
        BY <3>1, <4>2
      <4>4. c \in 1 .. n /\ qs' = [i \in 1 .. n |-> qs'[i]] /\ qs'[c] = d /\ \A k \in 1 .. n : k # c => qs'[k] = all[k]
        BY <4>1, <4>3 DEF n
      <4>5. IsSeq(qs') /\ Len(qs') = n
        BY <4>2, <4>4, LenIs
      <4> QED BY <4>4, <4>5 DEF n
    <3> QED BY <3>2 DEF d
  <2>4. \A k \in 1 .. Len(qs') : k # c => k \in 1 .. Len(qs) /\ qs'[k] = qs[k]
    BY <1>6, <2>3
  <2> QED BY <1>1, <1>2, <1>4, <1>6, <2>1, <2>2, <2>3, <2>4 DEF AdmitStep
<1>8. CASE ~(admit /\ Accepts(Mine, e))
  <2>1. qs' = all /\ HoldAt(g, at) /\ settled' = settled /\ done' = done
    BY <1>1, <1>8
  <2>2. offset' = at /\ EndPass(g)
    BY <2>1 DEF HoldAt
  <2>3. Scan' = Scan
    BY <1>1, <1>2, <1>3, <2>2, PassTypes, ZenonT(60) DEF EndPass, Scan, Scanning, AtRecord
  <2>4. \A k \in 1 .. Len(qs') : (k \in 1 .. Len(qs) /\ qs'[k] = qs[k]) \/ qs'[k] = NewQueue
    BY <1>6, <2>1
  <2>5. UNCHANGED outcome
    BY <1>1, <2>1 DEF outcome
  <2> HIDE DEF all, c, e
  <2> QED BY <1>1, <1>2, <1>6, <2>1, <2>2, <2>3, <2>4, <2>5 DEF HoldStep
<1> QED BY <1>7, <1>8

LEMMA PersistIs ==
  ASSUME Book, NEW g \in Generations, Persist(g)
  PROVE  TakeStep(g) \/ DropStep(g)
<1>1. /\ Acknowledged(g) /\ settled' = settled \ {<<g, pass[g].at + 1>>}
      /\ UNCHANGED <<log, disk, live, gens, offset, stream, known, initOf, initRes, base, retired, qs, cur, outcome>>
      /\ IF live = g THEN Go(g, "persist", pass[g].at) /\ writes' = Append(writes, CursorWrite(g))
                     ELSE EndPass(g) /\ writes' = writes
  BY DEF Persist, history, outcome
<1>2. pass[g].st = "await" /\ g # 0
  BY <1>1, LiveFacts DEF Acknowledged
<1>3. CASE live = g
  <2>1. pass[g].at < Len(log) /\ Acc(stream, pass[g].at + 1)
    BY <1>2, <1>3 DEF Book, MemOK, PassOK, Taken
  <2> QED BY <1>1, <1>3, <2>1 DEF TakeStep
<1>4. CASE live # g
  <2>1. live # 0 => pass'[live] = pass[live]
    BY <1>1, <1>4, LiveFacts DEF Book, BookTypes, EndPass, Go
  <2>2. Scan' = Scan
    BY <1>1, <2>1 DEF Scan, Scanning
  <2> QED BY <1>1, <1>4, <2>2 DEF DropStep
<1> QED BY <1>3, <1>4

LEMMA StartIs ==
  ASSUME Book, NEW i, StartWrite(i)
  PROVE  HeadStep("running") \/ \E w \in Writes, ok \in BOOLEAN : EndStep(w, ok)
<1>1. i = 1 /\ writes # <<>> /\ writes[1].st = "queued"
  BY DEF StartWrite, MayRun
<1>2. UNCHANGED <<log, disk, live, gens, initOf, base, queues, outcome>>
  BY DEF StartWrite, outcome
<1>3. CASE live = writes[1].gen
  <2>1. writes' = [writes EXCEPT ![1].st = "running"] /\ UNCHANGED <<initRes, pass, offset, stream, known, retired>>
    BY <1>1, <1>3 DEF StartWrite, MayWrite
  <2> QED BY <1>1, <1>2, <1>3, <2>1 DEF HeadStep
<1>4. CASE live # writes[1].gen
  <2>1. Written(1, FALSE)
    BY <1>1, <1>4 DEF StartWrite, MayWrite
  <2> DEFINE no == FALSE
  <2>2. no \in BOOLEAN /\ Written(1, no) /\ ~no
    BY <2>1
  <2> HIDE DEF no
  <2>3. PICK w \in Writes : WriteOK(w) /\ WriteEnds(w, no)
    BY <1>1, <1>2, <2>2, WrittenIs
  <2>4. w = writes[1]
    BY <2>3 DEF WriteEnds
  <2>5. EndStep(w, no)
    BY <1>1, <1>2, <1>4, <2>2, <2>3, <2>4 DEF EndStep
  <2> QED BY <2>2, <2>5
<1> QED BY <1>3, <1>4

LEMMA LandIs ==
  ASSUME Book, NEW i, LandWrite(i)
  PROVE  HeadStep("landed")
BY DEF LandWrite, MayRun, HeadStep, history, outcome

LEMMA FailIs ==
  ASSUME Book, NEW i, FailWrite(i)
  PROVE  \E w \in Writes, ok \in BOOLEAN : EndStep(w, ok)
<1>1. i = 1 /\ writes # <<>> /\ writes[1].st = "running" /\ UNCHANGED <<log, disk, live, gens, initOf, base, queues, outcome>>
  BY DEF FailWrite, MayRun, outcome
<1> DEFINE no == FALSE
<1>2. no \in BOOLEAN /\ Written(1, no) /\ ~no
  BY <1>1 DEF FailWrite
<1> HIDE DEF no
<1>3. PICK w \in Writes : WriteOK(w) /\ WriteEnds(w, no)
  BY <1>1, <1>2, WrittenIs
<1>4. w = writes[1]
  BY <1>3 DEF WriteEnds
<1>5. EndStep(w, no)
  BY <1>1, <1>2, <1>3, <1>4 DEF EndStep
<1> QED BY <1>2, <1>5

LEMMA FinishIs ==
  ASSUME Book, NEW i, FinishWrite(i)
  PROVE  \E w \in Writes, ok \in BOOLEAN : EndStep(w, ok)
<1>1. i = 1 /\ writes # <<>> /\ writes[1].st = "landed" /\ UNCHANGED <<log, disk, live, gens, initOf, base, queues, outcome>>
  BY DEF FinishWrite, MayRun, outcome
<1>2. PICK ok \in BOOLEAN : Written(1, ok) /\ (ok <=> live = writes[1].gen)
  BY <1>1 DEF FinishWrite, Fenced
<1>3. PICK w \in Writes : WriteOK(w) /\ WriteEnds(w, ok)
  BY <1>1, <1>2, WrittenIs
<1>4. w = writes[1]
  BY <1>3 DEF WriteEnds
<1>5. EndStep(w, ok)
  BY <1>1, <1>2, <1>3, <1>4 DEF EndStep
<1> QED BY <1>5

LEMMA HandlerIs ==
  ASSUME QueuesOK, NEW k \in DOMAIN qs, NEW e \in qs[k].active, HandlerOk(k, e) \/ HandlerFails(k, e)
  PROVE  SettleStep(k, e) \/ \E r : AgainStep(k, r)
<1>1. /\ UNCHANGED <<log, disk, tailer, cur, ignored, base, retired>>
  BY DEF HandlerOk, HandlerFails
<1>2. UNCHANGED booked
  BY <1>1 DEF booked, tailer
<1>3. CASE HandlerOk(k, e)
  BY <1>1, <1>2, <1>3 DEF HandlerOk, SettleStep
<1>4. CASE HandlerFails(k, e) /\ Poison(qs[k], e)
  <2>1. /\ qs' = [qs EXCEPT ![k] = DeadLettered(@, e)] /\ settled' = settled \cup {e.id}
        /\ done' = done \cup {e.id[2]} /\ last' = IF k = cur THEN e.id[2] ELSE last
    BY <1>4 DEF HandlerFails
  <2>2. DeadLettered(qs[k], e) = Succeeded(qs[k], e)
    BY DEF DeadLettered, Succeeded
  <2> QED BY <1>1, <1>2, <2>1, <2>2 DEF SettleStep
<1>5. CASE HandlerFails(k, e) /\ ~Poison(qs[k], e)
  <2>1. qs' = [qs EXCEPT ![k] = Requeued(@, e)] /\ UNCHANGED <<settled, done, last>>
    BY <1>5 DEF HandlerFails
  <2> DEFINE r == Requeued(qs[k], e)
  <2>2. qs' = [qs EXCEPT ![k] = r]
    BY <2>1
  <2>3. Shape(qs[k])
    BY QueueFacts
  <2>4. /\ Shape(r) /\ Held(r) \subseteq Held(qs[k])
        /\ Single(qs[k]) => Single(r) /\ Size(r) = Size(qs[k]) /\ \A i \in 1 .. Size(qs[k]) : IdAt(r, i) = IdAt(qs[k], i)
    BY <2>3, RequeuedIs
  <2> HIDE DEF r
  <2>5. AgainStep(k, r)
    BY <1>1, <1>2, <2>1, <2>2, <2>4 DEF AgainStep, outcome
  <2> QED BY <2>5
<1> QED BY <1>3, <1>4, <1>5

LEMMA TimerIs ==
  ASSUME QueuesOK, NEW k \in DOMAIN qs, RetryTimer(k)
  PROVE  \E r : AgainStep(k, r)
<1> DEFINE r == Retried(qs[k])
<1>1. qs' = [qs EXCEPT ![k] = r] /\ UNCHANGED <<log, disk, tailer, cur, settled, history>>
  BY DEF RetryTimer
<1>2. UNCHANGED <<booked, outcome>>
  BY <1>1 DEF booked, tailer, history, outcome
<1>3. Shape(qs[k])
  BY QueueFacts
<1>4. /\ Shape(r) /\ Held(r) = Held(qs[k])
      /\ MaxInFlight = 1 /\ Single(qs[k]) =>
           Single(r) /\ Size(r) = Size(qs[k]) /\ \A i \in 1 .. Size(qs[k]) : IdAt(r, i) = IdAt(qs[k], i)
  BY <1>3, RetriedIs
<1> HIDE DEF r
<1>5. AgainStep(k, r)
  BY <1>1, <1>2, <1>4 DEF AgainStep
<1> QED BY <1>5

\* Every step of the system is one of these.
LEMMA Steps ==
  ASSUME Book, QueuesOK, [Next]_vars
  PROVE  \/ \E r \in Records : GrowStep(r)
         \/ StillStep
         \/ Watch /\ UNCHANGED <<queues, outcome>>
         \/ StopStep
         \/ Crash
         \/ \E g \in Generations :
              \/ \E st \in {"idle", "init", "read"}, at \in 0 .. Len(log) : MoveStep(g, st, at)
              \/ SkipStep(g) \/ OccupyStep(g) \/ AdmitStep(g) \/ HoldStep(g) \/ TakeStep(g) \/ DropStep(g)
         \/ HeadStep("running") \/ HeadStep("landed")
         \/ \E w \in Writes, ok \in BOOLEAN : EndStep(w, ok)
         \/ \E k \in 1 .. Len(qs) : (\E e \in qs[k].active : SettleStep(k, e)) \/ \E r : AgainStep(k, r)
<1>1. CASE UNCHANGED vars
  BY <1>1 DEF vars, tailer, history, StillStep, booked, outcome
<1>2. CASE \E b \in 1 .. MaxBridges, k \in RecordKinds : Produce(b, k)
  <2>1. PICK b \in Bridges, k \in RecordKinds : Produce(b, k)
    BY <1>2 DEF Bridges
  <2>2. PICK r \in Records : Grown(r) /\ (r.kind = "session_ready" => \A p \in 1 .. Len(log) : log[p].bridge # r.bridge)
    BY <2>1, ProduceIs
  <2>3. UNCHANGED <<disk, tailer, queues, history>>
    BY <2>1 DEF Produce
  <2>4. GrowStep(r)
    BY <2>2, <2>3 DEF GrowStep, tailer, history, outcome
  <2> QED BY <2>4
<1>3. CASE SetAdmit \/ Resume
  <2>1. StillStep
    BY <1>3 DEF SetAdmit, Resume, tailer, history, StillStep, booked, outcome
  <2> QED BY <2>1
<1>4. CASE Watch
  BY <1>4 DEF Watch, outcome
<1>5. CASE StopWatching \/ Release
  <2>1. StopStep
    BY <1>5 DEF StopWatching, Release, queues, history, StopStep, outcome
  <2> QED BY <2>1
<1>6. CASE \E g \in Generations : InitAwaited(g) \/ TailPass(g) \/ Reads(g) \/ Persist(g)
  BY <1>6, TailStep, InitStep, EndsStep, SkipIs, OccupyIs, DeliverIs, PersistIs DEF Reads
<1>7. CASE \E i \in DOMAIN writes : StartWrite(i) \/ LandWrite(i) \/ FinishWrite(i) \/ FailWrite(i)
  BY <1>7, StartIs, LandIs, FinishIs, FailIs
<1>8. CASE \E k \in DOMAIN qs : RetryTimer(k) \/ \E e \in qs[k].active : HandlerOk(k, e) \/ HandlerFails(k, e)
  BY <1>8, QueueFacts, HandlerIs, TimerIs
<1> QED BY <1>1, <1>2, <1>3, <1>4, <1>5, <1>6, <1>7, <1>8 DEF Next, Continuation, Event, Writing, Handling

LEMMA StepBook ==
  ASSUME Book, QueuesOK, [Next]_vars
  PROVE  Book'
<1>1. ASSUME NEW r \in Records, GrowStep(r) PROVE Book'
  BY <1>1, GrownBook DEF GrowStep
<1>2. CASE StillStep
  BY <1>2, BookStill DEF StillStep
<1>3. CASE Watch
  BY <1>3, WatchBook
<1>4. CASE StopStep
  BY <1>4, StopBook DEF StopStep
<1>5. CASE Crash
  BY <1>5, CrashBook
<1>6. ASSUME NEW g \in Generations, NEW st \in {"idle", "init", "read"}, NEW at \in 0 .. Len(log), MoveStep(g, st, at)
      PROVE  Book'
  <2>1. Scan \in Nat /\ initOf' \in 0 .. gens /\ st \in {"idle", "init", "read", "await"} /\ st # "await"
    BY <1>6, LiveFacts DEF MoveStep, Book, BookTypes
  <2> QED BY <1>6, <2>1, PassBook DEF MoveStep
<1>7. ASSUME NEW g \in Generations, SkipStep(g) PROVE Book'
  <2>1. pass[g].at \in Nat /\ Scan \in Nat /\ g <= gens /\ initOf \in 0 .. gens /\ pass[g].st = "read" /\ Len(log) \in Nat
        /\ offset \in 0 .. Len(log)
    BY <1>7, LiveFacts DEF SkipStep, AtRecord, Reading, Book, BookTypes
  <2>2. PICK st \in {"idle", "init", "read", "await"}, at \in 0 .. Len(log) : st = "read" /\ at = pass[g].at + 1
    BY <1>7, <2>1 DEF SkipStep, AtRecord
  <2>3. Go(g, st, at) /\ Scan' >= Scan
    BY <1>7, <2>1, <2>2 DEF SkipStep
  <2> QED BY <1>7, <2>1, <2>2, <2>3, PassBook DEF SkipStep
<1>8. ASSUME NEW g \in Generations, OccupyStep(g) PROVE Book'
  BY <1>8, TakeBook DEF OccupyStep, AtRecord, Reading
<1>9. ASSUME NEW g \in Generations, AdmitStep(g) PROVE Book'
  <2>1. pass[g].at \in Nat /\ Scan \in Nat /\ g <= gens /\ initOf \in 0 .. gens /\ pass[g].st = "read" /\ Len(log) \in Nat
        /\ offset \in 0 .. Len(log) /\ pass[g].at \in 0 .. Len(log) /\ live # 0
    BY <1>9, LiveFacts DEF AdmitStep, AtRecord, Reading, Book, BookTypes
  <2>2. PICK st \in {"idle", "init", "read", "await"}, at \in 0 .. Len(log) : st = "await" /\ at = pass[g].at
    BY <2>1
  <2>3. Go(g, st, at) /\ at < Len(log) /\ Acc(stream, at + 1)
    BY <1>9, <2>2 DEF AdmitStep, AtRecord
  <2>4. Scan' = Scan
    <3>1. pass'[g].st = "await" /\ pass'[g].at = pass[g].at
      BY <2>2, <2>3 DEF Book, BookTypes, Go
    <3> QED BY <1>9, <2>1, <3>1 DEF Scan, Scanning, AdmitStep, AtRecord
  <2> QED BY <1>9, <2>1, <2>2, <2>3, <2>4, PassBook DEF AdmitStep
<1>10. ASSUME NEW g \in Generations, HoldStep(g) \/ DropStep(g) PROVE Book'
  <2>1. /\ Scan \in Nat /\ initOf \in 0 .. gens /\ pass[g].st # "persist" /\ Len(log) \in Nat
        /\ offset \in 0 .. Len(log) /\ pass[g].at \in 0 .. Len(log)
    BY <1>10, LiveFacts DEF HoldStep, DropStep, AtRecord, Reading, Acknowledged, Book, BookTypes
  <2>2. PICK st \in {"idle", "init", "read", "await"}, at \in 0 .. Len(log) : st = "idle" /\ at = 0
    BY <2>1
  <2>3. Go(g, st, at) /\ Scan' = Scan /\ offset' \in 0 .. Len(log)
        /\ UNCHANGED <<log, disk, live, gens, stream, known, initOf, initRes, writes, base, retired>>
    BY <1>10, <2>1, <2>2 DEF HoldStep, DropStep, EndPass
  <2>4. Scan' >= Scan
    BY <2>1, <2>3
  <2> QED BY <2>1, <2>2, <2>3, <2>4, PassBook
<1>11. ASSUME NEW g \in Generations, TakeStep(g) PROVE Book'
  BY <1>11, TakeBook DEF TakeStep, Acknowledged
<1>12. CASE HeadStep("running") \/ HeadStep("landed")
  <2>1. PICK st \in {"running", "landed"} : HeadStep(st)
    BY <1>12
  <2> QED BY <2>1, HeadBook DEF HeadStep
<1>13. ASSUME NEW w \in Writes, NEW ok \in BOOLEAN, EndStep(w, ok) PROVE Book'
  BY <1>13, EndBook DEF EndStep
<1>14. ASSUME NEW k, NEW e, SettleStep(k, e) PROVE Book'
  BY <1>14, BookStill DEF SettleStep
<1>15. ASSUME NEW k, NEW r, AgainStep(k, r) PROVE Book'
  BY <1>15, BookStill DEF AgainStep
<1> QED BY Steps, <1>1, <1>2, <1>3, <1>4, <1>5, <1>6, <1>7, <1>8, <1>9, <1>10, <1>11, <1>12, <1>13, <1>14, <1>15

LEMMA InitQueues == Init => QueuesOK
<1> SUFFICES ASSUME Init PROVE QueuesOK
  OBVIOUS
<1>1. qs = <<>> /\ Len(qs) = 0 /\ settled = {} /\ done = {} /\ ignored = {} /\ last = 0 /\ cur = 0
  BY DEF Init
<1>2. IsSeq(qs)
  BY <1>1 DEF IsSeq
<1>3. last \in 0 .. MaxRecords
  BY <1>1, SidecarDeliveryBounds
<1> QED BY <1>1, <1>2, <1>3 DEF QueuesOK

\* The queues when none of them changes.
LEMMA QueuesStill ==
  ASSUME Book, QueuesOK, UNCHANGED <<qs, done, last>>, cur' \in {0, cur}, settled' \subseteq settled,
         ignored' \subseteq Positions, gens' \in Nat, gens <= gens', Len(log') \in Nat, Len(log) <= Len(log')
  PROVE  QueuesOK'
<1>1. /\ Len(qs) \in Nat /\ gens \in Nat /\ Len(log) \in Nat
      /\ \A k \in 1 .. Len(qs) : Held(qs[k]) \subseteq Ids
  BY QueueFacts, LiveFacts
<1>2. \A id \in Ids : id[1] \in Nat /\ id[2] \in Nat
  BY SidecarDeliveryBounds DEF Ids, Generations, Positions
<1>3. \A k \in 1 .. Len(qs') : \A id \in Held(qs'[k]) : id[1] <= gens' /\ id[2] <= Len(log')
  <2> SUFFICES ASSUME NEW k \in 1 .. Len(qs), NEW id \in Held(qs[k]) PROVE id[1] <= gens' /\ id[2] <= Len(log')
    OBVIOUS
  <2>1. id[1] <= gens /\ id[2] <= Len(log) /\ id[1] \in Nat /\ id[2] \in Nat
    BY <1>1, <1>2 DEF QueuesOK
  <2> QED BY <1>1, <2>1
<1>4. \A id \in settled' : id[1] <= gens'
  <2> SUFFICES ASSUME NEW id \in settled' PROVE id[1] <= gens'
    OBVIOUS
  <2>1. id[1] <= gens /\ id[1] \in Nat
    BY <1>2 DEF QueuesOK
  <2> QED BY <1>1, <2>1
<1> QED BY <1>1, <1>3, <1>4 DEF QueuesOK, IsSeq

LEMMA StepQueues ==
  ASSUME Book, QueuesOK, [Next]_vars
  PROVE  QueuesOK'
<1>0. /\ gens \in Nat /\ Len(log) \in Nat /\ Len(qs) \in Nat /\ MaxRecords \in Nat
      /\ cur \in 0 .. Len(qs) /\ \A k \in 1 .. Len(qs) : Shape(qs[k]) /\ Held(qs[k]) \subseteq Ids
  BY LiveFacts, QueueFacts, SidecarDeliveryBounds
<1>1. ASSUME NEW r \in Records, GrowStep(r) PROVE QueuesOK'
  <2>1. Len(log') \in Nat /\ Len(log) <= Len(log') /\ gens' = gens /\ UNCHANGED <<qs, cur, settled, done, ignored, last>>
    BY <1>0, <1>1 DEF GrowStep, Grown, queues, outcome
  <2>2. ignored' \subseteq Positions
    BY <2>1 DEF QueuesOK
  <2> QED BY <1>0, <2>1, <2>2, QueuesStill
<1>2. CASE StillStep \/ StopStep \/ HeadStep("running") \/ HeadStep("landed")
           \/ (\E w \in Writes, ok \in BOOLEAN : EndStep(w, ok))
           \/ \E g \in Generations : \/ \E st \in {"idle", "init", "read"}, at \in 0 .. Len(log) : MoveStep(g, st, at)
                                     \/ TakeStep(g) \/ DropStep(g)
  <2>1. /\ log' = log /\ gens' = gens /\ UNCHANGED <<qs, done, ignored, last>> /\ cur' \in {0, cur}
        /\ settled' \subseteq settled
    BY <1>2 DEF StillStep, StopStep, HeadStep, EndStep, WriteEnds, MoveStep, TakeStep, DropStep, booked, queues, outcome
  <2>2. ignored' \subseteq Positions
    BY <2>1 DEF QueuesOK
  <2> QED BY <1>0, <2>1, <2>2, QueuesStill
<1>3. CASE Watch /\ UNCHANGED <<queues, outcome>>
  <2>1. /\ log' = log /\ gens' = gens + 1 /\ UNCHANGED <<qs, cur, settled, done, ignored, last>>
    BY <1>3 DEF Watch, queues, outcome
  <2>2. ignored' \subseteq Positions /\ gens' \in Nat /\ gens <= gens'
    BY <1>0, <2>1 DEF QueuesOK
  <2> QED BY <1>0, <2>1, <2>2, QueuesStill
<1>4. CASE Crash
  <2>1. qs' = <<>> /\ cur' = 0 /\ settled' = {} /\ UNCHANGED <<done, ignored, last>>
    BY <1>4 DEF Crash, history
  <2>2. Len(qs') = 0 /\ IsSeq(qs')
    BY <2>1 DEF IsSeq
  <2> QED BY <2>1, <2>2 DEF QueuesOK
<1>5. CASE \E g \in Generations : SkipStep(g) \/ OccupyStep(g)
  <2>1. PICK g \in Generations : SkipStep(g) \/ OccupyStep(g)
    BY <1>5
  <2>2. /\ log' = log /\ gens' = gens /\ UNCHANGED <<qs, cur, settled, done, last>>
        /\ ignored' = ignored \cup {pass[g].at + 1} /\ pass[g].at < Len(log)
    BY <2>1 DEF SkipStep, OccupyStep, AtRecord, queues
  <2>3. pass[g].at + 1 \in Positions
    BY <2>2, LiveFacts, SequenceFacts DEF Book, BookTypes, Positions
  <2>4. ignored' \subseteq Positions
    BY <2>2, <2>3 DEF QueuesOK
  <2> QED BY <1>0, <2>2, <2>4, QueuesStill
<1>6. ASSUME NEW g \in Generations, AdmitStep(g) PROVE QueuesOK'
  <2> DEFINE e == Arrival(g)
             c == cur'
             m == Mine
             q == Admitted(m, e)
             u == Superseded(m, e)
  <2>1. /\ e \in Entry /\ c \in 1 .. Len(qs') /\ IsSeq(qs') /\ qs'[c] = q /\ log' = log /\ gens' = gens
        /\ \A k \in 1 .. Len(qs') : k # c => k \in 1 .. Len(qs) /\ qs'[k] = qs[k]
        /\ settled' = settled \cup u /\ done' = done \cup {i[2] : i \in u} /\ UNCHANGED <<ignored, last>>
    BY <1>6 DEF AdmitStep
  <2>2. Shape(m) /\ \A id \in Held(m) : id \in Ids /\ id[1] <= gens /\ id[2] <= Len(log)
    <3>1. CASE cur = 0
      BY <3>1, NewQueueIs DEF Mine
    <3>2. CASE cur # 0
      BY <1>0, <3>2 DEF Mine, QueuesOK
    <3> QED BY <3>1, <3>2
  <2>3. e.id = <<g, pass[g].at + 1>> /\ g <= gens /\ pass[g].at + 1 <= Len(log)
    <3>1. e.id = <<g, pass[g].at + 1>>
      BY DEF Arrival, NewItem
    <3>2. live = g /\ pass[g].at < Len(log)
      BY <1>6 DEF AdmitStep, AtRecord
    <3> QED BY <3>1, <3>2, LiveFacts
  <2> HIDE DEF e, c, m
  <2>4. Shape(q) /\ Held(q) \subseteq Held(m) \cup {e.id} /\ u \subseteq Held(m)
    BY <2>1, <2>2, AdmittedIs
  <2> HIDE DEF q, u
  <2>5. e.id \in Ids /\ e.id[1] = g /\ e.id[2] = pass[g].at + 1
    BY <2>1, <2>3 DEF Entry
  <2>6. \A id \in Held(q) : id[1] <= gens /\ id[2] <= Len(log)
    BY <2>2, <2>3, <2>4, <2>5
  <2>7. \A id \in Ids : id[2] \in Positions
    BY DEF Ids
  <2>8. \A k \in 1 .. Len(qs') : Shape(qs'[k]) /\ \A id \in Held(qs'[k]) : id[1] <= gens /\ id[2] <= Len(log)
    BY <1>0, <2>1, <2>4, <2>6 DEF QueuesOK
  <2>9. settled' \subseteq Ids /\ done' \subseteq Positions /\ \A id \in settled' : id[1] <= gens
    BY <2>1, <2>2, <2>4, <2>7 DEF QueuesOK
  <2>10. cur' \in 0 .. Len(qs') /\ Len(qs') \in Nat
    BY <2>1 DEF c, IsSeq
  <2> QED BY <2>1, <2>8, <2>9, <2>10 DEF QueuesOK
<1>7. ASSUME NEW g \in Generations, HoldStep(g) PROVE QueuesOK'
  <2>1. /\ IsSeq(qs') /\ cur' \in 0 .. Len(qs') /\ log' = log /\ gens' = gens /\ UNCHANGED <<settled, done, ignored, last>>
        /\ \A k \in 1 .. Len(qs') : (k \in 1 .. Len(qs) /\ qs'[k] = qs[k]) \/ qs'[k] = NewQueue
    BY <1>7 DEF HoldStep, outcome
  <2>2. \A k \in 1 .. Len(qs') : Shape(qs'[k]) /\ \A id \in Held(qs'[k]) : id[1] <= gens /\ id[2] <= Len(log)
    BY <1>0, <2>1, NewQueueIs DEF QueuesOK
  <2> QED BY <2>1, <2>2 DEF QueuesOK
<1>8. ASSUME NEW k \in 1 .. Len(qs), NEW e \in qs[k].active, SettleStep(k, e) PROVE QueuesOK'
  <2> DEFINE q == Succeeded(qs[k], e)
  <2>1. Shape(q) /\ Held(q) \subseteq Held(qs[k]) /\ e.id \in Held(qs[k]) /\ e.id \in Ids
    BY <1>0, SucceededIs
  <2>2. qs' = [qs EXCEPT ![k] = q]
    BY <1>8 DEF SettleStep
  <2> HIDE DEF q
  <2>3. /\ IsSeq(qs') /\ Len(qs') = Len(qs) /\ qs'[k] = q /\ \A i \in 1 .. Len(qs) : i # k => qs'[i] = qs[i]
    BY <2>2, ReplacedIs DEF QueuesOK
  <2>4. /\ settled' = settled \cup {e.id} /\ done' = done \cup {e.id[2]} /\ last' = IF k = cur THEN e.id[2] ELSE last
        /\ cur' = cur /\ ignored' = ignored /\ gens' = gens /\ log' = log
    BY <1>8 DEF SettleStep, booked
  <2>5. e.id[1] <= gens /\ e.id[2] \in Positions /\ e.id[2] \in 0 .. MaxRecords
    BY <1>0, <2>1 DEF QueuesOK, Ids, Positions
  <2>6. \A i \in 1 .. Len(qs') : Shape(qs'[i]) /\ \A id \in Held(qs'[i]) : id[1] <= gens /\ id[2] <= Len(log)
    BY <1>0, <2>1, <2>3 DEF QueuesOK
  <2> QED BY <1>0, <2>1, <2>3, <2>4, <2>5, <2>6 DEF QueuesOK
<1>9. ASSUME NEW k \in 1 .. Len(qs), NEW r, AgainStep(k, r) PROVE QueuesOK'
  <2>1. qs' = [qs EXCEPT ![k] = r] /\ Shape(r) /\ Held(r) \subseteq Held(qs[k])
        /\ UNCHANGED <<cur, settled, done, ignored, last, gens, log>>
    BY <1>9 DEF AgainStep, booked, outcome
  <2>2. /\ IsSeq(qs') /\ Len(qs') = Len(qs) /\ qs'[k] = r /\ \A i \in 1 .. Len(qs) : i # k => qs'[i] = qs[i]
    BY <2>1, ReplacedIs DEF QueuesOK
  <2>3. \A i \in 1 .. Len(qs') : Shape(qs'[i]) /\ \A id \in Held(qs'[i]) : id[1] <= gens /\ id[2] <= Len(log)
    BY <1>0, <2>1, <2>2 DEF QueuesOK
  <2> QED BY <1>0, <2>1, <2>2, <2>3 DEF QueuesOK
<1> QED BY Steps, <1>1, <1>2, <1>3, <1>4, <1>5, <1>6, <1>7, <1>8, <1>9

-----------------------------------------------------------------------------
(* Nothing is skipped *)

Covered(x) == (base + 1) .. x \subseteq done \cup ignored

\* Whatever may become a cursor lies behind records that were dealt with.
CoverOK ==
  /\ \A c \in disk : Covered(c.offset)
  /\ \A i \in 1 .. Len(writes) : Covered(writes[i].cursor.offset)
  /\ \A g \in Generations : Scanning(g) => Covered(pass[g].at)
  /\ Covered(offset)
  /\ \A id \in settled : id[2] \in done

LEMMA CoverMono ==
  ASSUME NEW a \in Nat, NEW b \in Nat, a <= b, NEW S, NEW T, S \subseteq T, NEW x \in Nat,
         (a + 1) .. x \subseteq S
  PROVE  (b + 1) .. x \subseteq T
<1>1. \A z \in (b + 1) .. x : z \in (a + 1) .. x
  OBVIOUS
<1> QED BY <1>1

LEMMA CoverNext ==
  ASSUME base \in Nat, NEW x \in Nat, Covered(x), x + 1 \in done \cup ignored
  PROVE  Covered(x + 1)
<1>1. (base + 1) .. (x + 1) \subseteq ((base + 1) .. x) \cup {x + 1}
  OBVIOUS
<1> QED BY <1>1 DEF Covered

\* A step after which nothing reaches beyond what was reached, or one covered place.
LEMMA CoverStep ==
  ASSUME Book, CoverOK, base' \in Nat, base <= base', done \subseteq done', ignored \subseteq ignored',
         NEW y \in Nat, (base' + 1) .. y \subseteq done' \cup ignored',
         \A c \in disk' : c.offset = y \/ (\E d \in disk : c.offset = d.offset)
                          \/ \E i \in 1 .. Len(writes) : c.offset = writes[i].cursor.offset,
         \A i \in 1 .. Len(writes') : writes'[i].cursor.offset = y
            \/ \E j \in 1 .. Len(writes) : writes'[i].cursor.offset = writes[j].cursor.offset,
         \A g \in Generations : pass'[g].st \in {"read", "await", "persist"} =>
            \/ pass'[g].at \in {y, offset}
            \/ \E h \in Generations : Scanning(h) /\ pass'[g].at = pass[h].at
            \/ \E i \in 1 .. Len(writes) : pass'[g].at = writes[i].cursor.offset,
         offset' \in {0, y, offset} \/ (\E g \in Generations : Scanning(g) /\ offset' = pass[g].at)
            \/ \E d \in disk : offset' = d.offset,
         \A id \in settled' : id[2] \in done'
  PROVE  CoverOK'
<1>1. /\ base \in Nat /\ Len(log) \in Nat /\ offset \in Nat
      /\ \A c \in disk : c.offset \in Nat
      /\ \A i \in 1 .. Len(writes) : writes[i].cursor.offset \in Nat
      /\ \A g \in Generations : pass[g].at \in Nat
  <2>1. \A i \in 1 .. Len(writes) : writes[i].cursor \in Cursors
    BY SequenceFacts DEF Book, Writes
  <2>2. \A c \in Cursors : c.offset \in Nat
    BY DEF Cursors
  <2>3. \A g \in Generations : pass[g].at \in Nat
    BY LiveFacts
  <2> QED BY <2>1, <2>2, <2>3, LiveFacts DEF Book, BookTypes
<1> DEFINE G(x) == (base' + 1) .. x \subseteq done' \cup ignored'
<1>2. \A x \in Nat : Covered(x) => G(x)
  <2> DEFINE S == done \cup ignored
             T == done' \cup ignored'
  <2>1. S \subseteq T
    OBVIOUS
  <2> HIDE DEF S, T
  <2>2. \A x \in Nat : (base + 1) .. x \subseteq S => (base' + 1) .. x \subseteq T
    BY <1>1, <2>1, CoverMono
  <2> QED BY <2>2 DEF Covered, S, T
<1>3. /\ G(y) /\ G(0) /\ G(offset) /\ (\A c \in disk : G(c.offset))
      /\ (\A i \in 1 .. Len(writes) : G(writes[i].cursor.offset))
      /\ \A g \in Generations : Scanning(g) => G(pass[g].at)
  <2>1. G(0)
    <3> SUFFICES ASSUME NEW n \in Nat PROVE (n + 1) .. 0 = {}
      OBVIOUS
    <3> QED OBVIOUS
  <2> HIDE DEF G
  <2>2. G(y)
    BY DEF G
  <2> QED BY <1>1, <1>2, <2>1, <2>2 DEF CoverOK
<1> HIDE DEF G
<1>4. /\ \A c \in disk' : G(c.offset)
      /\ \A i \in 1 .. Len(writes') : G(writes'[i].cursor.offset)
      /\ \A g \in Generations : pass'[g].st \in {"read", "await", "persist"} => G(pass'[g].at)
      /\ G(offset')
  <2>1. \A c \in disk' : G(c.offset)
    BY <1>3
  <2>2. \A i \in 1 .. Len(writes') : G(writes'[i].cursor.offset)
    BY <1>3
  <2>3. \A g \in Generations : pass'[g].st \in {"read", "await", "persist"} => G(pass'[g].at)
    BY <1>3
  <2>4. G(offset')
    BY <1>3
  <2> QED BY <2>1, <2>2, <2>3, <2>4
<1> QED BY <1>4 DEF G, CoverOK, Covered, Scanning

LEMMA InitCover == Init => CoverOK
<1> SUFFICES ASSUME Init PROVE CoverOK
  OBVIOUS
<1>1. base = 0 /\ offset = 0 /\ settled = {} /\ Len(writes) = 0 /\ \A c \in disk : c.offset = 0
  BY DEF Init
<1>2. \A g \in Generations : ~Scanning(g)
  BY DEF Init, Scanning
<1>3. Covered(0)
  BY <1>1 DEF Covered
<1> QED BY <1>1, <1>2, <1>3 DEF CoverOK

LEMMA StepCover ==
  ASSUME Book, QueuesOK, CoverOK, [Next]_vars
  PROVE  CoverOK'
<1>0. /\ base \in Nat /\ Len(log) \in Nat /\ base <= Len(log) /\ offset \in Nat /\ Len(writes) \in Nat
      /\ (\A id \in settled : id[2] \in done) /\ (live # 0 => live \in Generations) /\ BookTypes
      /\ \A g \in Generations : pass[g].at \in Nat
  <2>1. \A g \in Generations : pass[g].at \in Nat
    BY LiveFacts
  <2> QED BY <2>1, LiveFacts, SequenceFacts DEF Book, BookTypes, CoverOK
<1>1. Covered(0) /\ Covered(offset)
  BY <1>0 DEF Covered, CoverOK
\* Steps that reach no further than before.
<1>2. CASE \/ (\E r \in Records : GrowStep(r)) \/ StillStep \/ StopStep \/ HeadStep("running")
           \/ \E k : (\E e : SettleStep(k, e)) \/ \E r : AgainStep(k, r)
  <2>1. /\ base' = base /\ UNCHANGED <<disk, pass>> /\ offset' \in {0, offset} /\ done \subseteq done' /\ ignored' = ignored
    BY <1>2 DEF GrowStep, StillStep, StopStep, HeadStep, SettleStep, AgainStep, StoppedTailer, booked, outcome
  <2>2. \A id \in settled' : id[2] \in done'
    BY <1>0, <1>2 DEF GrowStep, StillStep, StopStep, HeadStep, SettleStep, AgainStep, queues, outcome
  <2>3. \A i \in 1 .. Len(writes') : \E j \in 1 .. Len(writes) : writes'[i].cursor.offset = writes[j].cursor.offset
    <3>1. CASE HeadStep("running")
      <4>1. PICK st \in {"running", "landed"} : st = "running" /\ HeadStep(st)
        BY <3>1
      <4>2. Len(writes') = Len(writes) /\ writes'[1].cursor = writes[1].cursor /\ \A i \in 2 .. Len(writes) : writes'[i] = writes[i]
        BY <4>1, HeadBook DEF HeadStep
      <4> QED BY <1>0, <4>2
    <3>2. CASE ~HeadStep("running")
      <4>1. writes' = writes
        BY <1>2, <3>2 DEF GrowStep, StillStep, StopStep, SettleStep, AgainStep, booked
      <4> QED BY <4>1
    <3> QED BY <3>1, <3>2
  <2>4. (base' + 1) .. 0 \subseteq done' \cup ignored' /\ base' \in Nat /\ base <= base'
    BY <1>0, <2>1
  <2>5. \A g \in Generations : pass'[g].st \in {"read", "await", "persist"} => \E h \in Generations : Scanning(h) /\ pass'[g].at = pass[h].at
    BY <2>1 DEF Scanning
  <2> DEFINE y == offset
  <2>6. y \in Nat /\ (base' + 1) .. y \subseteq done' \cup ignored'
    BY <1>0, <1>1, <2>1 DEF Covered
  <2> QED BY <2>1, <2>2, <2>3, <2>4, <2>5, <2>6, CoverStep
<1>3. CASE Crash
  <2>1. /\ base' = base /\ UNCHANGED <<disk, done, ignored>> /\ offset' = 0 /\ settled' = {} /\ Len(writes') = 0
        /\ \A g \in Generations : pass'[g].st = "idle"
    BY <1>3 DEF Crash, StoppedTailer, history
  <2>2. (base' + 1) .. offset \subseteq done' \cup ignored'
    BY <1>1, <2>1 DEF Covered
  <2> QED BY <1>0, <2>1, <2>2, CoverStep
<1>4. CASE Watch /\ UNCHANGED <<queues, outcome>>
  <2>1. pass' = pass /\ UNCHANGED <<disk, done, ignored, settled>>
    BY <1>4 DEF Watch, queues, outcome
  <2>2. CASE disk # {}
    <3>1. PICK c \in disk : offset' = c.offset /\ UNCHANGED <<writes, base>>
      BY <1>4, <2>2, WatchIs
    <3>2. (base' + 1) .. offset \subseteq done' \cup ignored'
      BY <1>1, <2>1, <3>1 DEF Covered
    <3> QED BY <1>0, <2>1, <3>1, <3>2, CoverStep DEF Scanning
  <2>3. CASE disk = {}
    <3>1. PICK w \in Writes : offset' = Len(log) /\ base' = Len(log) /\ writes' = Append(writes, w) /\ w.cursor.offset = Len(log)
      BY <1>4, <2>3, WatchIs
    <3>2. /\ Len(writes') = Len(writes) + 1 /\ writes'[Len(writes) + 1] = w
          /\ \A i \in 1 .. Len(writes) : writes'[i] = writes[i]
      BY <1>0, <3>1, AppendWrite
    <3> DEFINE y == Len(log)
    <3>3. y \in Nat /\ (base' + 1) .. y \subseteq done' \cup ignored'
      BY <1>0, <3>1
    <3>4. \A i \in 1 .. Len(writes') : writes'[i].cursor.offset = y
            \/ \E j \in 1 .. Len(writes) : writes'[i].cursor.offset = writes[j].cursor.offset
      BY <1>0, <3>1, <3>2
    <3>5. offset' = y /\ base' = y
      BY <3>1
    <3> HIDE DEF y
    <3>6. base <= base'
      BY <1>0, <3>5 DEF y
    <3> QED BY <1>0, <2>1, <2>3, <3>3, <3>4, <3>5, <3>6, CoverStep DEF Scanning
  <2> QED BY <2>2, <2>3
<1>5. ASSUME NEW g \in Generations, NEW st \in {"idle", "init", "read"}, NEW at \in 0 .. Len(log), MoveStep(g, st, at)
      PROVE  CoverOK'
  <2>1. /\ UNCHANGED <<disk, done, ignored, settled, base, writes>> /\ (st = "read" => at = offset)
        /\ offset' = IF pass[g].st = "read" /\ live = g THEN pass[g].at ELSE offset
    BY <1>5 DEF MoveStep, queues, outcome
  <2>2. pass'[g].st = st /\ pass'[g].at = at /\ \A h \in Generations : h # g => pass'[h] = pass[h]
    BY <1>5, PassTypes, ZenonT(60) DEF MoveStep
  <2>3. (base' + 1) .. offset \subseteq done' \cup ignored'
    BY <1>1, <2>1 DEF Covered
  <2>4. \A h \in Generations : pass'[h].st \in {"read", "await", "persist"} => pass'[h].at = offset \/ (Scanning(h) /\ pass'[h].at = pass[h].at)
    BY <2>1, <2>2 DEF Scanning
  <2>5. offset' = offset \/ (Scanning(g) /\ offset' = pass[g].at)
    BY <2>1 DEF Scanning
  <2> QED BY <1>0, <2>1, <2>3, <2>4, <2>5, CoverStep
\* A record is passed over, or its place is taken at once.
<1>6. ASSUME NEW g \in Generations, SkipStep(g) \/ OccupyStep(g) PROVE CoverOK'
  <2> DEFINE y == pass[g].at + 1
  <2>1. /\ UNCHANGED <<disk, done, settled, base, offset>> /\ ignored' = ignored \cup {y} /\ Scanning(g) /\ pass[g].at < Len(log)
    BY <1>6 DEF SkipStep, OccupyStep, AtRecord, Reading, Scanning, queues
  <2>2. y \in Nat /\ pass[g].at \in Nat /\ Covered(pass[g].at)
    BY <1>0, <2>1 DEF CoverOK
  <2>3. /\ pass'[g].at \in {y, pass[g].at} /\ \A h \in Generations : h # g => pass'[h] = pass[h]
    BY <1>0, <1>6 DEF SkipStep, OccupyStep, BookTypes, Go
  <2>4. \A i \in 1 .. Len(writes') : writes'[i].cursor.offset = y
          \/ \E j \in 1 .. Len(writes) : writes'[i].cursor.offset = writes[j].cursor.offset
    <3>1. CASE SkipStep(g)
      BY <3>1 DEF SkipStep
    <3>2. CASE OccupyStep(g)
      <4>1. PICK w \in Writes : writes' = Append(writes, w) /\ w.cursor.offset = y
        BY <2>1, <3>2, CursorWriteIs DEF OccupyStep
      <4>2. /\ Len(writes') = Len(writes) + 1 /\ writes'[Len(writes) + 1] = w
            /\ \A i \in 1 .. Len(writes) : writes'[i] = writes[i]
        BY <1>0, <4>1, AppendWrite
      <4> QED BY <1>0, <4>1, <4>2
    <3> QED BY <1>6, <3>1, <3>2
  <2> HIDE DEF y
  <2>5. \A h \in Generations : pass'[h].st \in {"read", "await", "persist"} =>
           pass'[h].at \in {y, offset} \/ \E f \in Generations : Scanning(f) /\ pass'[h].at = pass[f].at
    BY <2>1, <2>3 DEF Scanning
  <2>6. (base' + 1) .. y \subseteq done' \cup ignored'
    <3> DEFINE x == pass[g].at
               S == done \cup ignored
               T == done' \cup ignored'
               a == base
    <3>1. (a + 1) .. x \subseteq S /\ T = S \cup {x + 1} /\ x \in Nat /\ a \in Nat
      BY <1>0, <2>1, <2>2 DEF Covered, y
    <3>2. x + 1 = y /\ base' = a
      BY <2>1 DEF y
    <3> HIDE DEF x, S, T, a
    <3>3. (a + 1) .. (x + 1) \subseteq T
      <4>1. (a + 1) .. (x + 1) \subseteq ((a + 1) .. x) \cup {x + 1}
        BY <3>1
      <4> QED BY <3>1, <4>1
    <3> QED BY <3>2, <3>3 DEF T
  <2> QED BY <1>0, <2>1, <2>2, <2>4, <2>5, <2>6, CoverStep, SMTT(60)
<1>7. ASSUME NEW g \in Generations, AdmitStep(g) \/ HoldStep(g) \/ DropStep(g) PROVE CoverOK'
  <2>1. /\ UNCHANGED <<disk, writes, base, ignored>> /\ done \subseteq done' /\ \A id \in settled' : id[2] \in done'
    BY <1>0, <1>7 DEF AdmitStep, HoldStep, DropStep, outcome
  <2>2. \A h \in Generations : pass'[h].st \in {"read", "await", "persist"} => Scanning(h) /\ pass'[h].at = pass[h].at
    <3>1. CASE AdmitStep(g)
      BY <1>0, <3>1 DEF AdmitStep, AtRecord, Reading, Scanning, BookTypes, Go
    <3>2. CASE HoldStep(g) \/ DropStep(g)
      BY <1>0, <3>2 DEF HoldStep, DropStep, Scanning, BookTypes, Go, EndPass
    <3> QED BY <1>7, <3>1, <3>2
  <2>3. offset' = offset \/ (Scanning(g) /\ offset' = pass[g].at)
    BY <1>7 DEF AdmitStep, HoldStep, DropStep, AtRecord, Reading, Scanning
  <2>4. (base' + 1) .. offset \subseteq done' \cup ignored'
    BY <1>1, <2>1 DEF Covered
  <2> QED BY <1>0, <2>1, <2>2, <2>3, <2>4, CoverStep
\* The place of a record whose delivery settled.
<1>8. ASSUME NEW g \in Generations, TakeStep(g) PROVE CoverOK'
  <2> DEFINE y == pass[g].at + 1
             id == <<g, y>>
  <2>1. /\ UNCHANGED <<disk, base, offset, done, ignored>> /\ settled' \subseteq settled /\ Scanning(g) /\ pass[g].at < Len(log)
        /\ id \in settled
    BY <1>8 DEF TakeStep, Acknowledged, Scanning, outcome
  <2>2. id[2] = y
    OBVIOUS
  <2>3. y \in Nat /\ pass[g].at \in Nat /\ Covered(pass[g].at) /\ y \in done
    BY <1>0, <2>1, <2>2 DEF CoverOK
  <2>4. Covered(y)
    BY <1>0, <2>3, CoverNext
  <2>5. PICK w \in Writes : writes' = Append(writes, w) /\ w.cursor.offset = y
    BY <1>8, CursorWriteIs DEF TakeStep
  <2> HIDE DEF y
  <2>6. /\ Len(writes') = Len(writes) + 1 /\ writes'[Len(writes) + 1] = w
        /\ \A i \in 1 .. Len(writes) : writes'[i] = writes[i]
    BY <1>0, <2>5, AppendWrite
  <2>7. \A i \in 1 .. Len(writes') : writes'[i].cursor.offset = y
          \/ \E j \in 1 .. Len(writes) : writes'[i].cursor.offset = writes[j].cursor.offset
    BY <1>0, <2>5, <2>6
  <2>8. \A h \in Generations : pass'[h].st \in {"read", "await", "persist"} => Scanning(h) /\ pass'[h].at = pass[h].at
    BY <1>0, <1>8, <2>1 DEF TakeStep, Scanning, BookTypes, Go
  <2>9. (base' + 1) .. y \subseteq done' \cup ignored'
    BY <2>1, <2>4 DEF Covered
  <2> QED BY <1>0, <2>1, <2>3, <2>7, <2>8, <2>9, CoverStep
<1>9. CASE HeadStep("landed")
  <2>1. PICK st \in {"running", "landed"} : st = "landed" /\ HeadStep(st)
    BY <1>9
  <2>2. Len(writes') = Len(writes) /\ writes'[1].cursor = writes[1].cursor /\ \A i \in 2 .. Len(writes) : writes'[i] = writes[i]
    BY <2>1, HeadBook DEF HeadStep
  <2>3. /\ UNCHANGED <<pass, base, offset, done, ignored, settled>> /\ disk' = {writes[1].cursor} /\ writes # <<>>
    BY <1>9 DEF HeadStep, queues, outcome
  <2>4. 1 \in 1 .. Len(writes)
    BY <1>0, <2>3, WithoutIs
  <2>5. \A c \in disk' : \E i \in 1 .. Len(writes) : c.offset = writes[i].cursor.offset
    BY <2>3, <2>4
  <2>6. \A i \in 1 .. Len(writes') : \E j \in 1 .. Len(writes) : writes'[i].cursor.offset = writes[j].cursor.offset
    BY <1>0, <2>2
  <2>7. (base' + 1) .. offset \subseteq done' \cup ignored'
    BY <1>1, <2>3 DEF Covered
  <2> QED BY <1>0, <2>3, <2>5, <2>6, <2>7, CoverStep DEF Scanning
<1>10. ASSUME NEW w \in Writes, NEW ok \in BOOLEAN, EndStep(w, ok) PROVE CoverOK'
  <2>1. /\ UNCHANGED <<disk, base, done, ignored, settled>> /\ w = writes[1] /\ writes' = Without(1) /\ writes # <<>>
        /\ w.gen \in Generations
    BY <1>10 DEF EndStep, WriteEnds, queues, outcome, Writes
  <2>2. /\ Len(writes) > 0 /\ Len(writes') = Len(writes) - 1 /\ \A i \in 1 .. Len(writes') : writes'[i] = writes[i + 1]
    BY <1>0, <2>1, WithoutIs
  <2>3. \A i \in 1 .. Len(writes') : \E j \in 1 .. Len(writes) : writes'[i].cursor.offset = writes[j].cursor.offset
    <3>1. \A i \in 1 .. Len(writes') : i + 1 \in 1 .. Len(writes)
      BY <1>0, <2>2
    <3> QED BY <2>2, <3>1
  <2>4. offset' = offset \/ (Scanning(w.gen) /\ offset' = pass[w.gen].at)
    BY <1>10 DEF EndStep, WriteEnds, Scanning
  <2>5. \A h \in Generations : pass'[h].st \in {"read", "await", "persist"} =>
          (Scanning(h) /\ pass'[h].at = pass[h].at) \/ pass'[h].at = w.cursor.offset
    <3>1. CASE w.init
      BY <1>10, <3>1 DEF EndStep, WriteEnds, Scanning
    <3>2. CASE ~w.init /\ ok
      <4>1. Go(w.gen, "read", w.cursor.offset)
        BY <1>10, <3>2 DEF EndStep, WriteEnds
      <4> QED BY <1>0, <2>1, <4>1 DEF Go, BookTypes, Scanning
    <3>3. CASE ~w.init /\ ~ok
      <4>1. Go(w.gen, "idle", 0)
        BY <1>10, <3>3 DEF EndStep, WriteEnds, EndPass
      <4> QED BY <1>0, <2>1, <4>1 DEF Go, BookTypes, Scanning
    <3> QED BY <3>1, <3>2, <3>3
  <2>6. 1 \in 1 .. Len(writes)
    BY <1>0, <2>2
  <2>7. \A h \in Generations : pass'[h].st \in {"read", "await", "persist"} =>
          (Scanning(h) /\ pass'[h].at = pass[h].at) \/ \E i \in 1 .. Len(writes) : pass'[h].at = writes[i].cursor.offset
    BY <2>1, <2>5, <2>6
  <2>8. (base' + 1) .. offset \subseteq done' \cup ignored'
    BY <1>1, <2>1 DEF Covered
  <2> QED BY <1>0, <2>1, <2>3, <2>4, <2>7, <2>8, CoverStep
<1> QED BY Steps, <1>2, <1>3, <1>4, <1>5, <1>6, <1>7, <1>8, <1>9, <1>10

\* The tailer's books, the queues' contents and the cover of every cursor hold
\* in every reachable state, whatever the constants are.
THEOREM BooksKept == Spec => [](Book /\ QueuesOK /\ CoverOK)
<1>1. Init => Book /\ QueuesOK /\ CoverOK
  BY InitBook, InitQueues, InitCover
<1>2. Book /\ QueuesOK /\ CoverOK /\ [Next]_vars => (Book /\ QueuesOK /\ CoverOK)'
  BY StepBook, StepQueues, StepCover
<1> QED BY <1>1, <1>2, PTL DEF Spec

\* The durable cursor never passes a record that was not handled, dead
\* lettered, superseded or refused by the stream (persistCursor after
\* delivery.completed, and the fences around it).
THEOREM NothingIsSkipped == Spec => []NothingSkipped
<1>1. CoverOK => NothingSkipped
  BY DEF CoverOK, NothingSkipped, Covered
<1> QED BY <1>1, BooksKept, PTL

\* Every variable stays in its domain, for any number of records, bridges,
\* watches and faults.
THEOREM TypeCorrect == Spec => []TypeOK
<1>1. Book /\ QueuesOK => TypeOK
  <2> SUFFICES ASSUME Book, QueuesOK PROVE TypeOK
    OBVIOUS
  <2>1. BookTypes /\ PassOK /\ MemOK /\ MaxRecords \in Nat /\ Len(log) \in Nat
    BY SequenceFacts DEF Book
  <2>2. disk \subseteq [offset : 0 .. MaxRecords, stream : SUBSET [bridge : 1 .. MaxBridges, seq : Positions]]
    <3> SUFFICES ASSUME NEW c \in disk PROVE c \in [offset : 0 .. MaxRecords, stream : SUBSET [bridge : 1 .. MaxBridges, seq : Positions]]
      OBVIOUS
    <3>1. c \in Cursors /\ c.offset <= Len(log)
      BY <2>1 DEF BookTypes, MemOK, Proper
    <3> QED BY <2>1, <3>1 DEF Cursors, Streams, Bridges, BookTypes
  <2>3. Cardinality(disk) <= 1 /\ Cardinality(stream) <= 1
    <3>1. ASSUME NEW S, One(S) PROVE Cardinality(S) <= 1
      <4>1. CASE S = {}
        BY <4>1, FS_EmptySet
      <4>2. CASE S # {}
        <5>1. PICK x : x \in S
          BY <4>2
        <5>2. S = {x}
          BY <3>1, <5>1 DEF One
        <5>3. Cardinality({x}) = 1
          BY FS_Singleton
        <5> QED BY <5>2, <5>3
      <4> QED BY <4>1, <4>2
    <3> QED BY <2>1, <3>1 DEF BookTypes
  <2>4. pass \in [Generations -> [st : {"idle", "init", "read", "await", "persist"}, at : 0 .. MaxRecords]]
    <3>1. \A g \in Generations : pass[g] \in Passes /\ pass[g].at <= Len(log)
      BY <2>1 DEF BookTypes, PassOK
    <3>2. \A g \in Generations : pass[g] \in [st : {"idle", "init", "read", "await", "persist"}, at : 0 .. MaxRecords]
      BY <2>1, <3>1 DEF Passes, BookTypes
    <3> QED BY <2>1, <3>2 DEF BookTypes
  <2>5. log \in Seq([bridge : 1 .. MaxBridges, seq : Positions, kind : RecordKinds])
    BY <2>1 DEF BookTypes, Records, Bridges
  <2>6. settled \subseteq Generations \X Positions /\ done \cup ignored \subseteq Positions /\ last \in 0 .. MaxRecords /\ cur \in 0 .. Len(qs)
    BY DEF QueuesOK, Ids
  <2>7. /\ live \in {0, gens} /\ gens \in 0 .. MaxWatches /\ initOf \in 0 .. gens /\ offset \in 0 .. Len(log)
        /\ known \subseteq 1 .. MaxBridges /\ initRes \in [Generations -> {"none", "pending", "ok", "failed"}]
    BY <2>1 DEF BookTypes, Bridges
  <2> QED BY <2>2, <2>3, <2>4, <2>5, <2>6, <2>7 DEF TypeOK
<1> QED BY <1>1, BooksKept, PTL

-----------------------------------------------------------------------------
(* At most one handled record lies beyond the cursor *)

\* Positions handled, or handed to a handler.
Told == done \cup {p \in Positions : \E k \in 1 .. Len(qs) : \E id \in Held(qs[k]) : id[2] = p}

\* The first record behind x that a stream S accepts.
IsNext(S, x, p) == p \in (x + 1) .. Len(log) /\ Acc(S, p) /\ \A r \in (x + 1) .. (p - 1) : ~Acc(S, r)
Upcoming(p) == IsNext(stream, Scan, p)

Running(w) == w.st = "running"
Same(c, d) == c.offset = d.offset /\ c.stream = d.stream
Follows(d, c) == Same(c, d) \/ IsNext(d.stream, d.offset, c.offset)
\* The scan stands where the cursor does, but for records no stream takes.
Level(d) == stream = d.stream /\ d.offset <= Scan /\ \A r \in (d.offset + 1) .. Scan : ~Acc(stream, r)
\* The cursor has the record that is taken next.
Behind(d) == d.stream = StreamAt(d.offset) /\ Upcoming(d.offset)

\* A second initial cursor starts the terminal anew.
CanFollow == HasCursor \/ gens < 2

TakenOnce == live # 0 => \A p \in Told :
  /\ p <= Scan \/ Upcoming(p)
  /\ \A c \in disk : p <= c.offset \/ Upcoming(p)
  /\ \A i \in 1 .. Len(writes) :
       Running(writes[i]) \/ writes[i].gen = live => p <= writes[i].cursor.offset \/ Upcoming(p)
OneBeyond == live = 0 => \E n \in Nat : \A p \in Told :
  /\ \A c \in disk : p <= c.offset \/ p = n
  /\ \A i \in 1 .. Len(writes) : Running(writes[i]) => p <= writes[i].cursor.offset \/ p = n
\* What a stopped tailer leaves for the next watch.
NextBeyond == \A p \in Told :
  /\ \A c \in disk : p <= c.offset \/ IsNext(c.stream, c.offset, p)
  /\ \A i \in 1 .. Len(writes) : Running(writes[i]) =>
       p <= writes[i].cursor.offset \/ \E d \in disk : IsNext(d.stream, d.offset, p)
FollowsOK == \A d \in disk : \A i \in 1 .. Len(writes) : Running(writes[i]) => Follows(d, writes[i].cursor)
RelOK == \A d \in disk :
  \/ Level(d) /\ \A i \in 1 .. Len(writes) : Running(writes[i]) => Follows(d, writes[i].cursor)
  \/ Behind(d) /\ \A i \in 1 .. Len(writes) : Running(writes[i]) => Same(writes[i].cursor, d)

\* The first watch of a terminal that left no cursor file.
Opening(w) ==
  /\ Told = {} /\ (w.st # "landed" => disk = {})
  /\ live = 1 => /\ initOf = 1 /\ initRes[1] = "pending" /\ pass[1].st \in {"idle", "init"}
                 /\ offset = w.cursor.offset /\ stream = {}
FirstOK == ~HasCursor =>
  /\ gens = 0 => disk = {} /\ Told = {}
  /\ gens = 1 => \A i \in 1 .. Len(writes) : writes[i].init => Opening(writes[i])

WindowOK ==
  /\ \A p \in Told : p \in Nat /\ p <= Len(log)
  /\ TakenOnce /\ OneBeyond /\ FirstOK
  /\ CanFollow /\ live = 0 => NextBeyond /\ FollowsOK
  /\ CanFollow /\ live # 0 => RelOK

LEMMA NextUnique ==
  ASSUME NEW S, NEW x \in Nat, NEW p \in Nat, NEW q \in Nat, IsNext(S, x, p), IsNext(S, x, q)
  PROVE  p = q
<1>1. ~(p < q) /\ ~(q < p)
  BY DEF IsNext
<1> QED BY <1>1

LEMMA NextIs ==
  ASSUME NEW S, NEW x \in Nat, NEW p \in Nat, IsNext(S, x, p), Len(log) \in Nat
  PROVE  /\ p > x /\ p \in 1 .. Len(log) /\ Acc(S, p)
         /\ Acc(S, x + 1) => p = x + 1
         /\ ~Acc(S, x + 1) => IsNext(S, x + 1, p)
         /\ \A y \in Nat : y <= x /\ (\A r \in (y + 1) .. x : ~Acc(S, r)) => IsNext(S, y, p)
<1>1. p > x /\ p \in 1 .. Len(log) /\ Acc(S, p)
  BY DEF IsNext
<1>2. ASSUME Acc(S, x + 1) PROVE p = x + 1
  BY <1>1, <1>2 DEF IsNext
<1>3. ASSUME ~Acc(S, x + 1) PROVE IsNext(S, x + 1, p)
  <2>1. p # x + 1
    BY <1>1, <1>3
  <2>2. p \in (x + 1 + 1) .. Len(log)
    BY <1>1, <2>1
  <2> QED BY <1>1, <2>2 DEF IsNext
<1>4. ASSUME NEW y \in Nat, y <= x, \A r \in (y + 1) .. x : ~Acc(S, r) PROVE IsNext(S, y, p)
  <2>1. p \in (y + 1) .. Len(log)
    BY <1>1, <1>4
  <2>2. ASSUME NEW r \in (y + 1) .. (p - 1) PROVE ~Acc(S, r)
    <3>1. r \in (y + 1) .. x \/ r \in (x + 1) .. (p - 1)
      BY <1>1, <1>4
    <3> QED BY <1>4, <3>1 DEF IsNext
  <2> QED BY <1>1, <2>1, <2>2 DEF IsNext
<1> QED BY <1>1, <1>2, <1>3, <1>4

\* The first acceptable record, seen from anywhere before it.
LEMMA NextMade ==
  ASSUME NEW S, NEW y \in Nat, NEW x \in Nat, y <= x, x + 1 <= Len(log), Len(log) \in Nat, Acc(S, x + 1),
         \A r \in (y + 1) .. x : ~Acc(S, r)
  PROVE  IsNext(S, y, x + 1)
<1>1. x + 1 \in (y + 1) .. Len(log) /\ (x + 1) - 1 = x
  OBVIOUS
<1> QED BY <1>1 DEF IsNext

LEMMA ToldStep ==
  ASSUME Book, QueuesOK, [Next]_vars
  PROVE  \/ Told' \subseteq Told /\ \A g \in Generations : ~AdmitStep(g)
         \/ \E g \in Generations : AdmitStep(g) /\ Told' \subseteq Told \cup {pass[g].at + 1}
<1>0. /\ Len(qs) \in Nat /\ cur \in 0 .. Len(qs) /\ \A k \in 1 .. Len(qs) : Shape(qs[k]) /\ Held(qs[k]) \subseteq Ids
  BY QueueFacts
<1>1. ASSUME UNCHANGED <<qs, done>> PROVE Told' \subseteq Told
  BY <1>1 DEF Told
<1>2. ASSUME NEW g \in Generations, AdmitStep(g) PROVE Told' \subseteq Told \cup {pass[g].at + 1}
  <2> DEFINE e == Arrival(g)
             c == cur'
             m == Mine
             q == Admitted(m, e)
             u == Superseded(m, e)
  <2>1. /\ e \in Entry /\ c \in 1 .. Len(qs') /\ qs'[c] = q
        /\ \A k \in 1 .. Len(qs') : k # c => k \in 1 .. Len(qs) /\ qs'[k] = qs[k]
        /\ done' = done \cup {i[2] : i \in u}
    BY <1>2 DEF AdmitStep
  <2>2. Shape(m) /\ \A id \in Held(m) : id \in Ids /\ id[2] \in Told
    <3>1. CASE cur = 0
      BY <3>1, NewQueueIs DEF Mine
    <3>2. CASE cur # 0
      <4>1. m = qs[cur] /\ cur \in 1 .. Len(qs) /\ Shape(m) /\ Held(m) \subseteq Ids
        BY <1>0, <3>2 DEF Mine
      <4>2. \A id \in Ids : id[2] \in Positions
        BY DEF Ids
      <4> QED BY <4>1, <4>2 DEF Told
    <3> QED BY <3>1, <3>2
  <2>3. e.id = <<g, pass[g].at + 1>>
    BY DEF Arrival, NewItem
  <2> HIDE DEF e, c, m
  <2>4. Held(q) \subseteq Held(m) \cup {e.id} /\ u \subseteq Held(m)
    BY <2>1, <2>2, AdmittedIs
  <2> HIDE DEF q, u
  <2>5. \A id \in Held(q) : id[2] \in Told \cup {pass[g].at + 1}
    BY <2>2, <2>3, <2>4
  <2>6. done' \subseteq Told
    BY <2>1, <2>2, <2>4 DEF Told
  <2>7. ASSUME NEW k \in 1 .. Len(qs'), NEW id \in Held(qs'[k]), id[2] \in Positions PROVE id[2] \in Told \cup {pass[g].at + 1}
    <3>1. CASE k = c
      BY <2>1, <2>5, <2>7, <3>1
    <3>2. CASE k # c
      BY <2>1, <2>7, <3>2 DEF Told
    <3> QED BY <3>1, <3>2
  <2> QED BY <2>6, <2>7 DEF Told
<1>3. ASSUME NEW g \in Generations, HoldStep(g) PROVE Told' \subseteq Told
  <2>1. /\ done' = done
        /\ \A k \in 1 .. Len(qs') : (k \in 1 .. Len(qs) /\ qs'[k] = qs[k]) \/ qs'[k] = NewQueue
    BY <1>3 DEF HoldStep, outcome
  <2> QED BY <2>1, NewQueueIs DEF Told
<1>4. ASSUME NEW k \in 1 .. Len(qs), NEW e \in qs[k].active, SettleStep(k, e) PROVE Told' \subseteq Told
  <2> DEFINE q == Succeeded(qs[k], e)
  <2>1. Held(q) \subseteq Held(qs[k]) /\ e.id \in Held(qs[k]) /\ e.id[2] \in Positions
    <3>1. Held(q) \subseteq Held(qs[k]) /\ e.id \in Held(qs[k]) /\ e.id \in Ids
      BY <1>0, SucceededIs
    <3> QED BY <3>1 DEF Ids
  <2>2. qs' = [qs EXCEPT ![k] = q] /\ done' = done \cup {e.id[2]}
    BY <1>4 DEF SettleStep
  <2> HIDE DEF q
  <2>3. /\ Len(qs') = Len(qs) /\ qs'[k] = q /\ \A i \in 1 .. Len(qs) : i # k => qs'[i] = qs[i]
    BY <2>2, ReplacedIs DEF QueuesOK
  <2> QED BY <1>0, <2>1, <2>2, <2>3 DEF Told
<1>5. ASSUME NEW k \in 1 .. Len(qs), NEW r, AgainStep(k, r) PROVE Told' \subseteq Told
  <2>1. qs' = [qs EXCEPT ![k] = r] /\ Held(r) \subseteq Held(qs[k]) /\ done' = done
    BY <1>5 DEF AgainStep, outcome
  <2>2. /\ Len(qs') = Len(qs) /\ qs'[k] = r /\ \A i \in 1 .. Len(qs) : i # k => qs'[i] = qs[i]
    BY <2>1, ReplacedIs DEF QueuesOK
  <2> QED BY <1>0, <2>1, <2>2 DEF Told
<1>6. CASE Crash
  <2>1. Len(qs') = 0 /\ done' = done
    BY <1>6 DEF Crash, history
  <2> QED BY <2>1 DEF Told
<1>7. CASE \/ (\E r \in Records : GrowStep(r)) \/ StillStep \/ StopStep \/ HeadStep("running") \/ HeadStep("landed")
           \/ (Watch /\ UNCHANGED <<queues, outcome>>)
           \/ (\E w \in Writes, ok \in BOOLEAN : EndStep(w, ok))
           \/ \E g \in Generations : \/ \E st \in {"idle", "init", "read"}, at \in 0 .. Len(log) : MoveStep(g, st, at)
                                     \/ TakeStep(g) \/ DropStep(g) \/ SkipStep(g) \/ OccupyStep(g)
  <2>1. UNCHANGED <<qs, done>>
    BY <1>7 DEF GrowStep, StillStep, StopStep, HeadStep, EndStep, MoveStep, TakeStep, DropStep, SkipStep, OccupyStep, queues, outcome
  <2> QED BY <1>1, <2>1
<1> QED BY Steps, <1>2, <1>3, <1>4, <1>5, <1>6, <1>7

LEMMA HeadFacts ==
  ASSUME Book
  PROVE  /\ Len(writes) \in Nat /\ writes # <<>> <=> Len(writes) > 0
         /\ \A i \in 1 .. Len(writes) : /\ writes[i] \in Writes /\ WriteOK(writes[i])
                                        /\ writes[i].gen \in Generations /\ writes[i].gen \in Nat \ {0}
                                        /\ writes[i].gen <= gens /\ writes[i].cursor.offset \in Nat
                                        /\ i > 1 => writes[i].st = "queued"
                                        /\ i > 1 /\ writes[i].init => writes[1].gen < writes[i].gen
         /\ gens = 0 => writes = <<>>
         /\ gens = 1 => \A i \in 1 .. Len(writes) : writes[i].init => i = 1
<1>1. Len(writes) \in Nat /\ BookTypes /\ ChainOK /\ gens \in Nat /\ \A i \in 1 .. Len(writes) : writes[i] \in Writes
  BY SequenceFacts, LiveFacts DEF Book
<1>2. writes # <<>> <=> Len(writes) > 0
  <2>1. writes \in Seq(Writes)
    BY <1>1 DEF BookTypes
  <2> QED BY <1>1, <2>1, EmptySeq
<1>3. \A w \in Writes : w.gen \in Generations /\ w.cursor.offset \in Nat
  BY DEF Writes, Cursors
<1>4. \A i \in 1 .. Len(writes) : /\ WriteOK(writes[i]) /\ (i > 1 => writes[i].st = "queued")
                                  /\ i > 1 /\ writes[i].init => writes[1].gen < writes[i].gen
  BY <1>1 DEF ChainOK
<1>5. \A i \in 1 .. Len(writes) : writes[i].gen \in Nat \ {0} /\ writes[i].gen <= gens
  BY <1>1, <1>3, <1>4 DEF WriteOK, Generations
<1>6. gens = 0 => writes = <<>>
  <2> SUFFICES ASSUME gens = 0, Len(writes) > 0 PROVE FALSE
    BY <1>1, <1>2
  <2>1. 1 \in 1 .. Len(writes)
    BY <1>1
  <2> QED BY <1>5, <2>1
<1>7. ASSUME gens = 1, NEW i \in 1 .. Len(writes), writes[i].init PROVE i = 1
  <2> SUFFICES ASSUME i > 1 PROVE FALSE
    OBVIOUS
  <2>1. 1 \in 1 .. Len(writes) /\ writes[1].gen < writes[i].gen
    BY <1>1, <1>4, <1>7
  <2> QED BY <1>5, <1>7, <2>1
<1> QED BY <1>1, <1>2, <1>3, <1>4, <1>5, <1>6, <1>7

LEMMA StepFirst ==
  ASSUME Book, QueuesOK, FirstOK, [Next]_vars
  PROVE  FirstOK'
<1> SUFFICES ASSUME ~HasCursor PROVE FirstOK'
  BY DEF FirstOK
<1>0. /\ gens \in Nat /\ live \in Nat /\ live \in {0, gens} /\ 0 \notin Generations /\ BookTypes
      /\ \A g \in Generations : pass[g].st # "idle" => g <= gens /\ g \in Nat \ {0}
  BY LiveFacts, HeadFacts DEF Book, BookTypes, Generations
<1>1. CASE gens = 0
  <2>1. writes = <<>> /\ Len(writes) = 0 /\ disk = {} /\ Told = {} /\ live = 0 /\ \A g \in Generations : live # g
    BY <1>0, <1>1, HeadFacts DEF FirstOK
  <2>2. \A g \in Generations : pass[g].st = "idle"
    BY <1>0, <1>1
  <2>3. Told' = {}
    BY <2>1, ToldStep DEF AdmitStep, AtRecord
  <2>4. CASE Watch /\ UNCHANGED <<queues, outcome>>
    <3>1. PICK w \in Writes : /\ writes' = Append(writes, w) /\ w.init /\ w.st = "queued" /\ w.cursor.offset = Len(log)
                              /\ gens' = 1 /\ disk' = disk /\ pass' = pass /\ pass[1].st = "idle"
                              /\ initOf' = 1 /\ initRes' = [initRes EXCEPT ![1] = "pending"] /\ 1 \in Generations
                              /\ offset' = Len(log) /\ stream' = {}
      BY <1>1, <2>1, <2>4, WatchIs
    <3>2. Len(writes') = 1 /\ writes'[1] = w
      BY <1>0, <2>1, <3>1, AppendWrite
    <3>3. initRes'[1] = "pending"
      BY <1>0, <3>1 DEF BookTypes
    <3>4. \A i \in 1 .. Len(writes') : writes'[i] = w
      BY <3>2
    <3> QED BY <2>1, <2>3, <3>1, <3>3, <3>4 DEF FirstOK, Opening
  <2>5. CASE ~(Watch /\ UNCHANGED <<queues, outcome>>)
    <3>1. gens' = gens /\ disk' = disk
      BY <2>1, <2>2, <2>5, Steps
        DEF GrowStep, StillStep, StopStep, HeadStep, EndStep, MoveStep, TakeStep, DropStep, SkipStep, OccupyStep,
            AdmitStep, HoldStep, SettleStep, AgainStep, AtRecord, Crash, booked
    <3> QED BY <1>1, <2>1, <2>3, <3>1 DEF FirstOK
  <2> QED BY <2>4, <2>5
<1>2. CASE gens = 1
  <2>1. live \in {0, 1} /\ 1 \in Generations
    BY <1>0, <1>2 DEF BookTypes, Generations
  <2>2. \A g \in Generations : pass[g].st # "idle" => g = 1
    BY <1>0, <1>2
  <2>3. CASE Watch
    BY <1>2, <2>3, WatchIs DEF FirstOK
  <2>4. CASE ~Watch
    <3>1. gens' = 1 /\ (live' = 1 => live = 1 /\ live' = live)
      <4>1. gens' = gens /\ live' \in {0, live}
        BY <2>4, Steps, ZenonT(60)
          DEF GrowStep, StillStep, StopStep, HeadStep, EndStep, WriteEnds, MoveStep, TakeStep, DropStep, SkipStep, OccupyStep,
              AdmitStep, HoldStep, SettleStep, AgainStep, Crash, booked, StoppedTailer
      <4> QED BY <1>2, <2>1, <4>1
    <3> SUFFICES ASSUME NEW i \in 1 .. Len(writes'), writes'[i].init PROVE Opening(writes[i])'
      BY <3>1 DEF FirstOK
    <3>2. ASSUME NEW j \in 1 .. Len(writes), writes[j].init
          PROVE  Opening(writes[j]) /\ j = 1
      BY <1>2, <3>2, HeadFacts DEF FirstOK
    \* The opening write is the head of the chain, and nothing is read behind it.
    <3>3. ASSUME writes' = writes, disk' = disk,
                 live' = 1 => UNCHANGED <<initOf, initRes, offset, stream>> /\ pass'[1].st \in {"idle", "init"},
                 \A g \in Generations : ~AdmitStep(g)
          PROVE  Opening(writes[i])'
      <4>1. Opening(writes[i]) /\ Told' = {}
        BY <3>2, <3>3, ToldStep DEF Opening
      <4> QED BY <3>1, <3>3, <4>1 DEF Opening
    <3>4. CASE (\E r \in Records : GrowStep(r)) \/ StillStep \/ StopStep \/ \E k : (\E e : SettleStep(k, e)) \/ \E r : AgainStep(k, r)
      <4>1. writes' = writes /\ disk' = disk /\ pass' = pass /\ (live' = 1 => UNCHANGED <<initOf, initRes, offset, stream>>)
        BY <3>4 DEF GrowStep, StillStep, StopStep, SettleStep, AgainStep, booked, StoppedTailer
      <4>2. Opening(writes[i])
        BY <3>2, <4>1
      <4>3. ~\E g \in Generations : AdmitStep(g)
        <5>1. ASSUME NEW g \in Generations, AdmitStep(g) PROVE FALSE
          <6>1. live = g /\ pass[g].st = "read"
            BY <5>1 DEF AdmitStep, AtRecord, Reading
          <6>2. live = 1
            BY <2>1, <6>1, <1>0
          <6> QED BY <4>2, <6>1, <6>2 DEF Opening
        <5> QED BY <5>1
      <4> QED BY <3>1, <3>3, <4>1, <4>2, <4>3 DEF Opening
    <3>5. CASE Crash
      BY <3>5 DEF Crash
    <3>6. ASSUME NEW g \in Generations,
                 SkipStep(g) \/ OccupyStep(g) \/ AdmitStep(g) \/ HoldStep(g) \/ TakeStep(g)
          PROVE  Opening(writes[i])'
      <4>1. live = g /\ pass[g].st \in {"read", "await"} /\ g = 1
        BY <2>2, <3>6 DEF SkipStep, OccupyStep, AdmitStep, HoldStep, TakeStep, AtRecord, Reading, Acknowledged
      <4>2. \A j \in 1 .. Len(writes) : ~writes[j].init
        BY <3>2, <4>1 DEF Opening
      <4>3. CASE SkipStep(g) \/ AdmitStep(g) \/ HoldStep(g)
        <5>1. writes' = writes
          BY <4>3 DEF SkipStep, AdmitStep, HoldStep
        <5> QED BY <4>2, <5>1
      <4>4. CASE OccupyStep(g) \/ TakeStep(g)
        <5>1. PICK w \in Writes : writes' = Append(writes, w) /\ ~w.init
          <6>1. pass[g].at < Len(log) /\ writes' = Append(writes, CursorWrite(g))
            BY <4>4 DEF OccupyStep, TakeStep, AtRecord
          <6> QED BY <6>1, CursorWriteIs
        <5>2. /\ Len(writes') = Len(writes) + 1 /\ writes'[Len(writes) + 1] = w
              /\ \A j \in 1 .. Len(writes) : writes'[j] = writes[j]
          BY <1>0, <5>1, AppendWrite
        <5>3. i \in 1 .. Len(writes) \/ i = Len(writes) + 1
          BY <5>2, HeadFacts
        <5> QED BY <4>2, <5>1, <5>2, <5>3
      <4> QED BY <3>6, <4>3, <4>4
    <3>7. ASSUME NEW g \in Generations, DropStep(g) PROVE Opening(writes[i])'
      <4>1. g = 1 /\ live # 1 /\ writes' = writes /\ disk' = disk
        BY <2>2, <3>7 DEF DropStep, Acknowledged
      <4>2. \A h \in Generations : ~AdmitStep(h)
        BY <1>0, <2>1, <4>1 DEF AdmitStep, AtRecord
      <4> QED BY <3>1, <3>3, <4>1, <4>2
    <3>8. ASSUME NEW g \in Generations, NEW st \in {"idle", "init", "read"}, NEW at \in 0 .. Len(log), MoveStep(g, st, at)
          PROVE  Opening(writes[i])'
      <4>1. writes' = writes /\ disk' = disk /\ initRes' = initRes /\ stream' = stream
        BY <3>8 DEF MoveStep
      <4>2. Opening(writes[i])
        BY <3>2, <4>1
      <4>3. \A h \in Generations : ~AdmitStep(h)
        <5>1. ASSUME NEW h \in Generations, AdmitStep(h) PROVE FALSE
          <6>1. live = h /\ pass[h].st = "read"
            BY <5>1 DEF AdmitStep, AtRecord, Reading
          <6>2. live = 1
            BY <2>1, <6>1, <1>0
          <6> QED BY <4>2, <6>1, <6>2 DEF Opening
        <5> QED BY <5>1
      <4>4. live = 1 => initOf' = initOf /\ offset' = offset /\ pass'[1].st \in {"idle", "init"}
        <5> SUFFICES ASSUME live = 1 PROVE initOf' = initOf /\ offset' = offset /\ pass'[1].st \in {"idle", "init"}
          OBVIOUS
        <5>1. initOf = 1 /\ initRes[1] = "pending" /\ pass[1].st \in {"idle", "init"}
          BY <4>2 DEF Opening
        <5>2. pass[g].st # "read"
          BY <2>2, <5>1
        <5>3. pass[g].st # "init"
          BY <2>2, <3>8, <5>1 DEF MoveStep
        <5>4. pass[g].st = "idle" /\ g = 1 /\ initOf' = initOf /\ st = "init" /\ Go(g, st, at) /\ offset' = offset
          BY <3>8, <5>1, <5>2, <5>3 DEF MoveStep
        <5>5. pass'[g].st = st
          BY <5>4, PassTypes
        <5> QED BY <5>4, <5>5
      <4> QED BY <3>1, <3>3, <4>1, <4>3, <4>4
    <3>9. CASE HeadStep("running") \/ HeadStep("landed")
      <4>1. PICK st \in {"running", "landed"} : HeadStep(st)
        BY <3>9
      <4>2. /\ Len(writes') = Len(writes) /\ writes'[1].init = writes[1].init /\ writes'[1].st = st
            /\ writes'[1].cursor = writes[1].cursor /\ \A j \in 2 .. Len(writes) : writes'[j] = writes[j]
        BY <4>1, HeadBook DEF HeadStep
      <4>3. i \in 1 .. Len(writes) /\ writes[i].init
        BY <4>2, HeadFacts
      <4>4. i = 1 /\ Opening(writes[i])
        BY <3>2, <4>3
      <4>5. /\ UNCHANGED <<live, initOf, initRes, pass, offset, stream, qs, done>>
            /\ (st = "running" => writes[1].st = "queued" /\ disk' = disk)
        BY <4>1 DEF HeadStep, queues, outcome
      <4>6. Told' = {}
        BY <4>4, <4>5 DEF Opening, Told
      <4>7. writes'[i].st # "landed" => disk' = {}
        BY <4>2, <4>4, <4>5 DEF Opening
      <4>8. writes'[i].cursor = writes[i].cursor
        BY <4>2, <4>4
      <4>9. live = 1 => /\ initOf = 1 /\ initRes[1] = "pending" /\ pass[1].st \in {"idle", "init"}
                        /\ offset = writes[i].cursor.offset /\ stream = {}
        BY <4>4 DEF Opening
      <4> QED BY <4>5, <4>6, <4>7, <4>8, <4>9 DEF Opening
    <3>10. ASSUME NEW w \in Writes, NEW ok \in BOOLEAN, EndStep(w, ok) PROVE Opening(writes[i])'
      <4>1. writes # <<>> /\ writes' = Without(1)
        BY <3>10 DEF EndStep, WriteEnds
      <4>2. i + 1 \in 1 .. Len(writes) /\ i + 1 # 1 /\ writes'[i] = writes[i + 1]
        BY <1>0, <4>1, WithoutIs, HeadFacts
      <4> QED BY <3>2, <4>2
    <3> QED BY <2>4, Steps, <3>4, <3>5, <3>6, <3>7, <3>8, <3>9, <3>10
  <2> QED BY <2>3, <2>4
<1>3. CASE gens > 1
  <2>1. gens' = gens \/ gens' = gens + 1
    BY Steps, WatchIs
      DEF GrowStep, StillStep, StopStep, HeadStep, EndStep, WriteEnds, MoveStep, TakeStep, DropStep, SkipStep, OccupyStep,
          AdmitStep, HoldStep, SettleStep, AgainStep, Crash, booked
  <2> QED BY <1>0, <1>3, <2>1 DEF FirstOK
<1> QED BY <1>0, <1>1, <1>2, <1>3

LEMMA WindowTypes ==
  ASSUME Book
  PROVE  /\ Len(log) \in Nat /\ Scan \in 0 .. Len(log) /\ gens \in Nat /\ live \in Nat
         /\ \A c \in disk : c \in Cursors /\ c.offset \in Nat /\ Proper(c) /\ \A d \in disk : c = d
         /\ \A p \in 1 .. Len(log) : log[p] \in Records
<1>1. BookTypes /\ MemOK
  BY DEF Book
<1>2. \A c \in disk : c \in Cursors /\ c.offset \in Nat /\ Proper(c) /\ \A d \in disk : c = d
  BY <1>1 DEF BookTypes, MemOK, Cursors, One
<1> QED BY <1>1, <1>2, LiveFacts, SequenceFacts

\* The file may have grown; no cursor and no scan has moved.
LEMMA WindowKeep ==
  ASSUME Book, WindowOK, FirstOK', Told' \subseteq Told,
         UNCHANGED <<live, gens, disk, stream>>, Scan' = Scan, Len(log') \in Nat, Len(log) <= Len(log'),
         \A p \in 1 .. Len(log) : log'[p] = log[p],
         \A i \in 1 .. Len(writes') : \E j \in 1 .. Len(writes) :
            /\ writes'[i].cursor = writes[j].cursor /\ writes'[i].gen = writes[j].gen
            /\ writes'[i].st = "running" => writes[j].st = "running"
  PROVE  WindowOK'
<1>1. /\ Len(log) \in Nat /\ Scan \in 0 .. Len(log) /\ \A c \in disk : c.offset \in Nat
      /\ \A i \in 1 .. Len(writes) : writes[i].cursor.offset \in Nat
  BY WindowTypes, HeadFacts
<1>2. \A S : \A p \in 1 .. Len(log) : Acc(S, p)' <=> Acc(S, p)
  BY DEF Acc
<1>3. \A S : \A x \in Nat : \A p : IsNext(S, x, p) => IsNext(S, x, p)'
  <2> SUFFICES ASSUME NEW S, NEW x \in Nat, NEW p, IsNext(S, x, p) PROVE IsNext(S, x, p)'
    OBVIOUS
  <2>1. p \in (x + 1) .. Len(log) /\ Acc(S, p) /\ \A r \in (x + 1) .. (p - 1) : ~Acc(S, r)
    BY DEF IsNext
  <2>2. p \in (x + 1) .. Len(log') /\ p \in 1 .. Len(log) /\ \A r \in (x + 1) .. (p - 1) : r \in 1 .. Len(log)
    BY <1>1, <2>1
  <2> QED BY <1>2, <2>1, <2>2 DEF IsNext
<1>4. \A p : Upcoming(p) => Upcoming(p)'
  BY <1>1, <1>3 DEF Upcoming
<1>5. \A p \in Told' : p \in Nat /\ p <= Len(log')
  BY <1>1 DEF WindowOK
<1>6. TakenOnce'
  <2> SUFFICES ASSUME live # 0, NEW p \in Told'
               PROVE  /\ p <= Scan \/ Upcoming(p)'
                      /\ \A c \in disk : p <= c.offset \/ Upcoming(p)'
                      /\ \A i \in 1 .. Len(writes') :
                           writes'[i].st = "running" \/ writes'[i].gen = live => p <= writes'[i].cursor.offset \/ Upcoming(p)'
    BY DEF TakenOnce, Running
  <2>1. /\ p <= Scan \/ Upcoming(p)
        /\ \A c \in disk : p <= c.offset \/ Upcoming(p)
        /\ \A i \in 1 .. Len(writes) :
             writes[i].st = "running" \/ writes[i].gen = live => p <= writes[i].cursor.offset \/ Upcoming(p)
    BY DEF WindowOK, TakenOnce, Running
  <2>2. ASSUME NEW i \in 1 .. Len(writes'), writes'[i].st = "running" \/ writes'[i].gen = live
        PROVE  p <= writes'[i].cursor.offset \/ Upcoming(p)'
    <3>1. PICK j \in 1 .. Len(writes) : /\ writes'[i].cursor = writes[j].cursor /\ writes'[i].gen = writes[j].gen
                                        /\ writes'[i].st = "running" => writes[j].st = "running"
      OBVIOUS
    <3> QED BY <1>4, <2>1, <2>2, <3>1
  <2> QED BY <1>4, <2>1, <2>2
<1>7. OneBeyond'
  <2> SUFFICES ASSUME live = 0
               PROVE  \E n \in Nat : \A p \in Told' :
                        /\ \A c \in disk : p <= c.offset \/ p = n
                        /\ \A i \in 1 .. Len(writes') : writes'[i].st = "running" => p <= writes'[i].cursor.offset \/ p = n
    BY DEF OneBeyond, Running
  <2>1. PICK n \in Nat : \A p \in Told :
                        /\ \A c \in disk : p <= c.offset \/ p = n
                        /\ \A i \in 1 .. Len(writes) : writes[i].st = "running" => p <= writes[i].cursor.offset \/ p = n
    BY DEF WindowOK, OneBeyond, Running
  <2>2. ASSUME NEW p \in Told', NEW i \in 1 .. Len(writes'), writes'[i].st = "running"
        PROVE  p <= writes'[i].cursor.offset \/ p = n
    <3>1. PICK j \in 1 .. Len(writes) : /\ writes'[i].cursor = writes[j].cursor
                                        /\ writes'[i].st = "running" => writes[j].st = "running"
      OBVIOUS
    <3> QED BY <2>1, <2>2, <3>1
  <2> QED BY <2>1, <2>2
<1>10. ASSUME NEW d \in disk, NEW i \in 1 .. Len(writes'), NEW j \in 1 .. Len(writes),
              writes'[i].cursor = writes[j].cursor, Follows(d, writes[j].cursor)
       PROVE  Follows(d, writes[i].cursor)'
  <2>1. PICK c : c = writes'[i].cursor /\ c = writes[j].cursor
    BY <1>10
  <2>2. Follows(d, c)
    BY <1>10, <2>1
  <2>3. Same(c, d) \/ IsNext(d.stream, d.offset, c.offset)'
    BY <1>1, <1>3, <2>2 DEF Follows, Same
  <2> QED BY <2>1, <2>3 DEF Follows, Same, IsNext, Acc
<1>8. ASSUME CanFollow, live = 0 PROVE NextBeyond' /\ FollowsOK'
  <2>1. NextBeyond /\ FollowsOK
    BY <1>8 DEF WindowOK
  <2>2. ASSUME NEW p \in Told', NEW i \in 1 .. Len(writes'), writes'[i].st = "running"
        PROVE  p <= writes'[i].cursor.offset \/ \E d \in disk : IsNext(d.stream, d.offset, p)'
    <3>1. PICK j \in 1 .. Len(writes) : /\ writes'[i].cursor = writes[j].cursor
                                        /\ writes'[i].st = "running" => writes[j].st = "running"
      OBVIOUS
    <3>2. p <= writes[j].cursor.offset \/ \E d \in disk : IsNext(d.stream, d.offset, p)
      BY <2>1, <2>2, <3>1 DEF NextBeyond, Running
    <3> QED BY <1>1, <1>3, <3>1, <3>2
  <2>3. ASSUME NEW p \in Told', NEW c \in disk PROVE p <= c.offset \/ IsNext(c.stream, c.offset, p)'
    BY <1>1, <1>3, <2>1 DEF NextBeyond
  <2>4. NextBeyond'
    BY <2>2, <2>3 DEF NextBeyond, Running
  <2>5. ASSUME NEW d \in disk, NEW i \in 1 .. Len(writes'), writes'[i].st = "running"
        PROVE  Follows(d, writes[i].cursor)'
    <3>1. PICK j \in 1 .. Len(writes) : /\ writes'[i].cursor = writes[j].cursor
                                        /\ writes'[i].st = "running" => writes[j].st = "running"
      OBVIOUS
    <3>2. Follows(d, writes[j].cursor)
      BY <2>1, <2>5, <3>1 DEF FollowsOK, Running
    <3> QED BY <1>10, <3>1, <3>2
  <2>6. FollowsOK'
    BY <2>5 DEF FollowsOK, Running
  <2> QED BY <2>4, <2>6
<1>9. ASSUME CanFollow, live # 0 PROVE RelOK'
  <2>1. RelOK
    BY <1>9 DEF WindowOK
  <2>2. \A d \in disk : Level(d) => Level(d)'
    <3> SUFFICES ASSUME NEW d \in disk, Level(d) PROVE Level(d)'
      OBVIOUS
    <3>1. \A r \in (d.offset + 1) .. Scan : r \in 1 .. Len(log)
      BY <1>1
    <3> QED BY <1>2, <3>1 DEF Level
  <2>3. \A d \in disk : Behind(d) => Behind(d)'
    <3> SUFFICES ASSUME NEW d \in disk, Behind(d) PROVE Behind(d)'
      OBVIOUS
    <3>1. d.offset \in 1 .. Len(log)
      BY <1>1 DEF Behind, Upcoming, IsNext
    <3> QED BY <1>4, <3>1 DEF Behind, StreamAt
  <2>4. ASSUME NEW d \in disk
        PROVE  \/ Level(d)' /\ \A i \in 1 .. Len(writes') : writes'[i].st = "running" => Follows(d, writes[i].cursor)'
               \/ Behind(d)' /\ \A i \in 1 .. Len(writes') : writes'[i].st = "running" => Same(writes[i].cursor, d)'
    <3>1. CASE Level(d) /\ \A i \in 1 .. Len(writes) : Running(writes[i]) => Follows(d, writes[i].cursor)
      <4>1. ASSUME NEW i \in 1 .. Len(writes'), writes'[i].st = "running"
            PROVE  Follows(d, writes[i].cursor)'
        <5>1. PICK j \in 1 .. Len(writes) : /\ writes'[i].cursor = writes[j].cursor
                                            /\ writes'[i].st = "running" => writes[j].st = "running"
          OBVIOUS
        <5>2. Follows(d, writes[j].cursor)
          BY <3>1, <4>1, <5>1 DEF Running
        <5> QED BY <1>10, <5>1, <5>2
      <4> QED BY <2>2, <3>1, <4>1
    <3>2. CASE Behind(d) /\ \A i \in 1 .. Len(writes) : Running(writes[i]) => Same(writes[i].cursor, d)
      <4>1. ASSUME NEW i \in 1 .. Len(writes'), writes'[i].st = "running"
            PROVE  Same(writes[i].cursor, d)'
        <5>1. PICK j \in 1 .. Len(writes) : /\ writes'[i].cursor = writes[j].cursor
                                            /\ writes'[i].st = "running" => writes[j].st = "running"
          OBVIOUS
        <5> QED BY <3>2, <4>1, <5>1 DEF Running, Same
      <4> QED BY <2>3, <3>2, <4>1
    <3> QED BY <2>1, <3>1, <3>2 DEF RelOK
  <2> QED BY <2>4 DEF RelOK, Running
<1> QED BY <1>5, <1>6, <1>7, <1>8, <1>9 DEF WindowOK, CanFollow

LEMMA FileStill ==
  ASSUME log' = log
  PROVE  /\ \A S, p : Acc(S, p)' <=> Acc(S, p)
         /\ \A S, x, p : IsNext(S, x, p)' <=> IsNext(S, x, p)
         /\ \A p : Upcoming(p)' <=> IsNext(stream', Scan', p)
         /\ \A d, c : Follows(d, c)' <=> Follows(d, c)
         /\ \A d : Level(d)' <=> /\ stream' = d.stream /\ d.offset <= Scan'
                                 /\ \A r \in (d.offset + 1) .. Scan' : ~Acc(stream', r)
         /\ \A d : Behind(d)' <=> d.stream = StreamAt(d.offset) /\ IsNext(stream', Scan', d.offset)
<1>1. \A S, p : Acc(S, p)' <=> Acc(S, p)
  BY DEF Acc
<1>2. \A S, x, p : IsNext(S, x, p)' <=> IsNext(S, x, p)
  BY DEF IsNext, Acc
<1>3. \A p : Upcoming(p)' <=> IsNext(stream', Scan', p)
  <2> SUFFICES ASSUME NEW p PROVE Upcoming(p)' <=> IsNext(stream', Scan', p)
    OBVIOUS
  <2>1. PICK S, x : S = stream' /\ x = Scan'
    OBVIOUS
  <2> QED BY <2>1 DEF Upcoming, IsNext, Acc
<1>4. \A d, c : Follows(d, c)' <=> Follows(d, c)
  BY <1>2 DEF Follows, Same
<1>5. \A d : Level(d)' <=> /\ stream' = d.stream /\ d.offset <= Scan'
                           /\ \A r \in (d.offset + 1) .. Scan' : ~Acc(stream', r)
  <2> SUFFICES ASSUME NEW d
               PROVE  Level(d)' <=> /\ stream' = d.stream /\ d.offset <= Scan'
                                    /\ \A r \in (d.offset + 1) .. Scan' : ~Acc(stream', r)
    OBVIOUS
  <2>1. PICK S, x : S = stream' /\ x = Scan'
    OBVIOUS
  <2> QED BY <2>1 DEF Level, Acc
<1>6. \A d : Behind(d)' <=> d.stream = StreamAt(d.offset) /\ IsNext(stream', Scan', d.offset)
  <2> SUFFICES ASSUME NEW d PROVE Behind(d)' <=> d.stream = StreamAt(d.offset) /\ IsNext(stream', Scan', d.offset)
    OBVIOUS
  <2> QED BY <1>3 DEF Behind, StreamAt
<1> QED BY <1>1, <1>2, <1>3, <1>4, <1>5, <1>6

\* What a step has to show that leaves the terminal watched.
LEMMA WindowLive ==
  ASSUME log' = log, live' # 0, FirstOK', NEW S, S = stream', NEW x, x = Scan',
         \A p \in Told' : p \in Nat /\ p <= Len(log),
         \A p \in Told' : p <= x \/ IsNext(S, x, p),
         \A p \in Told' : \A c \in disk' : p <= c.offset \/ IsNext(S, x, p),
         \A p \in Told' : \A i \in 1 .. Len(writes') : writes'[i].st = "running" \/ writes'[i].gen = live' =>
            p <= writes'[i].cursor.offset \/ IsNext(S, x, p),
         HasCursor \/ gens' < 2 => \A d \in disk' :
            \/ /\ S = d.stream /\ d.offset <= x /\ \A r \in (d.offset + 1) .. x : ~Acc(S, r)
               /\ \A i \in 1 .. Len(writes') : writes'[i].st = "running" => Follows(d, writes'[i].cursor)
            \/ /\ d.stream = StreamAt(d.offset) /\ IsNext(S, x, d.offset)
               /\ \A i \in 1 .. Len(writes') : writes'[i].st = "running" => Same(writes'[i].cursor, d)
  PROVE  WindowOK'
<1>1. \A p : Upcoming(p)' <=> IsNext(S, x, p)
  BY FileStill
<1>2. TakenOnce'
  BY <1>1 DEF TakenOnce, Running
<1>3. OneBeyond' /\ (CanFollow /\ live = 0 => NextBeyond /\ FollowsOK)'
  BY DEF OneBeyond
<1>4. ASSUME CanFollow' PROVE RelOK'
  <2>1. HasCursor \/ gens' < 2
    BY <1>4 DEF CanFollow
  <2>2. \A d, i : Follows(d, writes[i].cursor)' <=> Follows(d, writes'[i].cursor)
    <3> SUFFICES ASSUME NEW d, NEW i PROVE Follows(d, writes[i].cursor)' <=> Follows(d, writes'[i].cursor)
      OBVIOUS
    <3>1. PICK c : c = writes'[i].cursor
      OBVIOUS
    <3> QED BY <3>1 DEF Follows, Same, IsNext, Acc
  <2>3. \A d, i : Same(writes[i].cursor, d)' <=> Same(writes'[i].cursor, d)
    BY DEF Same
  <2>4. ASSUME NEW d \in disk'
        PROVE  \/ Level(d)' /\ \A i \in 1 .. Len(writes') : writes'[i].st = "running" => Follows(d, writes[i].cursor)'
               \/ Behind(d)' /\ \A i \in 1 .. Len(writes') : writes'[i].st = "running" => Same(writes[i].cursor, d)'
    BY <2>1, <2>2, <2>3, FileStill
  <2> QED BY <2>4 DEF RelOK, Running
<1> QED BY <1>2, <1>3, <1>4 DEF WindowOK

\* What every state leaves for the next watch, should the watch end here.
LEMMA Stopped ==
  ASSUME Book, WindowOK
  PROVE  /\ \E n \in Nat : \A p \in Told :
              /\ \A c \in disk : p <= c.offset \/ p = n
              /\ \A i \in 1 .. Len(writes) : Running(writes[i]) => p <= writes[i].cursor.offset \/ p = n
         /\ CanFollow => NextBeyond /\ FollowsOK
<1> SUFFICES ASSUME live # 0
             PROVE  /\ \E n \in Nat : \A p \in Told :
                         /\ \A c \in disk : p <= c.offset \/ p = n
                         /\ \A i \in 1 .. Len(writes) : Running(writes[i]) => p <= writes[i].cursor.offset \/ p = n
                    /\ CanFollow => NextBeyond /\ FollowsOK
  BY DEF WindowOK, OneBeyond
<1>0. /\ Len(log) \in Nat /\ Scan \in Nat /\ \A c \in disk : c.offset \in Nat
      /\ \A i \in 1 .. Len(writes) : writes[i].cursor.offset \in Nat
      /\ \A p \in Told : p \in Nat
  BY WindowTypes, HeadFacts DEF WindowOK
<1>1. \A p \in Told : /\ p <= Scan \/ Upcoming(p)
                      /\ \A c \in disk : p <= c.offset \/ Upcoming(p)
                      /\ \A i \in 1 .. Len(writes) : Running(writes[i]) => p <= writes[i].cursor.offset \/ Upcoming(p)
  BY DEF WindowOK, TakenOnce
<1>2. \A p, q \in Nat : Upcoming(p) /\ Upcoming(q) => p = q
  BY <1>0, NextUnique DEF Upcoming
<1>3. \E n \in Nat : \A p \in Told :
        /\ \A c \in disk : p <= c.offset \/ p = n
        /\ \A i \in 1 .. Len(writes) : Running(writes[i]) => p <= writes[i].cursor.offset \/ p = n
  <2>1. CASE \E n \in Nat : Upcoming(n)
    BY <1>0, <1>1, <1>2, <2>1
  <2>2. CASE ~\E n \in Nat : Upcoming(n)
    BY <1>0, <1>1, <2>2
  <2> QED BY <2>1, <2>2
<1>4. ASSUME CanFollow PROVE NextBeyond /\ FollowsOK
  <2>1. RelOK
    BY <1>4 DEF WindowOK
  <2>2. ASSUME NEW d \in disk, Level(d), NEW p \in Nat, Upcoming(p) PROVE IsNext(d.stream, d.offset, p)
    <3>1. d.stream = stream /\ d.offset <= Scan /\ d.offset \in Nat /\ \A r \in (d.offset + 1) .. Scan : ~Acc(stream, r)
      BY <1>0, <2>2 DEF Level
    <3>2. PICK y \in Nat : y = d.offset
      BY <3>1
    <3>3. IsNext(stream, Scan, p) /\ y <= Scan /\ \A r \in (y + 1) .. Scan : ~Acc(stream, r)
      BY <2>2, <3>1, <3>2 DEF Upcoming
    <3>4. PICK S : S = stream
      OBVIOUS
    <3>5. IsNext(S, y, p)
      BY <1>0, <3>3, <3>4, NextIs
    <3> QED BY <3>1, <3>2, <3>4, <3>5
  <2>3. ASSUME NEW d \in disk, Behind(d), NEW p \in Told PROVE p <= d.offset
    BY <1>0, <1>1, <1>2, <2>3 DEF Behind
  <2>4. ASSUME NEW p \in Told, NEW c \in disk PROVE p <= c.offset \/ IsNext(c.stream, c.offset, p)
    BY <1>0, <1>1, <2>1, <2>2, <2>3 DEF RelOK
  <2>5. ASSUME NEW p \in Told, NEW i \in 1 .. Len(writes), Running(writes[i])
        PROVE  p <= writes[i].cursor.offset \/ \E d \in disk : IsNext(d.stream, d.offset, p)
    <3>1. CASE disk # {}
      <4>1. PICK d \in disk : TRUE
        BY <3>1
      <4>2. CASE Level(d)
        BY <1>0, <1>1, <2>2, <2>5, <4>2
      <4>3. CASE Behind(d) /\ Same(writes[i].cursor, d)
        BY <2>3, <4>3 DEF Same
      <4> QED BY <2>1, <2>5, <4>2, <4>3 DEF RelOK
    <3>2. CASE disk = {}
      <4>1. ~HasCursor /\ gens = 1 /\ live = 1 /\ live \in Generations
        BY <1>4, <3>2, LiveFacts DEF Book, MemOK, CanFollow, BookTypes
      <4>2. CASE writes[i].init
        BY <4>1, <4>2 DEF WindowOK, FirstOK, Opening
      <4>3. CASE ~writes[i].init
        <5>1. writes[i].gen = 1
          BY <4>1, HeadFacts
        <5>2. pass[1].st = "persist" /\ writes[i].cursor.offset = pass[1].at + 1
          BY <4>3, <5>1, HeadFacts DEF WriteOK
        <5>3. Scan = pass[1].at /\ Acc(stream, Scan + 1)
          <6>1. Taken(live) /\ Scanning(live)
            BY <4>1, <5>2 DEF Taken, Scanning
          <6> QED BY <4>1, <6>1 DEF Scan, Book, MemOK
        <5>4. CASE p <= Scan
          BY <1>0, <5>2, <5>3, <5>4
        <5>5. CASE Upcoming(p)
          <6>4. PICK S : S = stream
            OBVIOUS
          <6>5. PICK x \in Nat : x = Scan
            BY <1>0
          <6>2. IsNext(S, x, p) /\ Acc(S, x + 1)
            BY <5>3, <5>5, <6>4, <6>5 DEF Upcoming
          <6>3. p = x + 1
            BY <1>0, <6>2, NextIs
          <6> QED BY <1>0, <5>2, <5>3, <6>5, <6>3
        <5> QED BY <1>1, <5>4, <5>5
      <4> QED BY <4>2, <4>3
    <3> QED BY <3>1, <3>2
  <2>6. FollowsOK
    BY <2>1 DEF RelOK, FollowsOK, Follows, Same
  <2> QED BY <2>4, <2>5, <2>6 DEF NextBeyond
<1> QED BY <1>3, <1>4

\* The watch ends, and with a crash the cursor writes as well.
LEMMA StopWindow ==
  ASSUME Book, WindowOK, FirstOK', log' = log, disk' = disk, gens' = gens, live' = 0, Told' \subseteq Told,
         writes' = writes \/ Len(writes') = 0
  PROVE  WindowOK'
<1>1. PICK n \in Nat : \A p \in Told :
        /\ \A c \in disk : p <= c.offset \/ p = n
        /\ \A i \in 1 .. Len(writes) : writes[i].st = "running" => p <= writes[i].cursor.offset \/ p = n
  BY Stopped DEF Running
<1>2. \A i \in 1 .. Len(writes') : i \in 1 .. Len(writes) /\ writes' = writes
  OBVIOUS
<1>3. OneBeyond'
  BY <1>1, <1>2 DEF OneBeyond, Running
<1>4. ASSUME CanFollow PROVE NextBeyond' /\ FollowsOK'
  <2>1. NextBeyond /\ FollowsOK
    BY <1>4, Stopped
  <2>2. \A p \in Told' : /\ \A c \in disk : p <= c.offset \/ IsNext(c.stream, c.offset, p)'
                         /\ \A i \in 1 .. Len(writes') : writes'[i].st = "running" =>
                              p <= writes'[i].cursor.offset \/ \E d \in disk : IsNext(d.stream, d.offset, p)'
    BY <1>2, <2>1, FileStill DEF NextBeyond, Running
  <2>3. ASSUME NEW d \in disk, NEW i \in 1 .. Len(writes'), writes'[i].st = "running" PROVE Follows(d, writes[i].cursor)'
    <3>1. PICK c : c = writes'[i].cursor /\ c = writes[i].cursor
      BY <1>2
    <3>2. Follows(d, c)
      BY <1>2, <2>1, <2>3, <3>1 DEF FollowsOK, Running
    <3> QED BY <3>1, <3>2 DEF Follows, Same, IsNext, Acc
  <2> QED BY <2>2, <2>3 DEF NextBeyond, FollowsOK, Running
<1>5. TakenOnce' /\ \A p \in Told' : p \in Nat /\ p <= Len(log')
  BY DEF TakenOnce, WindowOK
<1> QED BY <1>3, <1>4, <1>5 DEF WindowOK, CanFollow

\* A watch begins where the cursor is, or behind everything.
LEMMA WatchWindow ==
  ASSUME Book, WindowOK, FirstOK', Watch, Told' \subseteq Told, HasCursor \/ MaxWatches <= 2
  PROVE  WindowOK'
<1>0. /\ Len(log) \in Nat /\ gens \in Nat /\ BookTypes
      /\ \A i \in 1 .. Len(writes) : writes[i].gen <= gens /\ writes[i].gen \in Nat
      /\ \A c, d \in disk : c.offset \in Nat /\ c = d
      /\ \A p \in Told' : p \in Nat /\ p <= Len(log)
  BY WindowTypes, HeadFacts DEF WindowOK, Book
<1>1. /\ log' = log /\ disk' = disk /\ gens' = gens + 1 /\ live' = gens + 1 /\ gens + 1 \in Generations
      /\ Scan' = offset'
  BY WatchIs
<1>2. CanFollow
  <2>1. MaxWatches \in Nat /\ gens + 1 <= MaxWatches
    BY <1>0, <1>1, SequenceFacts DEF Generations
  <2> QED BY <1>0, <2>1 DEF CanFollow
<1>3. NextBeyond /\ FollowsOK
  BY <1>2, Stopped
<1>4. live' # 0 /\ \A i \in 1 .. Len(writes) : writes[i].gen # live'
  BY <1>0, <1>1
<1>5. ASSUME NEW c \in disk, offset' = c.offset, stream' = c.stream, writes' = writes PROVE WindowOK'
  <2>1. PICK S : S = stream'
    OBVIOUS
  <2>2. PICK x : x = Scan'
    OBVIOUS
  <2>3. S = c.stream /\ x = c.offset /\ x \in Nat
    BY <1>0, <1>1, <1>5, <2>1, <2>2
  <2>4. \A d \in disk : d = c
    BY <1>0
  <2>5. \A p \in Told' : /\ p <= c.offset \/ IsNext(S, x, p)
                         /\ \A i \in 1 .. Len(writes) : writes[i].st = "running" => p <= writes[i].cursor.offset \/ IsNext(S, x, p)
    BY <1>3, <2>3, <2>4 DEF NextBeyond, Running
  <2>6. \A i \in 1 .. Len(writes) : writes[i].st = "running" => Follows(c, writes[i].cursor)
    BY <1>3 DEF FollowsOK, Running
  <2>7. \A r \in (c.offset + 1) .. x : ~Acc(S, r)
    BY <2>3
  <2>8. \A d \in disk' : /\ S = d.stream /\ d.offset <= x /\ \A r \in (d.offset + 1) .. x : ~Acc(S, r)
                         /\ \A i \in 1 .. Len(writes') : writes'[i].st = "running" => Follows(d, writes'[i].cursor)
    BY <1>1, <1>5, <2>3, <2>4, <2>6, <2>7
  <2>9. /\ \A p \in Told' : p <= x \/ IsNext(S, x, p)
        /\ \A p \in Told' : \A d \in disk' : p <= d.offset \/ IsNext(S, x, p)
        /\ \A p \in Told' : \A i \in 1 .. Len(writes') : writes'[i].st = "running" \/ writes'[i].gen = live' =>
             p <= writes'[i].cursor.offset \/ IsNext(S, x, p)
    BY <1>1, <1>4, <1>5, <2>3, <2>4, <2>5
  <2> QED BY <1>0, <1>1, <1>4, <2>1, <2>2, <2>8, <2>9, WindowLive
<1>6. ASSUME disk = {}, offset' = Len(log), NEW w \in Writes, writes' = Append(writes, w), w.st = "queued",
             w.cursor.offset = Len(log)
      PROVE  WindowOK'
  <2>1. PICK S : S = stream'
    OBVIOUS
  <2>2. PICK x : x = Scan'
    OBVIOUS
  <2>3. x = Len(log)
    BY <1>1, <1>6, <2>2
  <2>4. /\ Len(writes') = Len(writes) + 1 /\ writes'[Len(writes) + 1] = w
        /\ \A i \in 1 .. Len(writes) : writes'[i] = writes[i]
    BY <1>0, <1>6, AppendWrite
  <2>5. \A p \in Told' : \A i \in 1 .. Len(writes) : writes[i].st = "running" => p <= writes[i].cursor.offset
    BY <1>3, <1>6 DEF NextBeyond, Running
  <2>6. ASSUME NEW p \in Told', NEW i \in 1 .. Len(writes'), writes'[i].st = "running" \/ writes'[i].gen = live'
        PROVE  p <= writes'[i].cursor.offset
    <3>1. CASE i \in 1 .. Len(writes)
      BY <1>4, <2>4, <2>5, <2>6, <3>1
    <3>2. CASE i \notin 1 .. Len(writes)
      <4>1. i = Len(writes) + 1
        BY <2>4, <3>2, HeadFacts
      <4> QED BY <1>0, <1>6, <2>4, <4>1
    <3> QED BY <3>1, <3>2
  <2>7. \A p \in Told' : p <= x
    BY <1>0, <2>3
  <2> QED BY <1>0, <1>1, <1>4, <1>6, <2>1, <2>2, <2>6, <2>7, WindowLive
<1> QED BY <1>5, <1>6, WatchIs

\* What the scan looks at: the next record, whichever way it goes.
LEMMA Ahead ==
  ASSUME Book
  PROVE  /\ \A p \in Nat : Upcoming(p) => IsNext(stream, Scan, p)
         /\ \A p \in Nat : Upcoming(p) /\ Acc(stream, Scan + 1) => p = Scan + 1
         /\ \A p \in Nat : Upcoming(p) /\ ~Acc(stream, Scan + 1) => IsNext(stream, Scan + 1, p)
         /\ Acc(stream, Scan + 1) /\ Scan < Len(log) => Upcoming(Scan + 1)
<1>1. Len(log) \in Nat /\ Scan \in Nat
  BY WindowTypes
<1>2. PICK S : S = stream
  OBVIOUS
<1>3. PICK x \in Nat : x = Scan
  BY <1>1
<1>4. \A p \in Nat : IsNext(S, x, p) => (Acc(S, x + 1) => p = x + 1) /\ (~Acc(S, x + 1) => IsNext(S, x + 1, p))
  BY <1>1, NextIs
<1>5. Acc(S, x + 1) /\ x < Len(log) => IsNext(S, x, x + 1)
  <2> SUFFICES ASSUME Acc(S, x + 1), x < Len(log) PROVE IsNext(S, x, x + 1)
    OBVIOUS
  <2>1. x + 1 <= Len(log) /\ x <= x /\ \A r \in (x + 1) .. x : ~Acc(S, r)
    BY <1>1
  <2> QED BY <1>1, <2>1, NextMade
<1> QED BY <1>2, <1>3, <1>4, <1>5 DEF Upcoming

LEMMA SkipWindow ==
  ASSUME Book, WindowOK, FirstOK', NEW g \in Generations, SkipStep(g), Told' \subseteq Told
  PROVE  WindowOK'
<1>0. /\ Len(log) \in Nat /\ Scan \in Nat /\ \A c \in disk : c.offset \in Nat
      /\ \A p \in Told' : p \in Nat /\ p <= Len(log)
  BY WindowTypes DEF WindowOK
<1>1. /\ live = g /\ g # 0 /\ ~Acc(stream, Scan + 1) /\ Scan' = Scan + 1
      /\ UNCHANGED <<log, disk, live, gens, stream, writes>>
  BY LiveFacts DEF SkipStep, AtRecord
<1>2. PICK S : S = stream'
  OBVIOUS
<1>3. PICK x : x = Scan'
  OBVIOUS
<1>4. S = stream /\ x = Scan + 1
  BY <1>1, <1>2, <1>3
<1>5. \A p \in Nat : Upcoming(p) => IsNext(S, x, p)
  BY <1>1, <1>4, Ahead
<1>6. \A p \in Told' : /\ p <= x \/ IsNext(S, x, p)
                       /\ \A c \in disk : p <= c.offset \/ IsNext(S, x, p)
                       /\ \A i \in 1 .. Len(writes) : writes[i].st = "running" \/ writes[i].gen = live =>
                            p <= writes[i].cursor.offset \/ IsNext(S, x, p)
  <2>1. TakenOnce
    BY DEF WindowOK
  <2>2. \A p \in Told' : /\ p <= Scan \/ Upcoming(p)
                         /\ \A c \in disk : p <= c.offset \/ Upcoming(p)
                         /\ \A i \in 1 .. Len(writes) : writes[i].st = "running" \/ writes[i].gen = live =>
                            p <= writes[i].cursor.offset \/ Upcoming(p)
    BY <1>1, <2>1 DEF TakenOnce, Running
  <2> QED BY <1>0, <1>4, <1>5, <2>2
<1>7. ASSUME HasCursor \/ gens' < 2, NEW d \in disk
      PROVE  \/ /\ S = d.stream /\ d.offset <= x /\ \A r \in (d.offset + 1) .. x : ~Acc(S, r)
                /\ \A i \in 1 .. Len(writes) : writes[i].st = "running" => Follows(d, writes[i].cursor)
             \/ /\ d.stream = StreamAt(d.offset) /\ IsNext(S, x, d.offset)
                /\ \A i \in 1 .. Len(writes) : writes[i].st = "running" => Same(writes[i].cursor, d)
  <2>1. RelOK
    BY <1>1, <1>7 DEF WindowOK, CanFollow
  <2>2. CASE Level(d) /\ \A i \in 1 .. Len(writes) : Running(writes[i]) => Follows(d, writes[i].cursor)
    <3>1. S = d.stream /\ d.offset <= Scan /\ \A r \in (d.offset + 1) .. Scan : ~Acc(S, r)
      BY <1>4, <2>2 DEF Level
    <3>2. ASSUME NEW r \in (d.offset + 1) .. x PROVE ~Acc(S, r)
      <4>1. r \in (d.offset + 1) .. Scan \/ r = Scan + 1
        BY <1>0, <1>4
      <4> QED BY <1>1, <1>4, <3>1, <4>1
    <3> QED BY <1>0, <1>4, <2>2, <3>1, <3>2 DEF Running
  <2>3. CASE Behind(d) /\ \A i \in 1 .. Len(writes) : Running(writes[i]) => Same(writes[i].cursor, d)
    BY <1>0, <1>5, <2>3 DEF Behind, Running
  <2> QED BY <2>1, <2>2, <2>3 DEF RelOK
<1>8. /\ \A p \in Told' : p <= x \/ IsNext(S, x, p)
      /\ \A p \in Told' : \A c \in disk' : p <= c.offset \/ IsNext(S, x, p)
      /\ \A p \in Told' : \A i \in 1 .. Len(writes') : writes'[i].st = "running" \/ writes'[i].gen = live' =>
            p <= writes'[i].cursor.offset \/ IsNext(S, x, p)
  BY <1>1, <1>6
<1>9. HasCursor \/ gens' < 2 => \A d \in disk' :
            \/ /\ S = d.stream /\ d.offset <= x /\ \A r \in (d.offset + 1) .. x : ~Acc(S, r)
               /\ \A i \in 1 .. Len(writes') : writes'[i].st = "running" => Follows(d, writes'[i].cursor)
            \/ /\ d.stream = StreamAt(d.offset) /\ IsNext(S, x, d.offset)
               /\ \A i \in 1 .. Len(writes') : writes'[i].st = "running" => Same(writes'[i].cursor, d)
  BY <1>1, <1>7
<1>10. log' = log /\ live' # 0
  BY <1>1
<1> QED BY <1>0, <1>2, <1>3, <1>8, <1>9, <1>10, WindowLive

\* What no step but a move of the scan or of the cursor disturbs.
LEMMA StillWindow ==
  ASSUME Book, WindowOK, FirstOK', live # 0, UNCHANGED <<log, disk, live, gens, stream>>, Scan' = Scan,
         \A p \in Told' : p \in Told \/ (Upcoming(p) /\ p \in Nat /\ p <= Len(log)),
         \A i \in 1 .. Len(writes') :
            \/ \E j \in 1 .. Len(writes) : writes'[i] = writes[j]
            \/ /\ writes'[i].st # "running"
               /\ \A p \in Told' : p <= Scan \/ Upcoming(p) => p <= writes'[i].cursor.offset
  PROVE  WindowOK'
<1>1. PICK S : S = stream'
  OBVIOUS
<1>2. PICK x : x = Scan'
  OBVIOUS
<1>3. \A p : Upcoming(p) <=> IsNext(S, x, p)
  BY <1>1, <1>2 DEF Upcoming
<1>4. \A p \in Told : /\ p <= Scan \/ Upcoming(p)
                      /\ \A c \in disk : p <= c.offset \/ Upcoming(p)
                      /\ \A i \in 1 .. Len(writes) : writes[i].st = "running" \/ writes[i].gen = live =>
                            p <= writes[i].cursor.offset \/ Upcoming(p)
  BY DEF WindowOK, TakenOnce, Running
<1>5. /\ \A p \in Told' : p \in Nat /\ p <= Len(log)
      /\ \A p \in Told' : p <= x \/ IsNext(S, x, p)
      /\ \A p \in Told' : \A c \in disk' : p <= c.offset \/ IsNext(S, x, p)
  BY <1>2, <1>3, <1>4 DEF WindowOK
<1>6. ASSUME NEW p \in Told', NEW i \in 1 .. Len(writes'), writes'[i].st = "running" \/ writes'[i].gen = live'
      PROVE  p <= writes'[i].cursor.offset \/ IsNext(S, x, p)
  <2>1. ASSUME NEW j \in 1 .. Len(writes), writes'[i] = writes[j] PROVE p <= writes'[i].cursor.offset \/ IsNext(S, x, p)
    BY <1>3, <1>4, <1>6, <2>1
  <2>2. p <= Scan \/ Upcoming(p)
    BY <1>4
  <2> QED BY <2>1, <2>2
<1>7. ASSUME HasCursor \/ gens' < 2, NEW d \in disk'
      PROVE  \/ /\ S = d.stream /\ d.offset <= x /\ \A r \in (d.offset + 1) .. x : ~Acc(S, r)
                /\ \A i \in 1 .. Len(writes') : writes'[i].st = "running" => Follows(d, writes'[i].cursor)
             \/ /\ d.stream = StreamAt(d.offset) /\ IsNext(S, x, d.offset)
                /\ \A i \in 1 .. Len(writes') : writes'[i].st = "running" => Same(writes'[i].cursor, d)
  <2>1. RelOK
    BY <1>7 DEF WindowOK, CanFollow
  <2>2. \A i \in 1 .. Len(writes') : writes'[i].st = "running" => \E j \in 1 .. Len(writes) : writes'[i] = writes[j] /\ writes[j].st = "running"
    OBVIOUS
  <2>3. CASE Level(d) /\ \A i \in 1 .. Len(writes) : Running(writes[i]) => Follows(d, writes[i].cursor)
    <3>1. ASSUME NEW i \in 1 .. Len(writes'), writes'[i].st = "running" PROVE Follows(d, writes'[i].cursor)
      BY <2>2, <2>3, <3>1 DEF Running
    <3> QED BY <1>1, <1>2, <2>3, <3>1 DEF Level
  <2>4. CASE Behind(d) /\ \A i \in 1 .. Len(writes) : Running(writes[i]) => Same(writes[i].cursor, d)
    <3>1. ASSUME NEW i \in 1 .. Len(writes'), writes'[i].st = "running" PROVE Same(writes'[i].cursor, d)
      BY <2>2, <2>4, <3>1 DEF Running
    <3> QED BY <1>3, <2>4, <3>1 DEF Behind
  <2>5. d \in disk
    OBVIOUS
  <2> QED BY <2>1, <2>3, <2>4, <2>5 DEF RelOK
<1>8. log' = log /\ live' # 0
  OBVIOUS
<1> QED BY <1>1, <1>2, <1>5, <1>6, <1>7, <1>8, WindowLive

LEMMA TakeWindow ==
  ASSUME Book, WindowOK, FirstOK', NEW g \in Generations, OccupyStep(g) \/ TakeStep(g), Told' \subseteq Told
  PROVE  WindowOK'
<1>1. /\ live = g /\ g # 0 /\ pass[g].at < Len(log) /\ Acc(stream, pass[g].at + 1) /\ pass[g].st \in {"read", "await"}
      /\ Go(g, "persist", pass[g].at) /\ writes' = Append(writes, CursorWrite(g))
      /\ UNCHANGED <<log, disk, live, gens, offset, stream, known, initOf, initRes, base, retired>>
  BY LiveFacts DEF OccupyStep, TakeStep, AtRecord, Reading, Acknowledged
<1>2. Scan' = Scan /\ Scan = pass[g].at
  BY <1>1, TakeBook
<1>3. PICK w \in Writes : w = CursorWrite(g) /\ w.st = "queued" /\ w.cursor.offset = Scan + 1
  BY <1>1, <1>2, CursorWriteIs
<1>4. /\ Len(writes') = Len(writes) + 1 /\ writes'[Len(writes) + 1] = w
      /\ \A i \in 1 .. Len(writes) : writes'[i] = writes[i]
  BY <1>1, <1>3, AppendWrite DEF Book
<1>5. Scan \in Nat /\ \A p \in Told : p \in Nat
  BY WindowTypes DEF WindowOK
<1>6. \A p \in Told' : p <= Scan \/ Upcoming(p) => p <= Scan + 1
  BY <1>1, <1>2, <1>5, Ahead
<1>7. ASSUME NEW i \in 1 .. Len(writes')
      PROVE  \/ \E j \in 1 .. Len(writes) : writes'[i] = writes[j]
             \/ /\ writes'[i].st # "running"
                /\ \A p \in Told' : p <= Scan \/ Upcoming(p) => p <= writes'[i].cursor.offset
  <2>1. CASE i \in 1 .. Len(writes)
    BY <1>4, <2>1
  <2>2. CASE i \notin 1 .. Len(writes)
    <3>1. i = Len(writes) + 1
      BY <1>4, <2>2, HeadFacts
    <3>2. writes'[i] = w
      BY <1>4, <3>1
    <3> QED BY <1>3, <1>6, <3>2
  <2> QED BY <2>1, <2>2
<1>8. live # 0 /\ \A p \in Told' : p \in Told
  BY <1>1
<1> QED BY <1>1, <1>2, <1>7, <1>8, StillWindow

LEMMA AdmitWindow ==
  ASSUME Book, WindowOK, FirstOK', NEW g \in Generations, AdmitStep(g), Told' \subseteq Told \cup {pass[g].at + 1}
  PROVE  WindowOK'
<1>1. /\ live = g /\ g # 0 /\ pass[g].at < Len(log) /\ Acc(stream, pass[g].at + 1) /\ Scan = pass[g].at
      /\ Go(g, "await", pass[g].at)
      /\ UNCHANGED <<log, disk, live, gens, stream, writes>>
  BY LiveFacts DEF AdmitStep, AtRecord
<1>2. Scan' = Scan
  <2>1. pass'[g].at = pass[g].at /\ pass'[g].st = "await"
    BY <1>1, PassTypes
  <2> QED BY <1>1, <2>1 DEF Scan, Scanning
<1>3. Scan \in Nat /\ Len(log) \in Nat
  BY WindowTypes
<1>4. Upcoming(Scan + 1) /\ Scan + 1 \in Nat /\ Scan + 1 <= Len(log)
  BY <1>1, <1>3, Ahead
<1>5. \A p \in Told' : p \in Told \/ (Upcoming(p) /\ p \in Nat /\ p <= Len(log))
  BY <1>1, <1>4
<1>6. \A i \in 1 .. Len(writes') : \E j \in 1 .. Len(writes) : writes'[i] = writes[j]
  BY <1>1
<1> QED BY <1>1, <1>2, <1>5, <1>6, StillWindow

\* The write of the live pass is for the record behind the scan.
LEMMA LiveWrite ==
  ASSUME Book, writes # <<>>, live = writes[1].gen, ~writes[1].init
  PROVE  /\ writes[1].cursor.offset = Scan + 1 /\ writes[1].cursor.stream = StreamAt(Scan + 1)
         /\ Upcoming(Scan + 1) /\ Scan + 1 <= Len(log) /\ Acc(stream, Scan + 1)
<1>1. /\ 1 \in 1 .. Len(writes) /\ WriteOK(writes[1]) /\ live \in Generations /\ live # 0
  BY HeadFacts, LiveFacts
<1>2. pass[live].st = "persist" /\ writes[1].cursor.offset = pass[live].at + 1
      /\ writes[1].cursor.stream = StreamAt(writes[1].cursor.offset)
  BY <1>1 DEF WriteOK
<1>3. Scan = pass[live].at /\ Taken(live)
  BY <1>1, <1>2 DEF Scan, Scanning, Taken
<1>4. Acc(stream, Scan + 1)
  BY <1>1, <1>3 DEF Book, MemOK
<1>5. Scan + 1 \in 1 .. Len(log)
  BY <1>1, <1>3, LiveFacts
<1> QED BY <1>2, <1>3, <1>4, <1>5, Ahead, WindowTypes

\* While a new watch can follow, an initial cursor is the terminal's first.
LEMMA OpeningWrite ==
  ASSUME Book, WindowOK, CanFollow, NEW i \in 1 .. Len(writes), writes[i].init
  PROVE  gens = 1 /\ Opening(writes[i])
<1>1. WriteOK(writes[i]) /\ writes[i].gen <= gens /\ writes[i].gen \in Nat \ {0} /\ gens \in Nat
  BY HeadFacts, WindowTypes
<1>2. ~HasCursor /\ gens = 1
  BY <1>1 DEF WriteOK, CanFollow
<1> QED BY <1>2 DEF WindowOK, FirstOK

LEMMA RunWindow ==
  ASSUME Book, WindowOK, FirstOK', HeadStep("running"), Told' \subseteq Told
  PROVE  WindowOK'
<1>0. /\ Len(log) \in Nat /\ Scan \in Nat /\ \A c \in disk : c.offset \in Nat
      /\ \A p \in Told' : p \in Nat /\ p <= Len(log)
  BY WindowTypes DEF WindowOK
<1>1. /\ writes # <<>> /\ writes[1].st = "queued" /\ live = writes[1].gen /\ writes' = [writes EXCEPT ![1].st = "running"]
      /\ disk' = disk
      /\ UNCHANGED <<log, live, gens, offset, stream, known, initOf, initRes, pass, base, retired>>
  BY DEF HeadStep
<1>2. /\ 1 \in 1 .. Len(writes) /\ live # 0 /\ \A i \in 1 .. Len(writes) : i > 1 => writes[i].st = "queued"
  BY <1>1, HeadFacts
<1>3. /\ Len(writes') = Len(writes) /\ Scan' = Scan
      /\ writes'[1].gen = writes[1].gen /\ writes'[1].cursor = writes[1].cursor
      /\ \A i \in 2 .. Len(writes) : writes'[i] = writes[i]
  <2>1. PICK st \in {"running", "landed"} : st = "running"
    OBVIOUS
  <2> QED BY <1>1, <2>1, HeadBook
<1>4. PICK S : S = stream'
  OBVIOUS
<1>5. PICK x : x = Scan'
  OBVIOUS
<1>6. S = stream /\ x = Scan /\ \A p : Upcoming(p) <=> IsNext(S, x, p)
  BY <1>1, <1>3, <1>4, <1>5 DEF Upcoming
<1>7. \A p \in Told : /\ p <= Scan \/ Upcoming(p)
                      /\ \A c \in disk : p <= c.offset \/ Upcoming(p)
                      /\ \A i \in 1 .. Len(writes) : writes[i].st = "running" \/ writes[i].gen = live =>
                            p <= writes[i].cursor.offset \/ Upcoming(p)
  BY <1>2 DEF WindowOK, TakenOnce, Running
<1>8. /\ \A p \in Told' : p <= x \/ IsNext(S, x, p)
      /\ \A p \in Told' : \A c \in disk' : p <= c.offset \/ IsNext(S, x, p)
  BY <1>1, <1>6, <1>7
<1>9. ASSUME NEW p \in Told', NEW i \in 1 .. Len(writes'), writes'[i].st = "running" \/ writes'[i].gen = live'
      PROVE  p <= writes'[i].cursor.offset \/ IsNext(S, x, p)
  <2>1. i \in 1 .. Len(writes) /\ (i = 1 \/ i \in 2 .. Len(writes))
    BY <1>3
  <2>2. CASE i = 1
    BY <1>1, <1>2, <1>3, <1>6, <1>7, <2>2
  <2>3. CASE i \in 2 .. Len(writes)
    BY <1>1, <1>3, <1>6, <1>7, <1>9, <2>1, <2>3
  <2> QED BY <2>1, <2>2, <2>3
<1>10. ASSUME HasCursor \/ gens' < 2, NEW d \in disk'
       PROVE  \/ /\ S = d.stream /\ d.offset <= x /\ \A r \in (d.offset + 1) .. x : ~Acc(S, r)
                 /\ \A i \in 1 .. Len(writes') : writes'[i].st = "running" => Follows(d, writes'[i].cursor)
              \/ /\ d.stream = StreamAt(d.offset) /\ IsNext(S, x, d.offset)
                 /\ \A i \in 1 .. Len(writes') : writes'[i].st = "running" => Same(writes'[i].cursor, d)
  <2>1. RelOK /\ CanFollow /\ d \in disk
    BY <1>1, <1>2, <1>10 DEF WindowOK, CanFollow
  <2>2. ASSUME NEW i \in 1 .. Len(writes'), writes'[i].st = "running" PROVE i = 1
    BY <1>2, <1>3, <2>2
  <2>3. ~writes[1].init
    BY <1>1, <1>2, <2>1, OpeningWrite DEF Opening
  <2>4. PICK c : c = writes[1].cursor /\ c = writes'[1].cursor
    BY <1>3
  <2>5. c.offset = Scan + 1 /\ c.stream = StreamAt(Scan + 1) /\ Upcoming(Scan + 1) /\ Scan + 1 <= Len(log) /\ Acc(stream, Scan + 1)
    BY <1>1, <2>3, <2>4, LiveWrite
  <2>6. CASE Level(d)
    <3>1. S = d.stream /\ d.offset <= x /\ \A r \in (d.offset + 1) .. x : ~Acc(S, r)
      BY <1>6, <2>6 DEF Level
    <3>2. PICK y \in Nat, z \in Nat : y = d.offset /\ z = x
      BY <1>0, <1>6, <2>1
    <3>3. y <= z /\ z + 1 <= Len(log) /\ Acc(S, z + 1) /\ \A r \in (y + 1) .. z : ~Acc(S, r)
      BY <1>6, <2>5, <3>1, <3>2
    <3>4. IsNext(S, y, z + 1)
      BY <1>0, <3>3, NextMade
    <3>5. Follows(d, c)
      BY <1>6, <2>5, <3>1, <3>2, <3>4 DEF Follows
    <3> QED BY <2>2, <2>4, <3>1, <3>5
  <2>7. CASE Behind(d)
    <3>1. d.stream = StreamAt(d.offset) /\ Upcoming(d.offset) /\ d.offset \in Nat
      BY <1>0, <2>1, <2>7 DEF Behind
    <3>2. d.offset = Scan + 1
      BY <2>5, <3>1, Ahead
    <3>3. Same(c, d)
      BY <2>5, <3>1, <3>2 DEF Same
    <3> QED BY <1>6, <2>2, <2>4, <3>1, <3>3
  <2> QED BY <2>1, <2>6, <2>7 DEF RelOK
<1>11. log' = log /\ live' # 0
  BY <1>1, <1>2
<1> QED BY <1>0, <1>4, <1>5, <1>8, <1>9, <1>10, <1>11, WindowLive

LEMMA LandWindow ==
  ASSUME Book, WindowOK, FirstOK', HeadStep("landed"), Told' \subseteq Told
  PROVE  WindowOK'
<1>0. /\ Len(log) \in Nat /\ Scan \in Nat /\ \A c \in disk : c.offset \in Nat
      /\ \A p \in Told' : p \in Nat /\ p <= Len(log)
  BY WindowTypes DEF WindowOK
<1>1. /\ writes # <<>> /\ writes[1].st = "running" /\ writes' = [writes EXCEPT ![1].st = "landed"]
      /\ disk' = {writes[1].cursor}
      /\ UNCHANGED <<log, live, gens, offset, stream, known, initOf, initRes, pass, base, retired>>
  BY DEF HeadStep
<1>2. /\ 1 \in 1 .. Len(writes) /\ \A i \in 1 .. Len(writes) : i > 1 => writes[i].st = "queued"
      /\ WriteOK(writes[1]) /\ writes[1].cursor.offset \in Nat
      /\ writes[1].gen \in Nat \ {0} /\ writes[1].gen <= gens
  BY <1>1, HeadFacts
<1>3. /\ Len(writes') = Len(writes) /\ Scan' = Scan /\ writes'[1].st = "landed"
      /\ writes'[1].gen = writes[1].gen /\ writes'[1].cursor = writes[1].cursor
      /\ \A i \in 2 .. Len(writes) : writes'[i] = writes[i]
  <2>1. PICK st \in {"running", "landed"} : st = "landed"
    OBVIOUS
  <2> QED BY <1>1, <2>1, HeadBook
<1>4. PICK c : c = writes[1].cursor
  OBVIOUS
<1>5. disk' = {c} /\ c.offset \in Nat
  BY <1>1, <1>2, <1>4
<1>6. \A i \in 1 .. Len(writes') : writes'[i].st # "running"
  <2> SUFFICES ASSUME NEW i \in 1 .. Len(writes') PROVE writes'[i].st # "running"
    OBVIOUS
  <2>1. CASE i = 1
    BY <1>3, <2>1
  <2>2. CASE i # 1
    BY <1>2, <1>3, <2>2
  <2> QED BY <2>1, <2>2
<1>7. CASE live = 0
  <2>1. PICK n \in Nat : \A p \in Told : p <= c.offset \/ p = n
    BY <1>1, <1>2, <1>4, Stopped DEF Running
  <2>2. OneBeyond'
    BY <1>5, <1>6, <2>1 DEF OneBeyond, Running
  <2>3. ASSUME CanFollow PROVE NextBeyond' /\ FollowsOK'
    <3>1. NextBeyond /\ FollowsOK
      BY <2>3, Stopped
    <3>2. ASSUME NEW p \in Told', ~(p <= c.offset) PROVE IsNext(c.stream, c.offset, p)
      <4>1. PICK d \in disk : IsNext(d.stream, d.offset, p)
        BY <1>1, <1>2, <1>4, <3>1, <3>2 DEF NextBeyond, Running
      <4>2. Follows(d, c)
        BY <1>1, <1>2, <1>4, <3>1 DEF FollowsOK, Running
      <4>3. CASE Same(c, d)
        BY <4>1, <4>3 DEF Same
      <4>4. CASE IsNext(d.stream, d.offset, c.offset)
        <5>1. PICK y \in Nat, q \in Nat, r \in Nat : y = d.offset /\ q = p /\ r = c.offset
          BY <1>0, <1>5
        <5>2. PICK S : S = d.stream
          OBVIOUS
        <5>3. q = r
          BY <4>1, <4>4, <5>1, <5>2, NextUnique
        <5> QED BY <3>2, <5>1, <5>3
      <4> QED BY <4>2, <4>3, <4>4 DEF Follows, Same
    <3>3. \A p \in Told' : p <= c.offset \/ IsNext(c.stream, c.offset, p)'
      BY <1>1, <3>2, FileStill
    <3>4. NextBeyond' /\ FollowsOK'
      BY <1>5, <1>6, <3>3 DEF NextBeyond, FollowsOK, Running
    <3> QED BY <3>4
  <2>4. TakenOnce' /\ \A p \in Told' : p \in Nat /\ p <= Len(log')
    BY <1>0, <1>1, <1>7 DEF TakenOnce
  <2> QED BY <1>1, <1>7, <2>2, <2>3, <2>4 DEF WindowOK, CanFollow
<1>8. CASE live # 0
  <2>1. PICK S : S = stream'
    OBVIOUS
  <2>2. PICK x : x = Scan'
    OBVIOUS
  <2>3. S = stream /\ x = Scan /\ \A p : Upcoming(p) <=> IsNext(S, x, p)
    BY <1>1, <1>3, <2>1, <2>2 DEF Upcoming
  <2>4. \A p \in Told : /\ p <= Scan \/ Upcoming(p)
                        /\ \A i \in 1 .. Len(writes) : writes[i].st = "running" \/ writes[i].gen = live =>
                              p <= writes[i].cursor.offset \/ Upcoming(p)
    BY <1>8 DEF WindowOK, TakenOnce, Running
  <2>5. /\ \A p \in Told' : p <= x \/ IsNext(S, x, p)
        /\ \A p \in Told' : \A d \in disk' : p <= d.offset \/ IsNext(S, x, p)
    BY <1>1, <1>2, <1>4, <1>5, <2>3, <2>4
  <2>6. ASSUME NEW p \in Told', NEW i \in 1 .. Len(writes'), writes'[i].st = "running" \/ writes'[i].gen = live'
        PROVE  p <= writes'[i].cursor.offset \/ IsNext(S, x, p)
    <3>1. i \in 1 .. Len(writes) /\ (i = 1 \/ i \in 2 .. Len(writes))
      BY <1>3
    <3>2. CASE i = 1
      BY <1>1, <1>2, <1>3, <2>3, <2>4, <3>2
    <3>3. CASE i \in 2 .. Len(writes)
      BY <1>1, <1>3, <2>3, <2>4, <2>6, <3>1, <3>3
    <3> QED BY <3>1, <3>2, <3>3
  <2>7. ASSUME CanFollow
        PROVE  \/ /\ S = c.stream /\ c.offset <= x /\ \A r \in (c.offset + 1) .. x : ~Acc(S, r)
               \/ /\ c.stream = StreamAt(c.offset) /\ IsNext(S, x, c.offset)
    <3>1. RelOK
      BY <1>8, <2>7 DEF WindowOK
    <3>2. CASE writes[1].init
      <4>1. gens = 1 /\ Opening(writes[1]) /\ live = 1
        BY <1>2, <1>8, <2>7, <3>2, OpeningWrite DEF Book, BookTypes
      <4>2. offset = c.offset /\ stream = {} /\ pass[1].st \in {"idle", "init"}
        BY <1>4, <4>1 DEF Opening
      <4>3. Scan = c.offset
        BY <4>1, <4>2 DEF Scan, Scanning
      <4>4. c.stream = {}
        BY <1>2, <1>4, <3>2 DEF WriteOK
      <4>5. \A r \in (c.offset + 1) .. x : ~Acc(S, r)
        BY <1>5, <2>3, <4>3
      <4> QED BY <1>5, <2>3, <4>2, <4>3, <4>4, <4>5
    <3>3. CASE ~writes[1].init /\ disk = {}
      <4>1. gens = 1
        BY <1>2, <2>7, <3>3, WindowTypes DEF Book, MemOK, CanFollow
      <4>2. live = writes[1].gen
        BY <1>2, <1>8, <4>1 DEF Book, BookTypes
      <4>3. c.offset = Scan + 1 /\ c.stream = StreamAt(Scan + 1) /\ Upcoming(Scan + 1)
        BY <1>1, <1>4, <3>3, <4>2, LiveWrite
      <4> QED BY <2>3, <4>3
    <3>4. CASE ~writes[1].init /\ disk # {}
      <4>1. PICK d \in disk : TRUE
        BY <3>4
      <4>2. CASE Level(d) /\ Follows(d, c)
        <5>1. S = d.stream /\ d.offset <= x /\ \A r \in (d.offset + 1) .. x : ~Acc(S, r)
          BY <2>3, <4>2 DEF Level
        <5>2. CASE Same(c, d)
          BY <5>1, <5>2 DEF Same
        <5>3. CASE IsNext(d.stream, d.offset, c.offset)
          <6>1. /\ c.offset \in (d.offset + 1) .. Len(log) /\ Acc(S, c.offset)
                /\ \A r \in (d.offset + 1) .. (c.offset - 1) : ~Acc(S, r)
            BY <5>1, <5>3 DEF IsNext
          <6>2. c.offset > x
            BY <1>0, <1>5, <2>3, <5>1, <6>1
          <6>3. \A r \in (x + 1) .. (c.offset - 1) : r \in (d.offset + 1) .. (c.offset - 1)
            BY <1>0, <1>5, <2>3, <5>1
          <6>4. c.offset \in (x + 1) .. Len(log)
            BY <1>0, <1>5, <2>3, <6>1, <6>2
          <6>5. IsNext(S, x, c.offset)
            BY <6>1, <6>3, <6>4 DEF IsNext
          <6>6. c.stream = StreamAt(c.offset)
            BY <1>2, <1>4, <3>4 DEF WriteOK
          <6> QED BY <6>5, <6>6
        <5> QED BY <4>2, <5>2, <5>3 DEF Follows
      <4>3. CASE Behind(d) /\ Same(c, d)
        BY <2>3, <4>3 DEF Behind, Same
      <4>4. (Level(d) /\ Follows(d, c)) \/ (Behind(d) /\ Same(c, d))
        BY <1>1, <1>2, <1>4, <3>1 DEF RelOK, Running
      <4> QED BY <4>2, <4>3, <4>4
    <3> QED BY <3>2, <3>3, <3>4
  <2>8. HasCursor \/ gens' < 2 => \A d \in disk' :
            \/ /\ S = d.stream /\ d.offset <= x /\ \A r \in (d.offset + 1) .. x : ~Acc(S, r)
               /\ \A i \in 1 .. Len(writes') : writes'[i].st = "running" => Follows(d, writes'[i].cursor)
            \/ /\ d.stream = StreamAt(d.offset) /\ IsNext(S, x, d.offset)
               /\ \A i \in 1 .. Len(writes') : writes'[i].st = "running" => Same(writes'[i].cursor, d)
    BY <1>1, <1>5, <1>6, <2>7 DEF CanFollow
  <2>9. log' = log /\ live' # 0
    BY <1>1, <1>8
  <2> QED BY <1>0, <2>1, <2>2, <2>5, <2>6, <2>8, <2>9, WindowLive
<1> QED BY <1>7, <1>8

\* The tailer has persisted the record it took.
LEMMA EndWindow ==
  ASSUME Book, WindowOK, FirstOK', NEW w \in Writes, EndStep(w, TRUE), ~w.init, Told' \subseteq Told
  PROVE  WindowOK'
<1>0. /\ Len(log) \in Nat /\ Scan \in Nat /\ \A p \in Told' : p \in Nat /\ p <= Len(log)
  BY WindowTypes DEF WindowOK
<1>1. PICK ok \in BOOLEAN : ok /\ EndStep(w, ok)
  OBVIOUS
<1>2. /\ writes # <<>> /\ w = writes[1] /\ WriteOK(w) /\ w.st = "landed" /\ live = w.gen /\ writes' = Without(1)
      /\ stream' = w.cursor.stream /\ WriteEnds(w, ok)
      /\ UNCHANGED <<log, disk, live, gens>>
  BY <1>1 DEF EndStep, WriteEnds
<1>3. /\ live # 0 /\ Scan' = Scan + 1 /\ w.cursor.offset = Scan + 1 /\ Acc(stream, Scan + 1)
  BY <1>1, <1>2, EndBook
<1>4. disk = {w.cursor}
  BY <1>2 DEF WriteOK
<1>5. PICK S : S = stream'
  OBVIOUS
<1>6. PICK x : x = Scan'
  OBVIOUS
<1>7. PICK c : c = w.cursor
  OBVIOUS
<1>8. S = c.stream /\ x = c.offset /\ x = Scan + 1 /\ disk' = {c}
  BY <1>2, <1>3, <1>4, <1>5, <1>6, <1>7
<1>9. ASSUME NEW p \in Told' PROVE p <= x
  <2>1. p \in Nat /\ (p <= Scan \/ Upcoming(p))
    BY <1>0, <1>3 DEF WindowOK, TakenOnce
  <2>2. Upcoming(p) => p = Scan + 1
    BY <1>3, <2>1, Ahead
  <2> QED BY <1>0, <1>8, <2>1, <2>2
<1>10. ASSUME NEW i \in 1 .. Len(writes') PROVE writes'[i].st # "running" /\ writes'[i].gen # live'
  <2>1. /\ Len(writes) \in Nat /\ Len(writes') = Len(writes) - 1 /\ Len(writes) > 0
        /\ \A j \in 1 .. Len(writes) - 1 : writes'[j] = writes[j + 1]
    BY <1>2, WithoutIs, HeadFacts DEF Book
  <2>2. PICK j \in 1 .. Len(writes) : j > 1 /\ writes'[i] = writes[j]
    <3>1. i + 1 \in 1 .. Len(writes) /\ i + 1 > 1 /\ i \in 1 .. Len(writes) - 1
      BY <2>1
    <3> QED BY <2>1, <3>1
  <2>3. writes[j].st = "queued" /\ 1 \in 1 .. Len(writes)
    BY <2>2, HeadFacts
  <2>4. writes[j].gen # writes[1].gen
    <3>1. CASE writes[j].init
      BY <2>2, <2>3, <3>1, HeadFacts
    <3>2. CASE ~writes[j].init
      BY <1>2, <2>2, <2>3, <3>2 DEF Book, ChainOK
    <3> QED BY <3>1, <3>2
  <2> QED BY <1>2, <2>2, <2>3, <2>4
<1>11. \A d \in disk' : /\ S = d.stream /\ d.offset <= x /\ \A r \in (d.offset + 1) .. x : ~Acc(S, r)
  <2>1. x <= x /\ \A r \in (x + 1) .. x : ~Acc(S, r)
    BY <1>0, <1>8
  <2> QED BY <1>8, <2>1
<1>12. /\ \A p \in Told' : p <= x \/ IsNext(S, x, p)
       /\ \A p \in Told' : \A d \in disk' : p <= d.offset \/ IsNext(S, x, p)
  BY <1>8, <1>9
<1>13. log' = log /\ live' # 0
  BY <1>2, <1>3
<1> QED BY <1>0, <1>5, <1>6, <1>10, <1>11, <1>12, <1>13, WindowLive

LEMMA InitWindow == Init => WindowOK
<1> SUFFICES ASSUME Init PROVE WindowOK
  OBVIOUS
<1>1. live = 0 /\ gens = 0 /\ writes = <<>> /\ qs = <<>> /\ done = {} /\ (~HasCursor => disk = {})
  BY DEF Init
<1>2. Len(qs) = 0 /\ Len(writes) = 0
  BY <1>1
<1>3. Told = {}
  BY <1>1, <1>2 DEF Told
<1>4. TakenOnce /\ OneBeyond
  BY <1>1, <1>3 DEF TakenOnce, OneBeyond
<1>5. NextBeyond /\ FollowsOK
  BY <1>2, <1>3 DEF NextBeyond, FollowsOK
<1>6. FirstOK
  BY <1>1, <1>3 DEF FirstOK
<1> QED BY <1>1, <1>3, <1>4, <1>5, <1>6 DEF WindowOK

LEMMA StepWindow ==
  ASSUME Book, QueuesOK, WindowOK, [Next]_vars, HasCursor \/ MaxWatches <= 2
  PROVE  WindowOK'
<1>0. FirstOK'
  BY StepFirst DEF WindowOK
<1>1. CASE \E g \in Generations : AdmitStep(g) /\ Told' \subseteq Told \cup {pass[g].at + 1}
  BY <1>0, <1>1, AdmitWindow
<1>2. CASE Told' \subseteq Told /\ \A g \in Generations : ~AdmitStep(g)
  <2>0. /\ Len(log) \in Nat /\ Len(writes) \in Nat
        /\ \A p \in 1 .. Len(log) : log[p] \in Records
    BY WindowTypes, HeadFacts
  <2>1. ASSUME NEW r \in Records, GrowStep(r) PROVE WindowOK'
    <3>1. Grown(r) /\ UNCHANGED <<live, gens, disk, stream, writes, pass, offset>>
      BY <2>1 DEF GrowStep
    <3>2. Scan' = Scan
      BY <3>1 DEF Scan, Scanning
    <3>3. Len(log') \in Nat /\ Len(log) <= Len(log') /\ \A p \in 1 .. Len(log) : log'[p] = log[p]
      BY <2>0, <3>1 DEF Grown
    <3>4. \A i \in 1 .. Len(writes') : i \in 1 .. Len(writes) /\ writes'[i] = writes[i]
      BY <3>1
    <3>5. \A i \in 1 .. Len(writes') : \E j \in 1 .. Len(writes) :
            /\ writes'[i].cursor = writes[j].cursor /\ writes'[i].gen = writes[j].gen
            /\ writes'[i].st = "running" => writes[j].st = "running"
      BY <3>4
    <3> QED BY <1>0, <1>2, <3>1, <3>2, <3>3, <3>5, WindowKeep
  <2>2. ASSUME UNCHANGED <<log, live, gens, disk, stream, writes>>, Scan' = Scan PROVE WindowOK'
    <3>1. \A i \in 1 .. Len(writes') : \E j \in 1 .. Len(writes) :
            /\ writes'[i].cursor = writes[j].cursor /\ writes'[i].gen = writes[j].gen
            /\ writes'[i].st = "running" => writes[j].st = "running"
      BY <2>2
    <3>2. Len(log') \in Nat /\ Len(log) <= Len(log') /\ \A p \in 1 .. Len(log) : log'[p] = log[p]
      BY <2>0, <2>2
    <3> QED BY <1>0, <1>2, <2>2, <3>1, <3>2, WindowKeep
  <2>3. CASE StillStep \/ \E k \in 1 .. Len(qs) : (\E e \in qs[k].active : SettleStep(k, e)) \/ \E r : AgainStep(k, r)
    <3>1. UNCHANGED booked
      BY <2>3 DEF StillStep, SettleStep, AgainStep
    <3>2. UNCHANGED <<log, live, gens, disk, stream, writes>> /\ Scan' = Scan
      BY <3>1 DEF booked, Scan, Scanning
    <3> QED BY <2>2, <3>2
  <2>4. ASSUME NEW g \in Generations, NEW st \in {"idle", "init", "read"}, NEW at \in 0 .. Len(log), MoveStep(g, st, at)
        PROVE  WindowOK'
    BY <2>2, <2>4 DEF MoveStep
  <2>5. ASSUME NEW g \in Generations, HoldStep(g) \/ DropStep(g) PROVE WindowOK'
    BY <2>2, <2>5 DEF HoldStep, DropStep
  <2>6. CASE Watch
    BY <1>0, <1>2, <2>6, WatchWindow
  <2>7. CASE StopStep
    <3>1. log' = log /\ disk' = disk /\ gens' = gens /\ live' = 0 /\ writes' = writes
      BY <2>7 DEF StopStep, StoppedTailer
    <3> QED BY <1>0, <1>2, <3>1, StopWindow
  <2>8. CASE Crash
    <3>1. log' = log /\ disk' = disk /\ gens' = gens /\ live' = 0 /\ writes' = <<>>
      BY <2>8 DEF Crash, StoppedTailer
    <3>2. Len(writes') = 0
      BY <3>1
    <3> QED BY <1>0, <1>2, <3>1, <3>2, StopWindow
  <2>9. ASSUME NEW g \in Generations, SkipStep(g) PROVE WindowOK'
    BY <1>0, <1>2, <2>9, SkipWindow
  <2>10. ASSUME NEW g \in Generations, OccupyStep(g) \/ TakeStep(g) PROVE WindowOK'
    BY <1>0, <1>2, <2>10, TakeWindow
  <2>11. CASE HeadStep("running")
    BY <1>0, <1>2, <2>11, RunWindow
  <2>12. CASE HeadStep("landed")
    BY <1>0, <1>2, <2>12, LandWindow
  <2>13. ASSUME NEW w \in Writes, NEW ok \in BOOLEAN, EndStep(w, ok) PROVE WindowOK'
    <3>1. CASE ~w.init /\ ok
      <4>1. EndStep(w, TRUE)
        BY <2>13, <3>1
      <4> QED BY <1>0, <1>2, <3>1, <4>1, EndWindow
    <3>2. CASE w.init \/ ~ok
      <4>1. /\ writes # <<>> /\ WriteOK(w) /\ WriteEnds(w, ok) /\ writes' = Without(1)
            /\ UNCHANGED <<log, live, gens, disk>>
        BY <2>13 DEF EndStep, WriteEnds
      <4>2. Scan' = Scan
        BY <3>2, <4>1, EndBook
      <4>3. stream' = stream
        BY <3>2, <4>1 DEF WriteEnds
      <4>4. \A i \in 1 .. Len(writes') : i + 1 \in 1 .. Len(writes) /\ writes'[i] = writes[i + 1]
        BY <2>0, <4>1, WithoutIs DEF Book
      <4>5. \A i \in 1 .. Len(writes') : \E j \in 1 .. Len(writes) :
            /\ writes'[i].cursor = writes[j].cursor /\ writes'[i].gen = writes[j].gen
            /\ writes'[i].st = "running" => writes[j].st = "running"
        BY <4>4
      <4>6. Len(log') \in Nat /\ Len(log) <= Len(log') /\ \A p \in 1 .. Len(log) : log'[p] = log[p]
        BY <2>0, <4>1
      <4> QED BY <1>0, <1>2, <4>1, <4>2, <4>3, <4>5, <4>6, WindowKeep
    <3> QED BY <3>1, <3>2
  <2> QED BY <1>2, Steps, <2>1, <2>3, <2>4, <2>5, <2>6, <2>7, <2>8, <2>9, <2>10, <2>11, <2>12, <2>13
<1> QED BY ToldStep, <1>1, <1>2

\* Of any records handled, at most one lies beyond a cursor.
LEMMA WindowHolds ==
  ASSUME Book, QueuesOK, WindowOK
  PROVE  RedeliveryWindow
<1> SUFFICES ASSUME NEW c \in disk PROVE Cardinality({p \in done : p > c.offset}) <= 1
  BY DEF RedeliveryWindow
<1>0. c.offset \in Nat /\ \A p \in done : p \in Told /\ p \in Nat
  <2>1. \A p \in done : p \in Told
    BY DEF Told
  <2> QED BY <2>1, WindowTypes DEF WindowOK
<1>1. PICK n \in Nat : \A p \in Told : p <= c.offset \/ p = n
  BY Stopped
<1>2. PICK S : S = {p \in done : p > c.offset}
  OBVIOUS
<1>3. S = {} \/ S = {n}
  BY <1>0, <1>1, <1>2
<1>4. Cardinality({}) = 0 /\ Cardinality({n}) = 1
  BY FS_EmptySet, FS_Singleton
<1> QED BY <1>2, <1>3, <1>4

\* At most one handled record lies beyond the durable cursor, however often the
\* application dies and whatever fails (persistCursor and the acknowledgement it
\* waits for): with a cursor file from earlier for any number of watches, without
\* one for two of them.  A third one could begin behind the older of two initial
\* cursors while the newer is being written, and then it does not hold.
THEOREM OneRedelivered ==
  ASSUME HasCursor \/ MaxWatches <= 2
  PROVE  Spec => []RedeliveryWindow
<1>1. Init => Book /\ QueuesOK /\ WindowOK
  BY InitBook, InitQueues, InitWindow
<1>2. Book /\ QueuesOK /\ WindowOK /\ [Next]_vars => (Book /\ QueuesOK /\ WindowOK)'
  BY StepBook, StepQueues, StepWindow
<1>3. Book /\ QueuesOK /\ WindowOK => RedeliveryWindow
  BY WindowHolds
<1> QED BY <1>1, <1>2, <1>3, PTL DEF Spec

-----------------------------------------------------------------------------
(* Handlers of the queue in place end in file order *)

SingleOK == \A k \in 1 .. Len(qs) : Single(qs[k])

\* The queue holds records in file order, none before the one handled last.
Ordered(r, x) ==
  /\ \A i, j \in 1 .. Size(r) : i <= j => IdAt(r, i)[2] <= IdAt(r, j)[2]
  /\ \A i \in 1 .. Size(r) : x <= IdAt(r, i)[2]
OrderOK == last \in done \cup {0} /\ (cur # 0 => Ordered(qs[cur], last))

LEMMA IdsAre ==
  ASSUME QueuesOK, SingleOK, NEW k \in 1 .. Len(qs), NEW i \in 1 .. Size(qs[k])
  PROVE  /\ IdAt(qs[k], i) \in Held(qs[k]) /\ IdAt(qs[k], i) \in Ids /\ Size(qs[k]) \in Nat
         /\ IdAt(qs[k], i)[2] \in Nat /\ IdAt(qs[k], i)[2] \in Told
<1>1. Shape(qs[k]) /\ Single(qs[k]) /\ Held(qs[k]) \subseteq Ids
  BY QueueFacts DEF SingleOK
<1>2. Held(qs[k]) = {IdAt(qs[k], j) : j \in 1 .. Size(qs[k])} /\ Size(qs[k]) \in Nat
  BY <1>1, SingleFacts
<1>3. PICK id : id = IdAt(qs[k], i)
  OBVIOUS
<1>4. id \in Held(qs[k]) /\ id \in Ids
  BY <1>1, <1>2, <1>3
<1>5. id[2] \in Positions
  BY <1>4 DEF Ids
<1>6. id[2] \in Told
  BY <1>4, <1>5 DEF Told
<1>7. id[2] \in Nat
  BY <1>5 DEF Positions
<1> QED BY <1>2, <1>3, <1>4, <1>6, <1>7

\* The queue a record is admitted to, and what is in it already.
LEMMA MineIs ==
  ASSUME QueuesOK, SingleOK
  PROVE  /\ Shape(Mine) /\ Single(Mine) /\ Size(Mine) \in Nat
         /\ cur = 0 => Size(Mine) = 0
         /\ cur # 0 => Mine = qs[cur] /\ cur \in 1 .. Len(qs)
<1>1. CASE cur = 0
  BY <1>1, NewQueueIs DEF Mine
<1>2. CASE cur # 0
  <2>1. Mine = qs[cur] /\ cur \in 1 .. Len(qs)
    BY <1>2, QueueFacts DEF Mine
  <2> QED BY <1>2, <2>1, QueueFacts, SingleFacts DEF SingleOK
<1> QED BY <1>1, <1>2

LEMMA InitSingle == Init => SingleOK
<1> SUFFICES ASSUME Init PROVE SingleOK
  OBVIOUS
<1>1. Len(qs) = 0
  BY DEF Init
<1> QED BY <1>1 DEF SingleOK

LEMMA StepSingle ==
  ASSUME Book, QueuesOK, SingleOK, [Next]_vars, MaxInFlight = 1
  PROVE  SingleOK'
<1>1. ASSUME qs' = qs PROVE SingleOK'
  BY <1>1 DEF SingleOK
<1>2. ASSUME NEW g \in Generations, AdmitStep(g) PROVE SingleOK'
  <2>0. PICK e \in Entry : \E c : /\ e = Arrival(g) /\ c = cur' /\ qs'[c] = Admitted(Mine, e)
                                  /\ \A k \in 1 .. Len(qs') : k # c => k \in 1 .. Len(qs) /\ qs'[k] = qs[k]
    BY <1>2 DEF AdmitStep
  <2>1. PICK c : /\ e = Arrival(g) /\ c = cur' /\ qs'[c] = Admitted(Mine, e)
                 /\ \A k \in 1 .. Len(qs') : k # c => k \in 1 .. Len(qs) /\ qs'[k] = qs[k]
    BY <2>0
  <2>2. PICK m : m = Mine
    OBVIOUS
  <2>3. Shape(m) /\ Single(m)
    BY <2>2, MineIs
  <2>4. PICK p : p = Admitted(m, e)
    OBVIOUS
  <2>5. Single(p)
    BY <2>3, <2>4, AdmittedIs
  <2>6. \A k \in 1 .. Len(qs') : \E r : r = qs'[k] /\ Single(r)
    BY <2>1, <2>2, <2>4, <2>5 DEF SingleOK
  <2> QED BY <2>6 DEF SingleOK, Single
<1>3. ASSUME NEW g \in Generations, HoldStep(g) PROVE SingleOK'
  <2>1. \A k \in 1 .. Len(qs') : \E r : r = qs'[k] /\ Single(r)
    BY <1>3, NewQueueIs DEF HoldStep, SingleOK
  <2> QED BY <2>1 DEF SingleOK, Single
<1>4. ASSUME NEW k \in 1 .. Len(qs), NEW d, qs' = [qs EXCEPT ![k] = d], Single(d) PROVE SingleOK'
  <2>1. /\ Len(qs') = Len(qs) /\ qs'[k] = d /\ \A i \in 1 .. Len(qs) : i # k => qs'[i] = qs[i]
    BY <1>4, ReplacedIs DEF QueuesOK
  <2>2. \A i \in 1 .. Len(qs') : \E r : r = qs'[i] /\ Single(r)
    BY <1>4, <2>1 DEF SingleOK
  <2> QED BY <2>2 DEF SingleOK, Single
<1>5. ASSUME NEW k \in 1 .. Len(qs), NEW e \in qs[k].active, SettleStep(k, e) PROVE SingleOK'
  <2>1. PICK r, d : r = qs[k] /\ d = Succeeded(r, e)
    OBVIOUS
  <2>2. Shape(r) /\ Single(r) /\ e \in r.active
    BY <2>1, QueueFacts DEF SingleOK
  <2>3. Single(d)
    BY <2>1, <2>2, SucceededIs
  <2>4. qs' = [qs EXCEPT ![k] = d]
    BY <1>5, <2>1 DEF SettleStep
  <2> QED BY <1>4, <2>3, <2>4
<1>6. ASSUME NEW k \in 1 .. Len(qs), NEW r, AgainStep(k, r) PROVE SingleOK'
  <2>1. qs' = [qs EXCEPT ![k] = r] /\ Single(r)
    BY <1>6 DEF AgainStep, SingleOK
  <2> QED BY <1>4, <2>1
<1>7. CASE Crash
  <2>1. Len(qs') = 0
    BY <1>7 DEF Crash
  <2> QED BY <2>1 DEF SingleOK
<1>8. CASE \/ (\E r \in Records : GrowStep(r)) \/ StillStep \/ StopStep \/ HeadStep("running") \/ HeadStep("landed")
           \/ (Watch /\ UNCHANGED <<queues, outcome>>)
           \/ (\E w \in Writes, ok \in BOOLEAN : EndStep(w, ok))
           \/ \E g \in Generations : \/ \E st \in {"idle", "init", "read"}, at \in 0 .. Len(log) : MoveStep(g, st, at)
                                     \/ TakeStep(g) \/ DropStep(g) \/ SkipStep(g) \/ OccupyStep(g)
  <2>1. qs' = qs
    BY <1>8 DEF GrowStep, StillStep, StopStep, HeadStep, EndStep, MoveStep, TakeStep, DropStep, SkipStep, OccupyStep, queues, outcome
  <2> QED BY <1>1, <2>1
<1> QED BY Steps, <1>2, <1>3, <1>5, <1>6, <1>7, <1>8

LEMMA InitOrder == Init => OrderOK
BY DEF Init, OrderOK

LEMMA OrderMade ==
  ASSUME last' \in done' \cup {0}, cur' # 0 => \E r, x : r = qs'[cur'] /\ x = last' /\ Ordered(r, x)
  PROVE  OrderOK'
<1>1. ASSUME cur' # 0 PROVE Ordered(qs[cur], last)'
  <2>1. PICK r, x : r = qs'[cur'] /\ x = last' /\ Ordered(r, x)
    BY <1>1
  <2> QED BY <2>1, SMTT(60) DEF Ordered, Size, IdAt
<1> QED BY <1>1 DEF OrderOK

\* One more at the end of a line, or the last one replaced.
LEMMA Extended ==
  ASSUME NEW r, NEW d, NEW n \in Nat, NEW x \in Nat, NEW p \in Nat, Size(r) = n, Ordered(r, x), x <= p,
         \A i \in 1 .. n : IdAt(r, i)[2] \in Nat /\ IdAt(r, i)[2] <= p,
         NEW m \in Nat, Size(d) = m, m = n + 1 \/ (m = n /\ n > 0), IdAt(d, m)[2] = p,
         \A i \in 1 .. m - 1 : IdAt(d, i) = IdAt(r, i)
  PROVE  Ordered(d, x)
<1>1. \A i \in 1 .. m : i = m \/ (i \in 1 .. m - 1 /\ i \in 1 .. n)
  OBVIOUS
<1>2. \A i \in 1 .. m : x <= IdAt(d, i)[2] /\ IdAt(d, i)[2] <= p /\ IdAt(d, i)[2] \in Nat
  BY <1>1 DEF Ordered
<1>3. ASSUME NEW i \in 1 .. m, NEW j \in 1 .. m, i <= j PROVE IdAt(d, i)[2] <= IdAt(d, j)[2]
  <2>1. CASE j = m
    BY <1>2, <2>1
  <2>2. CASE j # m
    <3>1. i \in 1 .. m - 1 /\ j \in 1 .. m - 1 /\ i \in 1 .. n /\ j \in 1 .. n
      BY <1>3, <2>2
    <3>2. IdAt(r, i)[2] <= IdAt(r, j)[2]
      BY <1>3, <3>1 DEF Ordered
    <3> QED BY <3>1, <3>2
  <2> QED BY <2>1, <2>2
<1> QED BY <1>2, <1>3 DEF Ordered

LEMMA AdmitOrder ==
  ASSUME Book, QueuesOK, WindowOK, SingleOK, OrderOK, MaxInFlight = 1, NEW g \in Generations, AdmitStep(g)
  PROVE  OrderOK'
<1>0. PICK e \in Entry : \E c : /\ e = Arrival(g) /\ c = cur' /\ qs'[c] = Admitted(Mine, e) /\ last' = last
                                /\ done' = done \cup {i[2] : i \in Superseded(Mine, e)}
  BY DEF AdmitStep
<1>1. PICK c : /\ e = Arrival(g) /\ c = cur' /\ qs'[c] = Admitted(Mine, e) /\ last' = last
               /\ done' = done \cup {i[2] : i \in Superseded(Mine, e)}
  BY <1>0
<1>2. e.id[2] = Scan + 1 /\ live # 0 /\ Acc(stream, Scan + 1)
  BY <1>1, LiveFacts DEF AdmitStep, AtRecord, Arrival, NewItem
<1>3. PICK m : m = Mine
  OBVIOUS
<1>4. PICK d : d = Admitted(m, e)
  OBVIOUS
<1>5. PICK n : n = Size(m)
  OBVIOUS
<1>6. PICK x : x = last
  OBVIOUS
<1>7. Scan \in Nat /\ \A p \in Told : p \in Nat /\ p <= Scan + 1
  <2>1. Scan \in Nat /\ \A p \in Told : p \in Nat /\ (p <= Scan \/ Upcoming(p))
    BY <1>2, WindowTypes DEF WindowOK, TakenOnce
  <2>2. \A p \in Told : Upcoming(p) => p = Scan + 1
    BY <1>2, <2>1, Ahead
  <2> QED BY <2>1, <2>2
<1>8. x \in Nat /\ x <= Scan + 1
  <2>1. \A p \in done : p \in Told
    BY DEF Told
  <2> QED BY <1>6, <1>7, <2>1 DEF OrderOK
<1>9. Shape(m) /\ Single(m) /\ n \in Nat
  BY <1>3, <1>5, MineIs
<1>10. Ordered(m, x) /\ \A i \in 1 .. n : IdAt(m, i)[2] \in Nat /\ IdAt(m, i)[2] <= Scan + 1
  <2>1. CASE cur = 0
    <3>1. n = 0
      BY <1>3, <1>5, <2>1, MineIs
    <3> QED BY <1>5, <3>1 DEF Ordered
  <2>2. CASE cur # 0
    <3>1. m = qs[cur] /\ cur \in 1 .. Len(qs)
      BY <1>3, <2>2, MineIs
    <3>2. \A i \in 1 .. n : IdAt(m, i)[2] \in Nat /\ IdAt(m, i)[2] \in Told
      BY <1>5, <3>1, IdsAre
    <3> QED BY <1>6, <1>7, <2>2, <3>1, <3>2 DEF OrderOK
  <2> QED BY <2>1, <2>2
<1>11. \/ /\ Size(d) = n + 1 /\ IdAt(d, Size(d)) = e.id
          /\ \A i \in 1 .. n : IdAt(d, i) = IdAt(m, i)
       \/ /\ n > 0 /\ Size(d) = n
          /\ IdAt(d, Size(d)) = e.id
          /\ \A i \in 1 .. n - 1 : IdAt(d, i) = IdAt(m, i)
  BY <1>4, <1>5, <1>9, AdmittedIs
<1>12. PICK k, p : k = Size(d) /\ p = Scan + 1
  OBVIOUS
<1>13. /\ k \in Nat /\ p \in Nat /\ (k = n + 1 \/ (k = n /\ n > 0)) /\ IdAt(d, k)[2] = p
       /\ \A i \in 1 .. k - 1 : IdAt(d, i) = IdAt(m, i)
  BY <1>2, <1>7, <1>9, <1>11, <1>12
<1>14. Ordered(d, x)
  BY <1>5, <1>8, <1>9, <1>10, <1>12, <1>13, Extended, SMTT(60)
<1>15. d = qs'[cur'] /\ x = last' /\ last' \in done' \cup {0}
  BY <1>1, <1>3, <1>4, <1>6 DEF OrderOK
<1> QED BY <1>14, <1>15, OrderMade

LEMMA SettleOrder ==
  ASSUME QueuesOK, SingleOK, OrderOK, MaxInFlight = 1, NEW k \in 1 .. Len(qs), NEW e \in qs[k].active, SettleStep(k, e)
  PROVE  OrderOK' /\ last' >= last
<1>1. PICK r, d, x : r = qs[k] /\ d = Succeeded(r, e) /\ x = e.id[2]
  OBVIOUS
<1>2. /\ qs' = [qs EXCEPT ![k] = d] /\ done' = done \cup {x} /\ last' = (IF k = cur THEN x ELSE last) /\ cur' = cur
  BY <1>1 DEF SettleStep
<1>3. Len(qs') = Len(qs) /\ qs'[k] = d /\ \A i \in 1 .. Len(qs) : i # k => qs'[i] = qs[i]
  BY <1>2, ReplacedIs DEF QueuesOK
<1>4. Shape(r) /\ Single(r) /\ e \in r.active
  BY <1>1, QueueFacts DEF SingleOK
<1>5. Single(d) /\ Size(r) = Size(d) + 1 /\ IdAt(r, 1) = e.id /\ \A i \in 1 .. Size(d) : IdAt(d, i) = IdAt(r, i + 1)
  BY <1>1, <1>4, SucceededIs
<1>6. Size(d) \in Nat /\ last \in Nat
  <2>1. Shape(d)
    BY <1>1, <1>4, SucceededIs
  <2>2. \A p \in done : p \in Nat
    BY DEF QueuesOK, Positions
  <2> QED BY <1>5, <2>1, <2>2, SingleFacts DEF OrderOK
<1>7. CASE k = cur
  <2>1. cur # 0 /\ Ordered(r, last)
    BY <1>1, <1>7, QueueFacts DEF OrderOK
  <2>2. 1 \in 1 .. Size(r) /\ \A i \in 1 .. Size(d) : i + 1 \in 1 .. Size(r) /\ 1 <= i + 1
    BY <1>5, <1>6
  <2>3. last <= x
    BY <1>1, <1>5, <2>1, <2>2 DEF Ordered
  <2>4. \A i \in 1 .. Size(d) : x <= IdAt(d, i)[2]
    BY <1>1, <1>5, <2>1, <2>2 DEF Ordered
  <2>5. \A i, j \in 1 .. Size(d) : i <= j => IdAt(d, i)[2] <= IdAt(d, j)[2]
    <3> SUFFICES ASSUME NEW i \in 1 .. Size(d), NEW j \in 1 .. Size(d), i <= j
                 PROVE  IdAt(d, i)[2] <= IdAt(d, j)[2]
      OBVIOUS
    <3>1. i + 1 <= j + 1 /\ i + 1 \in 1 .. Size(r) /\ j + 1 \in 1 .. Size(r)
      BY <1>6, <2>2
    <3>2. IdAt(r, i + 1)[2] <= IdAt(r, j + 1)[2]
      BY <2>1, <3>1 DEF Ordered
    <3> QED BY <1>5, <3>2
  <2>6. Ordered(d, x)
    BY <2>4, <2>5 DEF Ordered
  <2>7. d = qs'[cur'] /\ x = last' /\ last' \in done' \cup {0}
    BY <1>2, <1>3, <1>7
  <2>8. x \in Nat
    <3>1. e.id \in Ids
      BY <1>1, <1>4, SucceededIs
    <3> QED BY <1>1, <3>1 DEF Ids, Positions
  <2> QED BY <1>6, <2>3, <2>6, <2>7, <2>8, OrderMade
<1>8. CASE k # cur
  <2>1. last' = last /\ last' \in done' \cup {0}
    BY <1>2, <1>8 DEF OrderOK
  <2>2. ASSUME cur' # 0 PROVE \E a, b : a = qs'[cur'] /\ b = last' /\ Ordered(a, b)
    <3>1. cur \in 1 .. Len(qs) /\ cur # 0 /\ Ordered(qs[cur], last)
      BY <1>2, <2>2, QueueFacts DEF OrderOK
    <3>2. qs'[cur'] = qs[cur]
      BY <1>2, <1>3, <1>8, <3>1
    <3> QED BY <2>1, <3>1, <3>2
  <2> QED BY <1>6, <2>1, <2>2, OrderMade
<1> QED BY <1>7, <1>8

LEMMA AgainOrder ==
  ASSUME QueuesOK, SingleOK, OrderOK, MaxInFlight = 1, NEW k \in 1 .. Len(qs), NEW d, AgainStep(k, d)
  PROVE  OrderOK'
<1>1. PICK r : r = qs[k]
  OBVIOUS
<1>2. /\ qs' = [qs EXCEPT ![k] = d] /\ done' = done /\ last' = last /\ cur' = cur
      /\ Size(d) = Size(r) /\ \A i \in 1 .. Size(r) : IdAt(d, i) = IdAt(r, i)
  BY <1>1 DEF AgainStep, SingleOK, outcome
<1>3. Len(qs') = Len(qs) /\ qs'[k] = d /\ \A i \in 1 .. Len(qs) : i # k => qs'[i] = qs[i]
  BY <1>2, ReplacedIs DEF QueuesOK
<1>4. ASSUME cur' # 0 PROVE \E a, b : a = qs'[cur'] /\ b = last' /\ Ordered(a, b)
  <2>1. cur \in 1 .. Len(qs) /\ Ordered(qs[cur], last)
    BY <1>2, <1>4, QueueFacts DEF OrderOK
  <2>2. CASE k = cur
    <3>1. Ordered(d, last)
      BY <1>1, <1>2, <2>1, <2>2 DEF Ordered
    <3> QED BY <1>2, <1>3, <2>2, <3>1
  <2>3. CASE k # cur
    <3>1. qs'[cur'] = qs[cur]
      BY <1>2, <1>3, <2>1, <2>3
    <3> QED BY <1>2, <2>1, <3>1
  <2> QED BY <2>2, <2>3
<1>5. last' \in done' \cup {0}
  BY <1>2 DEF OrderOK
<1> QED BY <1>4, <1>5, OrderMade

LEMMA StepOrder ==
  ASSUME Book, QueuesOK, WindowOK, SingleOK, OrderOK, [Next]_vars, MaxInFlight = 1
  PROVE  OrderOK' /\ last' >= last
<1>0. last \in Nat
  <2>1. \A p \in done : p \in Nat
    BY DEF QueuesOK, Positions
  <2> QED BY <2>1 DEF OrderOK
<1>1. ASSUME UNCHANGED <<done, last>>, cur' # 0 => cur # 0 /\ qs'[cur'] = qs[cur] PROVE OrderOK' /\ last' >= last
  <2>1. ASSUME cur' # 0 PROVE \E a, b : a = qs'[cur'] /\ b = last' /\ Ordered(a, b)
    BY <1>1, <2>1 DEF OrderOK
  <2>2. last' \in done' \cup {0}
    BY <1>1 DEF OrderOK
  <2> QED BY <1>0, <1>1, <2>1, <2>2, OrderMade
<1>2. ASSUME NEW g \in Generations, AdmitStep(g) PROVE OrderOK' /\ last' >= last
  BY <1>0, <1>2, AdmitOrder DEF AdmitStep
<1>3. ASSUME NEW g \in Generations, HoldStep(g) PROVE OrderOK' /\ last' >= last
  <2>1. done' = done /\ last' = last
    BY <1>3 DEF HoldStep, outcome
  <2>2. CASE cur # 0
    <3>1. cur' = cur /\ cur \in 1 .. Len(qs)
      BY <1>3, <2>2, QueueFacts DEF HoldStep
    <3>2. qs'[cur] = qs[cur]
      BY <1>3, <3>1 DEF HoldStep
    <3> QED BY <1>1, <2>1, <2>2, <3>1, <3>2
  <2>3. CASE cur = 0 /\ cur' # 0
    <3>1. PICK d, x : d = NewQueue /\ x = last
      OBVIOUS
    <3>2. Size(d) = 0
      BY <3>1, NewQueueIs
    <3>3. Ordered(d, x)
      BY <3>2 DEF Ordered
    <3>4. qs'[cur'] = d /\ last' = x /\ last' \in done' \cup {0}
      BY <1>3, <2>1, <2>3, <3>1 DEF HoldStep, OrderOK
    <3> QED BY <1>0, <2>1, <3>3, <3>4, OrderMade
  <2>4. CASE cur' = 0
    BY <1>1, <2>1, <2>4
  <2> QED BY <2>2, <2>3, <2>4
<1>4. ASSUME NEW k \in 1 .. Len(qs), NEW e \in qs[k].active, SettleStep(k, e) PROVE OrderOK' /\ last' >= last
  BY <1>4, SettleOrder
<1>5. ASSUME NEW k \in 1 .. Len(qs), NEW r, AgainStep(k, r) PROVE OrderOK' /\ last' >= last
  <2>1. last' = last
    BY <1>5 DEF AgainStep, outcome
  <2>2. OrderOK'
    BY <1>5, AgainOrder
  <2> QED BY <1>0, <2>1, <2>2
<1>6. CASE Crash
  <2>1. cur' = 0 /\ UNCHANGED <<done, last>>
    BY <1>6 DEF Crash, history
  <2> QED BY <1>1, <2>1
<1>7. CASE StopStep
  <2>1. cur' \in {0, cur} /\ qs' = qs /\ UNCHANGED <<done, last>>
    BY <1>7 DEF StopStep, outcome
  <2> QED BY <1>1, <2>1
<1>8. CASE \/ (\E r \in Records : GrowStep(r)) \/ StillStep \/ HeadStep("running") \/ HeadStep("landed")
           \/ (Watch /\ UNCHANGED <<queues, outcome>>)
           \/ (\E w \in Writes, ok \in BOOLEAN : EndStep(w, ok))
           \/ \E g \in Generations : \/ \E st \in {"idle", "init", "read"}, at \in 0 .. Len(log) : MoveStep(g, st, at)
                                     \/ TakeStep(g) \/ DropStep(g) \/ SkipStep(g) \/ OccupyStep(g)
  <2>1. qs' = qs /\ cur' = cur /\ UNCHANGED <<done, last>>
    BY <1>8 DEF GrowStep, StillStep, HeadStep, EndStep, MoveStep, TakeStep, DropStep, SkipStep, OccupyStep, queues, outcome
  <2> QED BY <1>1, <2>1
<1> QED BY Steps, <1>2, <1>3, <1>4, <1>5, <1>6, <1>7, <1>8

\* With one handler at a time, as TerminalRuntime makes its queues, handlers of
\* the queue in place end in file order: a record handed over again after a new
\* watch waits behind its first copy, and none after it has ended by then
\* (enqueueSidecar, pump).  The watches are those of OneRedelivered.
THEOREM InFileOrder ==
  ASSUME MaxInFlight = 1, HasCursor \/ MaxWatches <= 2
  PROVE  Spec => HandledInOrder
<1> DEFINE Inv == Book /\ QueuesOK /\ WindowOK /\ SingleOK /\ OrderOK
<1>1. Init => Inv
  BY InitBook, InitQueues, InitWindow, InitSingle, InitOrder
<1>2. Inv /\ [Next]_vars => Inv'
  BY StepBook, StepQueues, StepWindow, StepSingle, StepOrder
<1>3. Inv /\ [Next]_vars => [last' >= last]_vars
  BY StepOrder
<1> QED BY <1>1, <1>2, <1>3, PTL DEF Spec, HandledInOrder

-----------------------------------------------------------------------------
(* A stream that was taken over is not given back *)

\* The record that the live pass l has handed over is the last of the line of the
\* queue in place until it is settled; while it is persisted, nothing waits.
OwnIn(Q, c, l, p, Z, f) ==
  /\ \A k \in 1 .. Len(Q) : \A i \in 1 .. Size(Q[k]) : IdAt(Q[k], i)[1] = l => k = c /\ p.st = "await" /\ i = Size(Q[k])
  /\ \A id \in Z : id[1] = l => p.st = "await" /\ id = <<l, p.at + 1>>
  /\ p.st = "await" /\ <<l, p.at + 1>> \in Z => c # 0 /\ Size(Q[c]) = 0
  /\ p.st = "await" /\ <<l, p.at + 1>> \notin Z => c # 0 /\ Size(Q[c]) > 0 /\ IdAt(Q[c], Size(Q[c])) = <<l, p.at + 1>>
  /\ p.st = "persist" /\ f[p.at + 1].kind # "unknown" => c # 0 /\ Size(Q[c]) = 0
OwnOK == live # 0 => OwnIn(qs, cur, live, pass[live], settled, log)

LEMMA OwnMade ==
  ASSUME NEW Q, Q = qs', NEW c, c = cur', NEW l, l = live', NEW p, p = pass'[l], NEW Z, Z = settled', NEW f, f = log',
         l # 0 => OwnIn(Q, c, l, p, Z, f)
  PROVE  OwnOK'
<1> SUFFICES ASSUME live' # 0 PROVE OwnIn(qs, cur, live, pass[live], settled, log)'
  BY DEF OwnOK
<1>1. OwnIn(Q, c, l, p, Z, f)
  OBVIOUS
<1>2. p = pass'[live']
  OBVIOUS
<1>3. OwnIn(qs', cur', live', pass'[live'], settled', log')
  BY <1>1
<1> QED BY <1>3, ZenonT(60) DEF OwnIn, Size, IdAt

\* A pass that waits for no acknowledgement has nothing in any queue.
LEMMA OwnNone ==
  ASSUME NEW Q, Q = qs', NEW p, p = pass'[live'],
         \A k \in 1 .. Len(Q) : \A i \in 1 .. Size(Q[k]) : IdAt(Q[k], i)[1] # live',
         \A id \in settled' : id[1] # live',
         p.st # "await", p.st # "persist" \/ log'[p.at + 1].kind = "unknown"
  PROVE  OwnOK'
<1>1. PICK c : c = cur'
  OBVIOUS
<1>2. PICK l : l = live'
  OBVIOUS
<1>3. PICK Z : Z = settled'
  OBVIOUS
<1>4. PICK f : f = log'
  OBVIOUS
<1>5. OwnIn(Q, c, l, p, Z, f)
  BY <1>2, <1>3, <1>4 DEF OwnIn
<1> QED BY <1>1, <1>2, <1>3, <1>4, <1>5, OwnMade

LEMMA NoneLive ==
  ASSUME OwnOK, live # 0, pass[live].st # "await"
  PROVE  /\ \A k \in 1 .. Len(qs) : \A i \in 1 .. Size(qs[k]) : IdAt(qs[k], i)[1] # live
         /\ \A id \in settled : id[1] # live
BY DEF OwnOK, OwnIn

\* The queues stand still; the live pass moves without a record, or not at all.
LEMMA OwnStill ==
  ASSUME Book, OwnOK, qs' = qs, cur' = cur, live' = live, settled' \subseteq settled, Len(log) <= Len(log'),
         \A p \in 1 .. Len(log) : log'[p] = log[p],
         live # 0 => \/ /\ pass'[live] = pass[live]
                        /\ \A id \in settled : id[1] = live => id \in settled'
                     \/ /\ pass[live].st # "await" /\ pass'[live].st # "await"
                        /\ pass'[live].st # "persist" \/ log'[pass'[live].at + 1].kind = "unknown"
  PROVE  OwnOK'
<1>0. PICK Q : Q = qs'
  OBVIOUS
<1>1. PICK p : p = pass'[live']
  OBVIOUS
<1>2. CASE live = 0
  BY <1>2 DEF OwnOK
<1>3. CASE live # 0 /\ pass[live].st # "await" /\ pass'[live].st # "await"
           /\ (pass'[live].st # "persist" \/ log'[pass'[live].at + 1].kind = "unknown")
  <2>1. /\ \A k \in 1 .. Len(Q) : \A i \in 1 .. Size(Q[k]) : IdAt(Q[k], i)[1] # live'
        /\ \A id \in settled' : id[1] # live'
    BY <1>0, <1>3, NoneLive
  <2>2. p.st # "await" /\ (p.st # "persist" \/ log'[p.at + 1].kind = "unknown")
    BY <1>1, <1>3
  <2> QED BY <1>0, <1>1, <2>1, <2>2, OwnNone
<1>4. CASE live # 0 /\ pass'[live] = pass[live] /\ \A id \in settled : id[1] = live => id \in settled'
  <2>1. PICK c : c = cur'
    OBVIOUS
  <2>2. PICK l : l = live'
    OBVIOUS
  <2>3. PICK Z : Z = settled'
    OBVIOUS
  <2>4. PICK f : f = log'
    OBVIOUS
  <2>5. OwnIn(Q, c, l, p, settled, log) /\ l # 0
    BY <1>0, <1>1, <1>4, <2>1, <2>2 DEF OwnOK
  <2>6. \A id \in settled : id[1] = l => id \in Z
    BY <1>4, <2>2, <2>3
  <2>7. <<l, p.at + 1>> \in Z <=> <<l, p.at + 1>> \in settled
    BY <2>3, <2>6
  <2>8. p.st = "persist" => log[p.at + 1] = f[p.at + 1]
    <3>1. pass[live].st = "persist" => pass[live].at + 1 \in 1 .. Len(log)
      BY <1>4, LiveFacts DEF Taken
    <3> QED BY <1>1, <1>4, <2>4, <3>1
  <2>9. OwnIn(Q, c, l, p, Z, f)
    BY <2>3, <2>5, <2>7, <2>8 DEF OwnIn
  <2>10. p = pass'[l]
    BY <1>1, <2>2
  <2> QED BY <1>0, <2>1, <2>2, <2>3, <2>4, <2>9, <2>10, OwnMade
<1> QED BY <1>2, <1>3, <1>4

LEMMA AdmitOwn ==
  ASSUME Book, QueuesOK, SingleOK, OwnOK, MaxInFlight = 1, NEW g \in Generations, AdmitStep(g)
  PROVE  OwnOK'
<1>0. PICK e \in Entry : \E c : /\ e = Arrival(g) /\ c = cur' /\ c \in 1 .. Len(qs') /\ qs'[c] = Admitted(Mine, e)
                                /\ \A k \in 1 .. Len(qs') : k # c => k \in 1 .. Len(qs) /\ qs'[k] = qs[k]
                                /\ settled' = settled \cup Superseded(Mine, e)
  BY DEF AdmitStep
<1>1. PICK c : /\ e = Arrival(g) /\ c = cur' /\ c \in 1 .. Len(qs') /\ qs'[c] = Admitted(Mine, e)
               /\ \A k \in 1 .. Len(qs') : k # c => k \in 1 .. Len(qs) /\ qs'[k] = qs[k]
               /\ settled' = settled \cup Superseded(Mine, e)
  BY <1>0
<1>2. /\ live = g /\ live' = g /\ g # 0 /\ pass[g].st = "read" /\ Go(g, "await", pass[g].at)
      /\ e.id = <<g, pass[g].at + 1>>
  BY <1>1, LiveFacts DEF AdmitStep, AtRecord, Reading, Arrival, NewItem
<1>3. PICK p : p = pass'[g]
  OBVIOUS
<1>4. p.st = "await" /\ p.at = pass[g].at
  BY <1>2, <1>3, PassTypes
<1>5. PICK Q : Q = qs'
  OBVIOUS
<1>6. PICK m : m = Mine
  OBVIOUS
<1>7. PICK d : d = Admitted(m, e)
  OBVIOUS
<1>8. PICK Z : Z = settled'
  OBVIOUS
<1>9. PICK f : f = log'
  OBVIOUS
<1>10. /\ \A k \in 1 .. Len(qs) : \A i \in 1 .. Size(qs[k]) : IdAt(qs[k], i)[1] # g
       /\ \A id \in settled : id[1] # g
  BY <1>2, NoneLive
<1>11. /\ Shape(m) /\ Single(m) /\ Size(m) \in Nat /\ \A i \in 1 .. Size(m) : IdAt(m, i)[1] # g
  BY <1>6, <1>10, MineIs
<1>12. \/ /\ Superseded(m, e) = {} /\ Size(d) = Size(m) + 1 /\ IdAt(d, Size(d)) = e.id
          /\ \A i \in 1 .. Size(m) : IdAt(d, i) = IdAt(m, i)
       \/ /\ Size(m) > 0 /\ Superseded(m, e) = {IdAt(m, Size(m))} /\ Size(d) = Size(m)
          /\ IdAt(d, Size(d)) = e.id
          /\ \A i \in 1 .. Size(m) - 1 : IdAt(d, i) = IdAt(m, i)
  BY <1>7, <1>11, AdmittedIs
<1>13. Size(d) \in Nat /\ Size(d) > 0 /\ IdAt(d, Size(d)) = e.id /\ \A i \in 1 .. Size(d) : i # Size(d) => IdAt(d, i)[1] # g
  <2>1. \A i \in 1 .. Size(d) : i # Size(d) => IdAt(d, i) = IdAt(m, i) /\ i \in 1 .. Size(m)
    BY <1>11, <1>12
  <2> QED BY <1>11, <1>12, <2>1
<1>14. \A id \in Z : id[1] # g
  <2>1. \A id \in Superseded(m, e) : id[1] # g
    BY <1>11, <1>12
  <2> QED BY <1>1, <1>6, <1>8, <1>10, <2>1
<1>15. \A k \in 1 .. Len(Q) : \A i \in 1 .. Size(Q[k]) : IdAt(Q[k], i)[1] = g => k = c /\ i = Size(Q[k])
  <2> SUFFICES ASSUME NEW k \in 1 .. Len(Q), NEW i \in 1 .. Size(Q[k]), IdAt(Q[k], i)[1] = g
               PROVE  k = c /\ i = Size(Q[k])
    OBVIOUS
  <2>1. k = c
    BY <1>1, <1>5, <1>10
  <2>2. Q[k] = d
    BY <1>1, <1>5, <1>6, <1>7, <2>1
  <2> QED BY <1>13, <2>1, <2>2
<1>16. Q[c] = d /\ c # 0
  BY <1>1, <1>5, <1>6, <1>7
<1>17. PICK own : own = <<g, p.at + 1>>
  OBVIOUS
<1>18. own \notin Z /\ IdAt(d, Size(d)) = own
  BY <1>2, <1>4, <1>13, <1>14, <1>17
<1>19. OwnIn(Q, c, g, p, Z, f)
  BY <1>4, <1>13, <1>14, <1>15, <1>16, <1>17, <1>18 DEF OwnIn
<1>20. g = live' /\ c = cur'
  BY <1>1, <1>2
<1> QED BY <1>3, <1>5, <1>8, <1>9, <1>19, <1>20, OwnMade

LEMMA TakeOwn ==
  ASSUME Book, OwnOK, NEW g \in Generations, TakeStep(g)
  PROVE  OwnOK'
<1>1. /\ live = g /\ live' = g /\ g # 0 /\ pass[g].st = "await" /\ <<g, pass[g].at + 1>> \in settled
      /\ Go(g, "persist", pass[g].at) /\ settled' = settled \ {<<g, pass[g].at + 1>>}
      /\ qs' = qs /\ cur' = cur /\ log' = log
  BY LiveFacts DEF TakeStep, Acknowledged
<1>2. PICK p : p = pass'[g]
  OBVIOUS
<1>3. p.st = "persist" /\ p.at = pass[g].at
  BY <1>1, <1>2, PassTypes
<1>4. PICK Z : Z = settled'
  OBVIOUS
<1>5. PICK own : own = <<g, pass[g].at + 1>>
  OBVIOUS
<1>6. Z = settled \ {own} /\ own \in settled /\ own = <<g, p.at + 1>>
  BY <1>1, <1>3, <1>4, <1>5
<1>7. OwnIn(qs, cur, g, pass[g], settled, log)
  BY <1>1 DEF OwnOK
<1>8. cur # 0 /\ Size(qs[cur]) = 0
  BY <1>1, <1>7 DEF OwnIn
<1>9. \A k \in 1 .. Len(qs) : \A i \in 1 .. Size(qs[k]) : IdAt(qs[k], i)[1] # g
  <2> SUFFICES ASSUME NEW k \in 1 .. Len(qs), NEW i \in 1 .. Size(qs[k]), IdAt(qs[k], i)[1] = g PROVE FALSE
    OBVIOUS
  <2>1. k = cur
    BY <1>7 DEF OwnIn
  <2> QED BY <1>8, <2>1
<1>10. \A id \in Z : id[1] # g
  BY <1>5, <1>6, <1>7 DEF OwnIn
<1>11. OwnIn(qs, cur, g, p, Z, log)
  BY <1>3, <1>8, <1>9, <1>10 DEF OwnIn
<1>12. PICK Q : Q = qs' /\ Q = qs
  BY <1>1
<1>13. PICK c : c = cur' /\ c = cur
  BY <1>1
<1>14. PICK f : f = log' /\ f = log
  BY <1>1
<1>15. OwnIn(Q, c, g, p, Z, f)
  BY <1>11, <1>12, <1>13, <1>14
<1>16. g = live'
  BY <1>1
<1> QED BY <1>2, <1>4, <1>12, <1>13, <1>14, <1>15, <1>16, OwnMade

LEMMA SettleOwn ==
  ASSUME QueuesOK, SingleOK, OwnOK, MaxInFlight = 1, NEW k \in 1 .. Len(qs), NEW e \in qs[k].active, SettleStep(k, e)
  PROVE  OwnOK'
<1>1. PICK r, d : r = qs[k] /\ d = Succeeded(r, e)
  OBVIOUS
<1>2. /\ qs' = [qs EXCEPT ![k] = d] /\ settled' = settled \cup {e.id} /\ UNCHANGED booked /\ cur' = cur
  BY <1>1 DEF SettleStep
<1>3. live' = live /\ pass' = pass /\ log' = log
  BY <1>2 DEF booked
<1>4. PICK Q : Q = qs'
  OBVIOUS
<1>5. Len(Q) = Len(qs) /\ Q[k] = d /\ \A i \in 1 .. Len(qs) : i # k => Q[i] = qs[i]
  BY <1>2, <1>4, ReplacedIs DEF QueuesOK
<1>6. Shape(r) /\ Single(r) /\ e \in r.active
  BY <1>1, QueueFacts DEF SingleOK
<1>7. /\ Single(d) /\ Shape(d) /\ Size(r) = Size(d) + 1 /\ IdAt(r, 1) = e.id
      /\ \A i \in 1 .. Size(d) : IdAt(d, i) = IdAt(r, i + 1)
  BY <1>1, <1>6, SucceededIs
<1>8. Size(d) \in Nat
  BY <1>7, SingleFacts
<1>9. PICK c : c = cur' /\ c = cur
  BY <1>2
<1>10. PICK l : l = live' /\ l = live
  BY <1>3
<1>11. PICK p : p = pass'[l] /\ p = pass[l]
  BY <1>3
<1>12. PICK Z : Z = settled'
  OBVIOUS
<1>13. PICK f : f = log' /\ f = log
  BY <1>3
<1>14. PICK own : own = <<l, p.at + 1>>
  OBVIOUS
<1>15. ASSUME l # 0 PROVE OwnIn(Q, c, l, p, Z, f)
  <2>1. OwnIn(qs, c, l, p, settled, f)
    BY <1>9, <1>10, <1>11, <1>13, <1>15 DEF OwnOK
  <2>2. /\ \A j \in 1 .. Len(qs) : \A i \in 1 .. Size(qs[j]) : IdAt(qs[j], i)[1] = l => j = c /\ p.st = "await" /\ i = Size(qs[j])
        /\ \A id \in settled : id[1] = l => p.st = "await" /\ id = own
        /\ p.st = "await" /\ own \in settled => c # 0 /\ Size(qs[c]) = 0
        /\ p.st = "await" /\ own \notin settled => c # 0 /\ Size(qs[c]) > 0 /\ IdAt(qs[c], Size(qs[c])) = own
        /\ p.st = "persist" /\ f[p.at + 1].kind # "unknown" => c # 0 /\ Size(qs[c]) = 0
    BY <1>14, <2>1 DEF OwnIn
  <2>3. 1 \in 1 .. Size(r) /\ Size(r) > 0
    BY <1>7, <1>8
  <2>4. e.id[1] = l => k = c /\ p.st = "await" /\ Size(r) = 1 /\ e.id = own /\ Size(d) = 0
    BY <1>1, <1>7, <1>8, <2>2, <2>3
  <2>5. ASSUME NEW j \in 1 .. Len(Q), NEW i \in 1 .. Size(Q[j]), IdAt(Q[j], i)[1] = l
        PROVE  j = c /\ p.st = "await" /\ i = Size(Q[j])
    <3>1. CASE j = k
      <4>1. i \in 1 .. Size(d) /\ i + 1 \in 1 .. Size(r) /\ IdAt(r, i + 1)[1] = l
        BY <1>5, <1>7, <1>8, <2>5, <3>1
      <4>2. j = c /\ p.st = "await" /\ i + 1 = Size(r)
        BY <1>1, <2>2, <3>1, <4>1
      <4> QED BY <1>5, <1>7, <1>8, <3>1, <4>2
    <3>2. CASE j # k
      <4>1. j \in 1 .. Len(qs) /\ Q[j] = qs[j]
        BY <1>5, <3>2
      <4> QED BY <2>2, <2>5, <4>1
    <3> QED BY <3>1, <3>2
  <2>6. \A id \in Z : id[1] = l => p.st = "await" /\ id = own
    BY <1>2, <1>12, <2>2, <2>4
  <2>7. c # 0 /\ c # k => Q[c] = qs[c]
    <3>1. c \in 0 .. Len(qs)
      BY <1>9, QueueFacts
    <3> QED BY <1>5, <3>1
  <2>8. p.st = "await" /\ own \in Z => c # 0 /\ Size(Q[c]) = 0
    <3>1. CASE own \in settled
      BY <1>1, <2>2, <2>3, <2>7, <3>1
    <3>2. CASE own = e.id
      <4>1. p.st = "await" /\ own \notin settled => c # 0
        BY <2>2
      <4>2. e.id[1] = l
        BY <1>14, <3>2
      <4>3. c = k /\ c # 0
        BY <2>4, <4>2
      <4> QED BY <1>5, <2>4, <4>2, <4>3
    <3> QED BY <1>2, <1>12, <3>1, <3>2
  <2>9. p.st = "await" /\ own \notin Z => c # 0 /\ Size(Q[c]) > 0 /\ IdAt(Q[c], Size(Q[c])) = own
    <3> SUFFICES ASSUME p.st = "await", own \notin Z PROVE c # 0 /\ Size(Q[c]) > 0 /\ IdAt(Q[c], Size(Q[c])) = own
      OBVIOUS
    <3>1. own \notin settled /\ own # e.id
      BY <1>2, <1>12
    <3>2. c # 0 /\ Size(qs[c]) > 0 /\ IdAt(qs[c], Size(qs[c])) = own
      BY <2>2, <3>1
    <3>3. CASE c # k
      BY <2>7, <3>2, <3>3
    <3>4. CASE c = k
      <4>1. Size(r) # 1
        BY <1>1, <1>7, <3>1, <3>2, <3>4
      <4>2. Size(d) \in 1 .. Size(d) /\ Size(d) + 1 = Size(r)
        BY <1>7, <1>8, <4>1
      <4>3. IdAt(d, Size(d)) = own
        BY <1>1, <1>7, <3>2, <3>4, <4>2
      <4> QED BY <1>5, <3>2, <3>4, <4>2, <4>3
    <3> QED BY <3>3, <3>4
  <2>10. p.st = "persist" /\ f[p.at + 1].kind # "unknown" => c # 0 /\ Size(Q[c]) = 0
    BY <1>1, <2>2, <2>3, <2>7
  <2> QED BY <1>14, <2>5, <2>6, <2>8, <2>9, <2>10 DEF OwnIn
<1> QED BY <1>4, <1>9, <1>10, <1>11, <1>12, <1>13, <1>15, OwnMade

LEMMA AgainOwn ==
  ASSUME QueuesOK, SingleOK, OwnOK, MaxInFlight = 1, NEW k \in 1 .. Len(qs), NEW d, AgainStep(k, d)
  PROVE  OwnOK'
<1>1. PICK r : r = qs[k]
  OBVIOUS
<1>2. /\ qs' = [qs EXCEPT ![k] = d] /\ settled' = settled /\ UNCHANGED booked /\ cur' = cur
      /\ Size(d) = Size(r) /\ \A i \in 1 .. Size(r) : IdAt(d, i) = IdAt(r, i)
  BY <1>1 DEF AgainStep, SingleOK
<1>3. live' = live /\ pass' = pass /\ log' = log
  BY <1>2 DEF booked
<1>4. PICK Q : Q = qs'
  OBVIOUS
<1>5. Len(Q) = Len(qs) /\ Q[k] = d /\ \A i \in 1 .. Len(qs) : i # k => Q[i] = qs[i]
  BY <1>2, <1>4, ReplacedIs DEF QueuesOK
<1>6. PICK c : c = cur' /\ c = cur
  BY <1>2
<1>7. PICK l : l = live' /\ l = live
  BY <1>3
<1>8. PICK p : p = pass'[l] /\ p = pass[l]
  BY <1>3
<1>9. PICK Z : Z = settled' /\ Z = settled
  BY <1>2
<1>10. PICK f : f = log' /\ f = log
  BY <1>3
<1>11. \A j \in 1 .. Len(Q) : Size(Q[j]) = Size(qs[j]) /\ \A i \in 1 .. Size(Q[j]) : IdAt(Q[j], i) = IdAt(qs[j], i)
  BY <1>1, <1>2, <1>5
<1>12. Size(qs[k]) \in Nat /\ \A j \in 1 .. Len(qs) : Size(qs[j]) \in Nat
  BY SingleFacts, QueueFacts DEF SingleOK
<1>13. c # 0 => c \in 1 .. Len(Q)
  <2>1. c \in 0 .. Len(qs)
    BY <1>6, QueueFacts
  <2> QED BY <1>5, <2>1
<1>14. c # 0 => Size(Q[c]) = Size(qs[c]) /\ (Size(Q[c]) > 0 => IdAt(Q[c], Size(Q[c])) = IdAt(qs[c], Size(qs[c])))
  <2> SUFFICES ASSUME c # 0
               PROVE  Size(Q[c]) = Size(qs[c]) /\ (Size(Q[c]) > 0 => IdAt(Q[c], Size(Q[c])) = IdAt(qs[c], Size(qs[c])))
    OBVIOUS
  <2>1. Size(Q[c]) = Size(qs[c]) /\ Size(qs[c]) \in Nat
    BY <1>5, <1>11, <1>12, <1>13
  <2>2. Size(Q[c]) > 0 => Size(Q[c]) \in 1 .. Size(Q[c])
    BY <2>1
  <2> QED BY <1>11, <1>13, <2>1, <2>2
<1>15. ASSUME l # 0 PROVE OwnIn(Q, c, l, p, Z, f)
  <2>1. OwnIn(qs, c, l, p, Z, f)
    BY <1>6, <1>7, <1>8, <1>9, <1>10, <1>15 DEF OwnOK
  <2>2. ASSUME NEW j \in 1 .. Len(Q), NEW i \in 1 .. Size(Q[j]), IdAt(Q[j], i)[1] = l
        PROVE  j = c /\ p.st = "await" /\ i = Size(Q[j])
    <3>1. j \in 1 .. Len(qs) /\ i \in 1 .. Size(qs[j]) /\ IdAt(qs[j], i)[1] = l
      BY <1>5, <1>11, <2>2
    <3> QED BY <1>11, <2>1, <3>1 DEF OwnIn
  <2> QED BY <1>14, <2>1, <2>2 DEF OwnIn
<1> QED BY <1>4, <1>6, <1>7, <1>8, <1>9, <1>10, <1>15, OwnMade

LEMMA InitOwn == Init => OwnOK
BY DEF Init, OwnOK

LEMMA StepOwn ==
  ASSUME Book, QueuesOK, SingleOK, OwnOK, [Next]_vars, MaxInFlight = 1
  PROVE  OwnOK'
<1>0. /\ Len(log) \in Nat /\ live \in Nat /\ (live # 0 => live \in Generations /\ live = gens)
      /\ \A g \in Generations : g # 0
  BY LiveFacts
<1>1. ASSUME NEW r \in Records, GrowStep(r) PROVE OwnOK'
  <2>1. /\ qs' = qs /\ cur' = cur /\ live' = live /\ settled' = settled /\ pass' = pass /\ Grown(r)
    BY <1>1 DEF GrowStep, queues
  <2>2. Len(log) <= Len(log') /\ \A p \in 1 .. Len(log) : log'[p] = log[p]
    BY <1>0, <2>1 DEF Grown
  <2> QED BY <2>1, <2>2, OwnStill
<1>2. ASSUME qs' = qs, cur' = cur, live' = live, log' = log, settled' \subseteq settled,
             live # 0 => \/ /\ pass'[live] = pass[live]
                            /\ \A id \in settled : id[1] = live => id \in settled'
                         \/ /\ pass[live].st # "await" /\ pass'[live].st # "await"
                            /\ pass'[live].st # "persist" \/ log'[pass'[live].at + 1].kind = "unknown"
      PROVE  OwnOK'
  BY <1>0, <1>2, OwnStill
<1>3. CASE StillStep \/ HeadStep("running") \/ HeadStep("landed")
  <2>1. UNCHANGED <<qs, cur, settled, live, log, pass>>
    BY <1>3 DEF StillStep, HeadStep, booked, queues
  <2> QED BY <1>2, <2>1
<1>4. ASSUME NEW g \in Generations, NEW st \in {"idle", "init", "read"}, NEW at \in 0 .. Len(log), MoveStep(g, st, at)
      PROVE  OwnOK'
  <2>1. UNCHANGED <<qs, cur, settled, live, log>> /\ pass[g].st \in {"idle", "init", "read"} /\ Go(g, st, at)
    BY <1>4 DEF MoveStep, queues
  <2>2. pass'[g].st = st /\ \A h \in Generations : h # g => pass'[h] = pass[h]
    BY <2>1, PassTypes
  <2>3. CASE live = g
    BY <1>2, <2>1, <2>2, <2>3
  <2>4. CASE live # g
    BY <1>0, <1>2, <2>1, <2>2, <2>4
  <2> QED BY <2>3, <2>4
<1>5. ASSUME NEW g \in Generations, SkipStep(g) PROVE OwnOK'
  <2>1. UNCHANGED <<qs, cur, settled, live, log>> /\ live = g /\ pass[g].st = "read" /\ Go(g, "read", pass[g].at + 1)
    BY <1>5 DEF SkipStep, AtRecord, Reading, queues
  <2>2. pass'[g].st = "read"
    BY <2>1, PassTypes
  <2> QED BY <1>2, <2>1, <2>2
<1>6. ASSUME NEW g \in Generations, OccupyStep(g) PROVE OwnOK'
  <2>1. /\ UNCHANGED <<qs, cur, settled, live, log>> /\ live = g /\ pass[g].st = "read"
        /\ Go(g, "persist", pass[g].at) /\ log[pass[g].at + 1].kind = "unknown"
    BY <1>6 DEF OccupyStep, AtRecord, Reading, queues
  <2>2. pass'[g].st = "persist" /\ pass'[g].at = pass[g].at
    BY <2>1, PassTypes
  <2> QED BY <1>2, <2>1, <2>2
<1>7. ASSUME NEW g \in Generations, AdmitStep(g) PROVE OwnOK'
  BY <1>7, AdmitOwn
<1>8. ASSUME NEW g \in Generations, HoldStep(g) PROVE OwnOK'
  <2>1. /\ live' = live /\ settled' = settled /\ live = g /\ g # 0 /\ pass[g].st = "read" /\ EndPass(g)
        /\ \A k \in 1 .. Len(qs') : (k \in 1 .. Len(qs) /\ qs'[k] = qs[k]) \/ qs'[k] = NewQueue
    BY <1>0, <1>8 DEF HoldStep, AtRecord, Reading
  <2>2. pass'[g].st = "idle"
    BY <2>1, PassTypes DEF EndPass
  <2>3. PICK Q : Q = qs'
    OBVIOUS
  <2>4. PICK p : p = pass'[live']
    OBVIOUS
  <2>5. \A k \in 1 .. Len(Q) : \A i \in 1 .. Size(Q[k]) : IdAt(Q[k], i)[1] # live'
    <3> SUFFICES ASSUME NEW k \in 1 .. Len(Q), NEW i \in 1 .. Size(Q[k]) PROVE IdAt(Q[k], i)[1] # live'
      OBVIOUS
    <3>1. CASE k \in 1 .. Len(qs) /\ Q[k] = qs[k]
      BY <2>1, <3>1, NoneLive
    <3>2. CASE Q[k] = NewQueue
      <4>1. Size(Q[k]) = 0
        BY <3>2, NewQueueIs
      <4> QED BY <4>1
    <3> QED BY <2>1, <2>3, <3>1, <3>2
  <2>6. \A id \in settled' : id[1] # live'
    BY <2>1, NoneLive
  <2>7. p.st = "idle"
    BY <2>1, <2>2, <2>4
  <2> QED BY <2>3, <2>4, <2>5, <2>6, <2>7, OwnNone
<1>9. ASSUME NEW g \in Generations, TakeStep(g) PROVE OwnOK'
  BY <1>9, TakeOwn
<1>10. ASSUME NEW g \in Generations, DropStep(g) PROVE OwnOK'
  <2>1. /\ UNCHANGED <<qs, cur, live, log>> /\ live # g /\ EndPass(g) /\ settled' = settled \ {<<g, pass[g].at + 1>>}
    BY <1>10 DEF DropStep
  <2>2. \A h \in Generations : h # g => pass'[h] = pass[h]
    BY <2>1, PassTypes DEF EndPass
  <2>3. settled' \subseteq settled /\ \A id \in settled : id[1] = live => id \in settled'
    BY <2>1
  <2> QED BY <1>0, <1>2, <2>1, <2>2, <2>3
<1>11. ASSUME NEW w \in Writes, NEW ok \in BOOLEAN, EndStep(w, ok) PROVE OwnOK'
  <2>1. /\ UNCHANGED <<qs, cur, settled, live, log>> /\ WriteEnds(w, ok) /\ writes # <<>> /\ WriteOK(w) /\ w.gen \in Generations
    BY <1>11 DEF EndStep, WriteEnds, queues, Writes
  <2>2. CASE w.init
    <3>1. pass' = pass
      BY <2>1, <2>2 DEF WriteEnds
    <3> QED BY <1>2, <2>1, <3>1
  <2>3. CASE ~w.init
    <3>1. pass[w.gen].st = "persist" /\ \E st \in {"read", "idle"}, at \in Nat : Go(w.gen, st, at)
      <4>1. w.cursor.offset \in Nat
        BY DEF Writes, Cursors
      <4> QED BY <2>1, <2>3, <4>1 DEF WriteEnds, EndPass
    <3>2. PICK st, at : st \in {"read", "idle"} /\ Go(w.gen, st, at)
      BY <3>1
    <3>3. PICK g \in Generations : g = w.gen
      BY <2>1
    <3>4. Go(g, st, at) /\ pass[g].st = "persist"
      BY <3>1, <3>2, <3>3
    <3>5. pass'[g].st = st /\ \A h \in Generations : h # g => pass'[h] = pass[h]
      BY <3>4, PassTypes
    <3>6. CASE live = g
      BY <1>2, <2>1, <3>2, <3>4, <3>5, <3>6
    <3>7. CASE live # g
      BY <1>0, <1>2, <2>1, <3>5, <3>7
    <3> QED BY <3>6, <3>7
  <2> QED BY <2>2, <2>3
<1>12. CASE Watch /\ UNCHANGED <<queues, outcome>>
  <2>1. live' = gens + 1 /\ pass' = pass /\ pass[gens + 1].st = "idle" /\ qs' = qs /\ settled' = settled /\ gens \in Nat
    BY <1>12, WatchIs, LiveFacts DEF queues
  <2>2. PICK Q : Q = qs' /\ Q = qs
    BY <2>1
  <2>3. PICK p : p = pass'[live']
    OBVIOUS
  <2>4. \A k \in 1 .. Len(Q) : \A i \in 1 .. Size(Q[k]) : IdAt(Q[k], i)[1] # live'
    <3> SUFFICES ASSUME NEW k \in 1 .. Len(qs), NEW i \in 1 .. Size(qs[k]) PROVE IdAt(qs[k], i)[1] # live'
      BY <2>2
    <3>1. IdAt(qs[k], i) \in Held(qs[k]) /\ IdAt(qs[k], i) \in Ids
      BY IdsAre
    <3>2. PICK id : id = IdAt(qs[k], i)
      OBVIOUS
    <3>3. id[1] \in Nat /\ id[1] <= gens
      BY <3>1, <3>2 DEF QueuesOK, Ids, Generations
    <3> QED BY <2>1, <3>2, <3>3
  <2>5. \A id \in settled' : id[1] # live'
    <3>1. \A id \in settled : id[1] \in Nat /\ id[1] <= gens
      BY DEF QueuesOK, Ids, Generations
    <3> QED BY <2>1, <3>1
  <2>6. p.st = "idle"
    BY <2>1, <2>3
  <2> QED BY <2>2, <2>3, <2>4, <2>5, <2>6, OwnNone
<1>13. CASE StopStep \/ Crash
  <2>1. live' = 0
    BY <1>13 DEF StopStep, Crash, StoppedTailer
  <2> QED BY <2>1 DEF OwnOK
<1>14. ASSUME NEW k \in 1 .. Len(qs), NEW e \in qs[k].active, SettleStep(k, e) PROVE OwnOK'
  BY <1>14, SettleOwn
<1>15. ASSUME NEW k \in 1 .. Len(qs), NEW r, AgainStep(k, r) PROVE OwnOK'
  BY <1>15, AgainOwn
<1> QED BY Steps, <1>1, <1>3, <1>4, <1>5, <1>6, <1>7, <1>8, <1>9, <1>10, <1>11, <1>12, <1>13, <1>14, <1>15

\* Behind x the stream S is owned by a bridge that has not lost it, and every
\* bridge of R has been seen.
Past(R, S, x) == R # {} => S # {} /\ (\A s \in S : s.bridge \notin R) /\ \A b \in R : Seen(b, x)

RetiredOK ==
  /\ disk = {} => retired = {}
  /\ \A c \in disk : Past(retired, c.stream, c.offset)
  /\ \A i \in 1 .. Len(writes) :
       /\ writes[i].init => retired = {}
       /\ writes[i].st # "queued" => Past(retired, writes[i].cursor.stream, writes[i].cursor.offset)
  /\ live # 0 => Past(retired, stream, Scan)

LEMMA PastMono ==
  ASSUME Len(log) \in Nat, \A p \in 1 .. Len(log) : log'[p] = log[p],
         NEW R, NEW S, NEW x \in Nat, x <= Len(log), NEW y \in Nat, x <= y, Past(R, S, x)
  PROVE  Past(R, S, y)'
<1>1. ASSUME NEW b, Seen(b, x) PROVE Seen(b, y)'
  <2>1. PICK p \in 1 .. x : log[p].bridge = b
    BY <1>1 DEF Seen
  <2>2. p \in 1 .. y /\ p \in 1 .. Len(log)
    OBVIOUS
  <2> QED BY <2>1, <2>2 DEF Seen
<1> QED BY <1>1 DEF Past

LEMMA RetiredMade ==
  ASSUME Len(log) \in Nat, \A p \in 1 .. Len(log) : log'[p] = log[p], NEW R, R = retired',
         disk' = {} => R = {},
         \A c \in disk' : c.offset \in Nat /\ c.offset <= Len(log) /\ Past(R, c.stream, c.offset),
         \A i \in 1 .. Len(writes') :
           /\ writes'[i].init => R = {}
           /\ writes'[i].st # "queued" => \E S : \E x \in Nat :
                S = writes'[i].cursor.stream /\ x = writes'[i].cursor.offset /\ x <= Len(log) /\ Past(R, S, x),
         live' # 0 => \E S : \E x \in Nat, y \in Nat :
                S = stream' /\ y = Scan' /\ x <= y /\ x <= Len(log) /\ Past(R, S, x)
  PROVE  RetiredOK'
<1>1. ASSUME NEW c \in disk' PROVE Past(retired, c.stream, c.offset)'
  <2>1. PICK S : S = c.stream
    OBVIOUS
  <2>2. PICK x \in Nat : x = c.offset /\ x <= Len(log) /\ x <= x
    OBVIOUS
  <2>3. Past(R, S, x)
    BY <2>1, <2>2
  <2>4. Past(R, S, x)'
    BY <2>2, <2>3, PastMono
  <2> QED BY <2>1, <2>2, <2>4 DEF Past, Seen
<1>2. ASSUME NEW i \in 1 .. Len(writes'), writes'[i].st # "queued"
      PROVE  Past(retired, writes[i].cursor.stream, writes[i].cursor.offset)'
  <2>1. PICK S : \E x \in Nat : S = writes'[i].cursor.stream /\ x = writes'[i].cursor.offset /\ x <= Len(log) /\ Past(R, S, x)
    BY <1>2
  <2>2. PICK x \in Nat : S = writes'[i].cursor.stream /\ x = writes'[i].cursor.offset /\ x <= Len(log) /\ Past(R, S, x) /\ x <= x
    BY <2>1
  <2>3. Past(R, S, x)'
    BY <2>2, PastMono
  <2> QED BY <2>2, <2>3 DEF Past, Seen
<1>3. ASSUME live' # 0 PROVE Past(retired, stream, Scan)'
  <2>1. PICK S : \E x \in Nat, y \in Nat : S = stream' /\ y = Scan' /\ x <= y /\ x <= Len(log) /\ Past(R, S, x)
    BY <1>3
  <2>2. PICK x \in Nat, y \in Nat : S = stream' /\ y = Scan' /\ x <= y /\ x <= Len(log) /\ Past(R, S, x)
    BY <2>1
  <2>3. Past(R, S, y)'
    BY <2>2, PastMono
  <2> QED BY <2>2, <2>3 DEF Past, Seen
<1> QED BY <1>1, <1>2, <1>3 DEF RetiredOK

\* A record the stream goes on with belongs to no bridge that lost it.
LEMMA TakenPast ==
  ASSUME Book, live # 0, Past(retired, stream, Scan), Acc(stream, Scan + 1), Scan + 1 <= Len(log),
         NEW R, R \subseteq retired \cup ({s.bridge : s \in stream} \ {log[Scan + 1].bridge})
  PROVE  Past(R, StreamAt(Scan + 1), Scan + 1) /\ log[Scan + 1].bridge \notin R
<1>0. Scan \in Nat /\ Len(log) \in Nat /\ Scan + 1 \in 1 .. Len(log)
  BY WindowTypes
<1>1. PICK b : b = log[Scan + 1].bridge
  OBVIOUS
<1>2. b \notin retired
  <2> SUFFICES ASSUME b \in retired PROVE FALSE
    OBVIOUS
  <2>1. stream # {} /\ (\A s \in stream : s.bridge \notin retired) /\ Seen(b, Scan)
    BY DEF Past
  <2>2. log[Scan + 1].kind = "session_ready"
    BY <1>1, <2>1 DEF Acc
  <2>3. PICK p \in 1 .. Scan : log[p].bridge = b
    BY <2>1 DEF Seen
  <2>4. p \in 1 .. Len(log) /\ p < Scan + 1
    BY <1>0
  <2> QED BY <1>0, <1>1, <2>2, <2>3, <2>4 DEF Book, LogOK
<1>3. \A x \in R : Seen(x, Scan)
  <2>1. \A s \in stream : Seen(s.bridge, Scan)
    BY DEF Book, MemOK
  <2>2. \A x \in retired : Seen(x, Scan)
    BY DEF Past
  <2> QED BY <2>1, <2>2
<1>4. \A x \in R : Seen(x, Scan + 1)
  <2>1. \A p \in 1 .. Scan : p \in 1 .. Scan + 1
    BY <1>0
  <2> QED BY <1>3, <2>1 DEF Seen
<1>5. b \notin R
  BY <1>1, <1>2
<1>6. StreamAt(Scan + 1) # {} /\ \A s \in StreamAt(Scan + 1) : s.bridge \notin R
  BY <1>1, <1>5 DEF StreamAt
<1> QED BY <1>1, <1>4, <1>5, <1>6 DEF Past

\* No bridge loses the stream, no cursor is written; the scan may go on.
LEMMA RetiredStill ==
  ASSUME Book, RetiredOK, UNCHANGED <<disk, live, stream, retired>>, Scan' \in Nat, Scan <= Scan',
         \A p \in 1 .. Len(log) : log'[p] = log[p],
         \A i \in 1 .. Len(writes') :
            \/ \E j \in 1 .. Len(writes) : writes'[i] = writes[j]
            \/ ~writes'[i].init /\ writes'[i].st = "queued"
  PROVE  RetiredOK'
<1>0. /\ Len(log) \in Nat /\ Scan \in Nat /\ Scan <= Len(log)
      /\ \A c \in disk : c.offset \in Nat /\ c.offset <= Len(log)
  BY WindowTypes DEF Proper
<1>1. \A i \in 1 .. Len(writes) : writes[i].cursor.offset \in Nat /\ writes[i].cursor.offset <= Len(log)
  BY HeadFacts DEF WriteOK, Proper
<1>2. PICK R : R = retired' /\ R = retired
  OBVIOUS
<1>3. /\ disk' = {} => R = {}
      /\ \A c \in disk' : c.offset \in Nat /\ c.offset <= Len(log) /\ Past(R, c.stream, c.offset)
  BY <1>0, <1>2 DEF RetiredOK
<1>4. ASSUME NEW i \in 1 .. Len(writes')
      PROVE  /\ writes'[i].init => R = {}
             /\ writes'[i].st # "queued" => \E S : \E x \in Nat :
                  S = writes'[i].cursor.stream /\ x = writes'[i].cursor.offset /\ x <= Len(log) /\ Past(R, S, x)
  <2>1. ASSUME NEW j \in 1 .. Len(writes), writes'[i] = writes[j]
        PROVE  /\ writes'[i].init => R = {}
               /\ writes'[i].st # "queued" => \E S : \E x \in Nat :
                    S = writes'[i].cursor.stream /\ x = writes'[i].cursor.offset /\ x <= Len(log) /\ Past(R, S, x)
    <3>1. writes[j].init => R = {}
      BY <1>2 DEF RetiredOK
    <3>2. writes[j].st # "queued" => Past(R, writes[j].cursor.stream, writes[j].cursor.offset)
      BY <1>2 DEF RetiredOK
    <3> QED BY <1>1, <2>1, <3>1, <3>2
  <2> QED BY <2>1
<1>5. live' # 0 => \E S : \E x \in Nat, y \in Nat :
        S = stream' /\ y = Scan' /\ x <= y /\ x <= Len(log) /\ Past(R, S, x)
  <2>1. live' # 0 => Past(R, stream', Scan)
    BY <1>2 DEF RetiredOK
  <2> QED BY <1>0, <2>1
<1> QED BY <1>0, <1>2, <1>3, <1>4, <1>5, RetiredMade

\* A write is begun, or has reached the file.
LEMMA HeadRetired ==
  ASSUME Book, RetiredOK, NEW st \in {"running", "landed"}, HeadStep(st)
  PROVE  RetiredOK'
<1>0. /\ Len(log) \in Nat /\ Scan \in Nat /\ Scan <= Len(log)
      /\ \A c \in disk : c.offset \in Nat /\ c.offset <= Len(log)
  BY WindowTypes DEF Proper
<1>1. /\ writes # <<>> /\ writes' = [writes EXCEPT ![1].st = st]
      /\ st = "running" => live = writes[1].gen /\ disk' = disk
      /\ st = "landed" => writes[1].st = "running" /\ disk' = {writes[1].cursor}
      /\ UNCHANGED <<log, live, gens, offset, stream, known, initOf, initRes, pass, base, retired>>
  BY DEF HeadStep
<1>2. /\ 1 \in 1 .. Len(writes) /\ WriteOK(writes[1]) /\ writes[1].gen \in Nat \ {0}
      /\ \A i \in 1 .. Len(writes) : i > 1 => writes[i].st = "queued"
  BY <1>1, HeadFacts
<1>3. PICK c : c = writes[1].cursor
  OBVIOUS
<1>4. c.offset \in Nat /\ c.offset <= Len(log)
  BY <1>2, <1>3, HeadFacts DEF WriteOK, Proper
<1>5. /\ Len(writes') = Len(writes) /\ Scan' = Scan /\ writes'[1].init = writes[1].init
      /\ writes'[1].cursor = c /\ \A i \in 2 .. Len(writes) : writes'[i] = writes[i]
  BY <1>1, <1>3, HeadBook
<1>6. PICK R : R = retired' /\ R = retired
  BY <1>1
<1>7. Past(R, c.stream, c.offset)
  <2>1. CASE writes[1].init
    <3>1. R = {}
      BY <1>2, <1>6, <2>1 DEF RetiredOK
    <3> QED BY <3>1 DEF Past
  <2>2. CASE writes[1].st # "queued"
    BY <1>2, <1>3, <1>6, <2>2 DEF RetiredOK
  <2>3. CASE st = "running" /\ ~writes[1].init
    <3>1. c.offset = Scan + 1 /\ c.stream = StreamAt(Scan + 1) /\ Scan + 1 <= Len(log) /\ Acc(stream, Scan + 1)
      BY <1>1, <1>3, <2>3, LiveWrite
    <3>2. live # 0 /\ Past(retired, stream, Scan)
      BY <1>1, <1>2, <2>3 DEF RetiredOK
    <3>3. Past(R, StreamAt(Scan + 1), Scan + 1)
      BY <1>6, <3>1, <3>2, TakenPast
    <3> QED BY <3>1, <3>3
  <2>4. st = "landed" => writes[1].st # "queued"
    BY <1>1
  <2> QED BY <2>1, <2>2, <2>3, <2>4
<1>8. ASSUME NEW i \in 1 .. Len(writes')
      PROVE  /\ writes'[i].init => R = {}
             /\ writes'[i].st # "queued" => \E S : \E x \in Nat :
                  S = writes'[i].cursor.stream /\ x = writes'[i].cursor.offset /\ x <= Len(log) /\ Past(R, S, x)
  <2>1. CASE i = 1
    <3>1. writes'[i].init => R = {}
      BY <1>2, <1>5, <1>6, <2>1 DEF RetiredOK
    <3> QED BY <1>4, <1>5, <1>7, <2>1, <3>1
  <2>2. CASE i # 1
    <3>1. i \in 2 .. Len(writes) /\ writes'[i] = writes[i] /\ i \in 1 .. Len(writes) /\ i > 1
      BY <1>5, <2>2
    <3> QED BY <1>2, <1>6, <3>1 DEF RetiredOK
  <2> QED BY <2>1, <2>2
<1>9. disk' = {} => R = {}
  BY <1>1, <1>6 DEF RetiredOK
<1>10. \A d \in disk' : d.offset \in Nat /\ d.offset <= Len(log) /\ Past(R, d.stream, d.offset)
  <2>1. CASE st = "running"
    BY <1>0, <1>1, <1>6, <2>1 DEF RetiredOK
  <2>2. CASE st = "landed"
    BY <1>1, <1>3, <1>4, <1>7, <2>2
  <2> QED BY <2>1, <2>2
<1>11. live' # 0 => \E S : \E x \in Nat, y \in Nat :
        S = stream' /\ y = Scan' /\ x <= y /\ x <= Len(log) /\ Past(R, S, x)
  <2>1. live' # 0 => Past(R, stream', Scan)
    BY <1>1, <1>6 DEF RetiredOK
  <2> QED BY <1>0, <1>5, <2>1
<1>12. \A p \in 1 .. Len(log) : log'[p] = log[p]
  BY <1>1
<1> QED BY <1>0, <1>6, <1>8, <1>9, <1>10, <1>11, <1>12, RetiredMade

\* The stream passes to the bridge of the record that was persisted.
LEMMA EndRetired ==
  ASSUME Book, RetiredOK, NEW w \in Writes, NEW ok \in BOOLEAN, ok, EndStep(w, ok), ~w.init
  PROVE  RetiredOK'
<1>1. /\ writes # <<>> /\ w = writes[1] /\ WriteOK(w) /\ w.st = "landed" /\ live = w.gen /\ writes' = Without(1)
      /\ stream' = w.cursor.stream /\ WriteEnds(w, ok)
      /\ retired' = retired \cup ({s.bridge : s \in stream} \ {s.bridge : s \in w.cursor.stream})
      /\ UNCHANGED <<log, disk, live, gens>>
  BY DEF EndStep, WriteEnds
<1>0. Scan \in Nat
  BY WindowTypes
<1>a. ~w.init => IF ok THEN live # 0 /\ Scan' = Scan + 1 /\ Acc(stream, Scan + 1) ELSE TRUE
  BY <1>1, EndBook
<1>2. /\ live # 0 /\ Scan' = Scan + 1 /\ Acc(stream, Scan + 1) /\ Scan \in Nat
  BY <1>0, <1>a
<1>3. w.cursor.offset = Scan + 1 /\ w.cursor.stream = StreamAt(Scan + 1) /\ Scan + 1 <= Len(log) /\ Len(log) \in Nat
  BY <1>1, LiveWrite, WindowTypes
<1>4. disk' = {w.cursor}
  BY <1>1 DEF WriteOK
<1>5. PICK R : R = retired'
  OBVIOUS
<1>6. {s.bridge : s \in w.cursor.stream} = {log[Scan + 1].bridge}
  BY <1>3 DEF StreamAt
<1>7. Past(R, StreamAt(Scan + 1), Scan + 1)
  <2>1. R \subseteq retired \cup ({s.bridge : s \in stream} \ {log[Scan + 1].bridge})
    BY <1>1, <1>5, <1>6
  <2>2. Past(retired, stream, Scan)
    BY <1>2 DEF RetiredOK
  <2> QED BY <1>2, <1>3, <2>1, <2>2, TakenPast
<1>8. \A d \in disk' : d.offset \in Nat /\ d.offset <= Len(log) /\ Past(R, d.stream, d.offset)
  BY <1>2, <1>3, <1>4, <1>7
<1>9. \A i \in 1 .. Len(writes') : ~writes'[i].init /\ writes'[i].st = "queued"
  <2> SUFFICES ASSUME NEW i \in 1 .. Len(writes') PROVE ~writes'[i].init /\ writes'[i].st = "queued"
    OBVIOUS
  <2>1. /\ Len(writes) \in Nat /\ Len(writes') = Len(writes) - 1 /\ Len(writes) > 0
        /\ \A j \in 1 .. Len(writes) - 1 : writes'[j] = writes[j + 1]
    BY <1>1, WithoutIs, HeadFacts DEF Book
  <2>2. PICK j \in 1 .. Len(writes) : j > 1 /\ writes'[i] = writes[j]
    <3>1. i + 1 \in 1 .. Len(writes) /\ i + 1 > 1 /\ i \in 1 .. Len(writes) - 1
      BY <2>1
    <3> QED BY <2>1, <3>1
  <2>3. writes[j].st = "queued" /\ 1 \in 1 .. Len(writes) /\ writes[j].gen <= gens /\ writes[j].gen \in Nat
    BY <2>2, HeadFacts
  <2>4. live = gens
    BY <1>2, LiveFacts
  <2>5. writes[j].init => writes[1].gen < writes[j].gen
    BY <2>2, HeadFacts
  <2> QED BY <1>1, <2>2, <2>3, <2>4, <2>5, WindowTypes
<1>10. \E S : \E x \in Nat, y \in Nat : S = stream' /\ y = Scan' /\ x <= y /\ x <= Len(log) /\ Past(R, S, x)
  BY <1>1, <1>2, <1>3, <1>7
<1>11. disk' # {} /\ \A p \in 1 .. Len(log) : log'[p] = log[p]
  BY <1>1, <1>4
<1> QED BY <1>3, <1>5, <1>8, <1>9, <1>10, <1>11, RetiredMade

LEMMA WatchRetired ==
  ASSUME Book, RetiredOK, Watch
  PROVE  RetiredOK'
<1>0. /\ Len(log) \in Nat /\ \A c \in disk : c.offset \in Nat /\ c.offset <= Len(log)
      /\ \A i \in 1 .. Len(writes) : writes[i].cursor.offset \in Nat /\ writes[i].cursor.offset <= Len(log)
  BY WindowTypes, HeadFacts DEF Proper, WriteOK
<1>1. log' = log /\ disk' = disk /\ retired' = retired /\ Scan' = offset'
  BY WatchIs
<1>2. PICK R : R = retired' /\ R = retired
  BY <1>1
<1>3. /\ disk' = {} => R = {}
      /\ \A c \in disk' : c.offset \in Nat /\ c.offset <= Len(log) /\ Past(R, c.stream, c.offset)
      /\ \A p \in 1 .. Len(log) : log'[p] = log[p]
  BY <1>0, <1>1, <1>2 DEF RetiredOK
<1>4. ASSUME NEW i \in 1 .. Len(writes)
      PROVE  /\ writes[i].init => R = {}
             /\ writes[i].st # "queued" => \E S : \E x \in Nat :
                  S = writes[i].cursor.stream /\ x = writes[i].cursor.offset /\ x <= Len(log) /\ Past(R, S, x)
  BY <1>0, <1>2 DEF RetiredOK
<1>5. ASSUME NEW c \in disk, offset' = c.offset, stream' = c.stream, writes' = writes PROVE RetiredOK'
  <2>1. \E S : \E x \in Nat, y \in Nat : S = stream' /\ y = Scan' /\ x <= y /\ x <= Len(log) /\ Past(R, S, x)
    BY <1>0, <1>1, <1>3, <1>5
  <2>2. \A i \in 1 .. Len(writes') :
          /\ writes'[i].init => R = {}
          /\ writes'[i].st # "queued" => \E S : \E x \in Nat :
               S = writes'[i].cursor.stream /\ x = writes'[i].cursor.offset /\ x <= Len(log) /\ Past(R, S, x)
    BY <1>4, <1>5
  <2> QED BY <1>0, <1>2, <1>3, <2>1, <2>2, RetiredMade
<1>6. ASSUME disk = {}, offset' = Len(log), NEW w \in Writes, writes' = Append(writes, w), w.st = "queued" PROVE RetiredOK'
  <2>1. R = {}
    BY <1>1, <1>3, <1>6
  <2>0. Past(R, stream', Len(log))
    BY <2>1 DEF Past
  <2>2. \E S : \E x \in Nat, y \in Nat : S = stream' /\ y = Scan' /\ x <= y /\ x <= Len(log) /\ Past(R, S, x)
    BY <1>0, <1>1, <1>6, <2>0
  <2>3. /\ Len(writes') = Len(writes) + 1 /\ writes'[Len(writes) + 1] = w
        /\ \A i \in 1 .. Len(writes) : writes'[i] = writes[i]
    BY <1>6, AppendWrite DEF Book
  <2>4. ASSUME NEW i \in 1 .. Len(writes')
        PROVE  /\ writes'[i].init => R = {}
               /\ writes'[i].st # "queued" => \E S : \E x \in Nat :
                    S = writes'[i].cursor.stream /\ x = writes'[i].cursor.offset /\ x <= Len(log) /\ Past(R, S, x)
    <3>1. CASE i \in 1 .. Len(writes)
      BY <1>4, <2>3, <3>1
    <3>2. CASE i \notin 1 .. Len(writes)
      <4>1. i = Len(writes) + 1
        BY <2>3, <3>2, HeadFacts
      <4> QED BY <1>6, <2>1, <2>3, <4>1
    <3> QED BY <3>1, <3>2
  <2> QED BY <1>0, <1>2, <1>3, <2>2, <2>4, RetiredMade
<1> QED BY <1>5, <1>6, WatchIs

LEMMA InitRetired == Init => RetiredOK
<1> SUFFICES ASSUME Init PROVE RetiredOK
  OBVIOUS
<1>1. retired = {} /\ writes = <<>> /\ live = 0
  BY DEF Init
<1> QED BY <1>1 DEF RetiredOK, Past

LEMMA StepRetired ==
  ASSUME Book, QueuesOK, RetiredOK, [Next]_vars
  PROVE  RetiredOK'
<1>0. Len(log) \in Nat /\ Scan \in Nat
  BY WindowTypes
<1>1. ASSUME UNCHANGED <<disk, live, stream, retired, log>>, Scan' \in {Scan, Scan + 1},
             \A i \in 1 .. Len(writes') :
                \/ \E j \in 1 .. Len(writes) : writes'[i] = writes[j]
                \/ ~writes'[i].init /\ writes'[i].st = "queued"
      PROVE  RetiredOK'
  <2>1. Scan' \in Nat /\ Scan <= Scan' /\ \A p \in 1 .. Len(log) : log'[p] = log[p]
    BY <1>0, <1>1
  <2> QED BY <1>1, <2>1, RetiredStill
<1>2. ASSUME UNCHANGED <<disk, live, stream, retired, log, writes>>, Scan' \in {Scan, Scan + 1} PROVE RetiredOK'
  <2>1. \A i \in 1 .. Len(writes') : \E j \in 1 .. Len(writes) : writes'[i] = writes[j]
    BY <1>2
  <2> QED BY <1>1, <1>2, <2>1
<1>3. ASSUME NEW r \in Records, GrowStep(r) PROVE RetiredOK'
  <2>1. Grown(r) /\ UNCHANGED <<live, disk, stream, writes, pass, offset, retired>>
    BY <1>3 DEF GrowStep
  <2>2. Scan' = Scan
    BY <2>1 DEF Scan, Scanning
  <2>3. \A p \in 1 .. Len(log) : log'[p] = log[p]
    BY <2>1 DEF Grown
  <2>4. \A i \in 1 .. Len(writes') : \E j \in 1 .. Len(writes) : writes'[i] = writes[j]
    BY <2>1
  <2> QED BY <1>0, <2>1, <2>2, <2>3, <2>4, RetiredStill
<1>4. CASE StillStep \/ \E k \in 1 .. Len(qs) : (\E e \in qs[k].active : SettleStep(k, e)) \/ \E r : AgainStep(k, r)
  <2>1. UNCHANGED booked
    BY <1>4 DEF StillStep, SettleStep, AgainStep
  <2>2. UNCHANGED <<disk, live, stream, retired, log, writes>> /\ Scan' = Scan
    BY <2>1 DEF booked, Scan, Scanning
  <2> QED BY <1>2, <2>2
<1>5. ASSUME NEW g \in Generations, NEW st \in {"idle", "init", "read"}, NEW at \in 0 .. Len(log), MoveStep(g, st, at)
      PROVE  RetiredOK'
  BY <1>2, <1>5 DEF MoveStep
<1>6. ASSUME NEW g \in Generations, HoldStep(g) \/ DropStep(g) \/ SkipStep(g) PROVE RetiredOK'
  BY <1>2, <1>6 DEF HoldStep, DropStep, SkipStep
<1>7. ASSUME NEW g \in Generations, AdmitStep(g) PROVE RetiredOK'
  <2>1. /\ live = g /\ g # 0 /\ Scan = pass[g].at /\ Go(g, "await", pass[g].at)
        /\ UNCHANGED <<disk, live, stream, retired, log, writes>>
    BY <1>7, LiveFacts DEF AdmitStep, AtRecord
  <2>2. pass'[g].at = pass[g].at /\ pass'[g].st = "await"
    BY <2>1, PassTypes
  <2>3. Scan' = Scan
    BY <2>1, <2>2 DEF Scan, Scanning
  <2> QED BY <1>2, <2>1, <2>3
<1>8. ASSUME NEW g \in Generations, OccupyStep(g) \/ TakeStep(g) PROVE RetiredOK'
  <2>1. /\ live = g /\ pass[g].at < Len(log) /\ Acc(stream, pass[g].at + 1) /\ pass[g].st \in {"read", "await"}
        /\ Go(g, "persist", pass[g].at) /\ writes' = Append(writes, CursorWrite(g))
        /\ UNCHANGED <<log, disk, live, gens, offset, stream, known, initOf, initRes, base, retired>>
    BY <1>8 DEF OccupyStep, TakeStep, AtRecord, Reading, Acknowledged
  <2>2. Scan' = Scan
    BY <2>1, TakeBook
  <2>3. PICK w \in Writes : w = CursorWrite(g) /\ w.st = "queued" /\ ~w.init
    BY <2>1, CursorWriteIs
  <2>4. /\ Len(writes') = Len(writes) + 1 /\ writes'[Len(writes) + 1] = w
        /\ \A i \in 1 .. Len(writes) : writes'[i] = writes[i]
    BY <2>1, <2>3, AppendWrite DEF Book
  <2>5. ASSUME NEW i \in 1 .. Len(writes')
        PROVE  \/ \E j \in 1 .. Len(writes) : writes'[i] = writes[j]
               \/ ~writes'[i].init /\ writes'[i].st = "queued"
    <3>1. CASE i \in 1 .. Len(writes)
      BY <2>4, <3>1
    <3>2. CASE i \notin 1 .. Len(writes)
      <4>1. i = Len(writes) + 1
        BY <2>4, <3>2, HeadFacts
      <4> QED BY <2>3, <2>4, <4>1
    <3> QED BY <3>1, <3>2
  <2> QED BY <1>1, <2>1, <2>2, <2>5
<1>9. CASE HeadStep("running") \/ HeadStep("landed")
  <2>1. PICK st \in {"running", "landed"} : HeadStep(st)
    BY <1>9
  <2> QED BY <2>1, HeadRetired
<1>10. ASSUME NEW w \in Writes, NEW ok \in BOOLEAN, EndStep(w, ok) PROVE RetiredOK'
  <2>1. CASE ~w.init /\ ok
    BY <1>10, <2>1, EndRetired
  <2>2. CASE w.init \/ ~ok
    <3>1. /\ writes # <<>> /\ WriteOK(w) /\ WriteEnds(w, ok) /\ writes' = Without(1)
          /\ UNCHANGED <<log, live, disk>>
      BY <1>10 DEF EndStep, WriteEnds
    <3>2. Scan' = Scan
      BY <2>2, <3>1, EndBook
    <3>3. stream' = stream /\ retired' = retired
      BY <2>2, <3>1 DEF WriteEnds
    <3>4. \A i \in 1 .. Len(writes') : i + 1 \in 1 .. Len(writes) /\ writes'[i] = writes[i + 1]
      BY <3>1, WithoutIs, HeadFacts DEF Book
    <3> QED BY <1>1, <3>1, <3>2, <3>3, <3>4
  <2> QED BY <2>1, <2>2
<1>11. CASE Watch
  BY <1>11, WatchRetired
<1>12. CASE StopStep \/ Crash
  <2>1. /\ log' = log /\ disk' = disk /\ live' = 0 /\ retired' = retired /\ (writes' = writes \/ Len(writes') = 0)
    <3>1. writes' = writes \/ writes' = <<>>
      BY <1>12 DEF StopStep, Crash
    <3> QED BY <1>12, <3>1 DEF StopStep, Crash, StoppedTailer, history
  <2>2. PICK R : R = retired' /\ R = retired
    BY <2>1
  <2>3. \A i \in 1 .. Len(writes') : i \in 1 .. Len(writes) /\ writes' = writes
    BY <2>1
  <2>4. /\ \A c \in disk : c.offset \in Nat /\ c.offset <= Len(log)
        /\ \A i \in 1 .. Len(writes) : writes[i].cursor.offset \in Nat /\ writes[i].cursor.offset <= Len(log)
    BY WindowTypes, HeadFacts DEF Proper, WriteOK
  <2>5. /\ disk' = {} => R = {}
        /\ \A c \in disk' : c.offset \in Nat /\ c.offset <= Len(log) /\ Past(R, c.stream, c.offset)
        /\ \A p \in 1 .. Len(log) : log'[p] = log[p]
    BY <2>1, <2>2, <2>4 DEF RetiredOK
  <2>6. \A i \in 1 .. Len(writes') :
           /\ writes'[i].init => R = {}
           /\ writes'[i].st # "queued" => \E S : \E x \in Nat :
                S = writes'[i].cursor.stream /\ x = writes'[i].cursor.offset /\ x <= Len(log) /\ Past(R, S, x)
    BY <2>2, <2>3, <2>4 DEF RetiredOK
  <2> QED BY <1>0, <2>1, <2>2, <2>5, <2>6, RetiredMade
<1> QED BY Steps, <1>3, <1>4, <1>5, <1>6, <1>7, <1>8, <1>9, <1>10, <1>11, <1>12

\* Nothing in the line of the queue in place is of a bridge that lost the stream.
Owned(r, f, R) == \A i \in 1 .. Size(r) : f[IdAt(r, i)[2]].bridge \notin R
OwnerOK == cur # 0 => Owned(qs[cur], log, retired)

LEMMA OwnerMade ==
  ASSUME NEW f, f = log', NEW R, R = retired', cur' # 0 => \E r : r = qs'[cur'] /\ Owned(r, f, R)
  PROVE  OwnerOK'
<1>1. ASSUME cur' # 0 PROVE Owned(qs[cur], log, retired)'
  <2>1. PICK r : r = qs'[cur'] /\ Owned(r, f, R)
    BY <1>1
  <2>2. Size(qs'[cur']) = Size(r) /\ \A i : IdAt(qs'[cur'], i) = IdAt(r, i)
    BY <2>1
  <2>3. Owned(qs'[cur'], f, R)
    BY <2>1
  <2> QED BY <2>3 DEF Owned, Size, IdAt
<1> QED BY <1>1 DEF OwnerOK

\* The queue in place is the same, or there is none.
LEMMA OwnerStill ==
  ASSUME Book, QueuesOK, SingleOK, OwnerOK, cur' # 0 => cur # 0 /\ qs'[cur'] = qs[cur],
         \A p \in 1 .. Len(log) : log'[p] = log[p], retired' = retired
  PROVE  OwnerOK'
<1>1. PICK f : f = log'
  OBVIOUS
<1>2. PICK R : R = retired' /\ R = retired
  OBVIOUS
<1>3. ASSUME cur' # 0 PROVE \E r : r = qs'[cur'] /\ Owned(r, f, R)
  <2>1. cur \in 1 .. Len(qs) /\ Owned(qs[cur], log, R)
    BY <1>2, <1>3, QueueFacts DEF OwnerOK
  <2>2. ASSUME NEW i \in 1 .. Size(qs[cur]) PROVE f[IdAt(qs[cur], i)[2]].bridge \notin R
    <3>1. IdAt(qs[cur], i) \in Held(qs[cur]) /\ IdAt(qs[cur], i) \in Ids
      BY <2>1, IdsAre
    <3>2. PICK p : p = IdAt(qs[cur], i)[2]
      OBVIOUS
    <3>3. p \in 1 .. Len(log)
      <4>1. p <= Len(log)
        BY <2>1, <3>1, <3>2 DEF QueuesOK
      <4> QED BY <3>1, <3>2, <4>1, SequenceFacts DEF Ids, Positions, Book
    <3>4. log[p].bridge \notin R
      BY <2>1, <3>2 DEF Owned
    <3> QED BY <1>1, <3>2, <3>3, <3>4
  <2> QED BY <1>3, <2>2 DEF Owned
<1> QED BY <1>1, <1>2, <1>3, OwnerMade

LEMMA AdmitOwner ==
  ASSUME Book, QueuesOK, SingleOK, RetiredOK, OwnerOK, MaxInFlight = 1, NEW g \in Generations, AdmitStep(g)
  PROVE  OwnerOK'
<1>1. PICK e \in Entry : e = Arrival(g) /\ qs'[cur'] = Admitted(Mine, e) /\ log' = log /\ retired' = retired
  BY DEF AdmitStep
<1>2. /\ live # 0 /\ Acc(stream, Scan + 1) /\ Scan + 1 <= Len(log) /\ Scan = pass[g].at
      /\ e.id = <<g, pass[g].at + 1>>
  BY <1>1, LiveFacts DEF AdmitStep, AtRecord, Arrival, NewItem
<1>3. PICK R : R = retired' /\ R = retired
  BY <1>1
<1>4. PICK m : m = Mine
  OBVIOUS
<1>5. PICK d : d = Admitted(m, e)
  OBVIOUS
<1>6. log[Scan + 1].bridge \notin R
  <2>1. Past(retired, stream, Scan)
    BY <1>2 DEF RetiredOK
  <2>2. R \subseteq retired \cup ({s.bridge : s \in stream} \ {log[Scan + 1].bridge})
    BY <1>3
  <2> QED BY <1>2, <2>1, <2>2, TakenPast
<1>7. log[e.id[2]].bridge \notin R
  BY <1>2, <1>6
<1>8. Shape(m) /\ Single(m) /\ Size(m) \in Nat
  BY <1>4, MineIs
<1>9. Owned(m, log, R)
  <2>1. CASE cur = 0
    <3>1. Size(m) = 0
      BY <1>4, <2>1, MineIs
    <3> QED BY <3>1 DEF Owned
  <2>2. CASE cur # 0
    BY <1>3, <1>4, <2>2, MineIs DEF OwnerOK
  <2> QED BY <2>1, <2>2
<1>10. \/ /\ Size(d) = Size(m) + 1 /\ IdAt(d, Size(d)) = e.id
          /\ \A i \in 1 .. Size(m) : IdAt(d, i) = IdAt(m, i)
       \/ /\ Size(m) > 0 /\ Size(d) = Size(m) /\ IdAt(d, Size(d)) = e.id
          /\ \A i \in 1 .. Size(m) - 1 : IdAt(d, i) = IdAt(m, i)
  BY <1>5, <1>8, AdmittedIs
<1>11. Owned(d, log, R)
  <2> SUFFICES ASSUME NEW i \in 1 .. Size(d) PROVE log[IdAt(d, i)[2]].bridge \notin R
    BY DEF Owned
  <2>1. CASE i = Size(d)
    BY <1>7, <1>10, <2>1
  <2>2. CASE i # Size(d)
    <3>1. i \in 1 .. Size(m) /\ IdAt(d, i) = IdAt(m, i)
      BY <1>8, <1>10, <2>2
    <3> QED BY <1>9, <3>1 DEF Owned
  <2> QED BY <2>1, <2>2
<1>12. PICK f : f = log' /\ f = log
  BY <1>1
<1>13. d = qs'[cur'] /\ Owned(d, f, R)
  BY <1>1, <1>4, <1>5, <1>11, <1>12
<1> QED BY <1>3, <1>12, <1>13, OwnerMade

\* A queue whose ids were all in it before.
LEMMA LessOwner ==
  ASSUME Book, QueuesOK, SingleOK, OwnerOK, NEW k \in 1 .. Len(qs), NEW d, qs' = [qs EXCEPT ![k] = d],
         \A i \in 1 .. Size(d) : \E j \in 1 .. Size(qs[k]) : IdAt(d, i) = IdAt(qs[k], j),
         log' = log, retired' = retired, cur' = cur
  PROVE  OwnerOK'
<1>1. Len(qs') = Len(qs) /\ qs'[k] = d /\ \A i \in 1 .. Len(qs) : i # k => qs'[i] = qs[i]
  BY ReplacedIs DEF QueuesOK
<1>2. CASE k = cur
  <2>1. cur # 0 /\ Owned(qs[k], log, retired)
    BY <1>2, QueueFacts DEF OwnerOK
  <2>2. PICK R : R = retired' /\ R = retired
    OBVIOUS
  <2>3. PICK f : f = log' /\ f = log
    OBVIOUS
  <2>4. Owned(d, f, R)
    BY <2>1, <2>2, <2>3 DEF Owned
  <2>5. d = qs'[cur']
    BY <1>1, <1>2
  <2> QED BY <2>2, <2>3, <2>4, <2>5, OwnerMade
<1>3. CASE k # cur
  <2>1. cur' # 0 => cur # 0 /\ qs'[cur'] = qs[cur]
    BY <1>1, <1>3, QueueFacts
  <2> QED BY <2>1, OwnerStill
<1> QED BY <1>2, <1>3

\* Before a bridge loses the stream the queue in place has run empty.
LEMMA EndOwner ==
  ASSUME Book, QueuesOK, SingleOK, OwnOK, OwnerOK, NEW w \in Writes, NEW ok \in BOOLEAN, EndStep(w, ok)
  PROVE  OwnerOK'
<1>1. /\ writes # <<>> /\ w = writes[1] /\ WriteOK(w) /\ WriteEnds(w, ok) /\ (ok => live = w.gen)
      /\ UNCHANGED <<qs, cur, log>>
  BY DEF EndStep, WriteEnds, queues
<1>2. CASE retired' = retired
  BY <1>1, <1>2, OwnerStill
<1>3. CASE retired' # retired
  <2>1. /\ ok /\ ~w.init
        /\ retired' = retired \cup ({s.bridge : s \in stream} \ {s.bridge : s \in w.cursor.stream})
    BY <1>1, <1>3 DEF WriteEnds
  <2>2. /\ w.cursor.offset = Scan + 1 /\ w.cursor.stream = StreamAt(Scan + 1) /\ Acc(stream, Scan + 1)
    BY <1>1, <2>1, LiveWrite
  <2>3. {s.bridge : s \in w.cursor.stream} = {log[Scan + 1].bridge}
    BY <2>2 DEF StreamAt
  <2>4. PICK s \in stream : s.bridge # log[Scan + 1].bridge
    BY <1>3, <2>1, <2>3
  <2>5. log[Scan + 1].kind = "session_ready"
    <3>1. \A t \in stream : t = s
      BY DEF Book, BookTypes, One
    <3> QED BY <2>2, <2>4, <3>1 DEF Acc
  <2>6. live # 0
    BY <2>4 DEF Book, MemOK
  <2>7. pass[live].st = "persist" /\ w.cursor.offset = pass[live].at + 1
    BY <1>1, <2>1 DEF WriteOK
  <2>8. log[pass[live].at + 1].kind # "unknown"
    BY <2>2, <2>5, <2>7
  <2>9. cur # 0 /\ Size(qs[cur]) = 0
    BY <2>6, <2>7, <2>8 DEF OwnOK, OwnIn
  <2>10. PICK R : R = retired'
    OBVIOUS
  <2>11. PICK f : f = log'
    OBVIOUS
  <2>12. PICK r : r = qs'[cur'] /\ r = qs[cur]
    BY <1>1
  <2>13. Owned(r, f, R)
    BY <2>9, <2>12 DEF Owned
  <2> QED BY <2>10, <2>11, <2>12, <2>13, OwnerMade
<1> QED BY <1>2, <1>3

LEMMA InitOwner == Init => OwnerOK
BY DEF Init, OwnerOK

LEMMA StepOwner ==
  ASSUME Book, QueuesOK, SingleOK, OwnOK, RetiredOK, OwnerOK, [Next]_vars, MaxInFlight = 1
  PROVE  OwnerOK'
<1>1. ASSUME NEW r \in Records, GrowStep(r) PROVE OwnerOK'
  <2>1. Grown(r) /\ qs' = qs /\ cur' = cur /\ retired' = retired
    BY <1>1 DEF GrowStep, queues
  <2>2. \A p \in 1 .. Len(log) : log'[p] = log[p]
    BY <2>1 DEF Grown
  <2> QED BY <2>1, <2>2, OwnerStill
<1>2. CASE \/ StillStep \/ HeadStep("running") \/ HeadStep("landed") \/ (Watch /\ UNCHANGED <<queues, outcome>>)
           \/ \E g \in Generations : \/ \E st \in {"idle", "init", "read"}, at \in 0 .. Len(log) : MoveStep(g, st, at)
                                     \/ TakeStep(g) \/ DropStep(g) \/ SkipStep(g) \/ OccupyStep(g)
  <2>1. qs' = qs /\ cur' = cur
    BY <1>2 DEF StillStep, HeadStep, MoveStep, TakeStep, DropStep, SkipStep, OccupyStep, queues, outcome
  <2>2. log' = log /\ retired' = retired
    BY <1>2, WatchIs DEF StillStep, HeadStep, MoveStep, TakeStep, DropStep, SkipStep, OccupyStep, booked
  <2> QED BY <2>1, <2>2, OwnerStill
<1>3. CASE StopStep \/ Crash
  <2>1. cur' = 0 \/ (cur' = cur /\ qs' = qs)
    BY <1>3 DEF StopStep, Crash
  <2>2. log' = log /\ retired' = retired
    BY <1>3 DEF StopStep, Crash, history
  <2> QED BY <2>1, <2>2, OwnerStill
<1>4. ASSUME NEW g \in Generations, AdmitStep(g) PROVE OwnerOK'
  BY <1>4, AdmitOwner
<1>5. ASSUME NEW g \in Generations, HoldStep(g) PROVE OwnerOK'
  <2>1. /\ log' = log /\ retired' = retired /\ (cur # 0 => cur' = cur)
        /\ cur = 0 /\ cur' # 0 => qs'[cur'] = NewQueue
        /\ \A k \in 1 .. Len(qs) : qs'[k] = qs[k]
    BY <1>5 DEF HoldStep
  <2>2. CASE cur = 0 /\ cur' # 0
    <3>1. PICK d : d = NewQueue
      OBVIOUS
    <3>2. Size(d) = 0
      BY <3>1, NewQueueIs
    <3>3. PICK R : R = retired'
      OBVIOUS
    <3>4. PICK f : f = log'
      OBVIOUS
    <3>5. d = qs'[cur'] /\ Owned(d, f, R)
      BY <2>1, <2>2, <3>1, <3>2 DEF Owned
    <3> QED BY <3>3, <3>4, <3>5, OwnerMade
  <2>3. CASE ~(cur = 0 /\ cur' # 0)
    <3>1. cur' # 0 => cur # 0 /\ qs'[cur'] = qs[cur]
      BY <2>1, <2>3, QueueFacts
    <3> QED BY <2>1, <3>1, OwnerStill
  <2> QED BY <2>2, <2>3
<1>6. ASSUME NEW w \in Writes, NEW ok \in BOOLEAN, EndStep(w, ok) PROVE OwnerOK'
  BY <1>6, EndOwner
<1>7. ASSUME NEW k \in 1 .. Len(qs), NEW e \in qs[k].active, SettleStep(k, e) PROVE OwnerOK'
  <2>1. PICK r, d : r = qs[k] /\ d = Succeeded(r, e)
    OBVIOUS
  <2>2. qs' = [qs EXCEPT ![k] = d] /\ log' = log /\ retired' = retired /\ cur' = cur
    BY <1>7, <2>1 DEF SettleStep, booked
  <2>3. Shape(r) /\ Single(r) /\ e \in r.active
    BY <2>1, QueueFacts DEF SingleOK
  <2>4. /\ Shape(d) /\ Single(d) /\ Size(r) = Size(d) + 1
        /\ \A i \in 1 .. Size(d) : IdAt(d, i) = IdAt(r, i + 1)
    BY <2>1, <2>3, SucceededIs
  <2>5. Size(d) \in Nat
    BY <2>4, SingleFacts
  <2>6. \A i \in 1 .. Size(d) : i + 1 \in 1 .. Size(r)
    BY <2>4, <2>5
  <2>7. \A i \in 1 .. Size(d) : \E j \in 1 .. Size(qs[k]) : IdAt(d, i) = IdAt(qs[k], j)
    BY <2>1, <2>4, <2>6
  <2> QED BY <2>2, <2>7, LessOwner
<1>8. ASSUME NEW k \in 1 .. Len(qs), NEW r, AgainStep(k, r) PROVE OwnerOK'
  <2>1. /\ qs' = [qs EXCEPT ![k] = r] /\ log' = log /\ retired' = retired /\ cur' = cur
        /\ Size(r) = Size(qs[k]) /\ \A i \in 1 .. Size(r) : IdAt(r, i) = IdAt(qs[k], i)
    BY <1>8 DEF AgainStep, SingleOK, booked
  <2>2. \A i \in 1 .. Size(r) : \E j \in 1 .. Size(qs[k]) : IdAt(r, i) = IdAt(qs[k], j)
    BY <2>1
  <2> QED BY <2>1, <2>2, LessOwner
<1> QED BY Steps, <1>1, <1>2, <1>3, <1>4, <1>5, <1>6, <1>7, <1>8

\* With one handler at a time, as TerminalRuntime makes its queues, a record of
\* the bridge that takes over is persisted only after its acknowledgement, when
\* nothing of the old one is left in the queue in place; and what the stream goes
\* on with afterwards is never of a bridge that lost it (canAcceptEvent, tail).
THEOREM StreamStaysTaken ==
  ASSUME MaxInFlight = 1
  PROVE  Spec => []OwnerIsNotReplacedBack
<1> DEFINE Inv == Book /\ QueuesOK /\ SingleOK /\ OwnOK /\ RetiredOK /\ OwnerOK
<1>1. Init => Inv
  BY InitBook, InitQueues, InitSingle, InitOwn, InitRetired, InitOwner
<1>2. Inv /\ [Next]_vars => Inv'
  BY StepBook, StepQueues, StepSingle, StepOwn, StepRetired, StepOwner
<1>3. Inv => OwnerIsNotReplacedBack
  <2> SUFFICES ASSUME Inv, cur # 0, NEW e \in qs[cur].active \cup {qs[cur].queue[i] : i \in DOMAIN qs[cur].queue}
               PROVE  log[e.id[2]].bridge \notin retired
    BY DEF OwnerIsNotReplacedBack
  <2>1. PICK r : r = qs[cur]
    OBVIOUS
  <2>2. Shape(r) /\ Single(r) /\ Owned(r, log, retired)
    BY <2>1, QueueFacts DEF SingleOK, OwnerOK
  <2>3. e.id \in Held(r)
    BY <2>1, <2>2, ShapeFacts DEF Held
  <2>4. PICK i \in 1 .. Size(r) : e.id = IdAt(r, i)
    BY <2>2, <2>3, SingleFacts
  <2> QED BY <2>2, <2>4 DEF Owned
<1> QED BY <1>1, <1>2, <1>3, PTL DEF Spec

-----------------------------------------------------------------------------
(* The cursor file, and what a stopped watch leaves *)

LEMMA StepForward ==
  ASSUME Book, QueuesOK, WindowOK, HasCursor, [Next]_vars, NEW c \in disk, NEW d \in disk'
  PROVE  c.offset <= d.offset
<1>0. c.offset \in Nat /\ \A x \in disk : c = x
  BY WindowTypes
<1>1. CASE disk' = disk
  BY <1>0, <1>1
<1>2. CASE HeadStep("landed")
  <2>1. writes # <<>> /\ writes[1].st = "running" /\ disk' = {writes[1].cursor}
    BY <1>2 DEF HeadStep
  <2>2. 1 \in 1 .. Len(writes) /\ d = writes[1].cursor
    BY <2>1, HeadFacts
  <2>3. Follows(c, d) \/ Same(d, c)
    BY <2>1, <2>2, Stopped DEF CanFollow, FollowsOK, Running
  <2>4. CASE IsNext(c.stream, c.offset, d.offset)
    <3>1. d.offset \in (c.offset + 1) .. Len(log) /\ Len(log) \in Nat
      BY <2>4, WindowTypes DEF IsNext
    <3> QED BY <1>0, <3>1
  <2>5. CASE Same(d, c)
    BY <1>0, <2>5 DEF Same
  <2> QED BY <2>3, <2>4, <2>5 DEF Follows
<1>3. CASE \/ (\E r \in Records : GrowStep(r)) \/ StillStep \/ StopStep \/ Crash \/ HeadStep("running")
           \/ (Watch /\ UNCHANGED <<queues, outcome>>)
           \/ (\E w \in Writes, ok \in BOOLEAN : EndStep(w, ok))
           \/ (\E k \in 1 .. Len(qs) : (\E e \in qs[k].active : SettleStep(k, e)) \/ \E r : AgainStep(k, r))
           \/ \E g \in Generations :
                \/ \E st \in {"idle", "init", "read"}, at \in 0 .. Len(log) : MoveStep(g, st, at)
                \/ SkipStep(g) \/ OccupyStep(g) \/ AdmitStep(g) \/ HoldStep(g) \/ TakeStep(g) \/ DropStep(g)
  <2>1. disk' = disk
    BY <1>3, WatchIs, ZenonT(60) DEF GrowStep, StillStep, StopStep, Crash, HeadStep, EndStep, WriteEnds, MoveStep, SkipStep, OccupyStep,
       AdmitStep, HoldStep, TakeStep, DropStep, SettleStep, AgainStep, booked
  <2> QED BY <1>1, <2>1
<1> QED BY Steps, <1>2, <1>3

\* The cursor file of a terminal that left one behind earlier never moves back:
\* of a replaced watch at most one write is under way, and it is for the record
\* the next watch takes first, or one the file has passed (persistCursor).
THEOREM CursorForward ==
  ASSUME HasCursor
  PROVE  Spec => CursorMovesForward
<1> DEFINE Inv == Book /\ QueuesOK /\ WindowOK
<1>1. Init => Inv
  BY InitBook, InitQueues, InitWindow
<1>2. Inv /\ [Next]_vars => Inv'
  BY StepBook, StepQueues, StepWindow
<1>3. Inv /\ [Next]_vars => [\A c \in disk, d \in disk' : c.offset <= d.offset]_vars
  BY StepForward
<1> QED BY <1>1, <1>2, <1>3, PTL DEF Spec, CursorMovesForward

\* Only the live generation moves the scan, the stream or the hold: a pass or a
\* cursor write that settles after its watch was stopped finds another generation
\* or none (isLive, isCurrentGeneration).
THEOREM NothingLeft == Spec => []NoGhostState
<1> DEFINE Inv == Book /\ QueuesOK /\ NoGhostState
<1>1. Init => Inv
  <2>1. Init => NoGhostState
    BY DEF Init, NoGhostState
  <2> QED BY <2>1, InitBook, InitQueues
<1>2. Inv /\ [Next]_vars => NoGhostState'
  <2> SUFFICES ASSUME Book, QueuesOK, NoGhostState, [Next]_vars, live' = 0 PROVE NoGhostState'
    BY DEF NoGhostState
  <2>0. /\ \A g \in Generations : g # 0
        /\ writes # <<>> => writes[1].gen # 0 /\ gens + 1 # 0
    BY LiveFacts, HeadFacts
  <2>1. CASE UNCHANGED <<live, offset, stream, known, paused>>
    BY <2>1 DEF NoGhostState
  <2>2. CASE StopWatching \/ Release \/ Crash
    BY <2>2 DEF StopWatching, Release, Crash, StoppedTailer, NoGhostState
  <2>3. CASE Watch
    BY <2>3, LiveFacts DEF Watch, NewGeneration
  <2>4. ASSUME NEW g \in Generations, InitAwaited(g) \/ Reads(g) PROVE NoGhostState'
    <3>1. live # g
      BY <2>0, <2>4 DEF InitAwaited, Reads, ReadEnds, Skip, Occupy, Deliver
    <3>2. UNCHANGED <<live, offset, stream, known, paused>>
      BY <2>4, <3>1 DEF InitAwaited, Reads, ReadEnds, Skip, Occupy, Deliver
    <3> QED BY <2>1, <3>2
  <2>5. CASE Resume
    BY <2>5 DEF Resume, NoGhostState
  <2>6. ASSUME NEW i \in DOMAIN writes, StartWrite(i) \/ FinishWrite(i) \/ FailWrite(i) PROVE NoGhostState'
    <3>1. i = 1 /\ writes # <<>> /\ live' = live
      BY <2>6 DEF StartWrite, FinishWrite, FailWrite, MayRun
    <3>2. live # writes[1].gen
      BY <2>0, <3>1
    <3>3. UNCHANGED <<offset, stream, known, paused>>
      BY <2>6, <3>1, <3>2 DEF StartWrite, FinishWrite, FailWrite, Written, MayWrite, Fenced
    <3> QED BY <2>1, <3>1, <3>3
  <2>7. CASE UNCHANGED tailer
    BY <2>1, <2>7 DEF tailer
  <2>8. CASE \/ SetAdmit \/ (\E b \in 1 .. MaxBridges, k \in RecordKinds : Produce(b, k))
             \/ (\E k \in DOMAIN qs : RetryTimer(k) \/ \E e \in qs[k].active : HandlerOk(k, e) \/ HandlerFails(k, e))
    BY <2>7, <2>8 DEF SetAdmit, Produce, RetryTimer, HandlerOk, HandlerFails
  <2>9. CASE (\E g \in Generations : TailPass(g) \/ Persist(g)) \/ \E i \in DOMAIN writes : LandWrite(i)
    <3>1. UNCHANGED <<live, offset, stream, known, paused>>
      BY <2>9 DEF TailPass, Persist, LandWrite
    <3> QED BY <2>1, <3>1
  <2> QED BY <2>1, <2>2, <2>3, <2>4, <2>5, <2>6, <2>8, <2>9 DEF Next, Continuation, Event, Writing, Handling, vars, tailer
<1>3. Inv /\ [Next]_vars => Inv'
  BY <1>2, StepBook, StepQueues
<1> QED BY <1>1, <1>3, PTL DEF Spec
=============================================================================
