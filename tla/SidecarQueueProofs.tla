------------------------- MODULE SidecarQueueProofs -------------------------
(***************************************************************************)
(* The safety properties of SidecarQueue, for queues of any size, handlers *)
(* of any number at a time and any number of events.  The invariant of the *)
(* queue itself (QueueOK) is about its record alone and kept by every      *)
(* operator of SidecarQueueState; the invariant of the acknowledgements    *)
(* (FateOK) relates the record to what became of each event, through the   *)
(* set of items the queue holds, waiting or running.  The last part is     *)
(* about SidecarSpool, the files that feed the queue, as the instance S.   *)
(***************************************************************************)
EXTENDS SidecarQueue, SpoolDirectory, SequenceTheorems, NaturalsInduction, WellFoundedInduction, FiniteSetTheorems, TLAPS

QueueType ==
  [queue : Seq(Item(Ids)), queuedBytes : Nat, active : SUBSET Item(Ids), inFlight : Nat,
   inFlightBytes : Nat, retry : BOOLEAN, disposed : BOOLEAN]

\* The bytes of the items of s add up to n: c gives the total of each prefix.
Accounted(s, n) ==
  \E c \in [0 .. Len(s) -> Nat] :
    /\ c[0] = 0 /\ c[Len(s)] = n
    /\ \A i \in 1 .. Len(s) : c[i] = c[i - 1] + s[i].bytes
    /\ \A i, j \in 0 .. Len(s) : i <= j => c[i] <= c[j]

\* s lists the items of A, each once.
Lists(s, A) ==
  /\ \A i \in 1 .. Len(s) : s[i] \in A
  /\ \A e \in A : \E i \in 1 .. Len(s) : s[i] = e
  /\ \A i, j \in 1 .. Len(s) : s[i] = s[j] => i = j

\* The counters are those of the items.
CountersOK(r) ==
  /\ Accounted(r.queue, r.queuedBytes)
  /\ \E s \in Seq(Item(Ids)) :
       Lists(s, r.active) /\ Len(s) = r.inFlight /\ Accounted(s, r.inFlightBytes)

OneEach(r) ==
  /\ \A i, j \in 1 .. Len(r.queue) : r.queue[i].id = r.queue[j].id => i = j
  /\ \A d, e \in r.active : d.id = e.id => d = e
  /\ \A i \in 1 .. Len(r.queue), e \in r.active : r.queue[i].id # e.id

InTurn(r) ==
  MaxInFlight = 1 =>
    /\ \A i, j \in 1 .. Len(r.queue) : i < j => r.queue[i].id < r.queue[j].id
    /\ \A i \in 1 .. Len(r.queue), e \in r.active : e.id < r.queue[i].id

Within(r) ==
  /\ Len(r.queue) + r.inFlight <= MaxItems
  /\ r.inFlight <= MaxInFlight
  /\ r.queuedBytes + r.inFlightBytes <= MaxBytes

QueueOK(r) ==
  /\ r \in QueueType
  /\ CountersOK(r) /\ OneEach(r) /\ InTurn(r) /\ Within(r)
  /\ r.disposed => r.queue = <<>> /\ ~r.retry

\* Every item the queue holds.
Items(r) == {r.queue[i] : i \in 1 .. Len(r.queue)} \cup r.active

-----------------------------------------------------------------------------
(* Sums of bytes *)

(* A non-empty set of naturals has a least element.                        *)
LEMMA LeastNat ==
  ASSUME NEW S, S \subseteq Nat, S # {}
  PROVE  \E k \in S : \A j \in S : k <= j
<1> DEFINE R == OpToRel(<, Nat)
<1>1. IsWellFoundedOn(R, Nat)
  BY NatLessThanWellFounded
<1>2. \A x, y \in Nat : <<x, y>> \in R <=> x < y
  BY DEF OpToRel
<1> HIDE DEF R
<1>3. PICK k \in S : \A j \in S : ~(<<j, k>> \in R)
  BY <1>1, WFMin
<1>4. ASSUME NEW j \in S
      PROVE  k <= j
  <2>1. ~(j < k) /\ j \in Nat /\ k \in Nat
    BY <1>2, <1>3
  <2> QED BY <2>1
<1> QED BY <1>4

\* The sum pump takes off one counter and adds to the other.
SumTo(s, k) ==
  LET Bytes[i \in 0 .. k] == IF i = 0 THEN 0 ELSE Bytes[i - 1] + s[i].bytes
  IN  Bytes[k]

(* pump moves a prefix of the queue with its bytes.                        *)
LEMMA PumpedIs ==
  ASSUME NEW r
  PROVE  LET k == Startable(r) IN
         Pumped(r) = [r EXCEPT !.queue = SubSeq(@, k + 1, Len(@)),
                               !.queuedBytes = @ - SumTo(r.queue, k),
                               !.active = @ \cup {r.queue[i] : i \in 1 .. k},
                               !.inFlight = @ + k,
                               !.inFlightBytes = @ + SumTo(r.queue, k)]
BY DEF Pumped, SumTo

(* The sum is the total of the prefix, in any account of the sequence.     *)
LEMMA SumToIs ==
  ASSUME NEW s, NEW k \in Nat, NEW c,
         c[0] = 0, \A i \in 1 .. k : c[i] = c[i - 1] + s[i].bytes
  PROVE  SumTo(s, k) = c[k]
<1> DEFINE Eq(f) == f = [i \in 0 .. k |-> IF i = 0 THEN 0 ELSE f[i - 1] + s[i].bytes]
           d == [i \in 0 .. k |-> c[i]]
           b == CHOOSE f : Eq(f)
<1>1. Eq(d)
  <2>1. ASSUME NEW i \in 0 .. k
        PROVE  d[i] = IF i = 0 THEN 0 ELSE d[i - 1] + s[i].bytes
    <3>1. CASE i = 0
      BY <3>1
    <3>2. CASE i # 0
      <4>1. i \in 1 .. k /\ i - 1 \in 0 .. k
        BY <3>2
      <4> QED BY <4>1, <3>2
    <3> QED BY <3>1, <3>2
  <2> QED BY <2>1
<1>2. Eq(b)
  <2> HIDE DEF Eq, d
  <2> QED BY <1>1, Zenon
<1>3. SumTo(s, k) = b[k]
  BY Zenon DEF SumTo
<1> HIDE DEF b
<1> DEFINE Wrong == {i \in 0 .. k : b[i] # c[i]}
<1>4. Wrong = {}
  <2> SUFFICES ASSUME Wrong # {} PROVE FALSE
    OBVIOUS
  <2>1. Wrong \subseteq Nat
    OBVIOUS
  <2> HIDE DEF Wrong
  <2>2. PICK i \in Wrong : \A j \in Wrong : i <= j
    BY <2>1, LeastNat
  <2>3. i \in 0 .. k /\ b[i] # c[i] /\ (i # 0 => b[i - 1] = c[i - 1])
    BY <2>2 DEF Wrong
  <2>4. CASE i = 0
    BY <1>2, <2>3, <2>4
  <2>5. CASE i # 0
    BY <1>2, <2>3, <2>5
  <2> QED BY <2>4, <2>5
<1> QED BY <1>3, <1>4

(* What SMT needs of a sequence of items.                                  *)
LEMMA ItemSequence ==
  ASSUME NEW s \in Seq(Item(Ids))
  PROVE  /\ Len(s) \in Nat /\ DOMAIN s = 1 .. Len(s)
         /\ \A i \in 1 .. Len(s) : s[i] \in Item(Ids) /\ s[i].bytes \in Nat \ {0} /\ s[i].id \in Nat
         /\ s = <<>> <=> Len(s) = 0
<1>1. \A e \in Item(Ids) : e.bytes \in Nat \ {0} /\ e.id \in Nat
  BY SidecarQueueAssumption, SidecarQueueBounds DEF Item, Ids
<1>2. Len(s) \in Nat /\ DOMAIN s = 1 .. Len(s) /\ \A i \in 1 .. Len(s) : s[i] \in Item(Ids)
  BY LenProperties, ElementOfSeq
<1>3. s = <<>> <=> Len(s) = 0
  BY EmptySeq
<1> QED BY <1>1, <1>2, <1>3

(* Cutting a sequence in two cuts its bytes in two.                        *)
LEMMA AccountedCut ==
  ASSUME NEW s \in Seq(Item(Ids)), NEW n \in Nat, Accounted(s, n), NEW k \in 0 .. Len(s)
  PROVE  LET a == SubSeq(s, 1, k)
             b == SubSeq(s, k + 1, Len(s))
             m == SumTo(s, k)
         IN  /\ m \in 0 .. n
             /\ a \in Seq(Item(Ids)) /\ Len(a) = k /\ \A i \in 1 .. k : a[i] = s[i]
             /\ b \in Seq(Item(Ids)) /\ Len(b) = Len(s) - k /\ \A i \in 1 .. Len(s) - k : b[i] = s[k + i]
             /\ Accounted(a, m) /\ Accounted(b, n - m)
<1> DEFINE a == SubSeq(s, 1, k)
           b == SubSeq(s, k + 1, Len(s))
<1>1. PICK c \in [0 .. Len(s) -> Nat] :
        /\ c[0] = 0 /\ c[Len(s)] = n
        /\ \A i \in 1 .. Len(s) : c[i] = c[i - 1] + s[i].bytes
        /\ \A i, j \in 0 .. Len(s) : i <= j => c[i] <= c[j]
  BY DEF Accounted
<1>2. Len(s) \in Nat /\ k \in Nat /\ \A i \in 1 .. Len(s) : s[i] \in Item(Ids) /\ s[i].bytes \in Nat
  BY ItemSequence
<1>3. SumTo(s, k) = c[k]
  <2>1. \A i \in 1 .. k : c[i] = c[i - 1] + s[i].bytes
    BY <1>1, <1>2
  <2>2. c[0] = 0 /\ k \in Nat
    BY <1>1, <1>2
  <2> QED BY <2>1, <2>2, SumToIs, SMTT(60)
<1>4. c[k] \in 0 .. n
  BY <1>1, <1>2
<1>5. a \in Seq(Item(Ids)) /\ Len(a) = k /\ \A i \in 1 .. k : a[i] = s[i]
  <2>1. /\ a \in Seq(Item(Ids)) /\ Len(a) = IF 1 <= k THEN k - 1 + 1 ELSE 0
        /\ \A i \in 1 .. k - 1 + 1 : a[i] = s[1 + i - 1]
    BY <1>2, SubSeqProperties
  <2> QED BY <1>2, <2>1
<1>6. b \in Seq(Item(Ids)) /\ Len(b) = Len(s) - k /\ \A i \in 1 .. Len(s) - k : b[i] = s[k + i]
  <2>1. \A i \in k + 1 .. Len(s) : s[i] \in Item(Ids)
    BY <1>2
  <2>2. /\ b \in Seq(Item(Ids))
        /\ Len(b) = IF k + 1 <= Len(s) THEN Len(s) - (k + 1) + 1 ELSE 0
        /\ \A i \in 1 .. Len(s) - (k + 1) + 1 : b[i] = s[(k + 1) + i - 1]
    BY <1>2, <2>1, SubSeqProperties
  <2> QED BY <1>2, <2>2
<1> HIDE DEF a, b
<1>7. Accounted(a, c[k])
  <2> DEFINE d == [i \in 0 .. k |-> c[i]]
  <2>1. d \in [0 .. Len(a) -> Nat] /\ d[0] = 0 /\ d[Len(a)] = c[k]
    BY <1>1, <1>2, <1>5
  <2>2. \A i \in 1 .. k : d[i] = d[i - 1] + a[i].bytes
    BY <1>1, <1>2, <1>5, SMTT(60)
  <2>3. \A i, j \in 0 .. k : i <= j => d[i] <= d[j]
    BY <1>1, <1>2
  <2> HIDE DEF d
  <2> QED BY <1>5, <2>1, <2>2, <2>3 DEF Accounted
<1>8. Accounted(b, n - c[k])
  <2> DEFINE d == [i \in 0 .. Len(s) - k |-> c[k + i] - c[k]]
  <2>1. d \in [0 .. Len(b) -> Nat] /\ d[0] = 0 /\ d[Len(b)] = n - c[k]
    <3>1. ASSUME NEW i \in 0 .. Len(s) - k
          PROVE  c[k + i] \in Nat /\ c[k] <= c[k + i]
      <4>1. k + i \in 0 .. Len(s) /\ k \in 0 .. Len(s) /\ k <= k + i
        BY <1>2
      <4> QED BY <1>1, <4>1
    <3> QED BY <1>1, <1>2, <1>4, <1>6, <3>1
  <2>2. ASSUME NEW i \in 1 .. Len(s) - k
        PROVE  d[i] = d[i - 1] + b[i].bytes
    <3>1. k + i \in 1 .. Len(s) /\ (k + i) - 1 = k + (i - 1) /\ i - 1 \in 0 .. Len(s) - k
      BY <1>2
    <3>2. c[k + i] = c[k + (i - 1)] + b[i].bytes
      BY <1>1, <1>6, <3>1
    <3>3. c[k + i] \in Nat /\ c[k + (i - 1)] \in Nat /\ b[i].bytes \in Nat /\ c[k] \in Nat
      <4>1. k + i \in 0 .. Len(s) /\ k + (i - 1) \in 0 .. Len(s) /\ k \in 0 .. Len(s)
        BY <1>2
      <4>2. b[i].bytes \in Nat
        BY <1>2, <1>6, <3>1
      <4> QED BY <1>1, <4>1, <4>2
    <3> QED BY <3>1, <3>2, <3>3
  <2>3. \A i, j \in 0 .. Len(s) - k : i <= j => d[i] <= d[j]
    <3> SUFFICES ASSUME NEW i \in 0 .. Len(s) - k, NEW j \in 0 .. Len(s) - k, i <= j
                 PROVE  d[i] <= d[j]
      OBVIOUS
    <3>1. k + i \in 0 .. Len(s) /\ k + j \in 0 .. Len(s) /\ k + i <= k + j /\ k \in 0 .. Len(s)
      BY <1>2
    <3>2. c[k + i] \in Nat /\ c[k + j] \in Nat /\ c[k] \in Nat /\ c[k + i] <= c[k + j]
      BY <1>1, <3>1
    <3> QED BY <3>2
  <2> HIDE DEF d
  <2> QED BY <1>6, <2>1, <2>2, <2>3 DEF Accounted
<1> QED BY <1>3, <1>4, <1>5, <1>6, <1>7, <1>8 DEF a, b

(* Concatenating two sequences adds their bytes.                           *)
LEMMA AccountedJoin ==
  ASSUME NEW s \in Seq(Item(Ids)), NEW t \in Seq(Item(Ids)), NEW m \in Nat, NEW n \in Nat,
         Accounted(s, m), Accounted(t, n)
  PROVE  /\ s \o t \in Seq(Item(Ids)) /\ Len(s \o t) = Len(s) + Len(t)
         /\ \A i \in 1 .. Len(s) + Len(t) : (s \o t)[i] = IF i <= Len(s) THEN s[i] ELSE t[i - Len(s)]
         /\ Accounted(s \o t, m + n)
<1> DEFINE u == s \o t
           K == Len(s)
           L == Len(t)
<1>1. /\ u \in Seq(Item(Ids)) /\ Len(u) = K + L
      /\ \A i \in 1 .. K + L : u[i] = IF i <= K THEN s[i] ELSE t[i - K]
  BY ConcatProperties
<1>2. PICK c \in [0 .. K -> Nat] :
        /\ c[0] = 0 /\ c[K] = m
        /\ \A i \in 1 .. K : c[i] = c[i - 1] + s[i].bytes
        /\ \A i, j \in 0 .. K : i <= j => c[i] <= c[j]
  BY DEF Accounted
<1>3. PICK d \in [0 .. L -> Nat] :
        /\ d[0] = 0 /\ d[L] = n
        /\ \A i \in 1 .. L : d[i] = d[i - 1] + t[i].bytes
        /\ \A i, j \in 0 .. L : i <= j => d[i] <= d[j]
  BY DEF Accounted
<1>4. /\ K \in Nat /\ L \in Nat
      /\ \A i \in 1 .. K : s[i].bytes \in Nat
      /\ \A i \in 1 .. L : t[i].bytes \in Nat
  BY ItemSequence
<1> HIDE DEF u, K, L
<1> DEFINE e == [i \in 0 .. K + L |-> IF i <= K THEN c[i] ELSE m + d[i - K]]
<1>5. /\ e \in [0 .. K + L -> Nat]
      /\ \A i \in 0 .. K + L : e[i] = IF i <= K THEN c[i] ELSE m + d[i - K]
  <2>1. ASSUME NEW i \in 0 .. K + L
        PROVE  (IF i <= K THEN c[i] ELSE m + d[i - K]) \in Nat
    <3>1. CASE i <= K
      <4>1. i \in 0 .. K
        BY <1>4, <3>1
      <4> QED BY <1>2, <3>1, <4>1
    <3>2. CASE ~(i <= K)
      <4>1. i - K \in 0 .. L
        BY <1>4, <3>2
      <4>2. d[i - K] \in Nat
        BY <1>3, <4>1
      <4> QED BY <3>2, <4>2
    <3> QED BY <3>1, <3>2
  <2> QED BY <2>1
<1> HIDE DEF e
<1>6. e[0] = 0 /\ e[K + L] = m + n
  <2>1. CASE L = 0
    BY <1>2, <1>3, <1>4, <1>5, <2>1
  <2>2. CASE L # 0
    <3>1. ~(K + L <= K) /\ (K + L) - K = L
      BY <1>4, <2>2
    <3>2. K + L \in 0 .. K + L /\ 0 \in 0 .. K + L /\ 0 <= K
      BY <1>4
    <3> QED BY <1>2, <1>3, <1>5, <3>1, <3>2
  <2> QED BY <2>1, <2>2
<1>7. ASSUME NEW i \in 1 .. K + L
      PROVE  e[i] = e[i - 1] + u[i].bytes
  <2>1. CASE i <= K
    <3>1. i \in 1 .. K /\ i \in 0 .. K + L /\ i - 1 \in 0 .. K + L /\ i - 1 <= K
      BY <1>4, <2>1
    <3>2. e[i] = c[i] /\ e[i - 1] = c[i - 1] /\ u[i] = s[i]
      BY <1>1, <1>5, <2>1, <3>1
    <3> QED BY <1>2, <3>1, <3>2
  <2>2. CASE i = K + 1
    <3>1. i - 1 \in 0 .. K + L /\ i \in 0 .. K + L /\ i - 1 = K /\ i - K = 1 /\ ~(i <= K)
      BY <1>4, <2>2
    <3>2. e[i - 1] = m /\ e[i] = m + d[1] /\ u[i] = t[1]
      <4>1. e[i - 1] = c[K]
        BY <1>4, <1>5, <3>1
      <4>2. e[i] = m + d[1]
        BY <1>5, <3>1
      <4>3. u[i] = t[1]
        BY <1>1, <3>1
      <4> QED BY <1>2, <4>1, <4>2, <4>3
    <3>3. d[1] = 0 + t[1].bytes /\ t[1].bytes \in Nat
      <4>1. 1 \in 1 .. L /\ 1 - 1 = 0
        BY <1>4, <2>2
      <4> QED BY <1>3, <1>4, <4>1
    <3> QED BY <3>2, <3>3
  <2>3. CASE i > K + 1
    <3>1. /\ i - 1 \in 0 .. K + L /\ i \in 0 .. K + L /\ ~(i <= K) /\ ~(i - 1 <= K)
          /\ i - K \in 1 .. L /\ (i - 1) - K = (i - K) - 1 /\ (i - K) - 1 \in 0 .. L
      BY <1>4, <2>3
    <3>2. e[i - 1] = m + d[(i - K) - 1] /\ e[i] = m + d[i - K] /\ u[i] = t[i - K]
      BY <1>1, <1>5, <3>1
    <3>3. d[i - K] = d[(i - K) - 1] + t[i - K].bytes /\ t[i - K].bytes \in Nat /\ d[(i - K) - 1] \in Nat
      BY <1>3, <1>4, <3>1
    <3> QED BY <3>2, <3>3
  <2> QED BY <1>4, <2>1, <2>2, <2>3
<1>8. ASSUME NEW i \in 0 .. K + L, NEW j \in 0 .. K + L, i <= j
      PROVE  e[i] <= e[j]
  <2>1. CASE j <= K
    <3>1. i \in 0 .. K /\ j \in 0 .. K
      BY <1>4, <1>8, <2>1
    <3>2. e[i] = c[i] /\ e[j] = c[j]
      BY <1>4, <1>5, <3>1
    <3> QED BY <1>2, <1>8, <3>1, <3>2
  <2>2. CASE i <= K /\ ~(j <= K)
    <3>1. j - K \in 0 .. L
      BY <1>4, <2>2
    <3>2. c[i] \in Nat /\ d[j - K] \in Nat /\ c[i] <= m
      BY <1>2, <1>3, <1>4, <2>2, <3>1
    <3> QED BY <1>5, <2>2, <3>2
  <2>3. CASE ~(i <= K)
    <3>1. i - K \in 0 .. L /\ j - K \in 0 .. L /\ i - K <= j - K /\ ~(j <= K)
      BY <1>4, <1>8, <2>3
    <3>2. d[i - K] \in Nat /\ d[j - K] \in Nat /\ d[i - K] <= d[j - K]
      BY <1>3, <3>1
    <3> QED BY <1>5, <2>3, <3>1, <3>2
  <2> QED BY <1>4, <1>8, <2>1, <2>2, <2>3
<1>9. Accounted(u, m + n)
  BY <1>1, <1>5, <1>6, <1>7, <1>8 DEF Accounted
<1> QED BY <1>1, <1>9 DEF u, K, L

(* One item accounts for its own bytes, and no item for none.              *)
LEMMA AccountedOne ==
  ASSUME NEW e \in Item(Ids)
  PROVE  /\ <<e>> \in Seq(Item(Ids)) /\ Len(<<e>>) = 1 /\ <<e>>[1] = e
         /\ Accounted(<<e>>, e.bytes)
         /\ \A s \in Seq(Item(Ids)), n \in Nat : Len(s) = 1 /\ s[1] = e /\ Accounted(s, n) => n = e.bytes
<1>1. e.bytes \in Nat
  BY SidecarQueueAssumption DEF Item
<1> DEFINE c == [i \in 0 .. 1 |-> IF i = 0 THEN 0 ELSE e.bytes]
<1>2. c \in [0 .. 1 -> Nat] /\ c[0] = 0 /\ c[1] = e.bytes
  BY <1>1
<1> HIDE DEF c
<1>3. /\ \A i \in 1 .. 1 : c[i] = c[i - 1] + e.bytes
      /\ \A i, j \in 0 .. 1 : i <= j => c[i] <= c[j]
  BY <1>1, <1>2
<1>4. <<e>> \in Seq(Item(Ids)) /\ Len(<<e>>) = 1 /\ <<e>>[1] = e
  OBVIOUS
<1>5. Accounted(<<e>>, e.bytes)
  <2> DEFINE s == <<e>>
  <2>1. Len(s) = 1 /\ \A i \in 1 .. 1 : s[i] = e
    OBVIOUS
  <2> HIDE DEF s
  <2>2. Accounted(s, e.bytes)
    BY <1>2, <1>3, <2>1 DEF Accounted
  <2> QED BY <2>2 DEF s
<1>6. ASSUME NEW s \in Seq(Item(Ids)), NEW n \in Nat, Len(s) = 1, s[1] = e, Accounted(s, n)
      PROVE  n = e.bytes
  <2>1. PICK d \in [0 .. 1 -> Nat] : d[0] = 0 /\ d[1] = n /\ \A i \in 1 .. 1 : d[i] = d[i - 1] + s[i].bytes
    BY <1>6 DEF Accounted
  <2> QED BY <1>1, <1>6, <2>1
<1> QED BY <1>4, <1>5, <1>6

LEMMA AccountedNone == Accounted(<<>>, 0)
<1>1. Len(<<>>) = 0
  OBVIOUS
<1> DEFINE c == [i \in 0 .. 0 |-> 0]
<1>2. c \in [0 .. 0 -> Nat] /\ c[0] = 0 /\ \A i, j \in 0 .. 0 : i <= j => c[i] <= c[j]
  OBVIOUS
<1>3. ASSUME NEW s, Len(s) = 0
      PROVE  Accounted(s, 0)
  <2> HIDE DEF c
  <2> QED BY <1>2, <1>3 DEF Accounted
<1> QED BY <1>1, <1>3

(* Taking one item out of a list of a set takes its bytes off.             *)
LEMMA ListRemove ==
  ASSUME NEW A \in SUBSET Item(Ids), NEW s \in Seq(Item(Ids)), NEW n \in Nat, NEW e \in A,
         Lists(s, A), Accounted(s, n)
  PROVE  /\ n - e.bytes \in Nat /\ Len(s) - 1 \in Nat
         /\ \E t \in Seq(Item(Ids)) : Lists(t, A \ {e}) /\ Len(t) = Len(s) - 1 /\ Accounted(t, n - e.bytes)
<1>1. Len(s) \in Nat
  BY ItemSequence
<1>2. PICK p \in 1 .. Len(s) : s[p] = e
  BY DEF Lists
<1> DEFINE a == SubSeq(s, 1, p - 1)
           r == SubSeq(s, p, Len(s))
           m == SumTo(s, p - 1)
           x == SubSeq(r, 1, 1)
           b == SubSeq(r, 2, Len(r))
           t == a \o b
<1>3. /\ m \in 0 .. n
      /\ a \in Seq(Item(Ids)) /\ Len(a) = p - 1 /\ \A i \in 1 .. p - 1 : a[i] = s[i]
      /\ r \in Seq(Item(Ids)) /\ Len(r) = Len(s) - (p - 1)
      /\ \A i \in 1 .. Len(s) - (p - 1) : r[i] = s[(p - 1) + i]
      /\ Accounted(a, m) /\ Accounted(r, n - m)
  <2>1. p - 1 \in 0 .. Len(s) /\ (p - 1) + 1 = p
    BY <1>1
  <2> HIDE DEF a, r, m
  <2> QED BY <2>1, AccountedCut DEF a, r, m
<1> HIDE DEF a, r, m
<1>4. /\ SumTo(r, 1) \in 0 .. n - m
      /\ x \in Seq(Item(Ids)) /\ Len(x) = 1 /\ x[1] = r[1]
      /\ b \in Seq(Item(Ids)) /\ Len(b) = Len(r) - 1 /\ \A i \in 1 .. Len(r) - 1 : b[i] = r[1 + i]
      /\ Accounted(x, SumTo(r, 1)) /\ Accounted(b, (n - m) - SumTo(r, 1))
  <2>1. 1 \in 0 .. Len(r) /\ 1 + 1 = 2 /\ n - m \in Nat
    BY <1>1, <1>3
  <2> HIDE DEF x, b
  <2>2. \A i \in 1 .. 1 : x[i] = r[i] => x[1] = r[1]
    OBVIOUS
  <2> QED BY <1>3, <2>1, <2>2, AccountedCut, SMTT(60) DEF x, b
<1> HIDE DEF x, b
<1>5. SumTo(r, 1) = e.bytes /\ e \in Item(Ids)
  <2>1. x[1] = e
    <3>1. 1 \in 1 .. Len(s) - (p - 1) /\ (p - 1) + 1 = p
      BY <1>1
    <3> QED BY <1>2, <1>3, <1>4, <3>1
  <2>2. SumTo(r, 1) \in Nat
    BY <1>1, <1>3, <1>4
  <2> QED BY <1>4, <2>1, <2>2, AccountedOne
<1>6. m \in Nat /\ (n - m) - e.bytes \in Nat /\ m + ((n - m) - e.bytes) = n - e.bytes /\ n - e.bytes \in Nat
  <2>1. e.bytes \in Nat
    BY <1>5, SidecarQueueAssumption DEF Item
  <2> QED BY <1>3, <1>4, <1>5, <2>1, SMTT(60)
<1>7. /\ t \in Seq(Item(Ids)) /\ Len(t) = Len(a) + Len(b)
      /\ \A i \in 1 .. Len(a) + Len(b) : t[i] = IF i <= Len(a) THEN a[i] ELSE b[i - Len(a)]
      /\ Accounted(t, n - e.bytes)
  <2>1. PICK w : w = (n - m) - e.bytes /\ w \in Nat
    BY <1>6
  <2>2. Accounted(a, m) /\ Accounted(b, w) /\ m \in Nat /\ m + w = n - e.bytes
    BY <1>3, <1>4, <1>5, <1>6, <2>1
  <2>3. a \in Seq(Item(Ids)) /\ b \in Seq(Item(Ids)) /\ t = a \o b
    BY <1>3, <1>4
  <2> HIDE DEF t
  <2>4. /\ a \o b \in Seq(Item(Ids)) /\ Len(a \o b) = Len(a) + Len(b)
        /\ \A i \in 1 .. Len(a) + Len(b) : (a \o b)[i] = IF i <= Len(a) THEN a[i] ELSE b[i - Len(a)]
        /\ Accounted(a \o b, m + w)
    BY <2>1, <2>2, <2>3, AccountedJoin, ZenonT(60)
  <2> QED BY <2>2, <2>3, <2>4
<1> HIDE DEF t
<1>8. Len(t) = Len(s) - 1 /\ \A i \in 1 .. Len(s) - 1 : t[i] = IF i < p THEN s[i] ELSE s[i + 1]
  <2>1. Len(a) + Len(b) = Len(s) - 1
    BY <1>1, <1>3, <1>4
  <2>2. ASSUME NEW i \in 1 .. Len(s) - 1
        PROVE  t[i] = IF i < p THEN s[i] ELSE s[i + 1]
    <3>1. CASE i < p
      BY <1>1, <1>3, <1>7, <2>1, <3>1
    <3>2. CASE ~(i < p)
      <4>1. /\ ~(i <= Len(a)) /\ i - Len(a) \in 1 .. Len(r) - 1
            /\ 1 + (i - Len(a)) \in 1 .. Len(s) - (p - 1)
            /\ (p - 1) + (1 + (i - Len(a))) = i + 1
        BY <1>1, <1>3, <3>2
      <4>2. t[i] = b[i - Len(a)]
        BY <1>7, <2>1, <4>1
      <4>3. b[i - Len(a)] = r[1 + (i - Len(a))]
        BY <1>4, <4>1
      <4>4. r[1 + (i - Len(a))] = s[i + 1]
        BY <1>3, <4>1
      <4> QED BY <3>2, <4>2, <4>3, <4>4
    <3> QED BY <3>1, <3>2
  <2> QED BY <1>7, <2>1, <2>2
<1>9. Lists(t, A \ {e})
  <2>1. ASSUME NEW i \in 1 .. Len(s) - 1
        PROVE  t[i] \in A \ {e}
    <3>1. i \in 1 .. Len(s) /\ i + 1 \in 1 .. Len(s) /\ (i < p => i # p) /\ (~(i < p) => i + 1 # p)
      BY <1>1
    <3> QED BY <1>2, <1>8, <3>1 DEF Lists
  <2>2. ASSUME NEW d \in A \ {e}
        PROVE  \E i \in 1 .. Len(s) - 1 : t[i] = d
    <3>1. PICK i \in 1 .. Len(s) : s[i] = d
      BY DEF Lists
    <3>2. CASE i < p
      <4>1. i \in 1 .. Len(s) - 1 /\ t[i] = d
        BY <1>1, <1>8, <3>1, <3>2
      <4> QED BY <4>1
    <3>3. CASE i > p
      <4>1. i - 1 \in 1 .. Len(s) - 1 /\ ~(i - 1 < p) /\ (i - 1) + 1 = i
        BY <1>1, <3>3
      <4>2. t[i - 1] = d
        BY <1>8, <3>1, <4>1
      <4> QED BY <4>1, <4>2
    <3> QED BY <1>1, <1>2, <3>1, <3>2, <3>3
  <2>3. ASSUME NEW i \in 1 .. Len(s) - 1, NEW j \in 1 .. Len(s) - 1, t[i] = t[j]
        PROVE  i = j
    <3> DEFINE f(k) == IF k < p THEN k ELSE k + 1
    <3>1. f(i) \in 1 .. Len(s) /\ f(j) \in 1 .. Len(s) /\ (f(i) = f(j) => i = j)
      BY <1>1
    <3>2. t[i] = s[f(i)] /\ t[j] = s[f(j)]
      BY <1>8
    <3> HIDE DEF f
    <3> QED BY <2>3, <3>1, <3>2 DEF Lists
  <2> QED BY <1>8, <2>1, <2>2, <2>3 DEF Lists
<1> QED BY <1>1, <1>2, <1>6, <1>7, <1>8, <1>9

-----------------------------------------------------------------------------
(* The operators of SidecarQueueState keep QueueOK *)

LEMMA QueueFacts ==
  ASSUME NEW r \in QueueType
  PROVE  /\ r.queue \in Seq(Item(Ids)) /\ Len(r.queue) \in Nat /\ DOMAIN r.queue = 1 .. Len(r.queue)
         /\ \A i \in 1 .. Len(r.queue) : r.queue[i] \in Item(Ids)
         /\ r.queue = <<>> <=> Len(r.queue) = 0
         /\ r.active \in SUBSET Item(Ids)
         /\ r.queuedBytes \in Nat /\ r.inFlight \in Nat /\ r.inFlightBytes \in Nat
         /\ r.retry \in BOOLEAN /\ r.disposed \in BOOLEAN
         /\ Items(r) \subseteq Item(Ids)
<1>1. r.queue \in Seq(Item(Ids)) /\ r.active \in SUBSET Item(Ids)
  BY DEF QueueType
<1>2. /\ Len(r.queue) \in Nat /\ DOMAIN r.queue = 1 .. Len(r.queue) /\ (r.queue = <<>> <=> Len(r.queue) = 0)
      /\ \A i \in 1 .. Len(r.queue) : r.queue[i] \in Item(Ids)
  BY <1>1, ItemSequence
<1> QED BY <1>1, <1>2 DEF QueueType, Items

LEMMA ItemFacts ==
  ASSUME NEW e \in Item(Ids)
  PROVE  e.id \in Ids /\ e.id \in Nat /\ e.key \in Kinds /\ e.bytes \in Nat \ {0} /\ e.attempts \in 0 .. MaxAttempts - 1
BY SidecarQueueAssumption, SidecarQueueBounds DEF Item, Ids

\* pump starts the head of the queue, as long as there are free slots.
LEMMA PumpedOK ==
  ASSUME NEW r, QueueOK(r)
  PROVE  /\ QueueOK(Pumped(r)) /\ Items(Pumped(r)) = Items(r)
         /\ Pumped(r).disposed = r.disposed /\ Pumped(r).retry = r.retry
         /\ Idle(Pumped(r)) => Idle(r)
<1> DEFINE k == Startable(r)
           Q == r.queue
           L == Len(Q)
           m == SumTo(Q, k)
           a == SubSeq(Q, 1, k)
           b == SubSeq(Q, k + 1, L)
           p == Pumped(r)
<1>1. /\ r \in QueueType /\ Q \in Seq(Item(Ids)) /\ L \in Nat /\ r.active \in SUBSET Item(Ids)
      /\ r.queuedBytes \in Nat /\ r.inFlight \in Nat /\ r.inFlightBytes \in Nat
      /\ \A i \in 1 .. L : Q[i] \in Item(Ids)
      /\ Q = <<>> <=> L = 0
      /\ r.retry \in BOOLEAN /\ r.disposed \in BOOLEAN
  BY QueueFacts DEF QueueOK
<1>2. /\ k \in 0 .. L /\ (k > 0 => ~r.retry /\ ~r.disposed)
      /\ r.inFlight + k <= MaxInFlight
  BY <1>1, SidecarQueueAssumption, SMTT(60) DEF Startable, QueueOK, Within
<1>3. /\ m \in 0 .. r.queuedBytes
      /\ a \in Seq(Item(Ids)) /\ Len(a) = k /\ \A i \in 1 .. k : a[i] = Q[i]
      /\ b \in Seq(Item(Ids)) /\ Len(b) = L - k /\ \A i \in 1 .. L - k : b[i] = Q[k + i]
      /\ Accounted(a, m) /\ Accounted(b, r.queuedBytes - m)
  <2> HIDE DEF k, m, a, b, L, Q
  <2>1. Accounted(Q, r.queuedBytes)
    BY DEF QueueOK, CountersOK, Q
  <2> QED BY <1>1, <1>2, <2>1, AccountedCut DEF m, a, b, L
<1>4. /\ p = [r EXCEPT !.queue = b, !.queuedBytes = @ - m, !.active = @ \cup {Q[i] : i \in 1 .. k},
                       !.inFlight = @ + k, !.inFlightBytes = @ + m]
  BY PumpedIs
<1> HIDE DEF k, m, a, b, L, p
<1>5. /\ p.queue = b /\ p.queuedBytes = r.queuedBytes - m
      /\ p.active = r.active \cup {Q[i] : i \in 1 .. k}
      /\ p.inFlight = r.inFlight + k /\ p.inFlightBytes = r.inFlightBytes + m
      /\ p.disposed = r.disposed /\ p.retry = r.retry
      /\ p \in QueueType
  <2>1. /\ b \in Seq(Item(Ids)) /\ r.queuedBytes - m \in Nat /\ r.inFlight + k \in Nat
        /\ r.inFlightBytes + m \in Nat
        /\ r.active \cup {Q[i] : i \in 1 .. k} \in SUBSET Item(Ids)
    <3>1. \A i \in 1 .. k : i \in 1 .. L
      BY <1>1, <1>2
    <3>2. r.active \cup {Q[i] : i \in 1 .. k} \in SUBSET Item(Ids)
      BY <1>1, <3>1
    <3>3. r.queuedBytes - m \in Nat /\ r.inFlight + k \in Nat /\ r.inFlightBytes + m \in Nat
      BY <1>1, <1>2, <1>3, SMTT(60)
    <3> QED BY <1>3, <3>2, <3>3
  <2> QED BY <1>1, <1>4, <2>1 DEF QueueType
<1>6. \A i \in 1 .. L - k : k + i \in 1 .. L /\ b[i] = Q[k + i]
  BY <1>1, <1>2, <1>3
<1>7. OneEach(p)
  <2>1. OneEach(r)
    BY DEF QueueOK
  <2>2. \A i, j \in 1 .. L - k : b[i].id = b[j].id => i = j
    BY <1>1, <1>2, <1>6, <2>1 DEF OneEach, L
  <2>3. \A d, e \in p.active : d.id = e.id => d = e
    BY <1>1, <1>2, <1>5, <2>1 DEF OneEach, L
  <2>4. \A i \in 1 .. L - k, e \in p.active : b[i].id # e.id
    <3> SUFFICES ASSUME NEW i \in 1 .. L - k, NEW e \in p.active PROVE b[i].id # e.id
      OBVIOUS
    <3>1. CASE e \in r.active
      BY <1>6, <2>1, <3>1 DEF OneEach, L
    <3>2. CASE e \notin r.active
      <4>1. PICK j \in 1 .. k : e = Q[j]
        BY <1>5, <3>2
      <4>2. j \in 1 .. L /\ j # k + i
        BY <1>1, <1>2, <4>1
      <4> QED BY <1>6, <2>1, <4>1, <4>2 DEF OneEach, L
    <3> QED BY <3>1, <3>2
  <2> QED BY <1>3, <1>5, <2>2, <2>3, <2>4 DEF OneEach
<1>8. PICK s \in Seq(Item(Ids)) : Lists(s, r.active) /\ Len(s) = r.inFlight /\ Accounted(s, r.inFlightBytes)
  BY DEF QueueOK, CountersOK
<1>9. CountersOK(p)
  <2> DEFINE t == s \o a
  <2>1. /\ t \in Seq(Item(Ids)) /\ Len(t) = r.inFlight + k
        /\ \A i \in 1 .. r.inFlight + k : t[i] = IF i <= r.inFlight THEN s[i] ELSE a[i - r.inFlight]
        /\ Accounted(t, r.inFlightBytes + m)
    <3>1. m \in Nat
      BY <1>3
    <3>2. /\ t \in Seq(Item(Ids)) /\ Len(t) = Len(s) + Len(a)
          /\ \A i \in 1 .. Len(s) + Len(a) : t[i] = IF i <= Len(s) THEN s[i] ELSE a[i - Len(s)]
          /\ Accounted(t, r.inFlightBytes + m)
      <4>1. a \in Seq(Item(Ids)) /\ Accounted(a, m) /\ r.inFlightBytes \in Nat /\ Accounted(s, r.inFlightBytes)
        BY <1>1, <1>3, <1>8
      <4> QED BY <3>1, <4>1, AccountedJoin
    <3> HIDE DEF t
    <3> QED BY <1>3, <1>8, <3>2
  <2> HIDE DEF t
  <2>2. \A i \in 1 .. r.inFlight : i \in 1 .. r.inFlight + k /\ t[i] = s[i] /\ s[i] \in r.active
    BY <1>1, <1>2, <1>8, <2>1 DEF Lists
  <2>3. \A j \in 1 .. k : j + r.inFlight \in 1 .. r.inFlight + k /\ t[j + r.inFlight] = Q[j]
    <3> SUFFICES ASSUME NEW j \in 1 .. k PROVE j + r.inFlight \in 1 .. r.inFlight + k /\ t[j + r.inFlight] = Q[j]
      OBVIOUS
    <3>1. j + r.inFlight \in 1 .. r.inFlight + k /\ ~(j + r.inFlight <= r.inFlight) /\ (j + r.inFlight) - r.inFlight = j
      BY <1>1, <1>2
    <3> QED BY <1>3, <2>1, <3>1
  <2>4. ASSUME NEW i \in 1 .. r.inFlight + k
        PROVE  i \in 1 .. r.inFlight \/ \E j \in 1 .. k : i = j + r.inFlight
    <3>1. CASE ~(i <= r.inFlight)
      <4>1. i - r.inFlight \in 1 .. k /\ i = (i - r.inFlight) + r.inFlight
        BY <1>1, <1>2, <3>1
      <4> QED BY <4>1
    <3> QED BY <1>1, <1>2, <3>1
  <2>5. \A i \in 1 .. r.inFlight + k : t[i] \in p.active
    BY <1>5, <2>2, <2>3, <2>4
  <2>6. \A e \in p.active : \E i \in 1 .. r.inFlight + k : t[i] = e
    <3> SUFFICES ASSUME NEW e \in p.active PROVE \E i \in 1 .. r.inFlight + k : t[i] = e
      OBVIOUS
    <3>1. CASE e \in r.active
      BY <1>8, <2>2, <3>1 DEF Lists
    <3>2. CASE e \notin r.active
      BY <1>5, <2>3, <3>2
    <3> QED BY <3>1, <3>2
  <2>7. ASSUME NEW i \in 1 .. r.inFlight + k, NEW j \in 1 .. r.inFlight + k, t[i] = t[j]
        PROVE  i = j
    <3>1. OneEach(r)
      BY DEF QueueOK
    <3>2. CASE i \in 1 .. r.inFlight /\ j \in 1 .. r.inFlight
      BY <1>8, <2>2, <2>7, <3>2 DEF Lists
    <3>3. \A x \in 1 .. r.inFlight, y \in 1 .. k : t[x] # t[y + r.inFlight]
      <4> SUFFICES ASSUME NEW x \in 1 .. r.inFlight, NEW y \in 1 .. k PROVE t[x] # t[y + r.inFlight]
        OBVIOUS
      <4>1. y \in 1 .. L /\ t[x] \in r.active /\ t[y + r.inFlight] = Q[y]
        BY <1>1, <1>2, <2>2, <2>3
      <4> QED BY <3>1, <4>1 DEF OneEach, L
    <3>4. ASSUME NEW x \in 1 .. k, NEW y \in 1 .. k, i = x + r.inFlight, j = y + r.inFlight
          PROVE  i = j
      <4>1. x \in 1 .. L /\ y \in 1 .. L
        BY <1>1, <1>2
      <4>2. t[x + r.inFlight] = t[y + r.inFlight]
        BY <2>7, <3>4
      <4>3. Q[x] = Q[y]
        BY <2>3, <4>2
      <4> QED BY <3>1, <3>4, <4>1, <4>3 DEF OneEach, L
    <3> QED BY <2>4, <2>7, <3>2, <3>3, <3>4
  <2>8. Lists(t, p.active)
    BY <2>1, <2>5, <2>6, <2>7 DEF Lists
  <2> QED BY <1>3, <1>5, <2>1, <2>8 DEF CountersOK
<1>10. InTurn(p)
  <2> SUFFICES ASSUME MaxInFlight = 1 PROVE InTurn(p)
    BY DEF InTurn
  <2>1. InTurn(r)
    BY DEF QueueOK
  <2>2. ASSUME NEW i \in 1 .. L - k, NEW j \in 1 .. L - k, i < j
        PROVE  b[i].id < b[j].id
    <3>1. k + i \in 1 .. L /\ k + j \in 1 .. L /\ k + i < k + j
      BY <1>1, <1>2, <2>2
    <3> QED BY <1>6, <2>1, <3>1 DEF InTurn, L
  <2>3. ASSUME NEW i \in 1 .. L - k, NEW e \in p.active
        PROVE  e.id < b[i].id
    <3>1. CASE e \in r.active
      BY <1>6, <2>1, <3>1 DEF InTurn, L
    <3>2. CASE e \notin r.active
      <4>1. PICK j \in 1 .. k : e = Q[j]
        BY <1>5, <3>2
      <4>2. j \in 1 .. L /\ j < k + i
        BY <1>1, <1>2, <4>1
      <4> QED BY <1>6, <2>1, <4>1, <4>2 DEF InTurn, L
    <3> QED BY <3>1, <3>2
  <2> QED BY <1>3, <1>5, <2>2, <2>3 DEF InTurn
<1>11. Within(p)
  <2>1. Within(r)
    BY DEF QueueOK
  <2>2. Len(p.queue) = L - k /\ L + r.inFlight <= MaxItems /\ r.queuedBytes + r.inFlightBytes <= MaxBytes
    BY <1>3, <1>5, <2>1 DEF Within, L
  <2>3. (L - k) + (r.inFlight + k) = L + r.inFlight
    BY <1>1, <1>2
  <2>4. (r.queuedBytes - m) + (r.inFlightBytes + m) = r.queuedBytes + r.inFlightBytes
    BY <1>1, <1>3
  <2> QED BY <1>2, <1>5, <2>2, <2>3, <2>4 DEF Within
<1>12. p.disposed => p.queue = <<>> /\ ~p.retry
  <2> SUFFICES ASSUME p.disposed PROVE p.queue = <<>> /\ ~p.retry
    OBVIOUS
  <2>1. Q = <<>> /\ ~r.retry
    BY <1>5 DEF QueueOK
  <2>2. Len(b) = 0
    BY <1>1, <1>2, <1>3, <2>1
  <2> QED BY <1>3, <1>5, <2>1, <2>2, ItemSequence
<1>13. Items(p) = Items(r)
  <2>1. Items(p) = {b[i] : i \in 1 .. L - k} \cup p.active
    BY <1>3, <1>5 DEF Items
  <2>2. \A i \in 1 .. k : i \in 1 .. L
    BY <1>1, <1>2
  <2>3. \A i \in 1 .. L : i \in 1 .. k \/ \E j \in 1 .. L - k : i = k + j
    <3> SUFFICES ASSUME NEW i \in 1 .. L, i \notin 1 .. k PROVE \E j \in 1 .. L - k : i = k + j
      OBVIOUS
    <3>1. i - k \in 1 .. L - k /\ i = k + (i - k)
      BY <1>1, <1>2
    <3> QED BY <3>1
  <2>4. Items(r) = {Q[i] : i \in 1 .. L} \cup r.active
    BY DEF Items, L
  <2>5. Items(p) \subseteq Items(r)
    BY <1>5, <1>6, <2>1, <2>2, <2>4
  <2>6. Items(r) \subseteq Items(p)
    BY <1>5, <1>6, <2>1, <2>3, <2>4
  <2> QED BY <2>5, <2>6
<1>14. Idle(p) => Idle(r)
  <2> SUFFICES ASSUME Idle(p) PROVE Idle(r)
    OBVIOUS
  <2>1. Len(b) = 0 /\ r.inFlight + k = 0
    BY <1>5 DEF Idle
  <2>2. L = 0 /\ r.inFlight = 0
    BY <1>1, <1>2, <1>3, <2>1
  <2> QED BY <1>1, <2>2 DEF Idle
<1> QED BY <1>5, <1>7, <1>9, <1>10, <1>11, <1>12, <1>13, <1>14 DEF QueueOK, p

\* A handler that ends gives back its slot and its bytes.
LEMMA EndedOK ==
  ASSUME NEW r, QueueOK(r), NEW e \in r.active
  PROVE  LET p == Ended(r, e) IN
         /\ QueueOK(p) /\ Items(p) = Items(r) \ {e}
         /\ p.queue = r.queue /\ p.active = r.active \ {e} /\ p.inFlight = r.inFlight - 1
         /\ p.queuedBytes = r.queuedBytes /\ p.inFlightBytes = r.inFlightBytes - e.bytes
         /\ p.disposed = r.disposed /\ p.retry = r.retry
         /\ r.inFlight \in Nat \ {0}
         /\ MaxInFlight = 1 => r.active = {e}
<1> DEFINE p == Ended(r, e)
<1>1. /\ r \in QueueType /\ r.queue \in Seq(Item(Ids)) /\ Len(r.queue) \in Nat
      /\ \A i \in 1 .. Len(r.queue) : r.queue[i] \in Item(Ids)
      /\ r.active \in SUBSET Item(Ids) /\ r.inFlightBytes \in Nat /\ r.queuedBytes \in Nat /\ r.inFlight \in Nat
  BY QueueFacts DEF QueueOK
<1>2. PICK s \in Seq(Item(Ids)) : Lists(s, r.active) /\ Len(s) = r.inFlight /\ Accounted(s, r.inFlightBytes)
  BY DEF QueueOK, CountersOK
<1>3. /\ r.inFlightBytes - e.bytes \in Nat /\ r.inFlight - 1 \in Nat
      /\ \E t \in Seq(Item(Ids)) : /\ Lists(t, r.active \ {e}) /\ Len(t) = r.inFlight - 1
                                   /\ Accounted(t, r.inFlightBytes - e.bytes)
  BY <1>1, <1>2, ListRemove, ZenonT(60)
<1>4. /\ p.queue = r.queue /\ p.active = r.active \ {e} /\ p.inFlight = r.inFlight - 1
      /\ p.queuedBytes = r.queuedBytes /\ p.inFlightBytes = r.inFlightBytes - e.bytes
      /\ p.disposed = r.disposed /\ p.retry = r.retry /\ p \in QueueType
  BY <1>1, <1>3 DEF Ended, QueueType
<1> HIDE DEF p
<1>5. CountersOK(p)
  BY <1>3, <1>4 DEF CountersOK, QueueOK
<1>6. OneEach(p) /\ InTurn(p)
  BY <1>4 DEF OneEach, InTurn, QueueOK
<1>7. Within(p)
  <2>1. e.bytes \in Nat
    BY <1>1, ItemFacts
  <2>2. /\ Len(r.queue) + r.inFlight <= MaxItems /\ r.inFlight <= MaxInFlight
        /\ r.queuedBytes + r.inFlightBytes <= MaxBytes
    BY DEF QueueOK, Within
  <2>3. MaxItems \in Nat /\ MaxBytes \in Nat /\ MaxInFlight \in Nat
    BY SidecarQueueAssumption
  <2>4. Len(r.queue) + (r.inFlight - 1) <= MaxItems /\ r.inFlight - 1 <= MaxInFlight
    BY <1>1, <2>2, <2>3
  <2>5. r.queuedBytes + (r.inFlightBytes - e.bytes) <= MaxBytes
    BY <1>1, <2>1, <2>2, <2>3
  <2> QED BY <1>4, <2>4, <2>5 DEF Within
<1>8. Items(p) = Items(r) \ {e}
  <2>1. \A i \in 1 .. Len(r.queue) : r.queue[i] # e
    BY DEF QueueOK, OneEach
  <2> QED BY <1>4, <2>1 DEF Items
<1>9. MaxInFlight = 1 => r.active = {e}
  <2> SUFFICES ASSUME MaxInFlight = 1, NEW d \in r.active PROVE d = e
    OBVIOUS
  <2>1. \A i, j \in 1 .. r.inFlight : i = j
    BY <1>1 DEF QueueOK, Within
  <2> QED BY <1>2, <2>1 DEF Lists
<1>10. r.inFlight \in Nat \ {0}
  BY <1>1, <1>3
<1> QED BY <1>4, <1>5, <1>6, <1>7, <1>8, <1>9, <1>10 DEF QueueOK, p

\* A failed event waits again, at the head and with its bytes.
LEMMA RequeuedOK ==
  ASSUME NEW r, QueueOK(r), NEW e \in r.active, ~r.disposed, ~Poison(r, e)
  PROVE  LET p == Requeued(r, e) IN
         /\ QueueOK(p) /\ p.queue # <<>> /\ p.disposed = r.disposed
         /\ Items(p) = (Items(r) \ {e}) \cup {[e EXCEPT !.attempts = @ + 1]}
<1> DEFINE x == Ended(r, e)
           f == [e EXCEPT !.attempts = @ + 1]
           Q == <<f>> \o r.queue
           L == Len(r.queue)
           p == Requeued(r, e)
<1>1. /\ QueueOK(x) /\ Items(x) = Items(r) \ {e}
      /\ x.queue = r.queue /\ x.active = r.active \ {e} /\ x.inFlight = r.inFlight - 1
      /\ x.queuedBytes = r.queuedBytes /\ x.inFlightBytes = r.inFlightBytes - e.bytes
      /\ x.disposed = r.disposed /\ x.retry = r.retry
      /\ r.inFlight \in Nat \ {0}
      /\ MaxInFlight = 1 => r.active = {e}
  BY EndedOK
<1>2. /\ r \in QueueType /\ r.queue \in Seq(Item(Ids)) /\ L \in Nat
      /\ \A i \in 1 .. L : r.queue[i] \in Item(Ids)
      /\ r.active \in SUBSET Item(Ids) /\ r.queuedBytes \in Nat /\ r.inFlightBytes \in Nat
      /\ r.disposed \in BOOLEAN
  BY QueueFacts DEF QueueOK
<1>3. e \in Item(Ids) /\ e.bytes \in Nat /\ e.attempts \in Nat
  BY <1>2, ItemFacts
<1>4. f \in Item(Ids) /\ f.id = e.id /\ f.key = e.key /\ f.bytes = e.bytes
  BY <1>3, SidecarQueueAssumption DEF Item, Poison
<1> HIDE DEF f, x
<1>5. /\ Q \in Seq(Item(Ids)) /\ Len(Q) = L + 1 /\ Q[1] = f
      /\ \A i \in 1 .. L : Q[i + 1] = r.queue[i]
      /\ Accounted(Q, r.queuedBytes + e.bytes)
  <2>1. <<f>> \in Seq(Item(Ids)) /\ Len(<<f>>) = 1 /\ <<f>>[1] = f /\ Accounted(<<f>>, e.bytes)
    BY <1>4, AccountedOne
  <2>2. Accounted(r.queue, r.queuedBytes)
    BY DEF QueueOK, CountersOK
  <2>3. /\ Q \in Seq(Item(Ids)) /\ Len(Q) = 1 + L
        /\ \A i \in 1 .. 1 + L : Q[i] = IF i <= 1 THEN f ELSE r.queue[i - 1]
        /\ Accounted(Q, e.bytes + r.queuedBytes)
    <3> DEFINE o == <<f>>
    <3>1. o \in Seq(Item(Ids)) /\ Len(o) = 1 /\ o[1] = f /\ Accounted(o, e.bytes)
      BY <2>1
    <3> HIDE DEF o
    <3>2. /\ o \o r.queue \in Seq(Item(Ids)) /\ Len(o \o r.queue) = Len(o) + Len(r.queue)
          /\ \A i \in 1 .. Len(o) + Len(r.queue) :
               (o \o r.queue)[i] = IF i <= Len(o) THEN o[i] ELSE r.queue[i - Len(o)]
          /\ Accounted(o \o r.queue, e.bytes + r.queuedBytes)
      BY <1>2, <1>3, <2>2, <3>1, AccountedJoin
    <3>3. Q = o \o r.queue
      BY DEF o
    <3> HIDE DEF Q
    <3>4. ASSUME NEW i \in 1 .. 1 + L
          PROVE  Q[i] = IF i <= 1 THEN f ELSE r.queue[i - 1]
      <4>1. i <= 1 => i = 1
        BY <1>2
      <4> QED BY <3>1, <3>2, <3>3, <4>1
    <3> QED BY <3>1, <3>2, <3>3, <3>4
  <2> HIDE DEF Q
  <2>4. \A i \in 1 .. L : i + 1 \in 1 .. 1 + L /\ ~(i + 1 <= 1) /\ (i + 1) - 1 = i
    BY <1>2
  <2>5. 1 \in 1 .. 1 + L /\ 1 + L = L + 1 /\ e.bytes + r.queuedBytes = r.queuedBytes + e.bytes
    BY <1>2, <1>3
  <2> QED BY <2>3, <2>4, <2>5
<1>6. p = [x EXCEPT !.queue = Q, !.queuedBytes = @ + e.bytes, !.retry = TRUE]
  BY <1>1 DEF Requeued, x, f
<1> HIDE DEF Q, p
<1>7. /\ p.queue = Q /\ p.queuedBytes = r.queuedBytes + e.bytes /\ p.retry = TRUE
      /\ p.active = x.active /\ p.inFlight = x.inFlight /\ p.inFlightBytes = x.inFlightBytes
      /\ p.disposed = r.disposed /\ p \in QueueType
  <2>1. x \in QueueType /\ r.queuedBytes + e.bytes \in Nat
    BY <1>1, <1>2, <1>3 DEF QueueOK
  <2> QED BY <1>1, <1>5, <1>6, <2>1 DEF QueueType
<1>8. ASSUME NEW i \in 1 .. L + 1
      PROVE  i = 1 \/ \E j \in 1 .. L : i = j + 1
  <2>1. CASE i # 1
    <3>1. i - 1 \in 1 .. L /\ i = (i - 1) + 1
      BY <1>2, <2>1
    <3> QED BY <3>1
  <2> QED BY <2>1
<1>9. \A i \in 1 .. L : i + 1 \in 1 .. L + 1
  BY <1>2
<1>10. CountersOK(p)
  BY <1>1, <1>5, <1>7 DEF CountersOK, QueueOK
<1>11. /\ \A i \in 1 .. L : r.queue[i].id # e.id
       /\ \A d \in x.active : d.id # e.id
  BY <1>1 DEF QueueOK, OneEach
<1>12. OneEach(p)
  <2>1. ASSUME NEW i \in 1 .. L + 1, NEW j \in 1 .. L + 1, Q[i].id = Q[j].id
        PROVE  i = j
    <3>1. \A b \in 1 .. L : Q[1].id # Q[b + 1].id
      BY <1>4, <1>5, <1>11
    <3>a. CASE i = 1
      BY <1>8, <2>1, <3>1, <3>a
    <3>b. CASE j = 1
      BY <1>8, <2>1, <3>1, <3>b
    <3>2. ASSUME NEW a \in 1 .. L, NEW b \in 1 .. L, i = a + 1, j = b + 1
          PROVE  i = j
      <4>1. r.queue[a].id = r.queue[b].id
        BY <1>5, <2>1, <3>2
      <4> QED BY <3>2, <4>1 DEF QueueOK, OneEach
    <3> QED BY <1>8, <3>a, <3>b, <3>2
  <2>2. ASSUME NEW i \in 1 .. L + 1, NEW d \in p.active
        PROVE  Q[i].id # d.id
    <3>1. CASE i = 1
      BY <1>4, <1>5, <1>7, <1>11, <3>1
    <3>2. ASSUME NEW j \in 1 .. L, i = j + 1
          PROVE  Q[i].id # d.id
      BY <1>1, <1>5, <1>7, <3>2, SMTT(60) DEF QueueOK, OneEach
    <3> QED BY <1>8, <3>1, <3>2
  <2>3. \A c, d \in p.active : c.id = d.id => c = d
    BY <1>1, <1>7 DEF QueueOK, OneEach
  <2> QED BY <1>5, <1>7, <2>1, <2>2, <2>3 DEF OneEach
<1>13. InTurn(p)
  <2> SUFFICES ASSUME MaxInFlight = 1 PROVE InTurn(p)
    BY DEF InTurn
  <2>1. p.active = {}
    BY <1>1, <1>7
  <2>2. InTurn(r)
    BY DEF QueueOK
  <2>3. \A j \in 1 .. L : f.id < r.queue[j].id
    BY <1>4, <2>2 DEF InTurn
  <2>4. ASSUME NEW i \in 1 .. L + 1, NEW j \in 1 .. L + 1, i < j
        PROVE  Q[i].id < Q[j].id
    <3>1. CASE i = 1
      <4>1. j # 1
        BY <1>2, <2>4, <3>1
      <4>2. PICK b \in 1 .. L : j = b + 1
        BY <1>8, <4>1
      <4> QED BY <1>5, <2>3, <3>1, <4>2
    <3>2. CASE i # 1
      <4>1. PICK a \in 1 .. L : i = a + 1
        BY <1>8, <3>2
      <4>2. PICK b \in 1 .. L : j = b + 1
        BY <1>2, <1>8, <2>4
      <4>3. a < b
        BY <2>4, <4>1, <4>2
      <4> QED BY <1>5, <2>2, <4>1, <4>2, <4>3 DEF InTurn
    <3> QED BY <3>1, <3>2
  <2> QED BY <1>5, <1>7, <2>1, <2>4 DEF InTurn
<1>14. Within(p)
  <2>1. Len(p.queue) = L + 1
    BY <1>5, <1>7
  <2>2. (L + 1) + (r.inFlight - 1) = L + r.inFlight
    BY <1>1, <1>2
  <2>3. (r.queuedBytes + e.bytes) + (r.inFlightBytes - e.bytes) = r.queuedBytes + r.inFlightBytes
    BY <1>2, <1>3
  <2>4. Within(r) /\ Within(x)
    BY <1>1 DEF QueueOK
  <2> QED BY <1>1, <1>7, <2>1, <2>2, <2>3, <2>4 DEF Within
<1>15. Items(p) = (Items(r) \ {e}) \cup {f}
  <2>1. Items(p) = {Q[i] : i \in 1 .. L + 1} \cup x.active
    BY <1>5, <1>7 DEF Items
  <2>2. Items(x) = {r.queue[i] : i \in 1 .. L} \cup x.active
    BY <1>1 DEF Items
  <2>3. 1 \in 1 .. L + 1
    BY <1>2
  <2>4. {Q[i] : i \in 1 .. L + 1} = {f} \cup {r.queue[i] : i \in 1 .. L}
    <3>1. \A i \in 1 .. L + 1 : Q[i] = f \/ \E j \in 1 .. L : Q[i] = r.queue[j]
      BY <1>5, <1>8
    <3>2. \A j \in 1 .. L : \E i \in 1 .. L + 1 : Q[i] = r.queue[j]
      BY <1>5, <1>9
    <3>3. \E i \in 1 .. L + 1 : Q[i] = f
      BY <1>5, <2>3
    <3> HIDE DEF L
    <3> QED BY <3>1, <3>2, <3>3
  <2> QED BY <1>1, <2>1, <2>2, <2>4
<1>16. p.queue # <<>>
  <2>1. L + 1 # 0
    BY <1>2
  <2> QED BY <1>5, <1>7, <2>1, ItemSequence
<1> QED BY <1>7, <1>10, <1>12, <1>13, <1>14, <1>15, <1>16 DEF QueueOK, p, f

\* A snapshot takes the place of the last waiting one and of its bytes.
LEMMA AccountedReplace ==
  ASSUME NEW s \in Seq(Item(Ids)), NEW n \in Nat, Accounted(s, n), Len(s) # 0, NEW e \in Item(Ids)
  PROVE  LET t == [s EXCEPT ![Len(s)] = e] IN
         /\ t \in Seq(Item(Ids)) /\ Len(t) = Len(s) /\ t[Len(s)] = e
         /\ \A i \in 1 .. Len(s) - 1 : t[i] = s[i]
         /\ n - s[Len(s)].bytes + e.bytes \in Nat
         /\ Accounted(t, n - s[Len(s)].bytes + e.bytes)
<1> DEFINE L == Len(s)
           t == [s EXCEPT ![L] = e]
           m == n - s[L].bytes
           a == m + e.bytes
<1>1. L \in Nat \ {0} /\ L \in 1 .. L /\ s[L].bytes \in Nat /\ e.bytes \in Nat
  BY ItemSequence, ItemFacts
<1>2. t \in Seq(Item(Ids)) /\ Len(t) = L /\ t[L] = e /\ \A i \in 1 .. L - 1 : i \in 1 .. L /\ t[i] = s[i]
  <2>1. t \in Seq(Item(Ids)) /\ Len(t) = L /\ \A i \in 1 .. L : t[i] = IF i = L THEN e ELSE s[i]
    BY <1>1, ExceptSeq
  <2> HIDE DEF t
  <2>2. \A i \in 1 .. L - 1 : i \in 1 .. L /\ i # L
    BY <1>1
  <2> HIDE DEF L
  <2> QED BY <1>1, <2>1, <2>2
<1>3. PICK c \in [0 .. L -> Nat] :
        /\ c[0] = 0 /\ c[L] = n
        /\ \A i \in 1 .. L : c[i] = c[i - 1] + s[i].bytes
        /\ \A i, j \in 0 .. L : i <= j => c[i] <= c[j]
  BY DEF Accounted
<1> HIDE DEF t, L
<1>4. m = c[L - 1] /\ m \in Nat /\ a \in Nat
  <2>1. L - 1 \in 0 .. L /\ L \in 1 .. L
    BY <1>1
  <2>2. c[L - 1] \in Nat /\ n = c[L - 1] + s[L].bytes
    BY <1>3, <2>1
  <2> QED BY <1>1, <2>2, SMTT(60)
<1> HIDE DEF m, a
<1> DEFINE d == [c EXCEPT ![L] = a]
<1>5. d \in [0 .. L -> Nat] /\ d[L] = a /\ \A i \in 0 .. L - 1 : d[i] = c[i]
  BY <1>1, <1>3, <1>4
<1> HIDE DEF d
<1>6. ASSUME NEW i \in 1 .. L
      PROVE  d[i] = d[i - 1] + t[i].bytes
  <2>1. i - 1 \in 0 .. L - 1
    BY <1>1
  <2>2. CASE i = L
    BY <1>2, <1>4, <1>5, <2>1, <2>2 DEF a
  <2>3. CASE i # L
    <3>1. i \in 1 .. L - 1 /\ i \in 0 .. L - 1
      BY <1>1, <2>3
    <3> QED BY <1>2, <1>3, <1>5, <2>1, <3>1
  <2> QED BY <2>2, <2>3
<1>7. ASSUME NEW i \in 0 .. L, NEW j \in 0 .. L, i <= j
      PROVE  d[i] <= d[j]
  <2>1. CASE j # L
    <3>1. i \in 0 .. L - 1 /\ j \in 0 .. L - 1
      BY <1>1, <1>7, <2>1
    <3> QED BY <1>3, <1>5, <1>7, <3>1
  <2>2. CASE j = L /\ i # L
    <3>1. i \in 0 .. L - 1 /\ L - 1 \in 0 .. L /\ i <= L - 1
      BY <1>1, <2>2
    <3>2. c[i] \in Nat /\ c[i] <= m
      BY <1>3, <1>4, <3>1
    <3> QED BY <1>1, <1>4, <1>5, <2>2, <3>1, <3>2 DEF a
  <2>3. CASE j = L /\ i = L
    BY <1>4, <1>5, <2>3
  <2> QED BY <2>1, <2>2, <2>3
<1>8. d[0] = 0
  <2>1. 0 \in 0 .. L - 1
    BY <1>1
  <2> QED BY <1>3, <1>5, <2>1
<1>9. Accounted(t, a)
  BY <1>2, <1>5, <1>6, <1>7, <1>8 DEF Accounted
<1> QED BY <1>2, <1>4, <1>9 DEF t, L, a, m

\* A new event waits at the tail, with its bytes.
LEMMA AccountedAppend ==
  ASSUME NEW s \in Seq(Item(Ids)), NEW n \in Nat, Accounted(s, n), NEW e \in Item(Ids)
  PROVE  LET t == Append(s, e) IN
         /\ t \in Seq(Item(Ids)) /\ Len(t) = Len(s) + 1 /\ t[Len(s) + 1] = e
         /\ \A i \in 1 .. Len(s) : t[i] = s[i]
         /\ Accounted(t, n + e.bytes)
<1> DEFINE o == <<e>>
<1>1. o \in Seq(Item(Ids)) /\ Accounted(o, e.bytes) /\ e.bytes \in Nat
  BY AccountedOne, ItemFacts
<1>2. Append(s, e) = s \o o
  BY AppendIsConcat
<1> HIDE DEF o
<1>3. Accounted(s \o o, n + e.bytes)
  BY <1>1, AccountedJoin
<1>4. /\ Append(s, e) \in Seq(Item(Ids)) /\ Len(Append(s, e)) = Len(s) + 1
      /\ Append(s, e)[Len(s) + 1] = e /\ \A i \in 1 .. Len(s) : Append(s, e)[i] = s[i]
  BY AppendProperties
<1> QED BY <1>2, <1>3, <1>4

\* An accepted event is the newest of the queue: the last waiting one, or
\* alone; a snapshot takes the place of the one it supersedes.
LEMMA AdmittedOK ==
  ASSUME NEW r, QueueOK(r), NEW e \in Item(Ids), Accepts(r, e),
         \A d \in Items(r) : d.id < e.id
  PROVE  LET p == Admitted(r, e) IN
         /\ QueueOK(p) /\ p.disposed = r.disposed
         /\ Items(p) = (IF Coalesces(r, e) THEN Items(r) \ {Last(r.queue)} ELSE Items(r)) \cup {e}
<1> DEFINE Q == r.queue
           L == Len(Q)
<1>1. /\ r \in QueueType /\ Q \in Seq(Item(Ids)) /\ L \in Nat
      /\ \A i \in 1 .. L : Q[i] \in Item(Ids)
      /\ Q = <<>> <=> L = 0
      /\ r.active \in SUBSET Item(Ids) /\ r.queuedBytes \in Nat /\ r.inFlightBytes \in Nat /\ r.inFlight \in Nat
      /\ r.disposed \in BOOLEAN
  BY QueueFacts DEF QueueOK
<1>2. /\ Accounted(Q, r.queuedBytes) /\ OneEach(r) /\ InTurn(r) /\ Within(r)
      /\ ~r.disposed /\ MaxItems \in Nat /\ MaxBytes \in Nat
  BY SidecarQueueAssumption DEF QueueOK, CountersOK, Accepts
<1>3. e.id \in Nat /\ e.bytes \in Nat
  BY ItemFacts
<1>4. /\ \A i \in 1 .. L : Q[i].id < e.id /\ Q[i].id \in Nat
      /\ \A d \in r.active : d.id < e.id /\ d.id \in Nat
  BY <1>1, ItemFacts DEF Items
<1>5. CASE Coalesces(r, e)
  <2> DEFINE t == [Q EXCEPT ![L] = e]
             n == r.queuedBytes - Q[L].bytes + e.bytes
             x == [r EXCEPT !.queue[Len(r.queue)] = e,
                            !.queuedBytes = @ - Last(r.queue).bytes + e.bytes]
  <2>1. L # 0 /\ Last(r.queue) = Q[L] /\ L \in 1 .. L
    BY <1>1, <1>5 DEF Coalesces, Last
  <2>2. /\ t \in Seq(Item(Ids)) /\ Len(t) = L /\ t[L] = e /\ \A i \in 1 .. L - 1 : t[i] = Q[i]
        /\ n \in Nat /\ Accounted(t, n)
    BY <1>1, <1>2, <2>1, AccountedReplace
  <2>3. /\ x.queue = t /\ x.queuedBytes = n /\ x.active = r.active /\ x.inFlight = r.inFlight
        /\ x.inFlightBytes = r.inFlightBytes /\ x.retry = r.retry /\ x.disposed = r.disposed
        /\ x \in QueueType
    <3>1. x = [r EXCEPT !.queue = t, !.queuedBytes = n]
      BY <1>1, <2>1 DEF QueueType
    <3> HIDE DEF x, t, n
    <3> QED BY <1>1, <2>2, <3>1 DEF QueueType
  <2>4. r.inFlightBytes + r.queuedBytes - Q[L].bytes + e.bytes <= MaxBytes
    BY <1>5, <2>1 DEF Accepts
  <2>5. Admitted(r, e) = Pumped(x)
    BY <1>5 DEF Admitted
  <2>6. n + r.inFlightBytes <= MaxBytes
    <3>1. Q[L].bytes \in Nat
      BY <1>1, <2>1, ItemFacts
    <3> QED BY <1>1, <1>3, <2>4, <3>1
  <2> HIDE DEF x, t, n
  <2>7. \A i \in 1 .. L : i # L => i \in 1 .. L - 1
    BY <1>1
  <2>8. CountersOK(x)
    BY <2>2, <2>3 DEF CountersOK, QueueOK
  <2>9. OneEach(x)
    <3>1. ASSUME NEW i \in 1 .. L, NEW j \in 1 .. L, t[i].id = t[j].id
          PROVE  i = j
      <4>1. CASE i # L /\ j # L
        BY <1>2, <2>2, <2>7, <3>1, <4>1 DEF OneEach
      <4>2. \A k \in 1 .. L : k # L => t[k].id < e.id /\ t[k].id \in Nat
        BY <1>4, <2>2, <2>7
      <4>3. CASE i = L
        BY <1>3, <2>2, <3>1, <4>2, <4>3
      <4>4. CASE j = L
        BY <1>3, <2>2, <3>1, <4>2, <4>4
      <4> QED BY <4>1, <4>3, <4>4
    <3>2. ASSUME NEW i \in 1 .. L, NEW d \in r.active
          PROVE  t[i].id # d.id
      <4>1. CASE i = L
        BY <1>3, <1>4, <2>2, <4>1
      <4>2. CASE i # L
        BY <1>2, <2>2, <2>7, <4>2 DEF OneEach
      <4> QED BY <4>1, <4>2
    <3> QED BY <1>2, <2>2, <2>3, <3>1, <3>2 DEF OneEach
  <2>10. InTurn(x)
    <3> SUFFICES ASSUME MaxInFlight = 1 PROVE InTurn(x)
      BY DEF InTurn
    <3>1. ASSUME NEW i \in 1 .. L, NEW j \in 1 .. L, i < j
          PROVE  t[i].id < t[j].id
      <4>1. i # L
        BY <1>1, <3>1
      <4>2. t[i] = Q[i]
        BY <2>2, <2>7, <4>1
      <4>3. CASE j = L
        BY <1>4, <2>2, <4>2, <4>3
      <4>4. CASE j # L
        BY <1>2, <2>2, <2>7, <3>1, <4>2, <4>4 DEF InTurn
      <4> QED BY <4>3, <4>4
    <3>2. ASSUME NEW i \in 1 .. L, NEW d \in r.active
          PROVE  d.id < t[i].id
      <4>1. CASE i = L
        BY <1>4, <2>2, <4>1
      <4>2. CASE i # L
        BY <1>2, <2>2, <2>7, <4>2 DEF InTurn
      <4> QED BY <4>1, <4>2
    <3> QED BY <2>2, <2>3, <3>1, <3>2 DEF InTurn
  <2>11. Within(x)
    BY <1>2, <2>2, <2>3, <2>6 DEF Within
  <2>12. Items(x) = (Items(r) \ {Q[L]}) \cup {e}
    <3>1. Items(x) = {t[i] : i \in 1 .. L} \cup r.active
      BY <2>2, <2>3 DEF Items
    <3>2. Items(r) = {Q[i] : i \in 1 .. L} \cup r.active
      BY DEF Items
    <3>3. \A i \in 1 .. L : i # L => t[i] = Q[i] /\ Q[i] # Q[L]
      BY <1>2, <2>1, <2>2, <2>7 DEF OneEach
    <3>4. Q[L] \notin r.active
      BY <1>2, <2>1 DEF OneEach
    <3>5. {t[i] : i \in 1 .. L} = ({Q[i] : i \in 1 .. L} \ {Q[L]}) \cup {e}
      <4>1. \A i \in 1 .. L : t[i] \in ({Q[j] : j \in 1 .. L} \ {Q[L]}) \cup {e}
        BY <2>2, <3>3
      <4>2. \A i \in 1 .. L : Q[i] # Q[L] => \E j \in 1 .. L : t[j] = Q[i]
        BY <3>3
      <4>3. \E j \in 1 .. L : t[j] = e
        BY <2>1, <2>2
      <4> HIDE DEF Q, L
      <4> QED BY <4>1, <4>2, <4>3
    <3> HIDE DEF Q, L
    <3> QED BY <3>1, <3>2, <3>4, <3>5
  <2>13. QueueOK(x)
    BY <1>2, <2>3, <2>8, <2>9, <2>10, <2>11 DEF QueueOK
  <2> QED BY <1>5, <2>1, <2>3, <2>5, <2>12, <2>13, PumpedOK
<1>6. CASE ~Coalesces(r, e)
  <2> DEFINE t == Append(Q, e)
             n == r.queuedBytes + e.bytes
             x == [r EXCEPT !.queue = Append(@, e), !.queuedBytes = @ + e.bytes]
  <2>1. /\ t \in Seq(Item(Ids)) /\ Len(t) = L + 1 /\ t[L + 1] = e /\ \A i \in 1 .. L : t[i] = Q[i]
        /\ Accounted(t, n)
    BY <1>1, <1>2, AccountedAppend
  <2>2. /\ x.queue = t /\ x.queuedBytes = n /\ x.active = r.active /\ x.inFlight = r.inFlight
        /\ x.inFlightBytes = r.inFlightBytes /\ x.retry = r.retry /\ x.disposed = r.disposed
        /\ x \in QueueType
    <3>1. n \in Nat
      BY <1>1, <1>3
    <3>2. x = [r EXCEPT !.queue = t, !.queuedBytes = n]
      BY <1>1 DEF QueueType
    <3> HIDE DEF x, t, n
    <3> QED BY <1>1, <2>1, <3>1, <3>2 DEF QueueType
  <2>3. L + r.inFlight < MaxItems /\ r.queuedBytes + r.inFlightBytes + e.bytes <= MaxBytes
    BY <1>6 DEF Accepts
  <2>4. Admitted(r, e) = Pumped(x)
    BY <1>6 DEF Admitted
  <2>5. n + r.inFlightBytes <= MaxBytes /\ (L + 1) + r.inFlight <= MaxItems
    BY <1>1, <1>2, <1>3, <2>3
  <2> HIDE DEF x, t, n
  <2>6. \A i \in 1 .. L + 1 : i # L + 1 => i \in 1 .. L
    BY <1>1
  <2>7. L + 1 \in 1 .. L + 1 /\ \A i \in 1 .. L : i \in 1 .. L + 1
    BY <1>1
  <2>8. CountersOK(x)
    BY <2>1, <2>2 DEF CountersOK, QueueOK
  <2>9. OneEach(x)
    <3>1. ASSUME NEW i \in 1 .. L + 1, NEW j \in 1 .. L + 1, t[i].id = t[j].id
          PROVE  i = j
      <4>1. CASE i # L + 1 /\ j # L + 1
        BY <1>2, <2>1, <2>6, <3>1, <4>1 DEF OneEach
      <4>2. \A k \in 1 .. L + 1 : k # L + 1 => t[k].id < e.id /\ t[k].id \in Nat
        BY <1>4, <2>1, <2>6
      <4>3. CASE i = L + 1
        BY <1>3, <2>1, <3>1, <4>2, <4>3
      <4>4. CASE j = L + 1
        BY <1>3, <2>1, <3>1, <4>2, <4>4
      <4> QED BY <4>1, <4>3, <4>4
    <3>2. ASSUME NEW i \in 1 .. L + 1, NEW d \in r.active
          PROVE  t[i].id # d.id
      <4>1. CASE i = L + 1
        BY <1>3, <1>4, <2>1, <4>1
      <4>2. CASE i # L + 1
        BY <1>2, <2>1, <2>6, <4>2 DEF OneEach
      <4> QED BY <4>1, <4>2
    <3> QED BY <1>2, <2>1, <2>2, <3>1, <3>2 DEF OneEach
  <2>10. InTurn(x)
    <3> SUFFICES ASSUME MaxInFlight = 1 PROVE InTurn(x)
      BY DEF InTurn
    <3>1. ASSUME NEW i \in 1 .. L + 1, NEW j \in 1 .. L + 1, i < j
          PROVE  t[i].id < t[j].id
      <4>1. i # L + 1
        BY <1>1, <3>1
      <4>2. t[i] = Q[i] /\ i \in 1 .. L
        BY <2>1, <2>6, <4>1
      <4>3. CASE j = L + 1
        BY <1>4, <2>1, <4>2, <4>3
      <4>4. CASE j # L + 1
        BY <1>2, <2>1, <2>6, <3>1, <4>2, <4>4 DEF InTurn
      <4> QED BY <4>3, <4>4
    <3>2. ASSUME NEW i \in 1 .. L + 1, NEW d \in r.active
          PROVE  d.id < t[i].id
      <4>1. CASE i = L + 1
        BY <1>4, <2>1, <4>1
      <4>2. CASE i # L + 1
        BY <1>2, <2>1, <2>6, <4>2 DEF InTurn
      <4> QED BY <4>1, <4>2
    <3> QED BY <2>1, <2>2, <3>1, <3>2 DEF InTurn
  <2>11. Within(x)
    BY <1>2, <2>1, <2>2, <2>5 DEF Within
  <2>12. Items(x) = Items(r) \cup {e}
    <3>1. Items(x) = {t[i] : i \in 1 .. L + 1} \cup r.active
      BY <2>1, <2>2 DEF Items
    <3>2. Items(r) = {Q[i] : i \in 1 .. L} \cup r.active
      BY DEF Items
    <3>3. {t[i] : i \in 1 .. L + 1} = {Q[i] : i \in 1 .. L} \cup {e}
      <4>1. \A i \in 1 .. L + 1 : t[i] \in {Q[j] : j \in 1 .. L} \cup {e}
        BY <2>1, <2>6
      <4>2. \A i \in 1 .. L : \E j \in 1 .. L + 1 : t[j] = Q[i]
        BY <2>1, <2>7
      <4>3. \E j \in 1 .. L + 1 : t[j] = e
        BY <2>1, <2>7
      <4> HIDE DEF Q, L
      <4> QED BY <4>1, <4>2, <4>3
    <3> HIDE DEF Q, L
    <3> QED BY <3>1, <3>2, <3>3
  <2>13. QueueOK(x)
    BY <1>2, <2>2, <2>8, <2>9, <2>10, <2>11 DEF QueueOK
  <2> QED BY <1>6, <2>2, <2>4, <2>12, <2>13, PumpedOK
<1> QED BY <1>5, <1>6

\* dispose keeps only the handlers that run.
LEMMA DisposedOK ==
  ASSUME NEW r, QueueOK(r)
  PROVE  /\ QueueOK(Disposed(r)) /\ Items(Disposed(r)) = r.active /\ Disposed(r).disposed
<1> DEFINE p == Disposed(r)
<1>1. /\ r \in QueueType /\ Len(r.queue) \in Nat /\ r.inFlightBytes \in Nat /\ r.inFlight \in Nat
      /\ r.queuedBytes \in Nat
  BY QueueFacts DEF QueueOK
<1>2. <<>> \in Seq(Item(Ids)) /\ Len(<<>>) = 0 /\ Accounted(<<>>, 0)
  BY AccountedNone
<1>3. /\ p.queue = <<>> /\ p.queuedBytes = 0 /\ p.active = r.active /\ p.inFlight = r.inFlight
      /\ p.inFlightBytes = r.inFlightBytes /\ p.retry = FALSE /\ p.disposed = TRUE
      /\ p \in QueueType
  BY <1>1, <1>2 DEF Disposed, QueueType
<1> HIDE DEF p
<1>4. CountersOK(p)
  BY <1>2, <1>3 DEF CountersOK, QueueOK
<1>5. OneEach(p) /\ InTurn(p) /\ Items(p) = r.active
  BY <1>2, <1>3 DEF OneEach, InTurn, Items, QueueOK
<1>6. Within(p)
  <2>1. Within(r) /\ MaxItems \in Nat /\ MaxBytes \in Nat
    BY SidecarQueueAssumption DEF QueueOK
  <2> QED BY <1>1, <1>2, <1>3, <2>1 DEF Within
<1> QED BY <1>3, <1>4, <1>5, <1>6 DEF QueueOK, p

\* The retry timer takes the hold off the queue.
LEMMA RetriedOK ==
  ASSUME NEW r, QueueOK(r)
  PROVE  /\ QueueOK(Retried(r)) /\ Items(Retried(r)) = Items(r) /\ Retried(r).disposed = r.disposed
<1> DEFINE x == [r EXCEPT !.retry = FALSE]
<1>1. r \in QueueType
  BY DEF QueueOK
<1>2. /\ x.queue = r.queue /\ x.queuedBytes = r.queuedBytes /\ x.active = r.active /\ x.inFlight = r.inFlight
      /\ x.inFlightBytes = r.inFlightBytes /\ x.retry = FALSE /\ x.disposed = r.disposed
      /\ x \in QueueType
  BY <1>1 DEF QueueType
<1> HIDE DEF x
<1>3. QueueOK(x) /\ Items(x) = Items(r)
  BY <1>2, SMTT(60) DEF QueueOK, CountersOK, OneEach, InTurn, Within, Items
<1> QED BY <1>2, <1>3, PumpedOK DEF Retried, x

LEMMA IdleEmpty ==
  ASSUME NEW r, QueueOK(r), Idle(r)
  PROVE  Items(r) = {}
<1>1. Len(r.queue) = 0 /\ r.inFlight = 0
  BY DEF Idle
<1>2. PICK s \in Seq(Item(Ids)) : Lists(s, r.active) /\ Len(s) = 0
  BY <1>1 DEF QueueOK, CountersOK
<1>3. r.active = {}
  BY <1>2 DEF Lists
<1> QED BY <1>1, <1>3 DEF Items

-----------------------------------------------------------------------------
(* The inductive invariant *)

\* The queue holds the unacknowledged events, each under its own kind.
FateOK ==
  /\ \A e \in Items(q) : /\ e.id \in DOMAIN fate /\ e.key = offered[e.id]
                         /\ q.disposed \/ fate[e.id] = "pending"
  /\ \A i \in DOMAIN fate : fate[i] = "pending" => \E e \in Items(q) : e.id = i
  /\ q.disposed => \A i \in DOMAIN fate : fate[i] # "pending"

\* What ended, ended before what the queue still holds.
LogOK ==
  MaxInFlight = 1 =>
    /\ \A i, j \in DOMAIN log : i < j => log[i] < log[j]
    /\ \A i \in DOMAIN log : log[i] <= Len(fate) /\ \A e \in Items(q) : log[i] < e.id

\* The newest item of the queue is the newest event it ever accepted.
NewestOK ==
  MaxInFlight = 1 /\ ~q.disposed =>
    \A e \in Items(q) : (\A d \in Items(q) : d.id <= e.id) =>
      \A k \in DOMAIN fate : k > e.id => fate[k] = "refused"

IInv ==
  /\ TypeOK /\ QueueOK(q)
  /\ FateOK /\ LogOK /\ NewestOK
  /\ MaxInFlight = 1 => CoalescesWithinBoundary

LEMMA TypeFacts ==
  ASSUME TypeOK
  PROVE  /\ Len(fate) \in Nat /\ DOMAIN fate = 1 .. Len(fate) /\ DOMAIN offered = 1 .. Len(fate)
         /\ Len(offered) = Len(fate)
         /\ \A i \in 1 .. Len(fate) : fate[i] \in Fates
         /\ Len(log) \in Nat /\ DOMAIN log = 1 .. Len(log)
         /\ \A i \in 1 .. Len(log) : log[i] \in Nat
<1>1. \A i \in Ids : i \in Nat
  BY SidecarQueueBounds DEF Ids
<1>2. /\ Len(fate) \in Nat /\ DOMAIN fate = 1 .. Len(fate) /\ \A i \in 1 .. Len(fate) : fate[i] \in Fates
      /\ DOMAIN offered = 1 .. Len(offered)
      /\ Len(log) \in Nat /\ DOMAIN log = 1 .. Len(log) /\ \A i \in 1 .. Len(log) : log[i] \in Ids
  BY LenProperties, ElementOfSeq DEF TypeOK
<1> QED BY <1>1, <1>2 DEF TypeOK

LEMMA InitIInv == Init => IInv
<1> SUFFICES ASSUME Init PROVE IInv
  OBVIOUS
<1>1. /\ q.queue = <<>> /\ q.active = {} /\ q.queuedBytes = 0 /\ q.inFlight = 0 /\ q.inFlightBytes = 0
      /\ q.disposed = FALSE /\ q.retry = FALSE /\ q \in QueueType
  BY EmptySeq DEF Init, NewQueue, QueueType
<1>2. Len(<<>>) = 0 /\ <<>> \in Seq(Item(Ids)) /\ Accounted(<<>>, 0)
  BY AccountedNone
<1>3. Lists(<<>>, {})
  BY <1>2 DEF Lists
<1>4. CountersOK(q) /\ OneEach(q) /\ InTurn(q) /\ Items(q) = {}
  <2>1. \E s \in Seq(Item(Ids)) : Lists(s, {}) /\ Len(s) = 0 /\ Accounted(s, 0)
    BY <1>2, <1>3
  <2>2. CountersOK(q)
    BY <1>1, <1>2, <2>1 DEF CountersOK
  <2> QED BY <1>1, <1>2, <2>2 DEF OneEach, InTurn, Items
<1>5. Within(q)
  BY <1>1, <1>2, SidecarQueueAssumption DEF Within
<1>6. QueueOK(q)
  BY <1>1, <1>4, <1>5 DEF QueueOK
<1>7. /\ fate = <<>> /\ log = <<>> /\ offered = <<>>
      /\ fate \in Seq(Fates) /\ log \in Seq(Ids) /\ offered \in Seq(Kinds)
      /\ waiting \in [Waiters -> {"none", "waiting", "resolved"}]
  BY EmptySeq DEF Init
<1>8. TypeOK
  BY <1>1, <1>7 DEF TypeOK, QueueType
<1>9. DOMAIN fate = {} /\ DOMAIN log = {}
  BY <1>7
<1> QED BY <1>4, <1>6, <1>8, <1>9 DEF IInv, FateOK, LogOK, NewestOK, CoalescesWithinBoundary

\* Settling acknowledgements keeps their number and changes only pending ones.
LEMMA SettleFacts ==
  ASSUME TypeOK, NEW ids, NEW to \in Fates
  PROVE  LET g == Settle(fate, ids, to) IN
         /\ g \in Seq(Fates) /\ Len(g) = Len(fate)
         /\ \A i \in 1 .. Len(fate) : g[i] = IF i \in ids /\ fate[i] = "pending" THEN to ELSE fate[i]
<1> DEFINE g == Settle(fate, ids, to)
<1>1. Len(fate) \in Nat /\ DOMAIN fate = 1 .. Len(fate) /\ \A i \in 1 .. Len(fate) : fate[i] \in Fates
  BY TypeFacts
<1>2. g = [i \in 1 .. Len(fate) |-> IF i \in ids /\ fate[i] = "pending" THEN to ELSE fate[i]]
  BY <1>1 DEF Settle
<1> HIDE DEF g
<1>3. g \in [1 .. Len(fate) -> Fates]
  BY <1>1, <1>2
<1>4. g \in Seq(Fates) /\ Len(g) = Len(fate)
  BY <1>1, <1>2, <1>3
<1> QED BY <1>2, <1>4 DEF g

\* What is superseded stays justified while acknowledgements settle.
LEMMA SettledIInv ==
  ASSUME IInv, NEW ids, NEW to \in {"handled", "dead", "rejected"},
         fate' = Settle(fate, ids, to), offered' = offered
  PROVE  /\ fate' \in Seq(Fates) /\ Len(fate') = Len(fate) /\ DOMAIN fate' = 1 .. Len(fate)
         /\ \A i \in 1 .. Len(fate) : fate'[i] = IF i \in ids /\ fate[i] = "pending" THEN to ELSE fate[i]
         /\ MaxInFlight = 1 => CoalescesWithinBoundary'
<1>1. TypeOK /\ Len(fate) \in Nat /\ DOMAIN fate = 1 .. Len(fate)
  BY TypeFacts DEF IInv
<1>2. to \in Fates /\ to # "superseded" /\ to # "refused"
  BY DEF Fates
<1>3. /\ fate' \in Seq(Fates) /\ Len(fate') = Len(fate)
      /\ \A i \in 1 .. Len(fate) : fate'[i] = IF i \in ids /\ fate[i] = "pending" THEN to ELSE fate[i]
  BY <1>1, <1>2, SettleFacts
<1>4. DOMAIN fate' = 1 .. Len(fate)
  BY <1>3
<1>5. ASSUME MaxInFlight = 1, NEW i \in 1 .. Len(fate), fate'[i] = "superseded"
      PROVE  \E j \in 1 .. Len(fate) :
               /\ i < j /\ offered[j] = offered[i] /\ fate'[j] # "refused"
               /\ \A k \in i + 1 .. j - 1 : fate'[k] = "refused" \/ offered[k] = offered[i]
  <2>1. fate[i] = "superseded"
    BY <1>2, <1>3, <1>5
  <2>2. PICK j \in 1 .. Len(fate) :
          /\ i < j /\ offered[j] = offered[i] /\ fate[j] # "refused"
          /\ \A k \in i + 1 .. j - 1 : fate[k] = "refused" \/ offered[k] = offered[i]
    BY <1>1, <1>5, <2>1 DEF IInv, CoalescesWithinBoundary
  <2>3. fate'[j] # "refused"
    BY <1>2, <1>3, <2>2
  <2>4. ASSUME NEW k \in i + 1 .. j - 1
        PROVE  fate'[k] = "refused" \/ offered[k] = offered[i]
    <3>1. k \in 1 .. Len(fate)
      BY <1>1
    <3> QED BY <1>3, <2>2, <3>1
  <2> QED BY <2>2, <2>3, <2>4
<1> QED BY <1>3, <1>4, <1>5 DEF CoalescesWithinBoundary

-----------------------------------------------------------------------------
(* Every step keeps the invariant *)

LEMMA HeldFacts ==
  ASSUME IInv
  PROVE  /\ \A e \in Items(q) : e \in Item(Ids) /\ e.id \in Nat /\ e.id \in 1 .. Len(fate)
         /\ \A d, e \in Items(q) : d.id = e.id => d = e
         /\ MaxInFlight = 1 => \A e \in q.active, d \in Items(q) : d # e => e.id < d.id
         /\ q.active \subseteq Items(q)
<1>1. q \in QueueType /\ OneEach(q) /\ InTurn(q) /\ Items(q) \subseteq Item(Ids)
  BY QueueFacts DEF IInv, QueueOK
<1>2. \A e \in Items(q) : e \in Item(Ids) /\ e.id \in Nat /\ e.id \in 1 .. Len(fate)
  BY <1>1, ItemFacts, TypeFacts DEF IInv, FateOK
<1>3. \A d, e \in Items(q) : d.id = e.id => d = e
  BY <1>1 DEF OneEach, Items
<1>4. MaxInFlight = 1 => \A e \in q.active, d \in Items(q) : d # e => e.id < d.id
  <2> SUFFICES ASSUME MaxInFlight = 1, NEW e \in q.active, NEW d \in Items(q), d # e PROVE e.id < d.id
    OBVIOUS
  <2>1. q.active = {e}
    BY EndedOK DEF IInv
  <2> QED BY <1>1, <2>1 DEF InTurn, Items
<1>5. q.active \subseteq Items(q)
  BY DEF Items
<1> QED BY <1>2, <1>3, <1>4, <1>5

\* An event that ends leaves the queue and enters the log.
LEMMA FinishedIInv ==
  ASSUME IInv, NEW e \in q.active, NEW to \in {"handled", "dead"},
         fate' = Settle(fate, {e.id}, to), log' = Append(log, e.id), offered' = offered,
         QueueOK(q'), Items(q') = Items(q) \ {e}, q'.disposed = q.disposed,
         waiting' \in [Waiters -> {"none", "waiting", "resolved"}]
  PROVE  IInv'
<1> DEFINE N == Len(fate)
<1>1. /\ fate' \in Seq(Fates) /\ Len(fate') = N /\ DOMAIN fate' = 1 .. N
      /\ \A i \in 1 .. N : fate'[i] = IF i = e.id /\ fate[i] = "pending" THEN to ELSE fate[i]
      /\ MaxInFlight = 1 => CoalescesWithinBoundary'
  <2>1. /\ fate' \in Seq(Fates) /\ Len(fate') = N /\ DOMAIN fate' = 1 .. N
        /\ \A i \in 1 .. N : fate'[i] = IF i \in {e.id} /\ fate[i] = "pending" THEN to ELSE fate[i]
        /\ MaxInFlight = 1 => CoalescesWithinBoundary'
    <3>1. to \in {"handled", "dead", "rejected"}
      OBVIOUS
    <3> QED BY <3>1, SettledIInv
  <2> HIDE DEF N
  <2> QED BY <2>1
<1>2. /\ N \in Nat /\ DOMAIN fate = 1 .. N
      /\ Len(log) \in Nat /\ DOMAIN log = 1 .. Len(log) /\ \A i \in 1 .. Len(log) : log[i] \in Nat
  BY TypeFacts DEF IInv
<1>3. /\ e \in Items(q) /\ e.id \in 1 .. N /\ e.id \in Ids /\ e.id \in Nat
      /\ \A d \in Items(q) : d.id \in Nat /\ d.id \in 1 .. N /\ (d # e => d.id # e.id)
      /\ MaxInFlight = 1 => \A d \in Items(q) : d # e => e.id < d.id
  BY HeldFacts, ItemFacts
<1>4. /\ log' \in Seq(Ids) /\ Len(log') = Len(log) + 1 /\ DOMAIN log' = 1 .. Len(log) + 1
      /\ log'[Len(log) + 1] = e.id /\ \A i \in 1 .. Len(log) : log'[i] = log[i]
  BY <1>3, AppendProperties, LenProperties DEF IInv, TypeOK
<1> HIDE DEF N
<1>5. TypeOK'
  BY <1>1, <1>4 DEF IInv, TypeOK, QueueOK, QueueType, N
<1>6. FateOK'
  <2>1. ASSUME NEW d \in Items(q')
        PROVE  d.id \in 1 .. N /\ d.key = offered[d.id] /\ (q.disposed \/ fate'[d.id] = "pending")
    <3>1. d \in Items(q) /\ d # e
      OBVIOUS
    <3>2. d.id \in 1 .. N /\ d.id # e.id
      BY <1>3, <3>1
    <3> QED BY <1>1, <3>1, <3>2 DEF IInv, FateOK
  <2>2. ASSUME NEW i \in 1 .. N, fate'[i] = "pending"
        PROVE  \E d \in Items(q') : d.id = i
    <3>1. fate[i] = "pending" /\ i # e.id
      BY <1>1, <2>2
    <3> QED BY <1>2, <3>1 DEF IInv, FateOK
  <2>3. q.disposed => \A i \in 1 .. N : fate'[i] # "pending"
    BY <1>1, <1>2 DEF IInv, FateOK
  <2> QED BY <1>1, <2>1, <2>2, <2>3 DEF FateOK
<1>7. LogOK'
  <2> SUFFICES ASSUME MaxInFlight = 1 PROVE LogOK'
    BY DEF LogOK
  <2>1. /\ \A i, j \in 1 .. Len(log) : i < j => log[i] < log[j]
        /\ \A i \in 1 .. Len(log) : log[i] <= N /\ \A d \in Items(q) : log[i] < d.id
    BY <1>2 DEF IInv, LogOK, N
  <2>2. \A i \in 1 .. Len(log) + 1 : i = Len(log) + 1 \/ i \in 1 .. Len(log)
    BY <1>2
  <2>3. ASSUME NEW i \in 1 .. Len(log) + 1, NEW j \in 1 .. Len(log) + 1, i < j
        PROVE  log'[i] < log'[j]
    <3>1. i \in 1 .. Len(log)
      BY <1>2, <2>3
    <3>2. CASE j = Len(log) + 1
      BY <1>3, <1>4, <2>1, <3>1, <3>2
    <3>3. CASE j \in 1 .. Len(log)
      BY <1>4, <2>1, <2>3, <3>1, <3>3
    <3> QED BY <2>2, <3>2, <3>3
  <2>4. ASSUME NEW i \in 1 .. Len(log) + 1
        PROVE  log'[i] <= N /\ \A d \in Items(q') : log'[i] < d.id
    <3>1. CASE i = Len(log) + 1
      BY <1>2, <1>3, <1>4, <3>1
    <3>2. CASE i \in 1 .. Len(log)
      BY <1>4, <2>1, <3>2
    <3> QED BY <2>2, <3>1, <3>2
  <2> QED BY <1>1, <1>4, <2>3, <2>4 DEF LogOK
<1>8. NewestOK'
  <2> SUFFICES ASSUME MaxInFlight = 1, ~q.disposed, NEW c \in Items(q'), \A d \in Items(q') : d.id <= c.id,
                      NEW k \in 1 .. N, k > c.id
               PROVE  fate'[k] = "refused"
    BY <1>1 DEF NewestOK
  <2>1. c \in Items(q) /\ e.id < c.id /\ c.id \in Nat
    BY <1>3
  <2>2. \A d \in Items(q) : d.id <= c.id
    BY <1>3, <2>1
  <2>3. fate[k] = "refused"
    BY <1>2, <2>1, <2>2 DEF IInv, NewestOK
  <2> QED BY <1>1, <2>3
<1> QED BY <1>1, <1>5, <1>6, <1>7, <1>8 DEF IInv

\* While the acknowledgements and the log stay as they are, the queue may put
\* an item back under its own id, or drop what was rejected.
LEMMA HeldIInv ==
  ASSUME IInv, UNCHANGED <<fate, log, offered>>,
         waiting' \in [Waiters -> {"none", "waiting", "resolved"}],
         QueueOK(q'), q'.disposed = q.disposed,
         \A d \in Items(q') : \E c \in Items(q) : c.id = d.id /\ c.key = d.key,
         ~q.disposed => \A c \in Items(q) : \E d \in Items(q') : d.id = c.id
  PROVE  IInv'
<1>1. TypeOK'
  BY DEF IInv, TypeOK, QueueOK, QueueType
<1>2. FateOK'
  <2>1. ASSUME NEW d \in Items(q')
        PROVE  d.id \in DOMAIN fate /\ d.key = offered[d.id] /\ (q.disposed \/ fate[d.id] = "pending")
    <3>1. PICK c \in Items(q) : c.id = d.id /\ c.key = d.key
      OBVIOUS
    <3> QED BY <3>1 DEF IInv, FateOK
  <2>2. ASSUME NEW i \in DOMAIN fate, fate[i] = "pending"
        PROVE  \E d \in Items(q') : d.id = i
    <3>1. ~q.disposed /\ \E c \in Items(q) : c.id = i
      BY <2>2 DEF IInv, FateOK
    <3> QED BY <3>1
  <2> QED BY <2>1, <2>2 DEF IInv, FateOK
<1>3. LogOK'
  BY DEF IInv, LogOK
<1>4. NewestOK'
  <2> SUFFICES ASSUME MaxInFlight = 1, ~q.disposed, NEW e \in Items(q'), \A d \in Items(q') : d.id <= e.id,
                      NEW k \in DOMAIN fate, k > e.id
               PROVE  fate[k] = "refused"
    BY DEF NewestOK
  <2>1. PICK c \in Items(q) : c.id = e.id
    OBVIOUS
  <2>2. \A d \in Items(q) : d.id <= c.id
    BY <2>1
  <2> QED BY <2>1, <2>2 DEF IInv, NewestOK
<1>5. MaxInFlight = 1 => CoalescesWithinBoundary'
  BY DEF IInv, CoalescesWithinBoundary
<1> QED BY <1>1, <1>2, <1>3, <1>4, <1>5 DEF IInv

LEMMA WakeFacts ==
  ASSUME TypeOK, NEW r, Wake(r)
  PROVE  waiting' \in [Waiters -> {"none", "waiting", "resolved"}]
BY DEF Wake, TypeOK

LEMMA HandlerOkIInv ==
  ASSUME IInv, NEW e \in q.active, HandlerOk(e)
  PROVE  IInv'
<1>1. QueueOK(Ended(q, e)) /\ Items(Ended(q, e)) = Items(q) \ {e} /\ Ended(q, e).disposed = q.disposed
  BY EndedOK DEF IInv
<1>2. QueueOK(q') /\ Items(q') = Items(q) \ {e} /\ q'.disposed = q.disposed
  BY <1>1, PumpedOK DEF HandlerOk, Succeeded
<1>3. waiting' \in [Waiters -> {"none", "waiting", "resolved"}]
  BY WakeFacts DEF IInv, HandlerOk
<1> QED BY <1>2, <1>3, FinishedIInv DEF HandlerOk

LEMMA HandlerFailsIInv ==
  ASSUME IInv, NEW e \in q.active, HandlerFails(e)
  PROVE  IInv'
<1>1. /\ QueueOK(Ended(q, e)) /\ Items(Ended(q, e)) = Items(q) \ {e}
      /\ Ended(q, e).disposed = q.disposed
  BY EndedOK DEF IInv
<1>2. waiting' \in [Waiters -> {"none", "waiting", "resolved"}]
  BY WakeFacts DEF IInv, HandlerFails
<1>3. CASE Poison(q, e)
  <2>1. /\ q' = Pumped(Ended(q, e)) /\ fate' = Settle(fate, {e.id}, "dead")
        /\ log' = Append(log, e.id) /\ offered' = offered
    BY <1>3 DEF HandlerFails, DeadLettered
  <2>2. QueueOK(q') /\ Items(q') = Items(q) \ {e} /\ q'.disposed = q.disposed
    BY <1>1, <2>1, PumpedOK
  <2> QED BY <1>2, <2>1, <2>2, FinishedIInv
<1>4. CASE ~Poison(q, e) /\ q.disposed
  <2>1. q' = Ended(q, e) /\ UNCHANGED <<fate, log, offered>>
    BY <1>4 DEF HandlerFails
  <2> QED BY <1>1, <1>2, <1>4, <2>1, HeldIInv
<1>5. CASE ~Poison(q, e) /\ ~q.disposed
  <2> DEFINE f == [e EXCEPT !.attempts = @ + 1]
  <2>1. q' = Requeued(q, e) /\ UNCHANGED <<fate, log, offered>>
    BY <1>5 DEF HandlerFails
  <2>2. QueueOK(q') /\ q'.disposed = q.disposed /\ Items(q') = (Items(q) \ {e}) \cup {f}
    BY <1>5, <2>1, RequeuedOK DEF IInv
  <2>3. f.id = e.id /\ f.key = e.key /\ e \in Items(q)
    BY HeldFacts DEF Item
  <2> HIDE DEF f
  <2> QED BY <1>2, <2>1, <2>2, <2>3, HeldIInv
<1> QED BY <1>3, <1>4, <1>5

LEMMA RetryIInv ==
  ASSUME IInv, Retry
  PROVE  IInv'
<1>1. QueueOK(q') /\ Items(q') = Items(q) /\ q'.disposed = q.disposed
  BY RetriedOK DEF IInv, Retry
<1> QED BY <1>1, HeldIInv DEF Retry, IInv, TypeOK

LEMMA DrainIInv ==
  ASSUME IInv, NEW w \in Waiters, Drain(w)
  PROVE  IInv'
<1>1. q' = q /\ UNCHANGED <<fate, log, offered>> /\ waiting' \in [Waiters -> {"none", "waiting", "resolved"}]
  BY DEF Drain, IInv, TypeOK
<1>2. QueueOK(q') /\ Items(q') = Items(q) /\ q'.disposed = q.disposed
  BY <1>1 DEF IInv
<1> QED BY <1>1, <1>2, HeldIInv

LEMMA DisposeIInv ==
  ASSUME IInv, Dispose
  PROVE  IInv'
<1> DEFINE N == Len(fate)
<1>1. QueueOK(q') /\ Items(q') = q.active /\ q'.disposed
  BY DisposedOK DEF IInv, Dispose
<1>2. /\ fate' \in Seq(Fates) /\ Len(fate') = N /\ DOMAIN fate' = 1 .. N
      /\ \A i \in 1 .. N : fate'[i] = IF i \in DOMAIN fate /\ fate[i] = "pending" THEN "rejected" ELSE fate[i]
      /\ MaxInFlight = 1 => CoalescesWithinBoundary'
  BY SettledIInv DEF Dispose
<1>3. N \in Nat /\ DOMAIN fate = 1 .. N
  BY TypeFacts DEF IInv
<1>4. waiting' \in [Waiters -> {"none", "waiting", "resolved"}] /\ offered' = offered /\ log' = log
  BY DEF Dispose, IInv, TypeOK
<1>5. TypeOK'
  BY <1>1, <1>2, <1>4 DEF IInv, TypeOK, QueueOK, QueueType
<1>6. \A i \in 1 .. N : fate'[i] # "pending"
  BY <1>2, <1>3
<1>7. FateOK'
  BY <1>1, <1>2, <1>3, <1>4, <1>6, HeldFacts DEF IInv, FateOK
<1>8. LogOK' /\ NewestOK'
  BY <1>1, <1>2, <1>4, HeldFacts DEF IInv, LogOK, NewestOK
<1> QED BY <1>1, <1>2, <1>5, <1>7, <1>8 DEF IInv

\* An offered event is accepted at the tail, replaces the snapshot it
\* supersedes, or is refused.
LEMMA EnqueueIInv ==
  ASSUME IInv, NEW k \in Kinds, NEW b \in 1 .. MaxBytes, Enqueue(k, b)
  PROVE  IInv'
<1> DEFINE N == Len(fate)
           e == NewItem(N + 1, k, b)
           ok == Accepts(q, e)
           sup == IF ok THEN Superseded(q, e) ELSE {}
           l == Last(q.queue)
<1>1. /\ TypeOK /\ N \in Nat /\ DOMAIN fate = 1 .. N /\ DOMAIN offered = 1 .. N /\ Len(offered) = N
      /\ \A x \in 1 .. N : fate[x] \in Fates
      /\ Len(log) \in Nat /\ DOMAIN log = 1 .. Len(log) /\ \A x \in 1 .. Len(log) : log[x] \in Nat
  BY TypeFacts DEF IInv
<1>2. /\ N + 1 <= MaxEvents
      /\ offered' = Append(offered, k)
      /\ fate' = Append(IF ok THEN Settle(fate, Superseded(q, e), "superseded") ELSE fate,
                        IF ok THEN "pending" ELSE "refused")
      /\ q' = IF ok THEN Admitted(q, e) ELSE q
      /\ log' = log /\ waiting' = waiting
  BY <1>1 DEF Enqueue
<1>3. /\ e \in Item(Ids) /\ e.id = N + 1 /\ e.key = k
  <2>1. N + 1 \in Ids
    BY <1>1, <1>2, SidecarQueueBounds DEF Ids
  <2>2. 0 \in 0 .. MaxAttempts - 1
    BY SidecarQueueAssumption
  <2> QED BY <2>1, <2>2 DEF NewItem, Item
<1>4. /\ \A d \in Items(q) : d.id \in Nat /\ d.id \in 1 .. N /\ d \in Item(Ids) /\ d.id < N + 1
      /\ \A c, d \in Items(q) : c.id = d.id => c = d
      /\ MaxInFlight = 1 => \A c \in q.active, d \in Items(q) : d # c => c.id < d.id
  BY <1>1, HeldFacts
<1>5. /\ DOMAIN offered' = 1 .. N + 1 /\ Len(offered') = N + 1 /\ offered' \in Seq(Kinds)
      /\ offered'[N + 1] = k /\ \A x \in 1 .. N : offered'[x] = offered[x]
  BY <1>1, <1>2, AppendProperties, LenProperties DEF TypeOK
<1>6. /\ fate' \in Seq(Fates) /\ Len(fate') = N + 1 /\ DOMAIN fate' = 1 .. N + 1
      /\ fate'[N + 1] = IF ok THEN "pending" ELSE "refused"
      /\ \A x \in 1 .. N : fate'[x] = IF x \in sup /\ fate[x] = "pending" THEN "superseded" ELSE fate[x]
  <2> DEFINE g == IF ok THEN Settle(fate, Superseded(q, e), "superseded") ELSE fate
             v == IF ok THEN "pending" ELSE "refused"
  <2>1. "superseded" \in Fates /\ v \in Fates
    BY DEF Fates
  <2>2. /\ g \in Seq(Fates) /\ Len(g) = N
        /\ \A x \in 1 .. N : g[x] = IF x \in sup /\ fate[x] = "pending" THEN "superseded" ELSE fate[x]
    <3> HIDE DEF e
    <3>1. CASE ok
      BY <1>1, <2>1, <3>1, SettleFacts
    <3>2. CASE ~ok
      BY <1>1, <3>2 DEF TypeOK
    <3> QED BY <3>1, <3>2
  <2>3. fate' = Append(g, v)
    BY <1>2
  <2> HIDE DEF g, v, sup, ok
  <2>4. /\ fate' \in Seq(Fates) /\ Len(fate') = N + 1
        /\ \A x \in 1 .. N : fate'[x] = g[x]
        /\ fate'[N + 1] = v
    BY <2>1, <2>2, <2>3, AppendProperties
  <2>5. DOMAIN fate' = 1 .. N + 1
    BY <2>4, LenProperties
  <2> QED BY <2>2, <2>4, <2>5 DEF v
<1>7. ASSUME ok, Coalesces(q, e)
      PROVE  /\ sup = {l.id} /\ l \in Items(q) /\ l.key = k
             /\ MaxInFlight = 1 => \A d \in Items(q) : d.id <= l.id
  <2>1. q.queue # <<>> /\ l.key = k
    BY <1>3, <1>7 DEF Coalesces
  <2>2. /\ Len(q.queue) \in Nat \ {0} /\ l = q.queue[Len(q.queue)] /\ Len(q.queue) \in 1 .. Len(q.queue)
        /\ \A i \in 1 .. Len(q.queue) : q.queue[i].id \in Nat
    <3>1. q \in QueueType
      BY DEF IInv, QueueOK
    <3>2. Len(q.queue) \in Nat \ {0} /\ l = q.queue[Len(q.queue)]
      BY <2>1, <3>1, QueueFacts DEF Last
    <3> QED BY <1>4, <3>2 DEF Items
  <2>3. l \in Items(q)
    BY <2>2 DEF Items
  <2>4. ASSUME MaxInFlight = 1, NEW d \in Items(q)
        PROVE  d.id <= l.id
    <3>1. InTurn(q)
      BY DEF IInv, QueueOK
    <3>2. CASE d \in q.active
      <4>1. d.id < l.id /\ d.id \in Nat
        BY <1>4, <2>2, <2>4, <3>1, <3>2 DEF InTurn
      <4> QED BY <2>2, <4>1
    <3>3. CASE d \notin q.active
      <4>1. PICK i \in 1 .. Len(q.queue) : d = q.queue[i]
        BY <3>3 DEF Items
      <4>2. i = Len(q.queue) \/ i < Len(q.queue)
        BY <2>2
      <4>3. i < Len(q.queue) => d.id < l.id
        BY <2>2, <2>4, <3>1, <4>1 DEF InTurn
      <4> QED BY <2>2, <4>1, <4>2, <4>3
    <3> QED BY <3>2, <3>3
  <2>5. sup = {l.id}
    BY <1>7 DEF Superseded
  <2> QED BY <2>1, <2>3, <2>4, <2>5
<1>8. /\ QueueOK(q') /\ q'.disposed = q.disposed
      /\ Items(q') = {d \in Items(q) : d.id \notin sup} \cup (IF ok THEN {e} ELSE {})
      /\ ok => ~q.disposed
      /\ ~ok => sup = {}
  <2>1. CASE ok
    <3>1. /\ QueueOK(q') /\ q'.disposed = q.disposed
          /\ Items(q') = (IF Coalesces(q, e) THEN Items(q) \ {l} ELSE Items(q)) \cup {e}
      <4> HIDE DEF e, l
      <4> QED BY <1>2, <1>3, <1>4, <2>1, AdmittedOK DEF IInv, l
    <3>2. ~q.disposed
      BY <2>1 DEF Accepts
    <3>3. CASE Coalesces(q, e)
      <4>1. {d \in Items(q) : d.id \notin sup} = Items(q) \ {l}
        BY <1>4, <1>7, <2>1, <3>3
      <4> QED BY <2>1, <3>1, <3>2, <3>3, <4>1
    <3>4. CASE ~Coalesces(q, e)
      <4>1. sup = {}
        BY <2>1, <3>4 DEF Superseded
      <4> HIDE DEF sup
      <4>2. {d \in Items(q) : d.id \notin sup} = Items(q)
        BY <4>1
      <4> QED BY <2>1, <3>1, <3>2, <3>4, <4>2
    <3> QED BY <3>3, <3>4
  <2>2. CASE ~ok
    <3>1. q' = q /\ sup = {}
      BY <1>2, <2>2
    <3> HIDE DEF sup
    <3> QED BY <2>2, <3>1 DEF IInv
  <2> QED BY <2>1, <2>2
<1>9. ASSUME NEW x \in sup
      PROVE  /\ ok /\ x = l.id /\ l \in Items(q) /\ l.key = k
             /\ MaxInFlight = 1 => \A d \in Items(q) : d.id <= l.id
  <2>1. ok /\ Coalesces(q, e)
    BY <1>8 DEF Superseded
  <2> HIDE DEF ok, sup, l, e
  <2> QED BY <1>7, <2>1
<1>a. \A x \in 1 .. N + 1 : x = N + 1 \/ x \in 1 .. N
  BY <1>1
<1>b. N + 1 \in 1 .. N + 1 /\ \A x \in 1 .. N : x \in 1 .. N + 1 /\ x # N + 1
  BY <1>1
<1> HIDE DEF N, e, ok, sup, l
<1>10. TypeOK'
  BY <1>1, <1>2, <1>5, <1>6, <1>8 DEF TypeOK, QueueOK, QueueType
<1>11. FateOK'
  <2>1. ASSUME NEW d \in Items(q')
        PROVE  d.id \in 1 .. N + 1 /\ d.key = offered'[d.id] /\ (q.disposed \/ fate'[d.id] = "pending")
    <3>1. CASE d \in Items(q) /\ d.id \notin sup
      <4>1. d.id \in 1 .. N /\ d.key = offered[d.id] /\ (q.disposed \/ fate[d.id] = "pending")
        BY <1>4, <3>1 DEF IInv, FateOK
      <4> QED BY <1>5, <1>6, <1>b, <3>1, <4>1
    <3>2. CASE ok /\ d = e
      BY <1>3, <1>5, <1>6, <1>b, <3>2
    <3> QED BY <1>8, <3>1, <3>2
  <2>2. ASSUME NEW x \in 1 .. N + 1, fate'[x] = "pending"
        PROVE  \E d \in Items(q') : d.id = x
    <3>1. CASE x = N + 1
      BY <1>3, <1>6, <1>8, <2>2, <3>1
    <3>2. CASE x \in 1 .. N
      <4>1. fate[x] = "pending" /\ x \notin sup
        BY <1>6, <2>2, <3>2
      <4>2. \E d \in Items(q) : d.id = x
        BY <1>1, <3>2, <4>1 DEF IInv, FateOK
      <4> QED BY <1>8, <4>1, <4>2
    <3> QED BY <1>a, <3>1, <3>2
  <2>3. ASSUME q.disposed, NEW x \in 1 .. N + 1
        PROVE  fate'[x] # "pending"
    <3>1. ~ok
      BY <1>8, <2>3
    <3>2. CASE x = N + 1
      BY <1>6, <3>1, <3>2
    <3>3. CASE x \in 1 .. N
      BY <1>1, <1>6, <2>3, <3>3 DEF IInv, FateOK
    <3> QED BY <1>a, <3>2, <3>3
  <2> QED BY <1>6, <1>8, <2>1, <2>2, <2>3 DEF FateOK
<1>12. LogOK'
  <2> SUFFICES ASSUME MaxInFlight = 1 PROVE LogOK'
    BY DEF LogOK
  <2>1. /\ \A i, j \in 1 .. Len(log) : i < j => log[i] < log[j]
        /\ \A i \in 1 .. Len(log) : log[i] <= N /\ \A d \in Items(q) : log[i] < d.id
    BY <1>1 DEF IInv, LogOK, N
  <2>2. ASSUME NEW i \in 1 .. Len(log)
        PROVE  log[i] <= N + 1 /\ \A d \in Items(q') : log[i] < d.id
    <3>1. log[i] <= N + 1 /\ log[i] < N + 1
      BY <1>1, <2>1
    <3> QED BY <1>3, <1>8, <2>1, <3>1
  <2> QED BY <1>1, <1>2, <1>6, <2>1, <2>2 DEF LogOK
<1>13. NewestOK'
  <2> SUFFICES ASSUME MaxInFlight = 1, ~q.disposed, NEW c \in Items(q'), \A d \in Items(q') : d.id <= c.id,
                      NEW x \in 1 .. N + 1, x > c.id
               PROVE  fate'[x] = "refused"
    BY <1>6, <1>8 DEF NewestOK
  <2>1. CASE ok
    <3>1. N + 1 <= c.id /\ c.id \in Nat
      BY <1>1, <1>3, <1>4, <1>8, <2>1
    <3> QED BY <1>1, <3>1
  <2>2. CASE ~ok
    <3>1. c \in Items(q) /\ \A d \in Items(q) : d.id <= c.id
      BY <1>8, <2>2
    <3>2. CASE x = N + 1
      BY <1>6, <2>2, <3>2
    <3>3. CASE x \in 1 .. N
      <4>1. fate[x] = "refused"
        BY <1>1, <3>1, <3>3 DEF IInv, NewestOK
      <4> QED BY <1>6, <3>3, <4>1
    <3> QED BY <1>a, <3>2, <3>3
  <2> QED BY <2>1, <2>2
<1>14. ASSUME MaxInFlight = 1, NEW x \in 1 .. N + 1, fate'[x] = "superseded"
       PROVE  \E j \in 1 .. N + 1 :
                /\ x < j /\ offered'[j] = offered'[x] /\ fate'[j] # "refused"
                /\ \A y \in x + 1 .. j - 1 : fate'[y] = "refused" \/ offered'[y] = offered'[x]
  <2>1. x \in 1 .. N
    BY <1>6, <1>a, <1>14
  <2>2. CASE fate[x] = "superseded"
    <3>1. PICK j \in 1 .. N :
            /\ x < j /\ offered[j] = offered[x] /\ fate[j] # "refused"
            /\ \A y \in x + 1 .. j - 1 : fate[y] = "refused" \/ offered[y] = offered[x]
      BY <1>1, <1>14, <2>1, <2>2 DEF IInv, CoalescesWithinBoundary
    <3>2. fate'[j] # "refused" /\ offered'[j] = offered'[x]
      BY <1>5, <1>6, <2>1, <3>1
    <3>3. ASSUME NEW y \in x + 1 .. j - 1
          PROVE  fate'[y] = "refused" \/ offered'[y] = offered'[x]
      <4>1. y \in 1 .. N
        BY <1>1, <2>1
      <4> QED BY <1>5, <1>6, <2>1, <3>1, <4>1
    <3> QED BY <1>b, <3>1, <3>2, <3>3
  <2>3. CASE fate[x] # "superseded"
    <3>1. x \in sup
      BY <1>6, <1>14, <2>1, <2>3
    <3>2. ok /\ x = l.id /\ l \in Items(q) /\ l.key = k /\ \A d \in Items(q) : d.id <= l.id
      BY <1>9, <1>14, <3>1
    <3>3. offered'[N + 1] = offered'[x] /\ fate'[N + 1] # "refused"
      <4>1. l.key = offered[l.id]
        BY <3>2 DEF IInv, FateOK
      <4> QED BY <1>5, <1>6, <2>1, <3>2, <4>1
    <3>4. ASSUME NEW y \in x + 1 .. (N + 1) - 1
          PROVE  fate'[y] = "refused"
      <4>1. y \in 1 .. N /\ y > l.id
        BY <1>1, <2>1, <3>2
      <4>2. fate[y] = "refused"
        BY <1>1, <1>8, <1>14, <3>2, <4>1 DEF IInv, NewestOK
      <4> QED BY <1>6, <4>1, <4>2
    <3>5. x < N + 1
      BY <1>1, <2>1
    <3> QED BY <1>b, <3>3, <3>4, <3>5
  <2> QED BY <2>2, <2>3
<1>15. MaxInFlight = 1 => CoalescesWithinBoundary'
  BY <1>6, <1>14 DEF CoalescesWithinBoundary
<1> QED BY <1>8, <1>10, <1>11, <1>12, <1>13, <1>15 DEF IInv

-----------------------------------------------------------------------------
LEMMA NextIInv == IInv /\ [Next]_vars => IInv'
<1> SUFFICES ASSUME IInv, [Next]_vars PROVE IInv'
  OBVIOUS
<1>1. CASE UNCHANGED vars
  <2>1. QueueOK(q') /\ Items(q') = Items(q) /\ q'.disposed = q.disposed
    BY <1>1 DEF IInv, vars
  <2> QED BY <1>1, <2>1, HeldIInv DEF IInv, TypeOK, vars
<1> QED BY <1>1, EnqueueIInv, HandlerOkIInv, HandlerFailsIInv, RetryIInv, DrainIInv, DisposeIInv DEF Next

\* The inductive invariant holds in every reachable state.
THEOREM Invariance == Spec => []IInv
BY InitIInv, NextIInv, PTL DEF Spec

\* Every variable keeps its type, the byte counters included: they never fall
\* below zero.
THEOREM TypeCorrect == Spec => []TypeOK
<1>1. IInv => TypeOK
  BY DEF IInv
<1> QED BY <1>1, Invariance, PTL

\* The queue stays within its high-water marks (queue.ts:188-203), also when a
\* snapshot is replaced by a larger one and when a failed event comes back.
THEOREM HighWaterMarks == Spec => []Bounded
<1>1. IInv => Bounded
  BY DEF IInv, QueueOK, Within, Bounded
<1> QED BY <1>1, Invariance, PTL

\* An unacknowledged event is waiting or running, exactly once, for any number
\* of handlers at a time (queue.ts:243-303).
THEOREM EveryEventIsKept == Spec => []NothingLost
<1>1. IInv => NothingLost
  <2> SUFFICES ASSUME IInv, NEW i \in DOMAIN fate, fate[i] = "pending"
               PROVE  \/ \E j \in DOMAIN q.queue : /\ q.queue[j].id = i
                                                   /\ \A k \in DOMAIN q.queue : q.queue[k].id = i => k = j
                      \/ \E e \in q.active : e.id = i
    BY DEF NothingLost
  <2>1. PICK e \in Items(q) : e.id = i
    BY DEF IInv, FateOK
  <2>2. DOMAIN q.queue = 1 .. Len(q.queue)
    BY QueueFacts DEF IInv, QueueOK
  <2> QED BY <2>1, <2>2, SMTT(60) DEF IInv, QueueOK, OneEach, Items
<1> QED BY <1>1, Invariance, PTL

\* With one handler at a time, the default of queue.ts:19, events end in the
\* order they were admitted, retries and dead letters included.
THEOREM AdmissionOrder == Spec => []InOrder
<1>1. IInv => InOrder
  BY DEF IInv, LogOK, InOrder
<1> QED BY <1>1, Invariance, PTL

\* With one handler at a time, a snapshot is superseded only within its
\* boundary: a retried snapshot that went back behind a newer boundary event
\* would be the last waiting one otherwise (queue.ts:188-192,289).
THEOREM CoalescingKeepsBoundaries ==
  ASSUME MaxInFlight = 1
  PROVE  Spec => []CoalescesWithinBoundary
<1>1. IInv => CoalescesWithinBoundary
  BY DEF IInv
<1> QED BY <1>1, Invariance, PTL

\* drain() resolves only when everything admitted before it is settled
\* (queue.ts:221-224,311-315).
THEOREM DrainsAreSound == Spec => DrainIsSound
<1> DEFINE Act == \A w \in Waiters : (waiting[w] # "resolved" /\ waiting'[w] = "resolved") =>
                    \A i \in DOMAIN fate : fate'[i] # "pending"
<1>1. IInv /\ IInv' /\ [Next]_vars => [Act]_vars
  <2> SUFFICES ASSUME IInv, IInv', Next, NEW w \in Waiters, waiting[w] # "resolved", waiting'[w] = "resolved",
                      NEW i \in DOMAIN fate
               PROVE  fate'[i] # "pending"
    OBVIOUS
  <2>1. ASSUME Items(q') = {}
        PROVE  fate'[i] # "pending"
    <3>1. i \in DOMAIN fate' \/ ~(\E k \in Kinds, b \in 1 .. MaxBytes : Enqueue(k, b))
      <4>1. (\E k \in Kinds, b \in 1 .. MaxBytes : Enqueue(k, b)) => waiting' = waiting
        BY DEF Enqueue
      <4> QED BY <4>1
    <3>2. i \in DOMAIN fate'
      <4>1. CASE fate' = fate
        BY <4>1
      <4>2. CASE \E ids, to : fate' = Settle(fate, ids, to)
        BY <4>2 DEF Settle
      <4> QED BY <3>1, <4>1, <4>2 DEF Next, HandlerOk, HandlerFails, Retry, Drain, Dispose
    <3> QED BY <2>1, <3>2 DEF IInv, FateOK
  <2>2. ASSUME NEW e \in q.active, HandlerOk(e)
        PROVE  fate'[i] # "pending"
    <3>1. Idle(Ended(q, e))
      BY <2>2 DEF HandlerOk, Wake
    <3>2. QueueOK(Ended(q, e))
      BY EndedOK DEF IInv
    <3>3. Items(q') = Items(Ended(q, e))
      BY <2>2, <3>2, PumpedOK DEF HandlerOk, Succeeded
    <3> QED BY <2>1, <3>1, <3>2, <3>3, IdleEmpty
  <2>3. ASSUME NEW e \in q.active, HandlerFails(e)
        PROVE  fate'[i] # "pending"
    <3>1. Idle(q') /\ QueueOK(q')
      BY <2>3 DEF HandlerFails, Wake, IInv
    <3> QED BY <2>1, <3>1, IdleEmpty
  <2>4. ASSUME NEW x \in Waiters, Drain(x)
        PROVE  fate'[i] # "pending"
    <3>1. Idle(q) /\ q' = q
      BY <2>4 DEF Drain, IInv, TypeOK
    <3> QED BY <2>1, <3>1, IdleEmpty DEF IInv, QueueOK
  <2>5. CASE Dispose
    <3>1. q'.disposed
      BY <2>5, DisposedOK DEF Dispose, IInv
    <3>2. i \in DOMAIN fate'
      BY <2>5 DEF Dispose, Settle
    <3> QED BY <3>1, <3>2 DEF IInv, FateOK
  <2> QED BY <2>2, <2>3, <2>4, <2>5 DEF Next, Enqueue, Retry
<1> QED BY <1>1, Invariance, PTL DEF Spec, DrainIsSound

-----------------------------------------------------------------------------
(* The spool beneath the queue (SidecarSpool), whose names this module      *)
(* knows as S!...                                                           *)

CONSTANTS SpoolBytes, MaxBacklog, ReadBytes, MaxGap, SpoolAttempts, MaxPending,
          MaxRecords, MaxBridges, MaxFails, MayTear
VARIABLES file, marker, prod, disk, t, pass, fails, got

S == INSTANCE SidecarSpool WITH MaxBytes <- SpoolBytes, MaxAttempts <- SpoolAttempts

ProdFields == {"bridge", "seq", "pending", "frozen", "attempts", "pc", "stopped"}
TailFields == {"at", "anchor", "drain", "last", "once", "stream", "known", "stop"}
PassFields == {"pc", "sealed", "kept", "todo", "src", "ino", "at", "end", "deferred", "last", "link"}

\* The records of the model have the fields it reads and writes.
RecordsOK ==
  /\ dir \in [S!Inodes -> SUBSET ({"active", "sealed"} \cup S!Anchors)]
  /\ DOMAIN prod = ProdFields /\ DOMAIN t = TailFields /\ DOMAIN pass = PassFields

\* One inode has the active name, and none while the producer makes the next.
OneActive ==
  /\ \A i, j \in S!Named("active") : i = j
  /\ prod.pc = "create" => S!Named("active") = {}

\* One generation is sealed, and none when the producer renames the next.
OneSealed ==
  /\ \A i, j \in S!Named("sealed") : i = j
  /\ prod.pc = "rename" => S!Named("sealed") = {}

\* The links of one generation are all there are.
OneAnchored == \A a, b \in S!AnchorNames : a[1] = b[1]

\* The names generation i has when step k of its chain is due.
ChainNames(i, k) ==
  {<<i, "draining">> : l \in {k} \cap 2 .. 4} \cup {<<i, "final">> : l \in {k} \cap 4 .. 6}
    \cup {<<i, "retained">> : l \in {k} \cap 6 .. 7}

\* What a pass knows of the links: its listing until it has bound one of them,
\* then that one alone, until a chain is under way.
Bound ==
  /\ pass.pc \in {"bind", "alias"} => S!AnchorNames \subseteq pass.kept
  /\ pass.pc = "alias" => t.anchor = pass.src
  /\ pass.pc \in {"drain", "open", "line", "end"} => t.drain # S!None \/ S!AnchorNames \subseteq {t.anchor}
  /\ pass.pc = "older" => t.drain = S!None /\ S!AnchorNames \subseteq {t.anchor}
  /\ pass.pc = "chain" => /\ pass.link \in 1 .. 7 /\ S!AnchorNames \subseteq ChainNames(pass.src[1], pass.link)
                          /\ t.drain = S!None => pass.link = 1

SpoolInv == RecordsOK /\ OneActive /\ OneSealed /\ OneAnchored /\ Bound

\* What an operator of the producer leaves of its record.
LEMMA ProducerRecord ==
  ASSUME RecordsOK
  PROVE  /\ \A m : S!Failed(m) => DOMAIN prod' = DOMAIN prod /\ prod'.pc = "idle"
         /\ \A x : S!Step(x) => DOMAIN prod' = DOMAIN prod /\ prod'.pc = x
         /\ S!Frozen => DOMAIN prod' = DOMAIN prod /\ prod'.pc = "append"
         /\ \A p : DOMAIN p = DOMAIN prod => /\ DOMAIN S!Flushing(p) = DOMAIN prod
                                             /\ S!Flushing(p).pc \in {"idle", "append", "seal"}
<1>1. ASSUME NEW m, S!Failed(m) PROVE DOMAIN prod' = DOMAIN prod /\ prod'.pc = "idle"
  BY <1>1 DEF S!Failed, RecordsOK
<1>2. ASSUME NEW x, S!Step(x) PROVE DOMAIN prod' = DOMAIN prod /\ prod'.pc = x
  BY <1>2 DEF S!Step, RecordsOK
<1>3. ASSUME S!Frozen PROVE DOMAIN prod' = DOMAIN prod /\ prod'.pc = "append"
  BY <1>3 DEF S!Frozen, RecordsOK
<1>4. ASSUME NEW p, DOMAIN p = DOMAIN prod
      PROVE  DOMAIN S!Flushing(p) = DOMAIN prod /\ S!Flushing(p).pc \in {"idle", "append", "seal"}
  BY <1>4 DEF S!Flushing, RecordsOK
<1> QED BY <1>1, <1>2, <1>3, <1>4

LEMMA Creates ==
  ASSUME SpoolInv, S!Create, S!Named("active") = {}
  PROVE  /\ dir' \in [S!Inodes -> SUBSET ({"active", "sealed"} \cup S!Anchors)]
         /\ \A i, j \in S!Named("active")' : i = j
         /\ S!Named("sealed")' = S!Named("sealed") /\ S!AnchorNames' \subseteq S!AnchorNames
<1>1. PICK i \in S!Inodes : dir[i] = {} /\ dir' = [dir EXCEPT ![i] = {"active"}]
  BY DEF S!Create
<1>2. \A j \in S!Inodes : dir'[j] = IF j = i THEN {"active"} ELSE dir[j]
  BY <1>1 DEF SpoolInv, RecordsOK
<1>3. dir' \in [S!Inodes -> SUBSET ({"active", "sealed"} \cup S!Anchors)]
  BY <1>1 DEF SpoolInv, RecordsOK
<1>4. S!Named("active")' \subseteq {i} /\ S!Named("sealed")' = S!Named("sealed")
  BY <1>1, <1>2 DEF S!Named, S!Inodes
<1>5. S!AnchorNames' \subseteq S!AnchorNames
  BY <1>1, <1>2 DEF S!AnchorNames, S!Anchors, S!Files, S!Inodes
<1> QED BY <1>3, <1>4, <1>5

\* What a step of the producer leaves of the names.
LEMMA ProducerNames ==
  ASSUME SpoolInv, S!Produce
  PROVE  /\ RecordsOK' /\ OneActive' /\ OneSealed' /\ t' = t /\ pass' = pass
         /\ S!AnchorNames' \subseteq S!AnchorNames
<1>1. t' = t /\ pass' = pass
  BY DEF S!Produce, S!Log, S!Retry, S!Refused, S!Seal, S!ListSealed, S!Wait, S!WaitEnds, S!Rename, S!CreateActive,
         S!AppendSome, S!Commit, S!ProducerFails, S!Kill
<1>2. ASSUME dir' = dir, DOMAIN prod' = DOMAIN prod, prod'.pc \in {"rename", "create"} =>
                (prod'.pc = "rename" /\ S!Named("sealed") = {}) \/ prod'.pc = prod.pc
      PROVE  /\ RecordsOK' /\ OneActive' /\ OneSealed' /\ S!AnchorNames' \subseteq S!AnchorNames
  <2>1. \A k : S!Named(k)' = S!Named(k)
    BY <1>2 DEF S!Named, S!Inodes
  <2>2. S!AnchorNames' = S!AnchorNames
    BY <1>2 DEF S!AnchorNames, S!Anchors, S!Files, S!Inodes
  <2>3. RecordsOK'
    BY <1>1, <1>2 DEF SpoolInv, RecordsOK, S!Inodes, S!Anchors
  <2>4. OneActive' /\ OneSealed'
    BY <1>2, <2>1 DEF SpoolInv, OneActive, OneSealed
  <2> QED BY <2>2, <2>3, <2>4
<1>3. ASSUME S!Create, S!Frozen, S!Named("active") = {}
      PROVE  /\ RecordsOK' /\ OneActive' /\ OneSealed' /\ S!AnchorNames' \subseteq S!AnchorNames
  <2>1. DOMAIN prod' = DOMAIN prod /\ prod'.pc = "append"
    BY <1>3, ProducerRecord DEF SpoolInv
  <2>2. /\ dir' \in [S!Inodes -> SUBSET ({"active", "sealed"} \cup S!Anchors)]
        /\ \A i, j \in S!Named("active")' : i = j
        /\ S!Named("sealed")' = S!Named("sealed") /\ S!AnchorNames' \subseteq S!AnchorNames
    BY <1>3, Creates
  <2>3. RecordsOK'
    BY <1>1, <2>1, <2>2 DEF SpoolInv, RecordsOK, S!Inodes, S!Anchors
  <2>4. OneActive' /\ OneSealed'
    BY <2>1, <2>2 DEF SpoolInv, OneActive, OneSealed
  <2> QED BY <2>2, <2>3, <2>4
<1>4. ASSUME S!Rename PROVE RecordsOK' /\ OneActive' /\ OneSealed' /\ S!AnchorNames' \subseteq S!AnchorNames
  <2>1. DOMAIN prod' = DOMAIN prod /\ prod'.pc = "create" /\ prod.pc = "rename"
    BY <1>4, ProducerRecord DEF SpoolInv, S!Rename
  <2>2. dir' = [i \in S!Inodes |-> IF "active" \in dir[i] THEN {"sealed"} ELSE dir[i]]
    BY <1>4 DEF S!Rename
  <2>3. \A i \in S!Inodes : dir'[i] = IF "active" \in dir[i] THEN {"sealed"} ELSE dir[i]
    BY <2>2
  <2>4. S!Named("active")' = {} /\ S!Named("sealed")' \subseteq S!Named("active") \cup S!Named("sealed")
    BY <2>3 DEF S!Named, S!Inodes
  <2>5. S!AnchorNames' \subseteq S!AnchorNames
    BY <2>3 DEF S!AnchorNames, S!Anchors, S!Files, S!Inodes
  <2>6. dir' \in [S!Inodes -> SUBSET ({"active", "sealed"} \cup S!Anchors)]
    BY <2>2 DEF SpoolInv, RecordsOK
  <2>7. RecordsOK'
    BY <1>1, <2>1, <2>6 DEF SpoolInv, RecordsOK, S!Inodes, S!Anchors
  <2>8. OneActive' /\ OneSealed'
    BY <2>1, <2>4 DEF SpoolInv, OneActive, OneSealed
  <2> QED BY <2>5, <2>7, <2>8
<1>5. CASE S!Log
  <2>1. CASE prod' = [prod EXCEPT !.stopped = TRUE]
    BY <1>2, <1>5, <2>1 DEF S!Log, S!spool, SpoolInv, RecordsOK
  <2>2. CASE prod' = S!Flushing([prod EXCEPT !.pending = @ + 1])
    <3>1. PICK p : p = [prod EXCEPT !.pending = @ + 1]
      OBVIOUS
    <3>2. DOMAIN p = DOMAIN prod /\ prod' = S!Flushing(p)
      BY <2>2, <3>1
    <3>3. DOMAIN prod' = DOMAIN prod /\ prod'.pc \in {"idle", "append", "seal"}
      BY <3>2, ProducerRecord DEF SpoolInv
    <3> QED BY <1>2, <1>5, <3>3 DEF S!Log, S!spool
  <2> QED BY <1>1, <1>5, <2>1, <2>2 DEF S!Log
<1>6. CASE S!Retry
  <2>1. DOMAIN prod' = DOMAIN prod /\ prod'.pc \in {"idle", "append", "seal"}
    BY <1>6, ProducerRecord DEF SpoolInv, S!Retry
  <2> QED BY <1>1, <1>2, <1>6, <2>1 DEF S!Retry, S!spool
<1>7. CASE S!Refused \/ S!WaitEnds \/ S!ProducerFails
  <2>1. DOMAIN prod' = DOMAIN prod /\ prod'.pc = "idle" /\ dir' = dir
    BY <1>7, ProducerRecord DEF SpoolInv, S!Refused, S!WaitEnds, S!ProducerFails, S!spool
  <2> QED BY <1>1, <1>2, <2>1
<1>8. CASE S!Wait
  <2>1. DOMAIN prod' = DOMAIN prod /\ prod'.pc \in {"idle", "list"} /\ dir' = dir
    BY <1>8, ProducerRecord DEF SpoolInv, S!Wait, S!spool
  <2> QED BY <1>1, <1>2, <2>1
<1>9. CASE S!Seal
  <2>1. CASE S!Named("active") = {} /\ S!Create /\ S!Frozen
    BY <1>1, <1>3, <2>1
  <2>2. CASE /\ dir' = dir
             /\ S!Frozen \/ S!Failed(TRUE) \/ S!Step("list")
    <3>1. DOMAIN prod' = DOMAIN prod /\ prod'.pc \in {"idle", "list", "append"}
      BY <2>2, ProducerRecord DEF SpoolInv
    <3> QED BY <1>1, <1>2, <2>2, <3>1
  <2> QED BY <1>9, <2>1, <2>2 DEF S!Seal
<1>10. CASE S!ListSealed
  <2>1. /\ DOMAIN prod' = DOMAIN prod /\ dir' = dir
        /\ prod'.pc = "wait" \/ (prod'.pc = "rename" /\ S!Named("sealed") = {})
    BY <1>10, ProducerRecord DEF SpoolInv, S!ListSealed, S!spool, S!SealPending
  <2> QED BY <1>1, <1>2, <2>1
<1>11. CASE S!CreateActive
  BY <1>1, <1>3, <1>11 DEF S!CreateActive, SpoolInv, OneActive
<1>12. CASE S!AppendSome
  BY <1>1, <1>2, <1>12 DEF S!AppendSome
<1>13. CASE S!Commit
  <2>1. PICK p : p = [prod EXCEPT !.seq = @ + 1, !.pending = @ - 1, !.frozen = FALSE, !.attempts = 0]
    OBVIOUS
  <2>2. DOMAIN p = DOMAIN prod /\ prod' = S!Flushing(p)
    BY <1>13, <2>1 DEF S!Commit
  <2>3. DOMAIN prod' = DOMAIN prod /\ prod'.pc \in {"idle", "append", "seal"} /\ dir' = dir
    BY <1>13, <2>2, ProducerRecord DEF SpoolInv, S!Commit, S!spool
  <2> QED BY <1>1, <1>2, <2>3
<1>14. CASE S!Kill
  <2>1. DOMAIN prod' = DOMAIN prod /\ prod'.pc = "idle" /\ dir' = dir
    BY <1>14 DEF S!Kill, S!Producer, S!spool, SpoolInv, RecordsOK, ProdFields
  <2> QED BY <1>1, <1>2, <2>1
<1> QED BY <1>1, <1>4, <1>5, <1>6, <1>7, <1>8, <1>9, <1>10, <1>11, <1>12, <1>13, <1>14 DEF S!Produce


\* A step of the tailer that touches no name.
LEMMA NamesKept ==
  ASSUME SpoolInv, prod' = prod, dir' = dir, DOMAIN t' = TailFields, DOMAIN pass' = PassFields
  PROVE  RecordsOK' /\ OneActive' /\ OneSealed' /\ S!AnchorNames' = S!AnchorNames
<1>1. \A k : S!Named(k)' = S!Named(k)
  BY DEF S!Named, S!Inodes
<1>2. S!AnchorNames' = S!AnchorNames
  BY DEF S!AnchorNames, S!Anchors, S!Files, S!Inodes
<1>3. RecordsOK'
  BY DEF SpoolInv, RecordsOK, S!Inodes, S!Anchors
<1>4. OneActive' /\ OneSealed'
  BY <1>1 DEF SpoolInv, OneActive, OneSealed
<1> QED BY <1>2, <1>3, <1>4

\* A step of the tailer links or unlinks names of one generation.
LEMMA NamesChanged ==
  ASSUME SpoolInv, prod' = prod, NEW i, NEW K \in SUBSET S!Anchors, NEW L, dir' = [dir EXCEPT ![i] = (@ \cup K) \ L],
         DOMAIN t' = TailFields, DOMAIN pass' = PassFields
  PROVE  /\ RecordsOK' /\ OneActive' /\ OneSealed'
         /\ S!AnchorNames' \subseteq (S!AnchorNames \cup ({i} \X K)) \ ({i} \X L)
<1>1. dir \in [S!Inodes -> SUBSET ({"active", "sealed"} \cup S!Anchors)]
  BY DEF SpoolInv, RecordsOK
<1>2. \A j \in S!Inodes : dir'[j] = IF j = i THEN (dir[j] \cup K) \ L ELSE dir[j]
  BY <1>1
<1>3. dir' \in [S!Inodes -> SUBSET ({"active", "sealed"} \cup S!Anchors)]
  BY <1>1
<1>4. S!Named("active")' \subseteq S!Named("active") /\ S!Named("sealed")' \subseteq S!Named("sealed")
  <2>1. "active" \notin K /\ "sealed" \notin K
    BY DEF S!Anchors
  <2> QED BY <1>2, <2>1 DEF S!Named, S!Inodes
<1>5. S!AnchorNames' \subseteq (S!AnchorNames \cup ({i} \X K)) \ ({i} \X L)
  <2> SUFFICES ASSUME NEW n \in S!AnchorNames'
               PROVE  (n \in S!AnchorNames \/ n \in {i} \X K) /\ n \notin {i} \X L
    OBVIOUS
  <2>1. n \in S!Files /\ n[2] \in S!Anchors /\ n[2] \in dir'[n[1]]
    BY DEF S!AnchorNames, S!Anchors, S!Files, S!Inodes
  <2>2. PICK j \in S!Inodes, k \in {"sealed"} \cup S!Anchors : n = <<j, k>>
    <3>1. PICK A, B : A = S!Inodes /\ B = {"sealed"} \cup S!Anchors
      OBVIOUS
    <3>2. n \in A \X B
      BY <2>1, <3>1 DEF S!Files
    <3>3. PICK j \in A, k \in B : n = <<j, k>>
      BY <3>2
    <3> QED BY <3>1, <3>3
  <2>3. k \in S!Anchors /\ k \in dir'[j]
    BY <2>1, <2>2
  <2>4. CASE j = i
    <3>1. k \in (dir[j] \cup K) \ L
      BY <1>2, <2>3, <2>4
    <3> QED BY <2>1, <2>2, <2>3, <2>4, <3>1 DEF S!AnchorNames
  <2>5. CASE j # i
    <3>1. k \in dir[j]
      BY <1>2, <2>3, <2>5
    <3> QED BY <2>1, <2>2, <2>3, <2>5, <3>1 DEF S!AnchorNames
  <2> QED BY <2>4, <2>5
<1>6. RecordsOK'
  BY <1>3 DEF SpoolInv, RecordsOK, S!Inodes, S!Anchors
<1>7. OneActive' /\ OneSealed'
  BY <1>4 DEF SpoolInv, OneActive, OneSealed
<1> QED BY <1>5, <1>6, <1>7

\* The end of a pass, by a quarantine or not.
LEMMA EndFacts ==
  /\ \A tt, w : S!Stop(tt, w) => pass' = S!Idle /\ DOMAIN t' = DOMAIN tt
  /\ \A names, tt : S!Backlogged(names, tt) => pass' = S!Idle /\ DOMAIN t' = DOMAIN tt
  /\ DOMAIN S!Idle = PassFields /\ S!Idle.pc = "idle"
<1>1. ASSUME NEW tt, NEW w, S!Stop(tt, w) PROVE pass' = S!Idle /\ DOMAIN t' = DOMAIN tt
  BY <1>1 DEF S!Stop, S!Quarantined, S!EndPass
<1>2. ASSUME NEW names, NEW tt, S!Backlogged(names, tt) PROVE pass' = S!Idle /\ DOMAIN t' = DOMAIN tt
  BY <1>1, <1>2 DEF S!Backlogged, S!EndPass
<1>3. DOMAIN S!Idle = PassFields /\ S!Idle.pc = "idle"
  BY DEF S!Idle, PassFields
<1> QED BY <1>1, <1>2, <1>3

LEMMA AfterReadFacts ==
  ASSUME DOMAIN pass = PassFields, NEW tt, NEW r, S!AfterRead(tt, r)
  PROVE  /\ DOMAIN pass' = PassFields
         /\ \/ pass'.pc = "idle" /\ DOMAIN t' = DOMAIN tt
            \/ pass'.pc \in {"drain", "end"} /\ t' = tt
<1>1. CASE \E w : S!Stop(tt, w)
  BY <1>1, EndFacts
<1>2. CASE \E names : S!Backlogged(names, tt)
  BY <1>2, EndFacts
<1>3. CASE t' = tt /\ \E x \in {"drain", "end"} : pass' = [pass EXCEPT !.pc = x]
  BY <1>3 DEF PassFields
<1> QED
  BY <1>1, <1>2, <1>3 DEF S!AfterRead

\* A pass that goes on with what it knows of the links, or is over.
LEMMA PassGoesOn ==
  ASSUME SpoolInv, prod' = prod, dir' = dir, DOMAIN t' = TailFields, DOMAIN pass' = PassFields,
         \/ pass'.pc = "idle"
         \/ /\ pass.pc \in {"drain", "open", "line", "end", "older"} /\ t'.drain = t.drain /\ t'.anchor = t.anchor
            /\ pass'.pc \in {"drain", "open", "line", "end"} \/ (pass'.pc = "older" /\ t.drain = S!None)
  PROVE  SpoolInv'
<1>1. RecordsOK' /\ OneActive' /\ OneSealed' /\ S!AnchorNames' = S!AnchorNames
  BY NamesKept
<1>2. OneAnchored'
  BY <1>1 DEF SpoolInv, OneAnchored
<1>3. Bound'
  BY <1>1 DEF SpoolInv, Bound, S!None
<1> QED BY <1>1, <1>2, <1>3 DEF SpoolInv

LEMMA Unlinked ==
  ASSUME SpoolInv, prod' = prod, NEW n, dir' = [dir EXCEPT ![n[1]] = @ \ {n[2]}],
         DOMAIN t' = TailFields, DOMAIN pass' = PassFields
  PROVE  RecordsOK' /\ OneActive' /\ OneSealed' /\ S!AnchorNames' \subseteq S!AnchorNames \ {n}
<1>1. PICK i, K, L : i = n[1] /\ K = {} /\ L = {n[2]}
  OBVIOUS
<1>2. dir' = [dir EXCEPT ![i] = (@ \cup K) \ L] /\ K \in SUBSET S!Anchors
  BY <1>1
<1>3. /\ RecordsOK' /\ OneActive' /\ OneSealed'
      /\ S!AnchorNames' \subseteq (S!AnchorNames \cup ({i} \X K)) \ ({i} \X L)
  BY <1>2, NamesChanged
<1>4. n \notin S!AnchorNames'
  <2> SUFFICES ASSUME n \in S!AnchorNames' PROVE FALSE
    OBVIOUS
  <2>1. n \in S!Inodes \X ({"sealed"} \cup S!Anchors) /\ n[2] \in dir'[n[1]]
    BY DEF S!AnchorNames, S!Anchors, S!Files, S!Inodes
  <2>2. n[1] \in DOMAIN dir
    BY <2>1 DEF SpoolInv, RecordsOK
  <2> QED BY <2>1, <2>2
<1> QED BY <1>1, <1>3, <1>4

LEMMA StartPassInv == ASSUME SpoolInv, S!StartPass PROVE SpoolInv'
<1>1. prod' = prod /\ dir' = dir /\ pass.pc = "idle"
  BY DEF S!StartPass, S!Tailing
<1>2. CASE S!AnchorNames = {}
  <2>1. t' = S!Rewound(t, S!SealedNames) /\ pass' = S!Scan(S!SealedNames, {})
    BY <1>2 DEF S!StartPass
  <2>2. DOMAIN t' = TailFields
    BY <2>1 DEF S!Rewound, SpoolInv, RecordsOK, TailFields
  <2>3. DOMAIN pass' = PassFields /\ pass'.pc = "drain"
    BY <2>1 DEF S!Scan, S!Idle, PassFields
  <2>4. RecordsOK' /\ OneActive' /\ OneSealed' /\ S!AnchorNames' = {}
    BY <1>1, <1>2, <2>2, <2>3, NamesKept
  <2>5. OneAnchored' /\ Bound'
    BY <2>3, <2>4 DEF OneAnchored, Bound
  <2> QED BY <2>4, <2>5 DEF SpoolInv
<1>3. CASE S!AnchorNames # {}
  <2>1. t' = t /\ pass' = [S!Idle EXCEPT !.pc = "bind", !.sealed = S!SealedNames, !.kept = S!AnchorNames]
    BY <1>3 DEF S!StartPass
  <2>2. DOMAIN t' = TailFields
    BY <2>1 DEF SpoolInv, RecordsOK
  <2>3. DOMAIN pass' = PassFields /\ pass'.pc = "bind" /\ pass'.kept = S!AnchorNames
    BY <2>1 DEF S!Idle, PassFields
  <2>4. RecordsOK' /\ OneActive' /\ OneSealed' /\ S!AnchorNames' = S!AnchorNames
    BY <1>1, <2>2, <2>3, NamesKept
  <2>5. OneAnchored' /\ Bound'
    BY <2>3, <2>4 DEF SpoolInv, OneAnchored, Bound
  <2> QED BY <2>4, <2>5 DEF SpoolInv
<1> QED BY <1>2, <1>3

LEMMA BindInv == ASSUME SpoolInv, S!Bind PROVE SpoolInv'
<1>1. prod' = prod /\ dir' = dir /\ pass.pc = "bind"
  BY DEF S!Bind, S!Tailing
<1>2. CASE \E w : S!Stop(t, w)
  <2>1. DOMAIN t' = TailFields /\ DOMAIN pass' = PassFields /\ pass'.pc = "idle"
    BY <1>2, EndFacts DEF SpoolInv, RecordsOK
  <2> QED BY <1>1, <2>1, PassGoesOn
<1>3. CASE \E n, a : /\ t' = [t EXCEPT !.at = a, !.last = n, !.anchor = n]
                     /\ pass' = [pass EXCEPT !.pc = "alias", !.src = n]
  <2>1. PICK n, a : /\ t' = [t EXCEPT !.at = a, !.last = n, !.anchor = n]
                    /\ pass' = [pass EXCEPT !.pc = "alias", !.src = n]
    BY <1>3
  <2>2. DOMAIN t' = TailFields /\ t'.anchor = n
    BY <2>1 DEF SpoolInv, RecordsOK, TailFields
  <2>3. DOMAIN pass' = PassFields /\ pass'.pc = "alias" /\ pass'.src = n /\ pass'.kept = pass.kept
    BY <2>1 DEF SpoolInv, RecordsOK, PassFields
  <2>4. RecordsOK' /\ OneActive' /\ OneSealed' /\ S!AnchorNames' = S!AnchorNames
    BY <1>1, <2>2, <2>3, NamesKept
  <2>5. OneAnchored' /\ Bound'
    BY <1>1, <2>1, <2>2, <2>3, <2>4 DEF SpoolInv, OneAnchored, Bound
  <2> QED BY <2>4, <2>5 DEF SpoolInv
<1>4. \/ \E w : S!Stop(t, w)
      \/ \E n, a : /\ t' = [t EXCEPT !.at = a, !.last = n, !.anchor = n]
                   /\ pass' = [pass EXCEPT !.pc = "alias", !.src = n]
  BY ZenonT(60) DEF S!Bind
<1> QED BY <1>2, <1>3, <1>4

LEMMA AliasInv == ASSUME SpoolInv, S!Alias PROVE SpoolInv'
<1> DEFINE others == pass.kept \ {pass.src}
           twins == {n \in pass.sealed : n[1] = pass.src[1]}
<1>1. prod' = prod /\ pass.pc = "alias" /\ t.anchor = pass.src /\ S!AnchorNames \subseteq pass.kept
  BY DEF S!Alias, S!Tailing, SpoolInv, Bound
<1>2. CASE others # {}
  <2>1. PICK n, a : /\ dir' = [dir EXCEPT ![n[1]] = @ \ {n[2]}] /\ t' = [t EXCEPT !.at = a]
                    /\ pass' = [pass EXCEPT !.kept = @ \ {n}]
    BY <1>2 DEF S!Alias, S!Unlink
  <2>2. DOMAIN t' = TailFields /\ t'.anchor = t.anchor
    BY <2>1 DEF SpoolInv, RecordsOK, TailFields
  <2>3. DOMAIN pass' = PassFields /\ pass'.pc = "alias" /\ pass'.src = pass.src /\ pass'.kept = pass.kept \ {n}
    BY <1>1, <2>1 DEF SpoolInv, RecordsOK, PassFields
  <2>4. RecordsOK' /\ OneActive' /\ OneSealed' /\ S!AnchorNames' \subseteq S!AnchorNames \ {n}
    BY <1>1, <2>1, <2>2, <2>3, Unlinked
  <2>5. OneAnchored' /\ Bound'
    BY <1>1, <2>2, <2>3, <2>4 DEF SpoolInv, OneAnchored, Bound
  <2> QED BY <2>4, <2>5 DEF SpoolInv
<1>3. CASE others = {} /\ twins # {}
  <2>1. PICK n : /\ dir' = [dir EXCEPT ![n[1]] = @ \ {n[2]}] /\ t' = t
                 /\ pass' = [pass EXCEPT !.sealed = @ \ twins]
    BY <1>3 DEF S!Alias, S!Unlink
  <2>2. DOMAIN t' = TailFields /\ t'.anchor = t.anchor
    BY <2>1 DEF SpoolInv, RecordsOK, TailFields
  <2>3. DOMAIN pass' = PassFields /\ pass'.pc = "alias" /\ pass'.src = pass.src /\ pass'.kept = pass.kept
    BY <1>1, <2>1 DEF SpoolInv, RecordsOK, PassFields
  <2>4. RecordsOK' /\ OneActive' /\ OneSealed' /\ S!AnchorNames' \subseteq S!AnchorNames \ {n}
    BY <1>1, <2>1, <2>2, <2>3, Unlinked
  <2>5. OneAnchored' /\ Bound'
    BY <1>1, <2>2, <2>3, <2>4 DEF SpoolInv, OneAnchored, Bound
  <2> QED BY <2>4, <2>5 DEF SpoolInv
<1>4. CASE others = {} /\ twins = {}
  <2>1. /\ dir' = dir /\ t' = [S!Rewound(t, pass.sealed) EXCEPT !.drain = S!None]
        /\ pass' = S!Scan(pass.sealed, pass.kept)
    BY <1>4 DEF S!Alias
  <2>2. PICK r : r = S!Rewound(t, pass.sealed)
    OBVIOUS
  <2>3. DOMAIN r = TailFields /\ r.anchor = t.anchor
    BY <2>2 DEF S!Rewound, SpoolInv, RecordsOK, TailFields
  <2>4. DOMAIN t' = TailFields /\ t'.anchor = t.anchor
    BY <2>1, <2>2, <2>3 DEF TailFields
  <2>5. DOMAIN pass' = PassFields /\ pass'.pc = "drain"
    BY <2>1 DEF S!Scan, S!Idle, PassFields
  <2>6. RecordsOK' /\ OneActive' /\ OneSealed' /\ S!AnchorNames' = S!AnchorNames
    BY <1>1, <2>1, <2>4, <2>5, NamesKept
  <2>7. S!AnchorNames \subseteq {t.anchor}
    BY <1>1, <1>4
  <2>8. OneAnchored' /\ Bound'
    BY <2>4, <2>5, <2>6, <2>7 DEF SpoolInv, OneAnchored, Bound
  <2> QED BY <2>6, <2>8 DEF SpoolInv
<1> QED BY <1>2, <1>3, <1>4

\* The steps of a pass that touch no name.
LEMMA ReadingInv ==
  ASSUME SpoolInv, S!AliasFails \/ S!Choose \/ S!Open \/ S!SkipLine \/ S!Accept \/ S!ReadEnds \/ S!Drained
                   \/ S!PassEnds \/ S!ReclaimFails
  PROVE  SpoolInv'
<1>1. prod' = prod /\ dir' = dir
  BY DEF S!AliasFails, S!Choose, S!Open, S!SkipLine, S!Accept, S!ReadEnds, S!Drained, S!PassEnds, S!ReclaimFails,
         S!Tailing
<1>2. DOMAIN t = TailFields /\ DOMAIN pass = PassFields
  BY DEF SpoolInv, RecordsOK
<1>3. \A n, todo, l : LET p == S!Visited(n, todo, l) IN
         DOMAIN p = PassFields /\ p.pc \in {"open", "line", "end", "drain"}
  BY <1>2 DEF S!Visited, S!Skipped, PassFields
<1>4. CASE S!AliasFails
  BY <1>1, <1>2, <1>4, EndFacts, PassGoesOn DEF S!AliasFails
<1>5. CASE S!Choose
  <2>1. CASE S!Beside
    BY <1>1, <1>2, <1>5, <2>1, EndFacts, PassGoesOn DEF S!Choose
  <2>2. CASE ~S!Beside
    <3>1. DOMAIN pass' = PassFields /\ pass'.pc \in {"open", "line", "end", "drain"} /\ pass.pc = "drain"
      BY <1>3, <1>5, <2>2 DEF S!Choose
    <3>2. DOMAIN t' = TailFields /\ t'.drain = t.drain /\ t'.anchor = t.anchor
      BY <1>2, <1>5, <2>2 DEF S!Choose, TailFields
    <3> QED BY <1>1, <3>1, <3>2, PassGoesOn
  <2> QED BY <2>1, <2>2
<1>6. CASE S!Open
  <2>1. DOMAIN pass' = PassFields /\ pass'.pc \in {"line", "end", "drain"} /\ pass.pc = "open" /\ t' = t
    BY <1>2, <1>6 DEF S!Open, S!Skipped, PassFields
  <2> QED BY <1>1, <1>2, <2>1, PassGoesOn
<1>7. CASE S!SkipLine
  <2>1. DOMAIN pass' = PassFields /\ pass'.pc = "line" /\ pass.pc = "line"
    BY <1>2, <1>7 DEF S!SkipLine, PassFields
  <2>2. DOMAIN t' = TailFields /\ t'.drain = t.drain /\ t'.anchor = t.anchor
    BY <1>2, <1>7 DEF S!SkipLine, TailFields
  <2> QED BY <1>1, <2>1, <2>2, PassGoesOn
<1>8. ASSUME NEW tt, DOMAIN tt = TailFields, tt.drain = t.drain, tt.anchor = t.anchor, NEW r, S!AfterRead(tt, r),
             pass.pc \in {"line", "older"}
      PROVE  SpoolInv'
  <2>1. DOMAIN pass' = PassFields /\ DOMAIN t' = TailFields
    BY <1>2, <1>8, AfterReadFacts
  <2>2. pass'.pc = "idle" \/ (pass'.pc \in {"drain", "end"} /\ t' = tt)
    BY <1>2, <1>8, AfterReadFacts
  <2> QED BY <1>1, <1>8, <2>1, <2>2, PassGoesOn
<1>9. \A off, gaps : LET tt == S!Stored(t, off, gaps) IN
        DOMAIN tt = TailFields /\ tt.drain = t.drain /\ tt.anchor = t.anchor
  BY <1>2 DEF S!Stored, TailFields
<1>10. CASE S!Accept
  <2>1. PICK r : IF S!Defers(r) THEN S!Deferred ELSE S!Delivered(r)
    BY <1>10 DEF S!Accept
  <2>2. pass.pc = "line"
    BY <1>10 DEF S!Accept
  <2>3. CASE S!Deferred
    <3>1. PICK tt, gaps : tt = S!Stored(t, pass.at, gaps) /\ gaps = S!AtOf(pass.src).gaps + 1
      OBVIOUS
    <3>2. DOMAIN tt = TailFields /\ tt.drain = t.drain /\ tt.anchor = t.anchor
      BY <1>9, <3>1
    <3>3. CASE S!Stop(tt, "gap")
      BY <1>1, <3>2, <3>3, EndFacts, PassGoesOn
    <3>4. CASE t' = tt /\ pass' = [S!Skipped(pass) EXCEPT !.deferred = TRUE]
      <4>1. PICK p : p = S!Skipped(pass)
        OBVIOUS
      <4>2. DOMAIN p = PassFields /\ p.pc \in {"end", "drain"}
        BY <1>2, <4>1 DEF S!Skipped, PassFields
      <4>3. DOMAIN pass' = PassFields /\ pass'.pc \in {"end", "drain"}
        BY <3>4, <4>1, <4>2 DEF PassFields
      <4> QED BY <1>1, <2>2, <3>2, <3>4, <4>3, PassGoesOn
    <3> QED BY <2>3, <3>1, <3>3, <3>4 DEF S!Deferred
  <2>4. CASE S!Delivered(r)
    <3>1. DOMAIN pass' = PassFields /\ pass'.pc = "line"
      BY <1>2, <2>2, <2>4 DEF S!Delivered, PassFields
    <3>2. DOMAIN t' = TailFields /\ t'.drain = t.drain /\ t'.anchor = t.anchor
      BY <1>2, <2>4 DEF S!Delivered, TailFields
    <3> QED BY <1>1, <2>2, <3>1, <3>2, PassGoesOn
  <2> QED BY <2>1, <2>3, <2>4
<1>11. CASE S!ReadEnds
  <2>1. PICK gaps : gaps = S!AtOf(pass.src).gaps
    OBVIOUS
  <2>2. PICK tt : tt = S!Stored(t, pass.at, gaps)
    OBVIOUS
  <2>3. DOMAIN tt = TailFields /\ tt.drain = t.drain /\ tt.anchor = t.anchor
    BY <1>9, <2>2
  <2>4. pass.pc = "line"
    BY <1>11 DEF S!ReadEnds
  <2>5. CASE t' = tt /\ pass' = [pass EXCEPT !.pc = "older"] /\ t.drain = S!None
    <3>1. DOMAIN pass' = PassFields /\ pass'.pc = "older"
      BY <1>2, <2>5 DEF PassFields
    <3> QED BY <1>1, <2>3, <2>4, <2>5, <3>1, PassGoesOn
  <2>6. CASE \E x, rest : S!AfterRead([tt EXCEPT !.once = x], rest)
    <3>1. PICK x, rest : S!AfterRead([tt EXCEPT !.once = x], rest)
      BY <2>6
    <3>2. PICK u : u = [tt EXCEPT !.once = x]
      OBVIOUS
    <3>3. DOMAIN u = TailFields /\ u.drain = t.drain /\ u.anchor = t.anchor
      BY <2>3, <3>2 DEF TailFields
    <3>4. S!AfterRead(u, rest)
      BY <3>1, <3>2
    <3> QED BY <1>8, <2>4, <3>3, <3>4
  <2>7. CASE \E rest : S!AfterRead(tt, rest)
    BY <1>8, <2>3, <2>4, <2>7
  <2> QED BY <1>11, <2>1, <2>2, <2>5, <2>6, <2>7 DEF S!ReadEnds
<1>12. CASE S!Drained
  <2>1. DOMAIN pass' = PassFields /\ pass'.pc \in {"open", "line", "end", "drain"} /\ pass.pc = "drain" /\ t' = t
    BY <1>3, <1>12 DEF S!Drained
  <2> QED BY <1>1, <1>2, <2>1, PassGoesOn
<1>13. CASE S!PassEnds
  <2>1. \E names : S!Backlogged(names, t)
    BY <1>13 DEF S!PassEnds
  <2> QED BY <1>1, <1>2, <2>1, EndFacts, PassGoesOn
<1>14. CASE S!ReclaimFails
  <2>1. S!AfterRead(t, FALSE) /\ pass.pc = "chain"
    BY <1>14 DEF S!ReclaimFails
  <2>2. DOMAIN pass' = PassFields /\ DOMAIN t' = TailFields
    BY <1>2, <2>1, AfterReadFacts
  <2>3. pass'.pc = "idle" \/ (pass'.pc \in {"drain", "end"} /\ t' = t)
    BY <1>2, <2>1, AfterReadFacts
  <2>4. RecordsOK' /\ OneActive' /\ OneSealed' /\ S!AnchorNames' = S!AnchorNames
    BY <1>1, <2>2, NamesKept
  <2>5. t.drain = S!None => S!AnchorNames = {}
    BY <2>1 DEF SpoolInv, Bound, ChainNames
  <2>6. OneAnchored' /\ Bound'
    BY <2>3, <2>4, <2>5 DEF SpoolInv, OneAnchored, Bound, S!None
  <2> QED BY <2>4, <2>6 DEF SpoolInv
<1> QED BY <1>4, <1>5, <1>6, <1>7, <1>10, <1>11, <1>12, <1>13, <1>14

\* The older anchor goes before the first link of the next is made.
LEMMA RetireOlderInv == ASSUME SpoolInv, S!RetireOlder PROVE SpoolInv'
<1>1. prod' = prod /\ pass.pc = "older" /\ t.drain = S!None /\ S!AnchorNames \subseteq {t.anchor}
  BY DEF S!RetireOlder, S!Tailing, SpoolInv, Bound
<1>2. DOMAIN t = TailFields /\ DOMAIN pass = PassFields
  BY DEF SpoolInv, RecordsOK
<1>3. S!None \notin S!AnchorNames
  BY DEF S!AnchorNames, S!Anchors, S!None
<1>4. ASSUME DOMAIN t' = TailFields, t'.drain = t.drain, pass' = [pass EXCEPT !.pc = "chain", !.link = 1],
             RecordsOK', OneActive', OneSealed', S!AnchorNames' = {}
      PROVE  SpoolInv'
  <2>1. DOMAIN pass' = PassFields /\ pass'.pc = "chain" /\ pass'.link = 1
    BY <1>2, <1>4 DEF PassFields
  <2>2. OneAnchored' /\ Bound'
    BY <1>4, <2>1 DEF OneAnchored, Bound
  <2> QED BY <1>4, <2>2 DEF SpoolInv
<1>6. CASE t.anchor = S!None
  <2>1. t' = t /\ pass' = [pass EXCEPT !.pc = "chain", !.link = 1] /\ dir' = dir
    BY <1>6 DEF S!RetireOlder
  <2>2. DOMAIN pass' = PassFields
    BY <1>2, <2>1
  <2>3. RecordsOK' /\ OneActive' /\ OneSealed' /\ S!AnchorNames' = S!AnchorNames
    BY <1>1, <1>2, <2>1, <2>2, NamesKept
  <2> QED BY <1>1, <1>2, <1>3, <1>4, <1>6, <2>1, <2>3
<1>7. CASE t.anchor # S!None /\ ~S!OlderDrained
  <2>1. S!AfterRead(t, FALSE) /\ dir' = dir
    BY <1>7 DEF S!RetireOlder
  <2>2. DOMAIN pass' = PassFields /\ DOMAIN t' = TailFields
    BY <1>2, <2>1, AfterReadFacts
  <2>3. pass'.pc = "idle" \/ (pass'.pc \in {"drain", "end"} /\ t' = t)
    BY <1>2, <2>1, AfterReadFacts
  <2> QED BY <1>1, <2>1, <2>2, <2>3, PassGoesOn
<1>8. CASE t.anchor # S!None /\ S!OlderDrained
  <2>1. PICK n, a, l : /\ n = t.anchor /\ dir' = [dir EXCEPT ![n[1]] = @ \ {n[2]}]
                       /\ t' = [t EXCEPT !.at = a, !.anchor = S!None, !.last = l]
                       /\ pass' = [pass EXCEPT !.pc = "chain", !.link = 1]
    BY <1>8 DEF S!RetireOlder, S!Unlink
  <2>2. DOMAIN pass' = PassFields
    BY <1>2, <2>1
  <2>3. DOMAIN t' = TailFields /\ t'.drain = t.drain
    BY <1>2, <2>1 DEF TailFields
  <2>4. RecordsOK' /\ OneActive' /\ OneSealed' /\ S!AnchorNames' \subseteq S!AnchorNames \ {n}
    BY <1>1, <2>1, <2>2, <2>3, Unlinked
  <2> QED BY <1>1, <1>4, <2>1, <2>3, <2>4
<1> QED BY <1>6, <1>7, <1>8

LEMMA ChainInv == ASSUME SpoolInv, S!Chain PROVE SpoolInv'
<1>1. PICK i, k, op : /\ i = pass.src[1] /\ k = pass.link /\ op = S!Links[k] /\ pass.pc = "chain"
                      /\ dir' = [dir EXCEPT ![i] = IF op[1] = "link" THEN @ \cup {op[2]} ELSE @ \ {op[2]}]
                      /\ t' = [t EXCEPT !.drain = <<i, S!Drain(k)>>]
                      /\ pass' = [pass EXCEPT !.link = @ + 1] /\ prod' = prod /\ k <= 6
  BY DEF S!Chain, S!Tailing, S!Links
<1>2. k \in 1 .. 6 /\ S!AnchorNames \subseteq ChainNames(i, k)
  BY <1>1 DEF SpoolInv, Bound
<1>3. DOMAIN t' = TailFields /\ t'.drain # S!None
  BY <1>1 DEF SpoolInv, RecordsOK, TailFields, S!None, S!Drain
<1>4. DOMAIN pass' = PassFields /\ pass'.pc = "chain" /\ pass'.src = pass.src /\ pass'.link = k + 1
  BY <1>1 DEF SpoolInv, RecordsOK, PassFields
<1>5. PICK K, L : K = (IF op[1] = "link" THEN {op[2]} ELSE {}) /\ L = (IF op[1] = "link" THEN {} ELSE {op[2]})
  OBVIOUS
<1>6. /\ k = 1 => K = {"draining"} /\ L = {}
      /\ k = 2 => K = {} /\ L = {"sealed"}
      /\ k = 3 => K = {"final"} /\ L = {}
      /\ k = 4 => K = {} /\ L = {"draining"}
      /\ k = 5 => K = {"retained"} /\ L = {}
      /\ k = 6 => K = {} /\ L = {"final"}
  BY <1>1, <1>2, <1>5 DEF S!Links
<1>7. k = 1 \/ k = 2 \/ k = 3 \/ k = 4 \/ k = 5 \/ k = 6
  BY <1>2
<1>8. K \in SUBSET S!Anchors
  BY <1>6, <1>7 DEF S!Anchors
<1>9. dir' = [dir EXCEPT ![i] = (@ \cup K) \ L]
  BY <1>1, <1>5
<1>10. /\ RecordsOK' /\ OneActive' /\ OneSealed'
       /\ S!AnchorNames' \subseteq (S!AnchorNames \cup ({i} \X K)) \ ({i} \X L)
  <2>1. prod' = prod
    BY <1>1
  <2>2. DOMAIN t' = TailFields /\ DOMAIN pass' = PassFields
    BY <1>3, <1>4
  <2> QED BY <1>8, <1>9, <2>1, <2>2, NamesChanged
<1>11. S!AnchorNames' \subseteq (ChainNames(i, k) \cup ({i} \X K)) \ ({i} \X L)
  BY <1>2, <1>10
<1>12. S!AnchorNames' \subseteq ChainNames(i, k + 1)
  <2> DEFINE d == <<i, "draining">>
             f == <<i, "final">>
             r == <<i, "retained">>
  <2>1. /\ ChainNames(i, 1) = {} /\ ChainNames(i, 2) = {d} /\ ChainNames(i, 3) = {d} /\ ChainNames(i, 4) = {d, f}
        /\ ChainNames(i, 5) = {f} /\ ChainNames(i, 6) = {f, r} /\ ChainNames(i, 7) = {r}
    BY DEF ChainNames
  <2>2. d # f /\ d # r /\ f # r
    OBVIOUS
  <2>3. {i} \X {"draining"} = {d} /\ {i} \X {"final"} = {f} /\ {i} \X {"retained"} = {r} /\ {i} \X {} = {}
    OBVIOUS
  <2> HIDE DEF d, f, r
  <2>4. CASE k = 1
    BY <1>6, <1>11, <2>1, <2>3, <2>4
  <2>5. CASE k = 2
    BY <1>6, <1>11, <2>1, <2>3, <2>5
  <2>6. CASE k = 3
    BY <1>6, <1>11, <2>1, <2>3, <2>6
  <2>7. CASE k = 4
    BY <1>6, <1>11, <2>1, <2>2, <2>3, <2>7
  <2>8. CASE k = 5
    BY <1>6, <1>11, <2>1, <2>3, <2>8
  <2>9. CASE k = 6
    BY <1>6, <1>11, <2>1, <2>2, <2>3, <2>9
  <2> QED BY <1>7, <2>4, <2>5, <2>6, <2>7, <2>8, <2>9
<1>13. \A a, b \in ChainNames(i, k + 1) : a[1] = b[1]
  BY DEF ChainNames
<1>14. OneAnchored' /\ Bound'
  BY <1>1, <1>2, <1>3, <1>4, <1>12, <1>13 DEF OneAnchored, Bound
<1> QED BY <1>10, <1>14 DEF SpoolInv

LEMMA SettleInv == ASSUME SpoolInv, S!Settle PROVE SpoolInv'
<1>1. PICK n, a, o, tt : /\ n = <<pass.src[1], "retained">> /\ pass.pc = "chain" /\ pass.link > 6
                         /\ tt = [t EXCEPT !.at = a, !.anchor = n, !.last = n, !.once = o, !.drain = S!None]
                         /\ S!AfterRead(tt, FALSE) /\ dir' = dir /\ prod' = prod
  BY DEF S!Settle, S!Tailing, S!Links
<1>2. S!AnchorNames \subseteq {n}
  <2>1. pass.link = 7 /\ S!AnchorNames \subseteq ChainNames(pass.src[1], 7)
    BY <1>1 DEF SpoolInv, Bound
  <2> QED BY <1>1, <2>1 DEF ChainNames
<1>3. DOMAIN tt = TailFields /\ tt.anchor = n
  BY <1>1 DEF SpoolInv, RecordsOK, TailFields
<1>4. DOMAIN pass = PassFields
  BY DEF SpoolInv, RecordsOK
<1>5. DOMAIN pass' = PassFields /\ DOMAIN t' = TailFields
  BY <1>1, <1>3, <1>4, AfterReadFacts
<1>6. pass'.pc = "idle" \/ (pass'.pc \in {"drain", "end"} /\ t' = tt)
  BY <1>1, <1>3, <1>4, AfterReadFacts
<1>7. RecordsOK' /\ OneActive' /\ OneSealed' /\ S!AnchorNames' = S!AnchorNames
  BY <1>1, <1>5, NamesKept
<1>8. OneAnchored' /\ Bound'
  BY <1>2, <1>3, <1>6, <1>7 DEF SpoolInv, OneAnchored, Bound
<1> QED BY <1>7, <1>8 DEF SpoolInv

\* A restart finds the names as they are.
LEMMA RestartInv == ASSUME SpoolInv, S!Crash PROVE SpoolInv'
<1>1. dir' = dir /\ prod' = S!Producer(prod.bridge + 1) /\ pass' = S!Idle /\ S!Watched
  BY DEF S!Crash, S!spool
<1>2. DOMAIN t' = TailFields
  BY <1>1 DEF S!Watched, TailFields
<1>3. DOMAIN pass' = PassFields /\ pass'.pc = "idle"
  BY <1>1, EndFacts
<1>4. DOMAIN prod' = ProdFields /\ prod'.pc = "idle"
  BY <1>1 DEF S!Producer, ProdFields
<1>5. \A k : S!Named(k)' = S!Named(k)
  BY <1>1 DEF S!Named, S!Inodes
<1>6. S!AnchorNames' = S!AnchorNames
  BY <1>1 DEF S!AnchorNames, S!Anchors, S!Files, S!Inodes
<1>7. RecordsOK'
  BY <1>1, <1>2, <1>3, <1>4 DEF SpoolInv, RecordsOK, S!Inodes, S!Anchors
<1>8. OneActive' /\ OneSealed'
  BY <1>4, <1>5 DEF SpoolInv, OneActive, OneSealed
<1>9. OneAnchored' /\ Bound'
  BY <1>3, <1>6 DEF SpoolInv, OneAnchored, Bound
<1> QED BY <1>7, <1>8, <1>9 DEF SpoolInv

LEMMA SpoolNext == ASSUME SpoolInv, [S!Next]_S!vars PROVE SpoolInv'
<1>1. CASE UNCHANGED S!vars
  <2>1. dir' = dir /\ prod' = prod /\ t' = t /\ pass' = pass
    BY <1>1 DEF S!vars
  <2>2. DOMAIN t' = TailFields /\ DOMAIN pass' = PassFields
    BY <2>1 DEF SpoolInv, RecordsOK
  <2>3. RecordsOK' /\ OneActive' /\ OneSealed' /\ S!AnchorNames' = S!AnchorNames
    BY <2>1, <2>2, NamesKept
  <2>4. OneAnchored' /\ Bound'
    BY <2>1, <2>3 DEF SpoolInv, OneAnchored, Bound
  <2> QED BY <2>3, <2>4 DEF SpoolInv
<1>2. CASE S!Produce
  <2>1. RecordsOK' /\ OneActive' /\ OneSealed' /\ t' = t /\ pass' = pass /\ S!AnchorNames' \subseteq S!AnchorNames
    BY <1>2, ProducerNames
  <2>2. OneAnchored' /\ Bound'
    BY <2>1 DEF SpoolInv, OneAnchored, Bound
  <2> QED BY <2>1, <2>2 DEF SpoolInv
<1> QED
  BY <1>1, <1>2, StartPassInv, BindInv, AliasInv, ReadingInv, RetireOlderInv, ChainInv, SettleInv, RestartInv
    DEF S!Next, S!TailStep

LEMMA SpoolInit == S!Init => SpoolInv
<1> SUFFICES ASSUME S!Init PROVE SpoolInv
  OBVIOUS
<1>1. RecordsOK
  BY DEF S!Init, RecordsOK, S!Producer, S!Idle, ProdFields, TailFields, PassFields
<1>2. (\A k : S!Named(k) = {}) /\ S!AnchorNames = {}
  BY DEF S!Init, S!Named, S!AnchorNames, S!Anchors, S!Files, S!Inodes
<1>3. pass.pc = "idle"
  BY DEF S!Init, S!Idle
<1> QED BY <1>1, <1>2, <1>3 DEF SpoolInv, OneActive, OneSealed, OneAnchored, Bound

\* The names at most three inodes have: the active file, a sealed generation
\* and the one that is retired or kept as the anchor.
LEMMA ThreeNames == SpoolInv => SpoolBounded
<1> SUFFICES ASSUME SpoolInv PROVE SpoolBounded
  OBVIOUS
<1> DEFINE A == S!Named("active")
           B == S!Named("sealed")
           C == {n[1] : n \in S!AnchorNames}
           D == {i \in S!Inodes : dir[i] # {}}
<1>1. D \subseteq (A \cup B) \cup C
  <2> SUFFICES ASSUME NEW i \in S!Inodes, NEW k \in dir[i] PROVE i \in (A \cup B) \cup C
    OBVIOUS
  <2>1. k \in {"active", "sealed"} \cup S!Anchors
    BY DEF SpoolInv, RecordsOK
  <2>2. CASE k \in S!Anchors
    <3>1. <<i, k>> \in S!AnchorNames
      BY <2>2 DEF S!AnchorNames, S!Files
    <3> QED BY <3>1
  <2> QED BY <2>1, <2>2 DEF S!Named
<1>2. \A X : (\A x, y \in X : x = y) => IsFiniteSet(X) /\ Cardinality(X) <= 1 /\ Cardinality(X) \in Nat
  <2> SUFFICES ASSUME NEW X, \A x, y \in X : x = y
               PROVE  IsFiniteSet(X) /\ Cardinality(X) <= 1 /\ Cardinality(X) \in Nat
    OBVIOUS
  <2>1. CASE X = {}
    BY <2>1, FS_EmptySet
  <2>2. CASE X # {}
    <3>1. PICK x \in X : X = {x}
      BY <2>2
    <3>2. IsFiniteSet({x}) /\ Cardinality({x}) = 1
      BY FS_Singleton
    <3> QED BY <3>1, <3>2
  <2> QED BY <2>1, <2>2
<1>3. IsFiniteSet(A) /\ Cardinality(A) <= 1 /\ Cardinality(A) \in Nat
  BY <1>2 DEF SpoolInv, OneActive
<1>4. IsFiniteSet(B) /\ Cardinality(B) <= 1 /\ Cardinality(B) \in Nat
  BY <1>2 DEF SpoolInv, OneSealed
<1>5. IsFiniteSet(C) /\ Cardinality(C) <= 1 /\ Cardinality(C) \in Nat
  BY <1>2 DEF SpoolInv, OneAnchored
<1> HIDE DEF A, B, C
<1>6. PICK E : E = A \cup B
  OBVIOUS
<1>7. IsFiniteSet(E) /\ Cardinality(E) <= 2 /\ Cardinality(E) \in Nat
  <2>1. IsFiniteSet(E) /\ IsFiniteSet(A \cap B) /\ Cardinality(A \cap B) \in Nat /\ Cardinality(E) \in Nat
    BY <1>3, <1>4, <1>6, FS_Union, FS_Intersection, FS_CardinalityType
  <2>2. Cardinality(E) = Cardinality(A) + Cardinality(B) - Cardinality(A \cap B)
    BY <1>3, <1>4, <1>6, FS_Union
  <2> QED BY <1>3, <1>4, <2>1, <2>2
<1>8. PICK F : F = E \cup C
  OBVIOUS
<1>9. IsFiniteSet(F) /\ Cardinality(F) <= 3 /\ Cardinality(F) \in Nat
  <2>1. IsFiniteSet(F) /\ IsFiniteSet(E \cap C) /\ Cardinality(E \cap C) \in Nat /\ Cardinality(F) \in Nat
    BY <1>5, <1>7, <1>8, FS_Union, FS_Intersection, FS_CardinalityType
  <2>2. Cardinality(F) = Cardinality(E) + Cardinality(C) - Cardinality(E \cap C)
    BY <1>5, <1>7, <1>8, FS_Union
  <2> QED BY <1>5, <1>7, <2>1, <2>2
<1>10. IsFiniteSet(D) /\ Cardinality(D) <= Cardinality(F) /\ Cardinality(D) \in Nat
  BY <1>1, <1>6, <1>8, <1>9, FS_Subset, FS_CardinalityType
<1>11. Cardinality(D) <= 3
  BY <1>9, <1>10
<1> QED BY <1>11 DEF SpoolBounded, Inodes, S!Inodes

\* A stalled consumer stops the producer: the spool of a terminal is never more
\* than the active file, one generation on its way out and one anchor, whatever
\* fails, tears or restarts (waitForPendingSidecar, maybeReclaimSegment,
\* bindRetainedAnchor).
THEOREM SpoolStaysBounded == S!Spec => []SpoolBounded
<1>1. S!Init => SpoolInv
  BY SpoolInit
<1>2. SpoolInv /\ [S!Next]_S!vars => SpoolInv'
  BY SpoolNext
<1>3. SpoolInv => SpoolBounded
  BY ThreeNames
<1> QED BY <1>1, <1>2, <1>3, PTL DEF S!Spec
=============================================================================
