-------------------------- MODULE AuthStoreProofs --------------------------
(***************************************************************************)
(* The safety properties of AuthStore, for any number of processes,        *)
(* providers, logins and tokens.  None of them is inductive by itself: a   *)
(* late refresh is harmless because of what its process still knows of the *)
(* credential it was made from (KnownOK), because a change holds the lock  *)
(* and has the disk's other entries (WritesOK), and because one request    *)
(* with one token moves it on by one (FlightsOK, TokensOK).                *)
(***************************************************************************)
EXTENDS AuthStore, TLAPS

\* A change of the user that has not reached the file.
Pending(p) == write[p] # Nothing /\ write[p].kind = "user" /\ write[p].pc # "renamed"
              /\ write[p].next # LoggedOut

\* What a process may know of the credentials of provider v.
Known(v, c) ==
  c # LoggedOut =>
    /\ c.login <= logins
    /\ c.token <= Issued(v, c)
    /\ \A p \in Procs : Pending(p) => c.login # write[p].next.login
    /\ v \in Rotating /\ c.login = file[v].login => c.token <= file[v].token

KnownOK ==
  /\ \A v \in Providers : Known(v, file[v])
  /\ \A p \in Procs, v \in Providers : cache[p] # Nothing => Known(v, cache[p][v])
  /\ \A p \in Procs, v \in Providers : flight[p][v] # Nothing => Known(v, flight[p][v].entry)

FlightOK(v, f) ==
  /\ f.entry # LoggedOut
  /\ f.pc # "sent" =>
       /\ f.reply.login = f.entry.login
       /\ f.reply.token > f.entry.token
       /\ f.reply.token <= Issued(v, f.entry)
       /\ v \in Rotating => f.reply.token = f.entry.token + 1
FlightsOK == \A p \in Procs, v \in Providers : flight[p][v] # Nothing => FlightOK(v, flight[p][v])

WriteOK(p, w) ==
  LET v == w.provider IN
  /\ lock = p
  /\ w.kind = "refresh" =>
       /\ flight[p][v] # Nothing /\ flight[p][v].pc = "storing" /\ flight[p][v].reply = w.next
       /\ w.pc = "read" => file[v] = flight[p][v].entry
  /\ w.pc = "read" => w.data = [file EXCEPT ![v] = w.next]
  /\ w.pc = "renamed" => w.data = file /\ file[v] = w.next
  /\ Pending(p) => w.next.token = 1 /\ w.next.login <= logins /\ Issued(v, w.next) = 1
WritesOK == \A p \in Procs : write[p] # Nothing => WriteOK(p, write[p])

\* The last token of the login in the file is there, or one refresh away.
Carrier(p, v) ==
  /\ flight[p][v] # Nothing /\ flight[p][v].pc # "sent" /\ flight[p][v].entry = file[v]
  /\ flight[p][v].reply.token = Issued(v, file[v])
TokenOK(v) ==
  file[v] # LoggedOut /\ <<v, file[v].login>> \notin stranded /\ file[v].token # Issued(v, file[v])
    => \E p \in Procs : Carrier(p, v)
TokensOK == \A v \in Rotating : TokenOK(v)

IInv == TypeOK /\ FlightsOK /\ WritesOK /\ KnownOK /\ TokensOK /\ AccountIsTheUsers
-----------------------------------------------------------------------------
LEMMA CredentialFacts ==
  ASSUME NEW c \in Credentials
  PROVE  /\ c.login \in 0 .. MaxLogins /\ c.token \in 0 .. MaxTokens
         /\ c # LoggedOut => c.login \in 1 .. MaxLogins /\ c.token \in 1 .. MaxTokens
         /\ \A d \in Credentials : c.login = d.login /\ c.token = d.token => c = d
BY AuthStoreConstants DEF Credentials, LoggedOut

LEMMA LoggedOutFacts == LoggedOut \in Credentials /\ LoggedOut.login = 0
BY DEF Credentials, LoggedOut

LEMMA Typed ==
  ASSUME TypeOK
  PROVE  /\ \A v \in Providers : file[v] \in Credentials
         /\ \A p \in Procs, v \in Providers : cache[p] # Nothing => cache[p][v] \in Credentials
         /\ \A p \in Procs, v \in Providers : flight[p][v] # Nothing =>
              /\ flight[p][v] \in Flights
              /\ flight[p][v].entry \in Credentials /\ flight[p][v].reply \in Credentials
         /\ \A p \in Procs : write[p] # Nothing =>
              /\ write[p] \in Writes
              /\ write[p].provider \in Providers /\ write[p].next \in Credentials
         /\ \A v \in Providers, l \in 1 .. MaxLogins : issued[v][l] \in 0 .. MaxTokens
         /\ Rotating \subseteq Providers
<1>1. \A p \in Procs, v \in Providers : flight[p][v] \in Flights \cup {Nothing}
  BY DEF TypeOK
<1>2. \A p \in Procs : write[p] \in Writes \cup {Nothing}
  BY DEF TypeOK
<1>3. \A p \in Procs : cache[p] \in Files \cup {Nothing}
  BY DEF TypeOK
<1>4. \A v \in Providers : issued[v] \in [1 .. MaxLogins -> 0 .. MaxTokens]
  BY DEF TypeOK
<1>5. \A f \in Flights : f.entry \in Credentials /\ f.reply \in Credentials
  BY DEF Flights
<1>6. \A w \in Writes : w.provider \in Providers /\ w.next \in Credentials
  BY DEF Writes
<1>7. \A v \in Providers : file[v] \in Credentials
  BY DEF TypeOK, Files
<1>8. \A p \in Procs, v \in Providers : cache[p] # Nothing => cache[p][v] \in Credentials
  BY <1>3 DEF Files
<1> QED BY <1>1, <1>2, <1>4, <1>5, <1>6, <1>7, <1>8, AuthStoreConstants

\* Only the holder of the lock is in a change.
LEMMA LoneWriter ==
  ASSUME WritesOK
  PROVE  /\ \A p, q \in Procs : write[p] # Nothing /\ write[q] # Nothing => p = q
         /\ ~Held => \A p \in Procs : write[p] = Nothing
BY DEF WritesOK, WriteOK, Held

\* What the invariant says of a credential, a flight, a change and a token
\* that a step leaves alone.
Grows == \A v \in Providers, l \in 1 .. MaxLogins :
           issued'[v][l] \in 0 .. MaxTokens /\ issued'[v][l] >= issued[v][l]
NoNewPending == \A q \in Procs : Pending(q)' => Pending(q) /\ write'[q].next = write[q].next
PendingKept == \A q \in Procs : Pending(q) =>
                 LET w == write[q] IN
                 issued'[w.provider][w.next.login] = issued[w.provider][w.next.login]

LEMMA StillKnown ==
  ASSUME TypeOK, Grows, NoNewPending, UNCHANGED <<file, logins>>,
         NEW v \in Providers, NEW c \in Credentials, Known(v, c)
  PROVE  Known(v, c)'
<1> SUFFICES ASSUME c # LoggedOut
             PROVE  Known(v, c)'
  BY DEF Known
<1>1. c.login \in 1 .. MaxLogins /\ c.token \in 1 .. MaxTokens
  BY CredentialFacts
<1>2. c.token <= Issued(v, c)'
  BY <1>1, Typed DEF Known, Issued, Grows
<1> QED BY <1>2 DEF Known, NoNewPending

LEMMA FlightStillOK ==
  ASSUME TypeOK, Grows, NEW v \in Providers, NEW f \in Flights, FlightOK(v, f)
  PROVE  FlightOK(v, f)'
<1>1. f.entry.login \in 1 .. MaxLogins /\ f.reply.token \in 0 .. MaxTokens
  BY CredentialFacts DEF Flights, FlightOK
<1> QED BY <1>1, Typed DEF FlightOK, Issued, Grows

LEMMA WritesStillOK ==
  ASSUME TypeOK, WritesOK, PendingKept, UNCHANGED <<file, lock, write, logins>>,
         \A q \in Procs, v \in Providers :
           flight[q][v] # Nothing /\ flight[q][v].pc = "storing" /\ write[q] # Nothing
             => flight'[q][v] = flight[q][v]
  PROVE  WritesOK'
<1> SUFFICES ASSUME NEW q \in Procs, write[q] # Nothing
             PROVE  WriteOK(q, write[q])'
  BY DEF WritesOK
<1>1. WriteOK(q, write[q]) /\ write[q].provider \in Providers
  BY Typed DEF WritesOK
<1>2. Pending(q)' = Pending(q)
  BY DEF Pending
<1>3. Pending(q) => write[q].next.token = 1 /\ write[q].next.login <= logins
                    /\ issued'[write[q].provider][write[q].next.login] = 1
  BY <1>1 DEF WriteOK, PendingKept, Issued
<1>4. write[q].kind = "refresh" => flight'[q][write[q].provider] = flight[q][write[q].provider]
  BY <1>1 DEF WriteOK
<1> QED BY <1>1, <1>2, <1>3, <1>4 DEF WriteOK, Issued

LEMMA TokenStillOK ==
  ASSUME TypeOK, NEW v \in Rotating, TokenOK(v), file'[v] = file[v],
         <<v, file[v].login>> \notin stranded' =>
           /\ <<v, file[v].login>> \notin stranded
           /\ file[v] # LoggedOut => issued'[v][file[v].login] = issued[v][file[v].login]
           /\ \A q \in Procs : Carrier(q, v) => Carrier(q, v)'
  PROVE  TokenOK(v)'
BY DEF TokenOK, Issued

LEMMA InitIInv == Init => IInv
<1> SUFFICES ASSUME Init PROVE IInv
  OBVIOUS
<1>1. TypeOK
  BY LoggedOutFacts, AuthStoreConstants DEF Init, TypeOK, Files
<1>2. FlightsOK /\ WritesOK
  BY DEF Init, FlightsOK, WritesOK
<1>3. KnownOK
  BY DEF Init, KnownOK, Known
<1>4. TokensOK /\ AccountIsTheUsers
  BY LoggedOutFacts, AuthStoreConstants DEF Init, TokensOK, TokenOK, AccountIsTheUsers
<1> QED BY <1>1, <1>2, <1>3, <1>4 DEF IInv

\* A flight changes; the others do not.
LEMMA PutFlight ==
  ASSUME TypeOK, NEW p \in Procs, NEW v \in Providers, NEW f, Put(p, v, f)
  PROVE  /\ flight'[p][v] = f
         /\ \A q \in Procs, u \in Providers : q # p \/ u # v => flight'[q][u] = flight[q][u]
         /\ f \in Flights \cup {Nothing} =>
              flight' \in [Procs -> [Providers -> Flights \cup {Nothing}]]
BY DEF TypeOK, Put

LEMMA ResolveIInv ==
  ASSUME IInv, NEW p \in Procs, Resolve(p)
  PROVE  IInv'
<1> USE DEF IInv, Resolve, readAuth, history
<1>1. TypeOK'
  BY DEF TypeOK, Cached, Turn
<1>2. FlightsOK' /\ WritesOK'
  BY DEF FlightsOK, FlightOK, Issued, WritesOK, WriteOK, Pending
<1>3. KnownOK'
  <2>1. \A v, c : Known(v, c) => Known(v, c)'
    BY DEF Known, Pending, Issued
  <2>2. \A v \in Providers : Known(v, Cached(p)[v])
    BY DEF KnownOK, Cached
  <2>3. \A q \in Procs : cache'[q] = cache[q] \/ (q = p /\ cache'[q] = Cached(p))
    BY DEF TypeOK
  <2> QED BY <2>1, <2>2, <2>3 DEF KnownOK
<1>4. TokensOK' /\ AccountIsTheUsers'
  BY DEF TokensOK, TokenOK, Carrier, Issued, AccountIsTheUsers
<1> QED BY <1>1, <1>2, <1>3, <1>4

LEMMA RefreshIInv ==
  ASSUME IInv, NEW p \in Procs, NEW v \in Providers, refreshOauth(p, v)
  PROVE  IInv'
<1> USE DEF IInv, refreshOauth, readAuth, history
<1> DEFINE c == Cached(p)[v]
<1>1. Cached(p) \in Files /\ c \in Credentials /\ Sent(c) \in Flights
  BY LoggedOutFacts DEF TypeOK, Cached, Files, Flights, Sent
<1>2. /\ flight'[p][v] = Sent(c)
      /\ \A q \in Procs, u \in Providers : q # p \/ u # v => flight'[q][u] = flight[q][u]
      /\ flight' \in [Procs -> [Providers -> Flights \cup {Nothing}]]
  BY <1>1, PutFlight
<1>3. TypeOK'
  BY <1>1, <1>2 DEF TypeOK, Turn
<1>4. FlightsOK'
  BY <1>2 DEF FlightsOK, FlightOK, Issued, Sent
<1>5. WritesOK'
  BY <1>2, WritesStillOK DEF PendingKept, Issued
<1>6. KnownOK'
  <2>1. \A u, d : Known(u, d) => Known(u, d)'
    BY DEF Known, Pending, Issued
  <2>2. \A u \in Providers : Known(u, Cached(p)[u])
    BY DEF KnownOK, Cached
  <2>3. \A q \in Procs : cache'[q] = cache[q] \/ (q = p /\ cache'[q] = Cached(p))
    BY DEF TypeOK
  <2>4. \A q \in Procs, u \in Providers : flight'[q][u] # Nothing => Known(u, flight'[q][u].entry)
    BY <1>2, <2>2 DEF KnownOK, Sent
  <2> QED BY <2>1, <2>2, <2>3, <2>4 DEF KnownOK
<1>7. TokensOK'
  <2> SUFFICES ASSUME NEW u \in Rotating
               PROVE  TokenOK(u)'
    BY DEF TokensOK
  <2>1. \A q \in Procs : Carrier(q, u) => Carrier(q, u)'
    BY <1>2, Typed DEF Carrier, Issued
  <2> QED BY <2>1, TokenStillOK DEF TokensOK
<1>8. AccountIsTheUsers'
  BY DEF AccountIsTheUsers
<1> QED BY <1>3, <1>4, <1>5, <1>6, <1>7, <1>8

LEMMA RefuseIInv ==
  ASSUME IInv, NEW p \in Procs, NEW v \in Providers, Refuse(p, v)
  PROVE  IInv'
<1> USE DEF IInv, Refuse, history
<1>1. /\ flight'[p][v] = Nothing
      /\ \A q \in Procs, u \in Providers : q # p \/ u # v => flight'[q][u] = flight[q][u]
      /\ flight' \in [Procs -> [Providers -> Flights \cup {Nothing}]]
  BY PutFlight DEF Land
<1>2. TypeOK'
  BY <1>1 DEF TypeOK
<1>3. FlightsOK'
  BY <1>1 DEF FlightsOK, FlightOK, Issued
<1>4. WritesOK'
  BY <1>1, WritesStillOK DEF PendingKept, Issued
<1>5. KnownOK'
  <2>1. \A u, d : Known(u, d) => Known(u, d)'
    BY DEF Known, Pending, Issued
  <2>2. \A q \in Procs, u \in Providers : flight'[q][u] # Nothing => Known(u, flight'[q][u].entry)
    BY <1>1 DEF KnownOK
  <2> QED BY <2>1, <2>2 DEF KnownOK
<1>6. TokensOK'
  <2> SUFFICES ASSUME NEW u \in Rotating
               PROVE  TokenOK(u)'
    BY DEF TokensOK
  <2>1. \A q \in Procs : Carrier(q, u) => Carrier(q, u)'
    BY <1>1, Typed DEF Carrier, Issued
  <2> QED BY <2>1, TokenStillOK DEF TokensOK
<1>7. AccountIsTheUsers'
  BY DEF AccountIsTheUsers
<1> QED BY <1>2, <1>3, <1>4, <1>5, <1>6, <1>7

LEMMA AnswerIInv ==
  ASSUME IInv, NEW p \in Procs, NEW v \in Providers, Answer(p, v)
  PROVE  IInv'
<1> USE DEF IInv, Answer, history
<1> DEFINE e == flight[p][v].entry
           r == [login |-> e.login, token |-> Issued(v, e) + 1]
           f == [pc |-> "answered", entry |-> e, reply |-> r]
<1>1. e \in Credentials /\ e # LoggedOut /\ Known(v, e)
  BY Typed DEF FlightsOK, FlightOK, KnownOK
<1>2. /\ e.login \in 1 .. MaxLogins /\ e.token \in 1 .. MaxTokens
      /\ Issued(v, e) \in 0 .. MaxTokens /\ e.token <= Issued(v, e) /\ Issued(v, e) < MaxTokens
      /\ v \in Rotating => Issued(v, e) = e.token
  BY <1>1, CredentialFacts, Typed DEF Issued, Known, Accepts
<1>3. r \in Credentials /\ f \in Flights
  <2>1. Issued(v, e) + 1 \in 1 .. MaxTokens
    BY <1>2, AuthStoreConstants
  <2> QED BY <2>1, <1>1, <1>2 DEF Credentials, Flights
<1>4. /\ flight'[p][v] = f
      /\ \A q \in Procs, u \in Providers : q # p \/ u # v => flight'[q][u] = flight[q][u]
      /\ flight' \in [Procs -> [Providers -> Flights \cup {Nothing}]]
  BY <1>3, PutFlight
<1>5. /\ issued' \in [Providers -> [1 .. MaxLogins -> 0 .. MaxTokens]]
      /\ \A u \in Providers, l \in 1 .. MaxLogins :
           u # v \/ l # e.login => issued'[u][l] = issued[u][l]
      /\ issued'[v][e.login] = Issued(v, e) + 1
  <2>1. issued[v] \in [1 .. MaxLogins -> 0 .. MaxTokens]
    BY DEF TypeOK
  <2>2. Issued(v, e) + 1 \in 0 .. MaxTokens
    BY <1>2, AuthStoreConstants
  <2>3. Issue(v, e) \in [1 .. MaxLogins -> 0 .. MaxTokens]
    BY <2>1, <2>2 DEF Issue, Issued
  <2>4. issued'[v] = Issue(v, e) /\ \A u \in Providers : u # v => issued'[u] = issued[u]
    BY DEF TypeOK
  <2>5. issued' \in [Providers -> [1 .. MaxLogins -> 0 .. MaxTokens]]
    BY <2>3 DEF TypeOK
  <2> QED BY <1>2, <2>1, <2>4, <2>5 DEF Issue, Issued
<1>6. Grows
  <2> SUFFICES ASSUME NEW u \in Providers, NEW l \in 1 .. MaxLogins
               PROVE  issued'[u][l] \in 0 .. MaxTokens /\ issued'[u][l] >= issued[u][l]
    BY DEF Grows
  <2>1. issued[u][l] \in 0 .. MaxTokens /\ issued'[u][l] \in 0 .. MaxTokens
    BY <1>5, Typed
  <2>2. issued'[u][l] = issued[u][l] \/ issued'[u][l] = issued[u][l] + 1
    BY <1>5 DEF Issued
  <2> QED BY <2>1, <2>2
<1>7. TypeOK'
  BY <1>4, <1>5 DEF TypeOK
<1>8. FlightsOK'
  <2> SUFFICES ASSUME NEW q \in Procs, NEW u \in Providers, flight'[q][u] # Nothing
               PROVE  FlightOK(u, flight[q][u])'
    BY DEF FlightsOK
  <2>1. CASE q = p /\ u = v
    <3>2. flight'[q][u].entry = e /\ flight'[q][u].reply = r
      BY <2>1, <1>4
    <3>3. r.login = e.login /\ r.token = Issued(v, e) + 1
      OBVIOUS
    <3>4. Issued(u, flight[q][u].entry)' = Issued(v, e) + 1
      BY <2>1, <3>2, <1>5 DEF Issued
    <3> HIDE DEF r, e
    <3> QED BY <2>1, <3>2, <3>3, <3>4, <1>1, <1>2 DEF FlightOK
  <2>2. CASE q # p \/ u # v
    BY <2>2, <1>4, <1>6, Typed, FlightStillOK DEF FlightsOK
  <2> QED BY <2>1, <2>2
<1>9. PendingKept
  <2> SUFFICES ASSUME NEW q \in Procs, Pending(q)
               PROVE  issued'[write[q].provider][write[q].next.login] = issued[write[q].provider][write[q].next.login]
    BY DEF PendingKept
  <2>1. write[q].provider \in Providers /\ write[q].next \in Credentials /\ write[q].next.login \in 1 .. MaxLogins
    BY Typed, CredentialFacts DEF Pending
  <2>2. e.login # write[q].next.login
    BY <1>1 DEF Known
  <2> QED BY <2>1, <2>2, <1>5 DEF Issued
<1>10. WritesOK'
  BY <1>4, <1>9, WritesStillOK
<1>11. KnownOK'
  <2>1. \A u \in Providers, d \in Credentials : Known(u, d) => Known(u, d)'
    BY <1>6, StillKnown DEF NoNewPending, Pending
  <2>2. \A q \in Procs, u \in Providers : flight'[q][u] # Nothing =>
          flight'[q][u].entry \in Credentials /\ Known(u, flight'[q][u].entry)
    BY <1>1, <1>4, Typed DEF KnownOK
  <2> QED BY <2>1, <2>2, Typed DEF KnownOK
<1>12. TokensOK'
  <2> SUFFICES ASSUME NEW u \in Rotating, file[u] # LoggedOut, <<u, file[u].login>> \notin stranded,
                      file[u].token # Issued(u, file[u])'
               PROVE  \E q \in Procs : Carrier(q, u)'
    BY DEF TokensOK, TokenOK
  <2>1. /\ u \in Providers /\ file[u] \in Credentials
        /\ file[u].login \in 1 .. MaxLogins /\ file[u].token \in 1 .. MaxTokens
    BY CredentialFacts, Typed
  <2>2. CASE u = v /\ file[u].login = e.login
    <3>1. e.token <= file[v].token /\ file[v].token <= Issued(v, file[v]) /\ Issued(v, file[v]) = Issued(v, e)
      BY <2>1, <2>2, <1>1 DEF Known, KnownOK, Issued
    <3>2. e = file[v]
      <4>1. e.token = file[v].token
        BY <3>1, <2>1, <2>2, <1>2
      <4> QED BY <4>1, <2>1, <2>2, <1>1, CredentialFacts
    <3>3. Issued(v, file[v])' = r.token
      BY <3>2, <1>5 DEF Issued
    <3>4. f # Nothing
      BY <1>3, NothingIsNothing
    <3>5. Carrier(p, v)'
      BY <3>2, <3>3, <3>4, <1>4 DEF Carrier
    <3> QED BY <3>5, <2>2
  <2>3. CASE u # v \/ file[u].login # e.login
    <3>1. Issued(u, file[u])' = Issued(u, file[u])
      BY <2>1, <2>3, <1>5 DEF Issued
    <3>2. PICK q \in Procs : Carrier(q, u)
      BY <3>1 DEF TokensOK, TokenOK
    <3>3. flight'[q][u] = flight[q][u]
      BY <3>2, <1>4, <2>1 DEF Carrier
    <3> QED BY <3>1, <3>2, <3>3 DEF Carrier
  <2> QED BY <2>2, <2>3
<1>13. AccountIsTheUsers'
  BY DEF AccountIsTheUsers
<1> QED BY <1>7, <1>8, <1>10, <1>11, <1>12, <1>13

\* What nobody waits for any more: a token that was issued, or may be, is
\* stranded, and nothing else changes.
LEMMA GiveUpFacts ==
  ASSUME IInv, NEW p \in Procs, NEW fs, GiveUp(fs),
         \A v \in Providers : fs[v] # Nothing => fs[v] = flight[p][v]
  PROVE  /\ issued' \in [Providers -> [1 .. MaxLogins -> 0 .. MaxTokens]]
         /\ stranded' \subseteq Providers \X (1 .. MaxLogins) /\ stranded \subseteq stranded'
         /\ Grows /\ PendingKept
         /\ \A v \in Rotating : file[v] # LoggedOut /\ <<v, file[v].login>> \notin stranded' =>
              /\ issued'[v][file[v].login] = issued[v][file[v].login]
              /\ Carrier(p, v) => fs[v] = Nothing
<1> USE DEF IInv
<1> DEFINE With(pcs) == {v \in Providers : fs[v] # Nothing /\ fs[v].pc \in pcs}
<1>1. PICK taken \in SUBSET {v \in With({"sent"}) : Accepts(v, fs[v].entry)} :
        /\ issued' = [v \in Providers |-> IF v \in taken THEN Issue(v, fs[v].entry) ELSE issued[v]]
        /\ stranded' = stranded \cup
             {<<v, fs[v].entry.login>> : v \in taken \cup With({"answered", "storing"})}
  BY DEF GiveUp
<1>2. \A v \in Providers : fs[v] # Nothing =>
        /\ fs[v].pc \in {"sent", "answered", "storing"}
        /\ fs[v].entry \in Credentials /\ fs[v].entry.login \in 1 .. MaxLogins
        /\ fs[v].entry # LoggedOut /\ Known(v, fs[v].entry)
  <2> SUFFICES ASSUME NEW v \in Providers, flight[p][v] # Nothing
               PROVE  /\ flight[p][v].pc \in {"sent", "answered", "storing"}
                      /\ flight[p][v].entry \in Credentials /\ flight[p][v].entry.login \in 1 .. MaxLogins
                      /\ flight[p][v].entry # LoggedOut /\ Known(v, flight[p][v].entry)
    OBVIOUS
  <2>1. flight[p][v] \in Flights /\ flight[p][v].entry \in Credentials /\ flight[p][v].entry # LoggedOut
    BY Typed DEF FlightsOK, FlightOK
  <2>2. flight[p][v].pc \in {"sent", "answered", "storing"}
    BY <2>1 DEF Flights
  <2> QED BY <2>1, <2>2, CredentialFacts DEF KnownOK
<1>3. ASSUME NEW v \in taken
      PROVE  /\ v \in Providers /\ fs[v] # Nothing /\ fs[v].pc = "sent"
             /\ issued'[v] \in [1 .. MaxLogins -> 0 .. MaxTokens]
             /\ \A l \in 1 .. MaxLogins :
                  issued'[v][l] = IF l = fs[v].entry.login THEN issued[v][l] + 1 ELSE issued[v][l]
  <2> DEFINE e == fs[v].entry
  <2>1. v \in Providers /\ fs[v] # Nothing /\ fs[v].pc = "sent" /\ Accepts(v, e)
    OBVIOUS
  <2>2. issued'[v] = Issue(v, e) /\ issued[v] \in [1 .. MaxLogins -> 0 .. MaxTokens]
    BY <1>1, <2>1 DEF TypeOK
  <2>3. e.login \in 1 .. MaxLogins
    BY <1>2, <2>1
  <2>4. issued[v][e.login] \in 0 .. MaxTokens /\ issued[v][e.login] < MaxTokens
    BY <2>1, <2>2, <2>3 DEF Issued, Accepts
  <2>5. issued[v][e.login] + 1 \in 0 .. MaxTokens
    BY <2>4, AuthStoreConstants
  <2>6. issued'[v] = [issued[v] EXCEPT ![e.login] = issued[v][e.login] + 1]
    BY <2>2 DEF Issue
  <2> HIDE DEF e
  <2>7. issued'[v] \in [1 .. MaxLogins -> 0 .. MaxTokens]
    BY <2>2, <2>3, <2>5, <2>6
  <2>8. \A l \in 1 .. MaxLogins :
          issued'[v][l] = IF l = e.login THEN issued[v][l] + 1 ELSE issued[v][l]
    BY <2>2, <2>3, <2>6
  <2> QED BY <2>1, <2>7, <2>8 DEF e
<1>4. \A v \in Providers : v \notin taken => issued'[v] = issued[v]
  BY <1>1
<1>6. issued' \in [Providers -> [1 .. MaxLogins -> 0 .. MaxTokens]]
  <2>1. \A v \in Providers : issued'[v] \in [1 .. MaxLogins -> 0 .. MaxTokens]
    BY <1>3, <1>4 DEF TypeOK
  <2>2. issued' = [v \in Providers |-> issued'[v]]
    BY <1>1
  <2> QED BY <2>1, <2>2
<1>8. Grows
  <2> SUFFICES ASSUME NEW v \in Providers, NEW l \in 1 .. MaxLogins
               PROVE  issued'[v][l] \in 0 .. MaxTokens /\ issued'[v][l] >= issued[v][l]
    BY DEF Grows
  <2>1. issued[v][l] \in 0 .. MaxTokens /\ issued'[v][l] \in 0 .. MaxTokens
    BY <1>6, Typed
  <2>2. issued'[v][l] = issued[v][l] \/ issued'[v][l] = issued[v][l] + 1
    BY <1>4, <1>3
  <2> QED BY <2>1, <2>2
<1>9. PendingKept
  <2> SUFFICES ASSUME NEW q \in Procs, Pending(q)
               PROVE  issued'[write[q].provider][write[q].next.login] = issued[write[q].provider][write[q].next.login]
    BY DEF PendingKept
  <2> DEFINE v == write[q].provider
             l == write[q].next.login
  <2>1. v \in Providers /\ l \in 1 .. MaxLogins
    BY Typed, CredentialFacts DEF Pending
  <2>2. CASE v \in taken
    <3>1. fs[v].entry.login # l
      BY <2>2, <1>2, <1>3 DEF Known
    <3> QED BY <3>1, <2>1, <2>2, <1>3 DEF Pending, Issued
  <2>3. CASE v \notin taken
    BY <2>1, <2>3, <1>4 DEF Issued, Pending
  <2> QED BY <2>2, <2>3
<1>10. stranded' \subseteq Providers \X (1 .. MaxLogins) /\ stranded \subseteq stranded'
  <2>1. \A v \in taken \cup With({"answered", "storing"}) :
          v \in Providers /\ fs[v].entry.login \in 1 .. MaxLogins
    BY <1>2, <1>3
  <2> QED BY <2>1, <1>1 DEF TypeOK
<1>11. ASSUME NEW v \in Rotating, file[v] # LoggedOut, <<v, file[v].login>> \notin stranded'
       PROVE  /\ issued'[v][file[v].login] = issued[v][file[v].login]
              /\ Carrier(p, v) => fs[v] = Nothing
  <2>1. v \in Providers /\ file[v].login \in 1 .. MaxLogins
    BY <1>11, Typed, CredentialFacts
  <2>2. v \in taken \cup With({"answered", "storing"}) => fs[v].entry.login # file[v].login
    BY <1>1, <1>11
  <2>3. issued'[v][file[v].login] = issued[v][file[v].login]
    BY <2>1, <2>2, <1>4, <1>3
  <2>4. ASSUME Carrier(p, v), fs[v] # Nothing
        PROVE  FALSE
    <3>1. fs[v].pc # "sent" /\ fs[v].entry = file[v]
      BY <2>1, <2>4 DEF Carrier
    <3>2. v \in With({"answered", "storing"})
      BY <3>1, <2>1, <2>4, <1>2
    <3> QED BY <3>1, <3>2, <2>2
  <2> QED BY <2>3, <2>4
<1> QED BY <1>6, <1>8, <1>9, <1>10, <1>11

LEMMA AbandonIInv ==
  ASSUME IInv, NEW p \in Procs, NEW v \in Providers,
         Turn(p), flight[p][v] # Nothing, Land(p, v), GiveUp(Only(p, v)),
         UNCHANGED <<ties, file, lock, cache, write, logins, users>>
  PROVE  IInv'
<1> USE DEF IInv
<1>1. /\ flight'[p][v] = Nothing
      /\ \A q \in Procs, u \in Providers : q # p \/ u # v => flight'[q][u] = flight[q][u]
      /\ flight' \in [Procs -> [Providers -> Flights \cup {Nothing}]]
  BY PutFlight DEF Land
<1>2. \A u \in Providers : Only(p, v)[u] = IF u = v THEN flight[p][v] ELSE Nothing
  BY DEF Only
<1>3. /\ issued' \in [Providers -> [1 .. MaxLogins -> 0 .. MaxTokens]]
      /\ stranded' \subseteq Providers \X (1 .. MaxLogins) /\ stranded \subseteq stranded'
      /\ Grows /\ PendingKept
      /\ \A u \in Rotating : file[u] # LoggedOut /\ <<u, file[u].login>> \notin stranded' =>
           /\ issued'[u][file[u].login] = issued[u][file[u].login]
           /\ Carrier(p, u) => Only(p, v)[u] = Nothing
  BY <1>2, GiveUpFacts
<1>4. TypeOK'
  BY <1>1, <1>3 DEF TypeOK
<1>5. FlightsOK'
  <2> SUFFICES ASSUME NEW q \in Procs, NEW u \in Providers, flight'[q][u] # Nothing
               PROVE  FlightOK(u, flight[q][u])'
    BY DEF FlightsOK
  <2>1. flight'[q][u] = flight[q][u]
    BY <1>1
  <2> QED BY <2>1, <1>3, Typed, FlightStillOK DEF FlightsOK
<1>6. WritesOK'
  BY <1>1, <1>3, WritesStillOK DEF Turn
<1>7. KnownOK'
  <2>1. \A u \in Providers, d \in Credentials : Known(u, d) => Known(u, d)'
    BY <1>3, StillKnown DEF NoNewPending, Pending
  <2>2. \A q \in Procs, u \in Providers : flight'[q][u] # Nothing =>
          flight'[q][u].entry \in Credentials /\ Known(u, flight'[q][u].entry)
    BY <1>1, Typed DEF KnownOK
  <2> QED BY <2>1, <2>2, Typed DEF KnownOK
<1>8. TokensOK'
  <2> SUFFICES ASSUME NEW u \in Rotating, <<u, file[u].login>> \notin stranded', file[u] # LoggedOut
               PROVE  TokenOK(u)'
    BY DEF TokensOK, TokenOK
  <2>1. issued'[u][file[u].login] = issued[u][file[u].login] /\ u \in Providers
    BY <1>3, Typed
  <2>2. \A q \in Procs : Carrier(q, u) => Carrier(q, u)'
    BY <1>1, <1>2, <1>3, <2>1 DEF Carrier, Issued
  <2> QED BY <1>3, <2>1, <2>2, TokenStillOK DEF TokensOK
<1>9. AccountIsTheUsers'
  BY DEF AccountIsTheUsers
<1> QED BY <1>4, <1>5, <1>6, <1>7, <1>8, <1>9

\* A change begins: the lock is taken, nobody else is in one.
LEMMA ChangeTyped ==
  ASSUME TypeOK, NEW p \in Procs, NEW kind \in {"user", "refresh"}, NEW v \in Providers,
         NEW next \in Credentials, write' = [write EXCEPT ![p] = Change(kind, v, next)]
  PROVE  /\ write' \in [Procs -> Writes \cup {Nothing}]
         /\ write'[p] = Change(kind, v, next) /\ write'[p] # Nothing
         /\ \A q \in Procs : q # p => write'[q] = write[q]
<1>1. Change(kind, v, next) \in Writes
  BY DEF Change, Writes, TypeOK
<1> QED BY <1>1, NoChange DEF TypeOK

LEMMA PersistIInv ==
  ASSUME IInv, NEW p \in Procs, NEW v \in Providers, persistRefreshed(p, v)
  PROVE  IInv'
<1> USE DEF IInv, persistRefreshed, history
<1> DEFINE f == [flight[p][v] EXCEPT !.pc = "storing"]
<1>1. flight[p][v] \in Flights /\ flight[p][v].reply \in Credentials
  BY Typed
<1>2. /\ f \in Flights /\ f # Nothing /\ f.pc = "storing"
      /\ f.entry = flight[p][v].entry /\ f.reply = flight[p][v].reply
  BY <1>1, NothingIsNothing DEF Flights
<1>3. /\ flight'[p][v] = f
      /\ \A q \in Procs, u \in Providers : q # p \/ u # v => flight'[q][u] = flight[q][u]
      /\ flight' \in [Procs -> [Providers -> Flights \cup {Nothing}]]
  BY <1>2, PutFlight
<1>4. /\ write' \in [Procs -> Writes \cup {Nothing}]
      /\ write'[p] = Change("refresh", v, flight[p][v].reply)
      /\ \A q \in Procs : write[q] = Nothing /\ (q # p => write'[q] = Nothing)
  BY <1>1, ChangeTyped, LoneWriter
<1>5. \A q \in Procs : ~Pending(q) /\ ~Pending(q)'
  BY <1>4 DEF Pending, Change
<1>6. TypeOK'
  BY <1>3, <1>4 DEF TypeOK
<1>7. FlightsOK'
  <2> SUFFICES ASSUME NEW q \in Procs, NEW u \in Providers, flight'[q][u] # Nothing
               PROVE  FlightOK(u, flight[q][u])'
    BY DEF FlightsOK
  <2>1. FlightOK(u, flight[q][u]) /\ (q = p /\ u = v => flight[q][u].pc # "sent")
    BY <1>3 DEF FlightsOK
  <2> HIDE DEF f
  <2> QED BY <2>1, <1>2, <1>3 DEF FlightOK, Issued
<1>8. WritesOK'
  <2> SUFFICES WriteOK(p, write[p])'
    BY <1>4 DEF WritesOK
  <2> HIDE DEF f
  <2> QED BY <1>2, <1>3, <1>4, <1>5 DEF WriteOK, Change
<1>9. KnownOK'
  <2>1. \A u, d : Known(u, d) => Known(u, d)'
    BY <1>5 DEF Known, Issued
  <2>2. \A q \in Procs, u \in Providers : flight'[q][u] # Nothing => Known(u, flight'[q][u].entry)
    <3> HIDE DEF f
    <3> QED BY <1>2, <1>3 DEF KnownOK
  <2> QED BY <2>1, <2>2 DEF KnownOK
<1>10. TokensOK'
  <2> SUFFICES ASSUME NEW u \in Rotating
               PROVE  TokenOK(u)'
    BY DEF TokensOK
  <2>1. \A q \in Procs : Carrier(q, u) => Carrier(q, u)'
    <3> HIDE DEF f
    <3> QED BY <1>2, <1>3, Typed DEF Carrier, Issued
  <2> QED BY <2>1, TokenStillOK DEF TokensOK
<1>11. AccountIsTheUsers'
  BY DEF AccountIsTheUsers
<1> QED BY <1>6, <1>7, <1>8, <1>9, <1>10, <1>11

LEMMA LoginIInv ==
  ASSUME IInv, NEW p \in Procs, NEW v \in Providers, runLogin(p, v)
  PROVE  IInv'
<1> USE DEF IInv, runLogin, history
<1> DEFINE n == logins + 1
           c == [login |-> n, token |-> 1]
<1>1. n \in 1 .. MaxLogins /\ logins \in 0 .. MaxLogins /\ logins < n
  BY AuthStoreConstants DEF TypeOK
<1>2. c \in Credentials /\ c.login = n /\ c.token = 1
  BY <1>1, AuthStoreConstants DEF Credentials
<1>3. /\ write' \in [Procs -> Writes \cup {Nothing}]
      /\ write'[p] = Change("user", v, c)
      /\ \A q \in Procs : write[q] = Nothing /\ (q # p => write'[q] = Nothing)
  BY <1>2, ChangeTyped, LoneWriter
<1>4. /\ issued' \in [Providers -> [1 .. MaxLogins -> 0 .. MaxTokens]]
      /\ issued'[v][n] = 1
      /\ \A u \in Providers, l \in 1 .. MaxLogins : l # n => issued'[u][l] = issued[u][l]
  <2>1. issued[v] \in [1 .. MaxLogins -> 0 .. MaxTokens] /\ 1 \in 0 .. MaxTokens
    BY AuthStoreConstants DEF TypeOK
  <2>2. issued'[v] = [issued[v] EXCEPT ![n] = 1] /\ \A u \in Providers : u # v => issued'[u] = issued[u]
    BY DEF TypeOK
  <2>3. [issued[v] EXCEPT ![n] = 1] \in [1 .. MaxLogins -> 0 .. MaxTokens]
    BY <2>1
  <2>4. issued' \in [Providers -> [1 .. MaxLogins -> 0 .. MaxTokens]]
    BY <2>3 DEF TypeOK
  <2> HIDE DEF n
  <2> QED BY <2>1, <2>2, <2>4, <1>1
<1>5. TypeOK'
  BY <1>1, <1>3, <1>4 DEF TypeOK
<1>6. \A q \in Procs : ~Pending(q) /\ (Pending(q)' => q = p /\ write'[q].next.login = n)
  BY <1>2, <1>3 DEF Pending, Change
<1>7. \A u \in Providers, d \in Credentials : d # LoggedOut /\ Known(u, d) =>
        d.login \in 1 .. MaxLogins /\ d.login < n /\ issued'[u][d.login] = issued[u][d.login]
  <2> SUFFICES ASSUME NEW u \in Providers, NEW d \in Credentials, d # LoggedOut, Known(u, d)
               PROVE  d.login \in 1 .. MaxLogins /\ d.login < n /\ issued'[u][d.login] = issued[u][d.login]
    OBVIOUS
  <2>1. d.login \in 1 .. MaxLogins /\ d.login <= logins
    BY CredentialFacts DEF Known
  <2>2. d.login < n
    BY <2>1, <1>1
  <2> QED BY <2>1, <2>2, <1>1, <1>4
<1> HIDE DEF n
<1>8. \A u \in Providers, d \in Credentials : Known(u, d) => Known(u, d)'
  <2> SUFFICES ASSUME NEW u \in Providers, NEW d \in Credentials, d # LoggedOut, Known(u, d)
               PROVE  Known(u, d)'
    BY DEF Known
  <2>1. d.login \in 1 .. MaxLogins /\ d.login < n /\ issued'[u][d.login] = issued[u][d.login]
    BY <1>7
  <2>2. d.login <= logins'
    BY <2>1, <1>1 DEF n
  <2> QED BY <2>1, <2>2, <1>1, <1>6 DEF Known, Issued
<1>9. FlightsOK'
  <2> SUFFICES ASSUME NEW q \in Procs, NEW u \in Providers, flight[q][u] # Nothing
               PROVE  FlightOK(u, flight[q][u])'
    BY DEF FlightsOK
  <2>1. /\ FlightOK(u, flight[q][u]) /\ flight[q][u].entry \in Credentials
        /\ Known(u, flight[q][u].entry)
    BY Typed DEF FlightsOK, KnownOK
  <2>2. issued'[u][flight[q][u].entry.login] = issued[u][flight[q][u].entry.login]
    BY <2>1, <1>7 DEF FlightOK
  <2> QED BY <2>1, <2>2 DEF FlightOK, Issued
<1>10. WritesOK'
  <2> SUFFICES WriteOK(p, write[p])'
    BY <1>3 DEF WritesOK
  <2>1. /\ write'[p].kind = "user" /\ write'[p].pc = "locked" /\ write'[p].provider = v
        /\ write'[p].next = c
    BY <1>3 DEF Change
  <2>2. issued'[v][c.login] = 1 /\ c.token = 1 /\ c.login <= logins'
    BY <1>1, <1>2, <1>4 DEF n
  <2> HIDE DEF c
  <2> QED BY <2>1, <2>2 DEF WriteOK, Issued
<1>11. KnownOK'
  BY <1>8, Typed DEF KnownOK
<1>12. TokensOK'
  <2> SUFFICES ASSUME NEW u \in Rotating, file[u] # LoggedOut
               PROVE  TokenOK(u)'
    BY DEF TokensOK, TokenOK
  <2>1. u \in Providers /\ issued'[u][file[u].login] = issued[u][file[u].login]
    BY <1>7, Typed DEF KnownOK
  <2>2. \A q \in Procs : Carrier(q, u) => Carrier(q, u)'
    BY <2>1 DEF Carrier, Issued
  <2> QED BY <2>1, <2>2, TokenStillOK DEF TokensOK
<1>13. AccountIsTheUsers'
  BY DEF AccountIsTheUsers
<1> QED BY <1>5, <1>9, <1>10, <1>11, <1>12, <1>13

LEMMA LogoutIInv ==
  ASSUME IInv, NEW p \in Procs, NEW v \in Providers, runLogout(p, v)
  PROVE  IInv'
<1> USE DEF IInv, runLogout, history
<1>1. /\ write' \in [Procs -> Writes \cup {Nothing}]
      /\ write'[p] = Change("user", v, LoggedOut)
      /\ \A q \in Procs : write[q] = Nothing /\ (q # p => write'[q] = Nothing)
  BY LoggedOutFacts, ChangeTyped, LoneWriter
<1>2. \A q \in Procs : ~Pending(q) /\ ~Pending(q)'
  BY <1>1 DEF Pending, Change
<1>3. TypeOK'
  BY <1>1 DEF TypeOK
<1>4. FlightsOK'
  BY DEF FlightsOK, FlightOK, Issued
<1>5. WritesOK'
  <2> SUFFICES WriteOK(p, write[p])'
    BY <1>1 DEF WritesOK
  <2> QED BY <1>1, <1>2 DEF WriteOK, Change
<1>6. KnownOK'
  <2>1. \A u, d : Known(u, d) => Known(u, d)'
    BY <1>2 DEF Known, Issued
  <2> QED BY <2>1 DEF KnownOK
<1>7. TokensOK' /\ AccountIsTheUsers'
  BY DEF TokensOK, TokenOK, Carrier, Issued, AccountIsTheUsers
<1> QED BY <1>3, <1>4, <1>5, <1>6, <1>7

LEMMA LeaveFacts ==
  ASSUME TypeOK, WritesOK, NEW p \in Procs, write[p] # Nothing, Leave(p)
  PROVE  /\ lock' = Free
         /\ write' \in [Procs -> Writes \cup {Nothing}] /\ \A q \in Procs : write'[q] = Nothing
         /\ flight' \in [Procs -> [Providers -> Flights \cup {Nothing}]]
         /\ \A q \in Procs, u \in Providers :
              \/ flight'[q][u] = flight[q][u]
              \/ flight'[q][u] = Nothing /\ q = p /\ write[p].kind = "refresh" /\ u = write[p].provider
<1>1. write[p].provider \in Providers
  BY Typed
<1>2. /\ flight' \in [Procs -> [Providers -> Flights \cup {Nothing}]]
      /\ \A q \in Procs, u \in Providers :
           \/ flight'[q][u] = flight[q][u]
           \/ flight'[q][u] = Nothing /\ q = p /\ write[p].kind = "refresh" /\ u = write[p].provider
  <2>1. CASE write[p].kind = "refresh"
    BY <2>1, <1>1, PutFlight DEF Leave, Land
  <2>2. CASE write[p].kind # "refresh"
    BY <2>2 DEF Leave, TypeOK
  <2> QED BY <2>1, <2>2
<1>3. write' \in [Procs -> Writes \cup {Nothing}] /\ \A q \in Procs : write'[q] = Nothing
  BY LoneWriter DEF Leave, TypeOK
<1> QED BY <1>2, <1>3 DEF Leave

\* What is left when a change is over, by its end or by the death of its
\* process: the flights that ended, gone says which, take no token with them
\* that is not stranded.
LEMMA OverIInv ==
  ASSUME IInv, TypeOK', Grows, NEW p \in Procs,
         UNCHANGED <<file, logins, users>>, stranded \subseteq stranded',
         \A q \in Procs : write'[q] = Nothing \/ (q # p /\ write'[q] = write[q]),
         \A q \in Procs : write'[q] # Nothing => lock' = q,
         PendingKept,
         \A q \in Procs : cache'[q] \in {cache[q], file, Nothing},
         \A q \in Procs, u \in Providers : flight'[q][u] = flight[q][u]
                                           \/ (flight'[q][u] = Nothing /\ q = p),
         \A u \in Rotating : file[u] # LoggedOut /\ <<u, file[u].login>> \notin stranded' =>
           /\ issued'[u][file[u].login] = issued[u][file[u].login]
           /\ Carrier(p, u) => flight'[p][u] = flight[p][u]
  PROVE  IInv'
<1> USE DEF IInv
<1>1. FlightsOK'
  <2> SUFFICES ASSUME NEW q \in Procs, NEW u \in Providers, flight'[q][u] # Nothing
               PROVE  FlightOK(u, flight[q][u])'
    BY DEF FlightsOK
  <2>1. flight'[q][u] = flight[q][u]
    OBVIOUS
  <2> QED BY <2>1, Typed, FlightStillOK DEF FlightsOK
<1>2. NoNewPending
  BY DEF NoNewPending, Pending
<1>3. WritesOK'
  <2> SUFFICES ASSUME NEW q \in Procs, write'[q] # Nothing
               PROVE  WriteOK(q, write[q])'
    BY DEF WritesOK
  <2>1. q # p /\ write'[q] = write[q] /\ lock' = q /\ WriteOK(q, write[q]) /\ write[q].provider \in Providers
    BY Typed DEF WritesOK
  <2>2. \A u \in Providers : flight'[q][u] = flight[q][u]
    BY <2>1
  <2>3. Pending(q)' => write[q].next.token = 1 /\ write[q].next.login <= logins
                       /\ issued'[write[q].provider][write[q].next.login] = 1
    BY <2>1 DEF Pending, PendingKept, WriteOK, Issued
  <2> QED BY <2>1, <2>2, <2>3 DEF WriteOK, Issued
<1>4. KnownOK'
  <2>1. \A u \in Providers, d \in Credentials : Known(u, d) => Known(u, d)'
    BY <1>2, StillKnown
  <2>2. \A q \in Procs, u \in Providers : flight'[q][u] # Nothing =>
          flight'[q][u].entry \in Credentials /\ Known(u, flight'[q][u].entry)
    BY Typed DEF KnownOK
  <2>3. \A q \in Procs, u \in Providers : cache'[q] # Nothing =>
          cache'[q][u] \in Credentials /\ Known(u, cache'[q][u])
    BY Typed DEF KnownOK
  <2> QED BY <2>1, <2>2, <2>3, Typed DEF KnownOK
<1>5. TokensOK'
  <2> SUFFICES ASSUME NEW u \in Rotating, <<u, file[u].login>> \notin stranded', file[u] # LoggedOut
               PROVE  TokenOK(u)'
    BY DEF TokensOK, TokenOK
  <2>1. issued'[u][file[u].login] = issued[u][file[u].login] /\ u \in Providers
    BY Typed
  <2>2. \A q \in Procs : Carrier(q, u) => Carrier(q, u)'
    BY <2>1 DEF Carrier, Issued
  <2> QED BY <2>1, <2>2, TokenStillOK DEF TokensOK
<1>6. AccountIsTheUsers'
  BY DEF AccountIsTheUsers
<1> QED BY <1>1, <1>3, <1>4, <1>5, <1>6

\* Nothing issued.
LEMMA NoIssue ==
  ASSUME TypeOK, UNCHANGED issued
  PROVE  Grows /\ PendingKept
BY Typed DEF Grows, PendingKept

LEMMA LeaveIInv ==
  ASSUME IInv, NEW p \in Procs, write[p] # Nothing, Leave(p),
         UNCHANGED <<ties, file, issued, logins, history>>,
         cache' \in [Procs -> Files \cup {Nothing}],
         \A q \in Procs : cache'[q] \in {cache[q], file, Nothing},
         write[p].kind = "refresh" =>
           file[write[p].provider] # flight[p][write[p].provider].entry
  PROVE  IInv'
<1> USE DEF IInv, history
<1>1. TypeOK'
  BY LeaveFacts DEF TypeOK
<1>2. \A q \in Procs : write'[q] = Nothing
  BY LeaveFacts
<1>3. \A q \in Procs, u \in Providers :
              \/ flight'[q][u] = flight[q][u]
              \/ flight'[q][u] = Nothing /\ q = p /\ write[p].kind = "refresh" /\ u = write[p].provider
  BY LeaveFacts
<1>4. \A u \in Rotating : Carrier(p, u) => flight'[p][u] = flight[p][u]
  BY <1>3, Typed DEF Carrier
<1>5. Grows /\ PendingKept
  BY NoIssue
<1>6. \A u \in Rotating : file[u] # LoggedOut /\ <<u, file[u].login>> \notin stranded' =>
           /\ issued'[u][file[u].login] = issued[u][file[u].login]
           /\ Carrier(p, u) => flight'[p][u] = flight[p][u]
  BY <1>4
<1>7. /\ \A q \in Procs : write'[q] = Nothing \/ (q # p /\ write'[q] = write[q])
      /\ \A q \in Procs : write'[q] # Nothing => lock' = q
      /\ \A q \in Procs, u \in Providers : flight'[q][u] = flight[q][u]
                                           \/ (flight'[q][u] = Nothing /\ q = p)
  BY <1>2, <1>3
<1>8. UNCHANGED <<file, logins, users>> /\ stranded \subseteq stranded'
  OBVIOUS
<1> HIDE DEF IInv
<1> QED BY <1>1, <1>5, <1>6, <1>7, <1>8, OverIInv

LEMMA ReadIInv ==
  ASSUME IInv, NEW p \in Procs, Read(p)
  PROVE  IInv'
<1> USE DEF IInv, Read, history
<1> DEFINE w == write[p]
           v == write[p].provider
<1>1. w \in Writes /\ v \in Providers /\ w.next \in Credentials /\ WriteOK(p, w)
  BY Typed DEF WritesOK
<1>2. cache' \in [Procs -> Files \cup {Nothing}] /\ \A q \in Procs : cache'[q] \in {cache[q], file}
  BY DEF TypeOK, Disk
<1>3. CASE Superseded(p)
  BY <1>2, <1>3, LeaveIInv DEF Superseded, Disk
<1>4. CASE ~Superseded(p)
  <2> DEFINE r == [w EXCEPT !.pc = "read", !.data = [file EXCEPT ![v] = w.next]]
  <2>1. [file EXCEPT ![v] = w.next] \in Files
    BY <1>1 DEF TypeOK, Files
  <2>2. /\ r \in Writes /\ r # Nothing /\ r.pc = "read" /\ r.data = [file EXCEPT ![v] = w.next]
        /\ r.kind = w.kind /\ r.provider = v /\ r.next = w.next
    BY <2>1, <1>1, NoChange DEF Writes
  <2>3. /\ write' \in [Procs -> Writes \cup {Nothing}] /\ write'[p] = r
        /\ \A q \in Procs : q # p => write'[q] = Nothing
    <3>1. write' = [write EXCEPT ![p] = r]
      BY <1>4 DEF Disk
    <3>2. \A q \in Procs : q # p => write[q] = Nothing
      BY LoneWriter
    <3> HIDE DEF r
    <3> QED BY <2>2, <3>1, <3>2 DEF TypeOK
  <2>4. UNCHANGED <<lock, flight>>
    BY <1>4
  <2> HIDE DEF r
  <2>5. \A q \in Procs : Pending(q)' <=> Pending(q)
    BY <2>2, <2>3, LoneWriter DEF Pending
  <2>6. TypeOK'
    BY <1>2, <2>3, <2>4 DEF TypeOK
  <2>7. FlightsOK'
    BY <2>4 DEF FlightsOK, FlightOK, Issued
  <2>8. WritesOK'
    <3> SUFFICES WriteOK(p, write[p])'
      BY <2>3 DEF WritesOK
    <3>1. w.kind = "refresh" => file[v] = flight[p][v].entry
      BY <1>4 DEF Superseded, Disk
    <3> QED BY <3>1, <1>1, <2>2, <2>3, <2>4, <2>5 DEF WriteOK, Issued
  <2>9. KnownOK'
    <3>1. NoNewPending
      BY <2>2, <2>3, <2>5 DEF NoNewPending, Pending
    <3>2. Grows
      BY NoIssue
    <3>3. \A u \in Providers, d \in Credentials : Known(u, d) => Known(u, d)'
      BY <3>1, <3>2, StillKnown
    <3>4. \A q \in Procs, u \in Providers : cache'[q] # Nothing =>
            cache'[q][u] \in Credentials /\ Known(u, cache'[q][u])
      BY <1>2, Typed DEF KnownOK
    <3> QED BY <2>4, <3>3, <3>4, Typed DEF KnownOK
  <2>10. TokensOK' /\ AccountIsTheUsers'
    BY <2>4 DEF TokensOK, TokenOK, Carrier, Issued, AccountIsTheUsers
  <2> QED BY <2>6, <2>7, <2>8, <2>9, <2>10
<1> QED BY <1>3, <1>4

\* Every entry but one of a file read for a change is on the disk.
LEMMA DataFacts ==
  ASSUME IInv, NEW p \in Procs, write[p] # Nothing, write[p].pc = "read"
  PROVE  /\ write[p].data \in Files
         /\ write[p].data[write[p].provider] = write[p].next
         /\ \A u \in Providers : u # write[p].provider => write[p].data[u] = file[u]
<1> DEFINE w == write[p]
<1>1. w \in Writes /\ w.provider \in Providers /\ w.data = [file EXCEPT ![w.provider] = w.next]
  BY Typed DEF IInv, WritesOK, WriteOK
<1>2. w.data \in Files
  BY <1>1 DEF Writes
<1> QED BY <1>1, <1>2 DEF IInv, TypeOK, Files

LEMMA RenameIInv ==
  ASSUME IInv, NEW p \in Procs, Rename(p)
  PROVE  IInv'
<1> USE DEF IInv, Rename
<1> DEFINE w == write[p]
           v == write[p].provider
           n == write[p].next
<1>1. w # Nothing /\ w.pc = "read" /\ w \in Writes /\ v \in Providers /\ n \in Credentials /\ WriteOK(p, w)
  BY Typed DEF WritesOK
<1>2. /\ file' \in Files /\ file' = w.data /\ file'[v] = n
      /\ \A u \in Providers : u # v => file'[u] = file[u]
  BY DataFacts
<1>3. /\ write' \in [Procs -> Writes \cup {Nothing}]
      /\ write'[p].pc = "renamed" /\ write'[p].kind = w.kind /\ write'[p].provider = v
      /\ write'[p].next = n /\ write'[p].data = w.data
      /\ \A q \in Procs : q # p => write[q] = Nothing /\ write'[q] = Nothing
  <2> DEFINE r == [w EXCEPT !.pc = "renamed"]
  <2>1. r \in Writes /\ r.pc = "renamed" /\ r.kind = w.kind /\ r.provider = v /\ r.next = n /\ r.data = w.data
    BY <1>1 DEF Writes
  <2>2. write' = [write EXCEPT ![p] = r] /\ \A q \in Procs : q # p => write[q] = Nothing
    BY LoneWriter
  <2> HIDE DEF r
  <2> QED BY <2>1, <2>2 DEF TypeOK
<1>4. cache' \in [Procs -> Files \cup {Nothing}] /\ ties' \in 0 .. MaxTies
      /\ \A q \in Procs : cache'[q] = cache[q] \/ cache'[q] = Nothing
  BY AuthStoreConstants DEF TypeOK
<1>5. n.login \in 0 .. MaxLogins /\ users' \in [Providers -> 0 .. MaxLogins]
  BY <1>1, CredentialFacts DEF TypeOK
<1>6. TypeOK'
  BY <1>2, <1>3, <1>4, <1>5 DEF TypeOK
<1>7. FlightsOK'
  BY DEF FlightsOK, FlightOK, Issued
<1>8. \A q \in Procs : ~Pending(q)'
  BY <1>3 DEF Pending
<1>9. WritesOK'
  <2> SUFFICES WriteOK(p, write[p])'
    BY <1>3 DEF WritesOK
  <2> QED BY <1>1, <1>2, <1>3, <1>8 DEF WriteOK
<1>10. \/ w.kind = "user" /\ n = LoggedOut
       \/ w.kind = "user" /\ n # LoggedOut /\ Pending(p) /\ n.token = 1 /\ n.login <= logins /\ Issued(v, n) = 1
       \/ /\ w.kind = "refresh" /\ n = flight[p][v].reply /\ file[v] = flight[p][v].entry
          /\ flight[p][v] # Nothing /\ FlightOK(v, flight[p][v]) /\ flight[p][v].pc = "storing"
  BY <1>1 DEF Pending, WriteOK, FlightsOK, Writes
<1>11. ASSUME w.kind = "refresh"
       PROVE  /\ file[v] # LoggedOut /\ n.login = file[v].login /\ n.token > file[v].token
              /\ n.token <= Issued(v, n) /\ (v \in Rotating => n.token = file[v].token + 1)
  BY <1>10, <1>11 DEF FlightOK, Issued
<1>12. \A u \in Providers, d \in Credentials : Known(u, d) => Known(u, d)'
  <2> SUFFICES ASSUME NEW u \in Providers, NEW d \in Credentials, d # LoggedOut, Known(u, d),
                      u \in Rotating, d.login = file'[u].login
               PROVE  d.token <= file'[u].token
    BY <1>8 DEF Known, Issued
  <2>0. d.login \in 1 .. MaxLogins /\ d.token \in 1 .. MaxTokens /\ file[u].token \in 0 .. MaxTokens
        /\ n.token \in 0 .. MaxTokens
    BY CredentialFacts, Typed
  <2>1. CASE u # v
    BY <2>1, <1>2 DEF Known
  <2>2. CASE u = v /\ w.kind = "user"
    <3>1. n # LoggedOut
      BY <2>0, <2>2, <1>2, LoggedOutFacts
    <3>2. Pending(p) /\ d.login = n.login
      BY <3>1, <2>2, <1>2, <1>10
    <3> QED BY <3>2 DEF Known
  <2>3. CASE u = v /\ w.kind = "refresh"
    <3>1. d.token <= file[v].token /\ file[v].token < n.token
      BY <2>3, <1>2, <1>11 DEF Known
    <3> QED BY <3>1, <2>0, <2>3, <1>2
  <2> QED BY <2>1, <2>2, <2>3, <1>1 DEF Writes
<1>13. Known(v, n)'
  <2> SUFFICES ASSUME n # LoggedOut
               PROVE  n.login <= logins /\ n.token <= Issued(v, n)
    <3>1. n.token \in 0 .. MaxTokens
      BY <1>1, CredentialFacts
    <3> QED BY <3>1, <1>2, <1>8 DEF Known, Issued
  <2>1. CASE w.kind = "user"
    BY <2>1, <1>10
  <2>2. CASE w.kind = "refresh"
    BY <2>2, <1>11, <1>1 DEF KnownOK, Known
  <2> QED BY <2>1, <2>2, <1>1 DEF Writes
<1>14. KnownOK'
  <2>1. \A u \in Providers : Known(u, file[u])'
    BY <1>2, <1>12, <1>13, Typed DEF KnownOK
  <2>2. \A q \in Procs, u \in Providers : cache'[q] # Nothing =>
          cache'[q][u] \in Credentials /\ Known(u, cache'[q][u])
    BY <1>4, Typed DEF KnownOK
  <2>3. \A q \in Procs, u \in Providers : flight'[q][u] # Nothing =>
          flight'[q][u].entry \in Credentials /\ Known(u, flight'[q][u].entry)
    BY Typed DEF KnownOK
  <2> QED BY <2>1, <2>2, <2>3, <1>12 DEF KnownOK
<1>15. TokensOK'
  <2> SUFFICES ASSUME NEW u \in Rotating
               PROVE  TokenOK(u)'
    BY DEF TokensOK
  <2>1. CASE u # v
    <3>1. u \in Providers /\ file'[u] = file[u]
      BY <2>1, <1>2, Typed
    <3>2. \A q \in Procs : Carrier(q, u) => Carrier(q, u)'
      BY <3>1 DEF Carrier, Issued
    <3> QED BY <3>1, <3>2, TokenStillOK DEF TokensOK
  <2>2. CASE u = v /\ w.kind = "user"
    BY <2>2, <1>2, <1>10 DEF TokenOK, Issued
  <2>3. CASE u = v /\ w.kind = "refresh"
    <3> SUFFICES ASSUME <<v, n.login>> \notin stranded
                 PROVE  n.token = Issued(v, n)
      BY <2>3, <1>2 DEF TokenOK, Issued
    <3>1. /\ file[v].token \in 0 .. MaxTokens /\ n.token \in 0 .. MaxTokens
          /\ Issued(v, n) = Issued(v, file[v])
      BY <2>3, <1>1, <1>11, Typed, CredentialFacts DEF Issued
    <3>2. Issued(v, file[v]) \in 0 .. MaxTokens
      BY <2>3, <1>11, <1>1, Typed, CredentialFacts DEF Issued
    <3>3. file[v].token # Issued(v, file[v])
      BY <2>3, <3>1, <3>2, <1>11
    <3>4. PICK q \in Procs : Carrier(q, v)
      BY <2>3, <3>3, <1>11 DEF TokensOK, TokenOK
    <3>5. flight[q][v].reply.token = file[v].token + 1
      BY <2>3, <3>4, <1>1 DEF Carrier, FlightsOK, FlightOK
    <3> QED BY <2>3, <3>1, <3>4, <3>5, <1>11 DEF Carrier
  <2> QED BY <2>1, <2>2, <2>3, <1>1 DEF Writes
<1>16. AccountIsTheUsers'
  <2> SUFFICES ASSUME NEW u \in Providers
               PROVE  file'[u].login = users'[u]
    BY DEF AccountIsTheUsers
  <2>1. CASE w.kind = "user"
    BY <2>1, <1>1, <1>2 DEF AccountIsTheUsers, TypeOK
  <2>2. CASE w.kind = "refresh"
    BY <2>2, <1>2, <1>11 DEF AccountIsTheUsers
  <2> QED BY <2>1, <2>2, <1>1 DEF Writes
<1> QED BY <1>6, <1>7, <1>9, <1>14, <1>15, <1>16

\* A renamed refresh has moved the entry on from the one it was made from.
LEMMA RenamedMovedOn ==
  ASSUME IInv, NEW p \in Procs, write[p] # Nothing, write[p].pc = "renamed", write[p].kind = "refresh"
  PROVE  /\ file[write[p].provider] # flight[p][write[p].provider].entry
         /\ write[p].provider \in Providers
<1> USE DEF IInv
<1> DEFINE f == flight[p][write[p].provider]
<1>1. /\ write[p].provider \in Providers /\ f # Nothing /\ f.pc = "storing"
      /\ f.reply = write[p].next /\ file[write[p].provider] = write[p].next
  BY Typed DEF WritesOK, WriteOK
<1>2. f.reply.token > f.entry.token /\ f.entry.token \in 0 .. MaxTokens
  BY <1>1, Typed, CredentialFacts DEF FlightsOK, FlightOK
<1> QED BY <1>1, <1>2

LEMMA ReleaseIInv ==
  ASSUME IInv, NEW p \in Procs, Release(p)
  PROVE  IInv'
<1>1. write[p] # Nothing /\ write[p].data = file /\ file \in Files
  BY DEF Release, IInv, WritesOK, WriteOK, TypeOK
<1>2. cache' \in [Procs -> Files \cup {Nothing}] /\ \A q \in Procs : cache'[q] \in {cache[q], file, Nothing}
  BY <1>1 DEF Release, IInv, TypeOK
<1> QED BY <1>1, <1>2, RenamedMovedOn, LeaveIInv DEF Release

LEMMA FailWriteIInv ==
  ASSUME IInv, NEW p \in Procs, FailWrite(p)
  PROVE  IInv'
<1> USE DEF FailWrite
<1> DEFINE v == write[p].provider
<1>1. write[p] # Nothing /\ write[p] \in Writes /\ v \in Providers
  BY Typed DEF IInv
<1>2. cache' \in [Procs -> Files \cup {Nothing}] /\ \A q \in Procs : cache'[q] \in {cache[q], file, Nothing}
  BY DEF IInv, TypeOK
<1>3. CASE write[p].kind = "refresh" /\ write[p].pc = "read"
  <2>1. \A u \in Providers : Only(p, v)[u] = IF u = v THEN flight[p][v] ELSE Nothing
    BY DEF Only
  <2>2. /\ issued' \in [Providers -> [1 .. MaxLogins -> 0 .. MaxTokens]]
        /\ stranded' \subseteq Providers \X (1 .. MaxLogins) /\ stranded \subseteq stranded'
        /\ Grows /\ PendingKept
        /\ \A u \in Rotating : file[u] # LoggedOut /\ <<u, file[u].login>> \notin stranded' =>
             /\ issued'[u][file[u].login] = issued[u][file[u].login]
             /\ Carrier(p, u) => Only(p, v)[u] = Nothing
    BY <1>3, <2>1, GiveUpFacts
  <2>3. /\ lock' = Free
        /\ write' \in [Procs -> Writes \cup {Nothing}] /\ \A q \in Procs : write'[q] = Nothing
        /\ flight' \in [Procs -> [Providers -> Flights \cup {Nothing}]]
        /\ \A q \in Procs, u \in Providers :
             flight'[q][u] = flight[q][u] \/ (flight'[q][u] = Nothing /\ q = p /\ u = v)
    BY <1>1, LeaveFacts DEF IInv
  <2>4. TypeOK'
    BY <2>2, <2>3 DEF IInv, TypeOK
  <2>5. \A u \in Rotating : file[u] # LoggedOut /\ <<u, file[u].login>> \notin stranded' =>
          /\ issued'[u][file[u].login] = issued[u][file[u].login]
          /\ Carrier(p, u) => flight'[p][u] = flight[p][u]
    BY <2>1, <2>2, <2>3, Typed DEF IInv, Carrier
  <2>6. /\ \A q \in Procs : write'[q] = Nothing \/ (q # p /\ write'[q] = write[q])
        /\ \A q \in Procs : write'[q] # Nothing => lock' = q
        /\ \A q \in Procs, u \in Providers : flight'[q][u] = flight[q][u]
                                             \/ (flight'[q][u] = Nothing /\ q = p)
    BY <2>3
  <2> QED BY <1>2, <2>2, <2>4, <2>5, <2>6, OverIInv
<1>4. CASE ~(write[p].kind = "refresh" /\ write[p].pc = "read")
  <2>1. write[p].kind = "refresh" => file[v] # flight[p][v].entry
    BY <1>1, <1>4, RenamedMovedOn
  <2> QED BY <1>1, <1>2, <1>4, <2>1, LeaveIInv DEF history
<1> QED BY <1>3, <1>4

LEMMA DieIInv ==
  ASSUME IInv, NEW p \in Procs, Die(p)
  PROVE  IInv'
<1> USE DEF Die
<1> DEFINE Stored(v) == write[p] # Nothing /\ write[p].pc = "renamed"
                        /\ write[p].kind = "refresh" /\ write[p].provider = v
           fs == [v \in Providers |-> IF Stored(v) THEN Nothing ELSE flight[p][v]]
<1>1. GiveUp(fs) /\ \A v \in Providers : fs[v] = IF Stored(v) THEN Nothing ELSE flight[p][v]
  OBVIOUS
<1> HIDE DEF fs
<1>2. /\ issued' \in [Providers -> [1 .. MaxLogins -> 0 .. MaxTokens]]
      /\ stranded' \subseteq Providers \X (1 .. MaxLogins) /\ stranded \subseteq stranded'
      /\ Grows /\ PendingKept
      /\ \A u \in Rotating : file[u] # LoggedOut /\ <<u, file[u].login>> \notin stranded' =>
           /\ issued'[u][file[u].login] = issued[u][file[u].login]
           /\ Carrier(p, u) => fs[u] = Nothing
  BY <1>1, GiveUpFacts
<1>3. /\ flight' \in [Procs -> [Providers -> Flights \cup {Nothing}]]
      /\ \A q \in Procs, u \in Providers :
           flight'[q][u] = flight[q][u] \/ (flight'[q][u] = Nothing /\ q = p)
  BY DEF IInv, TypeOK
<1>4. /\ write' \in [Procs -> Writes \cup {Nothing}]
      /\ \A q \in Procs : write'[q] = Nothing \/ (q # p /\ write'[q] = write[q])
  BY DEF IInv, TypeOK
<1>5. \A q \in Procs : write'[q] # Nothing => lock' = q
  BY <1>4 DEF IInv, WritesOK, WriteOK
<1>6. cache' \in [Procs -> Files \cup {Nothing}] /\ \A q \in Procs : cache'[q] \in {cache[q], file, Nothing}
  BY DEF IInv, TypeOK
<1>7. TypeOK'
  BY <1>2, <1>3, <1>4, <1>6 DEF IInv, TypeOK
<1>8. \A u \in Rotating : Carrier(p, u) => u \in Providers /\ ~Stored(u) /\ flight[p][u] # Nothing
  BY RenamedMovedOn, Typed DEF IInv, Carrier
<1>9. \A u \in Rotating : file[u] # LoggedOut /\ <<u, file[u].login>> \notin stranded' =>
          /\ issued'[u][file[u].login] = issued[u][file[u].login]
          /\ Carrier(p, u) => flight'[p][u] = flight[p][u]
  BY <1>1, <1>2, <1>8
<1> QED BY <1>2, <1>3, <1>4, <1>5, <1>6, <1>7, <1>9, OverIInv

-----------------------------------------------------------------------------
LEMMA NextIInv == IInv /\ [Next]_vars => IInv'
<1> SUFFICES ASSUME IInv, [Next]_vars PROVE IInv'
  OBVIOUS
<1>1. CASE UNCHANGED vars
  <2>1. /\ file' = file /\ lock' = lock /\ cache' = cache /\ flight' = flight /\ write' = write /\ issued' = issued
        /\ logins' = logins /\ ties' = ties /\ users' = users /\ stranded' = stranded
    BY <1>1 DEF vars
  <2>2. TypeOK' /\ AccountIsTheUsers'
    BY <2>1 DEF IInv, TypeOK, AccountIsTheUsers
  <2>3. FlightsOK'
    BY <2>1 DEF IInv, FlightsOK, FlightOK, Issued
  <2>4. WritesOK'
    BY <2>1 DEF IInv, WritesOK, WriteOK, Pending, Issued
  <2>5. KnownOK'
    BY <2>1 DEF IInv, KnownOK, Known, Pending, Issued
  <2>6. TokensOK'
    BY <2>1 DEF IInv, TokensOK, TokenOK, Carrier, Issued
  <2> QED BY <2>2, <2>3, <2>4, <2>5, <2>6 DEF IInv
<1>2. ASSUME NEW p \in Procs, Resolve(p) \/ Step(p) \/ Die(p)
      PROVE  IInv'
  BY <1>2, ResolveIInv, ReadIInv, RenameIInv, ReleaseIInv, FailWriteIInv, DieIInv DEF Step
<1>3. ASSUME NEW p \in Procs, NEW v \in Providers, Timeout(p, v) \/ Busy(p, v)
      PROVE  IInv'
  BY <1>3, AbandonIInv DEF Timeout, Busy
<1>4. ASSUME NEW p \in Procs, NEW v \in Providers,
             \/ refreshOauth(p, v) \/ Answer(p, v) \/ Refuse(p, v)
             \/ persistRefreshed(p, v) \/ runLogin(p, v) \/ runLogout(p, v)
      PROVE  IInv'
  BY <1>4, RefreshIInv, AnswerIInv, RefuseIInv, PersistIInv, LoginIInv, LogoutIInv
<1> QED BY <1>1, <1>2, <1>3, <1>4 DEF Next

\* The inductive invariant holds in every reachable state.
THEOREM Invariance == Spec => []IInv
BY InitIInv, NextIInv, PTL DEF Spec

\* Every variable keeps its type, whatever the processes and the server do.
THEOREM TypeCorrect == Spec => []TypeOK
<1>1. IInv => TypeOK
  BY DEF IInv
<1> QED BY <1>1, Invariance, PTL

\* The file holds what the user last asked for (oauth.ts:49, store.ts:415):
\* a refresh only replaces the credential it was made from.
THEOREM AccountKept == Spec => []AccountIsTheUsers
<1>1. IInv => AccountIsTheUsers
  BY DEF IInv
<1> QED BY <1>1, Invariance, PTL

\* The last token of a rotating provider is in the file or in a flight, unless
\* its answer was lost with its process, its time or its write
\* (oauth.ts:39,95).
THEOREM TokenKept == Spec => []LastTokenIsKept
<1>1. IInv => LastTokenIsKept
  <2> SUFFICES ASSUME IInv, NEW v \in Rotating, file[v] # LoggedOut,
                      file[v].token # Issued(v, file[v]), <<v, file[v].login>> \notin stranded
               PROVE  \E p \in Procs : flight[p][v] # Nothing
                        /\ flight[p][v].reply = [login |-> file[v].login, token |-> Issued(v, file[v])]
    BY DEF LastTokenIsKept
  <2>1. PICK p \in Procs : Carrier(p, v)
    BY DEF IInv, TokensOK, TokenOK
  <2> DEFINE r == flight[p][v].reply
             d == [login |-> file[v].login, token |-> Issued(v, file[v])]
  <2>2. r \in Credentials /\ r.login = d.login /\ r.token = d.token
    BY <2>1, Typed DEF IInv, Carrier, FlightsOK, FlightOK
  <2>3. file[v].login \in 1 .. MaxLogins /\ r.token \in 0 .. MaxTokens /\ r.login # 0
    BY <2>2, Typed, CredentialFacts, LoggedOutFacts, AuthStoreConstants DEF IInv
  <2>4. r = d
    BY <2>2, <2>3 DEF Credentials, LoggedOut
  <2> QED BY <2>1, <2>4 DEF Carrier
<1> QED BY <1>1, Invariance, PTL

\* A write changes one provider's entry, and a refresh moves it on within its
\* login, although the file is read whole before and renamed whole after
\* (store.ts:415-439).
THEOREM OneEntry == Spec => OneEntryPerWrite
<1> DEFINE Act == /\ \A u, v \in Providers : Moved(u) /\ Moved(v) => u = v
                  /\ \A v \in Providers : Moved(v) /\ file'[v].login = file[v].login
                                            => file'[v].token > file[v].token
<1>1. IInv /\ [Next]_vars => [Act]_vars
  <2> SUFFICES ASSUME IInv, Next PROVE Act
    OBVIOUS
  <2>1. CASE UNCHANGED file
    BY <2>1 DEF Moved
  <2>2. ASSUME NEW p \in Procs, Rename(p)
        PROVE  Act
    <3> DEFINE w == write[p]
               v == write[p].provider
    <3>1. w # Nothing /\ w \in Writes /\ WriteOK(p, w) /\ w.pc = "read" /\ file' = w.data
          /\ w.next \in Credentials /\ v \in Providers
      BY <2>2, Typed DEF IInv, WritesOK, Rename
    <3>2. file'[v] = w.next /\ \A u \in Providers : u # v => ~Moved(u)
      BY <3>1, DataFacts DEF Moved
    <3>3. ASSUME w.kind = "user", w.next.login = file[v].login
          PROVE  ~Moved(v)
      <4>1. CASE w.next = LoggedOut
        BY <4>1, <3>1, <3>2, <3>3, CredentialFacts, Typed, LoggedOutFacts DEF Moved, IInv
      <4>2. CASE w.next # LoggedOut
        <5>1. Pending(p) /\ w.next.login \in 1 .. MaxLogins
          BY <4>2, <3>1, <3>3, CredentialFacts DEF Pending
        <5>2. file[v] # LoggedOut
          BY <5>1, <3>3, LoggedOutFacts
        <5> QED BY <5>1, <5>2, <3>1, <3>3 DEF IInv, KnownOK, Known
      <4> QED BY <4>1, <4>2
    <3>4. ASSUME w.kind = "refresh"
          PROVE  w.next.token > file[v].token
      BY <3>1, <3>4 DEF IInv, WriteOK, FlightsOK, FlightOK
    <3> QED BY <3>1, <3>2, <3>3, <3>4 DEF Writes
  <2> QED BY <2>1, <2>2, ZenonT(60) DEF Next, Step, Resolve, Read, Release, FailWrite, Die, refreshOauth, Answer,
        Refuse, Timeout, Busy, persistRefreshed, runLogin, runLogout
<1> QED BY <1>1, Invariance, PTL DEF Spec, OneEntryPerWrite
=============================================================================
