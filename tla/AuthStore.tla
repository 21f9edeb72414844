----------------------------- MODULE AuthStore -----------------------------
(***************************************************************************)
(* The credential file the agents of one user share, and the refresh of an *)
(* OAuth credential in it (agent-core/auth).  Every agent is a process of  *)
(* its own: a change of the file runs synchronously under the store lock   *)
(* and finds the lock busy rather than wait; a refresh reads the file      *)
(* without the lock, leaves the process for an HTTP exchange, and comes    *)
(* back to a file that logins, logouts and refreshes of other processes    *)
(* may have changed.                                                       *)
(*                                                                         *)
(* auth/lock.ts is taken at its word here: one holder, and a lock whose    *)
(* owner died goes to the next contender.                                  *)
(***************************************************************************)
EXTENDS Integers, FiniteSets

CONSTANTS
  Procs,      \* agent processes
  Providers,  \* providers with an OAuth login
  Rotating,   \* those whose server accepts a refresh token once (openai-codex)
  Free, Dead, \* lock states next to a live holder
  Nothing,    \* no flight, no write, no cache
  MaxTies,    \* bound: writes within the clock tick of the last one
  MaxLogins,  \* bound: logins
  MaxTokens   \* bound: tokens issued for one login

ASSUME AuthStoreConstants ==
  /\ Rotating \subseteq Providers
  /\ {MaxLogins, MaxTokens} \subseteq Nat \ {0} /\ MaxTies \in Nat
  /\ {Free, Dead, Nothing} \cap Procs = {} /\ Free # Dead

VARIABLES
  file,      \* auth.json
  lock,      \* auth.json.lock
  cache,     \* cached, while its mtime is the file's
  flight,    \* refreshFlights
  write,     \* the synchronous change a process is in
  issued,    \* server of each provider: tokens issued for each login
  logins,    \* bound: logins so far
  ties,      \* bound: ties so far
  users,     \* history: the login each entry shall hold, 0 after a logout
  stranded   \* history: logins whose last token reached no file

vars == <<file, lock, cache, flight, write, issued, logins, ties, users, stranded>>
history == <<users, stranded>>
-----------------------------------------------------------------------------
\* A credential is the login it comes from and which of its tokens it holds.
LoggedOut == [login |-> 0, token |-> 0]
Credentials == {LoggedOut} \cup [login : 1 .. MaxLogins, token : 1 .. MaxTokens]
Files == [Providers -> Credentials]

Sent(seen) == [pc |-> "sent", entry |-> seen, reply |-> LoggedOut]
Flights == [pc : {"sent", "answered", "storing"}, entry : Credentials, reply : Credentials]

ASSUME NothingIsNothing == Nothing \notin Flights \cup Files

Change(kind, v, next) == [pc |-> "locked", kind |-> kind, provider |-> v, next |-> next, data |-> file]
Writes == [pc : {"locked", "read", "renamed"}, kind : {"user", "refresh"},
           provider : Providers, next : Credentials, data : Files]
ASSUME NoChange == Nothing \notin Writes

Init ==
  /\ file = [v \in Providers |-> LoggedOut]
  /\ lock = Free
  /\ cache = [p \in Procs |-> Nothing]
  /\ flight = [p \in Procs |-> [v \in Providers |-> Nothing]]
  /\ write = [p \in Procs |-> Nothing]
  /\ issued = [v \in Providers |-> [l \in 1 .. MaxLogins |-> 0]]
  /\ logins = 0 /\ ties = 0
  /\ users = [v \in Providers |-> 0] /\ stranded = {}

Put(p, v, f) == flight' = [flight EXCEPT ![p] = [@ EXCEPT ![v] = f]]
Land(p, v) == Put(p, v, Nothing)
\* JavaScript runs to completion: nothing else happens in a process that writes.
Turn(p) == write[p] = Nothing
-----------------------------------------------------------------------------
(* Reading: the cache answers while the mtime it was taken at stands. *)

Cached(p) == IF cache[p] = Nothing THEN file ELSE cache[p]
readAuth(p) == cache' = [cache EXCEPT ![p] = Cached(p)]
\* Mutant: a change trusts the cache like any reader.
DiskAsCached(p) == Cached(p)
\* A change compares against the disk, whatever its mtime.
Disk(p) == file

Resolve(p) ==
  /\ Turn(p) /\ readAuth(p)
  /\ UNCHANGED <<ties, file, lock, flight, write, issued, logins, history>>
-----------------------------------------------------------------------------
(* A refresh: read, post, store. *)

refreshOauth(p, v) ==
  /\ Turn(p) /\ flight[p][v] = Nothing
  /\ Cached(p)[v] # LoggedOut
  /\ readAuth(p)
  /\ Put(p, v, Sent(Cached(p)[v]))
  /\ UNCHANGED <<ties, file, lock, write, issued, logins, history>>

\* The server takes a spent token of a rotating provider from nobody.
Issued(v, c) == issued[v][c.login]
Accepts(v, c) == Issued(v, c) < MaxTokens /\ (v \in Rotating => Issued(v, c) = c.token)
Issue(v, c) == [issued[v] EXCEPT ![c.login] = @ + 1]

Answer(p, v) ==
  LET f == flight[p][v] IN
  /\ f # Nothing /\ f.pc = "sent" /\ Accepts(v, f.entry)
  /\ issued' = [issued EXCEPT ![v] = Issue(v, f.entry)]
  /\ Put(p, v, [pc |-> "answered", entry |-> f.entry, reply |->
                   [login |-> f.entry.login, token |-> Issued(v, f.entry) + 1]])
  /\ UNCHANGED <<ties, file, lock, cache, write, logins, history>>

Refuse(p, v) ==
  /\ Turn(p) /\ flight[p][v] # Nothing /\ flight[p][v].pc = "sent"
  /\ Land(p, v)
  /\ UNCHANGED <<ties, file, lock, cache, write, issued, logins, history>>

\* What becomes of the flights fs (provider -> flight) nobody waits for any
\* more.  The server may have taken a request all the same, or take it later:
\* of two requests with one token it is enough to let it take this one now.
GiveUp(fs) ==
  LET With(pcs) == {v \in Providers : fs[v] # Nothing /\ fs[v].pc \in pcs} IN
  \E taken \in SUBSET {v \in With({"sent"}) : Accepts(v, fs[v].entry)} :
    /\ issued' = [v \in Providers |-> IF v \in taken THEN Issue(v, fs[v].entry) ELSE issued[v]]
    /\ stranded' = stranded \cup
         {<<v, fs[v].entry.login>> : v \in taken \cup With({"answered", "storing"})}
Only(p, v) == [u \in Providers |-> IF u = v THEN flight[p][v] ELSE Nothing]

\* Mutant: the timer is cleared when the answer begins.
ExpiresUntilAnswered(f) == f.pc = "sent"
\* 30 seconds for the request and the body of its answer.
Expires(f) == f.pc \in {"sent", "answered"}
Timeout(p, v) ==
  /\ Turn(p) /\ flight[p][v] # Nothing /\ Expires(flight[p][v])
  /\ Land(p, v) /\ GiveUp(Only(p, v))
  /\ UNCHANGED <<ties, file, lock, cache, write, logins, users>>

\* "auth file busy": the lock has a live holder.
Held == lock \in Procs
Busy(p, v) ==
  /\ Turn(p) /\ flight[p][v] # Nothing /\ flight[p][v].pc = "answered" /\ Held
  /\ Land(p, v) /\ GiveUp(Only(p, v))
  /\ UNCHANGED <<ties, file, lock, cache, write, logins, users>>

persistRefreshed(p, v) ==
  /\ Turn(p) /\ flight[p][v] # Nothing /\ flight[p][v].pc = "answered" /\ ~Held
  /\ lock' = p
  /\ Put(p, v, [flight[p][v] EXCEPT !.pc = "storing"])
  /\ write' = [write EXCEPT ![p] = Change("refresh", v, flight[p][v].reply)]
  /\ UNCHANGED <<ties, file, cache, issued, logins, history>>
-----------------------------------------------------------------------------
(* Logins and logouts; one that finds the lock busy changes nothing. *)

runLogin(p, v) ==
  /\ Turn(p) /\ ~Held /\ logins < MaxLogins
  /\ lock' = p /\ logins' = logins + 1
  /\ issued' = [issued EXCEPT ![v] = [@ EXCEPT ![logins + 1] = 1]]
  /\ write' = [write EXCEPT ![p] = Change("user", v, [login |-> logins + 1, token |-> 1])]
  /\ UNCHANGED <<ties, file, cache, flight, history>>

runLogout(p, v) ==
  /\ Turn(p) /\ ~Held
  /\ lock' = p
  /\ write' = [write EXCEPT ![p] = Change("user", v, LoggedOut)]
  /\ UNCHANGED <<ties, file, cache, flight, issued, logins, history>>
-----------------------------------------------------------------------------
(* modifyProvider, under the lock. *)

\* The end of a change: the lock is free, and a refresh has its result.
Leave(p) ==
  /\ lock' = Free /\ write' = [write EXCEPT ![p] = Nothing]
  /\ IF write[p].kind = "refresh" THEN Land(p, write[p].provider) ELSE UNCHANGED flight

\* Mutant: a refresh only looks whether it is still logged in.
SupersededByLogout(p) == write[p].kind = "refresh" /\ Disk(p)[write[p].provider] = LoggedOut
\* A refresh only replaces the credential it was made from.
Superseded(p) ==
  write[p].kind = "refresh"
  /\ Disk(p)[write[p].provider] # flight[p][write[p].provider].entry

Read(p) ==
  /\ write[p] # Nothing /\ write[p].pc = "locked"
  /\ cache' = [cache EXCEPT ![p] = Disk(p)]
  /\ IF Superseded(p)
       THEN Leave(p)
       ELSE /\ write' = [write EXCEPT ![p] = [@ EXCEPT !.pc = "read",
                           !.data = [Disk(p) EXCEPT ![write[p].provider] = write[p].next]]]
            /\ UNCHANGED <<lock, flight>>
  /\ UNCHANGED <<ties, file, issued, logins, history>>

\* Two writes within one tick of the file system's clock have the same mtime.
Rename(p) ==
  LET w == write[p] IN
  /\ w # Nothing /\ w.pc = "read"
  /\ file' = w.data
  /\ \/ ties < MaxTies /\ ties' = ties + 1 /\ UNCHANGED cache
     \/ cache' = [q \in Procs |-> Nothing] /\ UNCHANGED ties
  /\ write' = [write EXCEPT ![p] = [@ EXCEPT !.pc = "renamed"]]
  /\ users' = IF w.kind = "user" THEN [users EXCEPT ![w.provider] = w.next.login] ELSE users
  /\ UNCHANGED <<lock, flight, issued, logins, stranded>>

Release(p) ==
  /\ write[p] # Nothing /\ write[p].pc = "renamed"
  /\ cache' = [cache EXCEPT ![p] = write[p].data]
  /\ Leave(p)
  /\ UNCHANGED <<ties, file, issued, logins, history>>

\* writeAuth throws: before the rename, or after it with the file changed.
FailWrite(p) ==
  LET w == write[p] IN
  /\ w # Nothing /\ w.pc \in {"read", "renamed"}
  /\ Leave(p)
  /\ IF w.kind = "refresh" /\ w.pc = "read"
       THEN GiveUp(Only(p, w.provider)) ELSE UNCHANGED <<issued, stranded>>
  /\ UNCHANGED <<ties, file, cache, logins, users>>
-----------------------------------------------------------------------------
\* The process dies anywhere; another one takes its place.
Die(p) ==
  LET Stored(v) == write[p] # Nothing /\ write[p].pc = "renamed"
                   /\ write[p].kind = "refresh" /\ write[p].provider = v
  IN
  /\ flight' = [flight EXCEPT ![p] = [v \in Providers |-> Nothing]]
  /\ GiveUp([v \in Providers |-> IF Stored(v) THEN Nothing ELSE flight[p][v]])
  /\ lock' = IF lock = p THEN Dead ELSE lock
  /\ cache' = [cache EXCEPT ![p] = Nothing] /\ write' = [write EXCEPT ![p] = Nothing]
  /\ UNCHANGED <<ties, file, logins, users>>

Step(p) == Read(p) \/ Rename(p) \/ Release(p) \/ FailWrite(p)

Next ==
  \/ \E p \in Procs : Resolve(p) \/ Step(p) \/ Die(p)
  \/ \E p \in Procs, v \in Providers :
        \/ refreshOauth(p, v) \/ Answer(p, v) \/ Refuse(p, v)
        \/ Timeout(p, v) \/ Busy(p, v) \/ persistRefreshed(p, v)
        \/ runLogin(p, v) \/ runLogout(p, v)

Spec == Init /\ [][Next]_vars

\* A change runs to its end unless its process dies; the timer of a request
\* fires when the event loop comes round, however often the process writes in
\* between.  No answer is promised.
Fairness ==
  /\ \A p \in Procs : WF_vars(Step(p))
  /\ \A p \in Procs, v \in Providers : SF_vars(Timeout(p, v))

FairSpec == Spec /\ Fairness
-----------------------------------------------------------------------------
TypeOK ==
  /\ file \in Files
  /\ lock \in {Free, Dead} \cup Procs
  /\ cache \in [Procs -> Files \cup {Nothing}]
  /\ flight \in [Procs -> [Providers -> Flights \cup {Nothing}]]
  /\ write \in [Procs -> Writes \cup {Nothing}]
  /\ issued \in [Providers -> [1 .. MaxLogins -> 0 .. MaxTokens]]
  /\ logins \in 0 .. MaxLogins /\ ties \in 0 .. MaxTies
  /\ users \in [Providers -> 0 .. MaxLogins]
  /\ stranded \subseteq Providers \X (1 .. MaxLogins)

\* Every entry of the file comes from the last login or logout the user made
\* for its provider, in whatever process: a refresh that comes back late
\* revives nothing that was logged out and undoes no change of account, and
\* no login of one provider takes another provider's entry back (store.ts:415,
\* oauth.ts:49).
AccountIsTheUsers == \A v \in Providers : file[v].login = users[v]

\* A provider that rotates its refresh tokens accepts only the last one.  That
\* one is in the file or in a flight about to store it, unless the answer
\* was lost, the store was busy, or the process failed before the rename; a
\* refresh or a login of another process never loses it (oauth.ts:39,95).
LastTokenIsKept ==
  \A v \in Rotating :
    LET c == file[v] IN
    c # LoggedOut /\ c.token # Issued(v, c) =>
      \/ <<v, c.login>> \in stranded
      \/ \E p \in Procs : flight[p][v] # Nothing
                          /\ flight[p][v].reply = [login |-> c.login, token |-> Issued(v, c)]

\* The file is rewritten whole, and yet a write changes the entry of one
\* provider, and a refresh moves it on within the same login: nothing another
\* process wrote in between is lost (store.ts:415-439).
Moved(v) == file'[v] # file[v]
OneEntryPerWrite ==
  [][/\ \A u, v \in Providers : Moved(u) /\ Moved(v) => u = v
     /\ \A v \in Providers : Moved(v) /\ file'[v].login = file[v].login
                              => file'[v].token > file[v].token]_vars

\* A refresh ends, whatever the server does, so no caller waits on it for
\* ever and the next request starts another one (oauth.ts:174, http.ts:180).
Settles == \A p \in Procs, v \in Providers : flight[p][v] # Nothing ~> flight[p][v] = Nothing
=============================================================================
