--------------------------- MODULE EvidenceProofs ---------------------------
(***************************************************************************)
(* What the evidence of a live comparison promises, for any number of      *)
(* edits, requests, prompts and captures: the leases of the two candidate  *)
(* workspaces come back, evidence shown as current was measured on what    *)
(* the watcher has reported of the candidate checked last, and only        *)
(* details that overtake a capture leave a named state without its ref.    *)
(*                                                                         *)
(* The first two rest on CInv, which says who is where:                    *)
(*   LeaseOK, AgentOK, HeldOK  who holds or awaits a workspace's lease, by *)
(*             the stage of the agent and of the attempt;                  *)
(*   SeenOK    what an attempt was told of a candidate is no newer than    *)
(*             what it then pinned;                                        *)
(*   SavingOK  a commit under way is the first of its chain.               *)
(*                                                                         *)
(* The third rests on PInv as well, which says where a state is that is on *)
(* its way to being named: QueuedOK and DistinctOK for the chains of head  *)
(* commits, LoosePinOK and PinIsHead for what an attempt has pinned, and   *)
(* AgentStateOK for what a preflight or a checkpoint captured.  The last   *)
(* two say nothing of a candidate whose details are opened, where details  *)
(* may come between.                                                       *)
(***************************************************************************)
EXTENDS Evidence, TLAPS

\* who holds the lease q, or waits for it.
In(q, who) == q.holder = who \/ q.waiters = <<who>>

\* Nobody waits for a free lease, or behind itself.
LeaseQ(q) == (q.holder = "none" => q.waiters = <<>>) /\ q.waiters # <<q.holder>>
LeaseOK == \A l \in Labels : LeaseQ(lease[l])

\* An agent is part of its workspace's lease only while it prompts or checkpoints,
\* and holds it from its capture on.
AgentOK == \A l \in Labels :
  /\ In(lease[l], "agent") => agent[l].stage \notin {"idle", "running", "settled"}
  /\ agent[l].stage \in {"hashing", "pending", "heading"} =>
        lease[l].holder = "agent" /\ agent[l].state \in States
  /\ agent[l].stage # "idle" => l \in Prompted

\* An attempt is part of the leases it holds and of the one it waits for, of "A"
\* before "B", and has both from its preparation to its end.
Early == {"admit", "find", "wait"}
HeldOK ==
  /\ Stage("idle") => attempt = Idle
  /\ \A l \in attempt.held : lease[l].holder = "evidence"
  /\ attempt.stage \in Early => attempt.held = IF L = "A" THEN {} ELSE {"A"}
  /\ attempt.stage \notin Early \union {"idle"} => attempt.held = Labels
  /\ phase = "live" => \A l \in Labels : In(lease[l], "evidence") =>
        l \in attempt.held \/ (Stage("wait") /\ l = L)
  /\ Stage("wait") => In(lease[L], "evidence")

\* What the attempt was told of a candidate is no newer than what it then pinned.
Pinned == {"measured", "recheck", "heading"}
PinnedB == Stage("check") \/ (attempt.stage \in Pinned /\ L = "B")
SeenOK ==
  /\ \A l \in Labels : attempt.gen[l] <= heard[l]
  /\ PinnedB => attempt.gen["B"] <= attempt.tree["B"]
  /\ attempt.stage \in Pinned => attempt.pin[L] \in States

SavingOK == \A l \in Labels : saving[l] => commits[l] # <<>>

Control == LeaseOK /\ AgentOK /\ HeldOK /\ SeenOK
CInv == TypeOK /\ Control /\ SavingOK /\ LastCheckedIsCurrent

\* The states that a workspace, a head or the evidence names, and all that are named.
Used == Range(ws) \union Range(head) \union Range(summary.state)
Names == Named(ws, head, summary)

\* A state in a chain was handed over by whoever waits for it, or by an inspection.
\* Only the agent's is named already: its checkpoint has made it the lineage.
EntryOK(l, e) ==
  /\ e.by # "agent" => e.state \in refs \ Used
  /\ e.by = "details" => l \in Inspected /\ e.state \notin Range(attempt.pin)
  /\ e.by = "evidence" => Stage("heading") /\ L = l /\ e.state = attempt.pin[l]
  /\ e.by = "agent" => agent[l].stage = "heading" /\ e.state = agent[l].state
QueuedOK == \A l \in Labels : \A i \in DOMAIN commits[l] : EntryOK(l, commits[l][i])

DistinctOK == \A l, k \in Labels : \A i \in DOMAIN commits[l], j \in DOMAIN commits[k] :
  commits[l][i].state = commits[k][j].state => l = k /\ i = j

\* What is pinned and not handed over yet, only the attempt knows.
LoosePinOK == attempt.stage \in {"measured", "recheck"} =>
  /\ attempt.pin[L] \in refs \ Used
  /\ \A l \in Labels : \A i \in DOMAIN commits[l] : commits[l][i].state # attempt.pin[L]

\* What the attempt has handed over is the head until it publishes, or the
\* candidate has moved.
PastA == Stage("check") \/ (attempt.stage \in Pinned \union {"pin"} /\ L = "B")
PinIsHead == phase = "live" =>
  /\ Stage("heading") /\ ~Committing(L, "evidence") => head[L] = attempt.pin[L]
  /\ PastA /\ "A" \notin Inspected => head["A"] = attempt.pin["A"]
  /\ Stage("check") /\ ~moved["B"] => head["B"] = attempt.pin["B"]

\* What the agent captured is its workspace's lineage, unless details may replace it.
AgentStateOK == \A l \in Labels \ Inspected :
  agent[l].stage \in {"hashing", "heading"} => agent[l].state = ws[l]

PInv == QueuedOK /\ DistinctOK /\ LoosePinOK /\ PinIsHead /\ AgentStateOK

\* What a step leaves named has its ref, or was named without it before, or was
\* overtaken by details.
KeepsRefs ==
  \A x \in Names' : x = Base \/ x \in refs' \/ (x \in Names /\ x \notin refs) \/ Overtaken(x)
-----------------------------------------------------------------------------
(* The write lease, one request, withdrawal or return at a time.           *)

Requesters == {"agent", "evidence"}

LEMMA Waiters ==
    ASSUME NEW q \in Leases
    PROVE  /\ q.holder \in {"none"} \union Requesters
           /\ q.waiters = <<>> \/ \E w \in Requesters : q.waiters = <<w>>
           /\ q = [holder |-> q.holder, waiters |-> q.waiters]
BY DEF Leases, Requesters

LEMMA LeaseOf ==
    ASSUME NEW h \in {"none"} \union Requesters, NEW w,
           w = <<>> \/ \E x \in Requesters : w = <<x>>
    PROVE  [holder |-> h, waiters |-> w] \in Leases
BY DEF Leases, Requesters

LEMMA RequestedFacts ==
    ASSUME NEW q \in Leases, LeaseQ(q), NEW who \in Requesters, ~In(q, who)
    PROVE  /\ Requested(q, who) \in Leases /\ LeaseQ(Requested(q, who))
           /\ In(Requested(q, who), who)
           /\ \A o \in Requesters \ {who} :
                 /\ In(Requested(q, who), o) <=> In(q, o)
                 /\ Requested(q, who).holder = o <=> q.holder = o
<1>1. CASE q.holder = "none"
  <2>1. q.waiters = <<>>
    BY <1>1 DEF LeaseQ
  <2>2. Requested(q, who) = [holder |-> who, waiters |-> <<>>]
    BY <1>1, <2>1, Waiters DEF Requested
  <2>3. \A o \in Requesters : <<>> # <<o>> /\ "none" # o
    BY DEF Requesters
  <2> QED
    BY <1>1, <2>1, <2>2, <2>3, LeaseOf DEF LeaseQ, In
<1>2. CASE q.holder # "none"
  <2>1. q.waiters = <<>>
    BY <1>2, Waiters DEF LeaseQ, In, Requesters
  <2>2. Requested(q, who) = [holder |-> q.holder, waiters |-> <<who>>]
    <3>1. Append(<<>>, who) = <<who>>
      OBVIOUS
    <3> QED
      BY <1>2, <2>1, <3>1, Waiters DEF Requested
  <2>3. \A o \in Requesters : <<>> # <<o>> /\ (<<who>> = <<o>> <=> o = who)
    OBVIOUS
  <2>4. q.holder \in Requesters \ {who}
    BY <1>2, Waiters DEF In
  <2> QED
    BY <1>2, <2>1, <2>2, <2>3, <2>4, LeaseOf DEF LeaseQ, In, Requesters
<1> QED
  BY <1>1, <1>2

LEMMA WithdrawnFacts ==
    ASSUME NEW q \in Leases, LeaseQ(q), NEW who \in Requesters
    PROVE  /\ Withdrawn(q, who) \in Leases /\ LeaseQ(Withdrawn(q, who))
           /\ Withdrawn(q, who).holder = q.holder
           /\ q.holder # who => ~In(Withdrawn(q, who), who)
           /\ \A o \in Requesters \ {who} : In(Withdrawn(q, who), o) <=> In(q, o)
<1>1. CASE q.waiters = <<who>>
  <2>1. RemoveFirst(<<who>>, who) = <<>>
    <3>1. \E i \in 1 .. Len(<<who>>) : <<who>>[i] = who
      OBVIOUS
    <3>2. {i \in 1 .. Len(<<who>>) : <<who>>[i] = who} = {1}
      OBVIOUS
    <3>3. Min({1}) = 1
      BY DEF Min
    <3>4. RemoveFirst(<<who>>, who) = RemoveAt(<<who>>, 1)
      BY <3>1, <3>2, <3>3 DEF RemoveFirst, SelectInSeq
    <3>5. RemoveAt(<<who>>, 1) = <<>>
      BY DEF RemoveAt
    <3> QED
      BY <3>4, <3>5
  <2>2. Withdrawn(q, who) = [holder |-> q.holder, waiters |-> <<>>]
    BY <1>1, <2>1, Waiters DEF Withdrawn
  <2>3. \A o \in Requesters : <<>> # <<o>> /\ (<<who>> = <<o>> <=> o = who)
    OBVIOUS
  <2>4. q.holder \in {"none"} \union Requesters /\ <<>> # <<q.holder>>
    BY Waiters
  <2> QED
    BY <1>1, <2>2, <2>3, <2>4, LeaseOf DEF LeaseQ, In
<1>2. CASE q.waiters # <<who>>
  <2>1. RemoveFirst(q.waiters, who) = q.waiters
    <3>1. q.waiters = <<>> \/ \E w \in Requesters \ {who} : q.waiters = <<w>>
      BY <1>2, Waiters
    <3>2. ~ \E i \in 1 .. Len(q.waiters) : q.waiters[i] = who
      BY <3>1
    <3> QED
      BY <3>2 DEF RemoveFirst
  <2>2. Withdrawn(q, who) = q
    BY <2>1, Waiters DEF Withdrawn
  <2> QED
    BY <1>2, <2>2 DEF In
<1> QED
  BY <1>1, <1>2

LEMMA ReturnedFacts ==
    ASSUME NEW q \in Leases, LeaseQ(q), NEW who \in Requesters
    PROVE  /\ Returned(q, who) \in Leases /\ LeaseQ(Returned(q, who))
           /\ q.holder # who => Returned(q, who) = q
           /\ q.holder = who => ~In(Returned(q, who), who)
           /\ \A o \in Requesters \ {who} :
                 /\ In(Returned(q, who), o) <=> In(q, o)
                 /\ q.holder = o => Returned(q, who).holder = o
<1>1. CASE q.holder # who
  BY <1>1 DEF Returned
<1>2. CASE q.holder = who /\ q.waiters = <<>>
  <2>1. Returned(q, who) = [holder |-> "none", waiters |-> <<>>]
    BY <1>2 DEF Returned, FreeLease
  <2>2. \A o \in Requesters : <<>> # <<o>> /\ "none" # o
    BY DEF Requesters
  <2>3. <<>> # <<"none">>
    OBVIOUS
  <2> QED
    BY <1>2, <2>1, <2>2, <2>3, LeaseOf DEF LeaseQ, In
<1>3. CASE q.holder = who /\ q.waiters # <<>>
  <2>1. PICK w \in Requesters : q.waiters = <<w>>
    BY <1>3, Waiters
  <2>2. w # who
    BY <1>3, <2>1 DEF LeaseQ
  <2>3. Returned(q, who) = [holder |-> w, waiters |-> <<>>]
    <3>1. Head(<<w>>) = w /\ Tail(<<w>>) = <<>>
      OBVIOUS
    <3> QED
      BY <1>3, <2>1, <3>1 DEF Returned
  <2>4. \A o \in Requesters : <<>> # <<o>> /\ "none" # o /\ (<<w>> = <<o>> <=> o = w)
    BY DEF Requesters
  <2> QED
    BY <1>3, <2>1, <2>2, <2>3, <2>4, LeaseOf DEF LeaseQ, In
<1> QED
  BY <1>1, <1>2, <1>3

-----------------------------------------------------------------------------
(* CInv, one action at a time.                                             *)

LEMMA RefsShrink ==
    ASSUME TypeOK, NEW kept \in SUBSET States, NEW s, NEW l \in Labels, NEW w, NEW names
    PROVE  /\ Released(kept, names, w) \subseteq kept /\ RefsAfter(kept, l, s) \subseteq kept
           /\ RefsHanded(kept, s, w) \subseteq kept
BY DEF Released, RefsAfter, RefsHanded

LEMMA FreshState == \A s \in Fresh : s \in States /\ s \notin InUse
BY DEF Fresh

\* Steps that neither a lease nor an attempt nor the evidence is part of.
LEMMA QuietControl ==
    ASSUME Control, UNCHANGED <<lease, agent, attempt, heard, phase>>
    PROVE  Control'
BY DEF Control, LeaseOK, AgentOK, HeldOK, SeenOK, PinnedB, In, LeaseQ, Stage, L

LEMMA StillCurrent ==
    ASSUME LastCheckedIsCurrent, UNCHANGED <<heard, phase, summary>>
    PROVE  LastCheckedIsCurrent'
BY DEF LastCheckedIsCurrent

LEMMA EditControl == ASSUME CInv, NEW l \in Labels, Edit(l) PROVE CInv'
<1>1. tree' \in [Labels -> Nat] /\ heard' = heard
      /\ \A k \in Labels : tree'[k] \in 0 .. MaxEdits[k] /\ heard[k] \in 0 .. tree'[k]
  <2>1. \A k \in Labels : tree[k] \in Nat /\ heard[k] \in Nat /\ MaxEdits[k] \in Nat
                          /\ tree[k] \in 0 .. MaxEdits[k] /\ heard[k] \in 0 .. tree[k]
    BY Bounds DEF CInv, TypeOK
  <2>2. tree \in [Labels -> Nat] /\ tree' = [tree EXCEPT ![l] = @ + 1] /\ tree[l] < MaxEdits[l]
        /\ heard' = heard
    BY DEF CInv, TypeOK, Edit
  <2> QED
    BY <2>1, <2>2
<1>2. TypeOK'
  BY <1>1 DEF CInv, TypeOK, Edit, chain
<1> QED
  BY <1>2, QuietControl, StillCurrent DEF CInv, Edit, chain, SavingOK

LEMMA StaledFacts ==
    ASSUME TypeOK
    PROVE  Staled \in Summaries /\ Staled.state = summary.state
           /\ (phase = "live" => (Staled.exists => Staled.stale))
<1>1. summary \in Summaries
  BY DEF TypeOK
<1> QED
  BY <1>1 DEF Staled, Summaries, Closing

LEMMA HeardControl == ASSUME CInv, NEW l \in Labels, Heard(l) PROVE CInv'
<1>1. TypeOK'
  BY StaledFacts, SMTT(60) DEF CInv, TypeOK, Heard, chain
<1>2. SeenOK'
  <2>1. attempt' = attempt /\ attempt \in Attempts
        /\ \A k \in Labels : heard[k] \in Nat /\ heard[k] <= heard'[k] /\ heard'[k] \in Nat
    BY DEF CInv, TypeOK, Heard
  <2>2. \A k \in Labels : attempt.gen[k] \in Nat
    BY <2>1 DEF Attempts
  <2> QED
    BY <2>1, <2>2 DEF CInv, Control, SeenOK, PinnedB, Stage, L
<1>3. LeaseOK' /\ AgentOK' /\ HeldOK'
  BY DEF CInv, Control, LeaseOK, AgentOK, HeldOK, In, LeaseQ, Stage, L, Heard
<1>4. LastCheckedIsCurrent' /\ SavingOK'
  BY StaledFacts DEF CInv, LastCheckedIsCurrent, Heard, SavingOK, chain
<1> QED
  BY <1>1, <1>2, <1>3, <1>4 DEF CInv, Control

LEMMA HandedType ==
    ASSUME TypeOK, NEW l \in Labels, NEW s \in States,
           NEW by \in {"details", "evidence", "agent"}
    PROVE  Handed(l, s, by) \in [Labels -> Seq(Commits)]
<1> DEFINE e == [state |-> s, by |-> by]
<1>1. e \in Commits
  BY DEF Commits
<1> HIDE DEF e
<1>2. Append(commits[l], e) \in Seq(Commits)
  BY <1>1 DEF TypeOK
<1>3. [commits EXCEPT ![l] = Append(@, e)] \in [Labels -> Seq(Commits)]
  BY <1>2 DEF TypeOK
<1> QED
  BY <1>3 DEF Handed, TypeOK, e

LEMMA HeadCommit ==
    ASSUME TypeOK, NEW l \in Labels, commits[l] # <<>>
    PROVE  Head(commits[l]) \in Commits /\ Head(commits[l]).state \in States
           /\ Head(commits[l]) = commits[l][1]
           /\ [commits EXCEPT ![l] = Tail(@)] \in [Labels -> Seq(Commits)]
<1>1. commits[l] \in Seq(Commits) /\ commits[l] # <<>>
  BY DEF TypeOK
<1>2. Head(commits[l]) \in Commits /\ Tail(commits[l]) \in Seq(Commits)
      /\ Head(commits[l]) = commits[l][1]
  BY <1>1
<1> QED
  BY <1>2 DEF TypeOK, Commits

LEMMA CommitControl == ASSUME CInv, NEW l \in Labels, Commit(l) PROVE CInv'
<1> DEFINE s == Head(commits[l]).state
<1>1. CASE CommitStarts(l)
  <2>1. commits[l] # <<>> /\ refs' \subseteq refs /\ saving' \in [Labels -> BOOLEAN]
        /\ commits' \in [Labels -> Seq(Commits)]
    BY <1>1, HeadCommit, RefsShrink DEF CInv, TypeOK, CommitStarts
  <2>2. TypeOK'
    BY <1>1, <2>1 DEF CInv, TypeOK, CommitStarts, world
  <2>3. SavingOK'
    BY <1>1 DEF CInv, TypeOK, SavingOK, CommitStarts
  <2> QED
    BY <1>1, <2>2, <2>3, QuietControl, StillCurrent DEF CInv, CommitStarts, world
<1>2. CASE CommitEnds(l)
  <2>0. commits[l] # <<>>
    BY <1>2 DEF CommitEnds, CInv, SavingOK
  <2>1. s \in States
    BY <2>0, HeadCommit DEF CInv
  <2>2. /\ refs' = RefsHeaded(l, s) /\ ws' = WorkspaceNow(l, s) /\ head' = Headed(l, s)
        /\ commits' = [commits EXCEPT ![l] = Tail(@)]
        /\ saving' = [saving EXCEPT ![l] = FALSE]
        /\ moved' = [moved EXCEPT ![l] = @ \/ ~Closing]
    BY <1>2 DEF CommitEnds
  <2> HIDE DEF s
  <2>3. refs' \subseteq refs
    BY <2>1, <2>2 DEF RefsHeaded, RefsAfter, Released
  <2>4. ws' \in [Labels -> SomeState] /\ head' \in [Labels -> SomeState]
    BY <2>1, <2>2 DEF CInv, TypeOK, WorkspaceNow, Headed, SomeState
  <2>5. commits' \in [Labels -> Seq(Commits)]
    BY <2>0, <2>2, HeadCommit DEF CInv
  <2>6. moved' \in [Labels -> BOOLEAN] /\ saving' \in [Labels -> BOOLEAN]
    BY <2>2 DEF CInv, TypeOK
  <2>7. TypeOK'
    BY <1>2, <2>3, <2>4, <2>5, <2>6 DEF CInv, TypeOK, CommitEnds, world
  <2>8. SavingOK'
    BY <2>2 DEF CInv, TypeOK, SavingOK
  <2> QED
    BY <1>2, <2>7, <2>8, QuietControl, StillCurrent DEF CInv, CommitEnds, world
<1> QED
  BY <1>1, <1>2 DEF Commit

LEMMA HandedGrows ==
    ASSUME TypeOK, NEW l \in Labels, NEW s, NEW by, commits' = Handed(l, s, by)
    PROVE  \A k \in Labels : commits[k] # <<>> => commits'[k] # <<>>
<1>1. \A k \in Labels : commits[k] \in Seq(Commits)
  BY DEF TypeOK
<1>2. \A e : Append(commits[l], e) # <<>>
  BY <1>1
<1> QED
  BY <1>2 DEF Handed, TypeOK

LEMMA DetailsControl == ASSUME CInv, NEW l \in Labels, Details(l) PROVE CInv'
<1>1. PICK s \in Fresh : /\ refs' = RefsHanded(refs \union {s}, s, ws)
                         /\ commits' = Handed(l, s, "details")
  BY DEF Details
<1>2. s \in States
  BY FreshState
<1>3. refs' \subseteq States
  BY <1>1, <1>2 DEF RefsHanded, Released, CInv, TypeOK
<1>4. commits' \in [Labels -> Seq(Commits)]
  <2>1. "details" \in {"details", "evidence", "agent"}
    OBVIOUS
  <2> QED
    BY <1>1, <1>2, <2>1, HandedType DEF CInv
<1>5. left' \in [attempts : Nat, details : Nat, prompts : [Labels -> Nat]]
  <2>1. left \in [attempts : Nat, details : Nat, prompts : [Labels -> Nat]]
        /\ left.details > 0 /\ left' = [left EXCEPT !.details = left.details - 1]
    BY DEF CInv, TypeOK, Details
  <2>2. left.details - 1 \in Nat
    BY <2>1
  <2> QED
    BY <2>1, <2>2
<1>6. TypeOK'
  BY <1>3, <1>4, <1>5 DEF CInv, TypeOK, Details, world
<1>7. SavingOK'
  BY <1>1, HandedGrows DEF CInv, SavingOK, Details
<1> QED
  BY <1>6, <1>7, QuietControl, StillCurrent DEF CInv, Details, world

LEMMA AgentType ==
    ASSUME TypeOK, NEW l \in Labels, NEW a \in Agents
    PROVE  [agent EXCEPT ![l] = a] \in [Labels -> Agents]
BY DEF TypeOK

\* The agent's step leaves the evidence's place in the lease as it was.
LEMMA AgentMoves ==
    ASSUME TypeOK, Control, NEW l \in Prompted, NEW q \in Leases, LeaseQ(q), NEW a,
           lease' = [lease EXCEPT ![l] = q], agent' = [agent EXCEPT ![l] = a],
           In(q, "agent") => a.stage \notin {"idle", "running", "settled"},
           a.stage \in {"hashing", "pending", "heading"} =>
               q.holder = "agent" /\ a.state \in States,
           In(q, "evidence") <=> In(lease[l], "evidence"),
           lease[l].holder = "evidence" => q.holder = "evidence",
           UNCHANGED <<attempt, heard, phase>>
    PROVE  Control' /\ lease' \in [Labels -> Leases]
<1>1. l \in Labels /\ lease \in [Labels -> Leases] /\ DOMAIN agent = Labels
  BY Bounds DEF TypeOK
<1>2. /\ lease'[l] = q /\ agent'[l] = a
      /\ \A k \in Labels \ {l} : lease'[k] = lease[k] /\ agent'[k] = agent[k]
      /\ lease' \in [Labels -> Leases]
  BY <1>1
<1>3. LeaseOK'
  BY <1>2 DEF Control, LeaseOK
<1>4. AgentOK'
  BY <1>2 DEF Control, AgentOK
<1>5. \A k \in Labels : /\ In(lease'[k], "evidence") => In(lease[k], "evidence")
                        /\ In(lease[k], "evidence") => In(lease'[k], "evidence")
                        /\ lease[k].holder = "evidence" => lease'[k].holder = "evidence"
  BY <1>2
<1>6. HeldOK'
  <2>1. attempt.held \subseteq Labels /\ L \in Labels
    BY DEF TypeOK, Attempts, L
  <2> QED
    BY <1>5, <2>1 DEF Control, HeldOK, Stage, L
<1>7. SeenOK'
  BY DEF Control, SeenOK, PinnedB, Stage, L
<1> QED
  BY <1>2, <1>3, <1>4, <1>6, <1>7 DEF Control

LEMMA AgentStays ==
    ASSUME TypeOK, Control, NEW l \in Prompted, NEW a,
           UNCHANGED lease, agent' = [agent EXCEPT ![l] = a],
           In(lease[l], "agent") => a.stage \notin {"idle", "running", "settled"},
           a.stage \in {"hashing", "pending", "heading"} =>
               lease[l].holder = "agent" /\ a.state \in States,
           UNCHANGED <<attempt, heard, phase>>
    PROVE  Control'
<1>1. l \in Labels /\ lease \in [Labels -> Leases] /\ DOMAIN agent = Labels
  BY Bounds DEF TypeOK
<1>2. agent'[l] = a /\ \A k \in Labels \ {l} : agent'[k] = agent[k]
  BY <1>1
<1>3. LeaseOK' /\ AgentOK'
  BY <1>1, <1>2 DEF Control, LeaseOK, AgentOK
<1>4. HeldOK' /\ SeenOK'
  BY DEF Control, HeldOK, SeenOK, PinnedB, Stage, L
<1> QED
  BY <1>3, <1>4 DEF Control

LEMMA PromptControl == ASSUME CInv, NEW l \in Prompted, Prompt(l) PROVE CInv'
<1> DEFINE q == Requested(lease[l], "agent")
           a == [stage |-> "asking", state |-> Base]
<1>1. TypeOK /\ Control /\ l \in Labels /\ lease[l] \in Leases /\ LeaseQ(lease[l])
      /\ ~In(lease[l], "agent") /\ "agent" \in Requesters /\ "evidence" \in Requesters \ {"agent"}
  BY Bounds DEF CInv, Control, TypeOK, LeaseOK, AgentOK, Prompt, At, Requesters
<1>2. /\ q \in Leases /\ LeaseQ(q)
      /\ In(q, "evidence") <=> In(lease[l], "evidence")
      /\ lease[l].holder = "evidence" => q.holder = "evidence"
  BY <1>1, RequestedFacts
<1>3. lease' = [lease EXCEPT ![l] = q] /\ agent' = [agent EXCEPT ![l] = a]
  BY DEF Prompt, Becomes
<1>4. /\ a.stage \notin {"idle", "running", "settled", "hashing", "pending", "heading"}
      /\ a \in Agents
  BY DEF Agents, SomeState
<1> HIDE DEF q, a
<1>5. Control' /\ lease' \in [Labels -> Leases]
  BY <1>1, <1>2, <1>3, <1>4, AgentMoves DEF Prompt, world
<1>6. left' \in [attempts : Nat, details : Nat, prompts : [Labels -> Nat]]
  <2>1. left \in [attempts : Nat, details : Nat, prompts : [Labels -> Nat]]
        /\ left.prompts[l] > 0 /\ left' = [left EXCEPT !.prompts[l] = left.prompts[l] - 1]
    BY DEF CInv, TypeOK, Prompt
  <2>2. left.prompts[l] - 1 \in Nat
    BY <1>1, <2>1
  <2> QED
    BY <1>1, <2>1, <2>2
<1>7. TypeOK'
  BY <1>1, <1>3, <1>4, <1>5, <1>6, AgentType DEF CInv, TypeOK, Prompt, world, chain
<1> QED
  BY <1>5, <1>7, StillCurrent DEF CInv, Prompt, world, chain, SavingOK

LEMMA CheckpointControl == ASSUME CInv, NEW l \in Prompted, Checkpoint(l) PROVE CInv'
<1> DEFINE q == Requested(lease[l], "agent")
           a == [stage |-> "closing", state |-> Base]
<1>1. TypeOK /\ Control /\ l \in Labels /\ lease[l] \in Leases /\ LeaseQ(lease[l])
      /\ ~In(lease[l], "agent") /\ "agent" \in Requesters /\ "evidence" \in Requesters \ {"agent"}
  BY Bounds DEF CInv, Control, TypeOK, LeaseOK, AgentOK, Checkpoint, At, Requesters
<1>2. /\ q \in Leases /\ LeaseQ(q)
      /\ In(q, "evidence") <=> In(lease[l], "evidence")
      /\ lease[l].holder = "evidence" => q.holder = "evidence"
  BY <1>1, RequestedFacts
<1>3. lease' = [lease EXCEPT ![l] = q] /\ agent' = [agent EXCEPT ![l] = a]
  BY DEF Checkpoint, Becomes
<1>4. /\ a.stage \notin {"idle", "running", "settled", "hashing", "pending", "heading"}
      /\ a \in Agents
  BY DEF Agents, SomeState
<1> HIDE DEF q, a
<1>5. Control' /\ lease' \in [Labels -> Leases]
  BY <1>1, <1>2, <1>3, <1>4, AgentMoves DEF Checkpoint, world
<1>7. TypeOK'
  BY <1>1, <1>3, <1>4, <1>5, AgentType DEF CInv, TypeOK, Checkpoint, world, chain
<1> QED
  BY <1>5, <1>7, StillCurrent DEF CInv, Checkpoint, world, chain, SavingOK

\* The agent lets go of the lease, or gives up waiting for it.
LEMMA LetsControl ==
    ASSUME TypeOK, Control, NEW l \in Prompted, NEW a \in Agents, lease[l].holder = "agent",
           Lets(l), agent' = [agent EXCEPT ![l] = a],
           a.stage \in {"idle", "running"}, UNCHANGED <<attempt, heard, phase>>
    PROVE  Control' /\ lease' \in [Labels -> Leases] /\ agent' \in [Labels -> Agents]
<1> DEFINE q == Returned(lease[l], "agent")
<1>1. l \in Labels /\ lease[l] \in Leases /\ LeaseQ(lease[l])
      /\ "agent" \in Requesters /\ "evidence" \in Requesters \ {"agent"}
  BY Bounds DEF Control, TypeOK, LeaseOK, Requesters
<1>2. /\ q \in Leases /\ LeaseQ(q) /\ ~In(q, "agent")
      /\ In(q, "evidence") <=> In(lease[l], "evidence")
      /\ lease[l].holder = "evidence" => q.holder = "evidence"
  BY <1>1, ReturnedFacts
<1>3. lease' = [lease EXCEPT ![l] = q]
  BY DEF Lets
<1> HIDE DEF q
<1> QED
  BY <1>1, <1>2, <1>3, AgentMoves, AgentType

LEMMA LeaseWaitEndsControl == ASSUME CInv, NEW l \in Prompted, LeaseWaitEnds(l) PROVE CInv'
<1> DEFINE q == Withdrawn(lease[l], "agent")
           a == [stage |-> "idle", state |-> Base]
<1>1. TypeOK /\ Control /\ l \in Labels /\ lease[l] \in Leases /\ LeaseQ(lease[l])
      /\ lease[l].holder # "agent"
      /\ "agent" \in Requesters /\ "evidence" \in Requesters \ {"agent"}
  BY Bounds DEF CInv, Control, TypeOK, LeaseOK, LeaseWaitEnds, Requesters
<1>2. /\ q \in Leases /\ LeaseQ(q) /\ ~In(q, "agent")
      /\ In(q, "evidence") <=> In(lease[l], "evidence")
      /\ lease[l].holder = "evidence" => q.holder = "evidence"
  BY <1>1, WithdrawnFacts
<1>3. lease' = [lease EXCEPT ![l] = q] /\ agent' = [agent EXCEPT ![l] = a]
  BY DEF LeaseWaitEnds, Becomes
<1>4. a.stage = "idle" /\ a \in Agents
  BY DEF Agents, SomeState
<1> HIDE DEF q, a
<1>5. Control' /\ lease' \in [Labels -> Leases]
  BY <1>1, <1>2, <1>3, <1>4, AgentMoves DEF LeaseWaitEnds, world
<1>6. TypeOK'
  BY <1>1, <1>3, <1>4, <1>5, AgentType DEF CInv, TypeOK, LeaseWaitEnds, world, chain
<1> QED
  BY <1>5, <1>6, StillCurrent DEF CInv, LeaseWaitEnds, world, chain, SavingOK

LEMMA CaptureControl == ASSUME CInv, NEW l \in Prompted, Capture(l) PROVE CInv'
<1>1. PICK s \in Fresh : /\ refs' = RefsAfter(refs \union {s}, l, s)
                         /\ ws' = WorkspaceNow(l, s) /\ Becomes(l, "hashing", s)
  BY DEF Capture
<1> DEFINE a == [stage |-> "hashing", state |-> s]
<1>2. s \in States /\ l \in Labels /\ TypeOK /\ Control /\ lease[l].holder = "agent"
  BY FreshState, Bounds DEF CInv, Capture
<1>3. a \in Agents /\ a.stage = "hashing" /\ a.state \in States /\ agent' = [agent EXCEPT ![l] = a]
  BY <1>1, <1>2 DEF Agents, SomeState, Becomes
<1> HIDE DEF a
<1>4. Control'
  BY <1>2, <1>3, AgentStays DEF Capture, world
<1>5. refs' \subseteq States /\ ws' \in [Labels -> SomeState]
  BY <1>1, <1>2 DEF TypeOK, RefsAfter, Released, WorkspaceNow, SomeState
<1>6. TypeOK'
  BY <1>2, <1>3, <1>5, AgentType DEF TypeOK, Capture, world, chain
<1> QED
  BY <1>4, <1>6, StillCurrent DEF CInv, Capture, world, chain, SavingOK

LEMMA TokenOutControl == ASSUME CInv, NEW l \in Prompted, TokenOut(l) PROVE CInv'
<1> DEFINE a == [stage |-> "pending", state |-> agent[l].state]
<1>1. l \in Labels /\ TypeOK /\ Control /\ agent[l].stage = "hashing" /\ agent[l] \in Agents
  BY Bounds DEF CInv, TypeOK, TokenOut, At
<1>2. lease[l].holder = "agent" /\ agent[l].state \in States
  BY <1>1 DEF Control, AgentOK
<1>3. a \in Agents /\ a.stage = "pending" /\ a.state \in States /\ agent' = [agent EXCEPT ![l] = a]
  BY <1>1, <1>2 DEF Agents, TokenOut, Becomes
<1> HIDE DEF a
<1>4. Control'
  BY <1>1, <1>2, <1>3, AgentStays DEF TokenOut, world
<1>5. TypeOK'
  BY <1>1, <1>3, AgentType DEF TypeOK, TokenOut, world, chain
<1> QED
  BY <1>4, <1>5, StillCurrent DEF CInv, TokenOut, world, chain, SavingOK

LEMMA PreflightEndsControl == ASSUME CInv, NEW l \in Prompted, PreflightEnds(l) PROVE CInv'
<1> DEFINE a == [stage |-> "idle", state |-> Base]
<1>1. l \in Labels /\ TypeOK /\ Control /\ lease[l].holder = "agent"
  BY Bounds DEF CInv, Control, AgentOK, PreflightEnds, At
<1>2. a \in Agents /\ a.stage = "idle" /\ agent' = [agent EXCEPT ![l] = a]
  BY DEF Agents, SomeState, PreflightEnds, Becomes
<1> HIDE DEF a
<1>3. Control' /\ lease' \in [Labels -> Leases] /\ agent' \in [Labels -> Agents]
  BY <1>1, <1>2, LetsControl DEF PreflightEnds, world
<1>4. TypeOK'
  BY <1>1, <1>3 DEF TypeOK, PreflightEnds, world, chain
<1> QED
  BY <1>3, <1>4, StillCurrent DEF CInv, PreflightEnds, world, chain, SavingOK

LEMMA AgentRuns ==
    ASSUME TypeOK, NEW l \in Labels, agent[l].state \in States
    PROVE  [runs EXCEPT ![l] = @ \union {agent[l].state}] \in [Labels -> SUBSET States]
BY DEF TypeOK

LEMMA RunSettlesControl == ASSUME CInv, NEW l \in Prompted, RunSettles(l) PROVE CInv'
<1> DEFINE a == [stage |-> "settled", state |-> Base]
<1>1. l \in Labels /\ TypeOK /\ Control /\ ~In(lease[l], "agent")
  BY Bounds DEF CInv, Control, AgentOK, RunSettles, At
<1>2. a \in Agents /\ a.stage = "settled" /\ agent' = [agent EXCEPT ![l] = a]
  BY DEF Agents, SomeState, RunSettles, Becomes
<1> HIDE DEF a
<1>3. Control'
  BY <1>1, <1>2, AgentStays DEF RunSettles, world
<1>4. TypeOK'
  BY <1>1, <1>2, AgentType DEF TypeOK, RunSettles, world, chain
<1> QED
  BY <1>3, <1>4, StillCurrent DEF CInv, RunSettles, world, chain, SavingOK

LEMMA RunStartsControl == ASSUME CInv, NEW l \in Prompted, RunStarts(l) PROVE CInv'
<1> DEFINE a == [stage |-> "running", state |-> Base]
<1>1. l \in Labels /\ TypeOK /\ Control /\ lease[l].holder = "agent" /\ agent[l].state \in States
  BY Bounds DEF CInv, Control, AgentOK, RunStarts, At
<1>2. a \in Agents /\ a.stage = "running" /\ agent' = [agent EXCEPT ![l] = a]
  BY DEF Agents, SomeState, RunStarts, Becomes
<1> HIDE DEF a
<1>3. Control' /\ lease' \in [Labels -> Leases] /\ agent' \in [Labels -> Agents]
  BY <1>1, <1>2, LetsControl DEF RunStarts, world
<1>4. runs' \in [Labels -> SUBSET States] /\ summary' \in Summaries
  BY <1>1, AgentRuns, StaledFacts DEF RunStarts
<1>5. TypeOK'
  BY <1>1, <1>3, <1>4 DEF TypeOK, RunStarts, world, chain
<1>6. LastCheckedIsCurrent'
  BY <1>1, StaledFacts DEF LastCheckedIsCurrent, RunStarts
<1> QED
  BY <1>3, <1>5, <1>6 DEF CInv, RunStarts, world, chain, SavingOK

LEMMA CheckpointCaptureControl ==
    ASSUME CInv, NEW l \in Prompted, CheckpointCapture(l)
    PROVE  CInv'
<1>1. PICK s \in Fresh :
        /\ ws' = WorkspaceNow(l, s) /\ commits' = Handed(l, s, "agent")
        /\ refs' = RefsHanded(RefsAfter(refs \union {s}, l, s), s, WorkspaceNow(l, s))
        /\ Becomes(l, "heading", s)
  BY DEF CheckpointCapture
<1> DEFINE a == [stage |-> "heading", state |-> s]
<1>2. s \in States /\ l \in Labels /\ TypeOK /\ Control /\ lease[l].holder = "agent"
  BY FreshState, Bounds DEF CInv, CheckpointCapture
<1>3. a \in Agents /\ a.stage = "heading" /\ a.state \in States /\ agent' = [agent EXCEPT ![l] = a]
  BY <1>1, <1>2 DEF Agents, SomeState, Becomes
<1> HIDE DEF a
<1>4. Control'
  BY <1>2, <1>3, AgentStays DEF CheckpointCapture, world
<1>5. refs' \subseteq States /\ ws' \in [Labels -> SomeState]
  BY <1>1, <1>2 DEF TypeOK, RefsHanded, RefsAfter, Released, WorkspaceNow, SomeState
<1>6. commits' \in [Labels -> Seq(Commits)]
  <2>1. "agent" \in {"details", "evidence", "agent"}
    OBVIOUS
  <2> QED
    BY <1>1, <1>2, <2>1, HandedType
<1>7. TypeOK'
  BY <1>2, <1>3, <1>5, <1>6, AgentType DEF TypeOK, CheckpointCapture, world
<1>8. SavingOK'
  BY <1>1, <1>2, HandedGrows DEF CInv, SavingOK, CheckpointCapture
<1> QED
  BY <1>4, <1>7, <1>8, StillCurrent DEF CInv, CheckpointCapture, world

LEMMA CheckpointFailsControl == ASSUME CInv, NEW l \in Prompted, CheckpointFails(l) PROVE CInv'
<1> DEFINE a == [stage |-> "idle", state |-> Base]
<1>1. l \in Labels /\ TypeOK /\ Control /\ lease[l].holder = "agent"
  BY Bounds DEF CInv, CheckpointFails
<1>2. a \in Agents /\ a.stage = "idle" /\ agent' = [agent EXCEPT ![l] = a]
  BY DEF Agents, SomeState, CheckpointFails, Becomes
<1> HIDE DEF a
<1>3. Control' /\ lease' \in [Labels -> Leases] /\ agent' \in [Labels -> Agents]
  BY <1>1, <1>2, LetsControl DEF CheckpointFails, world
<1>4. TypeOK'
  BY <1>1, <1>3 DEF TypeOK, CheckpointFails, world, chain
<1> QED
  BY <1>3, <1>4, StillCurrent DEF CInv, CheckpointFails, world, chain, SavingOK

LEMMA CheckpointEndsControl == ASSUME CInv, NEW l \in Prompted, CheckpointEnds(l) PROVE CInv'
<1> DEFINE a == [stage |-> "idle", state |-> Base]
<1>1. l \in Labels /\ TypeOK /\ Control /\ lease[l].holder = "agent" /\ agent[l].state \in States
  BY Bounds DEF CInv, Control, AgentOK, CheckpointEnds, At
<1>2. a \in Agents /\ a.stage = "idle" /\ agent' = [agent EXCEPT ![l] = a]
  BY DEF Agents, SomeState, CheckpointEnds, Becomes
<1> HIDE DEF a
<1>3. Control' /\ lease' \in [Labels -> Leases] /\ agent' \in [Labels -> Agents]
  BY <1>1, <1>2, LetsControl DEF CheckpointEnds, world
<1>4. runs' \in [Labels -> SUBSET States]
  BY <1>1, AgentRuns DEF CheckpointEnds
<1>5. TypeOK'
  BY <1>1, <1>3, <1>4 DEF TypeOK, CheckpointEnds, world, chain
<1> QED
  BY <1>3, <1>5, StillCurrent DEF CInv, CheckpointEnds, world, chain, SavingOK

LEMMA AgentControl == ASSUME CInv, NEW l \in Prompted, Agent(l) PROVE CInv'
BY PromptControl, CheckpointControl, LeaseWaitEndsControl, CaptureControl, TokenOutControl,
   PreflightEndsControl, RunStartsControl, RunSettlesControl, CheckpointCaptureControl,
   CheckpointFailsControl, CheckpointEndsControl
DEF Agent

\* A step of the attempt that asks for no lease and returns none.
LEMMA AttemptSteps ==
    ASSUME TypeOK, Control, NEW j, attempt' = j, j \in Attempts,
           j.stage \notin {"idle", "wait"},
           j.stage \in Early => j.held = IF j.label = "A" THEN {} ELSE {"A"},
           j.stage \notin Early => j.held = Labels,
           \A l \in j.held : lease[l].holder = "evidence",
           phase = "live" =>
               \A l \in Labels : In(lease[l], "evidence") => l \in j.held,
           \A l \in Labels : j.gen[l] <= heard[l],
           (j.stage = "check" \/ (j.stage \in Pinned /\ j.label = "B"))
               => j.gen["B"] <= j.tree["B"],
           j.stage \in Pinned => j.pin[j.label] \in States,
           UNCHANGED <<lease, agent, heard, phase>>
    PROVE  Control'
<1>1. LeaseOK' /\ AgentOK'
  BY DEF Control, LeaseOK, AgentOK
<1>2. HeldOK'
  BY DEF HeldOK, Stage, L
<1>3. SeenOK'
  BY DEF SeenOK, PinnedB, Stage, L
<1> QED
  BY <1>1, <1>2, <1>3 DEF Control

\* An early return, with the leases as q has them.
LEMMA ReturnsEarly ==
    ASSUME TypeOK, Control, NEW q \in [Labels -> Leases], \A l \in Labels : LeaseQ(q[l]),
           \A l \in Labels : /\ In(q[l], "agent") <=> In(lease[l], "agent")
                             /\ q[l].holder = lease[l].holder,
           phase = "live" =>
               \A l \in Labels \ attempt.held : ~In(q[l], "evidence"),
           ReturnEarly(q), UNCHANGED <<agent, heard, phase>>
    PROVE  Control' /\ attempt' \in Attempts /\ lease' \in [Labels -> Leases]
<1>1. "evidence" \in Requesters /\ "agent" \in Requesters \ {"evidence"}
  BY DEF Requesters
<1>2. \A l \in Labels :
        /\ Returned(q[l], "evidence") \in Leases /\ LeaseQ(Returned(q[l], "evidence"))
        /\ In(Returned(q[l], "evidence"), "agent") <=> In(q[l], "agent")
        /\ q[l].holder = "agent" => Returned(q[l], "evidence").holder = "agent"
        /\ q[l].holder = "evidence" => ~In(Returned(q[l], "evidence"), "evidence")
  BY <1>1, ReturnedFacts
<1>3. /\ lease' = [l \in Labels |-> IF l \in attempt.held THEN Returned(q[l], "evidence") ELSE q[l]]
      /\ attempt' = Idle
  BY DEF ReturnEarly
<1>4. \A l \in Labels :
        /\ lease'[l] \in Leases /\ LeaseQ(lease'[l])
        /\ In(lease'[l], "agent") <=> In(lease[l], "agent")
        /\ lease[l].holder = "agent" => lease'[l].holder = "agent"
        /\ phase = "live" => ~In(lease'[l], "evidence")
  <2>1. \A l \in attempt.held : q[l].holder = "evidence"
    BY DEF Control, HeldOK, TypeOK, Attempts
  <2> QED
    BY <1>2, <1>3, <2>1
<1>5. lease' \in [Labels -> Leases]
  BY <1>3, <1>4
<1>6. Idle \in Attempts /\ Idle.stage = "idle" /\ Idle.held = {} /\ \A l \in Labels : Idle.gen[l] = 0
  BY DEF Idle, Attempts, Labels, SomeState
<1>7. LeaseOK' /\ AgentOK'
  BY <1>4 DEF Control, LeaseOK, AgentOK
<1>8. HeldOK'
  BY <1>3, <1>4, <1>6 DEF HeldOK, Stage, L, Early
<1>9. SeenOK'
  BY <1>3, <1>6 DEF SeenOK, PinnedB, Stage, L, TypeOK, Pinned
<1> QED
  BY <1>3, <1>5, <1>6, <1>7, <1>8, <1>9 DEF Control

\* What an attempt that is under way knows of its leases.
LEMMA AttemptFacts ==
    ASSUME CInv
    PROVE  /\ TypeOK /\ Control /\ attempt \in Attempts /\ L \in Labels
           /\ attempt.held \subseteq Labels
           /\ \A l \in attempt.held : lease[l].holder = "evidence"
           /\ phase = "live" => \A l \in Labels : In(lease[l], "evidence") =>
                  l \in attempt.held \/ (Stage("wait") /\ l = L)
           /\ \A l \in Labels : /\ lease[l] \in Leases /\ LeaseQ(lease[l])
                                /\ attempt.gen[l] <= heard[l] /\ heard[l] <= tree[l]
                                /\ attempt.gen[l] \in Nat /\ heard[l] \in Nat /\ tree[l] \in Nat
           /\ lease \in [Labels -> Leases]
<1>1. TypeOK /\ Control /\ attempt \in Attempts
  BY DEF CInv, TypeOK
<1>2. \A l \in Labels : /\ attempt.gen[l] \in Nat /\ heard[l] \in Nat /\ tree[l] \in Nat
                        /\ heard[l] <= tree[l]
  BY <1>1 DEF TypeOK, Attempts
<1> QED
  BY <1>1, <1>2 DEF Control, LeaseOK, HeldOK, SeenOK, TypeOK, Attempts, L

LEMMA ReturnsAtOnce ==
    ASSUME CInv, ~Stage("wait") \/ phase # "live", ReturnEarly(lease), UNCHANGED <<agent, heard, phase>>
    PROVE  Control' /\ attempt' \in Attempts /\ lease' \in [Labels -> Leases]
<1>1. \A l \in Labels : In(lease[l], "agent") <=> In(lease[l], "agent")
  OBVIOUS
<1> QED
  BY <1>1, AttemptFacts, ReturnsEarly

LEMMA MeasureControl == ASSUME CInv, Measure PROVE CInv'
<1>1. asked' \in Nat /\ left' \in [attempts : Nat, details : Nat, prompts : [Labels -> Nat]]
  <2>1. left \in [attempts : Nat, details : Nat, prompts : [Labels -> Nat]]
        /\ left.attempts > 0 /\ left' = [left EXCEPT !.attempts = left.attempts - 1]
        /\ asked \in Nat /\ asked' = asked + 1
    BY DEF CInv, TypeOK, Measure
  <2>2. left.attempts - 1 \in Nat
    BY <2>1
  <2> QED
    BY <2>1, <2>2
<1>2. TypeOK'
  BY <1>1 DEF CInv, TypeOK, Measure, world, chain
<1> QED
  BY <1>2, QuietControl, StillCurrent DEF CInv, Measure, world, chain, SavingOK

LEMMA BeginControl == ASSUME CInv, Begin PROVE CInv'
<1>1. attempt = Idle /\ Idle.held = {} /\ Idle.gen = [l \in Labels |-> 0] /\ Idle.label = "A"
      /\ Idle \in Attempts
  BY AttemptFacts DEF Control, HeldOK, Begin, Idle, Attempts, SomeState, Labels
<1>2. asked' \in Nat
  BY DEF CInv, TypeOK, Begin
<1>3. CASE Closing
  <2>1. attempt' = attempt
    BY <1>1, <1>3 DEF Begin
  <2>2. TypeOK'
    BY <1>2, <2>1 DEF CInv, TypeOK, Begin, world, chain
  <2> QED
    BY <2>1, <2>2, QuietControl, StillCurrent DEF CInv, Begin, world, chain, SavingOK
<1>4. CASE ~Closing
  <2> DEFINE j == [Idle EXCEPT !.stage = "admit"]
  <2>1. /\ j \in Attempts /\ j.stage = "admit" /\ j.label = "A" /\ j.held = {}
        /\ j.gen = [l \in Labels |-> 0] /\ attempt' = j
    BY <1>1, <1>4 DEF Begin, Idle, Attempts
  <2> HIDE DEF j
  <2>2. Control'
    <3>1. \A l \in Labels : j.gen[l] <= heard[l]
      BY <2>1, AttemptFacts
    <3> QED
      BY <1>1, <2>1, <3>1, AttemptFacts, AttemptSteps DEF Begin, world, Early, Stage, Pinned
  <2>3. TypeOK'
    BY <1>2, <2>1 DEF CInv, TypeOK, Begin, world, chain
  <2> QED
    BY <2>2, <2>3, StillCurrent DEF CInv, Begin, world, chain, SavingOK
<1> QED
  BY <1>3, <1>4

LEMMA AdmitControl == ASSUME CInv, Admit PROVE CInv'
<1>1. CASE ReturnEarly(lease) /\ UNCHANGED moved
  <2>1. Control' /\ attempt' \in Attempts /\ lease' \in [Labels -> Leases]
    BY <1>1, ReturnsAtOnce DEF Admit, Stage, world
  <2>2. TypeOK'
    BY <1>1, <2>1 DEF CInv, TypeOK, Admit, world, chain
  <2> QED
    BY <2>1, <2>2, StillCurrent DEF CInv, Admit, world, chain, SavingOK
<1>2. CASE /\ moved' = [moved EXCEPT ![L] = FALSE]
           /\ attempt' = [attempt EXCEPT !.stage = "find"] /\ UNCHANGED lease
  <2> DEFINE j == [attempt EXCEPT !.stage = "find"]
  <2>1. /\ j \in Attempts /\ j.stage = "find" /\ j.label = L /\ j.held = attempt.held
        /\ j.gen = attempt.gen /\ attempt' = j
    BY <1>2, AttemptFacts DEF Attempts, L
  <2> HIDE DEF j
  <2>2. Control'
    <3>1. attempt.held = IF L = "A" THEN {} ELSE {"A"}
      BY AttemptFacts DEF Control, HeldOK, Admit, Stage, Early
    <3>2. j.stage \in Early /\ j.stage \notin {"idle", "wait", "check", "measured", "recheck", "heading"}
      BY <2>1 DEF Early
    <3>3. ~Stage("wait")
      BY DEF Admit, Stage
    <3> QED
      BY <1>2, <2>1, <3>1, <3>2, <3>3, AttemptFacts, AttemptSteps DEF Admit, world, Pinned
  <2>3. TypeOK'
    BY <1>2, <2>1 DEF CInv, TypeOK, Admit, world, chain
  <2> QED
    BY <2>2, <2>3, StillCurrent DEF CInv, Admit, world, chain, SavingOK
<1> QED
  BY <1>1, <1>2 DEF Admit

LEMMA FindControl == ASSUME CInv, Find PROVE CInv'
<1>1. CASE Closing /\ ReturnEarly(lease)
  <2>1. Control' /\ attempt' \in Attempts /\ lease' \in [Labels -> Leases]
    BY <1>1, ReturnsAtOnce DEF Find, Stage, world
  <2>2. TypeOK'
    BY <1>1, <2>1 DEF CInv, TypeOK, Find, world, chain
  <2> QED
    BY <2>1, <2>2, StillCurrent DEF CInv, Find, world, chain, SavingOK
<1>2. CASE /\ ~Closing
           /\ lease' = [lease EXCEPT ![L] = Requested(@, "evidence")]
           /\ attempt' = [attempt EXCEPT !.stage = "wait", !.gen[L] = heard[L]]
  <2> DEFINE q == Requested(lease[L], "evidence")
             j == [attempt EXCEPT !.stage = "wait", !.gen[L] = heard[L]]
  <2>1. /\ attempt.held = IF L = "A" THEN {} ELSE {"A"}
        /\ L \in Labels /\ phase = "live" /\ ~Stage("wait") /\ attempt.stage = "find"
    BY <1>2, AttemptFacts DEF Control, HeldOK, Find, Stage, Early, Closing
  <2>2. ~In(lease[L], "evidence") /\ "evidence" \in Requesters
        /\ "agent" \in Requesters \ {"evidence"}
    BY <2>1, AttemptFacts DEF Requesters
  <2>3. /\ q \in Leases /\ LeaseQ(q) /\ In(q, "evidence")
        /\ In(q, "agent") <=> In(lease[L], "agent")
        /\ lease[L].holder = "agent" => q.holder = "agent"
    BY <2>1, <2>2, AttemptFacts, RequestedFacts
  <2>4. lease' = [lease EXCEPT ![L] = q] /\ attempt' = j
    BY <1>2
  <2>5. /\ j \in Attempts /\ j.stage = "wait" /\ j.label = L /\ j.held = attempt.held
        /\ j.gen[L] = heard[L] /\ \A l \in Labels \ {L} : j.gen[l] = attempt.gen[l]
    <3>1. attempt \in Attempts /\ L \in Labels /\ heard[L] \in Nat
      BY AttemptFacts
    <3>2. j.stage = "wait" /\ j.label = L /\ j.held = attempt.held /\ j.kept = attempt.kept
          /\ j.gen = [attempt.gen EXCEPT ![L] = heard[L]]
      BY <3>1 DEF Attempts, L
    <3>3. attempt.gen \in [Labels -> Nat]
      BY <3>1 DEF Attempts
    <3>4. j \in Attempts
      BY <3>1, <3>3 DEF Attempts
    <3> QED
      BY <3>1, <3>2, <3>3, <3>4
  <2> HIDE DEF q, j
  <2>6. /\ lease' \in [Labels -> Leases] /\ lease'[L] = q
        /\ \A l \in Labels \ {L} : lease'[l] = lease[l]
    BY <2>1, <2>3, <2>4, AttemptFacts
  <2>7. LeaseOK' /\ AgentOK'
    BY <2>3, <2>6, AttemptFacts DEF Control, LeaseOK, AgentOK, Find
  <2>8. HeldOK'
    <3>1. \A l \in attempt.held : l # L /\ lease'[l].holder = "evidence"
      BY <2>1, <2>6, AttemptFacts
    <3>2. \A l \in Labels : In(lease'[l], "evidence") => l \in attempt.held \/ l = L
      BY <2>1, <2>6, AttemptFacts
    <3>3. In(lease'[L], "evidence")
      BY <2>3, <2>6
    <3> HIDE DEF In
    <3> QED
      BY <2>1, <2>4, <2>5, <3>1, <3>2, <3>3 DEF HeldOK, Stage, Early, L
  <2>9. SeenOK'
    BY <2>4, <2>5, AttemptFacts DEF SeenOK, PinnedB, Stage, L, Find, world, Pinned
  <2>10. TypeOK'
    BY <2>4, <2>5, <2>6 DEF CInv, TypeOK, Find, world, chain
  <2> QED
    BY <2>7, <2>8, <2>9, <2>10, StillCurrent DEF CInv, Control, Find, world, chain, SavingOK
<1> QED
  BY <1>1, <1>2 DEF Find

LEMMA GrantedControl == ASSUME CInv, Granted PROVE CInv'
<1>1. CASE Closing /\ ReturnEarly(lease)
  <2>1. Control' /\ attempt' \in Attempts /\ lease' \in [Labels -> Leases]
    BY <1>1, ReturnsAtOnce DEF Granted, Closing, world
  <2>2. TypeOK'
    BY <1>1, <2>1 DEF CInv, TypeOK, Granted, world, chain
  <2> QED
    BY <2>1, <2>2, StillCurrent DEF CInv, Granted, world, chain, SavingOK
<1>2. CASE attempt' = Leased /\ UNCHANGED lease
  <2> DEFINE j == Leased
  <2>1. /\ attempt.held = IF L = "A" THEN {} ELSE {"A"}
        /\ L \in Labels /\ attempt.stage = "wait" /\ lease[L].holder = "evidence"
    BY AttemptFacts DEF Control, HeldOK, Granted, Stage, Early
  <2>2. /\ j \in Attempts /\ j.label = "B" /\ j.held = attempt.held \union {L}
        /\ j.gen = attempt.gen
        /\ j.stage = IF L = "A" THEN "admit" ELSE "prepare"
    <3>1. attempt \in Attempts /\ attempt.held \union {L} \subseteq Labels
      BY <2>1, AttemptFacts
    <3> QED
      BY <3>1 DEF Leased, Attempts, Labels
  <2> HIDE DEF j
  <2>3. /\ j.stage \notin {"idle", "wait", "check", "measured", "recheck", "heading"}
        /\ j.stage \in Early => j.held = IF j.label = "A" THEN {} ELSE {"A"}
        /\ j.stage \notin Early => j.held = Labels
    BY <2>1, <2>2 DEF Early, Labels
  <2>4. \A l \in j.held : lease[l].holder = "evidence"
    BY <2>1, <2>2, AttemptFacts
  <2>5. phase = "live" => \A l \in Labels : In(lease[l], "evidence") => l \in j.held
    BY <2>2, AttemptFacts
  <2>6. Control'
    BY <1>2, <2>2, <2>3, <2>4, <2>5, AttemptFacts, AttemptSteps DEF Granted, world, j, Pinned
  <2>7. TypeOK'
    BY <1>2, <2>2 DEF CInv, TypeOK, Granted, world, chain, j
  <2> QED
    BY <2>6, <2>7, StillCurrent DEF CInv, Granted, world, chain, SavingOK
<1> QED
  BY <1>1, <1>2 DEF Granted

LEMMA WaitEndsControl == ASSUME CInv, WaitEnds PROVE CInv'
<1> DEFINE q == [lease EXCEPT ![L] = Withdrawn(@, "evidence")]
<1>1. /\ L \in Labels /\ Stage("wait") /\ lease[L].holder # "evidence" /\ ReturnEarly(q)
      /\ "evidence" \in Requesters /\ "agent" \in Requesters \ {"evidence"}
  BY AttemptFacts DEF WaitEnds, Requesters
<1>2. /\ Withdrawn(lease[L], "evidence") \in Leases /\ LeaseQ(Withdrawn(lease[L], "evidence"))
      /\ Withdrawn(lease[L], "evidence").holder = lease[L].holder
      /\ ~In(Withdrawn(lease[L], "evidence"), "evidence")
      /\ In(Withdrawn(lease[L], "evidence"), "agent") <=> In(lease[L], "agent")
  BY <1>1, AttemptFacts, WithdrawnFacts
<1>3. /\ q \in [Labels -> Leases] /\ q[L] = Withdrawn(lease[L], "evidence")
      /\ \A l \in Labels \ {L} : q[l] = lease[l]
  BY <1>1, <1>2, AttemptFacts
<1> HIDE DEF q
<1>4. Control' /\ attempt' \in Attempts /\ lease' \in [Labels -> Leases]
  <2>1. \A l \in Labels : LeaseQ(q[l])
    BY <1>2, <1>3, AttemptFacts
  <2>2. \A l \in Labels : /\ In(q[l], "agent") <=> In(lease[l], "agent")
                          /\ q[l].holder = lease[l].holder
    BY <1>2, <1>3
  <2>3. phase = "live" => \A l \in Labels \ attempt.held : ~In(q[l], "evidence")
    BY <1>1, <1>2, <1>3, AttemptFacts
  <2> QED
    BY <1>1, <1>3, <2>1, <2>2, <2>3, AttemptFacts, ReturnsEarly DEF WaitEnds, world
<1>5. TypeOK'
  BY <1>4 DEF CInv, TypeOK, WaitEnds, world, chain
<1> QED
  BY <1>4, <1>5, StillCurrent DEF CInv, WaitEnds, world, chain, SavingOK

LEMMA PrepareControl == ASSUME CInv, Prepare PROVE CInv'
<1>1. CASE ReturnEarly(lease)
  <2>1. Control' /\ attempt' \in Attempts /\ lease' \in [Labels -> Leases]
    BY <1>1, ReturnsAtOnce DEF Prepare, Stage, world
  <2>2. TypeOK'
    BY <1>1, <2>1 DEF CInv, TypeOK, Prepare, world, chain
  <2> QED
    BY <2>1, <2>2, StillCurrent DEF CInv, Prepare, world, chain, SavingOK
<1>2. CASE attempt' = [attempt EXCEPT !.stage = "pin", !.label = "A"] /\ UNCHANGED lease
  <2> DEFINE j == [attempt EXCEPT !.stage = "pin", !.label = "A"]
  <2>1. attempt.held = Labels /\ ~Stage("wait")
    BY AttemptFacts DEF Control, HeldOK, Prepare, Stage, Early
  <2>2. /\ j \in Attempts /\ j.stage = "pin" /\ j.held = Labels /\ j.gen = attempt.gen
        /\ attempt' = j
    BY <1>2, <2>1, AttemptFacts DEF Attempts, Labels
  <2> HIDE DEF j
  <2>3. j.stage \notin Early
    BY <2>2 DEF Early
  <2>4. Control'
    BY <1>2, <2>1, <2>2, <2>3, AttemptFacts, AttemptSteps DEF Prepare, world, Pinned
  <2>5. TypeOK'
    BY <1>2, <2>2 DEF CInv, TypeOK, Prepare, world, chain
  <2> QED
    BY <2>4, <2>5, StillCurrent DEF CInv, Prepare, world, chain, SavingOK
<1> QED
  BY <1>1, <1>2 DEF Prepare

\* Both leases are held while the candidates are measured.
Measuring == {"pin", "measured", "recheck", "heading", "check", "finally"}

LEMMA MeasuringSteps ==
    ASSUME CInv, attempt.stage \in Measuring, NEW j, attempt' = j, j \in Attempts,
           j.stage \in Measuring, j.held = attempt.held, j.gen = attempt.gen,
           (j.stage = "check" \/ (j.stage \in Pinned /\ j.label = "B"))
               => j.gen["B"] <= j.tree["B"],
           j.stage \in Pinned => j.pin[j.label] \in States,
           UNCHANGED <<lease, agent, heard, phase>>
    PROVE  Control'
<1>1. attempt.held = Labels /\ ~Stage("wait")
  BY AttemptFacts DEF Control, HeldOK, Stage, Early, Measuring
<1>2. j.stage \notin Early /\ j.stage \notin {"idle", "wait"}
  BY DEF Early, Measuring
<1> QED
  BY <1>1, <1>2, AttemptFacts, AttemptSteps

LEMMA MeasuringGoes ==
    ASSUME CInv, attempt.stage \in Measuring, NEW step \in Measuring, Goes(step),
           step = "check" => PinnedB,
           step \in Pinned => (L = "B" => PinnedB) /\ attempt.pin[L] \in States,
           UNCHANGED <<lease, agent, heard, phase>>
    PROVE  Control' /\ attempt' \in Attempts
<1> DEFINE j == [attempt EXCEPT !.stage = step]
<1>1. /\ j \in Attempts /\ j.stage = step /\ j.label = L /\ j.held = attempt.held
      /\ j.gen = attempt.gen /\ j.tree = attempt.tree /\ attempt' = j /\ j.pin = attempt.pin
  BY AttemptFacts DEF Attempts, Measuring, Goes, L
<1> HIDE DEF j
<1>2. PinnedB => attempt.gen["B"] <= attempt.tree["B"]
  BY DEF CInv, Control, SeenOK
<1>3. (j.stage = "check" \/ (j.stage \in Pinned /\ j.label = "B"))
        => j.gen["B"] <= j.tree["B"]
  BY <1>1, <1>2
<1> QED
  BY <1>1, <1>3, MeasuringSteps

LEMMA PinControl == ASSUME CInv, Pin PROVE CInv'
<1>1. PICK s \in Fresh :
        /\ refs' = refs \union {s}
        /\ attempt' = [attempt EXCEPT !.stage = "measured", !.pin[L] = s, !.tree[L] = tree[L]]
  BY DEF Pin
<1> DEFINE j == [attempt EXCEPT !.stage = "measured", !.pin[L] = s, !.tree[L] = tree[L]]
<1>2. s \in States /\ attempt \in Attempts /\ L \in Labels /\ tree[L] \in Nat
  BY FreshState, AttemptFacts
<1>3. /\ j.stage = "measured" /\ j.label = L /\ j.held = attempt.held /\ j.kept = attempt.kept
      /\ j.gen = attempt.gen /\ j.tree = [attempt.tree EXCEPT ![L] = tree[L]]
      /\ j.pin = [attempt.pin EXCEPT ![L] = s]
  BY <1>2 DEF Attempts, L
<1>4. j \in Attempts
  BY <1>2 DEF Attempts, SomeState
<1>5. attempt' = j /\ attempt.tree \in [Labels -> Nat]
  BY <1>1, <1>2 DEF Attempts
<1> HIDE DEF j
<1>6. Control'
  <2>1. attempt.stage \in Measuring /\ j.stage \in Measuring
    BY <1>3 DEF Pin, Stage, Measuring
  <2>2. (j.stage = "check" \/ (j.stage \in Pinned /\ j.label = "B"))
          => j.gen["B"] <= j.tree["B"]
    BY <1>2, <1>3, <1>5, AttemptFacts
  <2>3. j.pin[j.label] \in States
    <3>1. attempt.pin \in [Labels -> SomeState]
      BY <1>2 DEF Attempts
    <3> QED
      BY <1>2, <1>3, <3>1
  <2> QED
    BY <1>3, <1>4, <1>5, <2>1, <2>2, <2>3, MeasuringSteps DEF Pin, world
<1>7. TypeOK'
  BY <1>1, <1>2, <1>4, <1>5 DEF CInv, TypeOK, Pin, world, chain
<1> QED
  BY <1>6, <1>7, StillCurrent DEF CInv, Pin, world, chain, SavingOK

LEMMA RecaptureControl == ASSUME CInv, Recapture PROVE CInv'
<1>1. PICK step \in {"recheck", "finally"} : Goes(step)
  BY DEF Recapture
<1>2. step \in Measuring /\ attempt.stage \in Measuring /\ attempt.stage \in Pinned
      /\ step # "check" /\ attempt.pin[L] \in States
  BY DEF Recapture, Stage, Measuring, CInv, Control, SeenOK, Pinned
<1>3. Control' /\ attempt' \in Attempts
  BY <1>1, <1>2, MeasuringGoes DEF Recapture, world, PinnedB
<1>4. TypeOK'
  BY <1>3 DEF CInv, TypeOK, Recapture, world, chain
<1> QED
  BY <1>3, <1>4, StillCurrent DEF CInv, Recapture, world, chain, SavingOK

LEMMA RecheckControl == ASSUME CInv, Recheck PROVE CInv'
<1>1. CASE Goes("finally") /\ UNCHANGED <<commits, refs>>
  <2>1. "finally" \in Measuring /\ attempt.stage \in Measuring
    BY DEF Recheck, Stage, Measuring
  <2>2. Control' /\ attempt' \in Attempts
    BY <1>1, <2>1, MeasuringGoes DEF Recheck, world, Pinned
  <2>3. TypeOK'
    BY <1>1, <2>2 DEF CInv, TypeOK, Recheck, world
  <2> QED
    BY <1>1, <2>2, <2>3, StillCurrent DEF CInv, Recheck, world, SavingOK
<1>2. CASE /\ commits' = Handed(L, attempt.pin[L], "evidence")
           /\ refs' = RefsHanded(refs, attempt.pin[L], ws)
           /\ attempt' = [attempt EXCEPT !.stage = "heading", !.kept = @ \union {L}]
  <2> DEFINE j == [attempt EXCEPT !.stage = "heading", !.kept = @ \union {L}]
  <2>1. L \in Labels /\ attempt \in Attempts /\ attempt.pin[L] \in States
    BY AttemptFacts DEF Recheck, Stage, CInv, Control, SeenOK, Pinned
  <2>2. /\ j \in Attempts /\ j.stage = "heading" /\ j.label = L /\ j.held = attempt.held
        /\ j.gen = attempt.gen /\ j.tree = attempt.tree /\ attempt' = j
        /\ j.pin = attempt.pin
    BY <1>2, <2>1 DEF Attempts, L
  <2> HIDE DEF j
  <2>3. Control'
    <3>1. attempt.stage = "recheck" /\ attempt.stage \in Measuring /\ j.stage \in Measuring
      BY <2>2 DEF Recheck, Stage, Measuring
    <3>2. PinnedB => attempt.gen["B"] <= attempt.tree["B"]
      BY DEF CInv, Control, SeenOK
    <3>3. (j.stage = "check" \/ (j.stage \in Pinned /\ j.label = "B"))
            => j.gen["B"] <= j.tree["B"]
      BY <2>2, <3>1, <3>2 DEF PinnedB, Pinned
    <3> QED
      BY <2>1, <2>2, <3>1, <3>3, MeasuringSteps DEF Recheck, world, Pinned
  <2>4. commits' \in [Labels -> Seq(Commits)]
    <3>1. "evidence" \in {"details", "evidence", "agent"}
      OBVIOUS
    <3> QED
      BY <1>2, <2>1, <3>1, HandedType DEF CInv
  <2>5. refs' \subseteq States
    BY <1>2, <2>1 DEF CInv, TypeOK, RefsHanded, Released
  <2>6. TypeOK'
    BY <2>2, <2>4, <2>5 DEF CInv, TypeOK, Recheck, world
  <2>7. SavingOK'
    BY <1>2, <2>1, HandedGrows DEF CInv, SavingOK, Recheck
  <2> QED
    BY <2>3, <2>6, <2>7, StillCurrent DEF CInv, Recheck, world
<1> QED
  BY <1>1, <1>2 DEF Recheck

LEMMA NotedControl == ASSUME CInv, Noted PROVE CInv'
<1>1. attempt.stage = "heading" /\ attempt.stage \in Measuring /\ "finally" \in Measuring
  BY DEF Noted, Stage, Measuring
<1>2. CASE Goes("finally") /\ UNCHANGED moved
  <2>1. Control' /\ attempt' \in Attempts
    BY <1>1, <1>2, MeasuringGoes DEF Noted, world, Pinned
  <2>2. TypeOK'
    BY <1>2, <2>1 DEF CInv, TypeOK, Noted, world, chain
  <2> QED
    BY <1>2, <2>1, <2>2, StillCurrent DEF CInv, Noted, world, chain, SavingOK
<1>3. CASE /\ moved' = [moved EXCEPT ![L] = FALSE]
           /\ attempt' = [attempt EXCEPT !.label = IF L = "A" THEN "B" ELSE "A",
                                         !.stage = IF L = "A" THEN "pin" ELSE "check"]
  <2> DEFINE j == [attempt EXCEPT !.label = IF L = "A" THEN "B" ELSE "A",
                                  !.stage = IF L = "A" THEN "pin" ELSE "check"]
  <2>1. /\ j \in Attempts /\ j.stage = (IF L = "A" THEN "pin" ELSE "check")
        /\ j.held = attempt.held /\ j.gen = attempt.gen /\ j.tree = attempt.tree /\ attempt' = j
    BY <1>3, AttemptFacts DEF Attempts, Labels
  <2> HIDE DEF j
  <2>2. Control'
    <3>1. L = "A" \/ L = "B"
      BY AttemptFacts DEF Labels
    <3>2. j.stage \in Measuring /\ j.stage \notin Pinned /\ (j.stage = "check" => L = "B")
      BY <2>1, <3>1 DEF Measuring, Pinned
    <3>3. L = "B" => attempt.gen["B"] <= attempt.tree["B"]
      BY <1>1 DEF CInv, Control, SeenOK, PinnedB, Pinned
    <3> QED
      BY <1>1, <2>1, <3>2, <3>3, MeasuringSteps DEF Noted, world
  <2>3. TypeOK'
    BY <1>3, <2>1 DEF CInv, TypeOK, Noted, world, chain
  <2> QED
    BY <2>2, <2>3, StillCurrent DEF CInv, Noted, world, chain, SavingOK
<1> QED
  BY <1>2, <1>3 DEF Noted

LEMMA CheckFirstControl == ASSUME CInv, CheckFirst PROVE CInv'
<1> DEFINE j == [attempt EXCEPT !.label = "B", !.stage = IF Unmoved THEN "check" ELSE "finally"]
<1>1. attempt.stage = "check" /\ attempt.stage \in Measuring
  BY DEF CheckFirst, Stage, Measuring
<1>2. /\ j \in Attempts /\ j.stage \in {"check", "finally"}
      /\ j.held = attempt.held /\ j.gen = attempt.gen /\ j.tree = attempt.tree /\ attempt' = j
  BY AttemptFacts DEF CheckFirst, Attempts, Labels
<1> HIDE DEF j
<1>3. Control'
  <2>1. j.stage \in Measuring /\ j.stage \notin Pinned
    BY <1>2 DEF Measuring, Pinned
  <2>2. attempt.gen["B"] <= attempt.tree["B"]
    BY <1>1 DEF CInv, Control, SeenOK, PinnedB, Stage
  <2> QED
    BY <1>1, <1>2, <2>1, <2>2, MeasuringSteps DEF CheckFirst, world
<1>4. TypeOK'
  BY <1>2 DEF CInv, TypeOK, CheckFirst, world, chain
<1> QED
  BY <1>3, <1>4, StillCurrent DEF CInv, CheckFirst, world, chain, SavingOK

LEMMA PublishControl == ASSUME CInv, Publish PROVE CInv'
<1>1. attempt.stage = "check" /\ attempt.stage \in Measuring /\ "finally" \in Measuring
  BY DEF Publish, Stage, Measuring
<1>2. Control' /\ attempt' \in Attempts
  BY <1>1, MeasuringGoes DEF Publish, world, Pinned
<1>3. Measured \in Summaries /\ Measured.tree = attempt.tree
  BY AttemptFacts DEF Measured, Summaries, Attempts
<1>4. refs' \subseteq States /\ summary' \in Summaries
  BY <1>3 DEF Publish, CInv, TypeOK, Released
<1>5. TypeOK'
  BY <1>2, <1>4 DEF CInv, TypeOK, Publish, world, chain
<1>6. LastCheckedIsCurrent'
  <2>1. CASE summary' = summary
    BY <2>1, StillCurrent DEF CInv, Publish, world
  <2>2. CASE summary' = Measured /\ Unmoved
    <3>1. L = "B" /\ heard["B"] = attempt.gen["B"] /\ attempt.gen["B"] <= attempt.tree["B"]
      BY <1>1, <2>2 DEF Publish, Unmoved, CInv, Control, SeenOK, PinnedB, Stage
    <3> QED
      BY <1>3, <2>2, <3>1 DEF LastCheckedIsCurrent, Publish, world
  <2> QED
    BY <2>1, <2>2 DEF Publish
<1> QED
  BY <1>2, <1>5, <1>6 DEF CInv, Publish, world, chain, SavingOK

LEMMA ThrowsControl == ASSUME CInv, Throws PROVE CInv'
<1>1. attempt.stage \in Measuring /\ "finally" \in Measuring
  BY DEF Throws, Measuring
<1>2. Control' /\ attempt' \in Attempts
  BY <1>1, MeasuringGoes DEF Throws, world, Pinned
<1>3. TypeOK'
  BY <1>2 DEF CInv, TypeOK, Throws, world, chain
<1> QED
  BY <1>2, <1>3, StillCurrent DEF CInv, Throws, world, chain, SavingOK

LEMMA FinallyControl == ASSUME CInv, Finally PROVE CInv'
<1>1. Control' /\ attempt' \in Attempts /\ lease' \in [Labels -> Leases]
  BY ReturnsAtOnce DEF Finally, Stage, world
<1>2. refs' \subseteq States
  BY DEF Finally, CInv, TypeOK, Released
<1>3. TypeOK'
  BY <1>1, <1>2 DEF CInv, TypeOK, Finally, world, chain
<1> QED
  BY <1>1, <1>3, StillCurrent DEF CInv, Finally, world, chain, SavingOK

LEMMA DiscardControl == ASSUME CInv, Discard PROVE CInv'
<1>1. phase' = "closing"
  BY DEF Discard
<1>2. TypeOK'
  BY <1>1 DEF CInv, TypeOK, Discard, world, chain
<1>3. Control'
  BY <1>1 DEF CInv, Control, LeaseOK, AgentOK, HeldOK, SeenOK, PinnedB, Stage, L, Discard, world
<1> QED
  BY <1>1, <1>2, <1>3 DEF CInv, LastCheckedIsCurrent, Discard, world, chain, SavingOK

LEMMA TerminatedFacts ==
    ASSUME CInv, Terminated, Drained, phase' # "live", UNCHANGED <<attempt, heard>>
    PROVE  Control' /\ lease' \in [Labels -> Leases] /\ agent' \in [Labels -> Agents]
<1>1. "agent" \in Requesters /\ "evidence" \in Requesters \ {"agent"}
  BY DEF Requesters
<1>2. \A l \in Labels :
        /\ Withdrawn(lease[l], "agent") \in Leases /\ LeaseQ(Withdrawn(lease[l], "agent"))
        /\ Withdrawn(lease[l], "agent").holder = lease[l].holder
        /\ lease[l].holder # "agent" => ~In(Withdrawn(lease[l], "agent"), "agent")
  BY <1>1, AttemptFacts, WithdrawnFacts
<1>3. \A l \in Labels :
        /\ lease'[l] \in Leases /\ LeaseQ(lease'[l]) /\ ~In(lease'[l], "agent")
  <2> SUFFICES ASSUME NEW l \in Labels
               PROVE  lease'[l] \in Leases /\ LeaseQ(lease'[l]) /\ ~In(lease'[l], "agent")
    OBVIOUS
  <2> DEFINE q == Withdrawn(lease[l], "agent")
  <2>1. lease'[l] = Returned(q, "agent")
    BY DEF Terminated
  <2>2. q \in Leases /\ LeaseQ(q) /\ q.holder = lease[l].holder
        /\ (lease[l].holder # "agent" => ~In(q, "agent"))
    BY <1>2
  <2> HIDE DEF q
  <2>3. /\ Returned(q, "agent") \in Leases /\ LeaseQ(Returned(q, "agent"))
        /\ q.holder # "agent" => Returned(q, "agent") = q
        /\ q.holder = "agent" => ~In(Returned(q, "agent"), "agent")
    BY <1>1, <2>2, ReturnedFacts
  <2> QED
    BY <2>1, <2>2, <2>3
<1>4. lease' \in [Labels -> Leases]
  BY <1>3 DEF Terminated
<1>5. Resting \in Agents /\ Resting.stage = "idle"
  BY DEF Resting, Agents, SomeState
<1>6. agent' \in [Labels -> Agents] /\ \A l \in Labels : agent'[l].stage = "idle"
  BY <1>5 DEF Terminated
<1>7. attempt' = Idle /\ Idle.held = {} /\ Idle.stage = "idle"
  BY AttemptFacts DEF Drained, Control, HeldOK, Idle
<1>8. LeaseOK' /\ AgentOK'
  BY <1>3, <1>6 DEF LeaseOK, AgentOK
<1>9. HeldOK' /\ SeenOK'
  BY <1>7 DEF CInv, Control, HeldOK, SeenOK, PinnedB, Stage, L, Early
<1> QED
  BY <1>4, <1>6, <1>8, <1>9 DEF Control

LEMMA RetainControl == ASSUME CInv, Retain PROVE CInv'
<1>1. Control' /\ lease' \in [Labels -> Leases] /\ agent' \in [Labels -> Agents]
      /\ phase' = "retained"
  BY TerminatedFacts DEF Retain, world
<1>2. TypeOK'
  BY <1>1 DEF CInv, TypeOK, Retain, world, chain
<1> QED
  BY <1>1, <1>2 DEF CInv, LastCheckedIsCurrent, Retain, chain, SavingOK

LEMMA ForgetControl == ASSUME CInv, Forget PROVE CInv'
<1>1. Control' /\ lease' \in [Labels -> Leases] /\ agent' \in [Labels -> Agents]
      /\ phase' = "removed"
  BY TerminatedFacts DEF Forget, world
<1>2. refs' \subseteq States /\ NoSummary \in Summaries /\ Nowhere \in [Labels -> SomeState]
  BY DEF CInv, TypeOK, Forget, Released, NoSummary, Summaries, Nowhere, SomeState
<1>3. TypeOK'
  BY <1>1, <1>2 DEF CInv, TypeOK, Forget, world, chain
<1> QED
  BY <1>1, <1>3 DEF CInv, LastCheckedIsCurrent, Forget, chain, SavingOK

LEMMA InitControl == ASSUME Init PROVE CInv
<1>1. FreeLease \in Leases /\ LeaseQ(FreeLease) /\ ~In(FreeLease, "agent") /\ ~In(FreeLease, "evidence")
  <2>1. <<>> # <<"none">> /\ <<>> # <<"agent">> /\ <<>> # <<"evidence">>
    OBVIOUS
  <2> QED
    BY <2>1 DEF FreeLease, Leases, LeaseQ, In
<1>2. /\ Resting \in Agents /\ Resting.stage = "idle" /\ Idle \in Attempts /\ Idle.held = {}
      /\ Idle.gen = [l \in Labels |-> 0] /\ Idle.stage = "idle"
      /\ NoSummary \in Summaries /\ ~NoSummary.exists
  BY DEF Resting, Agents, SomeState, Idle, Attempts, Labels, NoSummary, Summaries
<1>3. <<>> \in Seq(Commits)
  OBVIOUS
<1>4. TypeOK
  BY <1>1, <1>2, <1>3, Bounds DEF Init, TypeOK, SomeState
<1>5. Control
  BY <1>1, <1>2 DEF Init, Control, LeaseOK, AgentOK, HeldOK, SeenOK, PinnedB, Stage, Early, Pinned
<1> QED
  BY <1>2, <1>4, <1>5 DEF Init, CInv, SavingOK, LastCheckedIsCurrent

LEMMA StutterControl == ASSUME CInv, UNCHANGED vars PROVE CInv'
BY DEF CInv, TypeOK, Control, LeaseOK, AgentOK, HeldOK, SeenOK, PinnedB, Stage, L, SavingOK,
       LastCheckedIsCurrent, vars, world, chain

LEMMA NextControl == ASSUME CInv, Next PROVE CInv'
<1>1. Prompted \subseteq Labels /\ Inspected \subseteq Labels
  BY Bounds
<1>2. Attempt => CInv'
  BY BeginControl, AdmitControl, FindControl, GrantedControl, WaitEndsControl, PrepareControl,
     PinControl, RecaptureControl, RecheckControl, NotedControl, CheckFirstControl,
     PublishControl, ThrowsControl, FinallyControl
  DEF Attempt
<1> QED
  BY <1>1, <1>2, EditControl, HeardControl, CommitControl, AgentControl, DetailsControl,
     MeasureControl, DiscardControl, RetainControl, ForgetControl
  DEF Next

-----------------------------------------------------------------------------
(* PInv, one action at a time.                                             *)

LEMMA NamesAre ==
    ASSUME TypeOK
    PROVE  \A x : x \in Names <=>
             \/ \E l \in Labels : agent[l].stage = "pending" /\ agent[l].state = x
             \/ \E l \in Labels : ws[l] = x \/ head[l] = x \/ summary.state[l] = x
             \/ \E l \in Labels : x \in runs[l]
BY DEF Names, Named, Range, TypeOK, Summaries

LEMMA NamesWillBe ==
    ASSUME TypeOK'
    PROVE  \A x : x \in Names' <=>
             \/ \E l \in Labels : agent'[l].stage = "pending" /\ agent'[l].state = x
             \/ \E l \in Labels : ws'[l] = x \/ head'[l] = x \/ summary'.state[l] = x
             \/ \E l \in Labels : x \in runs'[l]
BY DEF Names, Named, Range, TypeOK, Summaries

LEMMA UsedIs ==
    ASSUME TypeOK
    PROVE  \A x : x \in Used <=> \E l \in Labels : ws[l] = x \/ head[l] = x \/ summary.state[l] = x
BY DEF Used, Range, TypeOK, Summaries

LEMMA UsedWillBe ==
    ASSUME TypeOK'
    PROVE  \A x : x \in Used' <=>
             \E l \in Labels : ws'[l] = x \/ head'[l] = x \/ summary'.state[l] = x
BY DEF Used, Range, TypeOK, Summaries

LEMMA Entries ==
    ASSUME TypeOK
    PROVE  \A l \in Labels : /\ commits[l] \in Seq(Commits)
                             /\ DOMAIN commits[l] = 1 .. Len(commits[l])
                             /\ \A i \in DOMAIN commits[l] :
                                  /\ commits[l][i].state \in States
                                  /\ commits[l][i].by \in {"details", "evidence", "agent"}
<1>1. \A e \in Commits : e.state \in States /\ e.by \in {"details", "evidence", "agent"}
  BY DEF Commits
<1> SUFFICES ASSUME NEW l \in Labels
             PROVE  /\ commits[l] \in Seq(Commits)
                    /\ DOMAIN commits[l] = 1 .. Len(commits[l])
                    /\ \A i \in DOMAIN commits[l] : commits[l][i] \in Commits
  BY <1>1
<1>2. commits[l] \in Seq(Commits)
  BY DEF TypeOK
<1> QED
  BY <1>2

LEMMA HandedEntries ==
    ASSUME TypeOK, NEW l \in Labels, NEW s, NEW by, commits' = Handed(l, s, by), ~Closing
    PROVE  /\ \A k \in Labels : \A i \in DOMAIN commits[k] :
                i \in DOMAIN commits'[k] /\ commits'[k][i] = commits[k][i]
           /\ \A k \in Labels : \A i \in DOMAIN commits'[k] :
                \/ i \in DOMAIN commits[k] /\ commits'[k][i] = commits[k][i]
                \/ /\ k = l /\ i = Len(commits[l]) + 1 /\ i \notin DOMAIN commits[l]
                   /\ commits'[k][i].state = s /\ commits'[k][i].by = by
           /\ \E i \in DOMAIN commits'[l] : commits'[l][i].by = by
<1> DEFINE e == [state |-> s, by |-> by]
           old == commits[l]
           new == Append(old, e)
<1>1. commits[l] \in Seq(Commits) /\ \A k \in Labels : commits[k] \in Seq(Commits)
  BY Entries
<1>2. commits' = [commits EXCEPT ![l] = new] /\ e.state = s /\ e.by = by
  BY DEF Handed
<1>3. \A k \in Labels : commits'[k] = IF k = l THEN new ELSE commits[k]
  BY <1>2 DEF TypeOK
<1> HIDE DEF e
<1>4. /\ old \in Seq(Commits) /\ DOMAIN old = 1 .. Len(old) /\ DOMAIN new = 1 .. Len(old) + 1
      /\ \A i \in 1 .. Len(old) : new[i] = old[i]
      /\ new[Len(old) + 1] = e /\ Len(old) \in Nat
  BY <1>1
<1> HIDE DEF new, old
<1>5. \A i \in DOMAIN old : i \in DOMAIN new /\ new[i] = old[i]
  BY <1>4
<1>6. \A i \in DOMAIN new : (i \in DOMAIN old /\ new[i] = old[i])
                            \/ (i = Len(old) + 1 /\ i \notin DOMAIN old /\ new[i] = e)
  BY <1>4
<1>7. Len(old) + 1 \in DOMAIN new /\ new[Len(old) + 1].by = by
  BY <1>2, <1>4
<1> QED
  BY <1>2, <1>3, <1>5, <1>6, <1>7 DEF old

LEMMA PoppedEntries ==
    ASSUME TypeOK, NEW l \in Labels, commits[l] # <<>>,
           commits' = [commits EXCEPT ![l] = Tail(@)]
    PROVE  /\ \A k \in Labels : \A i \in DOMAIN commits'[k] :
                \/ k # l /\ i \in DOMAIN commits[k] /\ commits'[k][i] = commits[k][i]
                \/ /\ k = l /\ i + 1 \in DOMAIN commits[l] /\ i + 1 # 1
                   /\ commits'[l][i] = commits[l][i + 1]
           /\ \A k \in Labels \ {l} : commits'[k] = commits[k]
           /\ \A i \in DOMAIN commits[l] \ {1} : \E j \in DOMAIN commits'[l] :
                commits'[l][j] = commits[l][i]
           /\ 1 \in DOMAIN commits[l] /\ Head(commits[l]) = commits[l][1]
<1> DEFINE old == commits[l]
           new == Tail(old)
<1>1. old \in Seq(Commits) /\ old # <<>>
  BY Entries
<1>2. \A k \in Labels : commits'[k] = IF k = l THEN new ELSE commits[k]
  BY DEF TypeOK
<1> HIDE DEF old
<1>3. /\ Len(old) \in Nat \ {0} /\ DOMAIN old = 1 .. Len(old) /\ DOMAIN new = 1 .. Len(old) - 1
      /\ \A i \in 1 .. Len(old) - 1 : new[i] = old[i + 1]
      /\ Head(old) = old[1]
  BY <1>1
<1> HIDE DEF new
<1>4. \A i \in DOMAIN new : i + 1 \in DOMAIN old /\ i + 1 # 1 /\ new[i] = old[i + 1]
  BY <1>3
<1>5. \A i \in DOMAIN old \ {1} : i - 1 \in DOMAIN new /\ new[i - 1] = old[i]
  BY <1>3
<1>6. 1 \in DOMAIN old
  BY <1>3
<1> QED
  BY <1>2, <1>3, <1>4, <1>5, <1>6 DEF old

\* A capture's state is not known to anyone yet.
LEMMA FreshIs ==
    ASSUME TypeOK, NEW s \in Fresh
    PROVE  /\ s \in States /\ s \notin refs /\ s \notin Names /\ s # Base
           /\ \A l \in Labels : /\ agent[l].state # s /\ attempt.pin[l] # s /\ ws[l] # s
                                /\ \A i \in DOMAIN commits[l] : commits[l][i].state # s
<1>1. s \in States /\ s \notin InUse
  BY FreshState
<1>2. s # Base
  BY <1>1, Bounds
<1>3. s \notin refs /\ s \notin Names /\ \A l \in Labels : agent[l].state # s
  BY <1>1 DEF InUse, Names
<1>4. \A l \in Labels : attempt.pin[l] # s
  <2>1. DOMAIN attempt.pin = Labels
    BY DEF TypeOK, Attempts
  <2> QED
    BY <1>1, <2>1 DEF InUse, Range
<1>5. \A l \in Labels : \A i \in DOMAIN commits[l] : commits[l][i].state # s
  BY <1>1 DEF InUse
<1>6. \A l \in Labels : ws[l] # s
  BY <1>3, NamesAre
<1> QED
  BY <1>1, <1>2, <1>3, <1>4, <1>5, <1>6

\* Nobody but an attempt that waits for it commits evidence.
LEMMA NoEvidenceQueued ==
    ASSUME QueuedOK, NEW l \in Labels, attempt.stage # "heading" \/ ~Committing(L, "evidence")
    PROVE  ~Committing(l, "evidence")
BY DEF QueuedOK, EntryOK, Committing, Stage

\* A step of the agent, or of nobody here, that neither captures nor releases.
LEMMA QuietPins ==
    ASSUME TypeOK, TypeOK', PInv,
           UNCHANGED <<ws, head, commits, moved, attempt, refs>>,
           summary'.state = summary.state, phase' = "live" => phase = "live",
           \A l \in Labels : agent'[l] = agent[l] \/ ~Committing(l, "agent"),
           \A l \in Labels \ Inspected :
              agent'[l].stage \in {"hashing", "heading"} => agent'[l].state = ws[l],
           \A x \in Names' : x \in Names \/ Overtaken(x)
    PROVE  PInv' /\ KeepsRefs
<1>1. Used' = Used
  BY DEF Used
<1>2. QueuedOK'
  BY <1>1 DEF PInv, QueuedOK, EntryOK, Committing, Stage, L
<1>3. KeepsRefs
  BY DEF KeepsRefs
<1>4. DistinctOK' /\ AgentStateOK'
  BY DEF PInv, DistinctOK, AgentStateOK
<1>5. LoosePinOK' /\ PinIsHead'
  BY <1>1 DEF PInv, LoosePinOK, PinIsHead, PastA, Pinned, Stage, L, Committing
<1> QED
  BY <1>2, <1>3, <1>4, <1>5 DEF PInv

\* Nothing a commit of the agent hangs on changes, and no name is added.
LEMMA SameAgentsPins ==
    ASSUME TypeOK, TypeOK', PInv,
           UNCHANGED <<ws, head, commits, moved, attempt, refs, agent, runs>>,
           summary'.state = summary.state, phase' = "live" => phase = "live"
    PROVE  PInv' /\ KeepsRefs
<1>1. Names' \subseteq Names
  BY DEF Names, Named
<1>2. \A l \in Labels \ Inspected :
        agent'[l].stage \in {"hashing", "heading"} => agent'[l].state = ws[l]
  BY DEF PInv, AgentStateOK
<1> QED
  BY <1>1, <1>2, QuietPins

LEMMA EnvironmentPins ==
    ASSUME CInv, CInv', PInv, NEW l \in Labels, Edit(l) \/ Heard(l) \/ Measure \/ Discard
    PROVE  PInv' /\ KeepsRefs
<1>1. UNCHANGED <<ws, head, commits, moved, attempt, refs, agent, runs>>
  BY DEF Edit, Heard, Measure, Discard, world, chain
<1>2. summary'.state = summary.state /\ (phase' = "live" => phase = "live")
  BY StaledFacts DEF Edit, Heard, Measure, Discard, CInv
<1> QED
  BY <1>1, <1>2, SameAgentsPins DEF CInv

\* One agent moves on, and the state it holds stays what it was or is let go.
LEMMA AgentPins ==
    ASSUME CInv, CInv', PInv, NEW l \in Labels, NEW stage, NEW s, Becomes(l, stage, s),
           stage \notin {"hashing", "heading"}, agent[l].stage # "heading" \/ ~Committing(l, "agent"),
           UNCHANGED <<ws, head, commits, moved, attempt, refs, phase>>,
           summary'.state = summary.state, \A x \in Names' : x \in Names \/ Overtaken(x)
    PROVE  PInv' /\ KeepsRefs
<1>1. TypeOK /\ TypeOK'
  BY DEF CInv
<1>2. \A k \in Labels : agent'[k] = IF k = l THEN [stage |-> stage, state |-> s] ELSE agent[k]
  BY <1>1 DEF TypeOK, Becomes
<1>3. \A k \in Labels : agent'[k] = agent[k] \/ ~Committing(k, "agent")
  BY <1>2 DEF PInv, QueuedOK, EntryOK, Committing
<1>4. \A k \in Labels \ Inspected :
        agent'[k].stage \in {"hashing", "heading"} => agent'[k].state = ws[k]
  BY <1>2 DEF PInv, AgentStateOK
<1> QED
  BY <1>1, <1>3, <1>4, QuietPins

\* Names change with one agent's token and the states its runs record.
LEMMA AgentNames ==
    ASSUME TypeOK, TypeOK', NEW l \in Labels, NEW stage, NEW s, Becomes(l, stage, s),
           UNCHANGED <<ws, head>>, summary'.state = summary.state, NEW more,
           runs' = runs \/ runs' = [runs EXCEPT ![l] = @ \union {more}],
           runs' # runs => more \in Names \/ Overtaken(more),
           stage = "pending" => s \in Names \/ Overtaken(s)
    PROVE  \A x \in Names' : x \in Names \/ Overtaken(x)
<1>1. \A k \in Labels : agent'[k] = IF k = l THEN [stage |-> stage, state |-> s] ELSE agent[k]
  BY DEF TypeOK, Becomes
<1>2. \A k \in Labels : \A x \in runs'[k] : x \in runs[k] \/ x \in Names \/ Overtaken(x)
  <2>1. CASE runs' = runs
    BY <2>1
  <2>2. CASE runs' # runs /\ runs' = [runs EXCEPT ![l] = @ \union {more}]
    <3>1. \A k \in Labels : runs'[k] \subseteq runs[k] \union {more}
      BY <2>2 DEF TypeOK
    <3> QED
      BY <2>2, <3>1
  <2> QED
    BY <2>1, <2>2
<1> SUFFICES ASSUME NEW x, x \in Names' PROVE x \in Names \/ Overtaken(x)
  OBVIOUS
<1>3. \/ \E k \in Labels : agent'[k].stage = "pending" /\ agent'[k].state = x
      \/ \E k \in Labels : ws[k] = x \/ head[k] = x \/ summary.state[k] = x
      \/ \E k \in Labels : x \in runs'[k]
  BY NamesWillBe
<1> QED
  BY <1>1, <1>2, <1>3, NamesAre

\* The agent asks, gives up, runs or settles.
LEMMA AgentRestsPins ==
    ASSUME CInv, CInv', PInv, NEW l \in Labels,
           \/ Prompt(l) \/ Checkpoint(l) \/ LeaseWaitEnds(l) \/ PreflightEnds(l)
           \/ RunSettles(l) \/ CheckpointFails(l)
    PROVE  PInv' /\ KeepsRefs
<1>1. PICK stage \in {"asking", "closing", "idle", "settled"} : Becomes(l, stage, Base)
  BY DEF Prompt, Checkpoint, LeaseWaitEnds, PreflightEnds, RunSettles, CheckpointFails
<1>2. agent[l].stage # "heading"
  BY DEF Prompt, Checkpoint, LeaseWaitEnds, PreflightEnds, RunSettles, CheckpointFails, At
<1>3. UNCHANGED <<ws, head, commits, moved, attempt, refs, phase, runs, summary>>
  BY DEF Prompt, Checkpoint, LeaseWaitEnds, PreflightEnds, RunSettles, CheckpointFails, chain
<1>4. stage \notin {"hashing", "heading"} /\ stage # "pending"
  OBVIOUS
<1>5. \A x \in Names' : x \in Names \/ Overtaken(x)
  BY <1>1, <1>3, <1>4, AgentNames DEF CInv
<1> QED
  BY <1>1, <1>2, <1>3, <1>4, <1>5, AgentPins

LEMMA TokenOutPins == ASSUME CInv, CInv', PInv, NEW l \in Labels, TokenOut(l) PROVE PInv' /\ KeepsRefs
<1>1. Becomes(l, "pending", agent[l].state) /\ agent[l].stage = "hashing"
      /\ UNCHANGED <<ws, head, commits, moved, attempt, refs, phase, runs, summary>>
  BY DEF TokenOut, At, chain
<1>2. agent[l].state \in Names \/ Overtaken(agent[l].state)
  BY <1>1, NamesAre DEF PInv, AgentStateOK, CInv, Overtaken
<1> DEFINE s == agent[l].state
           stage == "pending"
<1>3. Becomes(l, stage, s) /\ (s \in Names \/ Overtaken(s)) /\ stage \notin {"hashing", "heading"}
  BY <1>1, <1>2
<1> HIDE DEF s, stage
<1>4. \A x \in Names' : x \in Names \/ Overtaken(x)
  BY <1>1, <1>3, AgentNames DEF CInv
<1> QED
  BY <1>1, <1>3, <1>4, AgentPins

LEMMA RunStartsPins == ASSUME CInv, CInv', PInv, NEW l \in Labels, RunStarts(l) PROVE PInv' /\ KeepsRefs
<1> DEFINE s == agent[l].state
           stage == "running"
<1>1. /\ agent[l].stage = "pending" /\ Becomes(l, stage, Base)
      /\ runs' = [runs EXCEPT ![l] = @ \union {s}]
      /\ UNCHANGED <<ws, head, commits, moved, attempt, refs, phase>>
  BY DEF RunStarts, At, chain
<1>2. summary'.state = summary.state /\ stage \notin {"hashing", "heading"} /\ stage # "pending"
  BY StaledFacts DEF RunStarts, CInv
<1>3. s \in Names
  BY <1>1, NamesAre DEF CInv
<1> HIDE DEF s, stage
<1>4. \A x \in Names' : x \in Names \/ Overtaken(x)
  BY <1>1, <1>2, <1>3, AgentNames DEF CInv
<1> QED
  BY <1>1, <1>2, <1>4, AgentPins

LEMMA CheckpointEndsPins ==
    ASSUME CInv, CInv', PInv, NEW l \in Labels, CheckpointEnds(l) PROVE PInv' /\ KeepsRefs
<1> DEFINE s == agent[l].state
           stage == "idle"
<1>1. /\ agent[l].stage = "heading" /\ ~Committing(l, "agent") /\ Becomes(l, stage, Base)
      /\ runs' = [runs EXCEPT ![l] = @ \union {s}]
      /\ UNCHANGED <<ws, head, commits, moved, attempt, refs, phase, summary>>
  BY DEF CheckpointEnds, At, chain
<1>2. s \in Names \/ Overtaken(s)
  BY <1>1, NamesAre DEF PInv, AgentStateOK, CInv, Overtaken
<1>3. stage \notin {"hashing", "heading"} /\ stage # "pending"
  OBVIOUS
<1> HIDE DEF s, stage
<1>4. \A x \in Names' : x \in Names \/ Overtaken(x)
  BY <1>1, <1>2, <1>3, AgentNames DEF CInv
<1> QED
  BY <1>1, <1>3, <1>4, AgentPins

\* An attempt that hands over nothing and pins nothing.
LEMMA AttemptPins ==
    ASSUME CInv, CInv', PInv, ~Committing(L, "evidence") \/ attempt.stage # "heading",
           UNCHANGED <<ws, head, commits, refs, agent, runs, summary, phase>>,
           attempt'.pin = attempt.pin \/ attempt' = Idle,
           attempt'.stage \in {"measured", "recheck"} =>
             attempt.stage = "measured" /\ L' = L /\ attempt'.pin = attempt.pin,
           PinIsHead'
    PROVE  PInv' /\ KeepsRefs
<1>1. Used' = Used /\ Names' = Names
  BY DEF Used, Names, Named
<1>2. \A l \in Labels : ~Committing(l, "evidence")
  BY NoEvidenceQueued DEF PInv
<1>3. Range(attempt'.pin) \subseteq Range(attempt.pin) \union {Base}
  BY DEF Idle, Range
<1>4. QueuedOK'
  <2> SUFFICES ASSUME NEW l \in Labels, NEW i \in DOMAIN commits[l]
               PROVE  EntryOK(l, commits[l][i])'
    BY DEF QueuedOK
  <2> DEFINE e == commits[l][i]
  <2>1. EntryOK(l, e) /\ e.by # "evidence"
    BY <1>2 DEF PInv, QueuedOK, Committing
  <2>2. e.state \in States /\ e.state # Base
    BY Entries, Bounds DEF CInv
  <2> HIDE DEF e
  <2>3. e.state \notin Range(attempt.pin) => e.state \notin Range(attempt'.pin)
    BY <1>3, <2>2
  <2> USE DEF e
  <2> QED
    BY <1>1, <2>1, <2>3 DEF EntryOK
<1>5. DistinctOK' /\ AgentStateOK' /\ KeepsRefs
  BY <1>1 DEF PInv, DistinctOK, AgentStateOK, KeepsRefs
<1>6. LoosePinOK'
  BY <1>1 DEF PInv, LoosePinOK, L
<1> QED
  BY <1>4, <1>5, <1>6 DEF PInv

\* Of an attempt that is not measuring, nothing about the heads is claimed.
LEMMA EarlyPinIsHead ==
    ASSUME attempt'.stage \notin {"pin", "measured", "recheck", "heading", "check"}
    PROVE  PinIsHead'
BY DEF PinIsHead, PastA, Pinned, Stage

LEMMA AdmissionPins ==
    ASSUME CInv, CInv', PInv, Begin \/ Admit \/ Find \/ Granted \/ WaitEnds
    PROVE  PInv' /\ KeepsRefs
<1>1. attempt \in Attempts /\ L \in Labels
  BY AttemptFacts
<1>2. attempt.stage \in {"idle", "admit", "find", "wait"}
      /\ UNCHANGED <<ws, head, commits, refs, agent, runs, summary, phase>>
  BY DEF Begin, Admit, Find, Granted, WaitEnds, Stage, chain
<1>3. attempt' = Idle \/ (attempt'.pin = attempt.pin
                          /\ attempt'.stage \in {"admit", "find", "wait", "prepare"})
  <2>1. CASE Begin
    <3>1. attempt = Idle
      BY <2>1 DEF Begin, CInv, Control, HeldOK
    <3> QED
      BY <2>1, <3>1 DEF Begin, Idle
  <2>2. CASE Admit \/ Find \/ WaitEnds
    BY <1>1, <2>2 DEF Admit, Find, WaitEnds, ReturnEarly, Attempts
  <2>3. CASE Granted
    BY <1>1, <2>3 DEF Granted, ReturnEarly, Leased, Attempts
  <2> QED
    BY <2>1, <2>2, <2>3
<1>4. attempt'.stage \notin {"pin", "measured", "recheck", "heading", "check"}
  BY <1>3 DEF Idle
<1> QED
  BY <1>2, <1>3, <1>4, EarlyPinIsHead, AttemptPins

LEMMA PreparePins == ASSUME CInv, CInv', PInv, Prepare PROVE PInv' /\ KeepsRefs
<1>1. attempt \in Attempts /\ attempt.stage = "prepare"
      /\ UNCHANGED <<ws, head, commits, refs, agent, runs, summary, phase>>
  BY AttemptFacts DEF Prepare, Stage, chain
<1>2. attempt' = Idle \/ (attempt'.pin = attempt.pin /\ attempt'.stage = "pin" /\ L' = "A")
  BY <1>1 DEF Prepare, ReturnEarly, Attempts, L
<1>3. attempt'.stage \notin {"measured", "recheck", "heading", "check"}
  BY <1>2 DEF Idle
<1>4. PinIsHead'
  BY <1>2, <1>3 DEF PinIsHead, PastA, Pinned, Stage, Idle
<1> QED
  BY <1>1, <1>2, <1>3, <1>4, AttemptPins

\* The attempt goes to its end, whatever it measured.
LEMMA GivesUpPins ==
    ASSUME CInv, CInv', PInv, Goes("finally"),
           ~Committing(L, "evidence") \/ attempt.stage # "heading",
           UNCHANGED <<ws, head, commits, refs, agent, runs, summary, phase>>
    PROVE  PInv' /\ KeepsRefs
<1>1. attempt'.stage = "finally" /\ attempt'.pin = attempt.pin
  BY AttemptFacts DEF Goes, Attempts
<1> QED
  BY <1>1, EarlyPinIsHead, AttemptPins

LEMMA RecapturePins == ASSUME CInv, CInv', PInv, Recapture PROVE PInv' /\ KeepsRefs
<1>1. attempt \in Attempts /\ attempt.stage = "measured"
      /\ UNCHANGED <<ws, head, commits, refs, agent, runs, summary, phase, moved>>
  BY AttemptFacts DEF Recapture, Stage, chain
<1>2. CASE Goes("finally")
  BY <1>1, <1>2, GivesUpPins
<1>3. CASE Goes("recheck")
  <2>1. attempt'.stage = "recheck" /\ attempt'.pin = attempt.pin /\ L' = L
    BY <1>1, <1>3 DEF Goes, Attempts, L
  <2>2. PinIsHead'
    BY <1>1, <2>1 DEF PInv, PinIsHead, PastA, Pinned, Stage
  <2> QED
    BY <1>1, <2>1, <2>2, AttemptPins
<1> QED
  BY <1>2, <1>3 DEF Recapture

LEMMA NotedPins == ASSUME CInv, CInv', PInv, Noted PROVE PInv' /\ KeepsRefs
<1>1. attempt \in Attempts /\ L \in Labels /\ attempt.stage = "heading" /\ ~Committing(L, "evidence")
      /\ UNCHANGED <<ws, head, commits, refs, agent, runs, summary, phase>>
  BY AttemptFacts DEF Noted, Stage, chain
<1>2. CASE Goes("finally")
  BY <1>1, <1>2, GivesUpPins
<1>3. CASE /\ ~Closing /\ moved' = [moved EXCEPT ![L] = FALSE]
           /\ attempt' = [attempt EXCEPT !.label = IF L = "A" THEN "B" ELSE "A",
                                         !.stage = IF L = "A" THEN "pin" ELSE "check"]
  <2>1. /\ attempt'.stage = (IF L = "A" THEN "pin" ELSE "check") /\ attempt'.pin = attempt.pin
        /\ phase = "live"
    BY <1>1, <1>3 DEF Attempts, Closing
  <2>2. /\ head[L] = attempt.pin[L] /\ L \in {"A", "B"}
        /\ L = "B" /\ "A" \notin Inspected => head["A"] = attempt.pin["A"]
    BY <1>1, <2>1 DEF PInv, PinIsHead, PastA, Pinned, Stage, Labels
  <2>3. /\ "A" \notin Inspected => head["A"] = attempt.pin["A"]
        /\ attempt'.stage = "check" => head["B"] = attempt.pin["B"]
    BY <2>1, <2>2
  <2>4. PinIsHead'
    BY <1>1, <2>1, <2>3 DEF PinIsHead, Stage
  <2> QED
    BY <1>1, <2>1, <2>4, AttemptPins
<1> QED
  BY <1>2, <1>3 DEF Noted

LEMMA CheckFirstPins == ASSUME CInv, CInv', PInv, CheckFirst PROVE PInv' /\ KeepsRefs
<1>1. attempt \in Attempts /\ attempt.stage = "check"
      /\ UNCHANGED <<ws, head, commits, refs, agent, runs, summary, phase, moved>>
  BY AttemptFacts DEF CheckFirst, Stage, chain
<1>2. attempt'.stage \in {"check", "finally"} /\ attempt'.pin = attempt.pin
  BY <1>1 DEF CheckFirst, Attempts
<1>3. PinIsHead'
  BY <1>1, <1>2 DEF PInv, PinIsHead, PastA, Pinned, Stage
<1> QED
  BY <1>1, <1>2, <1>3, AttemptPins

LEMMA ThrowsPins == ASSUME CInv, CInv', PInv, Throws PROVE PInv' /\ KeepsRefs
<1>1. Goes("finally") /\ attempt.stage # "heading"
      /\ UNCHANGED <<ws, head, commits, refs, agent, runs, summary, phase>>
  BY DEF Throws, chain
<1> QED
  BY <1>1, GivesUpPins

\* A capture becomes the lineage of a workspace: the state before is asked about
\* and nothing else goes.
LEMMA TakenOver ==
    ASSUME CInv, CInv', PInv, NEW l \in Labels, NEW s \in Fresh,
           ws' = WorkspaceNow(l, s), refs' = RefsAfter(refs \union {s}, l, s),
           UNCHANGED <<head, summary, runs>>, NEW stage,
           agent[l].stage # "pending", stage # "pending", Becomes(l, stage, s)
    PROVE  /\ KeepsRefs /\ s \in refs'
           /\ \A x \in refs : x \in refs' \/ x = ws[l]
           /\ \A x \in Used' : x \in Used \/ x = s
<1>1. /\ s \notin refs /\ s # ws[l] /\ s # Base /\ TypeOK /\ TypeOK'
  BY FreshIs DEF CInv
<1>2. \A k \in Labels : agent'[k] = IF k = l THEN [stage |-> stage, state |-> s] ELSE agent[k]
  BY <1>1 DEF TypeOK, Becomes
<1>3. \A k \in Labels : ws'[k] = IF k = l THEN s ELSE ws[k]
  BY <1>1 DEF TypeOK, WorkspaceNow
<1>4. Names' = Named(WorkspaceNow(l, s), head, summary)
  <2>1. {agent'[k].state : k \in {m \in Labels : agent'[m].stage = "pending"}}
          = {agent[k].state : k \in {m \in Labels : agent[m].stage = "pending"}}
    BY <1>2
  <2> QED
    BY <2>1 DEF Names, Named
<1>5. \A x : x \in refs' <=> (x \in refs \/ x = s) /\ ~(x = ws[l] /\ x \notin Names')
  <2>1. refs' = (refs \union {s}) \ ({ws[l]} \ Names')
    BY <1>1, <1>4 DEF RefsAfter, Released
  <2> QED
    BY <2>1
<1>6. s \in refs'
  BY <1>1, <1>5
<1>7. \A x \in Used' : x \in Used \/ x = s
  BY <1>1, <1>3, UsedIs, UsedWillBe
<1>8. KeepsRefs
  <2>1. \A x \in Names' : x \in Names \/ x = s
    BY <1>1, <1>2, <1>3, NamesAre, NamesWillBe
  <2> QED
    BY <1>5, <1>6, <2>1 DEF KeepsRefs
<1> QED
  BY <1>5, <1>6, <1>7, <1>8

LEMMA CapturePins == ASSUME CInv, CInv', PInv, NEW l \in Labels, Capture(l) PROVE PInv' /\ KeepsRefs
<1> DEFINE stage == "hashing"
<1>1. PICK s \in Fresh : /\ refs' = RefsAfter(refs \union {s}, l, s)
                         /\ ws' = WorkspaceNow(l, s) /\ Becomes(l, stage, s)
  BY DEF Capture
<1>2. /\ agent[l].stage = "asking"
      /\ UNCHANGED <<head, commits, moved, attempt, summary, runs, phase>>
  BY DEF Capture, At, chain
<1>3. stage # "pending" /\ stage # "heading" /\ agent[l].stage # "pending" /\ agent[l].stage # "heading"
  BY <1>2
<1> HIDE DEF stage
<1>4. /\ KeepsRefs /\ s \in refs'
      /\ \A x \in refs : x \in refs' \/ x = ws[l]
      /\ \A x \in Used' : x \in Used \/ x = s
  BY <1>1, <1>2, <1>3, TakenOver
<1>5. TypeOK /\ ws[l] \in Used
  BY UsedIs DEF CInv
<1>6. /\ \A k \in Labels : agent'[k] = IF k = l THEN [stage |-> stage, state |-> s] ELSE agent[k]
      /\ \A k \in Labels : ws'[k] = IF k = l THEN s ELSE ws[k]
  BY <1>1, <1>5 DEF TypeOK, Becomes, WorkspaceNow
<1>7. \A x \in refs \ Used : x # s => x \in refs' \ Used'
  BY <1>4, <1>5
<1>8. QueuedOK'
  <2> SUFFICES ASSUME NEW k \in Labels, NEW i \in DOMAIN commits[k]
               PROVE  EntryOK(k, commits[k][i])'
    BY <1>2 DEF QueuedOK
  <2> DEFINE e == commits[k][i]
  <2>1. EntryOK(k, e) /\ e.state # s
    BY <1>5, FreshIs DEF PInv, QueuedOK
  <2> HIDE DEF e
  <2>2. EntryOK(k, e)'
    BY <1>2, <1>3, <1>6, <1>7, <2>1 DEF EntryOK, Stage, L, e
  <2> QED
    BY <1>2, <2>2 DEF e
<1>9. LoosePinOK'
  <2>1. attempt.pin[L] # s
    BY <1>5, AttemptFacts, FreshIs
  <2> QED
    BY <1>2, <1>7, <2>1 DEF PInv, LoosePinOK, L
<1>10. AgentStateOK'
  BY <1>6 DEF PInv, AgentStateOK
<1>11. DistinctOK' /\ PinIsHead'
  BY <1>2 DEF PInv, DistinctOK, PinIsHead, PastA, Stage, L, Committing
<1> QED
  BY <1>4, <1>8, <1>9, <1>10, <1>11 DEF PInv

\* What a caller hands over joins the end of the chain.
LEMMA JoinedDistinct ==
    ASSUME TypeOK, DistinctOK, NEW l \in Labels, NEW s, NEW by, ~Closing,
           commits' = Handed(l, s, by),
           \A k \in Labels : \A i \in DOMAIN commits[k] : commits[k][i].state # s
    PROVE  DistinctOK'
<1> SUFFICES ASSUME NEW a \in Labels, NEW b \in Labels,
                    NEW i \in DOMAIN commits'[a], NEW j \in DOMAIN commits'[b],
                    commits'[a][i].state = commits'[b][j].state
             PROVE  a = b /\ i = j
  BY DEF DistinctOK
<1>1. \/ i \in DOMAIN commits[a] /\ commits'[a][i] = commits[a][i]
      \/ a = l /\ i = Len(commits[l]) + 1 /\ commits'[a][i].state = s
  BY HandedEntries
<1>2. \/ j \in DOMAIN commits[b] /\ commits'[b][j] = commits[b][j]
      \/ b = l /\ j = Len(commits[l]) + 1 /\ commits'[b][j].state = s
  BY HandedEntries
<1> QED
  BY <1>1, <1>2 DEF DistinctOK

LEMMA CheckpointCapturePins ==
    ASSUME CInv, CInv', PInv, NEW l \in Labels, CheckpointCapture(l) PROVE PInv' /\ KeepsRefs
<1> DEFINE stage == "heading"
           by == "agent"
<1>1. PICK s \in Fresh :
        /\ ws' = WorkspaceNow(l, s) /\ commits' = Handed(l, s, by)
        /\ refs' = RefsHanded(RefsAfter(refs \union {s}, l, s), s, WorkspaceNow(l, s))
        /\ Becomes(l, stage, s)
  BY DEF CheckpointCapture
<1>2. /\ agent[l].stage = "closing"
      /\ UNCHANGED <<head, moved, attempt, summary, runs, phase>>
  BY DEF CheckpointCapture, At
<1>3. stage # "pending" /\ agent[l].stage # "pending" /\ agent[l].stage # "heading"
      /\ by # "evidence" /\ by # "details" /\ stage = "heading" /\ by = "agent"
  BY <1>2
<1> HIDE DEF stage, by
<1>4. TypeOK /\ ws[l] \in Used
  BY UsedIs DEF CInv
<1>5. /\ \A k \in Labels : agent'[k] = IF k = l THEN [stage |-> stage, state |-> s] ELSE agent[k]
      /\ \A k \in Labels : ws'[k] = IF k = l THEN s ELSE ws[k]
  BY <1>1, <1>4 DEF TypeOK, Becomes, WorkspaceNow
<1>6. refs' = RefsAfter(refs \union {s}, l, s)
  <2>1. s \in Named(WorkspaceNow(l, s), head, summary)
    <3>1. WorkspaceNow(l, s)[l] = s /\ l \in DOMAIN WorkspaceNow(l, s)
      BY <1>4 DEF WorkspaceNow, TypeOK
    <3>2. s \in Range(WorkspaceNow(l, s))
      BY <3>1 DEF Range
    <3> QED
      BY <3>2 DEF Named
  <2> QED
    BY <1>1, <2>1 DEF RefsHanded, Released
<1>7. /\ KeepsRefs /\ s \in refs'
      /\ \A x \in refs : x \in refs' \/ x = ws[l]
      /\ \A x \in Used' : x \in Used \/ x = s
  BY <1>1, <1>2, <1>3, <1>6, TakenOver
<1>8. \A x \in refs \ Used : x # s => x \in refs' \ Used'
  BY <1>4, <1>7
<1>9. /\ \A k \in Labels : \A i \in DOMAIN commits'[k] :
            \/ i \in DOMAIN commits[k] /\ commits'[k][i] = commits[k][i]
            \/ k = l /\ commits'[k][i].state = s /\ commits'[k][i].by = by
      /\ \A k \in Labels : \A i \in DOMAIN commits[k] :
            i \in DOMAIN commits'[k] /\ commits'[k][i] = commits[k][i]
  <2>1. CASE Closing
    BY <1>1, <2>1 DEF Handed
  <2>2. CASE ~Closing
    BY <1>1, <1>4, <2>2, HandedEntries
  <2> QED
    BY <2>1, <2>2
<1>10. \A k \in Labels : \A i \in DOMAIN commits[k] : commits[k][i].state # s
  BY <1>4, FreshIs
<1>11. QueuedOK'
  <2> SUFFICES ASSUME NEW k \in Labels, NEW i \in DOMAIN commits'[k]
               PROVE  EntryOK(k, commits[k][i])'
    BY DEF QueuedOK
  <2>1. CASE i \in DOMAIN commits[k] /\ commits'[k][i] = commits[k][i]
    <3> DEFINE e == commits[k][i]
    <3>1. EntryOK(k, e) /\ e.state # s
      BY <1>10, <2>1 DEF PInv, QueuedOK
    <3> HIDE DEF e
    <3>2. /\ e.by # "agent" => e.state \in refs' \ Used'
          /\ e.by = "details" => k \in Inspected /\ e.state \notin Range(attempt'.pin)
          /\ e.by = "evidence" => Stage("heading")' /\ L' = k /\ e.state = attempt'.pin[k]
          /\ e.by = "agent" => agent'[k].stage = "heading" /\ e.state = agent'[k].state
      BY <1>2, <1>3, <1>5, <1>8, <3>1 DEF EntryOK, Stage, L
    <3> QED
      BY <2>1, <3>2 DEF EntryOK, e
  <2>2. CASE k = l /\ commits'[k][i].state = s /\ commits'[k][i].by = by
    BY <1>3, <1>5, <2>2 DEF EntryOK
  <2> QED
    BY <1>9, <2>1, <2>2
<1>12. DistinctOK'
  <2>1. CASE Closing
    BY <1>1, <2>1 DEF PInv, DistinctOK, Handed
  <2>2. CASE ~Closing
    BY <1>1, <1>4, <1>10, <2>2, JoinedDistinct DEF PInv
  <2> QED
    BY <2>1, <2>2
<1>13. LoosePinOK'
  <2>1. attempt.pin[L] # s
    BY <1>4, AttemptFacts, FreshIs
  <2>2. attempt.stage \in {"measured", "recheck"} => attempt.pin[L] \in refs' \ Used'
    BY <1>8, <2>1 DEF PInv, LoosePinOK
  <2> QED
    BY <1>2, <1>9, <2>1, <2>2 DEF PInv, LoosePinOK, L
<1>14. PinIsHead'
  <2>1. Committing(L, "evidence") => Committing(L, "evidence")'
    BY <1>2, <1>9, AttemptFacts DEF Committing, L
  <2> QED
    BY <1>2, <2>1 DEF PInv, PinIsHead, PastA, Stage, L
<1>15. AgentStateOK'
  BY <1>5 DEF PInv, AgentStateOK
<1> QED
  BY <1>7, <1>11, <1>12, <1>13, <1>14, <1>15 DEF PInv

LEMMA DetailsPins ==
    ASSUME CInv, CInv', PInv, NEW l \in Inspected, l \in Labels, Details(l)
    PROVE  PInv' /\ KeepsRefs
<1> DEFINE by == "details"
<1>1. PICK s \in Fresh : /\ refs' = RefsHanded(refs \union {s}, s, ws)
                         /\ commits' = Handed(l, s, by)
  BY DEF Details
<1>2. by # "evidence" /\ by # "agent" /\ by = "details"
  OBVIOUS
<1> HIDE DEF by
<1>3. UNCHANGED <<ws, head, moved, agent, attempt, summary, runs, phase>>
  BY DEF Details
<1>4. /\ TypeOK /\ s \notin refs /\ s \notin Names /\ s # Base
      /\ \A k \in Labels : attempt.pin[k] # s
      /\ \A k \in Labels : \A i \in DOMAIN commits[k] : commits[k][i].state # s
  BY FreshIs DEF CInv
<1>5. Names' = Names /\ Used' = Used /\ s \notin Used /\ s \notin Range(attempt.pin)
  <2>1. DOMAIN attempt.pin = Labels
    BY <1>4 DEF TypeOK, Attempts
  <2> QED
    BY <1>3, <1>4, <2>1 DEF Names, Named, Used, Range
<1>6. refs \subseteq refs' /\ (~Closing => s \in refs')
  BY <1>1, <1>4 DEF RefsHanded, Released
<1>7. KeepsRefs /\ AgentStateOK'
  BY <1>3, <1>5, <1>6 DEF PInv, KeepsRefs, AgentStateOK
<1>8. CASE Closing
  <2>1. commits' = commits
    BY <1>1, <1>8 DEF Handed
  <2> QED
    BY <1>3, <1>5, <1>6, <1>7, <2>1
    DEF PInv, QueuedOK, EntryOK, DistinctOK, LoosePinOK, PinIsHead, PastA, Stage, L, Committing
<1>9. CASE ~Closing
  <2>1. /\ \A k \in Labels : \A i \in DOMAIN commits'[k] :
              \/ i \in DOMAIN commits[k] /\ commits'[k][i] = commits[k][i]
              \/ k = l /\ commits'[k][i].state = s /\ commits'[k][i].by = by
        /\ \A k \in Labels : \A i \in DOMAIN commits[k] :
              i \in DOMAIN commits'[k] /\ commits'[k][i] = commits[k][i]
    BY <1>1, <1>4, <1>9, HandedEntries
  <2>2. QueuedOK'
    <3> SUFFICES ASSUME NEW k \in Labels, NEW i \in DOMAIN commits'[k]
                 PROVE  EntryOK(k, commits[k][i])'
      BY DEF QueuedOK
    <3>1. CASE i \in DOMAIN commits[k] /\ commits'[k][i] = commits[k][i]
      BY <1>3, <1>5, <1>6, <3>1 DEF PInv, QueuedOK, EntryOK, Stage, L
    <3>2. CASE k = l /\ commits'[k][i].state = s /\ commits'[k][i].by = by
      BY <1>2, <1>3, <1>5, <1>6, <1>9, <3>2 DEF EntryOK
    <3> QED
      BY <2>1, <3>1, <3>2
  <2>3. DistinctOK'
    BY <1>1, <1>4, <1>9, JoinedDistinct DEF PInv
  <2>4. LoosePinOK'
    BY <1>3, <1>4, <1>5, <1>6, <2>1, AttemptFacts DEF PInv, LoosePinOK, L
  <2>5. PinIsHead'
    <3>1. Committing(L, "evidence") => Committing(L, "evidence")'
      BY <1>3, <2>1, AttemptFacts DEF Committing, L
    <3> QED
      BY <1>3, <3>1 DEF PInv, PinIsHead, PastA, Stage, L
  <2> QED
    BY <1>7, <2>2, <2>3, <2>4, <2>5 DEF PInv
<1> QED
  BY <1>8, <1>9

\* engine.measure pins a capture of its own.
LEMMA PinPins == ASSUME CInv, CInv', PInv, Pin PROVE PInv' /\ KeepsRefs
<1>1. PICK s \in Fresh :
        /\ refs' = refs \union {s}
        /\ attempt' = [attempt EXCEPT !.stage = "measured", !.pin[L] = s, !.tree[L] = tree[L]]
  BY DEF Pin
<1>2. /\ attempt \in Attempts /\ L \in Labels /\ attempt.stage = "pin"
      /\ UNCHANGED <<ws, head, commits, moved, agent, summary, runs, phase>>
  BY AttemptFacts DEF Pin, Stage, chain
<1>3. /\ attempt'.stage = "measured" /\ L' = L /\ attempt'.pin = [attempt.pin EXCEPT ![L] = s]
      /\ DOMAIN attempt.pin = Labels /\ DOMAIN attempt'.pin = Labels
  BY <1>1, <1>2 DEF Attempts, L
<1>4. \A k \in Labels : attempt'.pin[k] = IF k = L THEN s ELSE attempt.pin[k]
  BY <1>3
<1>5. /\ TypeOK /\ s \notin Names
      /\ \A k \in Labels : \A i \in DOMAIN commits[k] : commits[k][i].state # s
  BY FreshIs DEF CInv
<1>6. Names' = Names /\ Used' = Used /\ s \notin Used /\ refs \subseteq refs' /\ s \in refs'
  BY <1>1, <1>2, <1>5 DEF Names, Named, Used
<1>7. \A k \in Labels : ~Committing(k, "evidence")
  BY <1>2, NoEvidenceQueued DEF PInv
<1>8. QueuedOK'
  <2> SUFFICES ASSUME NEW k \in Labels, NEW i \in DOMAIN commits[k]
               PROVE  EntryOK(k, commits[k][i])'
    BY <1>2 DEF QueuedOK
  <2>1. EntryOK(k, commits[k][i]) /\ commits[k][i].by # "evidence" /\ commits[k][i].state # s
    BY <1>5, <1>7 DEF PInv, QueuedOK, Committing
  <2>2. commits[k][i].state \notin Range(attempt.pin) =>
          commits[k][i].state \notin Range(attempt'.pin)
    BY <1>3, <1>4, <2>1 DEF Range
  <2> QED
    BY <1>2, <1>6, <2>1, <2>2 DEF EntryOK
<1>9. KeepsRefs /\ AgentStateOK' /\ DistinctOK'
  BY <1>2, <1>6 DEF PInv, KeepsRefs, AgentStateOK, DistinctOK
<1>10. LoosePinOK'
  BY <1>2, <1>3, <1>4, <1>5, <1>6 DEF LoosePinOK
<1>11. PinIsHead'
  BY <1>2, <1>3, <1>4 DEF PInv, PinIsHead, PastA, Pinned, Stage
<1> QED
  BY <1>8, <1>9, <1>10, <1>11 DEF PInv

\* The state it measured is handed over to become the head.
LEMMA RecheckPins == ASSUME CInv, CInv', PInv, Recheck PROVE PInv' /\ KeepsRefs
<1>1. /\ attempt \in Attempts /\ L \in Labels /\ attempt.stage = "recheck"
      /\ UNCHANGED <<ws, head, moved, agent, summary, runs, phase>>
  BY AttemptFacts DEF Recheck, Stage
<1>2. CASE Goes("finally") /\ UNCHANGED <<commits, refs>>
  BY <1>1, <1>2, GivesUpPins
<1>3. CASE /\ ~Closing /\ commits' = Handed(L, attempt.pin[L], "evidence")
           /\ refs' = RefsHanded(refs, attempt.pin[L], ws)
           /\ attempt' = [attempt EXCEPT !.stage = "heading", !.kept = @ \union {L}]
  <2> DEFINE s == attempt.pin[L]
             by == "evidence"
             l == L
  <2>1. /\ attempt'.stage = "heading" /\ L' = l /\ attempt'.pin = attempt.pin /\ refs' = refs
        /\ by # "details" /\ by # "agent" /\ by = "evidence"
    BY <1>1, <1>3 DEF Attempts, L, RefsHanded
  <2>2. /\ s \in refs \ Used
        /\ \A k \in Labels : \A i \in DOMAIN commits[k] : commits[k][i].state # s
    BY <1>1 DEF PInv, LoosePinOK
  <2>3. TypeOK /\ commits' = Handed(l, s, by) /\ l \in Labels /\ ~Closing /\ s = attempt.pin[l]
    BY <1>1, <1>3 DEF CInv
  <2> HIDE DEF s, by, l
  <2>4. /\ \A k \in Labels : \A i \in DOMAIN commits'[k] :
              \/ i \in DOMAIN commits[k] /\ commits'[k][i] = commits[k][i]
              \/ k = l /\ commits'[k][i].state = s /\ commits'[k][i].by = by
        /\ \E i \in DOMAIN commits'[l] : commits'[l][i].by = by
    BY <2>3, HandedEntries
  <2>5. \A k \in Labels : ~Committing(k, "evidence")
    BY <1>1, NoEvidenceQueued DEF PInv
  <2>6. Names' = Names /\ Used' = Used
    BY <1>1 DEF Names, Named, Used
  <2>7. QueuedOK'
    <3> SUFFICES ASSUME NEW k \in Labels, NEW i \in DOMAIN commits'[k]
                 PROVE  EntryOK(k, commits[k][i])'
      BY DEF QueuedOK
    <3>1. CASE i \in DOMAIN commits[k] /\ commits'[k][i] = commits[k][i]
      <4>1. EntryOK(k, commits[k][i]) /\ commits[k][i].by # "evidence"
        BY <2>5, <3>1 DEF PInv, QueuedOK, Committing
      <4> QED
        BY <1>1, <2>1, <2>6, <3>1, <4>1 DEF EntryOK
    <3>2. CASE k = l /\ commits'[k][i].state = s /\ commits'[k][i].by = by
      BY <2>1, <2>2, <2>3, <2>6, <3>2 DEF EntryOK, Stage
    <3> QED
      BY <2>4, <3>1, <3>2
  <2>8. DistinctOK'
    BY <2>2, <2>3, JoinedDistinct DEF PInv
  <2>9. KeepsRefs /\ AgentStateOK' /\ LoosePinOK'
    BY <1>1, <2>1, <2>6 DEF PInv, KeepsRefs, AgentStateOK, LoosePinOK
  <2>10. PinIsHead'
    <3>1. Committing(L, "evidence")'
      BY <2>1, <2>4 DEF Committing
    <3> QED
      BY <1>1, <2>1, <3>1 DEF PInv, PinIsHead, PastA, Pinned, Stage, l
  <2> QED
    BY <2>7, <2>8, <2>9, <2>10 DEF PInv
<1> QED
  BY <1>2, <1>3 DEF Recheck

\* The new summary names what the heads name, so only states that the one before
\* named are asked about.
LEMMA PublishPins == ASSUME CInv, CInv', PInv, Publish PROVE PInv' /\ KeepsRefs
<1>1. /\ attempt \in Attempts /\ attempt.stage = "check" /\ L = "B" /\ Goes("finally")
      /\ UNCHANGED <<ws, head, commits, moved, agent, runs, phase>>
  BY AttemptFacts DEF Publish, Stage, chain
<1>2. CASE UNCHANGED <<summary, refs>>
  BY <1>1, <1>2, GivesUpPins
<1>3. CASE /\ Unmoved /\ ~Closing /\ summary' = Measured
           /\ refs' = Released(refs, Range(summary.state), Named(ws, head, Measured))
  <2>1. attempt'.stage = "finally" /\ attempt'.pin = attempt.pin
    BY <1>1 DEF Goes, Attempts
  <2>2. \A k \in Labels : attempt.pin[k] = head[k] \/ (k = "A" /\ Overtaken(attempt.pin[k]))
    BY <1>1, <1>3 DEF PInv, PinIsHead, PastA, Stage, Unmoved, Closing, Labels, Overtaken
  <2>3. summary'.state = attempt.pin
    BY <1>3 DEF Measured
  <2>4. TypeOK /\ TypeOK'
    BY DEF CInv
  <2>5. /\ \A x \in Names' : x \in Names \/ Overtaken(x)
        /\ \A x \in Used' : x \in Used \/ x \in Range(attempt.pin)
    <3>1. \A k \in Labels : attempt.pin[k] \in Range(attempt.pin)
      BY <1>1 DEF Attempts, Range
    <3>2. \A x \in Names' : x \in Names \/ Overtaken(x)
      BY <1>1, <2>2, <2>3, <2>4, NamesAre, NamesWillBe
    <3>3. \A x \in Used' : x \in Used \/ x \in Range(attempt.pin)
      BY <1>1, <2>3, <2>4, <3>1, UsedIs, UsedWillBe
    <3> QED
      BY <3>2, <3>3
  <2>6. \A x : x \in refs' <=> x \in refs /\ ~(x \in Range(summary.state) /\ x \notin Names')
    <3>1. Named(ws, head, Measured) = Names'
      BY <1>1, <1>3 DEF Names, Named
    <3> QED
      BY <1>3, <3>1 DEF Released
  <2>7. Range(summary.state) \subseteq Used
    BY DEF Used
  <2>8. \A x \in refs \ Used : x \notin Range(attempt.pin) => x \in refs' \ Used'
    BY <2>5, <2>6, <2>7
  <2>9. \A k \in Labels : ~Committing(k, "evidence")
    BY <1>1, NoEvidenceQueued DEF PInv
  <2>10. QueuedOK'
    <3> SUFFICES ASSUME NEW k \in Labels, NEW i \in DOMAIN commits[k]
                 PROVE  EntryOK(k, commits[k][i])'
      BY <1>1 DEF QueuedOK
    <3>1. /\ EntryOK(k, commits[k][i]) /\ commits[k][i].by # "evidence"
          /\ commits[k][i].by \in {"details", "evidence", "agent"}
      BY <2>4, <2>9, Entries DEF PInv, QueuedOK, Committing
    <3> QED
      BY <1>1, <2>1, <2>8, <3>1 DEF EntryOK
  <2>11. KeepsRefs
    BY <2>5, <2>6 DEF KeepsRefs
  <2>12. DistinctOK' /\ AgentStateOK' /\ LoosePinOK'
    BY <1>1, <2>1 DEF PInv, DistinctOK, AgentStateOK, LoosePinOK
  <2>13. PinIsHead'
    BY <2>1, EarlyPinIsHead
  <2> QED
    BY <2>10, <2>11, <2>12, <2>13 DEF PInv
<1> QED
  BY <1>2, <1>3 DEF Publish

\* What an attempt pinned and did not hand over is let go.
LEMMA FinallyPins == ASSUME CInv, CInv', PInv, Finally PROVE PInv' /\ KeepsRefs
<1>1. /\ attempt \in Attempts /\ attempt.stage = "finally" /\ attempt' = Idle
      /\ UNCHANGED <<ws, head, commits, moved, agent, runs, phase, summary>>
      /\ refs' = Released(refs, Dropped, Names)
  BY AttemptFacts DEF Finally, Stage, chain, ReturnEarly, Names
<1>2. attempt'.stage = "idle" /\ Range(attempt'.pin) = {Base}
  BY <1>1 DEF Idle, Range, Labels
<1>3. Names' = Names /\ Used' = Used /\ TypeOK
  BY <1>1 DEF Names, Named, Used, CInv
<1>4. Dropped \subseteq Range(attempt.pin)
  BY <1>1 DEF Dropped, Attempts, Range
<1>5. KeepsRefs
  BY <1>1, <1>3 DEF KeepsRefs, Released
<1>6. \A k \in Labels : ~Committing(k, "evidence")
  BY <1>1, NoEvidenceQueued DEF PInv
<1>7. QueuedOK'
  <2> SUFFICES ASSUME NEW k \in Labels, NEW i \in DOMAIN commits[k]
               PROVE  EntryOK(k, commits[k][i])'
    BY <1>1 DEF QueuedOK
  <2>1. EntryOK(k, commits[k][i]) /\ commits[k][i].by # "evidence"
    BY <1>6 DEF PInv, QueuedOK, Committing
  <2>2. commits[k][i].state \in States /\ Base \notin States
        /\ commits[k][i].by \in {"details", "evidence", "agent"}
    BY <1>3, Entries, Bounds
  <2>3. commits[k][i].by # "agent" => commits[k][i].state \in refs'
    BY <1>1, <1>4, <2>1, <2>2 DEF EntryOK, Released
  <2> QED
    BY <1>1, <1>2, <1>3, <2>1, <2>2, <2>3 DEF EntryOK
<1>8. DistinctOK' /\ AgentStateOK' /\ LoosePinOK'
  BY <1>1, <1>2 DEF PInv, DistinctOK, AgentStateOK, LoosePinOK
<1>9. PinIsHead'
  BY <1>2, EarlyPinIsHead
<1> QED
  BY <1>5, <1>7, <1>8, <1>9 DEF PInv

\* With the first of a chain gone, the others are what they were.
LEMMA PoppedRest ==
    ASSUME CInv, CInv', PInv, NEW l \in Labels, commits[l] # <<>>,
           commits' = [commits EXCEPT ![l] = Tail(@)]
    PROVE  /\ 1 \in DOMAIN commits[l] /\ Head(commits[l]) = commits[l][1]
           /\ commits[l][1].state \in States /\ commits[l][1].state # Base
           /\ \A k \in Labels : \A i \in DOMAIN commits'[k] : \E j \in DOMAIN commits[k] :
                commits'[k][i] = commits[k][j] /\ commits[k][j].state # commits[l][1].state
           /\ DistinctOK'
           /\ \A k \in Labels : Committing(k, "evidence") =>
                \/ \E i \in DOMAIN commits'[k] : commits'[k][i].by = "evidence"
                \/ k = l /\ commits[l][1].by = "evidence"
<1>1. /\ \A k \in Labels : \A i \in DOMAIN commits'[k] :
            \/ k # l /\ i \in DOMAIN commits[k] /\ commits'[k][i] = commits[k][i]
            \/ /\ k = l /\ i + 1 \in DOMAIN commits[l] /\ i + 1 # 1
               /\ commits'[l][i] = commits[l][i + 1]
      /\ \A k \in Labels \ {l} : commits'[k] = commits[k]
      /\ \A i \in DOMAIN commits[l] \ {1} : \E j \in DOMAIN commits'[l] :
            commits'[l][j] = commits[l][i]
      /\ 1 \in DOMAIN commits[l] /\ Head(commits[l]) = commits[l][1]
  BY PoppedEntries DEF CInv
<1>2. commits[l][1].state \in States /\ commits[l][1].state # Base
  BY <1>1, Entries, Bounds DEF CInv
<1>3. ASSUME NEW k \in Labels, NEW i \in DOMAIN commits'[k]
      PROVE  \E j \in DOMAIN commits[k] :
               commits'[k][i] = commits[k][j] /\ commits[k][j].state # commits[l][1].state
  <2>1. CASE k # l /\ i \in DOMAIN commits[k] /\ commits'[k][i] = commits[k][i]
    BY <1>1, <1>2, <2>1 DEF PInv, DistinctOK
  <2>2. CASE /\ k = l /\ i + 1 \in DOMAIN commits[l] /\ i + 1 # 1
             /\ commits'[l][i] = commits[l][i + 1]
    BY <1>1, <1>2, <2>2, SMTT(60) DEF PInv, DistinctOK
  <2> QED
    BY <1>1, <2>1, <2>2
<1>4. DistinctOK'
  <2>1. \A k \in Labels : DOMAIN commits'[k] \subseteq Nat
    <3> SUFFICES ASSUME NEW k \in Labels PROVE DOMAIN commits'[k] \subseteq Nat
      OBVIOUS
    <3>1. commits'[k] \in Seq(Commits)
      BY DEF CInv, TypeOK
    <3> QED
      BY <3>1
  <2> SUFFICES ASSUME NEW a \in Labels, NEW b \in Labels,
                      NEW i \in DOMAIN commits'[a], NEW j \in DOMAIN commits'[b],
                      commits'[a][i].state = commits'[b][j].state
               PROVE  a = b /\ i = j
    BY DEF DistinctOK
  <2>2. i \in Nat /\ j \in Nat
    BY <2>1
  <2>3. PICK p \in DOMAIN commits[a] :
          commits'[a][i] = commits[a][p] /\ (p = IF a = l THEN i + 1 ELSE i)
    <3>1. CASE a = l
      BY <1>1, <3>1
    <3>2. CASE a # l
      BY <1>1, <3>2
    <3> QED
      BY <3>1, <3>2
  <2>4. PICK q \in DOMAIN commits[b] :
          commits'[b][j] = commits[b][q] /\ (q = IF b = l THEN j + 1 ELSE j)
    <3>1. CASE b = l
      BY <1>1, <3>1
    <3>2. CASE b # l
      BY <1>1, <3>2
    <3> QED
      BY <3>1, <3>2
  <2>5. a = b /\ p = q
    BY <2>3, <2>4 DEF PInv, DistinctOK
  <2> QED
    BY <2>2, <2>3, <2>4, <2>5
<1>5. ASSUME NEW k \in Labels, Committing(k, "evidence")
      PROVE  \/ \E i \in DOMAIN commits'[k] : commits'[k][i].by = "evidence"
             \/ k = l /\ commits[l][1].by = "evidence"
  BY <1>1, <1>5 DEF Committing
<1> QED
  BY <1>1, <1>2, <1>3, <1>4, <1>5

\* The first of the chain is skipped, or begins to be committed.
LEMMA CommitStartsPins ==
    ASSUME CInv, CInv', PInv, NEW l \in Labels, CommitStarts(l) PROVE PInv' /\ KeepsRefs
<1> DEFINE s == Head(commits[l]).state
<1>1. /\ commits[l] # <<>>
      /\ UNCHANGED <<ws, head, moved, agent, attempt, runs, phase, summary>>
  BY DEF CommitStarts
<1>2. Names' = Names /\ Used' = Used
  BY <1>1 DEF Names, Named, Used
<1>3. CASE UNCHANGED <<refs, commits>>
  BY <1>1, <1>3, SameAgentsPins DEF CInv
<1>4. CASE /\ Closing \/ head[l] = s
           /\ refs' = Released(refs, {s}, Names)
           /\ commits' = [commits EXCEPT ![l] = Tail(@)]
  <2>1. /\ 1 \in DOMAIN commits[l] /\ Head(commits[l]) = commits[l][1]
        /\ commits[l][1].state \in States /\ commits[l][1].state # Base
        /\ \A k \in Labels : \A i \in DOMAIN commits'[k] : \E j \in DOMAIN commits[k] :
             commits'[k][i] = commits[k][j] /\ commits[k][j].state # commits[l][1].state
        /\ DistinctOK'
        /\ \A k \in Labels : Committing(k, "evidence") =>
             \/ \E i \in DOMAIN commits'[k] : commits'[k][i].by = "evidence"
             \/ k = l /\ commits[l][1].by = "evidence"
    BY <1>1, <1>4, PoppedRest
  <2>2. /\ s \in States /\ s # Base /\ commits[l][1].state = s /\ 1 \in DOMAIN commits[l]
        /\ \A k \in Labels : \A i \in DOMAIN commits'[k] : \E j \in DOMAIN commits[k] :
             commits'[k][i] = commits[k][j] /\ commits[k][j].state # s
        /\ DistinctOK'
        /\ \A k \in Labels : Committing(k, "evidence") =>
             \/ \E i \in DOMAIN commits'[k] : commits'[k][i].by = "evidence"
             \/ k = l /\ commits[l][1].by = "evidence"
    BY <2>1
  <2> HIDE DEF s
  <2>3. \A x \in refs : x # s => x \in refs'
    BY <1>4 DEF Released
  <2>4. QueuedOK'
    <3> SUFFICES ASSUME NEW k \in Labels, NEW i \in DOMAIN commits'[k]
                 PROVE  EntryOK(k, commits[k][i])'
      BY DEF QueuedOK
    <3>1. PICK j \in DOMAIN commits[k] :
            commits'[k][i] = commits[k][j] /\ commits[k][j].state # s
      BY <2>2
    <3>2. EntryOK(k, commits[k][j])
      BY DEF PInv, QueuedOK
    <3> QED
      BY <1>1, <1>2, <2>3, <3>1, <3>2 DEF EntryOK, Stage, L
  <2>5. KeepsRefs
    BY <1>2, <1>4 DEF KeepsRefs, Released
  <2>6. LoosePinOK'
    <3> SUFFICES ASSUME attempt.stage \in {"measured", "recheck"}
                 PROVE  LoosePinOK'
      BY <1>1 DEF LoosePinOK
    <3>1. attempt.pin[L] \in refs \ Used /\ attempt.pin[L] # s
          /\ \A k \in Labels : \A i \in DOMAIN commits[k] : commits[k][i].state # attempt.pin[L]
      BY <2>2 DEF PInv, LoosePinOK
    <3>2. \A k \in Labels : \A i \in DOMAIN commits'[k] : commits'[k][i].state # attempt.pin[L]
      BY <2>2, <3>1
    <3> QED
      BY <1>1, <1>2, <2>3, <3>1, <3>2 DEF LoosePinOK, L
  <2>7. PinIsHead'
    <3> SUFFICES ASSUME phase = "live", Stage("heading"), ~Committing(L, "evidence")'
                 PROVE  head[L] = attempt.pin[L]
      BY <1>1 DEF PInv, PinIsHead, PastA, Stage, L
    <3>1. CASE ~Committing(L, "evidence")
      BY <3>1 DEF PInv, PinIsHead
    <3>2. CASE Committing(L, "evidence")
      <4>1. L' = L /\ \A j \in DOMAIN commits'[L] : commits'[L][j].by # "evidence"
        BY <1>1 DEF Committing, L
      <4>2. L = l /\ commits[l][1].by = "evidence"
        BY <2>2, <3>2, <4>1, AttemptFacts
      <4>3. EntryOK(l, commits[l][1])
        BY <2>2 DEF PInv, QueuedOK
      <4>4. s = attempt.pin[l]
        BY <2>2, <4>2, <4>3 DEF EntryOK
      <4> QED
        BY <1>4, <4>2, <4>4 DEF Closing
    <3> QED
      BY <3>1, <3>2
  <2>8. AgentStateOK'
    BY <1>1 DEF PInv, AgentStateOK
  <2> QED
    BY <2>2, <2>4, <2>5, <2>6, <2>7, <2>8 DEF PInv
<1> QED
  BY <1>3, <1>4 DEF CommitStarts, Names

\* Whoever's state the first of a candidate's chain is: the attempt holds the
\* candidate's lease, or its agent does, or neither has anything to lose.
LEMMA FirstInChain ==
    ASSUME CInv, PInv, NEW l \in Labels, 1 \in DOMAIN commits[l],
           NEW s, commits[l][1].state = s
    PROVE  /\ s \in refs \/ s \in Names \/ Overtaken(s)
           /\ l \notin Inspected /\ agent[l].stage \in {"hashing", "heading"} => agent[l].state = s
           /\ l = "A" /\ "A" \notin Inspected /\ PastA => FALSE
           /\ \A i \in DOMAIN commits[l] :
                commits[l][i].by = "evidence" => Stage("heading") /\ L = l
<1>1. /\ EntryOK(l, commits[l][1]) /\ commits[l][1].by \in {"details", "evidence", "agent"}
      /\ s \in States /\ s # Base
  BY Entries, Bounds DEF PInv, QueuedOK, CInv
<1>2. commits[l][1].by = "agent" =>
        /\ agent[l].stage = "heading" /\ agent[l].state = s
        /\ l \in Inspected \/ ws[l] = s
  BY <1>1 DEF EntryOK, PInv, AgentStateOK
<1>3. s \in refs \/ s \in Names \/ Overtaken(s)
  <2>1. CASE commits[l][1].by = "agent"
    <3>1. CASE ws[l] = s
      BY <3>1, NamesAre DEF CInv
    <3>2. CASE ws[l] # s
      BY <1>2, <2>1, <3>2 DEF Overtaken
    <3> QED
      BY <3>1, <3>2
  <2>2. CASE commits[l][1].by # "agent"
    BY <1>1, <2>2 DEF EntryOK
  <2> QED
    BY <2>1, <2>2
<1>4. /\ agent[l].stage \in {"hashing", "heading"} => lease[l].holder = "agent" /\ l \in Prompted
      /\ attempt.stage \in {"pin", "measured", "recheck", "heading", "check"} =>
           lease[l].holder = "evidence"
  BY DEF CInv, Control, AgentOK, HeldOK, Early
<1>5. l \notin Inspected /\ agent[l].stage \in {"hashing", "heading"} => agent[l].state = s
  <2> SUFFICES ASSUME l \notin Inspected, agent[l].stage \in {"hashing", "heading"}
               PROVE  agent[l].state = s
    OBVIOUS
  <2>1. commits[l][1].by # "evidence"
    BY <1>1, <1>4 DEF EntryOK, Stage
  <2>2. commits[l][1].by # "details"
    BY <1>1 DEF EntryOK
  <2> QED
    BY <1>1, <1>2, <2>1, <2>2
<1>6. ASSUME l = "A", "A" \notin Inspected, PastA PROVE FALSE
  <2>1. lease[l].holder = "evidence" /\ (Stage("heading") => L = "B")
    BY <1>4, <1>6 DEF PastA, Pinned, Stage
  <2>2. commits[l][1].by # "evidence"
    BY <1>1, <1>6, <2>1 DEF EntryOK
  <2>3. commits[l][1].by # "details"
    BY <1>1, <1>6 DEF EntryOK
  <2>4. commits[l][1].by # "agent"
    BY <1>2, <1>4, <2>1
  <2> QED
    BY <1>1, <2>2, <2>3, <2>4
<1>7. \A i \in DOMAIN commits[l] : commits[l][i].by = "evidence" => Stage("heading") /\ L = l
  BY DEF PInv, QueuedOK, EntryOK
<1> QED
  BY <1>3, <1>5, <1>6, <1>7

\* The state becomes the lineage and, of a live comparison, the head: what the
\* two named before is asked about.
LEMMA CommitEndsPins ==
    ASSUME CInv, CInv', PInv, NEW l \in Labels, CommitEnds(l) PROVE PInv' /\ KeepsRefs
<1> DEFINE s == Head(commits[l]).state
<1>1. /\ commits[l] # <<>> /\ ~Awaiting(l)
      /\ ws' = WorkspaceNow(l, s) /\ head' = Headed(l, s) /\ refs' = RefsHeaded(l, s)
      /\ moved' = [moved EXCEPT ![l] = @ \/ ~Closing]
      /\ commits' = [commits EXCEPT ![l] = Tail(@)]
      /\ UNCHANGED <<agent, attempt, runs, phase, summary>>
  BY DEF CommitEnds, CInv, SavingOK
<1>2. /\ 1 \in DOMAIN commits[l] /\ Head(commits[l]) = commits[l][1]
      /\ commits[l][1].state \in States /\ commits[l][1].state # Base
      /\ \A k \in Labels : \A i \in DOMAIN commits'[k] : \E j \in DOMAIN commits[k] :
           commits'[k][i] = commits[k][j] /\ commits[k][j].state # commits[l][1].state
      /\ DistinctOK'
      /\ \A k \in Labels : Committing(k, "evidence") =>
           \/ \E i \in DOMAIN commits'[k] : commits'[k][i].by = "evidence"
           \/ k = l /\ commits[l][1].by = "evidence"
  BY <1>1, PoppedRest
<1>3. /\ s \in States /\ s # Base /\ commits[l][1].state = s
      /\ \A k \in Labels : \A i \in DOMAIN commits'[k] : \E j \in DOMAIN commits[k] :
           commits'[k][i] = commits[k][j] /\ commits[k][j].state # s
  BY <1>2
<1> HIDE DEF s
<1>4. /\ s \in refs \/ s \in Names \/ Overtaken(s)
      /\ l \notin Inspected /\ agent[l].stage \in {"hashing", "heading"} => agent[l].state = s
      /\ l = "A" /\ "A" \notin Inspected /\ PastA => FALSE
      /\ \A i \in DOMAIN commits[l] : commits[l][i].by = "evidence" => Stage("heading") /\ L = l
  BY <1>2, <1>3, FirstInChain
<1>5. TypeOK /\ TypeOK'
  BY DEF CInv
<1>6. /\ \A k \in Labels : ws'[k] = IF k = l THEN s ELSE ws[k]
      /\ \A k \in Labels : head'[k] = IF k = l /\ ~Closing THEN s ELSE head[k]
  BY <1>1, <1>5 DEF TypeOK, WorkspaceNow, Headed
<1>7. \A x \in Names' : x \in Names \/ x = s
  BY <1>1, <1>5, <1>6, NamesAre, NamesWillBe
<1>8. \A x \in Used' : x \in Used \/ x = s
  BY <1>1, <1>5, <1>6, UsedIs, UsedWillBe
<1>9. s \in Names'
  BY <1>5, <1>6, NamesWillBe
<1>10. ASSUME NEW x \in refs, x \notin refs' PROVE x \in Used /\ x \notin Names'
  <2>1. Named(WorkspaceNow(l, s), Headed(l, s), summary) = Names'
    BY <1>1 DEF Names, Named
  <2>2. refs' = RefsAfter(refs, l, s) \ ({IF Closing THEN s ELSE head[l]} \ Names')
    BY <1>1, <2>1 DEF RefsHeaded, Released
  <2>3. CASE x \in RefsAfter(refs, l, s)
    <3>1. x = (IF Closing THEN s ELSE head[l]) /\ x \notin Names'
      BY <1>10, <2>2, <2>3
    <3>2. x = head[l]
      BY <1>9, <3>1
    <3> QED
      BY <1>5, <3>1, <3>2, UsedIs
  <2>4. CASE x \notin RefsAfter(refs, l, s)
    <3>1. ws[l] # s /\ x = ws[l] /\ x \notin Named(WorkspaceNow(l, s), head, summary)
      BY <2>4 DEF RefsAfter, Released
    <3>2. \A k \in Labels : head[k] # x
      <4>1. DOMAIN head = Labels
        BY <1>5 DEF TypeOK
      <4> QED
        BY <3>1, <4>1 DEF Named, Range
    <3>3. \A k \in Labels : ws'[k] # x
      <4>1. DOMAIN WorkspaceNow(l, s) = Labels /\ ws' = WorkspaceNow(l, s)
        BY <1>1, <1>5 DEF TypeOK, WorkspaceNow
      <4> QED
        BY <3>1, <4>1 DEF Named, Range
    <3>4. /\ \A k \in Labels : agent[k].stage = "pending" => agent[k].state # x
          /\ \A k \in Labels : x \notin runs[k] /\ summary.state[k] # x
      <4>1. DOMAIN runs = Labels /\ DOMAIN summary.state = Labels
        BY <1>5 DEF TypeOK, Summaries
      <4> QED
        BY <3>1, <4>1 DEF Named, Range
    <3>5. x \notin Names'
      BY <1>1, <1>5, <1>6, <3>1, <3>2, <3>3, <3>4, NamesWillBe
    <3> QED
      BY <1>5, <3>1, <3>5, UsedIs
  <2> QED
    BY <2>3, <2>4
<1>11. \A x \in refs \ Used : x # s => x \in refs' \ Used'
  BY <1>8, <1>10
<1>12. KeepsRefs
  <2> SUFFICES ASSUME NEW x \in Names'
               PROVE  x \in refs' \/ (x \in Names /\ x \notin refs) \/ Overtaken(x)
    BY DEF KeepsRefs
  <2>1. x \in refs \/ x \in Names \/ Overtaken(x)
    BY <1>4, <1>7
  <2> QED
    BY <1>10, <2>1
<1>13. QueuedOK'
  <2> SUFFICES ASSUME NEW k \in Labels, NEW i \in DOMAIN commits'[k]
               PROVE  EntryOK(k, commits[k][i])'
    BY DEF QueuedOK
  <2>1. PICK j \in DOMAIN commits[k] : commits'[k][i] = commits[k][j] /\ commits[k][j].state # s
    BY <1>3
  <2>2. EntryOK(k, commits[k][j])
    BY DEF PInv, QueuedOK
  <2> QED
    BY <1>1, <1>11, <2>1, <2>2 DEF EntryOK, Stage, L
<1>14. LoosePinOK'
  <2> SUFFICES ASSUME attempt.stage \in {"measured", "recheck"}
               PROVE  LoosePinOK'
    BY <1>1 DEF LoosePinOK
  <2>1. attempt.pin[L] \in refs \ Used /\ attempt.pin[L] # s
        /\ \A k \in Labels : \A i \in DOMAIN commits[k] : commits[k][i].state # attempt.pin[L]
    BY <1>2, <1>3 DEF PInv, LoosePinOK
  <2>2. \A k \in Labels : \A i \in DOMAIN commits'[k] : commits'[k][i].state # attempt.pin[L]
    BY <1>3, <2>1
  <2> QED
    BY <1>1, <1>11, <2>1, <2>2 DEF LoosePinOK, L
<1>15. AgentStateOK'
  BY <1>1, <1>4, <1>6 DEF PInv, AgentStateOK
<1>16. PinIsHead'
  <2> SUFFICES ASSUME phase = "live" PROVE PinIsHead'
    BY <1>1 DEF PinIsHead
  <2>1. \A k \in Labels : head'[k] = IF k = l THEN s ELSE head[k]
    BY <1>6 DEF Closing
  <2>2. ASSUME Stage("heading"), ~Committing(L, "evidence")'
        PROVE  head'[L] = attempt.pin[L]
    <3>1. L' = L /\ L \in Labels /\ \A j \in DOMAIN commits'[L] : commits'[L][j].by # "evidence"
      BY <1>1, <2>2, AttemptFacts DEF Committing, L
    <3>2. CASE L # l
      <4>1. ~Committing(L, "evidence")
        BY <1>2, <3>1, <3>2
      <4> QED
        BY <2>1, <2>2, <3>1, <3>2, <4>1 DEF PInv, PinIsHead
    <3>3. CASE L = l
      <4>1. Committing(L, "evidence")
        BY <1>1, <2>2, <3>3 DEF Awaiting, Stage, L
      <4>2. commits[l][1].by = "evidence"
        BY <1>2, <3>1, <4>1
      <4>3. EntryOK(l, commits[l][1])
        BY <1>2 DEF PInv, QueuedOK
      <4>4. s = attempt.pin[l]
        BY <1>3, <4>2, <4>3 DEF EntryOK
      <4> QED
        BY <2>1, <3>1, <3>3, <4>4
    <3> QED
      BY <3>2, <3>3
  <2>3. PastA /\ "A" \notin Inspected => head'["A"] = attempt.pin["A"]
    BY <1>4, <2>1 DEF PInv, PinIsHead, Labels
  <2>4. Stage("check") /\ ~moved'["B"] => head'["B"] = attempt.pin["B"]
    <3>1. l = "B" => moved'["B"]
      BY <1>1, <1>5, ZenonT(60) DEF TypeOK, Closing
    <3>2. l # "B" => (moved'["B"] <=> moved["B"])
      BY <1>1, <1>5 DEF TypeOK, Labels
    <3> QED
      BY <2>1, <3>1, <3>2 DEF PInv, PinIsHead, Labels
  <2> QED
    BY <1>1, <2>2, <2>3, <2>4 DEF PinIsHead, PastA, Stage, L
<1> QED
  BY <1>2, <1>12, <1>13, <1>14, <1>15, <1>16 DEF PInv

LEMMA RetainPins == ASSUME CInv, CInv', PInv, Retain PROVE PInv' /\ KeepsRefs
<1>1. /\ UNCHANGED <<ws, head, commits, moved, attempt, refs, runs, summary>>
      /\ phase' = "retained" /\ \A l \in Labels : commits[l] = <<>> /\ agent'[l].stage = "idle"
  BY DEF Retain, chain, Drained, Terminated, Resting
<1>2. \A x \in Names' : x \in Names
  BY <1>1 DEF Names, Named
<1>3. \A l \in Labels : ~Committing(l, "agent")
  BY <1>1 DEF Committing
<1> QED
  BY <1>1, <1>2, <1>3, QuietPins DEF CInv

LEMMA ForgetPins == ASSUME CInv, CInv', PInv, Forget PROVE PInv' /\ KeepsRefs
<1>1. /\ UNCHANGED <<commits, attempt, runs>> /\ phase' = "removed"
      /\ refs' = Released(refs, Range(summary.state) \union Range(ws), UNION Range(runs))
      /\ attempt.stage = "idle"
      /\ \A l \in Labels : /\ commits[l] = <<>> /\ agent'[l].stage = "idle"
                           /\ ws'[l] = Base /\ head'[l] = Base /\ summary'.state[l] = Base
  BY DEF Forget, chain, Drained, Terminated, Resting, Nowhere, NoSummary, Stage
<1>2. \A x \in Names' : x = Base \/ \E l \in Labels : x \in runs[l]
  BY <1>1, NamesWillBe DEF CInv
<1>3. ASSUME NEW l \in Labels, NEW x \in runs[l] PROVE x \in Names /\ (x \in refs => x \in refs')
  <2>1. x \in Names /\ x \in UNION Range(runs)
    <3>1. DOMAIN runs = Labels
      BY DEF CInv, TypeOK
    <3> QED
      BY <1>3, <3>1, NamesAre DEF CInv, Range
  <2> QED
    BY <1>1, <2>1 DEF Released
<1>4. KeepsRefs
  BY <1>2, <1>3 DEF KeepsRefs
<1>5. QueuedOK' /\ DistinctOK' /\ AgentStateOK' /\ LoosePinOK' /\ PinIsHead'
  BY <1>1 DEF QueuedOK, DistinctOK, AgentStateOK, LoosePinOK, PinIsHead
<1> QED
  BY <1>4, <1>5 DEF PInv

LEMMA InitPins == ASSUME Init, TypeOK PROVE PInv
<1>1. attempt.stage = "idle" /\ \A l \in Labels : commits[l] = <<>> /\ agent[l].stage = "idle"
  BY DEF Init, Idle, Resting
<1> QED
  BY <1>1
  DEF PInv, QueuedOK, DistinctOK, LoosePinOK, PinIsHead, PastA, Pinned, Stage, AgentStateOK

LEMMA NextPins == ASSUME CInv, CInv', PInv, Next PROVE PInv' /\ KeepsRefs
<1>1. Prompted \subseteq Labels /\ Inspected \subseteq Labels /\ "A" \in Labels
  BY Bounds DEF Labels
<1>2. \A l \in Labels : Commit(l) => PInv' /\ KeepsRefs
  BY CommitStartsPins, CommitEndsPins DEF Commit
<1>3. \A l \in Labels : Agent(l) => PInv' /\ KeepsRefs
  BY AgentRestsPins, CapturePins, TokenOutPins, RunStartsPins, CheckpointCapturePins,
     CheckpointEndsPins
  DEF Agent
<1>4. Attempt => PInv' /\ KeepsRefs
  BY AdmissionPins, PreparePins, PinPins, RecapturePins, RecheckPins, NotedPins, CheckFirstPins,
     PublishPins, ThrowsPins, FinallyPins
  DEF Attempt
<1>5. Measure \/ Discard => PInv' /\ KeepsRefs
  BY <1>1, EnvironmentPins
<1> QED
  BY <1>1, <1>2, <1>3, <1>4, <1>5, EnvironmentPins, DetailsPins, RetainPins, ForgetPins DEF Next

LEMMA StutterPins == ASSUME CInv, CInv', PInv, UNCHANGED vars PROVE PInv' /\ KeepsRefs
BY SameAgentsPins DEF vars, chain, CInv

-----------------------------------------------------------------------------
(* The theorems.                                                           *)

\* Leases, agents and attempts fit together throughout.
THEOREM ControlInvariance == Spec => []CInv
<1>1. CInv /\ [Next]_vars => CInv'
  BY NextControl, StutterControl
<1> QED
  BY InitControl, <1>1, PTL DEF Spec

\* The comparison's maps keep their types, and of the two that want a workspace's
\* lease at most one waits.
THEOREM TypeCorrect == Spec => []TypeOK
<1>1. CInv => TypeOK
  BY DEF CInv
<1> QED
  BY <1>1, ControlInvariance, PTL

\* runEvidence (manager.ts) checks the second candidate's generation and writes
\* evidenceByComparison with no await in between, and what it measured is no older
\* than the generation it was given: evidence that is not stale covers every change
\* of that candidate that the watcher has reported.
THEOREM LastCheckStaysCurrent == Spec => []LastCheckedIsCurrent
<1>1. CInv => LastCheckedIsCurrent
  BY DEF CInv
<1> QED
  BY <1>1, ControlInvariance, PTL

\* Whichever way runEvidence ends, acquireWriteLease's leases (main.ts) have been
\* given back and no waiter is left behind, as long as the comparison is live.
THEOREM LeasesComeBack == Spec => []LeasesReturned
<1>1. CInv => LeasesReturned
  <2> SUFFICES ASSUME CInv, phase = "live", Stage("idle"), NEW l \in Labels
               PROVE  lease[l].holder # "evidence" /\ ~Contains(lease[l].waiters, "evidence")
    BY DEF LeasesReturned
  <2>1. attempt.held = {} /\ ~Stage("wait")
    BY DEF CInv, Control, HeldOK, Idle, Stage
  <2>2. ~In(lease[l], "evidence")
    BY <2>1 DEF CInv, Control, HeldOK
  <2>3. lease[l].waiters = <<>> \/ lease[l].waiters = <<"agent">>
    BY <2>2 DEF CInv, TypeOK, Leases, In
  <2>4. \A i \in 1 .. Len(lease[l].waiters) : lease[l].waiters[i] # "evidence"
    BY <2>3
  <2> QED
    BY <2>2, <2>4 DEF In, Contains
<1> QED
  BY <1>1, ControlInvariance, PTL

\* releaseStateIfUnused (main.ts) unrefs a state only when nobody names it, and
\* whoever is about to name one holds it where no release reaches it: what a
\* workspace, a head, the evidence, a run or a pending preflight names is without its
\* ref only from a step on that names what details of its candidate have overtaken.
THEOREM OnlyDetailsUnpin == Spec => NamedKeepsItsRef
<1> DEFINE Step == \A s \in Unpinned' : s \in Unpinned \/ Overtaken(s)
<1>1. CInv /\ PInv /\ [Next]_vars => PInv' /\ [Step]_vars
  <2>1. KeepsRefs => Step
    BY DEF KeepsRefs, Unpinned, Names
  <2> QED
    BY <2>1, NextControl, StutterControl, NextPins, StutterPins
<1>2. Init => CInv /\ PInv
  BY InitControl, InitPins DEF CInv
<1>3. NamedKeepsItsRef <=> [][Step]_vars
  BY DEF NamedKeepsItsRef
<1> HIDE DEF Step
<1> QED
  BY <1>1, <1>2, <1>3, ControlInvariance, PTL DEF Spec
=============================================================================
