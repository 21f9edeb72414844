------------------------------ MODULE Evidence ------------------------------
(***************************************************************************)
(* The source states of one live comparison and the evidence measured on   *)
(* them: electron/worldlines/manager.ts (measureEvidence, runEvidence,     *)
(* setCandidateHead, details, teardown) with the parts of electron/main.ts *)
(* it works against: the write lease of each candidate workspace, the      *)
(* watcher, the preflight and the checkpoint of the candidate's agent, and *)
(* releaseStateIfUnused.                                                   *)
(*                                                                         *)
(* The contents of a candidate are a version number that every edit        *)
(* raises.  A source state is a name whose ref in the snapshot store is    *)
(* made by a capture and deleted by the release that finds nobody naming   *)
(* it.  `await` splits a handler into actions only where another actor can *)
(* change what the handler goes on to use.                                 *)
(***************************************************************************)
EXTENDS Integers, Sequences, FiniteSets, SequencesExt

CONSTANTS
  Prompted,      \* the candidates whose agent is prompted
  Inspected,     \* the candidates whose details are opened
  States,        \* names of captured source states
  MaxEdits,      \* bound: edits of each candidate
  MaxAttempts,   \* bound: evidence requests
  MaxPrompts,    \* bound: prompts of one agent
  MaxDetails     \* bound: details requests

Labels == {"A", "B"}
Base == 0        \* the state both candidates start from, owned by the comparison

ASSUME Bounds ==
  /\ {Prompted, Inspected} \subseteq SUBSET Labels
  /\ States \subseteq Nat \ {Base}
  /\ MaxEdits \in [Labels -> Nat]
  /\ {MaxAttempts, MaxPrompts, MaxDetails} \subseteq Nat

VARIABLES
  tree,      \* [Labels -> version of the contents on disk]
  heard,     \* [Labels -> version the watcher has reported], also ws.generation
  lease,     \* [Labels -> holder and waiters of the workspace write lease]
  ws,        \* [Labels -> ws.lastStateCommit]
  head,      \* [Labels -> cand.headStateId]
  moved,     \* [Labels -> cand.version differs from what the attempt noted]
  commits,   \* [Labels -> the chain cand.headCommit: states still to become the head]
  saving,    \* [Labels -> the first of them is inside onCandidateState]
  agent,     \* [Labels -> what the candidate's agent is doing, and with which state]
  runs,      \* [Labels -> states the run records of its terminal name]
  attempt,   \* the locals of the evidence attempt that runs
  asked,     \* evidence requests waiting in evidenceQueue
  summary,   \* evidenceByComparison
  refs,      \* the states whose ref is in the snapshot store
  phase,     \* of the comparison: live, closing, retained or removed
  left       \* bounds: requests the environment may still make

world == <<tree, heard>>
chain == <<commits, saving>>
vars == <<world, lease, ws, head, moved, chain, agent, runs, attempt, asked, summary,
          refs, phase, left>>
-----------------------------------------------------------------------------
(* Who names a state, and what a capture and a release do *)

NoSummary == [exists |-> FALSE, stale |-> FALSE,
              state |-> [l \in Labels |-> Base], tree |-> [l \in Labels |-> 0]]

(* stateIsReferenced: pending preflights, workspaces, candidate heads,     *)
(* evidence and run records.                                               *)
Named(w, h, sm) ==
  {agent[l].state : l \in {k \in Labels : agent[k].stage = "pending"}}
    \union Range(w) \union Range(h) \union Range(sm.state) \union UNION Range(runs)

Released(kept, states, named) == kept \ (states \ named)

InUse == refs \union Named(ws, head, summary)
           \union {agent[l].state : l \in Labels} \union Range(attempt.pin)
           \union UNION {{commits[l][i].state : i \in DOMAIN commits[l]} : l \in Labels}

(* Every capture makes a commit of its own and a ref to it.                *)
Fresh == {s \in States \ InUse : \A o \in States \ InUse : s <= o}

(* setWorkspaceState: the lineage moves on and lets go of the state before *)
WorkspaceNow(l, s) == [ws EXCEPT ![l] = s]
RefsAfter(kept, l, s) ==
  IF ws[l] = s THEN kept ELSE Released(kept, {ws[l]}, Named(WorkspaceNow(l, s), head, summary))

Closing == phase # "live"
-----------------------------------------------------------------------------
(* The write lease of a workspace: one holder, the others in order *)

FreeLease == [holder |-> "none", waiters |-> <<>>]

Requested(q, who) ==
  IF q.holder = "none" /\ q.waiters = <<>> THEN [q EXCEPT !.holder = who]
                                           ELSE [q EXCEPT !.waiters = Append(@, who)]
Withdrawn(q, who) == [q EXCEPT !.waiters = RemoveFirst(@, who)]
Returned(q, who) ==
  IF q.holder # who THEN q
  ELSE IF q.waiters = <<>> THEN FreeLease
  ELSE [holder |-> Head(q.waiters), waiters |-> Tail(q.waiters)]
-----------------------------------------------------------------------------
Idle == [stage |-> "idle", label |-> "A", held |-> {}, kept |-> {},
         gen |-> [l \in Labels |-> 0], tree |-> [l \in Labels |-> 0],
         pin |-> [l \in Labels |-> Base]]

Resting == [stage |-> "idle", state |-> Base]

Init ==
  /\ tree = [l \in Labels |-> 0] /\ heard = tree
  /\ lease = [l \in Labels |-> FreeLease]
  /\ ws = [l \in Labels |-> Base] /\ head = ws
  /\ moved = [l \in Labels |-> FALSE]
  /\ commits = [l \in Labels |-> <<>>] /\ saving = [l \in Labels |-> FALSE]
  /\ agent = [l \in Labels |-> Resting] /\ runs = [l \in Labels |-> {}]
  /\ attempt = Idle /\ asked = 0 /\ summary = NoSummary
  /\ refs = {} /\ phase = "live"
  /\ left = [attempts |-> MaxAttempts, details |-> MaxDetails,
             prompts |-> [l \in Labels |-> MaxPrompts]]

(* An editor, a test run or the agent writes to a candidate.               *)
Edit(l) ==
  /\ phase # "removed" /\ tree[l] < MaxEdits[l]
  /\ tree' = [tree EXCEPT ![l] = @ + 1]
  /\ UNCHANGED <<heard, lease, ws, head, moved, chain, agent, runs, attempt, asked, summary,
                 refs, phase, left>>

Staled == IF Closing THEN summary ELSE [summary EXCEPT !.stale = summary.exists]

(* The watcher's onChange for one edit.                                    *)
Heard(l) ==
  /\ phase # "removed" /\ heard[l] < tree[l]
  /\ heard' = [heard EXCEPT ![l] = @ + 1]
  /\ summary' = Staled
  /\ UNCHANGED <<tree, lease, ws, head, moved, chain, agent, runs, attempt, asked, refs, phase,
                 left>>
-----------------------------------------------------------------------------
(* setCandidateHead: the heads of one candidate are committed in turn *)

(* What a caller's setCandidateHead(l, s) does at once.                    *)
Handed(l, s, by) ==
  IF Closing THEN commits ELSE [commits EXCEPT ![l] = Append(@, [state |-> s, by |-> by])]
RefsHanded(kept, s, w) == IF Closing THEN Released(kept, {s}, Named(w, head, summary)) ELSE kept

Committing(l, by) == \E i \in DOMAIN commits[l] : commits[l][i].by = by

CommitStarts(l) ==
  /\ commits[l] # <<>> /\ ~saving[l]
  /\ LET s == Head(commits[l]).state IN
       \/ /\ Closing \/ head[l] = s
          /\ refs' = Released(refs, {s}, Named(ws, head, summary))
          /\ commits' = [commits EXCEPT ![l] = Tail(@)] /\ UNCHANGED saving
       \/ /\ ~Closing /\ head[l] # s
          /\ saving' = [saving EXCEPT ![l] = TRUE] /\ UNCHANGED <<refs, commits>>
  /\ UNCHANGED <<world, lease, ws, head, moved, agent, runs, attempt, asked, summary, phase, left>>

(* onCandidateState has found the workspace: it takes the state, then the  *)
(* candidate does, unless the comparison is being torn down by now.        *)
Headed(l, s) == IF Closing THEN head ELSE [head EXCEPT ![l] = s]
RefsHeadedUnasked(l, s) ==   \* mutant: the head before goes without asking who names it
  RefsAfter(refs, l, s) \ {IF Closing THEN s ELSE head[l]}
RefsHeaded(l, s) ==
  Released(RefsAfter(refs, l, s), {IF Closing THEN s ELSE head[l]},
           Named(WorkspaceNow(l, s), Headed(l, s), summary))

(* onCandidateState reads the disk, so whoever awaited the head before has  *)
(* gone on by the time the next one gets there.                            *)
Awaiting(l) ==
  \/ attempt.stage = "heading" /\ attempt.label = l /\ ~Committing(l, "evidence")
  \/ agent[l].stage = "heading" /\ ~Committing(l, "agent")

CommitEnds(l) ==
  /\ saving[l] /\ ~Awaiting(l)
  /\ LET s == Head(commits[l]).state IN
       /\ ws' = WorkspaceNow(l, s) /\ head' = Headed(l, s) /\ refs' = RefsHeaded(l, s)
  /\ moved' = [moved EXCEPT ![l] = @ \/ ~Closing]
  /\ commits' = [commits EXCEPT ![l] = Tail(@)] /\ saving' = [saving EXCEPT ![l] = FALSE]
  /\ UNCHANGED <<world, lease, agent, runs, attempt, asked, summary, phase, left>>

Commit(l) == CommitStarts(l) \/ CommitEnds(l)

(* details: captures the candidate as it is, without the write lease, and  *)
(* makes the capture its head.                                             *)
Details(l) ==
  /\ phase # "removed" /\ left.details > 0
  /\ \E s \in Fresh :
       /\ refs' = RefsHanded(refs \union {s}, s, ws)
       /\ commits' = Handed(l, s, "details")
  /\ left' = [left EXCEPT !.details = @ - 1]
  /\ UNCHANGED <<world, lease, ws, head, moved, saving, agent, runs, attempt, asked, summary,
                 phase>>
-----------------------------------------------------------------------------
(* The agent of a candidate: preflight, run, checkpoint *)

At(l, stage) == agent[l].stage = stage
Becomes(l, stage, s) == agent' = [agent EXCEPT ![l] = [stage |-> stage, state |-> s]]
Lets(l) == lease' = [lease EXCEPT ![l] = Returned(@, "agent")]

(* A preflight, and later the checkpoint, ask for the lease; no token and  *)
(* no checkpoint if the wait for it runs out.                              *)
Prompt(l) ==
  /\ phase # "removed" /\ At(l, "idle") /\ left.prompts[l] > 0
  /\ left' = [left EXCEPT !.prompts[l] = @ - 1]
  /\ lease' = [lease EXCEPT ![l] = Requested(@, "agent")] /\ Becomes(l, "asking", Base)
  /\ UNCHANGED <<world, ws, head, moved, chain, runs, attempt, asked, summary, refs, phase>>

Checkpoint(l) ==
  /\ At(l, "settled")
  /\ lease' = [lease EXCEPT ![l] = Requested(@, "agent")] /\ Becomes(l, "closing", Base)
  /\ UNCHANGED <<world, ws, head, moved, chain, runs, attempt, asked, summary, refs, phase, left>>

LeaseWaitEnds(l) ==
  /\ At(l, "asking") \/ At(l, "closing")
  /\ lease[l].holder # "agent"
  /\ lease' = [lease EXCEPT ![l] = Withdrawn(@, "agent")] /\ Becomes(l, "idle", Base)
  /\ UNCHANGED <<world, ws, head, moved, chain, runs, attempt, asked, summary, refs, phase, left>>

(* The preflight's capture becomes the lineage of the workspace; the token *)
(* that names it exists only after the trust hashes.                       *)
Capture(l) ==
  /\ At(l, "asking") /\ lease[l].holder = "agent"
  /\ \E s \in Fresh :
       /\ refs' = RefsAfter(refs \union {s}, l, s) /\ ws' = WorkspaceNow(l, s)
       /\ Becomes(l, "hashing", s)
  /\ UNCHANGED <<world, lease, head, moved, chain, runs, attempt, asked, summary, phase, left>>

TokenOut(l) ==
  /\ At(l, "hashing") /\ Becomes(l, "pending", agent[l].state)
  /\ UNCHANGED <<world, lease, ws, head, moved, chain, runs, attempt, asked, summary, refs,
                 phase, left>>

(* failHeldPreflight, or expirePreflight for a token nobody used.          *)
PreflightEnds(l) ==
  /\ At(l, "hashing") \/ At(l, "pending")
  /\ Lets(l) /\ Becomes(l, "idle", Base)
  /\ UNCHANGED <<world, ws, head, moved, chain, runs, attempt, asked, summary, refs, phase, left>>

(* agent_start: the run record takes the state over from the token, the    *)
(* lease is free while the run goes on, and the evidence is stale.         *)
RunStarts(l) ==
  /\ At(l, "pending")
  /\ runs' = [runs EXCEPT ![l] = @ \union {agent[l].state}]
  /\ Lets(l) /\ Becomes(l, "running", Base)
  /\ summary' = Staled
  /\ UNCHANGED <<world, ws, head, moved, chain, attempt, asked, refs, phase, left>>

RunSettles(l) ==
  /\ At(l, "running") /\ Becomes(l, "settled", Base)
  /\ UNCHANGED <<world, lease, ws, head, moved, chain, runs, attempt, asked, summary, refs,
                 phase, left>>

(* captureStable: only what the watcher has caught up with.                *)
CheckpointCapture(l) ==
  /\ At(l, "closing") /\ lease[l].holder = "agent" /\ heard[l] = tree[l]
  /\ \E s \in Fresh :
       /\ ws' = WorkspaceNow(l, s) /\ commits' = Handed(l, s, "agent")
       /\ refs' = RefsHanded(RefsAfter(refs \union {s}, l, s), s, WorkspaceNow(l, s))
       /\ Becomes(l, "heading", s)
  /\ UNCHANGED <<world, lease, head, moved, saving, runs, attempt, asked, summary, phase, left>>

CheckpointFails(l) ==
  /\ At(l, "closing") /\ lease[l].holder = "agent"
  /\ Lets(l) /\ Becomes(l, "idle", Base)
  /\ UNCHANGED <<world, ws, head, moved, chain, runs, attempt, asked, summary, refs, phase, left>>

CheckpointEnds(l) ==
  /\ At(l, "heading") /\ ~Committing(l, "agent")
  /\ runs' = [runs EXCEPT ![l] = @ \union {agent[l].state}]
  /\ Lets(l) /\ Becomes(l, "idle", Base)
  /\ UNCHANGED <<world, ws, head, moved, chain, attempt, asked, summary, refs, phase, left>>

Agent(l) ==
  \/ Prompt(l) \/ Checkpoint(l) \/ LeaseWaitEnds(l) \/ Capture(l) \/ TokenOut(l)
  \/ PreflightEnds(l) \/ RunStarts(l) \/ RunSettles(l)
  \/ CheckpointCapture(l) \/ CheckpointFails(l) \/ CheckpointEnds(l)
-----------------------------------------------------------------------------
(* runEvidence: admission and leases *)

Stage(s) == attempt.stage = s
L == attempt.label

Measure ==
  /\ ~Closing /\ left.attempts > 0
  /\ asked' = asked + 1 /\ left' = [left EXCEPT !.attempts = @ - 1]
  /\ UNCHANGED <<world, lease, ws, head, moved, chain, agent, runs, attempt, summary, refs, phase>>

BeginUncancelled ==   \* mutant: a cancelled request is never taken off the queue
  /\ Stage("idle") /\ asked > 0 /\ ~Closing
  /\ asked' = asked - 1 /\ attempt' = [Idle EXCEPT !.stage = "admit"]
  /\ UNCHANGED <<world, lease, ws, head, moved, chain, agent, runs, summary, refs, phase, left>>

(* The queue runs one attempt at a time, and answers at once for one that  *)
(* was cancelled before it began.                                          *)
Begin ==
  /\ Stage("idle") /\ asked > 0
  /\ asked' = asked - 1
  /\ attempt' = IF Closing THEN Idle ELSE [Idle EXCEPT !.stage = "admit"]
  /\ UNCHANGED <<world, lease, ws, head, moved, chain, agent, runs, summary, refs, phase, left>>

(* An early return: releaseLeases for those taken so far.                  *)
ReturnEarly(q) ==
  /\ lease' = [l \in Labels |-> IF l \in attempt.held THEN Returned(q[l], "evidence") ELSE q[l]]
  /\ attempt' = Idle

Busy(l) == At(l, "running")

Admit ==
  /\ Stage("admit")
  /\ \/ /\ Closing \/ Busy(L)
        /\ ReturnEarly(lease) /\ UNCHANGED moved
     \/ /\ ~Closing /\ ~Busy(L)
        /\ moved' = [moved EXCEPT ![L] = FALSE]
        /\ attempt' = [attempt EXCEPT !.stage = "find"] /\ UNCHANGED lease
  /\ UNCHANGED <<world, ws, head, chain, agent, runs, asked, summary, refs, phase, left>>

(* workspaceAt answered with the generation; ask for the lease.            *)
Find ==
  /\ Stage("find")
  /\ \/ Closing /\ ReturnEarly(lease)
     \/ /\ ~Closing
        /\ lease' = [lease EXCEPT ![L] = Requested(@, "evidence")]
        /\ attempt' = [attempt EXCEPT !.stage = "wait", !.gen[L] = heard[L]]
  /\ UNCHANGED <<world, ws, head, moved, chain, agent, runs, asked, summary, refs, phase, left>>

Leased ==
  [attempt EXCEPT !.held = @ \union {L}, !.label = "B",
                  !.stage = IF L = "A" THEN "admit" ELSE "prepare"]

(* The lease came.  It is not among those to release yet, so an attempt    *)
(* that was cancelled meanwhile keeps it.                                  *)
Granted ==
  /\ Stage("wait") /\ lease[L].holder = "evidence"
  /\ \/ Closing /\ ReturnEarly(lease)
     \/ ~Closing /\ attempt' = Leased /\ UNCHANGED lease
  /\ UNCHANGED <<world, ws, head, moved, chain, agent, runs, asked, summary, refs, phase, left>>

WaitEnds ==
  /\ Stage("wait") /\ lease[L].holder # "evidence"
  /\ ReturnEarly([lease EXCEPT ![L] = Withdrawn(@, "evidence")])
  /\ UNCHANGED <<world, ws, head, moved, chain, agent, runs, asked, summary, refs, phase, left>>

PrepareKeeping ==   \* mutant: the way out between the leases and the try gives nothing back
  /\ Stage("prepare")
  /\ \/ attempt' = Idle
     \/ ~Closing /\ attempt' = [attempt EXCEPT !.stage = "pin", !.label = "A"]
  /\ UNCHANGED <<world, lease, ws, head, moved, chain, agent, runs, asked, summary, refs, phase,
                 left>>

(* The base's test command and the evidence home.                          *)
Prepare ==
  /\ Stage("prepare")
  /\ \/ ReturnEarly(lease)
     \/ /\ ~Closing
        /\ attempt' = [attempt EXCEPT !.stage = "pin", !.label = "A"] /\ UNCHANGED lease
  /\ UNCHANGED <<world, ws, head, moved, chain, agent, runs, asked, summary, refs, phase, left>>
-----------------------------------------------------------------------------
(* runEvidence: measuring *)

Goes(stage) == attempt' = [attempt EXCEPT !.stage = stage]

(* engine.measure pins the contents first and measures them.               *)
Pin ==
  /\ Stage("pin")
  /\ \E s \in Fresh :
       /\ refs' = refs \union {s}
       /\ attempt' = [attempt EXCEPT !.stage = "measured", !.pin[L] = s, !.tree[L] = tree[L]]
  /\ UNCHANGED <<world, lease, ws, head, moved, chain, agent, runs, asked, summary, phase, left>>

(* The recheck of measure() and the final capture find the pinned tree.    *)
Still == tree[L] = attempt.tree[L]

Recapture ==
  /\ Stage("measured")
  /\ Goes(IF ~Closing /\ Still THEN "recheck" ELSE "finally")
  /\ UNCHANGED <<world, lease, ws, head, moved, chain, agent, runs, asked, summary, refs, phase,
                 left>>

(* Neither the workspace nor the candidate has moved on since admission.   *)
UnmovedSameHead == ~moved[L]   \* mutant: the generation is not compared

Unmoved == heard[L] = attempt.gen[L] /\ ~moved[L]

Recheck ==
  /\ Stage("recheck")
  /\ \/ /\ Closing \/ ~Unmoved
        /\ Goes("finally") /\ UNCHANGED <<commits, refs>>
     \/ /\ ~Closing /\ Unmoved
        /\ commits' = Handed(L, attempt.pin[L], "evidence")
        /\ refs' = RefsHanded(refs, attempt.pin[L], ws)
        /\ attempt' = [attempt EXCEPT !.stage = "heading", !.kept = @ \union {L}]
  /\ UNCHANGED <<world, lease, ws, head, moved, saving, agent, runs, asked, summary, phase, left>>

(* setCandidateHead returned: note the version and go on to the next       *)
(* candidate, after the second one to the benchmarks and the last checks.  *)
Noted ==
  /\ Stage("heading") /\ ~Committing(L, "evidence")
  /\ \/ Closing /\ Goes("finally") /\ UNCHANGED moved
     \/ /\ ~Closing
        /\ moved' = [moved EXCEPT ![L] = FALSE]
        /\ attempt' = [attempt EXCEPT !.label = IF L = "A" THEN "B" ELSE "A",
                                      !.stage = IF L = "A" THEN "pin" ELSE "check"]
  /\ UNCHANGED <<world, lease, ws, head, chain, agent, runs, asked, summary, refs, phase, left>>

CheckFirst ==
  /\ Stage("check") /\ L = "A"
  /\ attempt' = [attempt EXCEPT !.label = "B", !.stage = IF Unmoved THEN "check" ELSE "finally"]
  /\ UNCHANGED <<world, lease, ws, head, moved, chain, agent, runs, asked, summary, refs, phase,
                 left>>

Measured == [exists |-> TRUE, stale |-> FALSE, state |-> attempt.pin, tree |-> attempt.tree]

(* The last check and, in one go, the new summary; then the states of the  *)
(* one before are released.                                                *)
Publish ==
  /\ Stage("check") /\ L = "B"
  /\ IF Unmoved /\ ~Closing
     THEN /\ summary' = Measured
          /\ refs' = Released(refs, Range(summary.state), Named(ws, head, Measured))
     ELSE UNCHANGED <<summary, refs>>
  /\ Goes("finally")
  /\ UNCHANGED <<world, lease, ws, head, moved, chain, agent, runs, asked, phase, left>>

(* Any capture, run or read may fail.                                      *)
Throws ==
  /\ attempt.stage \in {"pin", "measured", "recheck", "check"}
  /\ Goes("finally")
  /\ UNCHANGED <<world, lease, ws, head, moved, chain, agent, runs, asked, summary, refs, phase,
                 left>>

Dropped == {attempt.pin[l] : l \in Labels \ attempt.kept}

Finally ==
  /\ Stage("finally")
  /\ refs' = Released(refs, Dropped, Named(ws, head, summary))
  /\ ReturnEarly(lease)
  /\ UNCHANGED <<world, ws, head, moved, chain, agent, runs, asked, summary, phase, left>>

Attempt ==
  \/ Begin \/ Admit \/ Find \/ Granted \/ WaitEnds \/ Prepare \/ Pin \/ Recapture \/ Recheck
  \/ Noted \/ CheckFirst \/ Publish \/ Throws \/ Finally
-----------------------------------------------------------------------------
(* teardown *)

Discard ==
  /\ phase \in {"live", "retained"} /\ phase' = "closing"
  /\ UNCHANGED <<world, lease, ws, head, moved, chain, agent, runs, attempt, asked, summary,
                 refs, left>>

(* cancelEvidence and the wait for the head commits.                       *)
Drained == Stage("idle") /\ asked = 0 /\ \A l \in Labels : commits[l] = <<>>

(* The terminals are gone, and with them what they asked for.              *)
Terminated ==
  /\ agent' = [l \in Labels |-> Resting]
  /\ lease' = [l \in Labels |-> Returned(Withdrawn(lease[l], "agent"), "agent")]

(* The directory could not be removed, or must not be.                     *)
Retain ==
  /\ phase = "closing" /\ Drained /\ phase' = "retained" /\ Terminated
  /\ UNCHANGED <<world, ws, head, moved, chain, runs, attempt, asked, summary, refs, left>>

(* The comparison, its evidence and its workspaces are forgotten, and what *)
(* the last two named is released.                                         *)
Nowhere == [l \in Labels |-> Base]

Forget ==
  /\ phase = "closing" /\ Drained /\ phase' = "removed" /\ Terminated
  /\ refs' = Released(refs, Range(summary.state) \union Range(ws), UNION Range(runs))
  /\ summary' = NoSummary /\ ws' = Nowhere /\ head' = Nowhere
  /\ UNCHANGED <<world, moved, chain, runs, attempt, asked, left>>

Next ==
  \/ \E l \in Labels : Edit(l) \/ Heard(l) \/ Commit(l)
  \/ \E l \in Prompted : Agent(l)
  \/ \E l \in Inspected : Details(l)
  \/ Measure \/ Attempt \/ Discard \/ Retain \/ Forget

Spec == Init /\ [][Next]_vars
-----------------------------------------------------------------------------
SomeState == States \union {Base}
Leases == [holder : {"none", "agent", "evidence"}, waiters : {<<>>, <<"agent">>, <<"evidence">>}]
Commits == [state : States, by : {"details", "evidence", "agent"}]
Agents ==
  [stage : {"idle", "asking", "hashing", "pending", "running", "settled", "closing", "heading"},
   state : SomeState]
Attempts ==
  [stage : {"idle", "admit", "find", "wait", "prepare", "pin", "measured", "recheck", "heading",
            "check", "finally"},
   label : Labels, held : SUBSET Labels, kept : SUBSET Labels,
   gen : [Labels -> Nat], tree : [Labels -> Nat], pin : [Labels -> SomeState]]
Summaries ==
  [exists : BOOLEAN, stale : BOOLEAN, state : [Labels -> SomeState], tree : [Labels -> Nat]]

(* What the watcher reported never runs ahead of the disk, a workspace, a  *)
(* candidate and its evidence name only captured states, and of the two    *)
(* that want a workspace's lease at most one waits.                        *)
TypeOK ==
  /\ \A l \in Labels : tree[l] \in 0 .. MaxEdits[l] /\ heard[l] \in 0 .. tree[l]
  /\ {tree, heard} \subseteq [Labels -> Nat] /\ {ws, head} \subseteq [Labels -> SomeState]
  /\ lease \in [Labels -> Leases] /\ agent \in [Labels -> Agents]
  /\ commits \in [Labels -> Seq(Commits)]
  /\ moved \in [Labels -> BOOLEAN] /\ saving \in [Labels -> BOOLEAN]
  /\ runs \in [Labels -> SUBSET States] /\ refs \subseteq States
  /\ attempt \in Attempts /\ asked \in Nat /\ summary \in Summaries
  /\ phase \in {"live", "closing", "retained", "removed"}
  /\ left \in [attempts : Nat, details : Nat, prompts : [Labels -> Nat]]

(* What a dot of the timeline (a run's states), a candidate (its workspace *)
(* and head) or the evidence uses has its ref (WORLDLINES.md:676).  Details *)
(* opened next to a preflight, a checkpoint or an attempt break it.        *)
UsedIsPinned ==
  (Range(ws) \union Range(head) \union Range(summary.state) \union UNION Range(runs)) \ {Base}
    \subseteq refs

Unpinned == Named(ws, head, summary) \ (refs \union {Base})

(* The details of a candidate were made its lineage, or its head, between  *)
(* the capture of s and the step that is still to name s: the token or the *)
(* checkpoint of its agent, or the evidence that has checked A.            *)
Overtaken(s) ==
  \/ \E l \in Inspected : /\ agent[l].stage \in {"hashing", "heading"}
                          /\ agent[l].state = s /\ ws[l] # s
  \/ "A" \in Inspected /\ Stage("check") /\ attempt.pin["A"] = s /\ head["A"] # s

(* Nothing else unpins what is named: releaseStateIfUnused takes no ref of *)
(* a state that a workspace, a head, the evidence, a run or a preflight    *)
(* names, and whatever comes to be named has its ref, in every order of    *)
(* captures, head commits and releases, unless details overtook it.        *)
NamedKeepsItsRef == [][\A s \in Unpinned' : s \in Unpinned \/ Overtaken(s)]_vars

(* Evidence shown as current was measured on every change of the candidate *)
(* checked last that the watcher has reported: the last check, the write   *)
(* of the summary and markEvidenceStale leave no gap.                      *)
LastCheckedIsCurrent ==
  phase = "live" /\ summary.exists /\ ~summary.stale => heard["B"] <= summary.tree["B"]

(* The same of the candidate checked first, whose last check is not the    *)
(* last one made before the summary is written.                            *)
FirstCheckedIsCurrent ==
  phase = "live" /\ summary.exists /\ ~summary.stale => heard["A"] <= summary.tree["A"]

(* When no attempt runs, none of the write leases of a live comparison is  *)
(* held or awaited for evidence: every way out of runEvidence, from either *)
(* candidate's admission on, gives back what it took.                      *)
LeasesReturned ==
  phase = "live" /\ Stage("idle") =>
    \A l \in Labels : lease[l].holder # "evidence" /\ ~Contains(lease[l].waiters, "evidence")

(* A comparison that is gone leaves only the states that runs recorded.    *)
NothingLeaks == phase = "removed" /\ Drained => refs \subseteq UNION Range(runs)

(* Captures and commands are bounded by timers, lease waits by theirs, a   *)
(* head commit only reads the disk, and teardown comes to its end.         *)
Fairness ==
  /\ WF_vars(Attempt) /\ WF_vars(Retain \/ Forget)
  /\ \A l \in Labels : WF_vars(Commit(l)) /\ WF_vars(CheckpointEnds(l))

FairSpec == Spec /\ Fairness

(* Every evidence request is answered, one cancelled in the queue too, and *)
(* a teardown that waits for the attempts and the head commits gets past   *)
(* that wait.                                                              *)
Ends ==
  /\ asked > 0 ~> Stage("idle") /\ asked = 0
  /\ phase = "closing" ~> phase \in {"retained", "removed"}
=============================================================================
