# Verification of Termina's delivery, storage and locking core

Termina is an Electron application that runs coding agents in terminals. This
directory holds TLA+ models of the parts of it whose correctness depends on
order, failure and interleaving, the TLC runs that check them on small
instances, and proofs of the main theorems for every value of the parameters.

- [The system](#the-system)
- [The modules](#the-modules)
- [The runs](#the-runs)
- [Findings](#findings)
- [Supplementary configurations](#supplementary-configurations)
- [The proofs](#the-proofs)
- [What is left out](#what-is-left-out)
- [Plan](#plan)

## The system

Paths are relative to the repository root. The main process (`electron/`), the
renderer (`src/`), the agent processes (`agent-core/`, one per terminal, plus
child agents) and the Rust snapshot core (`core/`) are separate operating-system
processes. They talk over Electron IPC, PTYs, files under an events directory,
a JSON-lines pipe (snapshot core) and lock files under the session root.

| Component | State it keeps | Operations | What is hard | What makes it correct |
| --- | --- | --- | --- | --- |
| PTY output scheduler `electron/pty-egress.ts` | one queue of records per terminal generation, the in-flight records, the round-robin order, the frame timer, the ready document, hydrated viewers | register, enqueue, acknowledge, setRendererReady, hydrateTerminal, finish, cancel, dispose, pump | re-entrant transport, refused sends, reload and crash of the document, out-of-order acknowledgements, back-pressure | lossless and in order, bounded retention, exit after the last byte, no lost resume, no stuck output |
| Terminal runtime `electron/terminal-runtime.ts` | live instances, viewers, sidecar watches, pending mutations | spawn, adopt, exit, attach, detach, admitMutation, close | recycled terminal ids across awaits | one owner per id and generation |
| PTY delivery `electron/main.ts`, `src/main.ts`, `src/pty-sequence-ledger.ts` | document generations, per-terminal sequence ledger | begin reload, ready, data, exit, ack | duplicates after a reload, gaps, late IPC | every byte written once, in order |
| Sidecar event queue `electron/sidecar/queue.ts` | waiting and running events, byte counters, retry timer, drain waiters | enqueueTracked, settle, retry, drain, dispose | retries, coalescing, poison events | ordered, bounded, every event settled once, drain returns |
| Sidecar producer `agent-core/main/sidecar.ts` | pending events, the line being written, sequence number, attempts | logEvent, append, seal, rotate, quarantine | partial appends, retries, a consumer that retires names meanwhile | every event written once, in sequence, in a bounded spool |
| Sidecar tailer `electron/sidecar/tailer.ts` | per-terminal cursor on disk and in memory, sealed generations, the retained anchor, quarantine, back-pressure marker | watch, tail, persistCursor, reclaim, pause, stopWatching | awaits inside a pass, watch generations, rotation inside a pass, crash between delivery and cursor or between two links | no record skipped, bounded redelivery, sources in sequence |
| Session retention lock `shared/session-retention-lock.ts` | a lock directory with a record and a guard | acquire, recover, resume, validate, release | system-call interleavings of several processes, dead owners | one holder, a live holder is never robbed, dead owners are recovered |
| Session retention `electron/session-retention/` | claims, size ledger, deletion queue | claim, measure, reclaim | deletion racing a fork or a new claim | a claimed bundle is never deleted |
| Worldlines `electron/worldlines/` | runs, candidates, promotion journal | launch, compare, promote, recover | crash in the middle of a promotion | the workspace is the old or the new tree |
| Snapshot core `core/src/` | object store, transactions, retained roots | capture, apply, promote, gc | crash between rename and journal | a published root is complete |
| Subagents `electron/subagents.ts`, `agent-core/subagents/` | claims on files, budgets, approvals | spawn, claim, approve, settle | parent and children race | no two writers on one path |
| Agent loop `agent-core/main.ts` | the turn, pending tools, session file | prompt, steer, interrupt, tool results | interrupt racing a tool result | each call has one result |
| Authentication `agent-core/auth/` | token store, file lock | login, refresh | two processes refresh one token, a logout overtakes a refresh | nothing is revived, the last token is kept |
| Evidence `electron/evidence.ts`, `electron/worldlines/manager.ts` | one attempt at a time, the summary of each comparison, heads of the candidates, workspace leases, captured states and their refs | measure, details, preflight, checkpoint, head commit, stale mark, teardown | edits and head commits between the awaits of an attempt, leases of two workspaces, cancellation | evidence shown as current is current, what is named keeps its ref, every request ends |
| Editor, search, settings, renderer views | local UI state | - | - | mostly pure or pure I/O |

`PROJECT.json` lists every component with its status, and under `hazards` the
lines where these difficulties bite, with the properties that cover them.

## The modules

### PtyEgress

`PtyEgress.tla` is `PtyEgressScheduler`. The code runs on one event loop, so an
action is one synchronous call, with one exception: `transport.send` inside
`pump()` calls back into code that may acknowledge, cancel, register or change
the document. `pump()` is therefore split there: `PumpStart` enters it,
`PumpSend` picks a terminal and puts the head record in flight, the callbacks
are any actions of the module, and `PumpSent` or `PumpRefused` goes on with what
the code held across the call (`pump.rec`, the queue's generation).

| Variable | Code |
| --- | --- |
| `queues` | `terminals` map: each `TerminalQueue` with its records, in-flight set, counters, `paused`, `closing`, `exitQueued`, hydrated viewer |
| `order`, `cursor` | `order` and `cursor` of the round robin |
| `ready`, `timer` | the ready document and whether the frame timer is set |
| `pump` | the locals of a `pump()` that is inside `transport.send` |
| `produced`, `acked`, `delivered`, ... | history: bytes admitted, acknowledged, results of `finish()`, used by the properties only |

A byte is represented by its position in what the terminal produced; a record
carries the range it holds, so losing, repeating or reordering bytes shows.
Sequence numbers, coalescing, the byte and record limits and the pacing of the
frame are kept. `stats()` and the splitting of a chunk at code-point boundaries
are not.

`PtyEgressProofs.tla` holds the proofs.

### PtyDelivery

`PtyDelivery.tla` takes one terminal id from the main process to the terminal
view of a renderer document and back: `createTerminal` with its awaits, the
roster pushes, the boot list, `pty:ready`, `pty:data` and `pty:exit` through
`PtySequenceLedger`, the asynchronous writes of the view, `pty:ack`, the user's
close with its confirmation, native exit, and the documents that crash, reload
and are replaced. The scheduler of `PtyEgress` appears only by what it promises
there (`Detached`, `WithExit`, `Retire`, `Cancelled` are its replay, exit marker,
acknowledgement and removal).

| Variable | Code |
| --- | --- |
| `doc`, `ready` | `rendererGeneration`, `rendererReady` of the main process |
| `term`, `spawning`, `asking` | the instance with its egress queue, the document a creation under way captured, the close being confirmed |
| `view` | the running document: stage of `boot`, pane, ledger, writes under way, `closingPanes`, roster fence |
| `push`, `up`, `replies` | IPC: `webContents.send` and `ipcRenderer.send` are FIFO, the reply of an invoke may overtake and be overtaken |
| `hist` | history of one life of the id: records shown and retired, the life closed last |

That the two channels are FIFO is an assumption about Electron and the
properties lean on it. `PtyPane.tla` declares the three variables that what a pane
shows is about and states `OneRun` and `ClosedStaysClosed`; `PtyDelivery` extends
it, and the proofs, which are in `PtyEgressProofs.tla`, extend it too.

### PtyFairness

`PtyFairness.tla` asks one question that `PtyEgress` cannot, because there
output ends with its bounds: whom do the frames of `pump()` serve when every
terminal may have output again at any time? It keeps the size of the head record
of each terminal and the cursor, and splits a frame into its picks: `Send` is a
pass of the loop that sends, `PutBack` one that meets the byte budget, `EndFrame`
one that finds nobody left or the record budget used up. The scheduler is paced,
so a frame takes one record of a terminal; documents and acknowledgements are as
in the steady state (ready, hydrated, prompt).

### RetentionLock

`RetentionLock.tla` is `shared/session-retention-lock.ts`, one action per system
call, because the lock is shared by processes that only meet in the file system.
`at` is the identity of the directory at the lock path, `entries` what each
directory lists, `blank` the record files created but not yet written. `proc[p]`
is the call process `p` is in. The three calls of an inspection (`lstat`,
`readdir`, reading the record) are separate, so an inspection can combine three
states of the disk; reading the record and looking at its guard is one step.
Every operation goes through the path and meets the directory that is there at
that moment, as in the code. A process may die at any step (`Crash`) and a write
may fail (`WriteFails`). `Reuse` chooses whether a freed inode may come back.

Left out: `fsync`, the limits of 12 and 5 seconds on waiting (a caller may give
up or ask again at any time), swaps of the session root itself.

`RetentionLockProofs.tla` holds the proofs.

### SidecarQueueState, SidecarQueue

`SidecarQueueState.tla` gives the state of one `SidecarEventQueue` and the
effect of each method as functions of that state, in the code's order of
statements; `SidecarQueue.tla` is the specification of one queue over them. A
handler is asynchronous: it starts in `pump` and ends in `HandlerOk` or
`HandlerFails`, which may come in any order of the running ones and may come
after `dispose()`. `fate` records how each acknowledgement was settled.
`SidecarQueueProofs.tla` holds the proofs; its lemmas about the functions of
`SidecarQueueState` do not depend on the specification around them.

### SidecarDelivery

`SidecarDelivery.tla` composes the tailer (`electron/sidecar/tailer.ts`) with
the queues of `SidecarQueueState`, `terminal-runtime.ts` between them, the
producer that appends to the file, the cursor file, and the death of the
application. A pass of the tailer is a promise chain: each `await` in it is a
place where another watch, a stop or a crash may come first.

| Variable | Code |
| --- | --- |
| `log`, `disk` | the event file and the cursor file (at most one content) |
| `live`, `gens` | `terminalGenerations.get(id)` and `lifecycleGeneration` |
| `offset`, `stream`, `known`, `paused` | the maps `offsets`, `streams`, `bridgeIds`, `paused` for the terminal |
| `initOf`, `initRes` | whose promise `cursorInitializations` holds; how each initial write ended |
| `pass[g]` | where the tail pass of generation `g` is: idle, at the initial cursor, reading, at `delivery.completed`, at `persistCursor` |
| `writes` | the chain of cursor writes; the head is queued, running, or renamed and about to return |
| `qs`, `cur`, `settled` | every queue made for the id, the one in `sidecarQueues`, acknowledgements that resolved and were not yet seen |
| `admit` | the answer of the callback `shouldAdmitSidecar`, which `main.ts` computes from adoption and closing of the project |
| `done`, `ignored`, `last`, `base`, `retired` | history, used by the properties only |

A record is its position in the file with its bridge, its number in the bridge's
stream and its kind: `session_ready`, an ordinary event, a plan (which the queue
may replace), or one that holds no event. Once a promise has resolved, its
continuation runs before any timer, file operation or callback, so `Next` gives
`Continuation` priority over `Event`; an await of a promise that has not
resolved can be overtaken by anything. `persistCursor` is split at the rename
(`StartWrite`, `LandWrite`, `FinishWrite`), the point from which a crash finds
the new cursor.

Not modelled: rotation (`SidecarSpool` has it), truncation, quarantine of
malformed records, backpressure marker files, records that carry a producer pid.

`SidecarDeliveryProofs.tla` holds the proofs.

### SidecarSpool

`SidecarSpool.tla` puts the producer and the tailer of one terminal on the
directory they share. The producer appends records to the active file, renames a
full one to a sealed generation and starts the next (`Seal`, `ListSealed`,
`Wait`, `Rename`, `CreateActive`, `AppendSome`, `Commit`). The tailer lists the
directory once a pass, binds the retained anchor, reads the sources in sequence
order and retires a drained generation through three hard links to its inode
(`Chain`), so that a crash between two calls always leaves a name. Each system
call that changes a name is a step, and so is each listing on which the producer
decides; a call may fail, the producer may be killed and the application may
die with it.

| Variable | Code |
| --- | --- |
| `file`, `dir` | the content of each inode and the names it has: active, sealed, `.draining-`, `.final-`, `.retained-` |
| `marker` | the quarantine marker, published in the step that decides on it |
| `prod` | the closure of `createSidecarWriter`: pending events, frozen line, attempts, where a flush is |
| `disk` | the cursor file: active offset, segment and its offset, stream |
| `t` | the tailer's maps for the terminal: offset and held rest per source, anchor, draining name, last source, stream, known bridges, quarantine |
| `pass` | the locals of `readTail` and what it calls |
| `got` | history: events handled |

A record is two pieces, the second of which ends its line, so a partial append
and a read that ends inside a line are visible; sizes and offsets count pieces.
A name is an inode and a kind. The handler and the cursor write are one step
here, `SidecarDelivery` has what lies between them, for one growing file.

`MayTear` chooses whether a producer may be killed inside a line. Left out:
oversized and malformed records, records that carry a producer pid (and the check of
it in tailer.ts:2548), back-pressure markers (the producer's poll of a marker is
`Wait`), the proof at close, descriptors that outlive the append that
opened them. `SpoolDirectory.tla` has the directory and `SpoolBounded`, for
`SidecarSpool` and for the proof, which is in `SidecarQueueProofs.tla`.

### SnapshotStore, StoreTx

`StoreTx.tla` is the object store of the snapshot core: captures, merges,
`unref` with its prune, `store-create`, the transaction they share
(`store_tx.rs`: staged objects, journal, hard links, the ref as the point of
decision, rollback and recovery) and the directory syncs. Every operation holds
the store's `flock` from start to end and the kernel drops it when the process
dies, so one operation runs at a time and interleaving is between an operation,
the deaths of the process or of the application (`Stop`, `AppRestart`) and what
the next operation finds. The disk is its directory entries; `unsynced` holds
those a power loss could take back. What the host asks for is what it may ask
for: it builds on states it holds and releases states it holds. Two pairs are one
step or one flag: the removal of the journal and the sync after it
(store_tx.rs:168-169), and the two directories above a ref (refs.rs:77-87).

`SnapshotStore.tla` is what the store promises: a state is published in one step
with everything it reaches, unpinned in one step, and objects go when nothing
pinned reaches them. `StoreTx` implements it with `pinned <- refs` and
`objects <- Kept`, where `Kept` is what a recovery started now would leave:
`Atomic == Published!Spec` is a property of the run. The death of the process is
covered by that mapping; the loss of unsynced entries is covered by `WriteAhead`.
`StoreTxProofs.tla` proves the implementation and the invariants.

### Promotion

`Promotion.tla` is `promoteUnderTransaction` of the worldline manager with the
recovery of an opening project (`promotion-recovery/recovery.ts`) and the native
transitions of the snapshot core. It follows one candidate, whose tree is
`Target`; a file is one value. Promotions run one at a time, under the promotion
transaction and the durable lock, so the concurrent actor is the user, who may
edit any path at any time, also between the check and the rename of a native
transition (`Install`, and `RollbackCheck` against `RollbackSwap`).

| Variable | Code |
| --- | --- |
| `tree`, `author` | the project; history of which promotion put each value there |
| `disk` | `journal.json` of each promotion |
| `images`, `retired` | before-images in the journal directory, names a rollback has used up |
| `sess` | the promoted session bundle |
| `marked` | recovery markers that still match |
| `outcome`, `completed` | history: what was reported last of each promotion, the promotions ever reported complete |
| `pc`, `job`, `todo` | where the application is, the journal it works on (`job.plan` the paths it will install, `job.left` those it has not come to), the journals this opening has still to look at |

A journal write may succeed, be refused, fail after the bytes are there, or, at a
crash, leave a file that cannot be parsed (`Torn`): `journal.json` is rewritten
in place. Recovery passes a journal over in three cases, in which it only warns and the
project opens: the roots cannot be bound or listed (`OpenUnbound`,
recovery.ts:609-612), the journal cannot be read or parsed (`OpenUnreadable`), or what
a rollback checks before its first path throws (`OpenThrows`, recovery.ts:333-350 into
the catch at 689). The properties that say what recovery achieves are stated for the executions
in which no journal was torn or passed over (`Intact`); `DoneIsWhole` and
`FailedLeavesNothing` hold in the others too. A check that depends on what the
generation fences protect appears as a refusal that may happen at any time.

`PromotionProofs.tla` holds the proofs.

### Evidence

`Evidence.tla` is one live comparison between the moment its candidates are
ready and its teardown: `measureEvidence`, `runEvidence`, `setCandidateHead`,
`details` and `teardown` of the worldline manager, with the parts of
`electron/main.ts` they meet: the write lease of each candidate workspace, the
watcher, preflight, run start and checkpoint of a candidate's agent, and
`releaseStateIfUnused`. The contents of a candidate are a version that every edit
raises; a source state is a name, made with a ref by a capture and unreferenced
by the release that finds nobody naming it.

| Variable | Code |
| --- | --- |
| `tree`, `heard` | the candidate on disk; the version the watcher has reported, which is also `ws.generation` |
| `lease`, `ws`, `head` | `writerId` with `leaseWaiters`, `lastStateCommit`, `headStateId` |
| `moved` | whether `cand.version` differs from what the attempt noted |
| `commits`, `saving` | the promise chain `cand.headCommit`; whether its first link is inside `onCandidateState` |
| `agent`, `runs` | preflight, run or checkpoint of the candidate's agent; states its run records name |
| `attempt`, `asked` | the locals of `runEvidence`, requests waiting in `evidenceQueue` |
| `summary`, `refs` | `evidenceByComparison`, the refs of the snapshot store |

A handler is split at an `await` only where another actor can change what it
goes on to use. The re-verification in `measure()` and the final capture are one
look at the tree, and their own captures, which `finally` releases, are left out;
so are the measurements and benchmarks. `releaseStateIfUnused` asks and unrefs in
one step. `Awaiting` holds a second head commit back until the caller of the
first one has resumed, since `onCandidateState` reads the disk in between.
At teardown the requests of an agent end with its terminal.

Left out: other users of the lease (moment capture, verify, promotion, editor),
the high-water mark of the queue, `onFileTouched`, the deadline of a preflight's
capture, a failing `onCandidateState`, eviction of run records, and what raises
`cand.version` besides a head commit, which can only make a check fail. `Heard` raises
the generation for every reported edit. The watcher does not for the second of two
equal events within 5 s (main.ts:8475), which only marks the evidence stale, and it
drops events while the project is disposed or switching (line 8450); an edit and its
reversal inside the 5 s are thus more visible here than in the code. Every capture has
a name of its own (`Fresh`), where the code may give equal content an equal one.

`EvidenceProofs.tla` holds the proofs.

### AuthStore

`AuthStore.tla` is the credential file the agents of one user share
(`agent-core/auth`). Every agent is a process; `modifyProvider` runs
synchronously under the lock (`Read`, `Rename`, `Release`, with a death or a
failing write between any two), finds the lock busy rather than wait, and rewrites
the whole file. `refreshOauth` reads without the lock, leaves for an HTTP
exchange and stores under the lock only if the entry is still the one it read.
`cache` is the process's copy of the file as long as the file's mtime is the
copy's: a write in the same clock tick (`Rename`, bounded by `MaxTies`) leaves
caches standing that are out of date. A credential is the login it came from and
the number of its token; the server of a `Rotating` provider accepts a token
once. That servers do so, and that `auth/lock.ts` keeps its promise (one holder,
a dead owner's lock goes to the next contender), is assumed. A login replaces the entry
whole, while `persistOauth` may keep an `accountId` of the old one (oauth.ts:57-65), and
its HTTP exchange is part of the step that stores. `FailWrite` leaves the old file, or
after the rename the new one, which is what a failing `syncParentDir` does
(store.ts:377). When one of the checks right after the rename fails (lines 356-371),
the clean-up at line 379 truncates a descriptor that is by then `auth.json`, and the
entries of every provider are lost: such a file is outside the model with the other
files that cannot be read.

A request that was given up may still reach the server. Of two requests with one
token the order in which the server takes them is all that matters, so `GiveUp`
lets the server take the request in the same step or never.

`AuthStoreProofs.tla` holds the proofs.

## The runs

| Run | Bounds | Why they are enough |
| --- | --- | --- |
| `egress` | 2 terminals that produce 3 bytes and 1 byte, chunks of 2, 2 records or 3 bytes retained, frames of 2 bytes, a document that becomes ready and unready; with fairness | records are coalesced, refused and replayed; the byte budget ends a frame before the second terminal; every callback falls into a send of the other terminal |
| `pty_delivery` | 2 lives of the id, 2 documents, 2 data records and the exit marker, 1 unrelated roster push, a gap window of 2; with fairness | every message of one life or document can arrive in the next one; a reload falls before, between and after two records |
| `lock` | 3 processes, one of which acquires up to twice and the others once, 2 crashes, 1 I/O error, 2 inodes reused; with fairness | a dead owner, a recoverer that dies and another that goes on; a contender that still asks after two recoverers of one dead owner have both published and one of them has died; before any crash, contenders that inspect while a release is half done |
| `lock_two_recoverers` | 3 processes, 1 crash, no inode reuse | expected violation, see below |
| `sidecar_queue` | 4 events of sizes 1-3, 3 items, 3 bytes, 2 attempts; with fairness | full queue, coalescing that grows, retry behind a full queue |
| `sidecar_delivery` | 3 records of 2 bridges, no cursor file, 2 watches, and one of: a crash, a release, a failed write, a loss of admission; 2 attempts; with fairness | the initial cursor meets a stop, a new watch, a failed write and a crash; writes and deliveries of two generations overlap; an old bridge appends after the new one has opened; a poison event |
| `sidecar_spool` | 4 records of each of 2 producers, files of 2 records, 4 inodes, reads of a record and a half, a gap budget of 2, one failing call, no death inside a line; with fairness | three rotations; two generations go through the chain, a crash or a failure between any two links; the second producer opens its stream beside a sealed generation of the first |
| `store_tx` | 3 captures (one on another, two of the same content), a merge, 2 deaths, 1 failing call, batches of 1 | an operation dies, its recovery dies too, and the next operation finds objects of the first one; a prune between two captures that share an object |
| `promotion` | a path added, one changed and one deleted, 2 promotions, 1 edit, 2 stops, 1 failing call, 1 journal torn or passed over; with fairness | a promotion dies half way, its recovery dies, the user edits in between, and a second promotion follows |
| `promotion_kept` | the same without failing calls, torn journals or recoveries that pass over one | expected violation, see below |
| `evidence` | the agent of A prompted once, the details of either candidate opened once, 1 edit of B, 2 evidence requests, 8 states; with fairness | the edit, the details and the run fall between any two steps of an attempt, of a preflight and of each other, the second attempt replaces the summary of the first, teardown comes at any point |
| `auth_store` | 2 agents, a rotating and a plain provider, 2 logins, 3 tokens of each, 1 write in the clock tick of another | a refresh of one agent is overtaken by a logout, an account change, a refresh of the other agent, and a login to the other provider |

A run checks the properties that say something a test would hardly reach. The
type invariants and the weaker invariants that stay in the modules (`TypeOK` of
each, `CountersAgree`, `ExitAfterTail`, `InFlightHasViewer`, `DrainIsSound`,
`RetiredWasShown`, `NeverRefused`, `FailedLeavesNothing`, `Carried`, `Bounded`, `QuietMeansFree`,
`VisibleIsComplete`, and `LedgerInOrder`,
`RoundRobin`, `PumpArmed`, `OneEntryPerWrite`) hold when they are added to the
same configurations. Those of the proved specifications are proved, `CountersAgree`
excepted.

`CursorMovesForward` holds for a terminal that has a cursor file: an initial cursor of
a replaced watch may land late. `NoGhostState` holds always
(`SidecarDeliveryCursor.cfg`; both are proved). `HandledInOrder` is about the queue in place, since
a released queue runs beside its successor (see below).

Two of the bounds are limits of what holds. `RedeliveryWindow` is claimed for two
watches without a cursor file: a third one that starts while the initial write of
the second is in flight reads the older file, and a record may then be handed
over twice. `InSequence` is claimed for one restart
(`SidecarSpoolRestarts.cfg`).

Two properties name the states they cannot speak of. `StaleIsRecovered` is about a
lock that an inspection can read: a directory that holds two generations (`Tangled`),
and what a second death leaves half written, is read by nobody and stays. The run
reaches that with a contender left to ask (`MaxTokens` is 2 for the one process
outside `Once`), and the property fails there without either exception.
`NamedKeepsItsRef` lets a state be named without its ref when details of the same
candidate have overtaken its capture (`Overtaken`); both halves of that are reached by
the run, and it fails without either.

Fairness. `egress` assumes that a scheduled frame runs and returns
(Electron timers), and that a viewer that stays ready and hydrated acknowledges
what it got. `pty_delivery` assumes that the event loops of both processes go on,
that a terminal view consumes what it was given, and that a document that died is
noticed and replaced. `lock` assumes that a live process goes on with the call it
is in and that its client asks again, which `acquireSessionRetentionLockAsync`
does every 25 ms. `sidecar_queue` assumes that a handler settles and that
the retry timer fires. `sidecar_delivery` assumes that the poll timer
tails the watched file, that file operations and handlers settle, that the
300 ms retry of a held terminal fires, and that a terminal whose events were not
admitted is admitted again. `sidecar_spool` assumes only that the poll timer and
the file operations of the tailer go on, nothing about the producer. `promotion` assumes that the application runs on and
that a closed project is opened again. `evidence` assumes that an attempt goes on
(its commands and lease waits have timers), that head commits and checkpoints under
way end, and that teardown gets past the termination of processes; nothing is
assumed about agents, edits or the watcher. Nothing assumes that a handler succeeds,
that a contender wins, or that a renderer becomes ready.

`CHECK_DEADLOCK FALSE` is set, except where a model cannot stop (`StoreTx`, `PtyFairness`), because each model stops when its bounds are used
up, and the components themselves may be idle for good.

## Findings

**Two recoverers of one dead owner can both acquire the lock**
(`lock_two_recoverers`). `removeEmptyLock` checks the identity and emptiness of
the lock directory twice and then calls `rmdirSync(lock)` by path. If two
processes finish the recovery of the same dead owner together, the faster one
removes the old directory and makes a new one; before it writes its record the
slower one, past its last identity check, removes that new empty directory and
makes its own. Each then publishes a record and returns from
`acquireSessionRetentionLock`. The header of the file says that stale recovery
fails closed across path swaps. `validateSessionRetentionLease` does catch it
(`OneProvenLease` holds), but owners that only acquire do not call it. With both
records in one directory every inspection answers null, so the lock then stays
unreadable even after both processes have gone. Lines 299-301 retain what cannot be
read on purpose; `StaleIsRecovered` names the case (`Tangled`), and the run `lock`
reaches it.

**A completed promotion can be taken back** (`promotion_kept`). When recovery
completes a promotion (`tryCompleteAppliedPromotion`), the journal stays in phase
`applied` and a marker says that it is settled. The marker stops matching as soon
as one promoted file is edited. A later opening then looks at the journal again,
cannot complete it, and `rollbackPromotionPaths` puts every other file of the
completed promotion back to its state before the promotion. recovery.ts:180 says
"leave the merged tree and report completion", and WORLDLINES.md:1068 asks for
all versions to be kept and a conflict to be shown.

The other disagreements between code and text are shown by supplementary
configurations.

## Supplementary configurations

These configurations are kept beside the runs and checked by hand; each
violates the one property it names, except `PtyFairness.cfg`,
`AuthStoreSettles.cfg` and `SidecarDeliveryCursor.cfg`, which pass.

**Opening the details of a candidate during its own preflight unpins the state of
the run** (`EvidencePins.cfg`, `UsedIsPinned`). `details` captures a candidate
without its write lease and makes the capture its head; `onCandidateState` then
calls `setWorkspaceState`, which releases the state before. When that is the one
a preflight has just captured (main.ts:6234), nobody names it yet: the pending
preflight is entered only after the trust hashes (line 6281). The run then starts
from a state whose ref is gone. The same happens to a checkpoint between
`setWorkspaceState` and its own head commit, and to evidence, when a head commit of
details ends between the last check of A and the publication. `NamedKeepsItsRef` says
that nothing else does it. WORLDLINES.md:676 asks to "pin source
states used by a visible dot, candidate, comparison, evidence result, or promotion
journal".

**A terminal can be starved when the byte budget ends the frames**
(`PtyFairnessBytes.cfg`, `EveryTerminalServed`). `nextQueuedQueue` moves the cursor past the terminal it
picks (line 756); when the record then does not fit the byte budget, `pump()`
puts it back and ends the frame (line 683), and the next frame starts behind
that terminal. If the records of all the others fill a frame exactly, this
repeats for ever. With the defaults (256 KiB a frame, records coalesced up to
64 KiB) five terminals that keep full records waiting are enough: four are
served in every frame and the fifth in none. The class comment (line 283)
promises "one shared fair, bounded scheduler", and the unit test of fairness
uses records of one byte. What does hold is that every frame serves someone
and that every terminal is picked, sent or put back, again and again
(`PtyFairness.cfg`).

**A held terminal with a long spool is never retried** (`SidecarDeliveryHold.cfg`,
`HoldEnds`).
The retry timer of `pause` asks `checkBacklog` first (tailer.ts:2157). When more
than `maxBacklogBytes` wait, it holds the terminal again; nothing is read from a
held terminal, so the spool cannot shrink and the hold lasts for the life of the
watch, also when the reason for the rejection is gone. The option's comment
(line 358) says that the same record is retried later.

**A released queue goes on beside its successor** (`SidecarDeliveryOrphan.cfg`,
`OneHandler`).
`release()` in `terminal-runtime.ts` (line 683) deletes the terminal's queue
from the map without draining or disposing it. A handler that is running or
backing off then continues under the same terminal id while the next watch of
that id makes a second queue, so two events of one terminal are handled at a
time; queue.ts:121 says "one ordered, bounded event queue for one terminal".

**A healthy terminal is quarantined at its second rotation**
(`SidecarSpoolBacklog.cfg`, `BacklogIsReal`). `checkBacklog` (tailer.ts:2195)
counts every sealed and retained name from offset 0 except the source that was
selected last, so an anchor that was delivered completely counts whole.
`maxBacklogBytes` is the size at which the producer rotates
(`MAX_SIDECAR_BYTES`, 8 MiB), so one settled anchor uses it up, and anything
unread beside it stops the terminal. The unit test "survives two successive
rotations with one settled anchor" (tests/unit/electron/sidecar-wave1.test.ts:240)
expects otherwise. The run `sidecar_spool` gives `maxBacklogBytes` a value that
is never reached.

**A new stream is lost behind half a line** (`SidecarSpoolTorn.cfg`, `Drains`). A
producer killed inside a line leaves half of it; the next one appends its
`session_ready` to that half, the two are one line that is no record, and without
a `session_ready` every later record of the new stream is passed over, silently.
sidecar.ts:289 says that a torn line surfaces as a gap, which ends in quarantine.

**A second restart repeats a generation** (`SidecarSpoolRestarts.cfg`,
`InSequence`). When the active file was rotated behind the last cursor, `watch`
(tailer.ts:666) writes a first cursor without the stream. If the application
stops again before the next event, the next start has neither the stream nor the
offset, and hands over the records of the generation again. Read under the older
stream, the generation may then count as read although the records of a later
stream in it were passed over: `LastLinkOutlives` fails in the same configuration.

Two more consequences of the code, which bound the spool rather than break it:
the wait of the producer quarantines on the tailer's own `.draining-` and
`.final-` links (`Wait`), and a chain name that survives as the anchor after a
crash blocks every later rotation (`Unsettled`).

**A terminal may be missing from, or stay in, a document's tabs**
(`PtyDeliveryRoster.cfg`, `RosterAgrees`). A roster push is dropped while the
document is not ready (electron/main.ts:8885), and `createTerminal` and the exit
of a terminal push it only to the document that was captured when the creation
began. Nothing is sent again after `pty:ready`. A document that listed the
terminals before one was adopted shows no tab for it until an unrelated event
pushes the roster, and the tab of a terminal that exited may stay after a reload.
USER-GUIDE.md:813 says that terminal views rebuild from main-owned state.

**A state returned to the host is not yet durable** (`StoreTxDurable.cfg`,
`AckedIsDurable`). `publish_transaction_ref` prepares the ref path before
`sync_exact_transaction_ref` prepares it again, so the second call creates
nothing, takes the ancestors for synced and syncs the leaf directory only: the
entries of `refs/termina` and of its namespace are never made durable, although
refs.rs:91 says "and every ancestor directory durable". The same holds of a
fanout directory made by a process that died before it synced `objects/`
(store_tx.rs:524).

**A crash may leave a journal that recovery passes over** (`PromotionTorn.cfg`,
`JournalIsDurable`). `op_promotion_bound_write_file` truncates `journal.json` and
rewrites it in place (promotion_files/write.rs:221). A death in between leaves a
file that cannot be parsed; `recoverPromotionJournals` skips it, and the files
already installed stay. WORLDLINES.md:38 and PINNED-CONTEXT.md:50 speak of a
durable journal.

**A change may miss the evidence** (`EvidenceFirst.cfg`,
`FirstCheckedIsCurrent`). The last checks of `runEvidence` look at A, then at B,
with an await between. A change of A that is reported in between marks only the
summary that is about to be replaced, and the new one is shown as current.
docs/reference/WORLDLINES.md:35 says that a later source change makes evidence
stale.

**A comparison leaves a ref behind** (`EvidenceLeak.cfg`, `NothingLeaks`). At
teardown the state of each workspace and those of the evidence are released. A
head that is not the state of its workspace (a preflight has moved that on) is
released by nobody. WORLDLINES.md:728 says "release all pins".

**A refresh ends** (`AuthStoreSettles.cfg`, `Settles`, which holds): under the
assumption that a process goes on with a change it is in and that the timer of a
request fires, and with no answer promised, every refresh settles.

## The proofs

The safety properties of ten specifications are proved with TLAPS, each as a
theorem of the specification for every value its constants may have. Each proof
module has the same parts: the inductive invariant as a conjunction of named
parts, lemmas about the operators, one lemma per action, `Invariance`, and the
theorems that follow from it. None of the properties is inductive by itself; what
follows says which part of the invariant answers to which difficulty.

**PtyEgress**, for every value of the constants allowed by
the assumption `WaterMarks` of `PtyEgress.tla`, without the bounds mattering:
`TypeOK`, `RoundRobin`, `LedgerInOrder`, `Lossless`, `ExitAfterTail`,
`DeliveredTail`, `HighWater`, `NoLostResume`, `InFlightHasViewer`,
`PumpArmed` and the action property `SentIsImmutable`.

The first part of `PtyEgressProofs.tla` states an invariant of one queue
(`QueueOK`: records sorted by sequence number below the next one, what is in flight
sealed, every admitted offset acknowledged or in exactly one record, only the last
admitted record still open to growth, flags consistent, below high water) and shows
for each function of one queue (`Admitted`, `Sent`, `Acked`, `Requeued`, `Replayed`,
`WithExit`, ...) that it preserves it. The second part adds
what relates queues to the rest (`IInv`: the order lists exactly the live
terminals, the cursor is in range, the record a running pump is sending is the last
its terminal has in flight, a frame is armed when something is deliverable) and
shows `Init => IInv` and `IInv /\ [Next]_vars => IInv'`, one lemma per action.
That `nextQueuedQueue` returns the nearest terminal with output is the least
element of a set of distances, obtained from `WFMin`. Each invariant follows from
`IInv`. For `SentIsImmutable` the third part relates a queue to what a method leaves
of it (`Kept`: a record held afterwards was held before, has a new number, or
replaces the one of its number while that was not yet sent). `Kept` is transitive,
which the methods that replay, resume and finish in one step need, and with
sequence numbers that tell records apart it says that nothing sent has changed.

**PtyDelivery**, for any number of lives, documents, records and roster pushes, any
length of the channels and every window `MaxGap` of at least one, as the constructor
of the ledger demands: `ClosedStaysClosed` and `OneRun` (the last parts of
`PtyEgressProofs.tla`, about the instance `D`). No bound of the model is used.

- `ClosedStaysClosed` rests on `PaneInv`. `DocsOK` says that the main process talks
  to a document only after that document has listed the terminals, and that nothing
  claims to come from a document that has yet to run. `CloseTokens` and `BootTokens`
  say that of a close, and of a boot list, at most one request, question or answer is
  under way. `RosterOK` has the argument: the roster pushes in the channel name lives
  in their order, each followed by "none" before the next (`RosterOrder`), and behind
  a life the view shows, closes or has closed come only pushes of that life until it
  is over, and of later lives after that (`Behind`). A push computed before a close is
  therefore of the life closed, and finds the fence, or is followed by the "none" that
  takes the pane away.
- `OneRun` adds `RInv`. `LineOK`: the queue and what is in flight are in order, and
  every record of an open terminal is there or retired, so a replay has no hole.
  `Known`: whatever is sent, or is hydrated, is of a life that is not behind the view,
  so a record cannot reach a pane of a later life. `InTransit`: for a document whose
  ledger has not begun, what is in flight is in the channel, and in front of a record
  in the channel are all those not yet retired; the record with which the ledger
  begins is thus the first that was not retired. `RunOK`: what the pane shows and what
  waits to be written, behind the writes of earlier lives, is one run that ends where
  the ledger is (`LedgerOK`: its gaps lie beyond a hole). That `Ordered` yields the
  records after a hole was filled, each once, is the lemma `RunFacts`.

**AuthStore**, for every value of the constants allowed by `AuthStoreConstants`
(and the value `Nothing` being none of a flight, a file or a change): `TypeOK`,
`AccountIsTheUsers`, `LastTokenIsKept` and the action property
`OneEntryPerWrite`. The inductive invariant `IInv` (`AuthStoreProofs.tla`) adds to
the types four parts, and each answers to one way an agent acts on something
old:

- `FlightsOK`: a flight started from a credential, and its answer is a later
  token of the same login, the next one where tokens rotate.
- `WritesOK`: a change under way holds the lock; a refresh that has read the
  file found the entry it started from; what will be renamed is the disk with
  one entry replaced. So there is one writer, and nobody renames an old file.
- `KnownOK`: whatever a cache or a flight holds of a login that is in the file
  is no later than the file, and a login not yet in the file is known to nobody
  but the process that made it. `Rename` needs it: a login puts a credential in
  the file that no flight can mistake for its own.
- `TokensOK`: if the file does not hold the last token of its login, a flight
  that was made from the file's credential does.

There is one lemma per action; `GiveUpFacts` (what a lost answer may do) and
`OverIInv` (a change that is over, by its end or by a death) serve several.

**SidecarQueue**, for queues of any size, any number of handlers at a time and any
number of events (`SidecarQueueBounds` of the module): `TypeOK`, `Bounded`,
`NothingLost`, `InOrder` and `DrainIsSound`, and `CoalescesWithinBoundary` under
the premise `MaxInFlight = 1`, the default of queue.ts:19. With two handlers it is
false: a snapshot that fails goes back behind a boundary event that has been
started meanwhile, and a newer one may replace it there. `InOrder` carries the same
premise in its statement. `QueueOK` is about the record of one queue alone and is
kept by every operator of `SidecarQueueState`: the counters are the number and the
bytes of the items (`CountersOK`, where a total is given by a function of its
prefixes rather than a recursive sum), each event is there once (`OneEach`), in the
order of admission (`InTurn`), within the marks (`Within`). `FateOK` says that the
events without an acknowledgement are exactly the items the queue holds, `LogOK`
that what ended comes before what is held, and `NewestOK` that the newest item is
the newest event accepted, which is what a replacement needs.

**SidecarSpool**, for any number of records, producers, files, failing calls, deaths
and restarts, torn lines included: `SpoolBounded` (the last part of
`SidecarQueueProofs.tla`, about the instance `S`). `OneActive` and `OneSealed` say
that a kind of name is there once and that a producer about to rename or to create
finds none, although it decided on a listing taken some steps before; `OneAnchored`
that all links belong to one generation. That needs `Bound`: a pass knows every link
there is from its listing until it has bound one, afterwards there is no other, and
at step k of a chain the generation has the names of that step (`ChainNames`) or,
after a failure, fewer. The three kinds of name are then on three inodes at most.

**SidecarDelivery**, for any number of records, bridges, watches, deaths, releases,
failed writes and holds: `NothingSkipped`, `TypeOK` and `NoGhostState` without a
premise; `RedeliveryWindow` if the terminal has a cursor file or is watched twice at
most, which is exactly where it holds (see [the runs](#the-runs));
`CursorMovesForward` with a cursor file; `HandledInOrder` (with the premise of
`RedeliveryWindow`) and `OwnerIsNotReplacedBack` for `MaxInFlight = 1`, as
`TerminalRuntime` makes its queues. The invariant has these parts:

- `Book`: what maps, passes, cursor writes and cursor file say of each other. Only
  the head of the chain of writes may be under way; a write of a pass is for the
  record the pass took; the stream of a cursor is the one of the record before it.
- `QueuesOK`: an id in a queue or in `settled` names a watch that has been and a
  record that is in the file. `CoverOK`: what may become a cursor lies behind records
  that were dealt with. That is the cursors in the file and in the chain, but also
  the places of all passes, of old generations as well, and the settled ids, since an
  acknowledgement may come from a queue that is no longer in place.
- `WindowOK`: of the records handed over at most one is not behind the scan, and it
  is the one the stream accepts next (`Upcoming`). Cursor and scan of a live watch
  are level but for records no stream takes, or the cursor is one ahead because a
  write of the watch before it has landed late (`RelOK`); a watch that begins from
  what a stopped one left finds the same (`NextBeyond`, `FollowsOK`).
- `SingleOK`, `OrderOK`: one at a time the queue is a line, in file order, and no
  part of it is before the record handled last.
- `OwnOK`, `RetiredOK`, `OwnerOK`: the record of the live pass is the last of that
  line, so that the line is empty when the record is persisted; a bridge that lost
  the stream has been seen before every cursor and every scan, so that its
  `session_ready`, the only record that could win the stream back, is behind them.

Every step of the system is first brought into one of sixteen forms that name what
it does to the bookkeeping and to the queues (`Steps`); the lemmas of each part go
through these.

**RetentionLock**, for any number of processes, deaths, I/O errors and directories,
whether or not inodes come back: `TypeOK`, `HolderOnRecord`, `OneProvenLease`,
`ExclusiveWhileAllLive`, and that the record and guard of a validated lease stay
published until its owner releases or dies. The only assumption is that no process
is called `NoOwner`. A process takes down only what belongs to a dead owner or to
itself (`WantOK`), so what a live holder has published stays (`RecordOK`). A
validation wants a listing of nothing but its own two files, and of two holders one
at most can have it (`CleanOK`). `MutualExclusion` itself is false (see the first
finding); these are what remains true.

**StoreTx**, for any states, objects and fan-out, any batch size and any number of
deaths, failures and restarts, inside a recovery included: `Atomic`, which is the
implementation of `SnapshotStore`, `HeldIsPinned`, `WriteAhead`,
`VisibleIsComplete`, `NeverRefused` and `TypeOK`. Under the mapping every action is
a stutter except four: `WriteRef` is the abstract publication, `DeleteRef` and
`DropStaleRef` are the abstract unpinning and `PruneObject` is the abstract prune.
For the others it has to be shown that what recovery would leave does not change:
what a transaction has linked is its own and on no path to a visible state
(`TxOK`, `Undoable`), what waits for a sync belongs to a transaction whose journal
is durable (`SyncOK`, `Durable`), and no operation touches what the host uses
(`HostOK`). `AckedIsDurable` is false (see above) and no theorem claims it.

**Promotion**, for any paths, trees and edits, and any number of promotions,
deaths, failing calls, torn journals and journals passed over: `TypeOK`, `Covered`, `OpenIsSettled`,
`FailedLeavesNothing` and the action property `DoneIsWhole`. `FilesOK` is what the
disk says of the files a promotion has put in the project, `StepOK` what the step of
the application knows of the journal in memory, of the one on disk and of the files,
with the user editing at any moment, and `OrderOK` who looks after a promotion that
was not reported yet. `Covered` speaks of promotions that were *never* reported
complete. With "not reported complete at the moment" instead it is false after two
failing calls: when the write of phase `done` fails, the promotion is still
reported complete; removing its journal may then get no further than the
before-images, and a later opening ends in a conflict it cannot undo. (That is the
second finding from another side.)

**Evidence**, for any number of edits, requests, prompts and captures:
`TypeOK`, `LastCheckedIsCurrent`, `LeasesReturned` and the action property
`NamedKeepsItsRef`, whichever agents are prompted and whichever details are opened.
`UsedIsPinned`, without the exception for what details overtake, is false (see
[Supplementary configurations](#supplementary-configurations)).
`CInv` says who holds or awaits a lease, by the stage of agent and attempt
(`LeaseOK`, `AgentOK`, `HeldOK`), and that what an attempt was told of a candidate
is no newer than what it pinned (`SeenOK`). `PInv` says where a state is that is on
its way to being named: in a chain of head commits (`QueuedOK`, `DistinctOK`),
pinned by the attempt (`LoosePinOK`, `PinIsHead`), or captured by the agent
(`AgentStateOK`); the last two leave out the candidates whose details are opened, which
is where `Overtaken` comes in. Every action is then shown to keep the refs of what it
leaves named (`KeepsRefs`).

Model-checked only:

- liveness, which is out of the prover's reach: `FinishCompletes`, `Delivers`,
  `StaleIsRecovered`, `DrainReturns`, `Delivered`, `Drains`, `Resolves`, `Ends`,
  `Settles` and the properties of `PtyFairness`;
- `CountersAgree` of `PtyEgress`, a statement about sums over sequences;
- `OneHandler` of `SidecarDelivery`, which fails (see the findings);
- `InSequence` of `SidecarSpool`, which is claimed for one restart and is false with
  two (`SidecarSpoolRestarts.cfg`), so that no theorem for every value of the
  constants exists;
- `WrittenOnce` of `SidecarSpool`, which speaks of the lines that a fold over the
  pieces of a file finds: induction over data;
- `LastLinkOutlives` of `SidecarSpool`, which like `InSequence` is claimed for whole
  lines and one restart. It is false where half a line can be written (the rest of the
  file is never delivered, `SidecarSpoolTorn.cfg`), and with a second restart and a
  third producer (see the repeated generation among the findings), so that no theorem
  for every value of the constants exists;
- in the supplementary configurations, what holds there (`PtyFairness`).

## What is left out

- Effects on a queue object that has been removed while `pump()` still holds it:
  after a re-entrant `cancel`, `pump()` may call `resume` on the old source.
- The oversize guard of `enqueue`, which `splitPtyData` makes unreachable, and a
  second `finish()` of the same generation.
- A statement that the initial cursor is on disk before the first read
  (tailer.ts:661). The model deletes `cursorInitializations(id)` where `tail` does
  (line 873, before it looks whether it is still live), so a pass of a stopped
  watch may remove the entry of the next one, which then reads early. Nothing is
  skipped by that: `sidecar_delivery` checks `NothingSkipped` over it.
- The ledger of claims and deletions (`electron/session-retention/owner.ts`).
  The application is a single instance and the owner runs one operation after
  the other, so nothing interleaves there; a stop between two writes does matter
  and is planned.
- Unreadable credential files, which a login may discard after a question, and
  the inside of `auth/lock.ts`.
- The contents of the evidence a promotion retains, and its byte budget.
- Timing: frame pacing, back-off and time limits are arbitrary waits.
- Components marked `not_modelled` in `PROJECT.json`, with the reason.

## Plan

In order of importance:

1. Proofs: `InSequence` and `LastLinkOutlives` of `SidecarSpool` under a premise on
   restarts and torn lines.
2. `SidecarDelivery` over the segments of `SidecarSpool` instead of one growing
   file, with the steps between handler and cursor in both.
3. `TerminalRuntime`: adoption and the mutation drain of a closing window.
4. `SessionRetention`: claims, ledger and deletion across a stop.
5. `WorldlineRuns`, `SubagentClaims`, `CoreProcess`, `AgentTurn`.
