# A TLA+ verification of Spotter

Spotter supervises a coding agent. It observes the agent through the Codex App
Server and through Codex Hooks, journals what it sees, raises signals, pays a
reviewer model to judge them, and may stop a tool, steer the agent's live turn or
interrupt it. Its hard parts are not the judgements but the bookkeeping around them:
several processes share files, replies and notifications race, connections drop, and
the daemon, a Hook, a setup or a purge may be killed at any instant. That bookkeeping
is what is modelled here. Paths below are relative to the package, `src/spotter/`,
unless they start with `docs/` or `tests/`.

## 1. The system

### Components

| Component | State it keeps | Operations | Talks to |
| --- | --- | --- | --- |
| Review spend ledger (`budget.py`) | one JSON file: reviews per session, a day counter, open slots | `reserve`, `cancel`, `settle`, `charge`, each under an flock | Hook, review child, executor, manual `spotter review` |
| Hook (`hook.py`) | none of its own | journals each event, snapshots under the global lock, asks the daemon or the local Gate, spawns review children | journal, snapshots, ledger, daemon |
| Thread state (`thread_state.py`) | per thread: epoch, active turn, control readiness, final answer, evidence, hypotheses, conditions, files not validated | a reducer with one branch per kind of Trace event; hydration from the journal | fed by the recovery loop, read by everything that decides |
| App Server client (`app_server.py`) | pending requests, event queue, connection state | connect, request, a reader task | App Server; recovery loop |
| Recovery loop (`runtime_connection.py`) | one connection and its epoch; controls requested, accepted, settled; deadlines; a telemetry queue | reconnect, walk over the threads, consume, steer, interrupt, settle, expire | client, ingestor, thread state, scheduler |
| Trace ingestion (`ingestion.py`) | known event and operation ids, arrival sequence | record, append, index, recover | journals, identity |
| Identity (`identity.py`) | threads, turns, attachments | observe, attach, detach, start and finish turns | ingestor |
| Step journal (`snapshot.py`) | an append-only file, a lock, a sidecar cache | record, load, repair | every writer of Trace events |
| Effects (`effects.py`) | none: a projection of a journal | observe, merge, resolve | ingestor, command line |
| Review scheduler (`review_scheduler.py`) | pending, started and seen jobs | update, hydrate | fed by every Trace event |
| Review executor (`review_executor.py`) | queue, one worker task | submit, work, close | scheduler, ledger, reviewer, recovery loop |
| Signals (`signals.py`) | streaks, cool-downs, baselines per thread | update per event, hydrate | scheduler |
| Snapshots (`snapshot.py`, `snapshot_pins.py`, `retention.py`) | git refs, pins | snapshot, restore, pin, prune, purge | Hook, ingestor, command line |
| Repository registry (`repository_registry.py`) | an entry for each repository, by the inode of its Git directory: refs and worktrees | record, inspect, forget | snapshots, forks, purge |
| Forks and experiments (`replay.py`, `experiment.py`) | manifests, worktrees | fork, protect, score, restore, clean up | snapshots, registry |
| Log registry (`log_registry.py`) | an entry and a private hard link for each log | claim, inspect, clear | daemon, reviewers, purge |
| Daemon (`daemon.py`) | ownership lock, socket, configuration in use | start, serve, reload, close | all of the above |
| Configuration (`config.py`) | active and staged snapshots with generations | resolve, reload, activate at a quiet boundary | daemon, Hook |
| Integration (`integration.py`, `integration_inventory.py`, `codex_host.py`) | `hooks.json`, manifest | setup with rollback, teardown, purge | Codex, service managers |
| Gates (`gates.py`, `core.py`) | none (pure) | `check_command`, `check_paths` | Hook, daemon |
| Reviewer, digests, rendering | none (one model call) | | executor |
| Diagnostics, corpora, labels, metrics | reports and append-only files | | offline |

### How they interact

* **Shared files.** The ledger, each step journal, the snapshot refs, the registries and
  `hooks.json` are shared by processes that know nothing of each other. Most operations take an
  flock; what happens between two operations is free, and not everything takes the same lock:
  `purge --data`, `prune --forks`, forks and records without a snapshot do not take the global one.
* **One event loop.** Inside the daemon the reader task, the consumer, the tasks that
  await control RPCs, the review worker and the timers interleave at every `await`.
  Between two awaits a handler is atomic, and is one action here. Control telemetry and
  configuration reloads run in worker threads.
* **Events that feed back.** A Trace event is appended, reduced into `ThreadState`, shown
  to the signal engine and the scheduler, and what they derive is appended as Trace
  events themselves. The executor's results come back the same way.
* **The user.** Edits the configuration and `hooks.json`, upgrades the package, moves and copies
  repositories, rotates logs, deletes worktrees, and locks nothing.

### What is hard, and what makes each part correct

| Part | Hard behaviour | Correctness |
| --- | --- | --- |
| Ledger | holders die, outlive their slot, cancel twice, cross midnight | spend is never forgotten, ceilings hold, a live holder keeps its slot |
| Recovery loop, controls | acknowledgement against notification, drop in flight, crash with telemetry unwritten | one verdict per control, always bounded, never resent |
| Recovery loop, attachment | walk and notifications both subscribe; one thread refuses; a connection fails in the middle | it becomes ready, stays consumed, and misses no loaded thread |
| Review pipeline | a turn ends while the model thinks; a crash between an event and what it implies | a withdrawn job never speaks, one payment per job, the queue is served |
| Ingestion and journal | duplicates, late starts, a torn append, a stale sidecar, a second thread | one record per event, in order, none lost, indexes that a restart rebuilds |
| Signals and evidence | orders only a long session produces, a replay | a streak is announced and ends once; nothing verified rests on what was invalidated |
| Snapshots | a sweep against a Hook about to reference a ref; a crash between ref, ownership and record | what a journal or a pin names exists |
| Forks and purge | moves and copies, arms killed or locked, forks that overtake a purge | only exact, unreferenced refs are deleted; no worktree is forgotten |
| Logs | rotation during a claim, an inode used again | no file of the user's is emptied |
| Configuration | reload against boundary against reconnect; layers valid in part | a turn keeps its policy, the last edit wins, a repository only tightens |
| Daemon | two start at once, a manager times out, a crash leaves a socket | the socket leads to the one that serves |
| Gate exchange | a daemon late, dead, of another build or configuration | the policy of the Hook decides, silence means observed |
| Integration | failure or crash between two steps, two terminals | user entries kept, failed setups undone, success is about a daemon that runs what is recorded |

`PROJECT.json` lists the hazards one by one, each at its line with the properties that
watch it.

## 2. The modules

| Module | Models | Checked by |
| --- | --- | --- |
| `ReviewBudget` | the ledger and every process that spends against it | `MCReviewBudget`, `ReviewProofs` |
| `ThreadLifecycle` | the control-relevant part of `ThreadState` as operators | through those that use it |
| `RuntimeControl` | controls, deadlines, telemetry, crashes, and the App Server they go to | `MCRuntimeControl`, `RuntimeControlProofs` |
| `ControlPromise` | abstract: the durable record of a control only advances | refined by `RuntimeControl` |
| `AppServerSession` | client, walk and consumer on one socket | `MCAppServerSession`, `AppServerSessionProofs` |
| `ReviewPipeline` | scheduler, executor, delivery | `MCReviewPipeline`, `ReviewProofs` |
| `StepJournal`, `TraceIngestion`, `RuntimeIdentity`, `EffectLedger` | the journal, what is written to it, and what is read from it | `MCTraceIngestion`, `TraceIngestionProofs` |
| `ThreadEvidence`, `SignalEngine`, `SignalRecovery` | the rest of the reducer, the signals, and their replay | `MCSignals`, `DaemonProofs` |
| `SnapshotStore` | snapshot refs step by step, pins, prune and purge | `MCSnapshotStore`, `HookProofs` |
| `ForkOwnership` | forks, arms, the repository registry, purge | `MCOwnership`, `OwnershipProofs` |
| `LogOwnership` | the log registry | `MCOwnership`, `OwnershipProofs` |
| `RuntimeConfig` | reloads and activation in a running daemon | `MCDaemon`, `DaemonProofs` |
| `ConfigLayers` | which layer decides a setting | `MCDaemon`, `DaemonProofs` |
| `DaemonLifecycle` | ownership of the socket, service managers | `MCDaemon`, `DaemonProofs` |
| `GateExchange`, `GateRules` | a Hook asks the daemon; the rules themselves | `MCGateExchange`, `HookProofs` |
| `IntegrationSetup` | setup, teardown and purge of the integration | `MCIntegrationSetup`, `IntegrationSetupProofs` |

The modules compose: `ThreadLifecycle` is shared by `RuntimeControl`, `ReviewPipeline`,
`RuntimeConfig` and `GateExchange`; `TraceIngestion` writes through `StepJournal` and keeps its
identities in `RuntimeIdentity`; `SignalRecovery` runs the `SignalEngine` on the states of
`ThreadEvidence`; `GateExchange` takes its verdicts from `GateRules`. Each of `MCDaemon`,
`MCOwnership`, `MCSignals` and `MCTraceIngestion` has a variable (`focus`, `writers`) that says what a
behaviour is about, so that independent parts are not multiplied with one another.

The comment at the head of each module says what is modelled and what is left out, the comments at
the variables which attribute or file each one is. A definition that begins a comment with
"Mutant" is a plausible mistake in the one below or above it, used only to see that a property
notices.

### ReviewBudget

The ledger file is `reviews` (`sessions[s].reviews`), `day` and `open`
(`open_slots`); a slot has the name of the process that holds it, and `owner` and
`takenAt` are its `session` and `at`. `Reserve`, `Cancel`, `Settle` and `Charge` are
the four functions of `budget.py`, each one step because each runs under one flock.
`Credited`, `ReclaimedToday`, `SessionSpend` and `DaySpend` are `_reclaim` and the
arithmetic in `reserve` around it, with its peculiarities: a slot is credited to
its session whatever the day, but counts as reclaimed only while the ledger's day
is today, and a refusal writes nothing back.

The processes are the Hook's child (`_maybe_spawn_shadow_review`, then
`_review_main`), the executor's worker and a manual `spotter review`. `GiveUp` stands
for every path that cancels before the model call, `RefuseUnreadable` for the check
of the ledger before it, `CallReviewer` and `CallFails` for the model call and the child's error path, `Finish` and `FallBack`
for the two halves of `settle(...) or charge(...)`, between which another process
may run. `Die` kills a process, `Tick` lets time pass (a slot expires, midnight
comes), `Flip` makes the file unreadable or readable again.

### ThreadLifecycle, RuntimeControl, ControlPromise

`ThreadLifecycle` has one operator for each kind of Trace event that changes the
fields a control decision reads. `Rebased` is the head of
`ThreadStateReducer.reduce`: any epoch other than the current one, older or
newer, drops the active turn.

`RuntimeControl` has the App Server (`turns`, `input`), the connection (`inbox`,
`call`, `snapshot`), the memory of the daemon, named after the attributes of
`AppServerRecoveryLoop`, and what is durable. The reply to a control and the notifications
about its turn are handled by different tasks, so nothing orders `AcceptSteer` and
`AcceptInterrupt` against `ConsumeCompleted`. The reply to `thread/resume` is
taken (`Resume`) some time before it is reconciled (`Reconcile`). `Dispatch` takes any
turn and epoch that once were observed: its callers hold a target while they wait for
a model. A drop may lose replies that had already arrived or not (`Cut`).

Telemetry is a bounded queue that one worker drains. `Enqueue` drops what does not
fit, `Write` may fail, `Crash` loses what is queued, `Close` drains it. `Restart`
hydrates every set from the journal, as `__init__` does, and rearms the deadlines of
the interrupts that are accepted and not settled.

`Stage` maps the journal to the abstract `stage` of `ControlPromise`: absent, started,
accepted or a verdict. The abstract specification only lets a record advance.

### AppServerSession

The socket carries replies and notifications in order; `call[c]` is the one request the recovery
loop or the consumer waits for. `Listed`, `Resume`, `Resumed`, `Degraded` and `ReadInstead` are the steps of
`_reconcile` over the pages of `thread/list`, between any two of which the consumer may run
(`Consume`, `ConsumerAnswered`): it records notifications and subscribes to threads it did not
know, on the same socket. The server (external) lists threads from the most recently updated one,
so an update moves a thread across pages. `ConnectionFailed` is a timeout, a close or a failed record; one
is enough to end the whole connection and everything pending on it.

### ReviewPipeline

The daemon's Trace is an atomic event followed by the transitions the scheduler
derived from it (`owed`), which `Append` writes. A crash between the two is
repaired by `Restart`, because hydration derives the transitions again (`History`).
`Stranded` is the freshness rule of `update`, `Discards` the distinction between a job
that was never started (`discarded`) and one already paid for (`stale`). The
executor's worker runs one job at a time: `Skip`, `Refuse` or `Infer`, then `Decide`,
`Fail` or `LoseCharge`, then `Acknowledge` or `Undeliver`. Every record it makes carries the epoch of
its job into the `ThreadState` (`Close`, `Decide`). `owed = {}` in the guards of the
other actions says that the event loop does not run anything
between an event and its transitions: there is no `await` between them.

### StepJournal, TraceIngestion, RuntimeIdentity, EffectLedger

The file is a sequence of pieces: a whole record and its newline, a torn fragment, or all of a
record without its newline, which a crash may leave as well. `Open`, `Piece`, `Cache` and `Leave` are
`record()` under the lock of the journal; what it reads before it appends comes from the sidecar if that
describes the file it finds (`Fresh`), and else from the file, whose torn tail is repaired.

`TraceIngestion` handles one notification at a time, an append after another (`todo`): it contradicts
the journal, is dropped as a duplicate, refused or accepted, in the order `record()` decides. A second
thread appends control telemetry, which the event loop indexes afterwards. `Crash` may come
at any step. `Remember` adds one record to the indexes, as the live path does; `Boot` takes `Recovered`, which says of all
records of the journal at once what `_recover` leaves after the last of them. That the two agree is
`IndexesFollowJournal`. A control is aimed at a turn that the registry knows (`Aimed`): its target was the active turn of
the thread.

`EffectLedger` is the projection of a journal to effects (`external_effects`): a pass that merges
observations of one operation, then a pass that applies resolutions. What it reads of a journal, `effectRecords`, grows by
what is observed (`Report`) and by what `spotter effects resolve` is let append (`ResolveEffect`), which looks its targets up
in the ledger of the journal it loaded. `LedgerFaithful` compares the ledger with a reference that knows the journal as a set
of observations and the last resolution.

### ThreadEvidence, SignalEngine, SignalRecovery

`ReduceEvidence` is one branch per kind of event. `Update` first ends what the event's turn, connection or
kind ends (`Over`), then each of nine families judges what `Remaining` left it: it extends, resolves or makes stale its streaks
(`Judged`, one operator per family). An event is journaled, reduced and evaluated, then the candidates it gives
are journaled one by one (`Derive`). What an event may say is the constant `Alphabet`; its id, turn and
connection come from the daemon. `LateReview` reports from an earlier turn through the same path,
`Telemetry` is journaled by another thread, whenever its control ends, and reaches neither: it carries the turn and the connection its control was for
(`targets`), which the agent and the daemon may have left behind by then. `Crash` and `Boot` replace the live engine by what `HydratedJournal` makes of the journal, record by record.

### SnapshotStore

One Git repository: `commits` and `refs` are what Git knows, `owned` the registry, `pins` the
pin store, `journal` the records that name a snapshot (the others only keep a journal
`fresh`), `last` the sidecar's `last_snapshot`. `expired` is history: what an age policy took
and no record has named since.

A writer (`run_hook`, `AppServerTraceIngestor.record`) either appends at once
(`AppendPlain`) or takes the global lock (`Acquire`), then pins the previous snapshot
again or a new one (`Reuse`, `Mint`), has the registry own it or undoes the ref (`Own`,
`Rollback`), and records (`Record`). These are separate steps because each is its own file or
Git operation, and `Kill` may come between any two. The checkpoint of a tool result is
read in `Begin`, before any lock, as in the code.

The sweeper is `spotter prune` or `spotter purge`, always with `--apply`: it takes the
lock and loads the pins (`PruneStart`, `PurgeStart`), deletes stale journals one by one
(`DeleteJournal`, `SpareJournal`), reads the others (`Scan`) and deletes refs in one
transaction (`PruneRefs`) or one by one (`PurgeRef`). Meanwhile records
without a snapshot go on being appended, and `PurgeData` may delete a journal: neither takes the
global lock. `pins add` looks its snapshot up before it takes the lock (`FindPin`, `AddPin`).

### ForkOwnership

Several repositories, at paths the user changes. Git finds the repository of a worktree by the path
in the worktree's `.git` (`home`), the registry by the inode of the Git directory, so a move or a copy makes the two
disagree (`OwnerOf`, `Located`). A fork goes from its manifest over `git worktree add` to the record
and the ready manifest; an arm of an experiment is locked, scored in a repository of the scorer's, restored and
cleaned up. `PurgeTree`, `PurgeLooks`, `PurgeRef` and `PurgeRegistry` are the phases of
`purge --snapshots` and `--all`; forks take no lock and go on meanwhile. `late` in `purge` marks the forks that
wrote something after it began: what it looked at may have been without them.

### LogOwnership

`claim()` with a step for each file operation, with the inode it created, the hard link that keeps it
allocated, and the registry entry; `purge --logs` as `Plan` and `Clear`. The user deletes, replaces and restores
files between any two, and a freed inode comes back with another file.

### RuntimeConfig, ConfigLayers, DaemonLifecycle

`RuntimeConfig`: a reload loads in a worker thread (`Load`) and publishes on the event loop (`Publish`); at
the start of a turn with no active turn anywhere (`Quiescent`) the staged generation becomes
active. Which turns are active is what notifications and reconciliation leave in the
`ThreadState`, so connections and server restarts are part of the model.

`ConfigLayers`: `Resolve` is `resolve_config` on layers that are absent, unparsable, or functions
from the settings they mention to values, wrong types included.

`DaemonLifecycle`: `Lock`, `CheckSocket`, `Bind`, then serving, then close, release and `Unlink`; two kinds of
manager spawn, poll, restart and stop daemons, and may give up while their child still starts.

### GateExchange, GateRules

One Hook process, the request it sends, the daemon's handler, and what each does when
the other is gone, late, of another build or fails. Setup writes the Hook commands (with their
generation) and the manifest in two steps, so a Hook may run between them. What the daemon knows of the session's thread comes from its connection to
the App Server, and `contact` says what that connection has to do with the thread: `Connect` resumes it, reads it because `thread/resume` was refused, finds it unloaded, or does not find
it in the list (`Reconcile`); a change of status is heard without a subscription (`Hears`) and leads to one or to a refusal (`Subscribe`). The state gets the
epoch of the connection in all of them but the unloaded one, and `_session_status` looks at nothing else (`Confirms`). `Note` records a denial in
the trace after the reply was written. `GateRules` is `check_command` and `check_paths` on
commands as sequences of words and paths as sequences of names. `MCGateExchange` has a reference
for both, written the other way round: a walk that ends in a place, and a command whose separators
and verbs are found by position.

### IntegrationSetup

A command holds the lifecycle lock and goes through its steps (`Inspect`, `WriteHooks`, `RemovePlugin`,
`SaveManifest`, `StartService`, `Verify`, `Commit`), each of which may fail, which starts the rollback in the
code's order, or be cut by a crash. `Becomes` says what a service manager leaves behind. The user edits
`hooks.json` without the lock, also during a command (`raced`).

## 3. The runs

| Run | Bounds | Distinct states | Shows |
| --- | --- | --- | --- |
| `budget` | 2 sessions, 3 processes, 1 review per session, 2 per day, TTL 1, days of 3 ticks, 5 ticks | 1.6 M | no spend is forgotten, no ceiling passed, no slot taken from a live holder |
| `runtime` | 1 steer or 1 interrupt, 2 turns, 2 connections, 2 lives of the daemon, queue of 2 | 1.5 M | always a deadline, one verdict (refinement of `ControlPromise`), observed and written off exclude each other, no id resent, an interrupt settles |
| `review_pipeline` | 2 jobs, 2 turns, 3 connections, 2 lives | 0.8 M | withdrawn jobs stay silent, one payment, discarded means free, the queue is served |
| `session` | 2 threads of which one refuses, 2 connections, 1 update, 1 fault | 0.8 M | the attachment becomes and stays ready, is consumed, and no loaded thread is left unsubscribed |
| `trace` | 1 turn, 7 kinds of notification any number of times, a control aimed at the turn, 4 records, 1 crash, 2 connections; or 2 Hook processes; or 4 records of the effects of 2 operations and one without an id | 0.4 M | nothing is journaled twice or lost, lifecycles are in order, a restart has the same indexes, the ledger of effects is faithful |
| `signals` | 6 alphabets of events, 4 events, 2 turns, 2 connections, 1 crash, thresholds of 2 | 0.17 M | unless telemetry came late: announced once, ended once, a replay gives the live engine; whatever came late: a replay gives the live evidence, conditions rest on live evidence |
| `snapshots` | 2 snapshots, 1 session with 2 writers, 2 records that name a snapshot | 3.2 M | what a record or a pin names stays pinned, records only name what is owned |
| `ownership` | 1 log, 2 processes, 3 inodes, 2 claims; 1 repository, a copy of it, 2 places, 1 snapshot, 2 forks, 2 acts of the user | 1.3 M | no user file emptied, only exact unreferenced refs deleted, no worktree forgotten |
| `daemon` | 2 threads, 1 turn of each, an inbox of 2, 2 writes, 2 connections, 4 contents; 1400 combinations of layers; 3 daemons and a manager of each kind | 2.1 M | a turn keeps its policy, the last edit wins, a repository only tightens, the socket leads to the server |
| `gate` | 1 Hook, 3 policies, 2 proposals, 2 builds, 2 connections, 1 fault; 5847 commands, 9360 paths for each of 24 gates | 3.1 M | the policy of the Hook decides, a silent session start was answered from the current connection, the rules agree with a reference |
| `setup` | 2 terminals in one mode, 2 builds, 3 commands, 1 crash, 1 edit | 3.5 M | user entries kept, failed setups undone, success is about a daemon that runs what is recorded |
| `session_silent_gap` | 1 thread, 2 connections | | violated: see below |

**Why the bounds are enough to be interesting.** Three processes let two hold slots
of different sessions while a third races for one of them, or let one outlive its
slot while another takes it over. Five ticks contain a midnight and an expiry on either side of
it. Two connections and two lives contain a drop, a restart, and both in either order; with
three connections in `review_pipeline` a job may be two epochs late. A queue of two is full
after a dispatch and its acceptance. Two turns suffice for a target that is no longer the
active turn. With two snapshots a sweep has one to keep and one to delete, and with two writers
one may append without the lock while the other holds it. Four records are a notification, its
effect, its redelivery and a telemetry record, around a crash. With thresholds of 2, four events reach one,
go past it and end the streak. Three inodes are a log, its replacement and one used again; two acts of the user
move a repository away and put its copy in its place. Two threads are what activation at a quiet boundary and
a walk over two pages need. Three commands are two setups that meet and one that finds what they left.
What no bound can show is proved where the prover reaches it (section 4).

**Runs that divide the work.** `MCRuntimeControl` dispatches controls of one kind in a
behaviour: steers and interrupts share only the queue and the ids. `MCDaemon`, `MCOwnership`,
`MCSignals` and `MCTraceIngestion` choose a focus at the start. `MCIntegrationSetup` lets its users ask for one
mode unless `Switch` is set. `RulesAgree` is a constant formula over bounded inputs, which TLC evaluates
once, and `VerdictIsReference` states it of every state in which a verdict exists.

**Deadlock.** `gate` is checked for it: a Hook always comes to an end (`Done`). The others say
`CHECK_DEADLOCK FALSE`: counted epochs, lives, ticks, turns and records run out, and processes that
are done stay done, which is the end of the model and not of the program.

**Fairness.** `RuntimeControl!FairSpec` assumes that a timer the event loop was
given fires (`asyncio.sleep` in `_arm_interrupt_deadline`). `InterruptSettles` needs no
fairness of the App Server, of the connection or of the journal, which is the point of
the deadline. `ReviewPipeline!FairSpec` assumes that the event loop runs what
is ready and that model calls and RPCs end, which the reviewer's and the client's
timeouts justify. `AppServerSession!Fairness` assumes that the server answers, that the reader reads, and that the
event loop starves neither task; faults are not fair and finitely many, because `ReadyReached` speaks of a connection
that can be had. Nothing is assumed of turns, updates or the process's life.

**Types.** `LedgerTypeOK` of `ReviewBudget` and `TypeOK` of `SnapshotStore` are theorems. Those of `RuntimeControl`,
`ReviewPipeline`, `GateExchange`, `LogOwnership` and `ForkOwnership` (`ForkTypeOK`) hold on the same instances, and
are checked by putting them into the configuration of the run.

### Disagreements

Each of these properties states a sentence of the documentation, of a docstring or of a comment that the
code does not keep; `PROJECT.json` quotes the sentence and says what happens. `session_silent_gap` is
a run; the three after it have a configuration of their own. The others are found by putting the property, and no
other, into the configuration named here, changed as it says.

| Property | Configuration | In short |
| --- | --- | --- |
| `NoSilentGap` | `MCAppServerSession_NoSilentGap` | a notification consumed before the thread's turn in the walk hides the gap: the walk resumes it on the second connection without one |
| `CooldownSurvives` | `MCSignals_CooldownSurvives` | telemetry of an earlier turn's control is written late: the replay ends a streak that lives on in the engine |
| `SilenceMeansObserved` | `MCGateExchange_SilenceMeansObserved` | a thread that is only read, or not listed any more, carries the epoch of the connection, and its session is called observed |
| `InsideIsAllowed` | `MCGateExchange_InsideIsAllowed` | `..cache/b` at the top of the workspace is taken for a path that leaves it |
| `DeadSlotKeepsNobodyOut`, `PaidReviewStaysCounted` | `MCReviewBudget` | a slot of yesterday counts today; a failed but paid review is credited back |
| `AckOrderIrrelevant` | `MCRuntimeControl` with `Interrupts = {i1, i2}`, `Steers = {}` | settling one interrupt of a turn forgets the status the other needs |
| `StatusRetiresDeadline`, `LiveTurnControllable` | `MCRuntimeControl` | an interrupt of an older epoch waits for its timeout; a turn that starts on a live connection is not controllable |
| `EpochNeverRegresses` | `MCReviewPipeline` | a late review takes the thread back to its epoch |
| `ReferencedSurvivesPrune` | `MCSnapshotStore` with `Dirs = {root, sub}` | a prune of the root takes snapshots named from subdirectories |
| `RefusedChangedOutcome` | `MCTraceIngestion` with `Notifications <- MCRedelivered`, `MaxRecords = 5`, `MaxEpoch = 1` | a redelivered completion is refused as changed |
| `CrashLeavesReadable` | `MCTraceIngestion` with `MaxCrashes = 2` | an append cut before its newline makes the journal unreadable |
| `TurnNeverMixes`, `EditNeverMissed`, `QuietBoundaryActivates`, `OperatorConfigRemains` | `MCDaemon` | unseen turns do not hold activation back; the first edits are missed; a stranded turn holds it back for ever; a repository's file can make an explicit one unusable |
| `StreakEndsAtBoundary`, `InvalidationReaches` | `MCSignals` | late reviews end live streaks; a hypothesis about invalidated evidence is active |
| `SetupHeals`, `ReadyRunsManifest` | `MCIntegrationSetup` with `Proc = {p}`, `MaxEdits = 0` and no symmetry, the second with `Switch = TRUE` | Hooks without a manifest are refused for ever; success about a degraded daemon |
| `NothingLeftBehind` | `MCIntegrationSetup`, as for `ReadyRunsManifest` | a switch of mode forgets the registered service |
| `RacedFilesKept`, `PruneRemovesOrphansOnly` | `MCOwnership` | a file put at a log's path during a claim is adopted; `prune --forks` takes forks in use |
| `DowntimeKeepsGate`, `BlockedWasDenied` | `MCGateExchange` | a daemon that dies with a request opens the gate; a block is recorded that only was observed |
| `UnavailableWasGone`, `ReadyIsConsumed` | `MCAppServerSession` | a thread that changes pages is called unavailable; without `thread/resume` the consumer ends quietly |

The properties the runs check are what remains true beside them: `TurnKeepsPolicy` is about turns that
start and work on one ready connection, `ReloadConverges` about edits after the watcher's first look,
`UserFilesKept` about files not put there during a claim, `UserHooksKept` about edits between commands,
`ConsumedWhileReady` and `QuietMeansSubscribed` about servers that know `thread/resume`,
`WorktreesRecorded` about worktrees whose process lived, in a repository that did not move, until the record.
`JournalledIsPinned` speaks of the records prune compares equal, or that name no directory. `AnnouncedOnce` and
`ReplayAgrees` say in their own words what late telemetry leaves of them. `SilenceIsCurrent` asks only that the connection that
answered had to do with the thread, as subscriber or otherwise; that a block is recorded for the turn it was in is claimed by nothing, because a thread
that is only read never hears its turn end. `VerdictIsReference` excepts the paths that stay inside under a name that begins with
two dots (`TwoDots`); its reference is the documented rule everywhere else.

## 4. The proofs

Eight modules, about sets of any size and any bounds. What they assume is the named assumption of the module they
prove about, which the runs evaluate: the types of the constants, that special values are distinct from the
ordinary ones, that a verdict is one of three, what a notification may look like, and that the sets of processes,
controls, jobs, forks and threads are finite.

| Module | Theorem | What it states, for every value of the constants |
| --- | --- | --- |
| `ReviewProofs` | `TypeCorrect`, `LedgerNeverUnderCounts`, `CeilingBoundsSlots`, `LiveHolderSafe` | `LedgerTypeOK`, `NeverUnderCounts`, `SessionCeilingHeld`, `LiveHolderKeepsSlot` |
| | `WithdrawnStaySilent`, `PaidOnce`, `DiscardedWasFree`, `NoJobOutlivesItsConnection` | `WithdrawnNeverSpeaks`, `InferredOnce`, `DiscardedIsFree`, `PendingThisConnection` |
| `RuntimeControlProofs` | `InterruptsBounded`, `SentOnce`, `RecordOnlyAdvances`, `SeenOrWrittenOff` | `OpenInterruptIsBounded`, `NeverResent`, `PromiseKept` (the refinement of `ControlPromise`), `AdvisoryNotBoth` |
| `AppServerSessionProofs` | `ReadyIsServed`, `NoThreadMissed` | `ConsumedWhileReady`, `QuietMeansSubscribed` |
| `TraceIngestionProofs` | `JournalIsTold` | of a journal with any writers: `SidecarTruthful`, `AcknowledgedKept` |
| | `SidecarIsTrue`, `ReturnedIsKept`, `WrittenOnce`, `LivesInOrder`, `RestartKnowsTheSame` | `SidecarTruthful`, `AcknowledgedKept`, `JournaledOnce`, `LifecycleInOrder`, `IndexesFollowJournal` |
| | `LedgerTellsAll` | of every journal: `EffectsFaithful` |
| `HookProofs` | `TypeCorrect`, `JournalledStaysPinned`, `PinsSurvive`, `RecordsAreOwned` | `TypeOK`, `JournalledIsPinned`, `PinnedSurvives`, `RecordedOnceOwned` |
| | `AnswerIsThePolicys`, `SilenceIsEarned` | `PolicyDecides`, `SilenceIsCurrent` |
| `OwnershipProofs` | `NoneForgotten`, `OnlyNeedlessGo`, `NoFileOfTheUsersIsEmptied` | `WorktreesRecorded`, `PurgeIsExact`, `UserFilesKept` |
| `DaemonProofs` | `LastChangeIsTaken`, `OnePolicyPerTurn`, `OnlyTightens`, `ServerIsReached` | `ReloadConverges`, `TurnKeepsPolicy`, `RepositoryOnlyTightens`, `SocketReachesServer` |
| | `AnnouncedIsOnce`, `ReplayHasAll` | `AnnouncedOnce`, `ReplayAgrees`, with telemetry at any time |
| | `SatisfiedHolds` | `SatisfiedStands` |
| `IntegrationSetupProofs` | `UserEntriesStay`, `RollbackRestores`, `SuccessRunsTheManifest` | `UserHooksKept`, `FailureRestores`, `ManagedReadyRuns` |

**ReviewBudget.** `NeverUnderCounts` is not inductive: a process that has not started must hold no slot,
or `Reserve` could add a slot that is already there. `SessionCeilingHeld` is not either, because the ceiling
is judged by the counter: the strengthening `CounterCeiling` relates the two. `LedgerInv` is their conjunction
with `LedgerTypeOK`. The arguments are about cardinalities: each of the four ledger operations
adds or removes one known element, stated once as lemmas, and the steps of the
processes fall into classes that leave the sets alone.

**RuntimeControl.** `ControlInv` says what the ids in memory, the queue and the journal know of each other. Whatever is
recorded or queued of a control, its id is remembered (`IdsKnown`), so it is not sent again. A control whose reply is
not processed is neither accepted nor settled (`FlyingIsOpen`); between acceptance and verdict an interrupt has a deadline,
and only then (`DeadlineIffOpen`); a recorded verdict is the last word (`VerdictIsLast`). The server, the notifications and
the thread's state appear only as what may happen next, so the results hold in whatever order things are notified. The
refinement then has one lemma for what a batch of records does to `Stage`: drops may skip stages, but nothing
goes back, and no second verdict is ever queued.

`AdvisoryNotBoth` is the one result that needs the order in which a turn is told. `OrderInv` orders the inbox: what has a
`Place` in it comes from one turn after another, and what the daemon has seen is over in the server (`SeenIsPast`).
`SteerInv` then says of a steer that the server accepted that the end of its turn is seen before anything of a later turn
(`EndSeenFirst`), and of one that was written off that its turn is answered or over and is not taken for anything else
again while its connection lasts (`OffIsOver`). Its text can be observed only in a turn that is active and
unanswered, so the two exclude each other.

**ReviewPipeline.** `PipelineInv` relates the scheduler's memory to the history of the Trace, the owed transitions
included: a call is recorded before anything else happens (`RunsRecorded`), what the executor has or
is about to get was never paid for (`QueuedIsUnpaid`), the scheduler holds no job that the Trace has ended
(`PendingIsOpen`), what was delivered was decided (`DeliveredIsDecided`). A restart derives from the history exactly what these
conjuncts ask. `NoJobOutlivesItsConnection` has an invariant of its own, about the thread's state.

**SnapshotStore.** `StoreInv` adds what the global lock gives:
who works on refs holds it (`LockInv`); a writer's snapshot stays pinned until it is
recorded, and a ref it made can be undone because nobody pinned it and every record that names it
had lost it (`DraftInv`); the journals a sweeper deleted name nothing new, and what it
keeps covers what the others name (`SweepInv`). Each lemma takes one part of
`StoreInv` through every action.

**ForkOwnership.** The registry is forgotten only when everything in it is exhausted, so the danger is the time between
`git worktree add` and the record. `ForkInv` says what holds then: the worktree is not locked nor being scored (`Fresh`), and Git
still finds it where it was made, or the fork has lost it (`Findable`); two repositories are never at one place
(`OnePlace`). Hence a refused record takes its worktree with it, and an accepted one names a repository
that has it (`Known`).

`PurgeIsExact` compares a deletion with the state it happens in, while `PurgeLooks` judged an earlier one.
`ExactInv` carries the judgement over: a ref purge is sent for is in the registry and needed by none but forks that
overtook the purge, and stays so (`DoomedAreNeedless`), because Hooks and pins wait for the lock, the
entries only gain worktrees of such forks (`LooksAtAll`), and a fork that is slower has neither a manifest nor
an entry yet (`NoManifestYet`, `NoEntryYet`). `NothingReferred` says this once for every action that keeps the
entries.

**LogOwnership.** A log is emptied by its identity path, so it is enough that no identity path leads to a file of the
user's (`IdentitiesOwn`). The inode it leads to has a name and is not used again; the danger is the time between the creation
of a log and its second name, which is what `raced` marks, and the conjunct covers the paths of logs in that state.

**AppServerSession.** The consumer ends only on a reply that tells of a lost connection or of a missing method. A
server that knows the method never sends the second, and nobody holds the first while the connection lives: `SessionInv` says
so of the socket (`SocketSound`), of the calls (`EndingMeansClosed`) and of the two tasks (`ConsumerLives`).

`CoverInv` is about the loaded threads: each is dealt with, or a notification of it is on the way, or the consumer asks
for it, or the walk comes to it (`Covered`). The last is the hard one (`WalkComes`): the list is ordered by the latest
update and a cursor is a place in it, so a page that was served may be old when it is read. A thread that was below the cursor
and is not any more was updated since, and its update is on the way.

**StepJournal.** The sidecar is compared with the file by its size only, so the invariant has to say what a size tells:
`JournalInv` says that the sidecar is `Summary` of a prefix of the file that ends a line (`Describes`), and `SizeTellsPrefixes` that two
prefixes of one file have different sizes, so a sidecar whose size is that of the file describes all of it. A repair cuts
the file at the end of a line, and every record that was returned ends one (`Lines`). `JournalIsTold` holds of
any events and writers; each step of the ingestor is a step of such a journal (`IngestMovesJournal`).

**TraceIngestion.** A duplicate is told by the indexes, and the indexes are behind the file by what was written and is
not yet remembered. `IngestInv` says that they are exactly those of the other records (`Indexed`): of the event loop's own record in
hand and of the worker's (`Unindexed`). The step that matters is that the worker's record comes into the indexes after records that
follow it in the journal: `Indexes` of a set of records does not depend on the order for what is kept as a set or as a maximum, and
for operations, where the last record counts, the worker's record says nothing (`RememberAdds`). What a
notification was judged fit for it stays fit for until it is written (`Awaited`), because only a control can come in between, and a
control has an id of its own, which is enqueued once (`Counted`). Hence the journal is `Sound`: any two of its records
are distinct and in the order of a life. `Registered` says that the registry knows the turns the journal and the queue
name, and has ended only turns whose end is written or in hand, so that a restart, which reads the journal alone
(`RestoredFacts`), knows no turn otherwise. `Highest` of the clocks needs that a finite set of numbers has a highest
member, which is proved first.

**EffectLedger.** The two passes are one recursive function (`Pass`), and what each keeps is an induction on the number of
records, from the least number principle (`PassRuns`). After `n` records of the first pass an entry `Tallies` the observations
of its operation among them: it counts them, is completed when one of them is a result, has the outcome of a single one and "unknown" for
several, and knows of several which they are, but for an "unknown" (`Notes`). One observation more keeps that whether it finds the entry as an
attempt, with one outcome or with several (`MergedTallies`), whatever was merged before: no order of the records is assumed. After the
second pass an entry is resolved exactly when the last resolution of its operation counts (`Settled`), and what it says of the
observations has not changed; a compensation counts by what the ledger knows, which the first pass has made all that was
observed (`KnownIsObserved`). The theorem assumes of a journal only that its records are observations or resolutions.

**RuntimeConfig.** `ReloadInv`: a candidate is held under the lock from its loading to its publication (`LockHeld`), what is active and not
yet in use has a reload that is still to return (`HotFollows`), a staged generation can be taken (`StagedFits`), and what the
watcher has noticed is in the store or is loaded or asked for by the watcher itself (`CaughtUp`): another caller's older
candidate cannot take it out again, because both need the lock.

`TurnInv` is about the inbox, whatever its length: the start of a turn is the first that is heard of it and its
end the last (`StartsAreNew`, `EndsAreLast`), and a steady turn is its thread's active one under the settings in use until its end is
consumed (`Running`), or nothing of it is left to normalize (`TurnOver`). `semantics` changes only when no turn is active.

**DaemonLifecycle.** From the moment it has the lock until it gives it back or dies a daemon is its holder
(`HoldsLock`), and from its bind until its own unlink the socket file is its own (`HoldsSocket`), because the file is
removed before the lock is released. Managers matter only as somebody who spawns and kills: nothing is needed of what they believe.

**ConfigLayers.** No state and no induction: the repository's layer puts the configuration with it and the one without it into the
relation `Tightens`, and each later layer keeps them in it (`LayerKeeps`).

**SignalEngine.** Nine families and the end of a turn all work on sets of streaks, and one contract serves them: what an event makes of a set
`Moves` it. A streak that goes on is one of the set or began with the event; it counts as announced exactly when it was, or is now; a
candidate is active exactly when its streak was not announced before, and what is announced as ended is gone. Each operation of
the engine keeps the contract (`KeepMoves`, `EndMoves`, `CountedMoves`, `LevelledMoves`), and so does doing several side by
side, as long as their streaks have different names (`BothMove`, `TogetherMove`); then each family, and `Update`.

**SignalRecovery.** `RecoveryInv` has three parts, because late telemetry takes different things away. `RecoveryBase` holds whatever comes: both engines are
engines of this journal, keep only what is of the present turn and connection (`Sited`) and keep something only if an event of those is in the
journal (`Rooted`), and the live evidence is the replay's. `EnginesAgree` says that the live engine is the replay's unless telemetry came late since the last
boundary, which empties both. `ToldRight` says, unless telemetry ever came late, what the replay makes of the journal (`Fits`): every announced streak of the engine has
its first candidate in the journal or among the missing ones, a missing candidate fits behind those of its streak that are there, and an ended
streak has no more. What the daemon holds is then the replay, so a crash loses nothing and a restart needs no
argument of its own. One record more is one step of the replay more (`HydratedAppend`), which needs induction over a recursive function: it is
derived from the least number principle, by which a run of the replay exists for every length and two runs agree (`RunExists`,
`RunsAgree`). Telemetry is delicate because the replay reads it and the live engine does not: telemetry that is not late meets an engine that keeps nothing or is at its control's
turn and connection (`PunctualSited`), where it changes nothing that is kept (`ControlFits`). Telemetry that is late ends
streaks in the replay that live on in the engine, which is how `CooldownSurvives` is violated.

**ThreadEvidence.** `SatisfiedStands` needs nothing of the signals. No operation of the reducer changes what an item is or takes one away, and none but
an invalidation ends one (`Grows`), a condition is satisfied only by items that stand, and an invalidation takes down every condition that rests on
what it takes (`Held`, one lemma per kind of event). It holds of late telemetry too.

**GateExchange.** `Judges` relates one Hook with the daemon's task for it: the policy the Hook resolved does not change while it asks,
and an answer that it takes is the verdict of that policy or an error, because the daemon judges with the policy it is
sent; what comes from a daemon of another build is not taken. `SeenInv` says that every contact of the connection with the thread, while a Hook runs, left its mark with it (`Remembers`), and that a
thread's state carries the epoch of a live connection only if that connection has to do with the thread (`CurrentInv`): each branch of the walk, and each event, is
shown to stamp the one only with the other. No property
of the rules is used except the values a verdict may have.

**IntegrationSetup.** The lifecycle lock makes the holder's copies good: `LockInv` says that a command is in a step that changes
something exactly while it holds the lock, so the manifest and the plugins are what the holder wrote or found (`Recorded`, `Undone`), and each
step of the rollback adds to what is back. `hooks.json` has another writer, so what is there and the holder's copy of it, which may be put back over it,
are both what the user wants, or the user's edit came during a command (`KeptInv`). The daemon also starts with a login: then it is
constructed for the manifest there is, which is the holder's (`Serves`), and an upgrade leaves a higher build than any command began
with. Three lemmas say what a step without the lock, with it, and the last with it must show; each action is one of these. Nothing is
assumed of the service managers but what `ManagedHealth` says of a healthy or degraded answer.

**Only model-checked.** Liveness (`InterruptSettles`, `QueueServed`, `ReadyReached`), which is beyond this prover, as is everything
about `ENABLED`. The gate rules against their reference (`VerdictIsReference`): `GateRules` and
`MCGateExchange` declare `RECURSIVE` operators, of which the prover knows nothing, and a command holds commands, so
what a rule says of all of them is an induction over their structure.

## 5. Not modelled

`PROJECT.json` says of each component what is left out. In short:

* Pure functions over text: which command has which effect (a table of patterns in `effects.py`), redaction, digests,
  prompts, rendering. The unit tests of the repository cover them.
* The call of the reviewer model: one step that succeeds or fails, in the models that pay for it.
* What only reads: observability, doctor, inventories, provenance, replay analytics, corpora, labels and metrics. They keep no
  state that others decide by.
* Service managers (launchd, systemd), Git and the App Server are external: modelled as what the code relies on.
* Rollouts of a fork, environment fingerprints and the classification of experiment results; the queue capacity
  and the wire format of the App Server client; rollout-pending retries and capability changes of the recovery loop;
  status and metrics requests of the daemon.
* Within the modelled parts: token costs (no decision reads them), the choice by priority among queued jobs (left
  open, so covered), several threads at once where they share only the connection.

Behaviour the models contain and no property forbids: a rejected interrupt leaves its turn
watched; a stale `thread/resume` reply may make an ended turn look active until the next event; a ledger that
turns unreadable ends the review worker until the next submit; a tool result whose checkpoint was
read before `prune --journals` deleted the journal and the snapshot names a snapshot that is gone; a crash between the ref
and its ownership leaves a ref that prune removes and purge does not know; a ref changed between
inspection and removal is kept and reported as a failure of the purge.

## 6. What could come next

1. The halves of `VerdictIsReference` that need no nesting as theorems: commands without `sh -c`, and paths.
2. Experiment results as roots of purge, and rollouts of a fork.
