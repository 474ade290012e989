# A TLA+ verification project for Ellul

Ellul gives every user a Linux sandbox in which AI agents run continuously.
This directory models the parts of the sandbox's control plane whose
correctness depends on order, failure and time, checks the models with TLC on
small instances, and proves the most important properties with TLAPS for every
instance.

Paths below are relative to `src/packages/vps/src/services/` unless they begin
with `src/`; `bridge/` stands for `backends/agent-bridge/src/`. `PROJECT.json`
maps each definition to the lines it is translated from.

    tlc -workers 2 -config EngineCore.cfg MCOrchestrationEngine.tla
    tlapm OrchestrationEngineProofs.tla

## 1. Inventory

### The agent bridge

The bridge is one Node process per sandbox, restarted by systemd. Browsers send
it commands; it keeps an event-sourced record of projects and threads, and
drives the command-line agents ("providers").

**Orchestration engine** (`bridge/orchestration/Layers/OrchestrationEngine.ts`).
State: an unbounded command queue, the read model in memory, a PubSub of
committed events. Operations: `dispatch`, the worker's `processEnvelope`,
`reconcileReadModelAfterDispatchFailure`, start-up. Each command is decided
against the read model; events, projections and the receipt of the command are
committed in one SQLite transaction; then the read model is replaced, the
events are published and the caller's Deferred is completed. Hard: a crash at
any step, a retry at any time, COMMIT that takes effect but reports an error,
error handling that fails itself. Correct when each command takes effect at
most once and whole, answers stay true, the read model follows the log, events
are published in order and not again, and the worker never stops.

**Decider, invariants, projector** (`bridge/orchestration/decider.ts`,
`commandInvariants.ts`, `projector.ts`). Pure functions from a read model and a
command to events or a refusal, and from an event to the next read model. Hard:
two writings of one projection (memory and SQL) must agree. Correct when ids
are created once and workspace roots are taken once.

**Event store, receipts, SQLite client, projections**
(`bridge/persistence/`, `Layers/ProjectionPipeline.ts`,
`Layers/ProjectionSnapshotQuery.ts`). State: the event log, one receipt per
command id, the projection tables with one cursor per projector. Projectors run
inside the command's transaction and, at a start, over what their cursor has
not seen, one page of 1000 events at most. The snapshot of the tables becomes
the read model. Hard: WAL durability, a projector added in an upgrade, file
removal inside a transaction.

**Reactors** (`bridge/orchestration/reactors/`, `Layers/*Reactor.ts`). They
consume the PubSub: the provider command reactor starts and interrupts turns
and sessions, the thread deletion reactor stops sessions and terminals, the
checkpoint reactor takes and restores git references. Hard: each is a worker of
its own, so a deletion and a turn start of one thread race; an event committed
before a crash and never published reaches none of them.

**Provider runtime ingestion** (`Layers/ProviderRuntimeIngestion.ts`): provider
events become internal commands of the engine; ordering per thread.

**Provider adapters, server pools, session directory, session reaper**
(`bridge/adapters/`): processes with reference counts, closed by idle sweeps
that race with acquisitions; bindings of threads to sessions.

**Command transport** (`bridge/transport/`, `bridge/internal-http/`): clients
dispatch and retry; a first turn is two commands (create the thread, start the
turn) with a compensating deletion when the second fails.

**Runtime control** (`bridge/application/runtime-control/`,
`bridge/composition/runtime-control/`).
`SystemHealth` turns memory samples into green, yellow or red;
`DegradationController` switches admission and preview idling with it.
`ProClaudeSlotManager` keeps one or three slots with a process each, bound to
threads, evicted to make room; `DrainHandler` and the signal handler of
`bridge/main.ts` evict them all before the bridge exits; admission
(`backends/file-api/src/application/admission/Admission.ts`) refuses a bind.
The inference queue, the session compactor, checkpoints and metrics are small
services around them. Hard: sustained times with one clock, calls that overlap
at their awaits, processes that exit by themselves or ignore signals, a drain
that meets a bind, a second drain or a shutdown.

**Code mode, MCP tools, namespaces** (`bridge/application/`,
`daemons/ellul-namespaced`): execution of generated tool programs, tool
governance, Linux namespaces per project and their orphan sweeper.

### Beside the bridge

| Component | State and operations | What is hard |
|---|---|---|
| File API, previews (`backends/file-api/src/application/preview`) | preview units behind a mutex with a priority drain; admission, keepalive, idle stop, reconciliation with systemd | a stop that races a start; reconciliation after a restart |
| File API, files, platform, integrations | file and process I/O | partial failure of a sandbox deletion |
| Sovereign Shield (`auth/sovereign-shield`) | sessions, gates, tool permissions, vault, wallets | a request that waits for a decision, a timeout and a disconnect at once |
| Claude launcher and token issue (`backends/claude-launcher`, `shared/claude-oat`) | short-lived tokens, consumption, expiry | expiry that races use |
| Enforcer and watchdog (`daemons/`) | polling around systemd | I/O |
| VPS gateway (`gateway/`) | proxy configuration, terminal proxy | formatting and I/O |
| GBrain, sign-in and shell tools, Android engine | scripts around other programs | I/O |
| Edge gateway, tunnel protocol (`src/packages/gateway`, `src/packages/tunnel-protocol`) | routing without state of its own | - |
| Shield command line and proxy (`src/packages/shield`, `src/packages/shield-proxy`) | provisioning from a workstation | I/O, cryptography |
| Cryptography, images (`src/packages/ellul-crypto`, `ironclad`, `pqc-types`) | primitives, image building | no protocol state |
| Provisioning scripts, templates | generated files | - |
| Applications and shared packages (`src/apps`, `src/packages/vps-ui`, ...) | presentation, clients, types | - |

### How they interact

    browser -- command --> transport --> engine queue --> worker
                                                           |  one transaction
                                                           v
                            SQLite: log, receipts, cursors, tables
                                                           |  publication
                                                           v
           browsers (live stream), reactors --> providers --> ingestion --> engine
    metrics --> health --> degradation --> admission (red mode), previews (idle time)
    file API --> bind route --> slot manager --> admission, processes
    drain route, SIGTERM --> drain --> slot manager --> exit

## 2. The modules

| Module | Role |
|---|---|
| `OrchestrationModel` | pure part: commands, events, the decider, the read model, the projections, the snapshot |
| `OrchestrationEngine` | the engine as a state machine over database, queue, worker and process; extends `OrchestrationModel` |
| `CommandLog` | abstract: a journal of commands that take effect at most once; refined by the engine |
| `MCOrchestrationEngine` | command sets for TLC |
| `OrchestrationModelProofs`, `OrchestrationEngineProofs` | lemmas on the operators; the theorems of the engine, its refinement of `CommandLog` included |
| `ReadModelProofs` | the two projections agree: the read model is current, events are published in order and once, the history keeps the decider's rules; extends `OrchestrationEngineProofs` |
| `DispatchCommand`, `MCDispatchCommand`, `DispatchCommandProofs` | the first turn of a thread: attempts of the transport composed with the engine; commands for TLC; theorems of the composition, on top of `ReadModelProofs` |
| `ServerPool` | the server of a project that its OpenCode sessions share: leases, spawn, crash, idle sweep |
| `SharedServer` | abstract: what a pool promises its sessions; refined by `ServerPool` |
| `ServerPoolProofs` | the theorems of the pool for any number of sessions and servers |
| `AgentSessions`, `MCAgentSessions` | reactors, provider service, adapter and ingestion over the pool; extends `ServerPool`; bounds for TLC |
| `AgentSessionsProofs` | the theorems of the composition of sessions and pool; extends `ServerPoolProofs` |
| `SystemHealth`, `SystemHealthProofs` | health signal and degradation; its theorems |
| `ProClaudeSlots`, `MCProClaudeSlots` | slots, calls, processes, drain and shutdown; admissions for TLC |
| `ProClaudeSlotsProofs` | the theorems of the slots |

### OrchestrationModel

Names, titles, model selections, message texts and all times but those of plans
are left out: no decision reads them. A project keeps its workspace root and its deletion, a
thread its project, archival, deletion and proposed plans, the sandbox its
pinned models. `Decide(m, c)` is the *set* of event sequences the decider may
produce: empty for a refusal, and more than one only for a forced project
deletion, whose thread order is that of the read model. `ProjectEvent` is the
projection in memory; `Apply` is the one in SQL, one branch per projector, run
in the order of `ProjectorOrder`. `Snapshot` is `getSnapshot`, which joins the
tables again. Memory keeps the latest `MaxPlans` plans of a thread (200 in
`projector.ts:494-502`), sorted by time and id (`Latest`); the table and the
snapshot keep them all (`ApplyThreadProposedPlansProjection`, `PlansOf`). `Times`
are the times plans are made at, compared as the code compares their strings.
The commands modelled are those of clients on projects, threads
and the sandbox. The commands that change only fields left out
(`ThreadRequests`) are kept: they take sequences, receipts and a place in the
order.

### OrchestrationEngine

`db` is what SQLite has committed, `tx` what the open transaction sees, `synced`
what the disk would hold after a power loss. `pc` is where the worker is in
`processEnvelope`, one step per await: taking the command (`TakeCommand`),
reading the receipt (`AnswerFromReceipt`, `BeginTransaction`, `Refuse`,
`ReceiptReadFails`), each append with its projection (`AppendEvent`), receipt
and COMMIT (`Commit`, `Rollback`, `CommitUnacknowledged`), publication, reply,
and the error path (`ReconcileRead`, `ReplayEvent`, `ReplayDone`,
`RecordRejection`, `ReplyFailed`, and their failures). `Crash` is enabled in
every state of a running process and takes everything in memory. `Start`,
`Bootstrap` and `Ready` are the next start. `Dispatch` may repeat any command
id at any time: this is the retry. `Faults` says which faults of the
environment a run allows. `published` and `retired` are what live subscribers
of this and of earlier starts were given; `replies` is what clients heard.

`Init` is an empty database with the process down, the state of a new sandbox.

### CommandLog

The journal, the outcome and the answers per command id, and four steps:
`Accept`, `Reject`, `Confirm`, `Fail`. It has no queue, process, transaction or
crash. The engine maps `journal` to the ids of the log's entries, `outcome` to
the receipts and `answers` to the replies.

### DispatchCommand

`dispatchBootstrapTurnStart` of `bridge/transport/handlers/dispatch-command.ts`,
as a caller of the engine. An attempt is one handling of a client's request:
`BeginAttempt` dispatches the create, `StartTurn` the start, `CleanUp` the
delete, each by the engine's own `Dispatch`, and each answer of the engine's
worker (`WorkerAnswers`) takes the attempt that waits for it one stage further
(`Onward`). The create and the delete carry ids made for the attempt, the start
the client's id: a client that sends its request again causes a second attempt
with the same start. `DispatchNext` has every step of the engine. An attempt goes on when
its connection closes (the handler of a unary call runs on) and ends with the
process (`LoseAttempts`). What the code calls `createdThread` is the stage: only
an attempt that heard its create accepted can reach `undoing`.

### ServerPool and SharedServer

One pool of `bridge/adapters/opencode/server-pool.ts` for one project. `server`
holds the generations of server processes ever spawned, `entry` the one in the
pool's map, `mutex` what the holder of the pool's semaphore is doing. `Reuse`,
`Spawn` with `SpawnSucceeds` or `SpawnFails`, and `Release` are the calls of a
session. `ServerExits` kills a process at any time, `CrashNoticed` is the
watcher of its exit code, which takes the entry away and then fires the
callback of each holder (`CallbackEnds`); `Sweep` is the idle sweep, which
collects its candidates, takes the mutex and looks at the count again before it
evicts; `TornDown` ends the scope of a server. `Released` follows the code in
looking the entry up by project and not by generation. `SharedServer` has a
server that is down, up or failed and a set of leases; only `Retire`, which
needs no lease, and the two halves of a death take the server away.

### AgentSessions

Two workers, the pumps of the sessions, the crash callbacks of the pool and the
ingestion, over the read model's threads. `EnsureSession` is
`ensureSessionForThread`, `EndExisting` to `SessionStarts` the adapter's
`startSession` with its rollback and the retry without resuming, `Ended` its
`stopOpenCodeContext` and `stopSession`, `ExitBegins` and `ExitHandled` its `emitUnexpectedExit`;
`TakeDeletion` is the worker of the thread deletion reactor. A step ends where
the code awaits: the namespace, the server, the creation of the session, the
engine's answer. The event pump of a session has two ends, as in
`adapter.ts:1003-1014`: its stream fails and the session is ended (`PumpFails`),
or the stream ends by itself and nothing happens (`PumpEnds`; `quiet` are the
threads whose session goes on without a pump). `raced` is a history: the threads deleted while a session
of theirs was starting or before it was. For these `LeasesAreUsed` and
`DeletedThreadsEnd` say nothing, because the code does not exclude that such a
session outlives its thread.

### SystemHealth

`Tick` is one call of the metrics subscription: the clock of
`makeSystemHealth`, the machine's transition, and on a change the exit and
entry handlers of `DegradationController`. A tick carries two measures,
utilisation and pressure stall; every condition of the code is "one of them at
least" or "both below", over the same cut points, so the higher of their two
bands decides (`Pressures`). Histories (`since`, `lasted`, `heldFor`) measure
what the documents speak of and the code has no variable for.

### ProClaudeSlots

`call[c]` is one call of `bind` or `evictAll` and where it stands; `chain` is
the promise chain of the manager. A call's actions end where the code awaits:
admission, saving the session, waiting for the process to exit after SIGTERM and
after SIGKILL, loading the resume id, spawning. `procs` and `alive` are the
processes; `ProcessExit` may happen at any time, and the manager is not told,
as in the code. `Sigterm`, `DrainEnds`, `DrainTimesOut` and `Exit` are
`shutdown` of `main.ts`; `DrainRoute` is the HTTP route. `SignalFaults` lets a
signal be denied (`waitExit` takes EPERM for an exit; the pid is that of
`sudo`) or have no effect. `capCounts` is the admission given to the manager,
fixed when it is made: `ComposedAdmission` is what `RuntimeControlLayer`
composes, the empty set leaves the cap to the manager, as the unit tests do.

Left out: the machine state `active` and `releaseActive` (nothing in the bridge
sends `send_start`), the passing state `evicted`, and the times of last use,
which stay 0. A restart of the bridge is not modelled: a new manager knows none
of the processes, and what systemd does with units of the same name is outside
the code.

## 3. The runs

| Run | Instance | Question |
|---|---|---|
| `engine_core` | a first turn sent twice and other clients' creation and forced deletion of a project, 5 dispatches, queue of 2, four faults | do commands, retries, failed transactions, lost acknowledgements and crashes keep every promise of the engine and of the first turn, and does the engine implement `CommandLog`? |
| `engine_failures` | two creations for one root, a thread, a forced deletion, 3 dispatches, all six faults, fairness | what still holds when reconciliation fails and power is lost; does every dispatch end? |
| `engine_model` | 13 project and thread commands, memory for one plan of two, 4 dispatches | do the two projections agree up to the plans memory forgets, are ids and roots taken once, is a deleted project empty? |
| `agent_sessions` | 2 threads, 3 requests, 2 servers, one sweeper, fairness | does any interleaving of turns, stops, deletions, crashes and sweeps lose a server or a lease, does the pool implement `SharedServer`, and does every turn end? |
| `engine_upgrade` | 5 commands, 4 dispatches, pages of 1, a late projector | when does a start publish again? |
| `engine_power_loss_ack` | as `engine_failures`, power loss only | violation: see section 6 |
| `system_health` | sustained times 2, 1, 2, 4; gaps up to 2; five bands | does degradation follow health, is the signal stable, does it settle? |
| `system_health_red` | the same | violation |
| `slots` | 2 slots, cache of 1, 3 threads, 4 calls, both admissions, both signal faults | does any interleaving lose a process, share a slot or leave one behind, and does every call end? |
| `slots_warm_is_live`, `slots_tier_cap`, `slots_shutdown` | 1 slot, 2 threads, 2 or 3 calls, no signal faults | violations |

**Properties of the engine.** `ExactlyOnce`: a command's events are one run of
the log that ends at the sequence of its receipt, and a command without an
accepted receipt has none. `AcknowledgedIsDurable`, `ReceiptsAreFinal`: what a
client heard and what a receipt says never change. `ReadModelIsCurrent`:
between commands the read model is the one a restart would build, and holds the
whole log. It holds where no thread has more plans than memory keeps.
`RecentReadModelIsCurrent` is what is left where one has: the two agree in all
but the older plans, and so in what is forgotten next, provided that a plan keeps
its time when it is proposed again. The difference is real: a turn that
implements an older plan is refused before a restart and accepted after it.
`PublishedInOrder`: between two commands subscribers have been given exactly the
events stored since the start (`StartedAt`), from the first one on. It says
nothing of an event whose commit a crash cut off from its publication: that one
lies before the next start, and is never published. `PublishedIncreasing`,
`PublishedOnce`, `RepublishedOnlyIfBehind`: what subscribers see otherwise.
`CreatedOnce`: no id is created twice. `RootsUniqueUnlessMoved`: two active
projects share a root only after an update, which the decider does not check,
gave one of them that very root when both had been created.
`EveryDispatchEnds`: the worker survives its own error handling.
`ImplementsCommandLog`: refinement. `DeletedProjectsAreEmpty`: a deleted
project has no thread that is not deleted but those created in it after its
deletion: `thread.create` asks for a project that exists, and a
deleted one does.

**Properties of the first turn.** `BootstrapKeepsStartedThreads`: a thread in
which a turn started is deleted by an attempt only if its client was told that
the start failed; it is at stake when a request sent twice finds its thread
taken, and when the start is committed but reported as failed.
`BootstrapLeavesNothing`: a thread left without a turn is the remainder of a
fault that answered an attempt wrongly or ended the process.

**Properties of the sessions.** `CountIsHolders`, `OneServer`: the count the
sweep decides on is the number of leases, and no second server is spawned
beside a live one. `SessionsKeepTheirServer`: neither a sweep nor the crash,
release or rollback of another session takes the server of a live session.
`LeasesAreUsed`, `DeletedThreadsEnd`: what a start, stop, crash or rollback
acquired somebody still returns. `EveryTurnEnds`: nobody
waits for ever on the mutex, a dead server or another worker.
`CrashEndsSessions`: a crash is noticed, and when the crash callback of a session
has run the session is no longer that of its thread, or a stop of it has begun.
It does not depend on event pumps. A session installed after its callback ran,
which then found nothing, has only its pump to end it; if the stream of that
pump ends without a failure the session stays installed on a dead server. The
model has these behaviours, and no property claims that they do not happen.

`ReadModelIsCurrent` and `PublishedInOrder` do not hold when the read inside the
reconciliation fails: the code logs a warning and goes on with a read model
that lacks the events the failed dispatch may have committed. The next dispatch
that fails repairs it; but if another command is accepted first, its event's
sequence becomes the model's, the gap is no longer visible to the
reconciliation, and the model stays wrong until the restart. `engine_core`
therefore leaves that fault out, and `engine_failures` checks what survives it.
The promise to the clients does: section 4 proves `ImplementsCommandLog` with it.

**Bounds.** `MaxDispatches` bounds the dispatches, retries included, and
`MaxQueued` the queue. Four dispatches suffice for: a command, its retry while
the first is in progress, another command between them and one after; for a
create, its deletion and its re-creation; and for a forced deletion of a project
with a thread, a transaction of two events. Three pages of one event show every
relation of cursor, page and log; in the other runs a page (3) is shorter than
the longest log too. Two projects and roots give every case of the root check;
memory for one plan and two plans of one thread, made in either order, let the
older one be forgotten when the newer one comes or as soon as it comes itself,
with a crash before or after. A thread that is
unarchived or deleted by itself is left to the theorem. For the first turn five dispatches let
one attempt run through create, start and delete while the other creates in
between, or both meet in the queue of two; other clients have at least two
dispatches left for the project. In `agent_sessions` `MCMayAsk` bounds who asks:
any two requests at any time, which suffice for a turn against a deletion, a
stop, a mode change or the turn of another thread, and a third one after two
turns that ended, which is what meets a session that crashed or was swept.
`MaxServers` of 2 gives every live server a successor. The names of the threads
are interchangeable and the first request is made in `t1`. `Horizon` is the
longest sustained time, beyond which the code cannot tell durations apart; the
times 2, 1, 2, 4 in units of 15 s are those of the code (30, 15, 30, 60 s). In
the code cap and cache are 1 and 1 or 3 and 2; 2 and 1 is the smallest instance
with a cache smaller than the slots. Two slots and three threads are the least
with which a bind must evict while another thread is more recent; four calls are
the least with which the thread in the lowest slot is bound again before a third
thread needs a slot, and let a drain run between binds. Calls are numbered in
the order they are made and `MaxCalls` bounds them.

**Deadlock.** The engine runs set `CHECK_DEADLOCK FALSE` because a run ends
when its dispatches are used up and its process idles; the slots runs, because
the bridge does exit. `SystemHealth` is checked for deadlock: it never stops.

**Fairness.** `OrchestrationEngine!FairSpec` assumes weak fairness of `Worker`
(the worker is forked with `Effect.forever` and no await in it waits for
anything but the database) and of `Boot` (the unit has `Restart=on-failure`,
`backends/agent-bridge/bundle.ts:204`). No fairness is assumed of clients,
faults, crashes or checkpoints. A behaviour that crashes for ever satisfies
`EveryDispatchEnds`, since each crash empties the queue. In `SystemHealth` the
collector is an interval timer, so `Next` is weakly fair; nothing is assumed of
the values it samples. (`beat` alternates so that a tick that finds nothing new
is a step too: otherwise weak fairness would force the samples to change.) In
`ProClaudeSlots`, `Steps` is weakly fair because each await of a call settles by
itself or by a timeout (10 s, then 5 s); processes need not exit. In
`AgentSessions` one weak fairness condition covers `Progress`: some fiber that
can run does, awaited calls answer, an exit code is heard. Nothing forces the
stream of a server, dead or alive, to fail. Requests, crashes of live servers and sweeps are not in it. Only
finitely much is asked, so this is weaker than fairness to each fiber, and the
scheduler of the runtime gives at least as much. A sweep that has its candidate
ends too: it waits only for the mutex. In `ProClaudeSlots` again, only where no
signal is ignored does a process sent SIGKILL exit (`KilledExits`). A denied
signal is not in `Steps`: nothing forces it.

**Mutants.** Each property of a passing run has a mutant in `PROJECT.json`: a
slip of a definition, written next to it and marked "Mutant", with which the
property fails. No other definition uses them.

## 4. The theorems

All are proved by TLAPS (SMT, Zenon, LS4) for every value of the constants.

**Engine.** `TypeCorrect`, `CommandsTakeEffectOnce`, `ReceiptsNeverChange`,
`AnswersStayTrue`, and two on publication below. The assumptions are
`EngineAssumption` and the assumptions of `OrchestrationModel` on its constants;
`ReceiptsNeverChange` and `AnswersStayTrue` assume in addition that `powerLoss`
is not among the faults, and `engine_power_loss_ack` shows that
`AcknowledgedIsDurable` needs it.

The types alone are not inductive: `Publish` needs events, `ReplayEvent` an
entry to read, `Bootstrap` a cursor inside the log. `Typed` therefore adds
`StepsAreFed`. `ExactlyOnce` speaks of the committed database only, and COMMIT
replaces it by the open transaction: `CommitsAreWhole` carries what the open
transaction is (`TransactionExtendsLog`: the committed log followed by entries
of the command in progress, the committed receipts, no receipt of that command),
that a command just taken has appended nothing, that a command about to be
recorded as refused has no receipt, that an answer in flight is the receipt's,
and that what the disk would hold after a power loss is whole too. The proof has
one step per action. `WholeAfterCommit` is its centre: appended entries form one
run that ends at the new receipt, whichever command came before. The lemmas of
`OrchestrationModelProofs` give the types of the decider, the projections and
the snapshot, and that the snapshot sequence is the least cursor.

**Refinement.** `EngineImplementsCommandLog`: without a power loss the engine
implements `CommandLog`, the failing reconciliation included. `Commit` and
`CommitUnacknowledged` map to `Accept` (`CommitAccepts`), `RecordRejection` to
`Reject` (`RecordRejects`), the three answers to `Confirm` or `Fail`
(`AnswersConfirmOrFail`), every other step to a stutter. It rests on
`Consistent` and on `ReadModelInLog`: the receipt of a refused command names the
read model's sequence, which must be one the journal has, also at a start and
while a replay builds a new model. A loss of power is excluded because it
shortens the log, which no journal does.

**Publication.** `EventsArePublishedIncreasingly` holds of every instance:
failed reconciliations, late projectors and power losses may make subscribers
miss events, never see them out of order. `SubscribersInOrder` says that what
was published since the start increases and lies below the read model, and that
what the worker is about to publish increases too and lies above it.
`RepetitionTakesALateProjector`: without a power loss an event is given to the
subscribers of a second start only if that start left one projector behind
another. The least cursor decides what a start publishes; `PromptProjectorsLead`
says that no cursor but a late projector's falls behind the log, in the
committed tables and in the open transaction, and that a start which catches all
projectors up to one sequence begins after everything published before. That
some projector is not late is a hypothesis: a build whose projectors are all new
starts from the first event. The hypothesis on power losses is needed, since
they take cursors and events together.

**Read model.** `ReadModelStaysCurrent`, `EventsArePublishedInOrder`,
`EventsArePublishedOnce`, `IdsAreCreatedOnce`, `RootsAreShared` and
`DeletionEmptiesProjects`, for the instances
that are `Suited`: the read inside the reconciliation succeeds, no projector is
installed late, an id of a plan is proposed on one thread, no thread is proposed
more plans than memory keeps (`PlansFit`), and a page holds the events of one
command. The first two are needed, as `engine_failures` and
`engine_upgrade` show by what they leave out. The third excludes a plan that
moves between threads: the SQL row then moves with it and the memory keeps it on
both. The fourth excludes the plans that only memory forgets, for which
`ReadModelIsCurrent` is false; there TLC checks `RecentReadModelIsCurrent`. The last holds of the code, whose page is 1000 events, unless a forced
delete removes a project of more threads than that. A power loss may happen in
all of them but `EventsArePublishedOnce`, which assumes there is none, because the
log then gives sequences it already gave away to other events.

The centre is `ProjectionsAgree`: on tables that hold the same log,
`ProjectEvent` and the projectors' `Apply` do the same with an event the decider
can append (`Fitting`). From it follows that there is one path `M`, the read
model after each prefix of the log, and `Agreement` says who lies on it: the
committed tables, the open transaction, what the disk would hold, the read
model, and the one a dispatch or a replay is building (`ModelsReplayTheLog`,
`SyncedReplaysItsLog`); how far each of them is at each step (`ModelsKeepUp`);
and that what was published is the run of sequences from the one after
`StartedAt` to where the read model ends (`PublishedUpToModel`). The paths are compared, never computed, so no
induction over the log is needed. `EventsArePublishedOnce` adds that everything
given to earlier subscribers lies before that run (`RetiredIsOlder`).

The last three speak of the log as a history, and the decider reads only the
read model: `Chronicles` says what the tables remember of the log they hold,
for the committed database, the open transaction and the disk. Ids that occur in
a creation have a row, so that the decider, whose read model is the one of the
tables by `Agreement`, refuses them (`Once`); two active projects share a root
only after an update gave it to one of them (`Rooted`, `Moved`), since a creation
finds the root taken in the read model; and an active thread of a deleted
project has its creation after the deletion (`Emptied`), also in the middle of a
forced deletion, whose threads go first.

**First turn.** `AttemptsUseTheEngine`: every step of the composition is a step
of the engine or leaves it alone, so each behaviour of `DispatchSpec` is one of
`Spec` and what is proved of the engine holds of both; `AttemptsTakeEffectOnce`
is one use of it. `AttemptsDeleteOnlyTheirOwn`: without a power loss an attempt
goes on with a thread, and deletes it in the end, only after its own create was
accepted. It rests on `Consistent`, on the finality of receipts and on the
answer in flight being the one of the receipt. `StartedThreadsAreKept` has no
hypothesis but `DispatchAssumption`, which says that the ids made for attempts
are fresh: no delete of an attempt is sent, queued, in progress or in the log
before a client heard the start fail (`UndoneIsTold`); a power loss only takes
from the log, and an answer once heard stays heard. `FirstTurnsLeaveNothing`
rests on `Errands`: what an attempt at each stage knows of the log, the receipts
and the answers. It is about the attempts only if no other client creates the
thread (`OnlyAttemptsCreate`), and needs the read model to be current: it
assumes `Suited`, and no power loss.

**Pool.** `PoolTypeCorrect`, `PoolCountIsHolders`, `PoolOneServer` and
`PoolImplementsSharedServer`, for any callers that acquire without a lease and
release as they like. `PoolInv` adds to the types and the count where a live
process may be: in the entry, or with the holder of the mutex who is about to
close it, and that there is no entry while the mutex is held. The count being the number
of holders makes an idle server an unused one, which is what an eviction needs.

**Sessions.** For any number of threads, requests, servers and sweepers:
`SessionsUsePool`, every step of the composition is a step of the pool by callers
that acquire without a lease, or leaves the pool alone, so that
`SessionsShareOneServer` follows from the theorems of the pool;
`SessionsTypeCorrect`, `SessionsKeepServer`, `LeasesDoNotLeak` and
`DeletedThreadsAreEnded`. What a worker may do with a session depends on what
every other actor may be doing with it: `SessionsInv` says that a session
somebody stops is marked and out of use (`StopsAreMarked`), that the one the
worker starts is in no map and, while it acquires, has no lease
(`WorkerKnowsItsSession`), that a live process which an unmarked session uses is
the pooled one and is leased to it (`UsedServersStay`), who will return each
lease (`LeasesAreReturned`), and that a start in a thread whose deletion was
handled is one that met it (`StartsMeetDeletions`). None of the last three
properties is inductive without the others.

**Slots.** `SlotsTypeCorrect`, `ProcessesHaveSlots`, `EvictAllLeavesNoSlot`,
`ShutdownLeavesNothing`, `CachedThreadsHaveSlots`, `BindsKeepTheMostRecent`, for any
number of slots, threads and calls and any size of the cache.
`EveryProcessHasItsSlot` says nothing of calls and is far from inductive.
`SlotsInv` adds that the chain holds each unfinished call once and only its first is under
way; that slots no call works on are empty or warm; and what the call under
way knows of its slot at each await: while it saves, the slot is warm; while it
spawns, warming and bound to the call's thread; and no other slot has that
thread. `ShutdownInv` adds that the slots an `evictAll` has passed are empty,
and that the drain which the signal handler waits for is the last call of the
chain unless a bind came late. `CacheNames` adds to `CacheIsBound` that a thread
being spawned, which has its slot, is not in the cache yet: if the spawn fails
the slot goes and the cache stays. `BindsKeepTheMostRecent` needs that the cache
is not empty while a slot is warm, which `evictAll` may break on its way; when it
has ended no slot is warm (`MostRecentIsKept`).

**Health.** `HealthTypeCorrect`, `DegradationIsCurrent`, `StatesLast` (`NoFlapping`),
`GreenAndRedAreSustained` (`OneTriggerIsSustained`). The invariant `HealthInv`
relates the clock of the code to the histories: it never runs ahead of the time
spent in the state and, where the state has one trigger, of the time that
trigger was met without interruption. For yellow, which has two, the second
claim is false; this is the finding on red.

**Only model-checked.** Liveness (`EveryDispatchEnds`, `EveryTurnEnds`,
`CrashEndsSessions`, `CalmRecovers`, `CriticalTrips`, `EveryCallEnds`) needs
fairness and `ENABLED`, which are out of the prover's reach, and stays with TLC;
so does `RecentReadModelIsCurrent`. Every other invariant and action property of
a passing run is proved, with the hypotheses named above. Where a hypothesis fails TLC has the last word: the runs
with late projectors and failing reconciliations check what is left of the read
model's properties on their instances.

## 5. Abstractions to keep in mind

* One SQLite transaction is atomic and the connection is serialised; reads
  inside the worker see the committed database, since only the worker writes it.
* Every event of the catch-up at a start is a transaction of its own, as in
  `runProjectorForEvent`, so a crash may fall between any two.
* The projections of messages, activities, turns, approvals, sessions and
  checkpoints, the internal commands of providers and attachment files are left
  out. Their projectors advance cursors as those modelled do.
* Admission of slots is exact in its cap and free in its pressure checks: a
  model that computed headroom would allow fewer refusals, never more.
* A start whose COMMIT was not
  acknowledged is undone although its turn is in the log: the attempt cannot know.
* The engine's dispatches inside `AgentSessions` are single steps: what the
  engine does with them is the business of the other modules. The decider
  accepts what reactors and ingestion write, deleted threads included.
* Whether a session that is found has its thread's runtime mode is a free
  choice; the warm pool always misses, since only a hit would fill it again;
  the server of the environment variable, which is never pooled, is left out.
* What a turn does once it was sent, interrupts, approvals and user input
  change no session and are left out; so are a change of provider and a restart
  of the bridge, after which sessions are resumed from disk.
* The pools of the Cursor, Grok and ZeroClaw adapters have the shape of
  OpenCode's and are not modelled a second time.
* The callbacks of yellow (compaction, sweep of cold pools) and the actuators'
  own failures are left out: the code swallows them.

## 6. Findings

1. *A confirmed command may be lost in a power loss* (`engine_power_loss_ack`).
   `NodeSqliteClient.ts` sets `synchronous = NORMAL` on a WAL database and calls
   it "still crash-durable". It is, across a crash of the process
   (`engine_core`), but not of the machine. What is left stays consistent
   (`ExactlyOnce` in `engine_failures`).
2. *Red without sustained pressure* (`system_health_red`). In yellow one clock
   serves the triggers of both neighbours: calm ticks count towards red and
   critical ticks towards green.
3. *A warm slot whose process is dead* (`slots_warm_is_live`). Nothing watches
   a slot process, and `bind` answers with its pid.
4. *The cap instead of a switch* (`slots_tier_cap`). The composed admission
   counts idle warm slots, so `bind` is refused before the manager can evict
   one. In `slots` the eviction paths of `bind` are reached by the other
   admission.
5. *A shutdown that does not drain* (`slots_shutdown`). After a drain request,
   the drain of the shutdown answers at once; slots still being evicted, or
   bound since, keep their processes.

## 7. Plan

What is left, the most important behaviour first.

1. `ThreadProjection`: messages, turns, sessions, approvals and checkpoints in
   both projections, reverts, the internal commands of providers, attachment
   files. Extends the question of `ReadModelIsCurrent` to the projections where
   the two writings differ most, and joins `AgentSessions` to the engine.
2. Restart of the bridge in `AgentSessions`: sessions resumed from disk, turns
   whose event was committed and never published.
3. `CheckpointReactor`: references per turn against reverts.
4. `PreviewLifecycle`: mutex, admission, drain, reconciliation.
5. The tool permission gate and the token issue as small protocol modules.

Abstract specifications worth stating: a turn's life as its client sees it, for
`AgentSessions`; a bounded set of leases, for the slots.

Theorems: `RecentReadModelIsCurrent`; `IdsAreCreatedOnce`, `RootsAreShared` and `DeletionEmptiesProjects` with
fewer hypotheses: those on plans and late projectors concern other fields and
steps, while a failing reconciliation does let a stale read model decide. The
abstract specifications above, as refinements.

## 8. Not modelled

`PROJECT.json` lists every component with its reason. Most of what is not
modelled is I/O around other programs (daemons, gateway, launchers, shell
tools, images), presentation (`src/apps`, `src/packages/vps-ui`, most of the
repository's lines), formatting of configuration, or cryptography. Of the rest,
the plan names what has a protocol of its own.
