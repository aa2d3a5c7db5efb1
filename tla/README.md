# Entropia: a TLA+ model of its concurrent core

Entropia is a platform for backtesting trading strategies: a FastAPI backend over
PostgreSQL, Dramatiq workers over Redis, a scheduler, an autonomous research agent and
a React client. Most of its lines are sequential: views, validation, projection, parsing,
decimal arithmetic. What is hard about it is the rest: commands, workers, sweeps and a
polling event stream that meet in a few rows, with transactions that read without a lock,
sessions that keep stale copies, messages that are sent before their row is committed,
brokers that deliver twice or not at all, and a bar replay whose orders, exits and
policies interact over long sequences of bars. That part is modelled here.

Paths below are relative to `src/backend/src/entropia/` unless they begin with `src/`.

## 1. Inventory

`PROJECT.json` lists every component with its files and status, and every hazard with its
line. The components that carry protocol:

| component | state | operations | meets | hard about it | correct when |
|---|---|---|---|---|---|
| backtest run plane (`application/commands/backtest_run.py`, `application/jobs/backtest_engine.py`) | run, job, run events, Result | admit, cancel, retry; claim, checkpoints, terminal writes | queue, scheduler, API transaction | the worker commits mid-body and so drops its lock; terminal writes use the last refreshed copy; at-least-once delivery | terminal is final; a Result exists exactly for success; job, run and events agree; every run ends; a timely cancel wins |
| job recovery (`application/jobs/maintenance.py`, `apps/scheduler/__main__.py`) | `jobs` rows | stale recovery, redelivery | every queue | a stale clock is no proof of death; the last attempt | recovery strands nothing |
| data queue delivery (`application/jobs/delivery.py`, `commands/data_queue.py`) | `jobs` rows of the data queue | locked claim, terminal replay, operator redelivery | market and research data, imports | append-only work under duplicates | the work of a job is done once |
| outbox and relay (`repositories/audit.py`, `application/jobs/outbox_relay.py`) | `outbox_events` | insert in the domain transaction, locked batch | every command | ids are minted before the commit; two schedulers | each row is published, once |
| event stream (`apps/api/sse.py`, `src/frontend/src/lib/sse.ts`) | poller cursor, mailboxes, the page's last id and caches | poll, publish, replay, resync, reconnect | outbox, page | the seam between replay and live feed, overflow, restart, late commits | a loss is announced, never silent |
| market data (`application/commands/market_data.py`, `application/jobs/market_data.py`) | dataset, revisions, raw files, analyses | upload, finalize, request analysis, approve, deprecate, revise; analyse | data queue, engine | neither side locks the revision: each writes back its own copy | verification is earned |
| research data (`application/commands/research_data.py`, `application/jobs/research_data.py`) | revisions with their time policy, analysis jobs, evidence bundles | set policy, analyse, approve, revoke, revise, seal evidence | data queue, market data, engine | nobody locks the revision; a check made at the start guards a write made at the end | sealed evidence still finds what it pinned |
| agent runtime (`application/commands/agent_*.py`, `application/jobs/agent_executor.py`, `apps/agent_coordinator/`) | runtime row, directives, tasks, executor jobs | directive, pause, resume, stop; cycle; execute | run plane, queue, sweeps | the runtime lock is released at the engine's first commit; the task is written back from a copy | the engine runs once per task; controls take effect; directives start |
| roles, sign-up, proofs, idempotency keys (`application/commands/roles.py`, `role_assignment.py`, `auth.py`, `application/idempotency.py`) | accounts, keys, re-authentication proofs | sign up with the bootstrap address, assign or change a role, consume a proof | deletion, every admin action | an unlocked copy decides whether the lock is taken; two lock orders; retries | the last administrator stays; one effect per key and per proof |
| deletion, trash, purge (`application/commands/deletion.py`, `application/jobs/purge.py`) | deletion state of a root, trash entries, tombstone | delete, restore, request purge, purge | run admission, revisions, the sweep | admission locks no root; the purge job locks nothing | the trash tells the truth; nothing restored is purged; every purge job ends |
| mainboard (`application/commands/mainboard.py`) | items, their pins, the cached fingerprint | attach, patch, delete, append | readiness, trash | the fingerprint is recomputed by every writer; a session that does not flush | no patch and no recompute is lost; the report an event names is stale, and the latest goes stale with an event |
| readiness, capital plan and admission (`commands/readiness_check.py`, `allocation_plan.py`, `backtest_run.py`) | reports, plan draft and revisions, admitted manifests | check, save and freeze the plan, admit | mainboard, library, market data | a check is a series of unlocked queries, admission repeats it | an admitted run is sound and is what was checked |
| create package, package lifecycle, resolvers (`commands/create_package.py`, `jobs/create_package.py`, `commands/package_lifecycle.py`, `esp.py`) | request, scan, candidate, draft, baseline, package revisions, a resolver's trust | pre-check, submit, draft, validate, revise, approve, retire | default queue, registry | late and repeated worker results; a resolver deprecated in between | evidence is about the very draft it admits; what is published holds; admitted work ends |
| item replay (`domain/backtest/engine.py`, `execution/fills.py`, `booking.py`, `rules.py`, `scaling.py`) | position, deferred fill, resting limit, entry stop, touch exit | the ordered phases of one bar | portfolio replay | many commitments, one position; gaps; stacking, scaling, partial fills | fills are honest; position and signals are accounted for; protection only tightens |
| portfolio replay (`domain/backtest/portfolio_engine.py`, `participant.py`, `execution/arbitration.py`, `portfolio_ledger.py`) | pool ledger, the items' own ledgers, snapshot, intents, decisions, curve | the ordered phases of one instant | item replay, worker checkpoints | money is booked twice; the ledger is frozen while several items are granted capital | both books agree; grants can be carried out; conflicts leave one side; the curve is the ledger's |

Everything else (imports, trading signals, strategy drafts, agent tools, rationale
families, capabilities, sharing, manual, metric profiles, export, HTTP adapters, queries,
the frontend's views, operations) is in section 6 and in `PROJECT.json` with its reason.

How they interact. A command runs in the API's transaction
(`apps/api/deps.py`): it changes rows, adds outbox and audit rows, enqueues a `jobs` row,
and the route sends the job's message **before** the middleware commits. A worker
receives the message, loads the job and its subject, and works in transactions of its
own. The scheduler's pass relays the outbox, recovers jobs that have been RUNNING too
long and re-sends those QUEUED too long. The stream's poller reads the outbox by id and
feeds connected pages. The mainboard composes items; the Ready Check reads them with the
plan and the data they pin, and the admission repeats the check and pins what it has read.
The run's worker replays each pinned strategy bar by bar, several of them over one
pool of capital. The coordinator turns directives into tasks whose executor admits and
runs a backtest in its own process.

## 2. Modules

| module | models | rests on |
|---|---|---|
| `RunLifecycle` | abstract: what a client of a run is promised | |
| `BacktestRun`, `BacktestRunProofs` | the run plane with its job, messages, workers and sweeps | refines `RunLifecycle` |
| `Outbox` | the producers: ids minted before the commit | |
| `OutboxRelay` | the relay under overlapping schedulers | extends `Outbox` |
| `EventStream` | poller, hub, stream, browser client | extends `Outbox` |
| `EventDelivery`, `EventDeliveryProofs` | relay and stream composed over one outbox | `OutboxRelay`, `EventStream` |
| `MarketData`, `MarketDataProofs` | a dataset's commands, analysis jobs and workers | |
| `AgentRuntime`, `AgentRuntimeProofs` | Admin commands, coordinator loop, executors, sweeps | |
| `Administration` | accounts, role commands, idempotency keys, proofs | |
| `ResearchData` | a research dataset and the evidence that pins it | |
| `Records`, `RecordsProofs` | the two side by side; they share no state | `Administration`, `ResearchData` |
| `Trash` | one work object: delete, restore, purge, against admissions | |
| `CreatePackage` | one request made from code, its jobs, its packages, the resolver | |
| `LibraryProofs` | proofs about the objects of the Library | `CreatePackage`, `Trash` |
| `Mainboard`, `MainboardProofs` | items and the cached fingerprint under concurrent requests | |
| `Admission` | Ready Check, capital plan, admission, against edits | |
| `ItemReplay` | the bar replay of one strategy | |
| `CapitalPool` | abstract: what a pool of capital promises those who draw on it | |
| `PortfolioReplay` | the shared-capital replay of several | refines `CapitalPool` |
| `ReplayProofs` | proofs about what is admitted and how it is replayed | `Admission`, `ItemReplay`, `PortfolioReplay` |
| `MC*` | instances for TLC | |

Where one proof module covers two components, each component's `Init`, `Next`, `Spec` and
`TypeOK` carry the component's name (`InitPackages`, `NextPortfolio`, `SpecStream`, ...).

A database transaction is one action, taken at its commit, where the code's row locks
make it so; where it reads without a lock and writes back later, it is two or more actions
with the copy in between. Definitions whose comment begins with *Mutation* are
variants of the definition after them with one plausible bug; they are in no
specification and only show that a property can fail.

### BacktestRun

One run owns one job, so jobs are indexed by run. A worker's `seenState` and `seenJob`
are the columns its ORM session holds between transactions: the code decides and writes
from those. `Admit`/`Dispatch` are the API path (the message may precede the commit,
`Admit` is the middleware's commit; `DiscardUnknown` is the worker that finds no row),
`AdmitByRunner` the one-shot runner, which commits first. `Claim` is the body up to the
first commit, `Checkpoint` the refresh of the run row, `Resolve` the resolution of one
pinned strategy, `StartReplay` the RUNNING commit, `CancelRun`, `FailRun`, `Succeed` the
terminal writes with job and event in one transaction, `ResultConflict` the UNIQUE
constraint's refusal of a second Result, `ReplayTerminal` the redelivered message of a
finished run. `again` says that the ack is lost and the message comes back. `Lose` is a
crash or an exception: the transaction is undone and the broker may retry.
`RecoverStaleJob` and `Redeliver` are the sweeps. The heartbeat changes no state any
other part reads and is left out. What a strategy computes is left out here: a run may
succeed or fail at any step.

`SingleDelivery` is an assumption about the deployment, not a mechanism of the code:
TRUE says the stale threshold and the redelivery grace exceed every run's duration and
every queue wait, so that a sweep acts only on what is really lost. With FALSE a sweep
may act under a live worker. Both are checked; what is claimed under TRUE only is said so.

### Outbox, OutboxRelay, EventStream, EventDelivery

An event is its id. `Mint` takes the next id inside an open transaction, `Commit` and
`Rollback` end transactions in any order. `OutboxRelay` marks the oldest unpublished rows
nobody has locked (`FOR UPDATE SKIP LOCKED`) and may lose a pass before its commit.
`EventStream` has a poller with its cursor (`Boot`, `PollRead`, `Publish` are its parts), a
bounded mailbox per subscriber with an overflow flag, the replay read on reconnect with
its limit, `through` (the code's `replayed_through`), and on the page's side the last
id and the set of events its caches reflect. Mailbox and replay are sets, consumed from
the least id, because the poller publishes in ascending order. `covered` is what the
page's queries have read: a frame or a resync makes the page refetch, which reads every
committed row. `base` and `late` are history: the two cases the promise excepts are
events published before the page first connected or the process started under it, and
events committed after one with a later id (section 5). `EventDelivery` runs both
consumers over the same producers, with the fairness of each.

### MarketData

A request is `OpenRequest` (load the root and the current revision, unlocked) and one of
the commands (check the copy, write, commit). A worker delivery is `Receive`, `Claim` (the
job row lock, held to the commit; the revision is loaded unlocked), `Complete` or `Lose`.
A file is clean, doubtful or broken; the grade of an analysis is a function of the newest
file, which stands for the validation rules. `clock` orders the worker transactions, since the
engine reads the newest processed asset. A message that comes before its row is discarded
by the worker and is the same as one not sent. No fairness is assumed: no sweep covers
the data queue, so a lost message waits for an operator and no liveness holds.

### AgentRuntime

A directive and the task it becomes are one identity. `Cycle` is a coordinator
transaction under the runtime row's lock: apply the pending control to the active task,
and if that leaves the runtime unpaused, consume the next directive (HIGH first, then
oldest) into a QUEUED task and job. `Dispatch` is the send after that commit. An
executor's `Start` is its first transaction, up to the first commit inside the engine,
under the same lock; `Defer` and `FailEarly` are its other endings. After the engine, it
writes over whatever the rows say by then: `FailTask` without looking, `Interrupt` when it
finds a control pending, `Succeed` when it finds none. Checkpoints, progress and all events
but `task_cancelled` are left out; the governed tools are steps that succeed or fail. WAITING,
CHECKPOINTING and RECOVERING are assigned nowhere in the code and are not states here.

### Administration

A request is one READ COMMITTED transaction. `assign_user_role` locks the account's row
(`AssignLock`, where the client's version is compared), then takes the advisory lock of
the count (`Count`), then writes. `change_user_role` decides on an unlocked copy, counts
under the advisory lock, and reaches the row only when it writes (`CommitChange`); the
column `overwritten` remembers that this was over a role committed meanwhile. Sign-up with
the operator's bootstrap address counts under the same lock. `LateKey` and `NameTaken` are
the unique constraints, `Fail` any abort, the deadlock PostgreSQL resolves included. A
proof is looked up under its row lock (`ProofLock`) and used once. In a `session` deployment
only an account with a credential can administer, which `Admins` counts as the code does.

### ResearchData

Each command is `Open…` (read the revision, decide) and `Commit…` (write what changed); a
job is `Claim` under its own row's lock, `Record`, or `Crash`. No one locks the revision,
so `Moves` records in `disturbed` a revision that was written over a copy no longer true.
The properties except it, and the README's findings say what happens to it. Validation is
a free verdict that the time policy may exclude. `SealEvidence` pins an approved revision
with its policy. `MarketChanges` is the instrument's market link going or coming.

### Trash

The registry row's lock serialises delete, restore and purge request. `DeleteOpen` runs
the check for active runs under it, `DeleteCommit` commits: an admission, which locks
no root (`AdmitOpen`, `AdmitCommit`), may end in between, and `raced` remembers it. A
keyed delete whose key is stored writes the root but no entry (`replayed`). The purge job
is `Receive`, `Decide` (the preflight and the read of the root), `FinishPurge`, which
writes from these copies, and `LosePurge`; `Sweep` re-sends a job queued too long.
`Restore` may adopt a head that moved; `AppendOpen`/`AppendCommit` move it.

### Mainboard

A request is a transaction of several steps. An attach reads the root unlocked; a patch
locks the item (`PatchLock`: version compare), then, to pin, the root (`PinRoot`); a delete
locks the root; each then locks the workspace and computes the fingerprint (`Recompute`)
from what `SeenBy` says its session sees — the sessions do not autoflush, so an attach
misses its own item. A fingerprint is the bag of pinned revisions of the enabled items
whose root is active. `AppendRevision` and `DeleteOrRestoreElsewhere` are the others that
touch roots; `missed` collects what the next recompute will make good.

A change of the fingerprint then looks up the latest report (`ReadLatest`), unlocked and
before its commit, and writes the event that its commit sends (`AttachCommit`, `PatchCommit`,
`DeleteCommit`). A Ready Check takes no lock either: it reads the items (`CheckRead`) and
commits its report later (`CheckCommit`). The latest report is the one whose transaction began
last (`created_at` is the transaction's clock), so which of two reports it is when the second commits is
open. `late` marks the requests that had looked before the latest report changed: what they
make stale then goes unannounced (finding 20).

### Admission

Ready Check and admission are the same sequence of queries: `CheckOpen` (with the
fingerprint of the report the page shows, or with none), `CheckItems`, `CheckPlan` (which
pins a plan revision when there is one), `CheckEntries` (a query of its own for the draft),
then `CheckCommit` or `AdmitCommit`, which evaluates the blockers. Between any two the
mainboard, the plan and the library are edited. A request carries `bad`, the facts that
have been bad ever since it opened; an edit removes what changed. So `AdmittedRunIsSound`
says exactly what a lock-free check can: nothing that was bad all along is admitted. The
single validators are abstracted to `Invalid`, the pins that cannot run.

### CreatePackage

A command locks the request's row and reads it, so it is one action, with two exceptions. The
submission of a candidate reads before it waits for the lock (`SubmitOpen`, `SubmitCommit`).
An approval checks the evidence under the lock and looks up the pins by a plain query
(`ApproveOpen`), then publishes and commits (`ApproveCommit`) while whoever deprecates a
resolver takes no part in that lock; `holder` says who has the request's row between two
steps, and what an approval has found. A job
that was ever admitted may be worked on at any time, since a worker loads it unlocked, waits
and commits once: that covers late, repeated and crashed deliveries. The Pre-Check reads the
registry twice and takes two steps (`PrecheckResolve`, `PrecheckRecord`). `ActivateResolver`,
`DeprecateResolver` and `RetireResolver` change what the code depends on; `Retire`,
`AppendRevision`, `RequestValidation` and `ApproveHead` are the Library's commands on the
packages drafted.

### ItemReplay

One bar is one action, composed of operators that are the phases of the stepper in their
order: open fills (deferred, resting limit, its remainder, entry stop), the held phase
(protection, exits, one arm taken) or the entry phase, then the conflict, scaling and
end-of-bar phases. Nothing runs between them in the code. What is nondeterministic is what
the omitted parts produce: the bar, the signals, the restriction verdict, the planned size
and the room under the cap. `due`, `units`, `fair`, `excess` and `shut` are history that
only the properties read; `fair` says that every fill was `Attainable`, at a price the bar
or one of its prints reached (a print may lie outside its candle: nothing in the code
compares them, and one bar of the run has such prints). `Strategy` and `Bar` say what a
validated configuration and a validated bar look like. `Finalize` is the end of the data.

### PortfolioReplay

A step is one item's turn in one phase of one instant (carry, mandatory exits, publish,
intents, conflicts, capacity, apply, commit, final closes), in pinned order, as the code asks
them. `ledger` is the pool's, `own` the items' ledgers that the participant adapter mirrors;
`PlannedSize` is the size an item works out a second time when told its grant, against the
published equity. `rows` and `lots` are the projection's walk over the ticks. The items'
own decisions (funding, exits, results, intents) are free. `CapitalPool` knows neither ticks
nor phases: strategies open, pay for and close positions, and what they open fits the capital
settled at that moment; each turn of the replay is one of these or invisible. Money is integral and rounding to
a quantum is half-even, as in the code. `Cancel` is the worker's checkpoint between ticks.

## 3. Runs

| run | instance | distinct states | shows |
|---|---|---|---|
| `run_plane` | 2 runs, 2 workers, 1 strategy, 3 attempts, 2 losses, `SingleDelivery` | 235 947 | run, job, events and Result stay in step; the plane implements `RunLifecycle`; every admitted run ends; a cancel before the last checkpoint is honoured |
| `run_plane_overlap` | 1 run, 2 workers, sweeps under live workers | 247 588 | still one Result exactly with one RUN_SUCCEEDED; a cancel of a queued run stays final |
| `event_delivery` | 3 ids, 2 schedulers with batches of 1, 1 lost pass, 1 page, mailbox of 1, poll and replay limit 2, 1 restart | 343 721 | no silent loss, replay then live ascends, each committed row is published once and eventually, every event reaches the page |
| `market_data` | 2 jobs, 2 workers, 2 requests, 2 files, 2 revisions, 2 sends | 1 083 930 | a job is analysed once; no verified, approved or deprecated revision without a passing analysis |
| `agent_runtime` | 2 directives (one HIGH), 2 executors, 2 controls, 1 loss | 283 499 | one engine run per task, task records agree, controls are applied, directives start |
| `records` | 3 accounts, 3 requests, 1 key, 3 versions; or 2 commands, 2 workers, 2 revisions, 2 jobs, 1 bundle | 1 204 400 | an administrator remains, role changes, keys and proofs take effect as asked and once; a research job records one run, evidence holds |
| `trash` | 2 runs, 2 workers, 3 deletes, 2 purges, 1 append, 2 losses, `SingleDelivery` | 56 508 | the trash tells the truth, the root follows its state machine, every purge job ends |
| `mainboard` | 2 items on 1 root, 2 requests, 2 revisions, 2 versions, 2 reports, 2 changes elsewhere | 2 319 500 | no patch and no recompute is lost, pins only on active roots, an event names a stale report, a latest report goes stale with an event |
| `admission` | 3 items on 2 roots, 2 pins, 1 request, 3 plan versions, 1 report, 1 run, 3 edits | 1 856 844 | an admitted run is sound and is what was checked |
| `create_package` | 1 submission; jobs: 1 pre-check, 2 generations, 2 validations, 1 parse; 2 revisions, 2 uploads | 600 695 | evidence is its own draft's, what is published holds when the approval looks, ended stays ended, admitted work ends |
| `replay` | 12 strategies, bars around a price of 10, 6 bars | 71 790 | position and signals are accounted for, fills are honest, protection ratchets |
| `portfolio` | 3 items (two on one instrument, one unnamed), 4 instants, pool 12, reserve 2, 3 plans | 2 309 932 | the ledgers agree, conflicts leave one side, the curve is sound; the replay implements `CapitalPool` |

Why the bounds suffice. Every hazard of the control plane is a race of two (two deliveries
of one job, a command and a worker, a worker and a sweep, a publication and a replay), so
two actors and one or two subjects contain it; a second run is there for retries, which
relate two, and a third role request because the last administrator may be lost between
two changes and a sign-up. Losses stay below the attempts, so `AdmittedRunEnds` and
`PurgeJobEnds` are not about exhaustion. `MaxMessages` 2 is the smallest count with a
duplicate. A mailbox of one overflows at the second event, a replay limit of two is exceeded
at the third, a poll limit of two makes the poller lag. Two revisions and two files let an
analysis of one revision use another's file. One request in `admission` is enough because
requests share no state but the report, which edits leave alone; three edits can change,
restore and change again; the theorems cover more. In `mainboard` two
reports are the fewest of which one can be committed over the other and between a request's
look and its commit; two items on one work object compete for its row, one root keeps the
run small, and the theorems are about any number. Two generations, validations and
uploads let each old result meet its successor. Six bars hold an entry, a partial
fill, its remainder, a top-up, an exit and a re-entry. Three items make a holder, an earlier
and a later intent. Symmetry is used in runs without liveness only.

`CHECK_DEADLOCK FALSE` stands where the system may rest once its bounds are spent: every
run but the agent, which never rests, and the portfolio, where resting before the end
would be a fault.

### Fairness

- Run plane: weak fairness of each worker's next step (a thread that is not lost runs on),
  of receiving a waiting message (some thread is idle sooner or later), and of the sweeps
  (the scheduler's loop survives a failing pass). No command is ever owed.
- Relay: each scheduler keeps ticking, and a pass that is not lost commits.
- Stream: the poller ticks, a stream serves what it has, a page reconnects with capped
  backoff; restarts are finitely many.
- Agent: the coordinator ticks and sends, the sweep re-sends, a live executor goes on.
  Strong fairness of receiving a message: jobs that are re-sent for ever (section 5) keep
  the executors busy, but the queue is first in, first out, so none waits for ever.
- Trash: a delete that holds its lock ends, each job is swept or delivered again, and a
  worker that is not lost finishes: weak fairness of each.
- Create package: strong fairness of the work per kind of job, because a crash takes
  the request's row away and gives it back; a Pre-Check that holds the row records or dies,
  an approval that holds it commits or dies.

The other runs state safety only: nothing in the code re-sends their work.

## 4. Proofs

TLC checks the small instances, TLAPS the following for every value of the constants.

*Run plane, any overlap.* `TypeCorrect`, `OneResult`, `QueuedCancelFinal`,
`CancelStaysInTime`, `CancelIsHonoredWhenRunsEnd`. The second and third are not inductive: that no later delivery revives a queued cancel needs to
know that only a claim starts a stream (`Begun`), that a worker past its claim holds a
begun run (`WorkerBegan`), that a begun run is never cancelled as queued, and that an
unbegun run with events is a cancelled one. `StreamInv` is their conjunction. The last two
split `TimelyCancelIsHonored`: that a cancel in time stays in time is proved outright (a
thread gets past its last checkpoint only by seeing no request), and with it the liveness
property follows from the run's ending, which alone is left to fairness and to TLC.

*Run plane, `SingleDelivery`.* `SoleExecutor`, `RunJobAndResultAgreement`, `TerminalFinal`,
`Refinement`. The key is `OneDelivery` (a job's message is in the broker once or with one
thread, never both), from which `SessionIsFresh`: what a thread at work remembers is what
the rows say. With it each write maps to a step of `RunLifecycle` or to none, and
`TerminalFinal` is read off the abstract specification. `StreamTells` adds `Told`: the
events of a run are an unbroken walk, each leaving the state the one before entered, that
starts in QUEUED and ends in the state of the row. `ActiveRunHasJob`, a part of
`RunJobAndResultAgreement`, is what the ending of runs rests on: an active run has a job that
a delivery or a sweep takes up again, until its attempts are spent (finding 2). Their theorems ASSUME `SingleDelivery`; finding 1 below shows that they need it.

*Market data.* `MarketTypes`, `AnalysedOnce`, `VerificationEarned`. `Locks` says what the job
row's lock gives: a delivery past its claim has a queued job to itself. `Earned` extends
"verified has a passing analysis" to every copy in a request or a worker, since those are
written back; validation runs are append-only, so a backed copy stays backed.

*Agent runtime.* `TaskRecords`, `EngineOnce`, `PausedIsIdle`. `AgentInv` adds to them
that a queued directive is fresh and queued once, that the task of an executor in the
engine is still running, paused or cancelled, and that no two executors are in the engine
for one task: without the last, a failure could overwrite the success whose artifact is
already published.

*Event delivery.* `RelayTypes`, `PublishedOnlyOnce`: `Disjoint` says what the row locks
give, that the batches of two schedulers share no row and none holds a published one.
`NoLossIsSilent`, `TheFeedAscends`: `StreamInv` has `PollerInv` (the poller has read every
row committed in the order of its id up to the last row it read) and, for each page, `Served`:
`PageInv` relates its mailbox to the poller's cursor and its replay to `lastId` and `through`,
`Announced` is the property itself for one page. Each action moves an uncovered event from one
place on its way to the next; the overflow flag is what makes a full mailbox not a loss.

*Accounts.* `AdministratorStays`, `RolesChangeAsAsked`. The invariant says what each
program counter has established under which lock: whoever has counted holds the advisory
lock alone, so the count it acted on is still true, except for a demotion over a stale copy.

*Research data.* `JobRunsOnce`, `EvidenceHolds`. A command between its read and its commit
either still sees the revision's state or the commit disturbs it; an undisturbed frozen
revision therefore keeps its policy. `RecordsAreBoth` says that the composition is a
behaviour of each half, so what is proved of either holds of what the run checks.

*Trash, `SingleDelivery`.* `TrashIsTruthful`, `RootFollowsStateMachine`. The purge worker
locks nothing, so that what it has read still holds when it writes rests on `OneDelivery`
(one delivery of a purge job at a time) and `PendingIsQueued` (a pending entry is the one
of its queued job and nothing but that job leaves the state); `DeleteIsAlone` gives the
row lock, `TrashedRunsRaced` the exception for admissions under an open delete.

*Create package.* `EvidenceIsAboutTheDraft`, `OnlyWhatHoldsIsPublished`, `WhatEndedStays`.
`PackageInv` says that records name what exists (`NamesExist`), that each state of the request
rests on the scan, candidate, draft and run it was reached by (`StateHolds`) and that a passed
revision and an implementing draft have their evidence. A job that ends late finds the request
moved on and writes nothing, or writes what is true of the inputs it was admitted with; the
frame lemmas `CertificatesStay` and `StateStays` carry the evidence over every other step.
`ApprovalHolds` says of an approval between its two steps that evidence and baseline still
hold, since the row it has locked is what would change them, and that its draft's resolver
was active if the draft pins one; the registry it cannot hold, which is why the theorem speaks of the look.

*Mainboard.* `NoUpdateIsLost`, `NobodyIsOverwritten`. A request that has computed a
fingerprint holds the workspace's lock until its commit, so no other can write it; what its
session does not see is in `missed` (`Accounts`), and what another writes without that lock
is a change elsewhere, which `missed` collects as well. `StoredIsThere` (what is
stored counts no item that is not there) bounds the one direction in which two sessions may
differ. `EventsHold` carries the announcement from the look to the commit: the report that an
event names has the stored fingerprint, which the lock keeps until the commit replaces it with another
(`AttachAnnounces`: an attach, which does not count its own item, still leaves a live fingerprint other than
the stored), and the latest report, if it is about what is stored, is named or came late. The counts need `IsFiniteSet(Items)`, a named assumption.

*Admission.* `AdmittedRunsAreSound`, `RunsAreWhatWasChecked`. The invariant is about open
requests: their `bad` facts are bad now, their pins avoid them, a composition that goes on
is the expected one, and what was read of the plan exists and, for a named revision, is what
it was cut from (`PlanRead`). That drafts and revisions only grow (`PlanGrows`) carries it
over edits and makes it stay true of runs already admitted.

*Item replay.* `ItemIsAccounted`, `ItemFillsAreHonest`, `ItemProtectionRatchets`, of any set
of strategies and bars. A bar composes some fifteen operations, so the argument is about
what holds between any two of them: `Coherent` relates the position to its fills, its
remainder, the orders that wait, the touch exit and the signals still due. Each stage adds
what only it may assume: `Beginning` (no position of this bar yet, no order too young),
`Filling` (this bar opened at most the position that is held), `Tailing` (it may also have
closed it). One lemma per operation carries its stage on; the stages meet in `BarHolds`,
and `ReplayInv` is what is left between bars (`BetweenBars`) and after the last
(`Finished`). TLC checked `ReplayInv` on every state of `replay` before it was proved. That
a bar opens one position at most is what makes "the touch exit of another position" and
"a fill before its order could fill" impossible, and it is not one of the three
properties. The ratchet compares a bar's first and last state, which no invariant does:
`Guarded` keeps the position at the start of the bar beside the present one and is carried through the
same operations, an aftermath that moves the stop to the entry included.

*Portfolio.* `TheLedgersAgree`, `OneSideIsLeft`, `TheCurveIsSound`, `ThePoolIsImplemented`, of
any number of items, instants, plans and amounts. The inductive invariant `PortfolioInv` was
checked by TLC on every state of `portfolio` before it was proved. Its parts:
`BooksBalance` and `BooksPartByTheEntryFees` (the pool's settled and reserved money is
the sum over the items, the two books part by fees alone), `GrantsFit` (the grants not yet
applied still fit together: `PendingUpTo` sums those before an item's turn, which the
capacity phase asked in the same order as the apply phase books), `NoOpposition` through a
`Stance` per item that is its position or its passed intent, `GaveWay`, `RowsFollow`,
`CurveFollows`, `UnmarkedOnlyByAge` and `GrantsAreApplicable`. They need facts about sums of a
function over a finite set (`SumChanges`, `SumMoves`, `SumCovers`, ...). The induction
principle of the library cannot be instantiated here; `SubsetInduction` has it as a search
instead: a property of subsets that fails has a failing subset of least size
(`LeastElement`), and that one's parts contradict it. `HalfEvenRounds` bounds the
rounding by half a quantum, which is the slack that
`CapitalPool` grants. The refinement adds `Turns` (only holders are asked to pay or to close,
and an intent has a side): then an apply is the pool's `Open` - the grants fit, and
`NoOpposition` after the step says it stands against nobody - an exit its `Close`, a carry
its `Charge`, and every other turn stutters.

Assumptions: the named ASSUMEs of the modules (bounds are naturals, the "none" values are
not members, an item names no dataset, the items are finitely many, the plans have the shape
of a plan, strategies and bars that of what `StrategyConfig` and `validate_ohlcv_row` let
through), which TLC evaluates in the runs, and `SingleDelivery` where a theorem states it.
Nothing else.

Every safety property of the runs is stated by a theorem. Only model-checked: liveness and
everything that needs fairness, which is out of the prover's reach.

## 5. Where code and documentation disagree, or the code falls short

Seen while modelling. The properties say what does hold; what they except is here.

Run plane, delivery and data
1. A second executor of a run, possible once a sweep acts under a live worker, overwrites a
   success that has its Result with failed or cancelled.
2. `recover_stale_jobs` ends an exhausted job and forgets its run, which stays active.
3. Routes send the message before the middleware commits its row.
4. The poller's cursor passes ids that are not committed yet; what is lost is not announced.
5. Market data: neither approval nor analysis looks at what the other committed, so
   approved data may have a newest asset with a blocking finding.
6. Agent: the executor writes SUCCEEDED over a CANCELLED it never saw; a stop cancels
   whichever task is active; a task queued before a pause starts during it; a worker lost in
   the engine leaves its task RUNNING and its job re-sent for ever; a resumed runtime leaves
   the paused task paused.

Records
7. `change_user_role` may demote the last administrator on the strength of a stale copy, and
   writes a version that may be lower, which defeats the version check of `assign_user_role`;
   the two commands lock in opposite orders, and one is aborted when they meet.
8. Research data: `set_time_policy` begun before an approval retimes the approved revision
   (`time_policy.py` says never); a second analysis that read `analyzing` overwrites
   APPROVED or revoked; an approval begun before a revocation undoes it; a re-analysis of an
   approved revision replaces what sealed bundles point to; NEEDS_REVIEW is never left;
   the analysis parses the newest file of the dataset, not the revision's own.
9. Trash: a delete whose key is already stored, repeated after a restore, deletes the root
   without a trash entry (`deletion.py:180`); a run may be admitted on a root being deleted.

Composition and admission
10. The attach docstring says the fingerprint is stored with the item, but the session does
    not flush the new item before it is computed, so it is missing until the next recompute.
    `upsert_allocation_draft` answers that readiness is invalidated, but reports compare
    composition fingerprints only.
11. A draft's mode and its entries are two queries and may be of two drafts; the admitted run
    then pins a plan that never existed, though a sound one.

Create package
12. A submission without a version token goes on with a stale detail: it may reopen an
    APPROVED request. Submitting from `draft_created` leaves the draft's pointers.
13. A candidate generated without resolvers, after a later failed Pre-Check replaced the scan,
    can never be validated. A superseded baseline attempt stays `parsing`.
    `request_package_validation` looks at the head but certifies the request's draft, so a
    second library revision can never be validated.
14. `approve` neither locks nor checks the package's own row; its check of the pins looks at
    the registry entry, not at the resolver's package; Library approval does not re-check
    pins at all.

Replay
15. A touch exit placed for one position survives `replace_existing` (`engine.py`, where its
    comment says a later position never inherits one).
16. The remainder of a partial fill tops a position up without asking the portfolio cap
    again (`booking.py`: "never a phantom over-cap trade").
17. An entry deferred to the next bar vanishes without an event when the data ends ("never a
    silent gap in the trace").
18. `_walk_trades` promises every closed lot but never reads the closes forced at the end of
    the data. The entry commission is charged to the item's ledger and never stated to the
    pool (a test pins this). The drawdown's peak may come from equity within a tick that no
    point shows. An intent of size zero survives the conflict phase and blocks its opponent.
19. `_trailing_activated` says that the trail can only tighten, "never loosen or deactivate",
    but its threshold hangs on the average entry price: an add at a better price may switch
    an active trail off.

Between a look and the commit that rests on it
20. A report that a Ready Check commits after a change of the mainboard has looked for the
    latest one (`mainboard.py:856`), and before that change commits, goes stale without
    `readiness.became_stale`, where the docstring has it emitted whenever a mutation
    invalidates a current report. The newest by `created_at` need not be the last committed.
    Events also go by the stored fingerprint, so where that lacks an attached item (finding
    10) or an object deleted elsewhere, one may be missing or name a report that still shows
    what is live.
21. A resolver deprecated between an approval's look at the pins (`create_package.py:1265`)
    and its commit is published on: of "the exact window" `dependency_pins.py` says it closes,
    this part stays open.

## 6. Not modelled

Inside modelled components: heartbeat; wall-clock time (a timeout may fire whenever its
subject is in the state it looks for); login sessions, passwords and token expiry;
authorization; the contents of manifests, reports and events; of create package, requests
from a description, derive, import and export, and the states nothing sets
(`precheck_stale`, `rejected`); of research data, files, fields, features and the agent's
bundles; of the engine, indicators, the logic-based scaling ladder (scaling is the price-distance
ladder only), costs beyond fees and funding, metrics, provenance,
instants with two bars of one item, and `max_position_notional`.

Whole components, read and left out: rationale families (a name and its assignments, checked
unlocked and guarded by unique constraints); capabilities, strategy drafts (one row, locked
before its token is compared: sequential by construction); sharing (one row per grant, with
a visibility that follows an unlocked count); imports, trading signals and trade logs
(delivery is `MarketData`'s, the rest is parsing); agent tools (one governed call each);
manual, metric profiles, export and history, queries, HTTP adapters, heartbeat, object
storage, the frontend apart from its event client, schema and operations. Crashes of Redis
or PostgreSQL themselves are outside: both are durable by assumption. Liveness of the data
queue is not stated, since nothing in the code redelivers there.

Most lines of the repository are of those kinds - views, adapters, ORM mappings, parsers and
wording - and a model of them would only repeat them.

## 7. Plan

1. Proofs: the safety half of the other liveness properties, as `ActiveRunHasJob` and
   `CancelStaysInTime` are for the run plane: what is queued or underway has a message, a
   sweep or a worker to take it up, in the trash, create package and agent modules.
2. Composition: the admission of `Admission` before the run plane of `BacktestRun`, and the
   agent's executor over `RunLifecycle` in place of its opaque engine step.
3. Indicators and metrics as functions against reference definitions over short series.
4. The import jobs of trading signals and trade logs over the delivery protocol of
   `MarketData`, and the visibility count of sharing.
