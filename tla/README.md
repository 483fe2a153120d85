# Verification of aec-bench's execution core

This directory holds TLA+ models of the part of aec-bench that decides what is
executed, when, and what is recorded about it: the operational SQLite store, the
local scheduler and the commands that drive it, the files in which runs, trials
and artifacts are kept, the runtime of staged lifecycles, and the broker that
spends a budget of model calls. TLC checks the models on small instances; TLAPS
proves every safety property that these runs check for every value of the constants.

Paths below are relative to `src/src/aec_bench/` unless they start with `docs/`,
`tests/` or `README.md`, which are relative to `src/`.

## Inventory

aec-bench defines engineering tasks, runs model agents on them and keeps the
evidence. About 300,000 lines of Python fall into these parts.

| Part | State | Operations | Hard behaviour | Modelled |
|---|---|---|---|---|
| Operational store, `execution/operational/` | SQLite rows: runs, plans, planned trials, work items, leases, attempts, submissions | one `BEGIN IMMEDIATE` transaction per method | any number of processes; expiry by time; unique indexes | `OperationalStore` |
| Local scheduler, `execution/scheduler.py` | leased batch, futures, lost leases (in memory) | `dispatch_once`, `_schedule_retry`, `reconcile_unknown`, `cancel_active` | many transactions per operation, worker threads, heartbeats, stale `now` | `LocalScheduler` |
| Run control, `harness/run_control.py` | none of its own | start and resume a run, dispatch until idle | crash and resume, two processes, a plan revised meanwhile | `RunLaunch` up to dispatch, `LocalScheduler` from there |
| Cancel command, `cli/commands/run.py` | none | `request_cancellation` | arrives between any two calls | `LocalScheduler` |
| Harbor backend, `harness/harbor_backend.py` | transport, record, receipt, finalization files | `execute`, `cancel`, `reconcile` | uncertain submissions, crash between steps, two publishers | `LocalScheduler` (rows and job), `TrialPublication` (files) |
| Artifact trial adapter, `harness/artifact_tasks.py` | candidate attempts, snapshot files | execute a local trial | a plan changed since it was loaded | its check of the plan, in `RunLaunch` |
| Evidence run store, `ledger/evidence_run_store.py` | spec, plan and state files per run | create, draft, promote, start, close | lock file, crash between two files, power loss | `EvidenceRunStore` |
| Immutable stores, `ledger/immutable_*.py` | content-addressed files | publish, load | concurrent publishers, crash before fsync | `ImmutableByteStore` |
| Durable replace, local lock, `ledger/durability.py`, `ledger/local_lock.py` | temporary files, lock descriptors | replace, lock | crash between steps | as rename, flush and exclusion in `EvidenceRunStore` |
| Ledger writer, reader, index | append-only records, rebuildable index | write, query, rebuild | duplicate publication | writer, in `TrialPublication` |
| Lifecycle runtime, `lifecycles/runtime/` | state file, evidence transactions, ledgers, submissions, attempt files | release, open, request, submit, fail, revisit | kill after any write, overlapping hosts, recovery by rolling forward | `LifecycleRun` |
| Provider broker, `harness/provider_broker*.py` | calls, usage, one receipt | admit, invoke, meter, finalize | uncertain effects, limits, time cap, dead peer | `ProviderBroker` |
| Run progress, `execution/progress.py` | none (projection) | count rows by state | agreement with the rows | no |
| World runtime, lifecycle recording | session and world records | stages, branches, finalization | sequential assembly, domain arithmetic | no |
| Experiment runner, evolution, experimentation | results in files | fan-out, scoring | in-memory only | no |
| Adapters, agents, providers | none | call models | network I/O | no |
| Contracts, tasks, templates, datasets, generation, evaluation, CLI, TUI, web | none over time | validation, rendering, scoring | none | no |

How they interact: a planner creates a run in the evidence store and promotes
its plan. A command reads it, creates the rows of the operational store, enqueues
the plan, starts the run and dispatches with a `LocalScheduler`. `dispatch_once`
leases a batch, creates an attempt per lease, starts one thread per attempt and
waits. A thread runs the backend, which records a submission, submits an external
job, binds its identifier, collects its result and publishes it in files, writing to
the operational store as it goes. The scheduler then writes attempt, trial and work
item, perhaps schedules a retry, releases the lease and closes plan and run. `run
resume` first expires leases and asks the backend about unknown work, which may
publish what a worker left behind. Mutual exclusion is SQLite's transaction, the partial
unique index on active leases, the lock file of a run directory, and `link`, which
fails if the name exists. A lifecycle run is a directory of its own, driven by one
host at a time if all goes well. A broker is a process beside an agent, which
reaches the model provider through its socket only.

What makes it correct: a work item is leased once at a time; an external job
whose fate is unknown is never repeated; no running job is forgotten; budget and
concurrency limits hold; work item, trial, plan and run tell the same story; a
cancelled run starts nothing more; commands end and runs come to rest; what is
executed is the enqueued plan of a started run, which then cannot change; what was
published or accepted is on the disk, whole, and stays; a recovery is never refused
because of where the process before was killed; and what was spent is accounted for.

## Modules

| Module | What it is |
|---|---|
| `OperationalStore` | the store under arbitrary clients: one action per writing method |
| `LocalScheduler` | extends the store with processes, worker threads and external jobs |
| `WriteOnceStore` | abstract: a name gets its bytes once and for all |
| `ImmutableByteStore` | `publish_bytes` by its file operations; implements `WriteOnceStore` |
| `TrialPublication` | the files of a trial's result, their publishers and the rows that follow |
| `EvidenceRunStore` | the three files of a run under its lock |
| `RunLaunch` | extends it with the commands that enqueue, start and execute |
| `LifecycleRun` | one run of a lifecycle and its hosts |
| `ProviderBroker` | the broker, its clients and the provider |
| `...Proofs` | theorems about the module of that name; `RunLaunchProofs` also those about `EvidenceRunStore` |
| `SoleDispatcherProofs` | theorems about `LocalScheduler` with one dispatching process: its external effects, and the agreement of its tables |
| `MC...` | instances for TLC |

### OperationalStore

Each table is a function from identities to rows; an unused identity is
`absent`. A work item and its planned trial share an element of `Work`
(`trial_id` is `UNIQUE`) but have separate states. A method that raises rolls
back, so its failure is no step here and a branch of the client in
`LocalScheduler` (`LeaseNextRaises`, `~RetryAllowed`, `~Releasable`).

`_expire_leases` runs inside three methods and is written as functions of the
set `D` of due leases, one per table, that those actions share. The six limit
families of a lease request are one set of `Scopes` with a limit each.
`_work_item_priority_key` is `Precedes`; `Seniority` stands for the position in
(created_at, ordinal, work_id). A caller's `now` is any time not after the clock.

Left out: `cancellation_status` (written, never read), messages, timestamps no
decision reads, and `update_work_item`'s optional `available_at`, which no
caller passes. `RecordBackendSubmission` inserts the external identifier it is given, or
none, without a look at other submissions; only `BindBackendSubmissionExternalIds` looks.

### LocalScheduler

`proc[p].pc` names the next store call of process `p`. Each store call is an
action, so a second process, a worker, a cancellation or a crash can fall
between any two calls. The order of actions follows the code:

- `StartRun`, `ResumeRun`, `Cancel`: the commands, with run control's checks.
- `LeaseOne`/`LeaseNone`/`LeaseRefused`, `MarkRun`, `MarkPlan`, `CreateNext`/
  `CreateRefused`, `WorkRunning`, `TrialRunning`, `AttemptRunning`: the first half
  of `dispatch_once`. `Wake`, `HandleDone`, `Write*`, `RetryCheck`, `Requeue`,
  `Release`, `ReleaseRefused`, `Unknown*`, `CompletePlan`, `HandleEnd`, `Renew`: the
  second half and `_schedule_retry`.
- `UnknownList`, `ReconcileItem`, `Settle*`, `ReconcileEnd`: `reconcile_unknown`
  and the rest of a resume. `Cancel*`: `cancel_active`.
- `Worker*`: `HarborBackend.execute`; `job` is the external job, `Crash` ends a
  process and its threads but neither its leases nor its jobs.

Abstractions, and why they lose nothing that the properties tell apart:

- The attempt's transition and its submission's are one step (`WriteOutcome`,
  `WorkerBinds`): no code reads a submission's state, only whether there is a row and an
  external identifier.
- Within `HandleDone` the reads of work item, attempt and submission are one
  step; the writes that follow are separate. Reading the attempts of a work item
  and creating the next one are one step: only the holder of the active lease
  creates one.
- A worker may also return a retryable failure without finalization. Harbor never
  does, but the scheduler handles it and its tests use it.
- `maximum_elapsed_seconds` is `None`, its default; one candidate per attempt.
- The scheduler starts with the plan enqueued; how it got there is `RunLaunch`.
  Later starts and resumes check the enqueueing conditions (`Enqueueable`).
- Every process has the same owner string, as `start_or_resume_run`'s default gives it.

### ImmutableByteStore

`entry` is what a directory shows, `disk` what a power loss is sure to leave; a flush
of the directory makes them equal. The three flushes of `publish_bytes` (after a
link, after finding equal bytes, after a rollback) are one action with three origins.
`Rollback` may follow any link, also of a name that several publishers share, and
`withdrawn` remembers the names that it took from somebody: one who was told of the name,
or has found the file and is about to be told. `Implements` maps the abstract store to
`entry`: links are its writes and a rollback its `Withdraw`, which only the publisher that
wrote a name may do, and only before it has read the name back. The abstract store keeps
what it acknowledged except at names withdrawn from somebody.

### TrialPublication

`execute` and `reconcile` share `_publish_result`: artifacts, manifest, record,
receipt, finalization, then the rows. Each file is linked and flushed in two steps,
an error may fall on either, a process may be killed and the machine may lose
power. The worker and the resuming processes are actors with the same steps. What
`reconcile` demands of a published trial (both files, one terminal receipt) is
`ReconcilePublished`, its refusal `ReconcileRefused`.

### EvidenceRunStore and RunLaunch

A call takes the lock, decides, replaces the specification or the plan and then the
state, and returns; each replacement is a rename and a flush, and a caller may be killed
before, between and after them. `since` is the set of directories that a power loss may
restore. Two history variables tell of a start whose command was killed before its
flush: `broken` while readers see it, `undone` for versions that a power loss then took
back. `RunLaunch` adds `start_or_resume_run`: it
reads without the lock, creates rows, compares or enqueues trial by trial, starts the
run, and dispatches to the artifact adapter, which reads the plan again.

### LifecycleRun

An operation under the run's lock is one action: the sequence of file systems that its
writes make, of which the last is reached (`Ends`), or any earlier one if the host is
killed (`BreaksOff`). Steps outside the lock (candidates, request and result files) are
actions of their own. `Load` is `_load_state`, with which every operation begins:
it projects, rolls forward, synchronizes the ledgers and marks transactions committed.
`host[h].ctx` is the context that a host read earlier and goes on using.
Requests that the catalogue does not have are outcomes like `rejected` and are left out;
`failure_kind`, reasons and hashes are left out, except that an attempt is bound to
the evidence its request showed (`view`), which stands for the request's hash.
An agent may write the submission of any checkpoint: the workspace is shared, and the code
looks for changed submissions at `lifecycles/runtime/lifecycle.py:1859`.

### ProviderBroker

One connection is served after another. `broker.elapsed` is taken before `accept`, as
in the code, and used for the admission of that connection's call. Calls and usage are
kept as the counts and sums the code takes of its lists; a meter stands for tokens or
cost. `Status` and `Receipt` follow `_build_receipt`. `Held` says that the broker waits for
its peer: for the request of a connection it accepted, or for the reader of an answer.

### Variants

A definition whose comment begins with "Variant" is a plausible wrong version of the
definition after it (a dropped guard, a forgotten write, an off-by-one). No
specification uses one. Substituted for the original, it makes TLC report the
property it is listed for in `PROJECT.json`, which shows that the property depends
on that code.

## Runs

Passing:

| Run | Instance | Shows |
|---|---|---|
| `store` | 1 work item, 1 lease, 2 attempts, 2 external identifiers, any clients | `AttemptIdentity`; `HistoryFrozen`: ended leases, attempt identities and the identifier a submission was bound to are never rewritten |
| `scheduler_crash` | 1 work item, 3 leases and attempts, budget 2, 1 crash, run and trial cancellation, limit 2 | `LeaseExclusive`: never two active leases of a work item; `NoDuplicateEffect`, `NoOrphanJob`, `AttemptBudget`, `UnknownIsReconciled`; `CancellationIsFinal`: neither retry, late result, expiry nor reconciliation changes or runs work that was cancelled before it ran, or that has ended in a cancelled run |
| `scheduler_batch` | 2 work items in one batch, cancellation | `TrialAgrees`, `ClosedMeansTerminal` |
| `scheduler_limits` | 2 dispatching processes, 2 work items, limit 1 | `CapRespected`, `OneAttemptPerLease` |
| `scheduler_cancel_active` | dispatcher and `cancel_active` | `NoDuplicateEffect` |
| `scheduler_live` | 2 work items, limit 1, retries, no crash | `Settles`, `CommandsReturn` |
| `byte_store` | 3 publishers, 2 names, 2 contents, 2 power losses | `AckedDurable`: what was returned is on the disk, unless a rollback withdrew the name; `Implements`: refinement of `WriteOnceStore` |
| `publication` | 1 trial, its worker, 2 resumes, 2 power losses | `FinalizedHasEvidence`, `OneTerminalReceipt`, `SuccessHasEvidence`, `IncompleteNeedsFault` |
| `launch` | 2 commands, 1 planner, 2 versions of a plan of 2 trials, 2 kills, 2 power losses | `StartedIsWhole`, `StartStands`, `BrokenOffIsRepairable`, `ExecutedIsStarted`, `ExecutedIsEnqueued` |
| `lifecycle` | 2 hosts, 2 checkpoints, 2 requests, budget 1, 2 contents, 2 kills, 1 disturbance | `AlwaysLoadable`, `BudgetKept`, `InOrder`, `ArchiveIntact`, `AcceptedIntact`, `AcceptedStands` |
| `broker` | 2 clients, 3 requests, 2 and 1 calls, limits on 2 meters | `CallsAccounted`, `SpendBounded`, `ReceiptHonest`; `BrokerEnds`, `RequestsReturn`: the broker ends and requests return, unless a connected peer holds the broker for good |

`LeaseExclusive` under arbitrary clients is the theorem `LeaseExclusion` below.

A disagreement between the code and what the repository says of it, which TLC
finds violated; `PROJECT.json` quotes the lines:

| Run | Property | What happens |
|---|---|---|
| `lifecycle_resume` | `InterruptedResumes` | an agent is given evidence and its host is killed; the request that the next host builds shows the evidence, the durable one does not, and every later call raises "interrupted episode request identity mismatch" |

### Known disagreements

TLC finds each of these as the violation of a property that no run states, or states with
the exception named: the properties that the runs check say what is left.

In `LocalScheduler` and `OperationalStore`:

- `execution/scheduler.py:380`: the work item's state is read, a cancellation is
  confirmed, then the worker's result is written over it;
  `tests/execution/test_cancellation_retry.py:267` tests the other order only.
- `execution/scheduler.py:105`: an attempt without a submission row is confirmed
  cancelled, then its thread submits the job ("close only known outcomes", line 89).
- `harness/harbor_backend.py:541`: after a crash between the backend's write of the
  attempt and the scheduler's of the work item, the work is unknown and its terminal
  attempt is refused by every reconcile (`README.md:198`).
- `execution/operational/store.py:1137`: cancelling an active trial does not stop its
  retry ("run or trial cancellation and stop new leasing", line 256).
- `execution/scheduler.py:542`: with a backend that reports retryable failures, a
  dispatcher stalled before `schedule_retry` requeues work that another process left
  unknown with a live job (`docs/INVARIANTS.md:120`).
- `execution/scheduler.py:319`: starting one run attempts the work of another in the
  same store (`harness/run_control.py:75`).
- `execution/operational/store.py:909-968`: `record_backend_submission` inserts external
  identifiers without the look for another owner that binding takes (line 1000), and
  `execution/operational/schema.py:110-124` has no unique index, so two submissions can name one job.
  None of the repository's callers passes identifiers there; only Harbor has any, and binds them.

Elsewhere:

- `ledger/immutable_byte_store.py:168-182`: a link whose read-back fails is undone although
  another publisher may have found the file, flushed and returned. Names of artifacts are
  content-addressed (`ledger/artifact_repository.py:44-52`), so publishers do share them:
  A links, B finds A's bytes and returns, A's read-back fails and removes the name. Names
  in `withdrawn` are these; `AckedDurable` and `Implements` hold for all others.
- `ledger/durability.py:84`: a command killed between the rename and the flush of `started`
  leaves a start that a resume finds in place, does not flush, and executes; a power loss
  then takes the start back. `docs/CONTRACTS.md:546-548` says that the stable started condition
  is recorded before external execution. `ExecutedIsStarted` says that this is the only way.
- `lifecycles/runtime/lifecycle.py:1515`: of two overlapping calls, the one with the older
  context moves a submission that was accepted meanwhile away as a candidate, and later
  releases are refused. `AcceptedIntact` excludes overlapping calls, and agents that write
  another checkpoint's submission, which line 1859 looks for.
- `harness/provider_broker_runtime.py:204-217`: an accepted socket has no timeout, so a peer
  that connects and is silent, or does not read a large response, holds the broker past its
  cap; line 140 says "Serve one policy-bound broker until finalization or its time cap."
  Without the case `<>[]Held`, `BrokerEnds` and `RequestsReturn` are violated.

### Bounds

`MaxClock` is 1 or 2 with `LeaseTTL` 1, so every lease can expire under its
holder, and with 2 a renewed or second one as well. `AttemptIds`, `LeaseIds` and
`MaxNumber` exceed `MaxAttempts`, so the budget is not kept by running out of
identities; when a run of the store uses them up, creating methods are no longer
enabled and everything else goes on. One work item is enough for properties of one
history; two are used where items compete or where a run closes. `MaxCrashes` is 1:
resume after a crash is the same code whatever came before. `Backoff` is 0: with a
positive backoff a command ends idle and leaves the retry queued until the next
resume, which `Settles` would report. Deadlock is not checked because the system
may stop: commands end, and identities and the clock are bounded.

`MaxDisturbances` of `lifecycle` bounds overlapping calls and foreign submissions together:
one of either is enough for the files to differ from what a host expects, whatever
comes first. `MaxBoots` and `MaxKills` are 2, so that a recovery is itself interrupted.
`byte_store` has three publishers of one name: two that agree and one that does not.
`publication` has one trial because files of different trials meet in the manifest
only, which has the same content for all. In `lifecycle`, `MaxTransitions` is 4, a
whole run without requests; with requests a run ends before its last submission.
`MaxClock` of the broker exceeds `Timeout`, so that a call may end after it.

### Assumptions about the environment

- SQLite rows are durable when written (`synchronous = FULL`).
- Renames in one directory reach the disk in their order (`EvidenceRunStore`).
- `TrialPublication` publishes the artifacts of a trial in one durable step, as the byte
  store promises for names that no rollback withdraws (`withdrawn`).
- The plans of one run have equally many trials (`LaunchConstants`): promotion compares a
  plan's count with the specification's (`ledger/evidence_run_store.py:395`). Were one
  plan a beginning of another, the command with the shorter one would find all its rows
  enqueued and execute less than the enqueued plan.

### Fairness

`LiveSpec`: weak fairness of the run's start, of each process's
dispatch, reconcile and cancel steps and of each worker's steps: a sequential
program whose next call is enabled makes it, and Python's threads are all
scheduled. Nothing is assumed of the clock, of crashes, of other commands or of an
external job's end: a worker inspects a job once and gives up if it is not
finished, so a run settles without that assumption. `Settles` ends in terminal or
explicitly unknown work; only a resume settles the latter.

`FairBrokerSpec`: the broker's loop runs unless it is held, a provider call returns or
raises (its client has a timeout), time passes, and a client that has connected is reset
when the broker is gone. Nothing is assumed of the peer, which may stay silent for ever: the
properties name that case (`Held`).

## Proofs

`OperationalStoreProofs` proves, for all sets of runs, plans, work items, owners,
leases and attempts, all limits and all clock bounds, from the assumption
`StoreConstants` alone (typing of the constants; seniorities are distinct; `None` is
neither a work item nor a failure or reconciliation string):

| Theorem | Statement |
|---|---|
| `StoreTypeCorrect` | `StoreSpec => []StoreTypeOK` |
| `LeaseExclusion` | `StoreSpec => []LeaseExclusive` |
| `HistoryIsFrozen` | `StoreSpec => HistoryFrozen` |
| `AttemptsIdentified` | `StoreSpec => []AttemptIdentity` |
| `SelectionUnique` | two work items selected by the same request are equal |

Each of the three invariants is inductive once `StoreTypeOK` is conjoined. The
argument is the same for each table: one lemma per action shows that a step changes
the table in one of a few ways (`LeaseChange`, `AttemptChange`, `SubmissionChange`),
and the property follows from that description without looking at the actions again.
For leases: a step ends active leases, extends one, or ends some and grants a fresh one
for a work item that has no active lease then. `HistoryFrozen` follows from the same
descriptions of the three tables.

`ImmutableByteStoreProofs`, for any publishers, names and contents, from
`ByteStoreConstants` alone: `ByteStoreInvariant`, `ReturnedIsDurable` (`[]AckedDurable`)
and `ImplementsWriteOnce` (the refinement). `AckedDurable` is not inductive: `ByteStoreInv`
adds what a call under way knows (whoever linked a file still finds it; at names not
withdrawn, whoever agreed with bytes finds them there, after a flush on the disk too).

`RunLaunchProofs`, first about `EvidenceRunStore`, for any callers, versions and bounds,
and kills at any point, from `EvidenceConstants`: `EvidenceTypeCorrect`,
`StartedRunsAreWhole`, `StartsStand`, `BrokenOffCallsRepeat`. The invariant says that
what a call heads for is whole and keeps the start of the directory it found, and that
every directory a power loss may restore keeps no more than the present one; for
repair, that each of them is one a call produces or the first half of one.

Then about `RunLaunch`, for any commands, planners, plans, kills and power losses, from
`EvidenceConstants` and `LaunchConstants`: `LaunchTypeCorrect`, `LaunchedRunsAreWhole`,
`LaunchedRunsAreRepairable`, `LaunchedStartsStand` (the store's guarantees under its real
callers), `OnlyEnqueuedIsExecuted` and `OnlyStartedIsExecuted`. The steps of `RunLaunch` move the directory as the evidence store
does, whose invariants carry over. `EnqueueInv` adds that work items are made only by a
command whose whole plan agrees with the planned-trial rows, so that two such commands
have the same trials whatever their versions; `StartInv`, that a command that dispatches
has seen or made the start and that what it saw is on the disk, unless it is `broken` or
was `undone`.

`ProviderBrokerProofs`, for any clients, limits and usages, from `BrokerConstants`:
`BrokerTypeCorrect`, `CallsAreAccounted`, `SpendingIsBounded`, `ReceiptsAreHonest`. The
invariant relates the session's counts and sums to what the provider did at each
point of the loop, and says what the last response can have added.

`TrialPublicationProofs`, for any trials, resuming processes, errors, kills and power
losses, from `PublicationConstants`: `PublicationTypes`, `FinalizationsStand`
(`[]FinalizedHasEvidence`), `TerminalReceiptsAreUnique`, `SuccessIsBacked`,
`IncompleteIsFaulty`. None of the four invariants is inductive: what a publisher may link
next rests on what it, and not another publisher, has flushed. `PublicationInv` says for
each publisher which of its files are there at each step, and for each file on which
others it stands. The link of the record decides the race: only its owner writes a
terminal receipt.

`LocalSchedulerProofs`, for any processes with any commands (`cancel_active` and several
dispatchers included), runs, plans, work items, limits and crashes, from
`StoreConstants` and `SchedulerConstants`: `SchedulerTypes`, `CapIsRespected`,
`LeasesCarryOneAttempt`, `SchedulerLeasesExclude`.
`SchedulerInv` ties the record of each process to the rows: the leases of a batch carry no
attempt yet, no lease is in two batches and no attempt in two hands, and what a process
has at hand exists. A step of a process is a store call and a move of its record, shown
one by one; the invariant follows from the kind of call (`QuietCall`, `LeaseCall`,
`InsertCall`).

`SoleDispatcherProofs`, for the same, under the condition `SoleDispatcher`: at most one
process has `start` or `resume` among its commands, any number of others cancel runs and
trials, and nobody uses `cancel_active`.

| Theorem | Statement |
|---|---|
| `EffectsAreNotRepeated` | `SoleDispatcher` implies `Spec => []NoDuplicateEffect` |
| `JobsAreAccountedFor` | `SoleDispatcher` implies `Spec => []NoOrphanJob` |
| `BudgetIsKept` | `SoleDispatcher` implies `Spec => []AttemptBudget` |
| `OnlyReconciliationDecides` | `SoleDispatcher` implies `Spec => UnknownIsReconciled` |
| `CancelledStaysCancelled` | `SoleDispatcher` implies `Spec => CancellationIsFinal` |
| `TrialsAgree` | `SoleDispatcher` and `MaxCrashes = 0` imply `Spec => []TrialAgrees` |
| `ClosedRunsAreDone` | these, and no process with `cancel_trial`, imply `Spec => []ClosedMeansTerminal` |

In the first five the process may be killed at any point and started again, any number
of times. The condition is needed: with two dispatchers TLC violates each of the first four (a
dispatcher that stalled past its lease goes on writing, `execution/scheduler.py:542`),
and with `cancel_active` it violates `NoOrphanJob` and `UnknownIsReconciled` (lines 105
and 380). `SoleInv` has
four parts besides `SchedulerInv`: of the attempts of a work item all but the last are
harmless (no job of theirs runs, has succeeded or can still start) and a retryable failure
is recorded only of a harmless attempt (`HistoryInv`); work that is queued, or leased and
not yet attempted, is free to be tried again (`FreeInv`); a thread, its job and its
submission row agree (`JobInv`); and the dispatching process holds the leases, work states
and results that its label says (`DutyInv`). Its invariant was checked by TLC on the
instances of `scheduler_crash` and `scheduler_batch` before it was proved.

`CancellationIsFinal` needs besides that what a reconciliation is about to write is still
unknown (`ListedInv`): nothing else writes unknown work.

The last two are about the tables alone and hold while the machine stays up. With one
crash TLC violates `TrialAgrees` (a crash between `schedule_retry` and `release_lease`,
then a cancellation), and with `cancel_trial` `ClosedMeansTerminal` (`failed` counts as
terminal when the run is closed, and the retry queues the work again); both are listed
under the hazards below. `AgreeInv` adds to `SoleInv` in which states a work item and its
trial can be together (`Agrees`), that an active lease is held by a process or has run
out (`Lasts`), and what the dispatching process knows at each label: the leases it counts
as lost have run out (`LostDuty`), the trial it wrote has the state that it writes to the
work item next (`TrialDuty`), and the unknown work it reconciles is unleased and still
unknown (`UnknownDuty`). `ClosedInv` says that what is over is done, and that whenever a
process is about to retry work that is over, the cancellation of its run was requested,
so that `schedule_retry` refuses. TLC checked both on the instance of
`scheduler_batch` first.

`LifecycleRunProofs`, for any hosts, overlapping or not and killed after any write, and
any checkpoints, requests, prerequisites, budgets and contents, from
`LifecycleConstants`:

| Theorem | Statement |
|---|---|
| `LifecycleInvariant` | `LifecycleSpec => []LifecycleInv` |
| `RunAlwaysLoadable` | `LifecycleSpec => []AlwaysLoadable` |
| `RunBudgetKept` | `LifecycleSpec => []BudgetKept` |
| `RunInOrder` | `LifecycleSpec => []InOrder` |
| `RunArchiveIntact` | `LifecycleSpec => []ArchiveIntact` |
| `RunAcceptedIntact` | `LifecycleSpec => []AcceptedIntact` |
| `RunAcceptedStands` | `LifecycleSpec => AcceptedStands` |

`AlwaysLoadable` and `BudgetKept` are not inductive: that a load is accepted rests on what
earlier writes left. `FilesInv` says of one file system that the state has all
transactions or all but the last (`History`), that the one it lacks is of the active
checkpoint and fits the state (`Pending`), that budget and releases add up (`Accounted`),
that a release follows its prerequisites (`Prerequired`), and that the ledgers are
beginnings of the order in which they are written (`Ledgers`). `HostOK` and `SoleHost` say what
a host between two calls may assume, the latter as long as nothing was `disturbed`. An
operation is a sequence of writes, and a kill leaves any of its file systems; each
operation is therefore shown to be a `Path`, every file system of which `Grew` from the
first: it satisfies `FilesInv`, leaves the workspace alone, and keeps what was accepted.
Paths compose, so `Load`, which begins every operation, is treated once.

Only model-checked:

- Liveness (`Settles`, `CommandsReturn`, `BrokerEnds`, `RequestsReturn`), which is beyond
  the prover.
- `NoDuplicateEffect` beside `cancel_active` (`scheduler_cancel_active`); the theorem
  `EffectsAreNotRepeated` is about processes that do not use it.
- `InterruptedResumes`, which the code violates.

## Not modelled

Coverage is of the execution core. Most of the repository's lines are domain content
and its scoring, adapters to model providers, experiments over their output, data
contracts and presentation: they keep no state over time that a model checker could
explore, and the parts marked "no" above stay out. Of the modelled parts:

- Lifecycle: branching, conditional operations (`operation_store.py`), persistent
  context, power losses, a ledger line torn by a kill.
- Harbor: the translation of a record's fields and the validators of receipts.
- Artifact adapter: the candidate loop, and its refusal of retries.
- Broker: bootstrap, payload encoding, and the readers of a receipt.
- Immutable stores: trees and loads; confinement against other programs.

### Hazards that no property covers

- `execution/scheduler.py:551`: a crash between `schedule_retry` and `release_lease`,
  followed by a cancellation, leaves the work item cancelled and its trial unknown, so
  `TrialAgrees` is checked with cancellation but without a crash. Likewise a crash in
  `cancel_active` between its writes of the work item and of the trial (line 130).
- The same line: `failed` counts as terminal, so between the write of a failure and
  `schedule_retry` a trial's cancellation may close a run that the retry then queues work
  under. `ClosedMeansTerminal` is therefore checked with cancellation of the run only.
- `execution/operational/store.py:1516`: expiry frees a slot of the limit although the
  worker's job still runs; `CapRespected` bounds leases, not jobs.
- `harness/harbor_backend.py:352`: the publisher that loses a race marks the attempt
  failed, whatever the winner wrote.
- `ledger/writer.py:135`: a manifest that is found is returned without a flush, so after
  a power loss a record can be there without its run's manifest, which the next
  publication writes again.
- `harness/provider_broker_runtime.py:219`: a broker that is killed leaves no receipt.
- `harness/artifact_tasks.py:497`: the adapter refuses any attempt but the first.

## Plan

1. Done: the modules above, their runs, and proofs of the safety properties they check.
2. Theorems: `NoDuplicateEffect` with `cancel_active` beside one dispatcher.
3. An abstract work-item specification (queued, owned, settled, unknown) that
   `LocalScheduler` with one process implements.
4. Conditional operations and branching of the lifecycle runtime; the candidate loop
   of the artifact adapter.
