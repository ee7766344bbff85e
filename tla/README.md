# TLA+ verification of AIAuditBridge

AIAuditBridge is three systems in one repository: an asynchronous **AI task
service** (`src/src/ai_service`), the **release deployment** that installs it
(`src/deploy/vps/ci-deploy`), and a **quant monitor** (`src/ops/quant-monitor`)
that collects health data, diagnoses it and sends alerts and briefings. This
directory holds models of the parts that keep state, the TLC configurations that
check them, and proofs, for every value of the constants, of the safety properties the
passing runs check. It is built from the core outward; the last section says what
comes next.

## The system's parts

### The task service

| part | state it keeps | operations | correct when |
|---|---|---|---|
| task store and dispatcher, `runtime.py` | SQLite tables `tasks`, `events`, `messages`; a file lock `.worker.lock` | `submit`, `claim`, `report`, `message`, `cancel` on request threads; `tick`/`_advance` in the dispatcher | a task is bound to its key, is handed to its provider at most once, is settled once and for good, keeps an accepted cancellation, and counts in its project's quota until it is settled |
| webhook subscriptions, `events.py` | tables `subscriptions`, `event_deliveries`, `subscription_lifecycle`, `subscription_previous_keys`; `_subscription_lock`; remembered challenges | `subscribe`, `unsubscribe`, `status` on request threads; `flush` in the dispatcher | callbacks only to who is entitled now, nothing accepted is sent twice, limits hold, no news is lost, every delivery ends |
| native follow-up triggers, `notifications.py` | table `native_notifications` | `flush` in the dispatcher | a trigger is sent at most once |
| process and front end, `server.py`, `worker_tools.py` | a drive loop thread; the bounded request pool | route a request to a method above; `drive`: `tick`, `notifications.flush`, `events.flush`, wait a second | the drive loop advances whatever was accepted |
| providers, `providers.py`, `inference.py`, `gemini.py` | remote runs | `submit`, `poll`, `cancel`, `notify` | only seen through their answers |
| authentication, transport, client, MCP log | none that matters | decisions on one request, one HTTPS call | outside the models |

The request threads and the dispatcher share nothing but the database, the two
locks and the provider objects. `events.py` reads the runtime's `tasks` and
`events` tables; `DotEventProvider.submit` asks it for `has_active` while `tick`
submits a task; and the workers it calls come back through `claim` and `report`.

What is hard about it:

* Python's `sqlite3` opens a transaction with the first `INSERT`/`UPDATE`. A method
  that begins with `BEGIN IMMEDIATE` is atomic; a `SELECT` followed by an `UPDATE`
  is not, and other threads commit in between. The models follow that line.
* Provider calls and callbacks are made outside transactions: the answer is stored
  later, for a row that may have moved on, or never, if the process dies.
* Several processes may run `tick` on one database; the file lock serialises them,
  and the lock of a dead process falls free at any step.
* A restart may bring another configuration: projects and providers appear and go.
* Subscribing is a network challenge between a check and the write it justifies.

### The release deployment

`quant_ai_deploy.py` is a forced SSH command: stage a bundle, preflight it, drain
the service's database, stop, activate by a systemd drop-in, check health, roll
back to a pinned baseline. It keeps release directories, the drop-in and its
backups on disk, prints a receipt, and composes with the task store (the drain gate
counts its unfinished tasks, subscriptions and deliveries). Correct when only
releases that passed their preflight are served, none is started on another's
unfinished work, and the receipt is true. Hard: a failure at each step, work that
starts between the drain and the stop, and a rollback that itself fails.

### The quant monitor

Two timers start it: every half hour `health_check.sh`, once a day
`daily_briefing_pipeline.sh`. Both may also be started by hand. Its parts are
processes that meet in files.

| part | state it keeps | operations | correct when |
|---|---|---|---|
| delivery ledger, `health_cycle.py` | `alert-state/health_cycle.json` under a file lock, shared by both timers | `deliver_telegram_targets`, `_clear_alert` | a chat gets an incident's message once, an answer "no error" means it got it, and a failure that comes back is reported again |
| operational diagnosis, `health_cycle.py` | attempts, pending tasks and the last date, in a state file of the cycle and one of the consumers | in a cycle; `--diagnose-recent`, once a day; `--diagnose-latest` | each file asks about a set of errors once, and the daily consumer about one a day |
| diagnosis rehearsal, `health_cycle.py` | receipt files, each created exclusively | `run_historical_diagnosis_rehearsal` | one submission, one cancellation; a task that is not done keeps its subscription |
| health check, `health_check.sh`, `sync_*`, `health_cycle.py` | stored versions, three links a domain, `status.json`, snapshots | sync, activate, import, refresh, report, publish | both consumers of a domain read one whole artifact; an incident is closed by a check that covered everything |
| briefing summary, `briefing_summary_operation.py` | a journal, its lock and its sentinel | `execute_summary` | one task, one cancellation, one output |
| daily briefing and digest, `daily_briefing_*`, `briefing_*`, `runtime_digest.py`, `consume_daily_briefing.py`, `run_runtime_digest_once.py` | the report files; events in the delivery ledger | build, consume, record, alert, digest | a successful exit hides nothing; one digest a day |
| Binance import, inspectors, dashboard, release scripts | their own files | one-shot commands | outside the models but for the import's effect on `status.json` |

Hard: a kill between a file write and the call it announces; a sender or a service
that did what it was asked and whose answer is lost; a timer's run beside a manual
one; files of an earlier run that look like this one's; and steps of a script that
go on after a failure.

Every part is in `PROJECT.json` under `components`; what can go wrong in them is
there under `hazards`, each at its line, with the properties that cover it.

## Modules

| module | what it is |
|---|---|
| `TaskRuntime` | the task store, its clients and workers, and the dispatching processes |
| `TaskLifecycle` | the abstract promise to a task of a provider without workers |
| `TaskRuntimeProofs` | theorems about `TaskRuntime` for all constants |
| `MCTaskRuntime` | instances, symmetry and the view for TLC |
| `TaskEvents` | what notifiers see of the store: statuses and the event log |
| `EventSubscriptions` | subscriptions, the dispatcher's tick and flush, callbacks |
| `EventSubscriptionsProofs` | theorems about `EventSubscriptions` for all constants |
| `MCEventSubscriptions` | instances and symmetry for TLC |
| `ReleaseDeployment` | the forced deploy command, systemd and the service it switches |
| `ReleaseDeploymentProofs` | theorems about `ReleaseDeployment` for all constants |
| `MCReleaseDeployment` | symmetry for TLC |
| `AlertLedger` | the Telegram delivery ledger, its callers and the sender |
| `ChatDelivery` | abstract: what a delivery is to its chats and its caller; `AlertLedger` implements it |
| `DeliveryAnswers` | what one delivery may do to one chat, shared by `ChatDelivery` and `DailyBriefing` |
| `OperationalDiagnosis` | the diagnosis of a cycle and of the day |
| `DiagnosisRehearsal` | overlapping callers of the rehearsal and their receipts |
| `HealthCheck` | one health check: sync, activation, cycle, report |
| `SummaryOperation` | the journal of one briefing summary |
| `DailyBriefing` | the pipeline of a day and the manual digest run |
| `MCQuantMonitor` | the six of them, explored one at a time by TLC |
| `AlertLedgerProofs`, `SummaryOperationProofs`, `DiagnosisRehearsalProofs`, `DailyBriefingProofs` | theorems about them for all constants |
| `HealthCycleProofs` | theorems about `OperationalDiagnosis` and `HealthCheck` for all constants |

### TaskRuntime

One action is one transaction or one call to a provider. The tables are functions
of the tasks (`request`, `status`, `attempt`, `handle`, `revision`,
`reportDigest`, `cancelSent`, `events`); a provider handle is only present or not,
a report digest is the revision and status it was made of. The client methods
are one action each, because each begins with `BEGIN IMMEDIATE`; a call that is
refused, or repeats an idempotent one, changes nothing and is no step.

`tick()` is split where its transactions are:

| action | code |
|---|---|
| `TickBegin` | take the file lock, `SELECT` the abandoned submissions |
| `Classify` | one transaction: settle them as `outcome_unknown`, take the snapshot of rows |
| `SkipRow`, `RefuseQueued`, `BeginSubmit` | the head of `_advance`: known provider, deadline, policy, commit `submitting` |
| `CallSubmit` | `provider.submit`: a handle, `SubmissionRejected`, or any other exception |
| `ReadBack`, `StoreSubmit` | the `SELECT` of the status after the call and the `UPDATE` that trusts it |
| `Watch` | deadline of a running task, whether a cancellation is to be sent |
| `MarkCancel`, `SendCancel` | record `cancel_sent`, then call `provider.cancel` |
| `Poll`, `Finish` | `provider.poll` and the storing of a terminal answer |
| `TickEnd` | release the file lock |

`Crash` may hit a dispatcher anywhere and empties its memory and its lock;
`Reconfigure` is a restart with any subset of the projects and providers. Time is
the set of tasks past their deadline; `Expire` puts one there at any moment.
`calls`, `cancels`, `dropped` and `clobbered` are history: the first two count calls
to a provider, `dropped` holds the tasks whose process died between `MarkCancel` and
`SendCancel`, `clobbered` those whose newer status a stale write replaced
(see the first finding). `CancelReachesProvider` is about the call itself: a
cancellation ends in `provider.cancel`, or the task leaves `cancel_requested`, or the
process died in that one place. `CancelsOnRecord` is its safety side for every value of the
constants. Properties that fail because of that one defect are
stated for the other tasks, so that they still say everything else. The exception
is per task and per step, and never spares a task whose writes were in order.

The payloads, schemas, profile routing and request-size checks are left out: they
refuse a request before it touches the store. `get`, `messages` and the list
methods only read.

### TaskLifecycle

The promise in one page: a task is accepted within its quota, started at most once
and settled at most once, and one whose start was lost stays unknown. `TaskRuntime`
maps its statuses to phases (`PhaseOf`) for the tasks of polled providers, and TLC
checks `ImplementsLifecycle`. Worker-driven tasks do not implement it: a worker may
revive an unknown task, and the stale write unsettles settled ones.

### TaskEvents and EventSubscriptions

`TaskEvents` is the environment of the notifiers: for each task the status they
select by, and the log of the events they announce. `claimed` and the status
`recalled` (`cancel_requested` without a handle) are kept because the rule for
abandoned submissions depends on them.

In `EventSubscriptions` a subscription is a principal and a callback address (the
id is a hash of them). `row`, `lapsed`, `start` and `delivery`, `attempts` are the
tables; `delivery` splits *pending* into `due` and `waiting` for its next
attempt. Every writing transaction applies `Prune`. `Admit` takes the lock, checks
and leaves the challenge out (`asking`); `Activate` and `Refuse` are its ends.
`Unsubscribe` waits for the lock. The dispatcher goes round `StartTick`,
`TickSubmit`/`TickSubmitted` for each queued task, `Collect` (the first
transaction of `flush`, without the lock), then for each selected row `Send` or
`SkipRow` under the lock, `Answer`, which releases it, and `Store` after that.
`EndFlush` ends the round: all rows done, the lock not to be had in time, or the
time budget spent by a callback. `Lapse`, `Regrant` and `Crash` happen at any
moment. `can_access` is a callback of this class: the service answers it from its
configuration, tests change it under way, and the class rechecks it at each step,
so `Regrant` may change it anywhere.

Left out: signing keys and their rotation, and the 90-second memory of verified
callbacks, which is a challenge that succeeds at once. A deadline that cancels a
running task is `Withdraw`. Both models keep events of one project. `TaskEvents` is
written from the code, not derived from `TaskRuntime`: it writes an outcome in the step
that reads the row, so the stale writes of `TaskRuntime` are not among its behaviours.

### ReleaseDeployment

The disk is `dir`, `backup` and `dropin`; the world is the loaded `unit`, the
release `running`, whether the `config` has its pinned digest and whether the
database holds unfinished `work`. A helper goes through `execute()` label by label:

| label | code |
|---|---|
| `reserve`, `install` | `BundleStager.stage`: up to `mkdir`, then the files and the venv |
| `preflight`, `backup` | `Preflight.check`, `Switcher.backup` |
| `config1`, `config2`, `resumegate` | `config_gate`: before and after the stop, and before a resume |
| `drain1`, `drain2` | `drain` before and after the stop |
| `stop`, `resume` | `systemctl stop`, `systemctl start` |
| `write`, `reload`, `restart` | `Switcher.activate` |
| `health` | `HealthProbe.wait` and the end of the command |

`Following` is the order, `FailTo` what the `except` clauses make of an exception at
each label; `mode` is `deploy`, `rollback`, or `auto` once a deploy rolls back, and
an automatic rollback goes through the same labels from `stop` on. A step may raise
before or after it had its effect (a `systemctl` that timed out). A deploy has its
first configuration gate in `preflight`. `Traffic` begins and ends
work whenever a release runs, `Drift` changes the configuration, `Crash` ends a
helper and frees the file lock. `was`, `last` and `fit` are history: what ran when
the command began, what ran last, which releases passed their preflight. The database
is one bit: the gate only asks whether any of its three counts is not zero. What a
killed helper's `systemctl` call does after the lock is free is not modelled.

### AlertLedger

The file is a record: the legacy fingerprint, the events a health cycle owns, and a
record (status, attempts) for each event and chat. `Begin` takes the lock and demotes
what is `pending`; `Claim` persists `pending` and the ownership *before* `Send`;
`Store` writes the outcome after it, `Finish` reports. Each write may fail
(`Fault`), and the process may die at any step (`Crash`, which frees the lock).
`Send` is the world: `sent` only of a delivered message, `failed` only of one that was
not, `unknown` of either. `Clear` is `_clear_alert`. `received` counts what a chat
really got for an incident; it starts again when a clear drops a `sent` record.
A clear that fails is a step that changes nothing and is left out. A fingerprint left by the
release before targets were kept answers `legacy` without sending, and is the one
exception of `QuietMeansReached`.

`ChatDelivery` is what whoever delivers may rely on: a delivery is one step, which does to
each of its chats one of the things `DeliveryAnswers` lists, and nothing to anybody else;
only the all clear takes a health event back to its beginning. The mapping lets a
delivery take effect when it returns or dies: the chats it has claimed (`InHand`) stand as
it found them until then. `none` and `failed` are one standing, `pending` and `unknown`
another.

### OperationalDiagnosis

There are two state files: the health cycle diagnoses what it has just collected, with
its state under the monitor's root, before it writes the cycle file (`StartCycle`,
`WriteCycle`); the consumers of cycle files, `StartDaily` and `StartLatest`, share
`data/diagnosis-consumer`. `asker` is the process at work on each. It decides without a
lock (`Decide`), `Record` persists the attempt, `Ask` calls the client, `Keep` stores the
id of a task that is not done. `Midnight` and the process on the other file move the world
between any two of them.

A file knows only its own attempts, so the same set of errors may be asked about once
from each: `DiagnosedOnce` is per file. The second request carries the same idempotency
key and finds the first one's task; that is the store's promise, `OneTaskPerKey`. Two
processes on one file at once - a manual call beside the timer - would both pass the
check, and are outside the model.

### DiagnosisRehearsal

There is no lock: `Write` creates a receipt exclusively, or leaves a part of it.
The labels of a caller are the steps between two effects (`bind`, `intent`, `check`,
`submit`, ...); any of them may raise into `cleanup`, where `Retain` decides on the
subscription by `keep`. `Work`, `Late` and `Expire` are the worker and the
clocks.

### HealthCheck

`check` is the check at work. `Repos` is the repository sync, with the lock
directory that a kill leaves behind, as the script says; no later check passes it.
Per domain `Select`, `Store` and three `Activate` steps, or one of `SkipDomain`, `ApiFails`,
`ActivateFails`; then `WriteStatus`, `Binance`, `Cycle`, `Report`,
`PublishSnapshot`. A link is an artifact or `ViaCurrent`: the two consumers' links
lead to the path of the current one. `Publish` and `Age` change the world under way,
`Die` ends a check anywhere. The repository sync is one step although it goes through
the repositories one by one: nothing else here reads a half-done one.

### SummaryOperation

The journal is what its records say. `Append` succeeds, is refused before anything is
written, or breaks off and leaves the sentinel (`broken`), with the record on disk or
not. `Open` creates the file (`fresh`) or finds it; `Load` takes the lock. A service
call may have any answer; `Deadline` may pass at any step. `Accepts` is the rule of
`_Journal.state` for each kind of record; `AppendsAccepted` states it wherever an append
relies on what was read before the call's other appends and requests: the intent, the
submission, the dispatch, the doubt, the verified output, and the cancellations noted
when the deadline passed meanwhile. The two others (`NoteCancel`, and a task that `Read`
finds over) test the journal for a cancellation in the same step.

### DailyBriefing

`daily` is the pipeline's run: `Build`, `Consume`, the records and alerts in the
order of `dispatch_briefing_result`, then the digest: `Resolve`, `Fetch`, `Check`,
`Send`. `once` is the manual run: a child that sends, and a second one that must find
a duplicate. They meet in `ledger`: where each event stands with any one of the chats.
A delivery moves it by `Deliveries`, which is what `ChatDelivery` promises and `AlertLedger`
keeps; the other chats of the delivery show in what it returns. `config` is the unit's environment, with any of its
parts missing. `ConsumerDies` ends the consumer alone; the pipeline goes on to the
digest with a failed status. A death inside a record or a delivery is that record or
delivery failing, with effect or without, and a death after it.

### MCQuantMonitor

The six share no variable: `service` picks the one a behaviour is of and the others
stand still. Some of them share a file of the monitor (the ledger and the cycle's diagnosis,
the check and the consumers); each rewrites keys of its own under the lock, or takes
what the other writes as any input. They are extended, not instantiated, so that the run checks the very
definitions the theorems state and evaluates every assumption; where two of them have an
operator for the same idea, a letter of the module is in front of its name (`DTypeOK`,
`HTypeOK`, `BTypeOK`). A product would multiply the states and show nothing more; the
one place where they meet, the ledger, is an abstraction in `DailyBriefing`, and
`KeepsContract` says that the real one implements it.

## Runs

| run | instance | checks |
|---|---|---|
| `runtime_agent` | 2 tasks, 2 keys, 2 attempts, 2 processes, quota 1, 2 revisions, 1 crash, worker-driven | type; one task per key; reports, quota and claims stand; terminal statuses and cancellations stand |
| `runtime_mixed` | 2 tasks, a worker-driven and a polled provider, 2 processes, quota 2, 1 crash, 1 restart | submit once; cancel once; nothing in flight is abandoned; a polled task has a handle; `TaskLifecycle` is implemented |
| `runtime_live` | 2 tasks, both providers, 1 process, 1 crash, fair | queued tasks advance; deadlines are enforced; cancellations reach the provider |
| `events_safe` | 2 tasks, 2 events, 1 principal, 2 addresses, limit 1, backlog 1, 1 callback a flush, 2 attempts, 2 admissions, 1 each of revocation, expiry, crash | type; the limits on subscriptions and pending deliveries; no orphaned deliveries; no callback beside a challenge or after an unsubscribe of its subscription; unrepeated callbacks |
| `events_live` | 1 task, 3 events, 1 address, backlog 2, 1 callback a flush, 1 expiry, 1 crash, fair | every delivery ends |
| `deploy_safe` | 2 releases and the baseline, 2 helpers, 2 crashes, 2 changes of the configuration | type; only fit releases are served; switches are drained; backups precede replacements; receipts are true; a resume starts what was stopped |
| `quant_monitor` | 2 callers, 2 chats, 2 health events, 1 briefing event, 2 attempts, 3 deliveries, 1 fault; 2 incidents, 2 state files, 2 days, 3 calls; 2 outputs, 4 opens; 3 rehearsals; 2 domains, 2 artifacts, 2 checks, 2 faults; 1 report, 2 objects, 2 runs | type; per part: one message an incident, quiet means reached, the ledger implements `ChatDelivery`; one diagnosis from each file; one outcome, appends accepted; one rehearsal task, a pending one keeps its subscription; consumers agree, an incident is closed only whole; a quiet exit tells all, one digest |
| `runtime_terminal_overwritten`, `runtime_cancel_forgotten`, `events_skipped`, `events_replayed`, `deploy_resumes` | as the safety runs, `events_*` with 3 events and no expiry, revocation or crash, `deploy_resumes` without crash or change of configuration | one violated property each, see below |

**Bounds.** Two tasks are enough for the interactions between tasks the store has:
a shared key, a shared quota, the order of the snapshot. A quota of one is at its
limit with the first task; two attempts compete for a claim; two processes
compete for the lock, and one crash puts the other in charge of what the first
left. One crash suffices for the at-most-once properties, because each crash
leaves the same kinds of row behind; the proofs cover any number of them.
`MaxRevision`, `MaxCrashes`, `MaxReconfigs`, `Verdicts`, `MaxEvents`,
`MaxAdmissions`, `MaxRegrants`, `MaxLapses` exist only to end the run; `MaxActive`,
`MaxSubscriptions`, `MaxPending`, `MaxCallbacks` and `MaxAttempts` are the code's limits (per
policy; 4; 128; 4; 5) made small, so that each is reached. Two releases let a
deploy replace one that was deployed before it; `MaxDrifts` and `MaxCrashes` bound
the outside world of `deploy_safe`, whose commands and traffic are not bounded: its
2 helpers repeat them until each identifier is used, and roll back for ever. The event log is hidden
from the fingerprint (`VIEW WithoutEvents`) in all runtime runs but
`runtime_cancel_forgotten`, which reads it. Symmetry is used in safety runs only.
In `quant_monitor` three deliveries are the first, its repetition by the other process
and one after the all clear; one fault is a crash, a lost write or a failed
read at any step. Four opens give each process a second look at the journal after a
death; two checks with two faults are a check that fails half way and the next one that
finds its remains; two runs are the timer's and a manual one. `MaxCalls`,
`MaxFaults`, `MaxDay`, `MaxAsks`, `MaxDiagnosisFaults`, `MaxOpens`, `MaxRehearsals`, `MaxArtifact`, `MaxCheckFaults`,
`MaxChecks`, `MaxObject` and `MaxRuns` exist only to end the run; `AttemptLimit` is the
code's limit, 2. Deadlock checking is off in `quant_monitor`, whose
processes end; in every other run time, clients or the dispatcher can always take a step.

**Fairness.** `drive` in `server.py` calls `tick` and the flushes every second until
the process stops, each call returns (timeouts on every request), and a restart
begins again: weak fairness of the dispatcher's steps. In `TaskRuntime` it is
weak fairness of each process's `Dispatch`, and the liveness run has one process, as
the service's main lock allows. In `EventSubscriptions` two more: a challenge ends
(`Reply`, its request has a timeout) and a pause before a retry passes
(`RetryAny`). Crashes and admissions are finitely many: a service that dies for
ever, or a lock always held by challenges, delivers nothing. `quant_monitor` assumes no
fairness: a timer's process may die every time, and its modules promise
safety only.

**Mutants.** The operators `Faulty...` are the definition below them with a
plausible mistake; for each property, replacing the definition by one of them
makes TLC find a violation. `PROJECT.json` lists the pairs.

## What the runs found

1. **A settled task runs again** (`TerminalIsFinal`). `_advance` reads the status
   after `provider.submit` with a plain `SELECT` (`runtime.py:356`) and then writes
   `running` without looking again. A worker that the submission itself woke up can
   claim and report in between; the write makes the completed task running. It then
   takes no report any more and holds a quota place; its deadline turns it into
   `cancel_requested`, where it stays.
2. **An accepted cancellation is forgotten** (`CancelHolds`). `cancel` during a
   submission that then raises, or in a process that then dies, leaves
   `outcome_unknown`, and `claim` accepts that status and sets `running`.
3. **A task is never announced** (`CursorSkipsNothing`). `flush` filters events by
   the task's current status and moves the cursor to the last event it copied. A
   `queued` event of a task that is not submitted yet is passed for good when a later
   event of another task is copied. It needs a task stored after `tick` took its
   snapshot and a follow-up to a running one before `flush`.
4. **A deleted subscription's delivery is sent to its successor** (`NoReplay`).
   `flush` selects the rows before it takes the lock; unsubscribing and subscribing
   again in between gives the same id, and the check under the lock passes.
5. **A resume starts a release that failed** (`ResumesOldRuntime`). After a failed
   gate behind the stop, the helper starts the loaded unit. If a deploy failed at
   `daemon-reload` with the new unit loaded and its automatic rollback failed too,
   the next command's transient drain failure starts that release, although nothing
   had run it before. `ResumesWhatRan` is what holds: a command that stopped a
   running service resumes that release and no other.

## What is proved

Every safety property of a passing run is a theorem of its module's specification, for
every set and every bound the assumptions below admit.

### The task store

`TaskRuntimeProofs` proves for every finite set of tasks, every set of projects,
keys, providers, attempts and processes, and every value of the bounds:

| theorem | says |
|---|---|
| `TypeCorrect` | `TypeOK` |
| `Invariance` | the inductive invariant `Inv` |
| `AtMostOneSubmission` | `SubmitOnce` |
| `NoneInFlightIsAbandoned` | `InFlightNotAbandoned` |
| `KeysAreUnique` | `OneTaskPerKey` |
| `ReportsStand`, `ClaimsStayOpen` | `ReportStands`, `ClaimedStaysOpen` |
| `SettledStaysSettled`, `CancellationStands` | the action properties `TerminalStands`, `CancelStands` |
| `QuotaIsKept` | `QuotaHolds` |
| `CancelIsSentOnce` | `CancelSentOnce` |
| `CancelsOnRecord` | a recorded cancellation was sent, is about to be, or its process died in between |
| `PollsHaveHandles` | `PollHasHandle` |
| `RuntimeImplementsLifecycle` | the refinement `ImplementsLifecycle` of `TaskLifecycle` |

The argument. `TypeInv` is `TypeOK` with what the local variables hold at each
program counter (`LocalOK`): a dispatcher in mid-row has a task, one that stores has
a reply. On it stands

    Inv == TypeInv /\ LockInv /\ StepInv /\ TableInv

* `LockInv`: only the holder of the file lock is away from `idle`. It makes every
  fact about a dispatcher's progress a fact about one process (`OneAtWork`), so the
  steps of others cannot disturb it.
* `StepInv`: what a dispatcher may rely on at each of its steps although the
  clients go on - for instance that the task it is submitting is neither absent,
  queued nor unknown, that its provider was not called before `CallSubmit`, and that
  what it read as abandoned has at least been begun.
* `TableInv`: what each row says about its own history (`RowInv`: a task that is
  queued or absent was never handed to a provider, and so on), with the three
  invariants `OneTaskPerKey`, `ReportStands` and `ClaimedStaysOpen`.

`SubmitOnce` alone is not inductive: that a crashed submission is not repeated needs
that no status leads back to `queued`, and that nobody else is calling for the same
row, which is `LockInv`. The proof that a step keeps `Inv` is split by actor
(`ClientsTable`, `ClientsSteps`, `DispatchTable`, `DispatchSteps`), and each by
action. The two action properties follow from `Inv` and one lemma per step
(`StepKeepsFinal`). `QuotaHolds` is not part of `Inv`: `QuotaStep` shows that only
`Submit` adds to a project's unsettled tasks outside `clobbered`, and compares
cardinalities.

The last four theorems stand on `Inv`, each with an invariant of its own.

* `CancelInv` for `CancelSentOnce`: a cancellation that went out is on record, and
  (`SentOK`) what a dispatcher on its way to send one read from its snapshot is still so:
  nobody else records it meanwhile, which is the lock again.
* `RecordsAccounted` for `CancelsOnRecord`: the step that sends one may only account for the
  task it is at, because nobody else is at that step.
* `HandleInv` for `PollHasHandle`: a polled provider's task without a handle is not
  `running`, and if it is unsettled the dispatcher at work has not classified the
  rows yet or is submitting this very task. It is the reason why `Classify` settles
  whatever is left without a handle before any row is polled.
* `ApiInv` for the refinement: a polled provider's task with a handle was started once,
  and while a dispatcher submits it or gives it up, nobody else settles it, so that the
  write that hits worker-driven tasks finds it as it was. Worker-driven tasks and the
  absent map to "not there". Each action is shown to be a step of `TaskLifecycle`, or to
  move nothing the abstract task shows (`Same`); `Accept` is within the abstract quota
  because that counts no more tasks than the code does.

### Subscriptions

`EventSubscriptionsProofs` proves every safety property of `events_safe` for every set
of tasks, principals and addresses, finite or not, and every limit:

| theorem | says |
|---|---|
| `TypeCorrect` | `TypeOK` |
| `DeliveriesHaveSubscriptions` | `NoOrphans` |
| `CallbacksAreExclusive` | `SendsExclusive` |
| `LimitsHold` | `WithinLimits` |
| `AcceptedOnce` | the action property `NoResend` |

The type of the attempt counter already needs more than types: `BatchInv` says that
what a flush has in hand is due or was deleted with its subscription, and is nothing
outside a flush; `TryInv` that what is still to be made has an attempt left, so that
`Store` counts no further than the limit. `NoOrphans` is inductive once stated per
delivery (`Rooted`), because every transaction that deletes a row deletes what hangs on
it. `WithinLimits` stands on the lock: `LockInv` says one challenge at most is out and
none while a callback is; `FitInv` that the one that is out fits among the active
subscriptions although the check was made before it; `BacklogInv` that what is copied
is cut to the room the retries leave (`First` takes no more than it is given).
`SendsExclusive` stands on the lock as well: only an unsubscribe gives a subscription
up, and it waits for a callback that is out; `KeptInv` says that whoever is
sent to was looked up again under the lock, and that a row that is there has not been given
up.
`NoResend` stands on the cursor: nothing beyond it was copied and it never moves back
(`PassedInv`), so what was accepted can only be found again as a row still due, and that
is one whose answer is in hand (`AckInv`).

### The release deployment

`ReleaseDeploymentProofs` proves every property of `deploy_safe` for every set of
releases, every set of helpers and any number of crashes and changes of the
configuration:

| theorem | says |
|---|---|
| `Invariance`, `TypeCorrect` | the inductive invariant `Inv`, `TypeOK` |
| `OnlyFitReleasesServe` | `ServesOnlyFit` |
| `SwitchesAreDrained` | the action property `SwitchDrained` |
| `OriginalsArePreserved` | `OriginalPreserved` |
| `ResumesAreFaithful` | `ResumesWhatRan` |
| `ReceiptsAreTrue` | `ReceiptsTrue` |

The invariant says of the helper at work that it has the lock
(`Owned`), and what the steps behind it have established for those ahead
(`Checked`): from the second drain on nothing runs and nothing is unfinished, the
drop-in is saved until it is replaced, the disk and then the loaded unit name the
target. `WorldInv` carries the rest from one command to the next: what runs is the
loaded unit, and unfinished work belongs to it. Without it a resume, or a restart after
a crash, could start another release than the one whose work is open.

### The quant monitor

| theorem | of | says |
|---|---|---|
| `Inductive`, `TypeCorrect` | `AlertLedgerProofs` | the inductive invariant `Inv`, `TypeOK` |
| `AtMostOnce` | | `AtMostOncePerIncident` |
| `ClearReopens` | | `AllClearReopens` (no run checks it by itself: `KeepsContract` implies what it is for) |
| `QuietReached` | | the action property `QuietMeansReached` |
| `LedgerKeepsContract` | | the refinement `KeepsContract` |
| `Inductive`, `TypeCorrect` | `SummaryOperationProofs` | the inductive invariant `Inv`, `STypeOK` |
| `OneOutcomeAlways`, `AppendsAlwaysAccepted` | | `OneOutcome`, `AppendsAccepted` |
| `Inductive`, `TypeCorrect` | `DiagnosisRehearsalProofs` | the inductive invariant `Inv`, `RTypeOK` |
| `SubmitsOnceAlways`, `PendingKeeps` | | `SubmitsOnce`, `PendingKeepsSubscription` |
| `DiagnosisTypes`, `AskedOnce` | `HealthCycleProofs` | `DTypeOK`, `DiagnosedOnce` |
| `CheckTypes`, `ConsumersAlwaysAgree` | | `HTypeOK`, `ConsumersAgree` |
| `ClosesWhole` | | the action property `ClosesOnlyWhole` |
| `BriefingTypes`, `DigestAtMostOnce` | `DailyBriefingProofs` | `BTypeOK`, `DigestOnce` |
| `QuietTellsAll` | | the action property `QuietExitTellsAll` |

*The ledger*, for every set of processes, chats and events and any number of attempts,
deliveries and faults. That a chat got at most one message is not inductive: `Recorded`
says what each status means for what was received (`none` and `failed`: nothing,
`sent`: one), `Flight` that the chat in flight is `pending`, so that a process that dies
there leaves a record the next `Begin` makes `unknown` and never claims, `Locked` that
nobody else is in a delivery, and `Progress` that a call without errors has `sent` in
every chat it is done with.

*The ledger's contract.* `Hand` adds to `Inv` that a delivery which is done with a chat has
claimed, and that the chat it is at is one of those. Then each step is a step of
`ChatDelivery`: `Claim`, `Send` and `Store` move only what the mapping hides (`WorkIs`); a
delivery that fails or dies (`EndsContract`) shows at each claimed chat what its record
means by `Recorded`, and nothing at the others; one that ends well (`FinishContract`) has
`sent` at all of them, and `all_sent` if it claimed any; `Clear` reopens exactly the health
events that are `sent`, which is where the ownership written before the send is needed
(`Dropped`).

*The summary operation*, for every set of processes and outputs. Who works holds the
lock (`Holds`); one process at most created the journal (`OneCreator`), and until it
submits there is neither intent nor task on record (`Creator`); whoever reads a task back
has it on record (`Reader`); the dispatch is on record before the cancellation, and the
output before it is shown.

*The rehearsal*, for every set of callers. Without a lock the argument rests on receipts
that never go away: `Unique` is the one author of the task and the one of its
cancellation, and `Knows` says that a caller which gives up `keep` has read a task that
is over, or is the author and has not submitted it.

*The diagnosis*, for every set of incidents and any number of days, requests and faults.
What is on disk covers what was sent (`SentCovered`): an incident that was asked about
is an attempted one of the same file, a date that was used is no later than the last one.
Between the decision and the request the world moves, so `AskerInv` says what the process
at work on each file may still rely on: until it records the attempt its incident and its
date are new to that file, and after that they are on record and nothing was asked for
them; the process on the other file does not disturb it (`Elsewhere`).

*The check*, for every set of domains and any number of artifacts, checks and faults. The
two links are always through the current one (`LinksInv`), which is why a failure
between them never parts the consumers. `SyncInv` says that a domain that is done is
whole and that the work on the next one does not touch it; `UseInv` carries that to the
status a cycle reads and to the report that closes the incident.

*The briefing*, for every set of reports, any number of objects and runs. One entry of the
ledger counts the digests whichever run sends them (`DigestInv`), because the event does
not depend on the object. `QuietInv` says what each step of the pipeline knows: a builder
that did not fail has written every report it is done with, a dispatch that did not
fail has recorded what it passed, and a domain status of `ok` is the word of both.

### What the proofs assume

Only the named `ASSUME`s of the modules, which the runs evaluate: the tasks and the
events of the log are finitely many (quota and backlog are cardinalities), worker-driven
providers are providers, the baseline is none of the releases, the crypto domain is one
of the domains, `Verdicts` are terminal statuses, the absence of a thing is none of the
things, limits and bounds are naturals. `MaxAttempts`,
`AttemptLimit` (5 and 2 in the code), `MaxRevision`, `MaxDay`, `MaxArtifact` and
`MaxObject` are not zero: there is an attempt, and a first revision, day, artifact and
object.

### Only model-checked

* The four liveness properties: liveness under fairness is out of the prover's reach.
* `TypesOK` of `MCQuantMonitor`: it is the conjunction of the six type
  invariants, each of which is a theorem of its own module.
* The five violations.

No proof needs induction over data: that a bounded set of sequence numbers has the
greatest element `Max` chooses follows from the least element of a well-founded
order (`LeastNat`, `MaxOf`).

## What is not modelled

Request parsing, schemas, MCP envelopes and logging; token verification; the
outbound transport's address checks; the remote runs themselves; the inspectors,
the dashboard worker and the prompt scenarios. They keep no state that several steps depend
on. Reasons per component are in `PROJECT.json`. The native follow-up triggers, the
client's side of a deployment, the ledger of the Binance import and the scripts that
install and adopt a release are not modelled yet.

## Plan

1. *(done)* `TaskRuntime`, `TaskLifecycle`, proofs of safety; `TaskEvents`,
   `EventSubscriptions`; `ReleaseDeployment` and its proofs; the six modules of the
   quant monitor and the proofs about them.
2. *(done)* `ImplementsLifecycle` as a refinement theorem; every safety invariant and
   action property of the passing runs, but for `TypesOK`, as a theorem.
3. *(done)* The sender of `DailyBriefing` as a specification, `ChatDelivery`, that
   `AlertLedger` implements, with the refinement proved.
4. `NativeNotifications` over `TaskEvents`: mark before send, unknown outcomes after a
   crash, at most one trigger per event, and the scan of the first 100 events.
5. The release switch of `install_immutable_release.sh`.
