---------------------------- MODULE TaskRuntime ----------------------------
(***************************************************************************)
(* The durable task store of src/src/ai_service/runtime.py: project-scoped *)
(* tasks in an SQLite database, advanced by one dispatcher (tick) while    *)
(* the HTTP and MCP threads submit, claim, report, message and cancel.     *)
(*                                                                         *)
(* One action is one SQLite transaction, or one call to a provider.        *)
(* Methods that start with BEGIN IMMEDIATE are one action.  The            *)
(* connections are in Python's default mode, where a transaction starts    *)
(* with the first INSERT or UPDATE: a SELECT followed by an UPDATE is two  *)
(* actions, and another connection may commit between them.                *)
(*                                                                         *)
(* A call that is refused or repeated (Conflict, NotFound, an idempotent   *)
(* retry) changes nothing: it is a step in which the action is disabled.   *)
(*                                                                         *)
(* Operators named Faulty... are the operator below them with a plausible  *)
(* mistake; no specification uses them.                                    *)
(***************************************************************************)
EXTENDS Integers, Sequences, FiniteSets

CONSTANTS
  Tasks,           \* task identifiers (uuid4)
  Owners,          \* projects
  Keys,            \* Idempotency-Key values
  Providers,       \* names of configured providers
  CallbackDriven,  \* the providers whose results arrive from a worker
  Attempts,        \* (worker, attempt_id) pairs
  Dispatchers,     \* processes that may run tick()
  MaxActive,       \* Policy.max_active
  MaxRevision,     \* bound: material revisions of one task
  MaxCrashes,      \* bound: crashes of a dispatching process
  MaxReconfigs,    \* bound: restarts with another configuration
  Verdicts,        \* bound: the terminal statuses that reports and polls bring
  None             \* SQL NULL, and "nobody" for the file lock

ASSUME TasksAssumption == IsFiniteSet(Tasks)
ASSUME ProvidersAssumption == CallbackDriven \subseteq Providers
ASSUME BoundsAssumption == /\ MaxActive \in Nat
                           /\ MaxRevision \in Nat \ {0}
                           /\ MaxCrashes \in Nat /\ MaxReconfigs \in Nat
ASSUME NoneAssumption ==
  None \notin Tasks \cup Dispatchers \cup Attempts \cup [owner : Owners, key : Keys, provider : Providers]

TERMINAL == {"completed", "failed", "invalid_output", "cancelled"}
ASSUME VerdictsAssumption == Verdicts \subseteq TERMINAL
Unsettled == {"submitting", "cancel_requested"}
Status == {"absent", "queued", "submitting", "running", "cancel_requested",
           "outcome_unknown"} \cup TERMINAL

\* What submit() binds to an idempotency key.
Request == [owner : Owners, key : Keys, provider : Providers]
\* A report body: the materials it answers and the status it settles on.
Report == [revision : 1..MaxRevision, status : TERMINAL]

\* What a submission came back with: a handle, SubmissionRejected, or any
\* other exception.
SubmitReply == {"accepted", "rejected", "raised"}

VARIABLES
  (* the tables *)
  request,       \* owner, idem and provider columns
  status,
  created,
  attempt,       \* worker and attempt columns
  handle,        \* whether a provider handle is stored
  revision,
  reportDigest,
  cancelSent,
  events,        \* the events table: each task's events in seq order
  (* the world *)
  expired,       \* tasks whose deadline has passed
  policies,      \* owners admitted by the running configuration
  providers,     \* providers of the running configuration
  (* the dispatchers *)
  lock,          \* holder of the .worker.lock file lock
  pc, found, rows, cur, seen, reply,
  (* history, read by the properties only *)
  calls,         \* provider.submit calls per task
  cancels,       \* provider.cancel calls per task
  dropped,       \* tasks whose process died between recording a cancellation and sending it
  clobbered,     \* tasks whose newer status a stale write replaced
  crashes, reconfigs   \* counters of the bounds

db == <<request, status, created, attempt, handle, revision, reportDigest, cancelSent, events>>
world == <<expired, policies, providers>>
local == <<lock, pc, found, rows, cur, seen, reply>>
history == <<calls, cancels, dropped, clobbered, crashes, reconfigs>>
vars == <<db, world, local, history>>

Exists(t) == status[t] # "absent"
Active(o) == {t \in Tasks : Exists(t) /\ request[t].owner = o /\ status[t] \notin TERMINAL}

(***************************************************************************)
(* _state: every status change appends its event in the same transaction.  *)
(***************************************************************************)
SetStatus(t, s) ==
  /\ status' = [status EXCEPT ![t] = s]
  /\ events' = [events EXCEPT ![t] = Append(@, s)]

Init ==
  /\ request = [t \in Tasks |-> None]
  /\ status = [t \in Tasks |-> "absent"]
  /\ created = [t \in Tasks |-> 0]
  /\ attempt = [t \in Tasks |-> None]
  /\ handle = [t \in Tasks |-> FALSE]
  /\ revision = [t \in Tasks |-> 1]
  /\ reportDigest = [t \in Tasks |-> None]
  /\ cancelSent = [t \in Tasks |-> FALSE]
  /\ events = [t \in Tasks |-> << >>]
  /\ expired = {}
  /\ policies = Owners
  /\ providers = Providers
  /\ lock = None
  /\ pc = [d \in Dispatchers |-> "idle"]
  /\ found = [d \in Dispatchers |-> {}]
  /\ rows = [d \in Dispatchers |-> {}]
  /\ cur = [d \in Dispatchers |-> None]
  /\ seen = [d \in Dispatchers |-> "absent"]
  /\ reply = [d \in Dispatchers |-> "none"]
  /\ calls = [t \in Tasks |-> 0]
  /\ cancels = [t \in Tasks |-> 0]
  /\ dropped = {}
  /\ clobbered = {}
  /\ crashes = 0
  /\ reconfigs = 0

-----------------------------------------------------------------------------
(* The clients and the workers. *)

\* The key binds one request: a row for (owner, key) answers instead of a
\* second insert.
FaultyKeyFree(r) ==
  \A u \in Tasks : Exists(u) /\ status[u] \notin TERMINAL =>
                     <<request[u].owner, request[u].key>> # <<r.owner, r.key>>
KeyFree(r) ==
  \A u \in Tasks : Exists(u) => <<request[u].owner, request[u].key>> # <<r.owner, r.key>>

\* The quota counts every task that is not terminal.
FaultyQuotaFree(o) == Cardinality(Active(o)) <= MaxActive
QuotaFree(o) == Cardinality(Active(o)) < MaxActive

Submit(t, r) ==
  /\ ~Exists(t)
  /\ r.owner \in policies /\ r.provider \in providers
  /\ KeyFree(r) /\ QuotaFree(r.owner)
  /\ request' = [request EXCEPT ![t] = r]
  /\ created' = [created EXCEPT ![t] = Cardinality({u \in Tasks : Exists(u)}) + 1]
  /\ SetStatus(t, "queued")
  /\ UNCHANGED <<attempt, handle, revision, reportDigest, cancelSent, world, local, history>>

\* _agent_row: only a callback-driven provider of this task has workers.
FaultyAgentTask(t) == Exists(t) /\ request[t].provider \in providers
AgentTask(t) == Exists(t) /\ request[t].provider \in providers \cap CallbackDriven

FaultyClaimable(t) == attempt[t] = None /\ status[t] \notin TERMINAL \cup {"queued"} /\ t \notin expired
Claimable(t) == /\ attempt[t] = None
                /\ status[t] \in {"submitting", "running", "outcome_unknown"}
                /\ t \notin expired

Claim(t, a) ==
  /\ AgentTask(t) /\ Claimable(t)
  /\ attempt' = [attempt EXCEPT ![t] = a]
  /\ SetStatus(t, "running")
  /\ UNCHANGED <<request, created, handle, revision, reportDigest, cancelSent, world, local, history>>

\* The task's own worker delivers a final report on the current materials.
ReportResult(t, a, s) ==
  /\ AgentTask(t)
  /\ request[t].owner \in policies
  /\ attempt[t] = a
  /\ reportDigest[t] = None
  /\ status[t] \in {"running", "cancel_requested"}
  /\ reportDigest' = [reportDigest EXCEPT ![t] = [revision |-> revision[t], status |-> s]]
  /\ SetStatus(t, s)
  /\ UNCHANGED <<request, created, attempt, handle, revision, cancelSent, world, local, history>>

\* Only agent-mode tasks take follow-ups, and every agent-mode provider of
\* the service is callback driven.
FaultyTakesMessage(t) == /\ Exists(t) /\ request[t].provider \in CallbackDriven
                         /\ status[t] # "cancel_requested"
TakesMessage(t) == /\ Exists(t) /\ request[t].provider \in CallbackDriven
                   /\ status[t] \notin TERMINAL \cup {"cancel_requested"}

\* A follow-up with a new key: new materials, a new revision, no new status.
Message(t) ==
  /\ TakesMessage(t)
  /\ request[t].owner \in policies
  /\ revision[t] < MaxRevision
  /\ revision' = [revision EXCEPT ![t] = @ + 1]
  /\ events' = [events EXCEPT ![t] = Append(@, "message")]
  /\ UNCHANGED <<request, status, created, attempt, handle, reportDigest, cancelSent, world, local, history>>

\* What cancel() makes of a status, and whether it changes it at all.
FaultyCancellable(s) == s \notin {"absent", "outcome_unknown", "cancel_requested"}
Cancellable(s) == s \notin TERMINAL \cup {"absent", "outcome_unknown", "cancel_requested"}
CancelledForm(s) == IF s = "queued" THEN "cancelled" ELSE "cancel_requested"

Cancel(t) ==
  /\ Cancellable(status[t])
  /\ SetStatus(t, CancelledForm(status[t]))
  /\ UNCHANGED <<request, created, attempt, handle, revision, reportDigest, cancelSent, world, local, history>>

-----------------------------------------------------------------------------
(* The dispatcher: tick() and _advance(). *)

Goto(d, l) == pc' = [pc EXCEPT ![d] = l]

FaultyAbandonedClaimed(t) == \/ status[t] = "submitting"
                             \/ status[t] = "cancel_requested" /\ ~handle[t]
FaultyAbandonedCancel(t) == attempt[t] = None /\ status[t] = "submitting"
Abandoned(t) == /\ attempt[t] = None
                /\ \/ status[t] = "submitting"
                   \/ status[t] = "cancel_requested" /\ ~handle[t]

FaultyLockFree == TRUE
LockFree == lock = None

\* Take the file lock and read which submissions nobody is making any more.
TickBegin(d) ==
  /\ pc[d] = "idle" /\ LockFree
  /\ lock' = d
  /\ found' = [found EXCEPT ![d] = {t \in Tasks : Abandoned(t)}]
  /\ Goto(d, "classify")
  /\ UNCHANGED <<db, world, rows, cur, seen, reply, history>>

\* The statuses tick() looks at.
FaultyAdvanceableQueued == {"running", "cancel_requested"}
Advanceable == {"queued", "running", "cancel_requested"}

\* One transaction: settle what was read as abandoned, and take the snapshot
\* of the tasks to advance.
Classify(d) ==
  /\ pc[d] = "classify"
  /\ status' = [t \in Tasks |-> IF t \in found[d] THEN "outcome_unknown" ELSE status[t]]
  /\ events' = [t \in Tasks |-> IF t \in found[d] THEN Append(events[t], "outcome_unknown") ELSE events[t]]
  /\ clobbered' = clobbered \cup {t \in found[d] : ~Abandoned(t)}
  /\ rows' = [rows EXCEPT ![d] =
       {[task |-> t, sent |-> cancelSent[t]] :
          t \in {u \in Tasks : status'[u] \in Advanceable}}]
  /\ found' = [found EXCEPT ![d] = {}]
  /\ Goto(d, "next")
  /\ UNCHANGED <<request, created, attempt, handle, revision, reportDigest, cancelSent,
                 world, lock, cur, seen, reply, calls, cancels, dropped, crashes, reconfigs>>

\* The next row of the snapshot, in created order.
Take(d, r) ==
  /\ pc[d] = "next"
  /\ r \in rows[d]
  /\ \A q \in rows[d] : created[r.task] <= created[q.task]
  /\ rows' = [rows EXCEPT ![d] = @ \ {r}]

Known(t) == request[t].provider \in providers

\* The provider is gone from the configuration, or the task has moved on.
SkipRow(d, r) ==
  /\ Take(d, r)
  /\ ~Known(r.task) \/ status[r.task] \notin Advanceable
  /\ UNCHANGED <<db, world, lock, pc, found, cur, seen, reply, history>>

\* A queued task that must not be submitted any more.
RefuseQueued(d, r) ==
  /\ Take(d, r)
  /\ Known(r.task) /\ status[r.task] = "queued"
  /\ \/ r.task \in expired /\ SetStatus(r.task, "cancelled")
     \/ r.task \notin expired /\ request[r.task].owner \notin policies /\ SetStatus(r.task, "failed")
  /\ UNCHANGED <<request, created, attempt, handle, revision, reportDigest, cancelSent,
                 world, lock, pc, found, cur, seen, reply, history>>

\* Commit "submitting" before the provider is called.
BeginSubmit(d, r) ==
  /\ Take(d, r)
  /\ Known(r.task) /\ status[r.task] = "queued"
  /\ r.task \notin expired /\ request[r.task].owner \in policies
  /\ SetStatus(r.task, "submitting")
  /\ cur' = [cur EXCEPT ![d] = r.task]
  /\ Goto(d, "call")
  /\ UNCHANGED <<request, created, attempt, handle, revision, reportDigest, cancelSent,
                 world, lock, found, seen, reply, history>>

\* provider.submit, outside any transaction.
CallSubmit(d) ==
  /\ pc[d] = "call"
  /\ \E outcome \in SubmitReply : reply' = [reply EXCEPT ![d] = outcome]
  /\ calls' = [calls EXCEPT ![cur[d]] = @ + 1]
  /\ Goto(d, "readback")
  /\ UNCHANGED <<db, world, lock, found, rows, cur, seen, cancels, dropped, clobbered, crashes, reconfigs>>

\* The SELECT after the call.  Without a handle the outcome is stored only
\* for a task nobody claimed.
ReadBack(d) ==
  /\ pc[d] = "readback"
  /\ seen' = [seen EXCEPT ![d] = status[cur[d]]]
  /\ IF \/ reply[d] = "accepted"
        \/ status[cur[d]] \in Unsettled /\ attempt[cur[d]] = None
     THEN Goto(d, "store") /\ UNCHANGED <<cur, reply>>
     ELSE /\ Goto(d, "next")
          /\ cur' = [cur EXCEPT ![d] = None]
          /\ reply' = [reply EXCEPT ![d] = "none"]
  /\ UNCHANGED <<db, world, lock, found, rows, history>>

FaultyOutcomeRetry(d) ==
  CASE reply[d] = "accepted" -> IF seen[d] = "cancel_requested" THEN "cancel_requested" ELSE "running"
    [] reply[d] = "rejected" -> "failed"
    [] OTHER -> "queued"
FaultyOutcomeWord(d) == IF reply[d] = "accepted" THEN "running" ELSE reply[d]
Outcome(d) ==
  CASE reply[d] = "accepted" -> IF seen[d] = "cancel_requested" THEN "cancel_requested" ELSE "running"
    [] reply[d] = "rejected" -> "failed"
    [] OTHER -> "outcome_unknown"

\* The UPDATE after that SELECT: it trusts the status that was read.
StoreSubmit(d) ==
  /\ pc[d] = "store"
  /\ handle' = IF reply[d] = "accepted" THEN [handle EXCEPT ![cur[d]] = TRUE] ELSE handle
  /\ IF seen[d] \in Unsettled
     THEN /\ SetStatus(cur[d], Outcome(d))
          /\ clobbered' = IF status[cur[d]] \in {seen[d], Outcome(d)}
                          THEN clobbered ELSE clobbered \cup {cur[d]}
     ELSE UNCHANGED <<status, events, clobbered>>
  /\ cur' = [cur EXCEPT ![d] = None]
  /\ seen' = [seen EXCEPT ![d] = "absent"]
  /\ reply' = [reply EXCEPT ![d] = "none"]
  /\ Goto(d, "next")
  /\ UNCHANGED <<request, created, attempt, revision, reportDigest, cancelSent,
                 world, lock, found, rows, calls, cancels, dropped, crashes, reconfigs>>

FaultyOverdue(t) == /\ t \in expired /\ status[t] = "running"
                    /\ request[t].provider \notin CallbackDriven
Overdue(t) == t \in expired /\ status[t] = "running"

\* A started task: cancel it past its deadline, then see what is to be sent.
\* A worker's task has no more to do here than a cancellation.
Watch(d, r) ==
  LET now == IF Overdue(r.task) THEN "cancel_requested" ELSE status[r.task]
      send == now = "cancel_requested" /\ ~r.sent
      poll == request[r.task].provider \notin CallbackDriven
  IN /\ Take(d, r)
     /\ Known(r.task) /\ status[r.task] \in {"running", "cancel_requested"}
     /\ IF now = status[r.task] THEN UNCHANGED <<status, events>> ELSE SetStatus(r.task, now)
     /\ Goto(d, IF send THEN "mark" ELSE IF poll THEN "poll" ELSE "next")
     /\ cur' = [cur EXCEPT ![d] = IF send \/ poll THEN r.task ELSE None]
     /\ UNCHANGED <<request, created, attempt, handle, revision, reportDigest, cancelSent,
                    world, lock, found, seen, reply, history>>

\* The cancellation is recorded before it is sent ...
FaultyRecordCancel(t) == UNCHANGED cancelSent
RecordCancel(t) == cancelSent' = [cancelSent EXCEPT ![t] = TRUE]

\* Mutant: the tick that records it leaves the sending to the next one.
FaultyMarkCancel(d) ==
  /\ pc[d] = "mark"
  /\ RecordCancel(cur[d])
  /\ Goto(d, "next")
  /\ cur' = [cur EXCEPT ![d] = None]
  /\ UNCHANGED <<request, status, created, attempt, handle, revision, reportDigest, events,
                 world, lock, found, rows, seen, reply, history>>
MarkCancel(d) ==
  /\ pc[d] = "mark"
  /\ RecordCancel(cur[d])
  /\ Goto(d, "send")
  /\ UNCHANGED <<request, status, created, attempt, handle, revision, reportDigest, events,
                 world, lock, found, rows, cur, seen, reply, history>>

\* ... and an error of provider.cancel is ignored.
SendCancel(d) ==
  /\ pc[d] = "send"
  /\ cancels' = [cancels EXCEPT ![cur[d]] = @ + 1]
  /\ IF request[cur[d]].provider \in CallbackDriven
     THEN Goto(d, "next") /\ cur' = [cur EXCEPT ![d] = None]
     ELSE Goto(d, "poll") /\ UNCHANGED cur
  /\ UNCHANGED <<db, world, lock, found, rows, seen, reply, calls, dropped, clobbered, crashes, reconfigs>>

\* provider.poll: an exception or a status that is not terminal ends the row.
Poll(d) ==
  /\ pc[d] = "poll"
  /\ \/ /\ Goto(d, "next")
        /\ cur' = [cur EXCEPT ![d] = None]
        /\ UNCHANGED reply
     \/ /\ Goto(d, "finish")
        /\ \E s \in Verdicts : reply' = [reply EXCEPT ![d] = s]
        /\ UNCHANGED cur
  /\ UNCHANGED <<db, world, lock, found, rows, seen, history>>

\* The provider's answer is stored whatever the status has become.
Finish(d) ==
  /\ pc[d] = "finish"
  /\ SetStatus(cur[d], reply[d])
  /\ cur' = [cur EXCEPT ![d] = None]
  /\ reply' = [reply EXCEPT ![d] = "none"]
  /\ Goto(d, "next")
  /\ UNCHANGED <<request, created, attempt, handle, revision, reportDigest, cancelSent,
                 world, lock, found, rows, seen, history>>

TickEnd(d) ==
  /\ pc[d] = "next" /\ rows[d] = {}
  /\ Goto(d, "idle")
  /\ lock' = None
  /\ UNCHANGED <<db, world, found, rows, cur, seen, reply, history>>

Dispatch(d) ==
  \/ TickBegin(d) \/ Classify(d) \/ CallSubmit(d) \/ ReadBack(d) \/ StoreSubmit(d)
  \/ MarkCancel(d) \/ SendCancel(d) \/ Poll(d) \/ Finish(d) \/ TickEnd(d)
  \/ \E r \in rows[d] : SkipRow(d, r) \/ RefuseQueued(d, r) \/ BeginSubmit(d, r) \/ Watch(d, r)

-----------------------------------------------------------------------------
(* The world. *)

Expire(t) ==
  /\ Exists(t) /\ status[t] \notin TERMINAL /\ t \notin expired
  /\ expired' = expired \cup {t}
  /\ UNCHANGED <<db, policies, providers, local, history>>

\* The process dies between two steps: its memory is gone and the operating
\* system drops its file lock.
Crash(d) ==
  /\ pc[d] # "idle" /\ crashes < MaxCrashes
  /\ crashes' = crashes + 1
  /\ lock' = None
  /\ Goto(d, "idle")
  /\ found' = [found EXCEPT ![d] = {}]
  /\ rows' = [rows EXCEPT ![d] = {}]
  /\ cur' = [cur EXCEPT ![d] = None]
  /\ seen' = [seen EXCEPT ![d] = "absent"]
  /\ reply' = [reply EXCEPT ![d] = "none"]
  /\ dropped' = IF pc[d] = "send" THEN dropped \cup {cur[d]} ELSE dropped
  /\ UNCHANGED <<db, world, calls, cancels, clobbered, reconfigs>>

\* The service is started again with another configuration.
Reconfigure ==
  /\ lock = None /\ reconfigs < MaxReconfigs
  /\ reconfigs' = reconfigs + 1
  /\ policies' \in SUBSET Owners
  /\ providers' \in SUBSET Providers
  /\ UNCHANGED <<db, expired, local, calls, cancels, dropped, clobbered, crashes>>

Clients ==
  \E t \in Tasks :
    \/ \E r \in Request : Submit(t, r)
    \/ \E a \in Attempts : Claim(t, a)
    \/ \E a \in Attempts, s \in Verdicts : ReportResult(t, a, s)
    \/ Message(t) \/ Cancel(t) \/ Expire(t)

Next == Clients \/ (\E d \in Dispatchers : Dispatch(d) \/ Crash(d)) \/ Reconfigure

Spec == Init /\ [][Next]_vars

\* The drive loop of server.py calls tick() again and again.
Fairness == \A d \in Dispatchers : WF_vars(Dispatch(d))
FairSpec == Spec /\ Fairness

-----------------------------------------------------------------------------
(* Properties. *)

\* Every variable has its type.
TypeOK ==
  /\ request \in [Tasks -> Request \cup {None}]
  /\ status \in [Tasks -> Status]
  /\ created \in [Tasks -> Nat]
  /\ attempt \in [Tasks -> Attempts \cup {None}]
  /\ handle \in [Tasks -> BOOLEAN]
  /\ revision \in [Tasks -> 1..MaxRevision]
  /\ reportDigest \in [Tasks -> Report \cup {None}]
  /\ cancelSent \in [Tasks -> BOOLEAN]
  /\ events \in [Tasks -> Seq(Status \cup {"message"})]
  /\ expired \subseteq Tasks
  /\ policies \subseteq Owners
  /\ providers \subseteq Providers
  /\ lock \in Dispatchers \cup {None}
  /\ pc \in [Dispatchers -> {"idle", "classify", "next", "call", "readback", "store",
                             "mark", "send", "poll", "finish"}]
  /\ found \in [Dispatchers -> SUBSET Tasks]
  /\ rows \in [Dispatchers -> SUBSET [task : Tasks, sent : BOOLEAN]]
  /\ cur \in [Dispatchers -> Tasks \cup {None}]
  /\ seen \in [Dispatchers -> Status]
  /\ reply \in [Dispatchers -> {"none"} \cup SubmitReply \cup TERMINAL]
  /\ calls \in [Tasks -> Nat]
  /\ cancels \in [Tasks -> Nat]
  /\ dropped \subseteq Tasks
  /\ clobbered \subseteq Tasks
  /\ crashes \in 0..MaxCrashes
  /\ reconfigs \in 0..MaxReconfigs

\* A task is handed to its provider at most once: not by a second process, not
\* after a crash between "submitting" and the handle, not after an error.
SubmitOnce == \A t \in Tasks : calls[t] <= 1

\* A cancellation is sent to the provider at most once, also across crashes.
CancelSentOnce == \A t \in Tasks : cancels[t] <= 1

\* No process settles as abandoned a submission that another one is making.
InFlightNotAbandoned ==
  \A d \in Dispatchers :
    pc[d] \in {"call", "readback", "store"} =>
      status[cur[d]] \notin {"absent", "queued", "outcome_unknown"}

\* A provider without workers is polled or told to cancel only with the handle
\* of a run it accepted.
PollHasHandle ==
  \A d \in Dispatchers :
    pc[d] \in {"send", "poll", "finish"} =>
      request[cur[d]].provider \in CallbackDriven \/ handle[cur[d]]

\* One task per idempotency key of a project.
OneTaskPerKey ==
  \A t, u \in Tasks :
    /\ Exists(t) /\ Exists(u)
    /\ <<request[t].owner, request[t].key>> = <<request[u].owner, request[u].key>>
    => t = u

\* A task that shows a worker's report shows that report, by the attempt bound
\* to it, on the last materials it was given - unless a stale write hit it.
ReportStands ==
  \A t \in Tasks \ clobbered :
    reportDigest[t] # None =>
      /\ attempt[t] # None
      /\ status[t] = reportDigest[t].status
      /\ revision[t] = reportDigest[t].revision

\* The quota holds for the tasks that no stale write brought back to life.
QuotaHolds ==
  \A o \in Owners : Cardinality(Active(o) \ clobbered) <= MaxActive

\* A terminal status is final - unless a stale write hits the task.
TerminalStands ==
  [][\A t \in Tasks \ clobbered' : status[t] \in TERMINAL => status'[t] = status[t]]_vars

\* A cancellation that was asked for is not taken back: the task is settled,
\* or its fate is unknown - unless a stale write hits the task.
CancelStands ==
  [][\A t \in Tasks \ clobbered' :
       status[t] = "cancel_requested" =>
         status'[t] \in {"cancel_requested", "outcome_unknown"} \cup TERMINAL]_vars

\* The same without the exception: a terminal status is final.
TerminalIsFinal ==
  [][\A t \in Tasks : status[t] \in TERMINAL => status'[t] = status[t]]_vars

\* A task whose cancellation was accepted never runs again, not even when the
\* process dies while the task is submitted.
CancelHolds ==
  \A t \in Tasks \ clobbered :
    (\E i \in DOMAIN events[t] : events[t][i] = "cancel_requested") => status[t] # "running"

\* A claimed task takes its worker's report until it is settled - unless a
\* stale write hit it.
ClaimedStaysOpen ==
  \A t \in Tasks \ clobbered :
    attempt[t] # None => status[t] \in {"running", "cancel_requested"} \cup TERMINAL

\* A queued task is refused or submitted.
QueuedAdvances == \A t \in Tasks : status[t] = "queued" ~> status[t] # "queued"

\* A task that runs past its deadline is cancelled.
DeadlineEnforced ==
  \A t \in Tasks : (status[t] = "running" /\ t \in expired) ~> status[t] # "running"

\* Once asked for, a cancellation is sent to the provider, or the task is settled
\* otherwise.  A recorded cancellation is not sent again, so one is lost only
\* when the process dies between recording it and sending it.
CancelReachesProvider ==
  \A t \in Tasks : status[t] = "cancel_requested" ~>
                      (cancels[t] > 0 \/ t \in dropped \/ status[t] # "cancel_requested")

-----------------------------------------------------------------------------
(* The abstract lifecycle, for the tasks of providers without workers. *)

ApiTask(t) == Exists(t) /\ request[t].provider \notin CallbackDriven

PhaseOf(s) == CASE s \in {"submitting", "running", "cancel_requested"} -> "active"
                [] s = "outcome_unknown" -> "unknown"
                [] s \in TERMINAL -> "done"
                [] OTHER -> s

Lifecycle == INSTANCE TaskLifecycle WITH
  phase <- [t \in Tasks |-> IF ApiTask(t) THEN PhaseOf(status[t]) ELSE "none"],
  owner <- [t \in Tasks |-> IF ApiTask(t) THEN request[t].owner ELSE None],
  started <- [t \in Tasks |-> IF ApiTask(t) THEN calls[t] ELSE 0],
  result <- [t \in Tasks |-> IF ApiTask(t) /\ status[t] \in TERMINAL THEN status[t] ELSE "none"]

\* The store and its dispatcher keep the promises of TaskLifecycle to every
\* api-mode task, whatever crashes, restarts and stale writes occur.
ImplementsLifecycle == Lifecycle!Spec

=============================================================================
