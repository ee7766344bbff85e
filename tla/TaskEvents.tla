----------------------------- MODULE TaskEvents -----------------------------
(***************************************************************************)
(* What the notifiers see of src/src/ai_service/runtime.py: the status of  *)
(* each task of their provider and the events table, an append-only log in *)
(* seq order.  TaskRuntime models the store itself; here its methods are   *)
(* reduced to the statuses and to the events a notifier reads, so that     *)
(* EventSubscriptions and NativeNotifications can run beside them.         *)
(***************************************************************************)
EXTENDS Integers, Sequences, FiniteSets

CONSTANTS
  Tasks,      \* the tasks of callback-driven providers
  MaxEvents   \* bound: events of the log

ASSUME EventsAssumption == MaxEvents \in Nat

\* The events that are news to a worker; the log has others, which only
\* leave gaps in seq.
News == {"queued", "message", "cancel_requested"}
\* "settled" stands for the four terminal statuses, "recalled" for the
\* cancel_requested of a task that has no handle yet.
Status == {"absent", "queued", "submitting", "recalled", "running", "cancel_requested",
           "outcome_unknown", "settled"}

VARIABLES
  task,     \* the status of each task
  claimed,  \* the tasks with an attempt
  log       \* the news
store == <<task, claimed, log>>

Room == Len(log) < MaxEvents

Become(t, s) == task' = [task EXCEPT ![t] = s]
Record(t, k) == log' = Append(log, [task |-> t, kind |-> k])

InitStore == task = [t \in Tasks |-> "absent"] /\ claimed = {} /\ log = << >>

\* The seq of the event a task was stored with.
QueuedAt(t) == CHOOSE q \in DOMAIN log : log[q] = [task |-> t, kind |-> "queued"]

-----------------------------------------------------------------------------
(* Clients and workers. *)

Request(t) ==
  /\ task[t] = "absent" /\ Room
  /\ Become(t, "queued") /\ Record(t, "queued")
  /\ UNCHANGED claimed

\* A follow-up is welcome in every status but the terminal ones and
\* cancel_requested, also before the task is submitted.
FollowUp(t) ==
  /\ task[t] \in {"queued", "submitting", "running", "outcome_unknown"} /\ Room
  /\ Record(t, "message") /\ UNCHANGED <<task, claimed>>

\* A client cancels, or tick() finds a running task past its deadline.
Withdraw(t) ==
  /\ \/ task[t] = "queued" /\ Become(t, "settled") /\ UNCHANGED log
     \/ /\ task[t] \in {"submitting", "running"} /\ Room
        /\ Become(t, IF task[t] = "submitting" THEN "recalled" ELSE "cancel_requested")
        /\ Record(t, "cancel_requested")
  /\ UNCHANGED claimed

Claim(t) ==
  /\ t \notin claimed /\ task[t] \in {"submitting", "running", "outcome_unknown"}
  /\ claimed' = claimed \cup {t}
  /\ Become(t, "running") /\ UNCHANGED log

Report(t) ==
  /\ t \in claimed /\ task[t] \in {"running", "cancel_requested"}
  /\ Become(t, "settled") /\ UNCHANGED <<claimed, log>>

Clients == \E t \in Tasks : Request(t) \/ FollowUp(t) \/ Withdraw(t) \/ Claim(t) \/ Report(t)

-----------------------------------------------------------------------------
(* The dispatcher: tick() first gives up the submissions that an earlier   *)
(* process left behind, then commits "submitting", calls the provider and  *)
(* stores the outcome, task by task.                                       *)

InDoubt == {t \in Tasks \ claimed : task[t] \in {"submitting", "recalled"}}

Abandon ==
  /\ task' = [t \in Tasks |-> IF t \in InDoubt THEN "outcome_unknown" ELSE task[t]]
  /\ UNCHANGED <<claimed, log>>

BeginSubmit(t) == task[t] = "queued" /\ Become(t, "submitting") /\ UNCHANGED <<claimed, log>>

\* The deadline passed before the submission.
Expire(t) == task[t] = "queued" /\ Become(t, "settled") /\ UNCHANGED <<claimed, log>>

\* A failure says nothing about a task that was claimed meanwhile; a handle is
\* stored for each, and a cancelled task is marked cancel_requested once more.
EndSubmit(t, outcome) ==
  /\ \/ t \in InDoubt /\ outcome = "rejected" /\ Become(t, "settled") /\ UNCHANGED log
     \/ t \in InDoubt /\ outcome = "raised" /\ Become(t, "outcome_unknown") /\ UNCHANGED log
     \/ t \notin InDoubt /\ outcome # "accepted" /\ UNCHANGED <<task, log>>
     \/ /\ outcome = "accepted"
        /\ \/ task[t] = "submitting" /\ Become(t, "running") /\ UNCHANGED log
           \/ /\ task[t] \in {"recalled", "cancel_requested"} /\ Room
              /\ Become(t, "cancel_requested") /\ Record(t, "cancel_requested")
           \/ task[t] \in {"running", "settled"} /\ UNCHANGED <<task, log>>
  /\ UNCHANGED claimed

StoreTypeOK ==
  /\ task \in [Tasks -> Status]
  /\ claimed \subseteq Tasks
  /\ log \in Seq([task : Tasks, kind : News])
  /\ Len(log) <= MaxEvents
=============================================================================
