-------------------------- MODULE DiagnosisRehearsal --------------------------
(* The caller of the historical-diagnosis rehearsal.  Calls may overlap and  *)
(* die anywhere; there is no lock.  What they know of each other are receipt *)
(* files, each created exclusively and written once: .binding, the intent,   *)
(* .submitted, .cancel and .verified.  The call that created the first two   *)
(* may submit, the one that created .cancel may cancel, and every call ends  *)
(* with a decision on the event subscription of the worker.                  *)
(*                                                                           *)
(* Abstracted: the fixed instance, the evidence of the subscription and the  *)
(* identity of worker and attempt (.claimed): inputs that fail the checks    *)
(* are Reject, a record or a receipt that fails them is a read that raises.  *)
(* The task service and the subscription tools are external.                 *)
EXTENDS Integers, FiniteSets

CONSTANTS Rehearsers, MaxRehearsals

(* What the constants are.                                                   *)
ASSUME RehearsalAssumption == MaxRehearsals \in Nat

VARIABLES
  receipts, \* the files
  caller,   \* the call each process is in
  task, subscription, \* at the service
  taskLate, expired,      \* the task's deadline, the end of the subscription
  submitted, cancelled, \* requests sent
  entered   \* calls so far
rvars == <<receipts, caller, task, subscription, taskLate, expired, submitted, cancelled, entered>>

Receipts == {"binding", "intent", "submitted", "cancel", "verified"}
RSteps == {"idle", "bind", "intent", "check", "submit", "sent", "resume", "cancel", "cancelling",
          "reread", "cleanup", "confirm", "verified"}
Out == [step |-> "idle", fresh |-> FALSE, cancel |-> FALSE, end |-> FALSE, keep |-> FALSE,
        done |-> FALSE, rejected |-> FALSE]
RCalls == [step : RSteps, fresh : BOOLEAN, cancel : BOOLEAN, end : BOOLEAN, keep : BOOLEAN,
          done : BOOLEAN, rejected : BOOLEAN]
States == {"absent", "torn", "whole"}
Terminal == {"completed", "failed", "cancelled"}
Pending == {"queued", "running"}

RInit ==
  /\ receipts = [f \in Receipts |-> "absent"]
  /\ caller = [p \in Rehearsers |-> Out]
  /\ task = "none" /\ subscription = "active" /\ taskLate = FALSE /\ expired = FALSE
  /\ submitted = 0 /\ cancelled = 0 /\ entered = 0

-----------------------------------------------------------------------------
RAt(p, step) == caller[p].step = step
Become(p, state) == caller' = [caller EXCEPT ![p] = state]
RGoto(p, step) == Become(p, [caller[p] EXCEPT !.step = step])
(* Any exception of the body ends in the cleanup, with the last "keep".      *)
Raise(p) == RGoto(p, "cleanup")
Service == <<task, subscription, taskLate, expired, submitted, cancelled>>
Whole(f) == receipts[f] = "whole"
FaultyCreates(f) == TRUE
Creates(f) == receipts[f] = "absent"

(* write_private: the receipt, or a part of it and an exception.             *)
Write(p, f, state) ==
  \/ receipts' = [receipts EXCEPT ![f] = "whole"] /\ Become(p, state)
  \/ receipts' \in {receipts, [receipts EXCEPT ![f] = "torn"]} /\ Raise(p)

-----------------------------------------------------------------------------
Enter(p, cancel, end) ==
  /\ RAt(p, "idle") /\ entered < MaxRehearsals /\ entered' = entered + 1
  /\ Become(p, [Out EXCEPT !.step = "bind", !.cancel = cancel, !.end = end, !.keep = TRUE])
  /\ UNCHANGED <<receipts, Service>>

(* Inputs that fail the checks go straight to the cleanup of the             *)
(* subscription they name.                                                   *)
Reject(p) ==
  /\ RAt(p, "idle") /\ entered < MaxRehearsals /\ entered' = entered + 1
  /\ Become(p, [Out EXCEPT !.step = "cleanup", !.rejected = TRUE])
  /\ UNCHANGED <<receipts, Service>>

(* The binding is created, or belongs to an earlier call: then it must be    *)
(* whole, and so must the intent.                                            *)
Bind(p) ==
  /\ RAt(p, "bind") /\ UNCHANGED <<Service, entered>>
  /\ \/ Creates("binding") /\ Write(p, "binding", [caller[p] EXCEPT !.step = "intent"])
     \/ /\ ~Creates("binding") /\ UNCHANGED receipts
        /\ IF Whole("binding") /\ Whole("intent") THEN RGoto(p, "check") ELSE Raise(p)

(* With the intent written and nothing sent, the subscription need not stay. *)
Intent(p) ==
  /\ RAt(p, "intent") /\ UNCHANGED <<Service, entered>>
  /\ Write(p, "intent", [caller[p] EXCEPT !.step = "check", !.fresh = TRUE, !.keep = FALSE])

Unfit(p) == caller[p].cancel \/ caller[p].end \/ taskLate \/ expired \/ subscription = "gone"
Check(p) ==
  /\ RAt(p, "check") /\ UNCHANGED <<receipts, Service, entered>>
  /\ \/ Raise(p)
     \/ ~caller[p].fresh /\ RGoto(p, "resume")
     \/ /\ caller[p].fresh /\ ~Unfit(p)
        /\ Become(p, [caller[p] EXCEPT !.step = "submit", !.keep = TRUE])

(* The request may be lost, or its answer.                                   *)
RSubmit(p) ==
  /\ RAt(p, "submit")
  /\ submitted' = submitted + 1
  /\ \/ task' = "queued" /\ RGoto(p, "sent")
     \/ task' \in {"none", "queued"} /\ Raise(p)
  /\ UNCHANGED <<receipts, subscription, taskLate, expired, cancelled, entered>>
Sent(p) ==
  /\ RAt(p, "sent") /\ UNCHANGED <<Service, entered>>
  /\ Write(p, "submitted", [caller[p] EXCEPT !.step = "resume"])

(* Read the submitted task.  Without a whole receipt nothing is known of it. *)
Cancelling(p) == caller[p].cancel \/ caller[p].end \/ taskLate \/ expired \/ ~Creates("cancel")
Keeps == task \notin Terminal
RResume(p) ==
  /\ RAt(p, "resume") /\ UNCHANGED <<receipts, Service, entered>>
  /\ \/ Raise(p)
     \/ /\ Whole("submitted")
        /\ Become(p, [caller[p] EXCEPT
             !.step = IF Cancelling(p) /\ Keeps THEN "cancel" ELSE "cleanup",
             !.keep = Keeps, !.done = ~Cancelling(p) /\ task = "completed"])

(* One call creates .cancel and sends it; the others only read.              *)
Cancel(p) ==
  /\ RAt(p, "cancel") /\ UNCHANGED <<Service, entered>>
  /\ \/ Creates("cancel") /\ Write(p, "cancel", [caller[p] EXCEPT !.step = "cancelling"])
     \/ /\ ~Creates("cancel") /\ UNCHANGED receipts
        /\ IF Whole("cancel") THEN RGoto(p, "reread") ELSE Raise(p)
RSendCancel(p) ==
  /\ RAt(p, "cancelling")
  /\ cancelled' = cancelled + 1
  /\ task' \in {task} \cup (IF task \in Pending THEN {"cancelled"} ELSE {})
  /\ RGoto(p, "reread") \/ Raise(p)
  /\ UNCHANGED <<receipts, subscription, taskLate, expired, submitted, entered>>
Reread(p) ==
  /\ RAt(p, "reread") /\ UNCHANGED <<receipts, Service, entered>>
  /\ Raise(p) \/ Become(p, [caller[p] EXCEPT !.step = "cleanup", !.keep = Keeps])

-----------------------------------------------------------------------------
(* The subscription stays for a task that is not done, unless the caller     *)
(* ends it or it is over; otherwise it is deleted and must read back gone.   *)
FaultyRetain(p) == caller[p].keep /\ ~caller[p].end /\ ~caller[p].cancel /\ ~expired
Retain(p) == caller[p].keep /\ ~caller[p].end /\ ~expired
Cleanup(p) ==
  /\ RAt(p, "cleanup")
  /\ IF Retain(p) /\ subscription = "active"
     THEN Become(p, Out) /\ UNCHANGED subscription
     ELSE \/ Become(p, Out) /\ UNCHANGED subscription
          \/ RGoto(p, "confirm") /\ UNCHANGED subscription
          \/ subscription' = "gone" /\ RGoto(p, "confirm")
          \/ subscription' = "gone" /\ Become(p, Out)
  /\ UNCHANGED <<receipts, task, taskLate, expired, submitted, cancelled, entered>>
Confirmed == subscription = "gone"
Confirm(p) ==
  /\ RAt(p, "confirm") /\ UNCHANGED <<receipts, Service, entered>>
  /\ Become(p, Out) \/ (Confirmed /\ caller[p].done /\ RGoto(p, "verified"))
WriteVerified(p) ==
  /\ RAt(p, "verified") /\ UNCHANGED <<Service, entered>>
  /\ Become(p, Out)
  /\ receipts' \in {receipts} \cup
       (IF Creates("verified") THEN {[receipts EXCEPT !["verified"] = t] : t \in {"torn", "whole"}}
        ELSE {})

-----------------------------------------------------------------------------
RDie(p) == ~RAt(p, "idle") /\ Become(p, Out) /\ UNCHANGED <<receipts, Service, entered>>

(* The worker and the clocks.                                                *)
Work ==
  /\ \/ task = "queued" /\ task' \in {"running", "failed"}
     \/ task = "running" /\ task' \in {"completed", "failed"}
  /\ UNCHANGED <<receipts, caller, subscription, taskLate, expired, submitted, cancelled, entered>>
Late ==
  /\ ~taskLate /\ taskLate' = TRUE
  /\ UNCHANGED <<receipts, caller, task, subscription, expired, submitted, cancelled, entered>>
Expire ==
  /\ ~expired /\ expired' = TRUE /\ subscription' = "gone"
  /\ UNCHANGED <<receipts, caller, task, taskLate, submitted, cancelled, entered>>

RNext ==
  \/ Work \/ Late \/ Expire
  \/ \E p \in Rehearsers :
       \/ \E cancel, end \in BOOLEAN : Enter(p, cancel, end)
       \/ Reject(p) \/ Bind(p) \/ Intent(p) \/ Check(p) \/ RSubmit(p) \/ Sent(p) \/ RResume(p)
       \/ Cancel(p) \/ RSendCancel(p) \/ Reread(p) \/ Cleanup(p) \/ Confirm(p)
       \/ WriteVerified(p) \/ RDie(p)
RSpec == RInit /\ [][RNext]_rvars

-----------------------------------------------------------------------------
(* Every variable keeps its type.                                            *)
RTypeOK ==
  /\ receipts \in [Receipts -> States] /\ caller \in [Rehearsers -> RCalls]
  /\ task \in {"none"} \cup Pending \cup Terminal /\ subscription \in {"active", "gone"}
  /\ taskLate \in BOOLEAN /\ expired \in BOOLEAN
  /\ submitted \in Nat /\ cancelled \in Nat /\ entered \in Nat

(* Overlapping and dying calls send one submission and one cancellation at   *)
(* most (run_historical_diagnosis_rehearsal).                                *)
SubmitsOnce == submitted <= 1 /\ cancelled <= 1

(* No call takes the subscription from a task the worker may still deliver,  *)
(* whatever it failed to read, unless the caller asked for the end, gave     *)
(* inputs that were rejected, or the subscription is over.                   *)
PendingKeepsSubscription ==
  [][\A p \in Rehearsers :
       RAt(p, "cleanup") /\ caller'[p] # caller[p] /\ subscription = "active"
         /\ subscription' = "gone" /\ task \in Pending =>
         caller[p].end \/ caller[p].rejected \/ expired']_rvars
=============================================================================
