------------------------- MODULE OperationalDiagnosis -------------------------
(* The monitor's operational diagnosis: at most one request to the AI task   *)
(* service for a set of data errors, and at most one a day for the daily     *)
(* consumer (--diagnose-recent).  The health cycle diagnoses the errors it   *)
(* has just collected, and keeps its state under the monitor's root; the two *)
(* consumers of cycle files share a state file of their own.  The decision   *)
(* is read without a lock; the attempt is persisted before the request, and  *)
(* the id of a pending task after the answer, so that a later call on the    *)
(* same file asks for the same task.                                         *)
(*                                                                           *)
(* Abstracted: the prompt and the checks of a cycle file (a file that fails  *)
(* them refuses the consumer).  The client and the service are external: a   *)
(* request without a task id makes the task of its idempotency key, or finds *)
(* it; a request with one asks for that task.                                *)
EXTENDS Integers

CONSTANTS Incidents,  \* fingerprints of sets of data errors
          NoIncident,
          MaxDay, MaxAsks, MaxDiagnosisFaults

(* What the constants are.                                                   *)
ASSUME DiagnosisAssumption == MaxDay \in Nat \ {0} /\ MaxAsks \in Nat /\ MaxDiagnosisFaults \in Nat

VARIABLES
  day,       \* the UTC date
  recent,    \* incidents of the last 24 hours that have a cycle file
  latest,    \* the incident of the latest cycle file
  attempts,  \* by state file: the incidents that were attempted,
  pending,   \* and those with a task to come back to
  lastDate,  \* of the consumers' file; the health cycle records no date
  asker,     \* the process at work on each state file
  requests,  \* history: the requests without a task id that were sent
  asks, dfaults
dvars == <<day, recent, latest, attempts, pending, lastDate, asker, requests, asks, dfaults>>

StateFiles == {"cycle", "consumer"}
AReady == [step |-> "ready", incident |-> NoIncident, date |-> 0, resumes |-> FALSE]
Askers == [step : {"ready", "decided", "recorded", "answered", "write"},
           incident : Incidents \cup {NoIncident},
           date : 0..MaxDay,     \* of the daily consumer, else 0
           resumes : BOOLEAN]    \* whether it has the id of a task; that of an incident is
                                 \* named by its idempotency key
\* A request that was sent, and whether the same file had sent it before.
Requests == [file : StateFiles, incident : Incidents, date : 0..MaxDay, again : BOOLEAN]

DInit ==
  /\ day = 1 /\ recent = {} /\ latest = NoIncident
  /\ attempts = {} /\ pending = {} /\ lastDate = 0
  /\ asker = [f \in StateFiles |-> AReady]
  /\ requests = {} /\ asks = 0 /\ dfaults = 0

DFault == dfaults < MaxDiagnosisFaults /\ dfaults' = dfaults + 1
State == <<attempts, pending, lastDate>>
DWorld == <<recent, latest>>

-----------------------------------------------------------------------------
(* Midnight; a file falls out of the window of 24 hours.                     *)
Midnight ==
  /\ day < MaxDay /\ day' = day + 1
  /\ \E old \in SUBSET (recent \ {latest}) : recent' = recent \ old
  /\ UNCHANGED <<latest, State, asker, requests, asks, dfaults>>

Limited == lastDate # 0 /\ lastDate >= day
(* Mutant: only a task that is still pending counts as an attempt.           *)
FaultyAttempted(f, i) == <<f, i>> \in pending
Attempted(f, i) == <<f, i>> \in attempts

(* A call that goes to the service: for the task to come back to, if the     *)
(* file has one, else unless the incident was attempted.                     *)
Decide(f, i, date) ==
  /\ asks < MaxAsks /\ asks' = asks + 1
  /\ <<f, i>> \in pending \/ ~Attempted(f, i)
  /\ asker' = [asker EXCEPT ![f] = [step |-> "decided", incident |-> i, date |-> date,
                                    resumes |-> <<f, i>> \in pending]]

(* A cycle whose diagnosis is over and whose file is not written yet.        *)
Writing(i) == [step |-> "write", incident |-> i, date |-> 0, resumes |-> FALSE]

(* The health cycle has collected one set of errors, or none; its diagnosis  *)
(* is asked for, or skipped or deferred (attempted before, an unreadable     *)
(* state, no service configured).                                            *)
StartCycle ==
  /\ asker["cycle"].step = "ready"
  /\ \/ \E i \in Incidents : Decide("cycle", i, 0)
     \/ /\ \E i \in Incidents \cup {NoIncident} :
             asker' = [asker EXCEPT !["cycle"] = Writing(i)]
        /\ UNCHANGED asks
  /\ UNCHANGED <<day, DWorld, State, requests, dfaults>>

(* Whatever came of the diagnosis, the cycle file is written.                *)
WriteCycle ==
  /\ asker["cycle"].step = "write"
  /\ latest' = asker["cycle"].incident
  /\ recent' = recent \cup ({latest'} \ {NoIncident})
  /\ asker' = [asker EXCEPT !["cycle"] = AReady]
  /\ UNCHANGED <<day, State, requests, asks, dfaults>>

(* diagnose_recent_cycles: the newest incident that was never attempted;     *)
(* the daily limit first.  A pending task is never asked for again here, as  *)
(* its incident was attempted.                                               *)
StartDaily ==
  /\ asker["consumer"].step = "ready" /\ ~Limited
  /\ \E i \in recent :
       /\ ~Attempted("consumer", i)
       /\ latest \in recent /\ ~Attempted("consumer", latest) => i = latest
       /\ Decide("consumer", i, day)
  /\ UNCHANGED <<day, DWorld, State, requests, dfaults>>

(* diagnose_latest_cycle: the latest incident; no date.                      *)
StartLatest ==
  /\ asker["consumer"].step = "ready" /\ latest # NoIncident
  /\ Decide("consumer", latest, 0)
  /\ UNCHANGED <<day, DWorld, State, requests, dfaults>>

-----------------------------------------------------------------------------
(* _run_operational_diagnosis, for the caller at work on state file f.       *)

(* The call returns: a consumer ends, the health cycle goes on to its file.  *)
Returned(f) == IF f = "cycle" THEN Writing(asker[f].incident) ELSE AReady
CallOver(f) == asker' = [asker EXCEPT ![f] = Returned(f)]

(* Persist the attempt, under the lock, before anything is sent.  A state    *)
(* that cannot be read or written ends the call.                             *)
Record(f) ==
  /\ asker[f].step = "decided"
  /\ UNCHANGED <<day, DWorld, pending, requests, asks>>
  /\ \/ /\ attempts' = attempts \cup {<<f, asker[f].incident>>}
        /\ lastDate' = IF asker[f].date # 0 THEN asker[f].date ELSE lastDate
        /\ asker' = [asker EXCEPT ![f].step = "recorded"] /\ UNCHANGED dfaults
     \/ DFault /\ CallOver(f) /\ UNCHANGED <<attempts, lastDate>>

Asked(f, i) == \E r \in requests : r.file = f /\ r.incident = i

(* client.execute.  The answer may be lost, be no result, or name a task     *)
(* that is not done (kept as pending), or a valid result.                    *)
Ask(f) ==
  LET a == asker[f]
  IN /\ a.step = "recorded"
     /\ requests' = IF a.resumes THEN requests
                    ELSE requests \cup {[file |-> f, incident |-> a.incident, date |-> a.date,
                                      again |-> Asked(f, a.incident)]}
     /\ \/ CallOver(f)
        \/ \E unfinished \in BOOLEAN :
             asker' = [asker EXCEPT ![f].step = "answered", ![f].resumes = unfinished]
     /\ UNCHANGED <<day, DWorld, State, asks, dfaults>>

(* _store_diagnosis_pending: the task that is not done, or none.             *)
Keep(f) ==
  /\ asker[f].step = "answered"
  /\ CallOver(f)
  /\ \/ /\ pending' = LET task == {<<f, asker[f].incident>>}
                       IN IF asker[f].resumes THEN pending \cup task ELSE pending \ task
        /\ UNCHANGED dfaults
     \/ DFault /\ UNCHANGED pending
  /\ UNCHANGED <<day, DWorld, attempts, lastDate, requests, asks>>

(* The process dies between two of its steps; a cycle writes no file then.   *)
DDie(f) ==
  /\ asker[f].step # "ready" /\ DFault
  /\ asker' = [asker EXCEPT ![f] = AReady]
  /\ UNCHANGED <<day, DWorld, State, requests, asks>>

DNext ==
  \/ Midnight \/ StartCycle \/ WriteCycle \/ StartDaily \/ StartLatest
  \/ \E f \in StateFiles : Record(f) \/ Ask(f) \/ Keep(f) \/ DDie(f)
DSpec == DInit /\ [][DNext]_dvars

-----------------------------------------------------------------------------
(* Every variable keeps its type.                                            *)
DTypeOK ==
  /\ day \in 1..MaxDay /\ recent \subseteq Incidents /\ latest \in Incidents \cup {NoIncident}
  /\ attempts \subseteq StateFiles \X Incidents /\ pending \subseteq StateFiles \X Incidents
  /\ lastDate \in 0..MaxDay /\ asker \in [StateFiles -> Askers] /\ requests \subseteq Requests
  /\ asks \in Nat /\ dfaults \in Nat

(* A set of errors is asked about once from each state file, and the daily   *)
(* consumer asks once for each date, whatever answer is lost, write fails or *)
(* process dies: the attempt is on disk before the request                   *)
(* (docs/watchdog-repair-rehearsal.md: a failure does not give the day's     *)
(* attempt back).  The health cycle and a consumer do not know of each       *)
(* other's attempts: both may ask, under one idempotency key.  One process   *)
(* works on a file at a time, as the schedules start them.                   *)
DiagnosedOnce ==
  /\ \A r \in requests : ~r.again
  /\ \A r, q \in requests : r.date = q.date /\ r.date # 0 => r = q

=============================================================================
