----------------------------- MODULE AlertLedger -----------------------------
(* The Telegram delivery ledger of the quant monitor                         *)
(* (data/alert-state/health_cycle.json).  The health cycle and the daily     *)
(* briefing are separate processes that share it.  Each delivery holds a     *)
(* file lock from its first read to its last write, persists "pending"       *)
(* before every send and the outcome after it, and may die anywhere.         *)
(*                                                                           *)
(* Abstracted: the JSON schema (a file that does not pass it is the load     *)
(* failure below), the text of a message, the error codes (the properties    *)
(* ask only whether there was one).  The sender is the world: it may deliver *)
(* a message and lose the answer.                                            *)
EXTENDS Integers, FiniteSets

CONSTANTS Callers,        \* processes that deliver or clear
          Targets,        \* hashes of chat ids
          HealthEvents,   \* fingerprints of operational alerts
          BriefingEvents, \* events of the daily briefing and the digest
          NoEvent, Nobody, \* the absence of one
          AttemptLimit,   \* _DELIVERY_ATTEMPT_LIMIT
          MaxCalls, MaxFaults \* bounds on deliveries and on I/O faults

(* What the constants are.                                                   *)
ASSUME LedgerAssumption ==
  /\ AttemptLimit \in Nat \ {0} /\ MaxCalls \in Nat /\ MaxFaults \in Nat
  /\ HealthEvents \cap BriefingEvents = {}
  /\ NoEvent \notin HealthEvents \cup BriefingEvents \cup Targets
  /\ Nobody \notin Callers

Events == HealthEvents \cup BriefingEvents

VARIABLES
  file,     \* the ledger on disk
  lock,     \* the process that holds the flock
  call,     \* the delivery each process is in
  result,   \* what the last step returned to the caller of a delivery, if it did
  received, \* messages each chat was really sent for the current incident
  calls, faults
lvars == <<file, lock, call, result, received, calls, faults>>

Statuses == {"pending", "sent", "failed", "unknown"}
NoRecord == [status |-> "none", attempts |-> 0]
Records == [status : Statuses \cup {"none"}, attempts : 0..AttemptLimit]
Files == [fingerprint : Events \cup {NoEvent}, sentEvents : SUBSET HealthEvents,
          deliveries : [Events -> [Targets -> Records]]]
EmptyFile == [fingerprint |-> NoEvent, sentEvents |-> {},
              deliveries |-> [e \in Events |-> [t \in Targets |-> NoRecord]]]

Steps == {"idle", "loaded", "claimed", "answered"}
Idle == [step |-> "idle", event |-> NoEvent, chats |-> {}, left |-> {}, target |-> NoEvent,
         outcome |-> "none", errors |-> FALSE, claimed |-> FALSE]
Calls == [step : Steps, event : Events \cup {NoEvent}, chats : SUBSET Targets,
          left : SUBSET Targets, target : Targets \cup {NoEvent},
          outcome : {"none", "sent", "failed", "unknown"}, errors : BOOLEAN,
          claimed : BOOLEAN]
Results == {"none", "errors", "all_sent", "suppressed", "legacy"}

(* A fingerprint may be left by the release before the ledger kept targets.  *)
Init ==
  /\ \E f \in HealthEvents \cup {NoEvent} : file = [EmptyFile EXCEPT !.fingerprint = f]
  /\ lock = Nobody
  /\ call = [c \in Callers |-> Idle] /\ result = "none"
  /\ received = [e \in Events |-> [t \in Targets |-> 0]]
  /\ calls = 0 /\ faults = 0

-----------------------------------------------------------------------------
(* The plan of a target, from its record.                                    *)
FaultyClaimable(record) == record.status \in {"none", "failed"}
Claimable(record) ==
  \/ record.status = "none"
  \/ record.status = "failed" /\ record.attempts < AttemptLimit
FaultyHeld(record) == record.status = "failed" /\ ~Claimable(record)
Held(record) == record.status # "sent" /\ ~Claimable(record)

(* "pending" left by a process that died is "unknown" from the next load on. *)
FaultyDemote(records) ==
  [t \in Targets |-> IF records[t].status = "pending" THEN [records[t] EXCEPT !.status = "failed"]
                     ELSE records[t]]
Demote(records) ==
  [t \in Targets |-> IF records[t].status = "pending" THEN [records[t] EXCEPT !.status = "unknown"]
                     ELSE records[t]]

Remember(f, e) ==
  IF e \in HealthEvents THEN [f EXCEPT !.sentEvents = @ \cup {e}] ELSE f
Put(f, e, t, record) == [f EXCEPT !.deliveries[e][t] = record]

(* _alert_state_exclusive: one process at a time reads and writes the ledger.*)
Free == lock = Nobody

Fault == faults < MaxFaults /\ faults' = faults + 1
NoFault == faults' = faults

(* A call returns with its result and lets go of the lock.                   *)
Return(c, answer) ==
  call' = [call EXCEPT ![c] = Idle] /\ lock' = Nobody /\ result' = answer
Goes(c, state) == call' = [call EXCEPT ![c] = state] /\ result' = "none"

-----------------------------------------------------------------------------
Legacy(e) == file.fingerprint = e /\ \A t \in Targets : file.deliveries[e][t] = NoRecord

(* Take the lock, read the file, demote what a dead process left pending.    *)
(* A file that cannot be read, or the demotion that cannot be written,       *)
(* refuses the delivery.                                                     *)
Begin(c, e, chats) ==
  LET new == [Idle EXCEPT !.step = "loaded", !.event = e, !.chats = chats, !.left = chats]
      demoted == [file EXCEPT !.deliveries[e] = Demote(@)]
  IN /\ calls < MaxCalls /\ calls' = calls + 1
     /\ Free /\ call[c].step = "idle"
     /\ UNCHANGED received
     /\ \/ Fault /\ Return(c, "errors") /\ UNCHANGED file
        \/ NoFault /\ Legacy(e) /\ Return(c, "legacy") /\ UNCHANGED file
        \/ /\ NoFault /\ ~Legacy(e)
           /\ file' = demoted /\ lock' = c /\ Goes(c, new)

(* Persist the attempt, and that a health event owns it, before the send.    *)
Attempt(e, t) == [status |-> "pending", attempts |-> file.deliveries[e][t].attempts + 1]
FaultyClaiming(e, t) == Put(file, e, t, Attempt(e, t))
Claiming(e, t) == Remember(Put(file, e, t, Attempt(e, t)), e)
Claim(c, t) ==
  LET e == call[c].event
  IN /\ call[c].step = "loaded" /\ t \in call[c].left
     /\ Claimable(file.deliveries[e][t])
     /\ UNCHANGED <<received, calls>>
     /\ \/ /\ NoFault /\ file' = Claiming(e, t)
           /\ Goes(c, [call[c] EXCEPT !.step = "claimed", !.target = t,
                                       !.left = @ \ {t}, !.claimed = TRUE])
           /\ UNCHANGED lock
        \/ Fault /\ Return(c, "errors") /\ UNCHANGED file

(* The sender says "sent" only of a delivered message and "failed" only of   *)
(* one that was not; "unknown" may be either.                                *)
Send(c) ==
  LET e == call[c].event  t == call[c].target
  IN /\ call[c].step = "claimed"
     /\ \E delivered \in BOOLEAN, outcome \in {"sent", "failed", "unknown"} :
          /\ outcome = "sent" => delivered
          /\ outcome = "failed" => ~delivered
          /\ received' = [received EXCEPT ![e][t] = @ + IF delivered THEN 1 ELSE 0]
          /\ Goes(c, [call[c] EXCEPT !.step = "answered", !.outcome = outcome])
     /\ UNCHANGED <<file, lock, calls, faults>>

(* Reload, write the outcome, go on with the next chat.                      *)
Answered(c) == [status |-> call[c].outcome,
                attempts |-> file.deliveries[call[c].event][call[c].target].attempts]
Stored(c) == Put(file, call[c].event, call[c].target, Answered(c))
Next1(c) == [call[c] EXCEPT !.step = "loaded", !.target = NoEvent, !.outcome = "none",
                            !.errors = @ \/ call[c].outcome # "sent"]
Store(c) ==
  /\ call[c].step = "answered"
  /\ file' = Stored(c)
  /\ Goes(c, Next1(c))
  /\ UNCHANGED <<lock, received, calls, faults>>

(* The outcome cannot be read back or written: the loop stops.  The tail of  *)
(* a health delivery writes what is in memory once more, which holds the     *)
(* outcome when the failure was the write.                                   *)
StoreFails(c) ==
  /\ call[c].step = "answered" /\ Fault
  /\ file' \in {file, IF call[c].event \in HealthEvents THEN Stored(c) ELSE file}
  /\ Return(c, "errors")
  /\ UNCHANGED <<received, calls>>

(* No chat is left to claim: report, and let a complete health delivery own  *)
(* the legacy fingerprint unless another event does.                         *)
AllSent(c) == \A t \in call[c].chats : file.deliveries[call[c].event][t].status = "sent"
Concluded(c) ==
  LET e == call[c].event
      owns == /\ ~call[c].errors /\ AllSent(c) /\ e \in HealthEvents
              /\ file.fingerprint = NoEvent
  IN IF owns THEN [Remember(file, e) EXCEPT !.fingerprint = e] ELSE Remember(file, e)
Verdict(c) ==
  IF call[c].errors \/ \E t \in call[c].left : Held(file.deliveries[call[c].event][t])
  THEN "errors" ELSE IF call[c].claimed THEN "all_sent" ELSE "suppressed"
Finish(c) ==
  /\ call[c].step = "loaded"
  /\ \A t \in call[c].left : ~Claimable(file.deliveries[call[c].event][t])
  /\ UNCHANGED <<received, calls>>
  /\ \/ NoFault /\ file' = Concluded(c) /\ Return(c, Verdict(c))
     \/ /\ Fault /\ call[c].event \in HealthEvents
        /\ call[c].claimed \/ Concluded(c) # file
        /\ UNCHANGED file /\ Return(c, "errors")

-----------------------------------------------------------------------------
(* A cycle without anything to report closes the incident: the "sent" of     *)
(* every event a health cycle owned is dropped.  What is unknown or failed   *)
(* stays.  A clear that cannot read or write changes nothing.                *)
Owned == file.sentEvents \cup ({file.fingerprint} \ {NoEvent})
Dropped(e, t) == e \in Owned /\ file.deliveries[e][t].status = "sent"
Cleared ==
  [fingerprint |-> NoEvent, sentEvents |-> {},
   deliveries |-> [e \in Events |-> [t \in Targets |->
                     IF Dropped(e, t) THEN NoRecord ELSE file.deliveries[e][t]]]]
Clear(c) ==
  /\ Free /\ call[c].step = "idle"
  /\ Goes(c, Idle)
  /\ file' = Cleared
  /\ received' = [e \in Events |-> [t \in Targets |->
                   IF e \in HealthEvents /\ file.deliveries[e][t].status = "sent" THEN 0
                   ELSE received[e][t]]]
  /\ UNCHANGED <<lock, calls, faults>>

(* The process dies: the kernel frees its lock.                              *)
Crash(c) ==
  /\ Fault /\ call[c].step # "idle" /\ Goes(c, Idle)
  /\ lock' = Nobody
  /\ UNCHANGED <<file, received, calls>>

Next ==
  \E c \in Callers :
    \/ \E e \in Events : \E chats \in (SUBSET Targets) \ {{}} : Begin(c, e, chats)
    \/ \E t \in Targets : Claim(c, t)
    \/ Send(c) \/ Store(c) \/ StoreFails(c) \/ Finish(c)
    \/ Clear(c) \/ Crash(c)
Spec == Init /\ [][Next]_lvars
-----------------------------------------------------------------------------
(* Every variable keeps its type; no chat is tried more often than the limit *)
(* in one incident.                                                          *)
TypeOK ==
  /\ file \in Files /\ lock \in Callers \cup {Nobody} /\ call \in [Callers -> Calls]
  /\ result \in Results
  /\ received \in [Events -> [Targets -> Nat]]
  /\ calls \in Nat /\ faults \in Nat

(* A chat gets the message of an incident at most once, whatever dies, fails *)
(* or is run again (deliver_telegram_targets): only a send that certainly    *)
(* did not arrive is tried again.                                            *)
AtMostOncePerIncident == \A e \in Events, t \in Targets : received[e][t] <= 1

(* A delivery that reports no error has reached every chat it was asked for, *)
(* now or before in this incident: an answer that was lost, or an attempt    *)
(* limit that was met, is never taken for quiet.  (An event of the legacy    *)
(* fingerprint, which has no record of its chats, is the exception.)         *)
QuietMeansReached ==
  [][\A c \in Callers :
       call[c].step = "loaded" /\ call'[c].step = "idle" /\ result' \in {"all_sent", "suppressed"} =>
         \A t \in call[c].chats : received[call[c].event][t] = 1]_lvars

(* What a health cycle sent is always marked as its own, whatever dies in    *)
(* between: the next all clear (_clear_alert) drops it, so that the same     *)
(* failure is reported again when it comes back.                             *)
AllClearReopens ==
  \A e \in HealthEvents, t \in Targets : file.deliveries[e][t].status = "sent" => e \in Owned

-----------------------------------------------------------------------------
(* The contract of the ledger.  A delivery takes effect when it returns or   *)
(* dies: until then the chats it has dealt with stand as it found them, and  *)
(* whoever is in a delivery holds the lock.                                  *)
InHand(e, t) ==
  /\ lock # Nobody /\ call[lock].event = e
  /\ t \in call[lock].chats /\ t \notin call[lock].left
Standing(record) ==
  CASE record.status \in {"none", "failed"} -> "none"
    [] record.status = "sent" -> "sent"
    [] OTHER -> "unknown"

Contract == INSTANCE ChatDelivery WITH
  standing <- [e \in Events |-> [t \in Targets |->
                 IF InHand(e, t) THEN "none" ELSE Standing(file.deliveries[e][t])]],
  got <- [e \in Events |-> [t \in Targets |-> IF InHand(e, t) THEN 0 ELSE received[e][t]]],
  answer <- result

(* Deliveries by many processes, chat by chat, with errors, deaths and lost  *)
(* answers, are to each chat and to each caller what ChatDelivery says of    *)
(* one step; the briefing and the digest are modelled on that.               *)
KeepsContract == Contract!Spec

=============================================================================
