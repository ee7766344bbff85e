--------------------------- MODULE AlertLedgerProofs ---------------------------
(* What AlertLedger promises holds for every number of processes, chats,     *)
(* events, attempts and faults.  The runs of MCQuantMonitor check the same   *)
(* properties, and Inv, on a small instance.                                 *)
(*                                                                           *)
(* The argument: whoever is in a delivery holds the lock (Locked), so the    *)
(* record of the chat in flight is its own to change (Flight); a record that *)
(* says "none" or "failed" has reached nobody and one that says "sent" has   *)
(* reached its chat once (Recorded); a delivery without errors has "sent" in *)
(* every chat it is done with (Progress).                                    *)
EXTENDS AlertLedger, TLAPS

At(c, step) == call[c].step = step
Record(e, t) == file.deliveries[e][t]

Locked == \A c \in Callers : ~At(c, "idle") => lock = c

Recorded ==
  \A e \in Events, t \in Targets :
    /\ received[e][t] <= 1
    /\ Record(e, t).status = "none" => Record(e, t).attempts = 0
    /\ Record(e, t).status \in {"none", "failed"} => received[e][t] = 0
    /\ Record(e, t).status = "sent" => received[e][t] = 1
    /\ Record(e, t).status = "sent" /\ e \in HealthEvents => e \in file.sentEvents

FlightOf(c) ==
  At(c, "claimed") \/ At(c, "answered") =>
    LET e == call[c].event  t == call[c].target IN
      /\ t \in Targets /\ Record(e, t).status = "pending"
      /\ e \in HealthEvents => e \in file.sentEvents
      /\ At(c, "claimed") => received[e][t] = 0
      /\ At(c, "answered") =>
           /\ call[c].outcome \in {"sent", "failed", "unknown"}
           /\ call[c].outcome = "sent" => received[e][t] = 1
           /\ call[c].outcome = "failed" => received[e][t] = 0
Flight == \A c \in Callers : FlightOf(c)

ProgressOf(c) ==
  /\ ~At(c, "idle") => call[c].event \in Events
  /\ At(c, "loaded") => call[c].target = NoEvent
  /\ ~At(c, "idle") /\ ~call[c].errors =>
       \A t \in call[c].chats \ call[c].left :
         t # call[c].target => Record(call[c].event, t).status = "sent"
Progress == \A c \in Callers : ProgressOf(c)

Inv ==
  /\ TypeOK /\ file.fingerprint \in HealthEvents \cup {NoEvent}
  /\ Locked /\ Recorded /\ Flight /\ Progress

-----------------------------------------------------------------------------
(* What the operators on the file do to a record.                            *)
LEMMA PutIs ==
  ASSUME NEW f \in Files, NEW e \in Events, NEW t \in Targets, NEW r \in Records
  PROVE  /\ Put(f, e, t, r) \in Files
         /\ Put(f, e, t, r).fingerprint = f.fingerprint
         /\ Put(f, e, t, r).sentEvents = f.sentEvents
         /\ \A e2 \in Events, t2 \in Targets :
              Put(f, e, t, r).deliveries[e2][t2] =
                IF e2 = e /\ t2 = t THEN r ELSE f.deliveries[e2][t2]
  BY DEF Put, Files

LEMMA RememberIs ==
  ASSUME NEW f \in Files, NEW e \in Events
  PROVE  /\ Remember(f, e) \in Files
         /\ Remember(f, e).fingerprint = f.fingerprint
         /\ Remember(f, e).deliveries = f.deliveries
         /\ Remember(f, e).sentEvents = f.sentEvents \cup ({e} \cap HealthEvents)
  BY DEF Remember, Files

LEMMA DemotedIs ==
  ASSUME NEW f \in Files, NEW e \in Events
  PROVE  LET g == [f EXCEPT !.deliveries[e] = Demote(@)] IN
         /\ g \in Files /\ g.fingerprint = f.fingerprint /\ g.sentEvents = f.sentEvents
         /\ \A e2 \in Events, t2 \in Targets :
              /\ g.deliveries[e2][t2].attempts = f.deliveries[e2][t2].attempts
              /\ g.deliveries[e2][t2].status = f.deliveries[e2][t2].status
                 \/ (e2 = e /\ f.deliveries[e2][t2].status = "pending"
                     /\ g.deliveries[e2][t2].status = "unknown")
<1> DEFINE d == Demote(f.deliveries[e])
           g == [f EXCEPT !.deliveries[e] = d]
<1>1. f.deliveries[e] \in [Targets -> Records]
  BY DEF Files
<1>2. d \in [Targets -> Records]
      /\ \A t \in Targets :
           /\ d[t].attempts = f.deliveries[e][t].attempts
           /\ d[t].status = f.deliveries[e][t].status
              \/ (f.deliveries[e][t].status = "pending" /\ d[t].status = "unknown")
  BY <1>1 DEF Demote, Records, Statuses
<1>3. g \in Files /\ g.fingerprint = f.fingerprint /\ g.sentEvents = f.sentEvents
      /\ \A e2 \in Events : g.deliveries[e2] = IF e2 = e THEN d ELSE f.deliveries[e2]
  BY <1>2 DEF Files
<1> QED BY <1>2, <1>3

(* A delivery excludes every other one.                                      *)
LEMMA Alone ==
  ASSUME Inv, NEW c \in Callers, ~At(c, "idle")
  PROVE  /\ lock = c
         /\ \A d \in Callers : d # c => At(d, "idle")
  BY DEF Inv, Locked

LEMMA AllIdle ==
  ASSUME Inv, Free
  PROVE  \A c \in Callers : At(c, "idle")
  BY LedgerAssumption DEF Inv, Locked, Free

(* What a step does to the calls.                                            *)
LEMMA GoesIs ==
  ASSUME call \in [Callers -> Calls], NEW c \in Callers, NEW state \in Calls, Goes(c, state)
  PROVE  /\ call' \in [Callers -> Calls] /\ call'[c] = state /\ result' \in Results
         /\ \A d \in Callers : d # c => call'[d] = call[d]
  BY DEF Goes, Results

LEMMA IdleIs ==
  /\ Idle \in Calls /\ Idle.step = "idle"
  BY DEF Idle, Calls, Steps

LEMMA ReturnIs ==
  ASSUME call \in [Callers -> Calls], NEW c \in Callers, NEW answer \in Results, Return(c, answer)
  PROVE  /\ call' \in [Callers -> Calls] /\ call'[c].step = "idle" /\ result' \in Results
         /\ lock' = Nobody
         /\ \A d \in Callers : d # c => call'[d] = call[d]
  BY IdleIs DEF Return

(* When every process is idle, nothing is claimed of calls.                  *)
LEMMA IdleHolds ==
  ASSUME \A c \in Callers : call'[c].step = "idle"
  PROVE  Locked' /\ Flight' /\ Progress'
  BY DEF Locked, Flight, FlightOf, Progress, ProgressOf, At

(* A step of the process in a delivery leaves the others idle: what Inv says *)
(* of calls has to be shown of that process only.                            *)
LEMMA Mine ==
  ASSUME Inv, NEW c \in Callers, ~At(c, "idle"),
         \A d \in Callers : d # c => call'[d] = call[d],
         ~At(c, "idle")' => lock' = c, FlightOf(c)', ProgressOf(c)'
  PROVE  Locked' /\ Flight' /\ Progress'
<1>1. \A d \in Callers : d # c => call'[d].step = "idle"
  BY Alone DEF At
<1>2. Locked'
  BY <1>1 DEF Locked, At
<1>3. Flight'
  BY <1>1 DEF Flight, FlightOf, At
<1>4. Progress'
  BY <1>1 DEF Progress, ProgressOf, At
<1> QED BY <1>2, <1>3, <1>4

LEMMA InitInv ==
  ASSUME Init
  PROVE  Inv
<1>1. EmptyFile \in Files /\ EmptyFile.sentEvents = {}
      /\ \A e \in Events, t \in Targets : EmptyFile.deliveries[e][t] = NoRecord
  BY LedgerAssumption DEF EmptyFile, Files, NoRecord, Records
<1>2. PICK f \in HealthEvents \cup {NoEvent} : file = [EmptyFile EXCEPT !.fingerprint = f]
  BY DEF Init
<1>3. /\ file \in Files /\ file.fingerprint = f /\ file.sentEvents = {}
      /\ \A e \in Events, t \in Targets : file.deliveries[e][t] = NoRecord
  BY <1>1, <1>2 DEF Files, Events
<1>4. TypeOK
  BY <1>3, IdleIs DEF Init, TypeOK, Results
<1>5. Recorded
  BY <1>3 DEF Init, Recorded, Record, NoRecord
<1>6. Locked /\ Flight /\ Progress
  BY IdleIs DEF Init, Locked, Flight, FlightOf, Progress, ProgressOf, At
<1> QED BY <1>3, <1>4, <1>5, <1>6 DEF Inv

-----------------------------------------------------------------------------
LEMMA BeginInv ==
  ASSUME Inv, NEW c \in Callers, NEW e \in Events,
         NEW chats \in SUBSET Targets, Begin(c, e, chats)
  PROVE  Inv'
<1> USE DEF Inv
<1>0. \A d \in Callers : At(d, "idle")
  BY AllIdle DEF Begin
<1>1. CASE ~(lock' = c /\ lock' # Nobody)
  <2>1. UNCHANGED <<file, received>> /\ call' \in [Callers -> Calls] /\ result' \in Results
        /\ lock' = Nobody /\ \A d \in Callers : call'[d].step = "idle"
    BY <1>0, <1>1, ReturnIs, LedgerAssumption DEF Begin, At, TypeOK, Results
  <2>2. TypeOK'
    BY <2>1 DEF TypeOK, Begin, Fault, NoFault
  <2>3. Recorded'
    BY <2>1 DEF Recorded, Record
  <2> QED BY <2>1, <2>2, <2>3, IdleHolds
<1>2. CASE lock' = c /\ lock' # Nobody
  <2> DEFINE new == [Idle EXCEPT !.step = "loaded", !.event = e, !.chats = chats, !.left = chats]
             demoted == [file EXCEPT !.deliveries[e] = Demote(@)]
  <2>1. new \in Calls /\ new.step = "loaded" /\ new.event = e /\ new.target = NoEvent
        /\ new.chats = chats /\ new.left = chats
    BY DEF Idle, Calls, Steps
  <2>2. file' = demoted /\ Goes(c, new) /\ received' = received
    BY <1>2 DEF Begin, Return
  <2>3. /\ file' \in Files /\ file'.fingerprint = file.fingerprint
        /\ file'.sentEvents = file.sentEvents
        /\ \A e2 \in Events, t2 \in Targets :
             /\ Record(e2, t2)'.attempts = Record(e2, t2).attempts
             /\ Record(e2, t2)'.status = Record(e2, t2).status
                \/ (Record(e2, t2).status = "pending" /\ Record(e2, t2)'.status = "unknown")
    <3>1. file \in Files
      BY DEF TypeOK
    <3>2. /\ demoted \in Files /\ demoted.fingerprint = file.fingerprint
          /\ demoted.sentEvents = file.sentEvents
          /\ \A e2 \in Events, t2 \in Targets :
               /\ demoted.deliveries[e2][t2].attempts = file.deliveries[e2][t2].attempts
               /\ demoted.deliveries[e2][t2].status = file.deliveries[e2][t2].status
                  \/ (e2 = e /\ file.deliveries[e2][t2].status = "pending"
                      /\ demoted.deliveries[e2][t2].status = "unknown")
      BY <3>1, DemotedIs
    <3> HIDE DEF demoted
    <3> QED BY <2>2, <3>2 DEF Record
  <2>4. call' \in [Callers -> Calls] /\ call'[c] = new /\ result' \in Results
        /\ \A d \in Callers : d # c => call'[d] = call[d]
    BY <2>1, <2>2, GoesIs DEF TypeOK
  <2>5. TypeOK'
    BY <1>2, <2>2, <2>3, <2>4 DEF TypeOK, Begin, Fault, NoFault
  <2>6. Recorded'
    BY <2>2, <2>3 DEF Recorded
  <2>7. Locked' /\ Flight' /\ Progress'
    <3> HIDE DEF new
    <3>1. \A d \in Callers : d # c => call'[d].step = "idle"
      BY <1>0, <2>4 DEF At
    <3>2. Locked'
      BY <1>2, <3>1 DEF Locked, At
    <3>3. Flight'
      BY <2>1, <2>4, <3>1 DEF Flight, FlightOf, At
    <3>4. Progress'
      BY <2>1, <2>4, <3>1 DEF Progress, ProgressOf, At
    <3> QED BY <3>2, <3>3, <3>4
  <2> QED BY <2>3, <2>5, <2>6, <2>7
<1> QED BY <1>1, <1>2

(* An attempt that is persisted counts, and marks a health event as owned.   *)
LEMMA ClaimingIs ==
  ASSUME Inv, NEW e \in Events, NEW t \in Targets, Claimable(Record(e, t))
  PROVE  /\ Attempt(e, t) \in Records /\ Attempt(e, t).status = "pending"
         /\ Claiming(e, t) \in Files /\ Claiming(e, t).fingerprint = file.fingerprint
         /\ Claiming(e, t).sentEvents = file.sentEvents \cup ({e} \cap HealthEvents)
         /\ \A e2 \in Events, t2 \in Targets :
              Claiming(e, t).deliveries[e2][t2] =
                IF e2 = e /\ t2 = t THEN Attempt(e, t) ELSE Record(e2, t2)
<1> USE DEF Inv
<1>1. file \in Files /\ Record(e, t) \in Records
  BY DEF TypeOK, Files, Record
<1>2. Attempt(e, t) \in Records /\ Attempt(e, t).status = "pending"
  <2>1. Record(e, t).attempts + 1 \in 0..AttemptLimit
    BY <1>1, LedgerAssumption DEF Claimable, Records, Recorded
  <2> QED BY <2>1 DEF Attempt, Record, Records, Statuses
<1> DEFINE put == Put(file, e, t, Attempt(e, t))
<1>3. /\ put \in Files /\ put.fingerprint = file.fingerprint
      /\ put.sentEvents = file.sentEvents
      /\ \A e2 \in Events, t2 \in Targets :
           put.deliveries[e2][t2] =
             IF e2 = e /\ t2 = t THEN Attempt(e, t) ELSE file.deliveries[e2][t2]
  BY <1>1, <1>2, PutIs
<1>4. Claiming(e, t) = Remember(put, e)
  BY DEF Claiming
<1> HIDE DEF put
<1> QED BY <1>2, <1>3, <1>4, RememberIs DEF Record

LEMMA ClaimInv ==
  ASSUME Inv, NEW c \in Callers, NEW t \in Targets, Claim(c, t)
  PROVE  Inv'
<1> USE DEF Inv
<1> DEFINE e == call[c].event
<1>0. /\ ~At(c, "idle") /\ At(c, "loaded") /\ lock = c /\ e \in Events
      /\ call[c] \in Calls /\ file \in Files /\ Record(e, t) \in Records
      /\ Claimable(Record(e, t)) /\ t \in call[c].left
  <2>1. ~At(c, "idle") /\ At(c, "loaded") /\ call[c] \in Calls /\ file \in Files
        /\ t \in call[c].left /\ Claimable(file.deliveries[e][t])
    BY DEF Claim, At, TypeOK
  <2>2. e \in Events /\ lock = c
    BY <2>1, Alone DEF Progress, ProgressOf
  <2>3. Record(e, t) \in Records
    BY <2>1, <2>2 DEF Record, Files
  <2> QED BY <2>1, <2>2, <2>3 DEF Record
<1>1. CASE Fault /\ Return(c, "errors") /\ UNCHANGED file
  <2>1. /\ call' \in [Callers -> Calls] /\ call'[c].step = "idle" /\ result' \in Results
        /\ lock' = Nobody /\ \A d \in Callers : d # c => call'[d] = call[d]
    BY <1>1, ReturnIs DEF TypeOK, Results
  <2>2. TypeOK'
    BY <1>1, <2>1 DEF TypeOK, Claim, Fault
  <2>3. Recorded'
    BY <1>1 DEF Recorded, Record, Claim
  <2>4. Locked' /\ Flight' /\ Progress'
    BY <1>0, <2>1, Mine DEF At, FlightOf, ProgressOf
  <2> QED BY <1>1, <2>2, <2>3, <2>4
<1>2. CASE NoFault /\ file' = Claiming(e, t) /\ UNCHANGED lock
           /\ Goes(c, [call[c] EXCEPT !.step = "claimed", !.target = t,
                                       !.left = @ \ {t}, !.claimed = TRUE])
  <2> DEFINE new == [call[c] EXCEPT !.step = "claimed", !.target = t,
                                    !.left = @ \ {t}, !.claimed = TRUE]
  <2>1. /\ new \in Calls /\ new.step = "claimed" /\ new.target = t /\ new.event = e
        /\ new.left = call[c].left \ {t} /\ new.chats = call[c].chats
        /\ new.errors = call[c].errors
    BY <1>0 DEF Calls, Steps
  <2> HIDE DEF new
  <2>2. call' \in [Callers -> Calls] /\ call'[c] = new /\ result' \in Results
        /\ \A d \in Callers : d # c => call'[d] = call[d]
    BY <1>2, <2>1, GoesIs DEF TypeOK, new
  <2>3. Attempt(e, t) \in Records /\ Attempt(e, t).status = "pending"
    BY <1>0, ClaimingIs
  <2>4. /\ file' \in Files /\ file'.fingerprint = file.fingerprint
        /\ file'.sentEvents = file.sentEvents \cup ({e} \cap HealthEvents)
        /\ \A e2 \in Events, t2 \in Targets :
             Record(e2, t2)' = IF e2 = e /\ t2 = t THEN Attempt(e, t) ELSE Record(e2, t2)
    BY <1>0, <1>2, ClaimingIs DEF Record
  <2>5. received[e][t] = 0 /\ received' = received
    BY <1>0 DEF Recorded, Claimable, Claim
  <2>6. TypeOK'
    BY <1>2, <2>2, <2>4, <2>5 DEF TypeOK, Claim, NoFault
  <2>7. Recorded'
    BY <1>0, <2>3, <2>4, <2>5 DEF Recorded
  <2>8. FlightOf(c)'
    BY <1>0, <2>1, <2>2, <2>3, <2>4, <2>5 DEF FlightOf, At
  <2>9. ProgressOf(c)'
    <3>1. call[c].target = NoEvent /\ call[c].chats \subseteq Targets /\ NoEvent \notin Targets
      BY <1>0, LedgerAssumption DEF Progress, ProgressOf, Calls
    <3>2. ~call[c].errors => \A u \in call[c].chats \ call[c].left :
                                u # call[c].target => Record(e, u).status = "sent"
      BY <1>0 DEF Progress, ProgressOf
    <3>3. \A u \in Targets \ {t} : file'.deliveries[e][u] = Record(e, u)
      BY <1>0, <2>4 DEF Record
    <3>4. ASSUME ~call[c].errors, NEW u \in call[c].chats \ (call[c].left \ {t}), u # t
          PROVE  file'.deliveries[e][u].status = "sent"
      <4>1. u \in Targets \ {t} /\ u \in call[c].chats \ call[c].left /\ u # call[c].target
        BY <3>1, <3>4
      <4> QED BY <3>2, <3>3, <3>4, <4>1
    <3>5. e \in Events /\ new.step # "loaded"
      BY <1>0, <2>1
    <3> QED BY <2>1, <2>2, <3>4, <3>5 DEF ProgressOf, At, Record
  <2>10. Locked' /\ Flight' /\ Progress'
    BY <1>0, <1>2, <2>2, <2>8, <2>9, Mine
  <2> QED BY <2>4, <2>6, <2>7, <2>10
<1> QED BY <1>1, <1>2 DEF Claim

LEMMA SendInv ==
  ASSUME Inv, NEW c \in Callers, Send(c)
  PROVE  Inv'
<1> USE DEF Inv
<1> DEFINE e == call[c].event
           t == call[c].target
<1>0. /\ ~At(c, "idle") /\ At(c, "claimed") /\ lock = c /\ e \in Events /\ t \in Targets
      /\ call[c] \in Calls /\ Record(e, t).status = "pending" /\ received[e][t] = 0
      /\ e \in HealthEvents => e \in file.sentEvents
  BY Alone DEF Send, At, TypeOK, Progress, ProgressOf, Flight, FlightOf
<1>1. PICK delivered \in BOOLEAN, outcome \in {"sent", "failed", "unknown"} :
        /\ outcome = "sent" => delivered
        /\ outcome = "failed" => ~delivered
        /\ received' = [received EXCEPT ![e][t] = @ + IF delivered THEN 1 ELSE 0]
        /\ Goes(c, [call[c] EXCEPT !.step = "answered", !.outcome = outcome])
  BY DEF Send
<1> DEFINE new == [call[c] EXCEPT !.step = "answered", !.outcome = outcome]
<1>2. /\ new \in Calls /\ new.step = "answered" /\ new.outcome = outcome /\ new.event = e
      /\ new.target = t /\ new.left = call[c].left /\ new.chats = call[c].chats
      /\ new.errors = call[c].errors
  BY <1>0 DEF Calls, Steps
<1> HIDE DEF new
<1>3. call' \in [Callers -> Calls] /\ call'[c] = new /\ result' \in Results
      /\ \A d \in Callers : d # c => call'[d] = call[d]
  BY <1>1, <1>2, GoesIs DEF TypeOK, new
<1>4. UNCHANGED <<file, lock, calls, faults>>
  BY DEF Send
<1>5. /\ received' \in [Events -> [Targets -> Nat]]
      /\ \A e2 \in Events, t2 \in Targets :
           received'[e2][t2] = IF e2 = e /\ t2 = t THEN (IF delivered THEN 1 ELSE 0)
                               ELSE received[e2][t2]
  BY <1>0, <1>1 DEF TypeOK
<1>6. TypeOK'
  BY <1>3, <1>4, <1>5 DEF TypeOK
<1>7. Recorded'
  BY <1>0, <1>4, <1>5 DEF Recorded, Record
<1>8. FlightOf(c)'
  <2>1. received'[e][t] = IF delivered THEN 1 ELSE 0
    BY <1>0, <1>5
  <2>2. file'.deliveries[e][t].status = "pending"
    BY <1>0, <1>4 DEF Record
  <2> QED BY <1>0, <1>1, <1>2, <1>3, <1>4, <2>1, <2>2 DEF FlightOf, At, Record
<1>9. ProgressOf(c)'
  BY <1>0, <1>2, <1>3, <1>4 DEF Progress, ProgressOf, At, Record
<1>10. Locked' /\ Flight' /\ Progress'
  BY <1>0, <1>3, <1>4, <1>8, <1>9, Mine
<1> QED BY <1>4, <1>6, <1>7, <1>10

LEMMA StoredIs ==
  ASSUME Inv, NEW c \in Callers, At(c, "answered")
  PROVE  LET e == call[c].event  t == call[c].target IN
         /\ lock = c /\ e \in Events /\ t \in Targets /\ call[c] \in Calls
         /\ Answered(c) \in Records /\ Answered(c).status = call[c].outcome
         /\ Stored(c) \in Files /\ Stored(c).fingerprint = file.fingerprint
         /\ Stored(c).sentEvents = file.sentEvents
         /\ \A e2 \in Events, t2 \in Targets :
              Stored(c).deliveries[e2][t2] =
                IF e2 = e /\ t2 = t THEN Answered(c) ELSE Record(e2, t2)
<1> USE DEF Inv
<1> DEFINE e == call[c].event
           t == call[c].target
<1>1. lock = c /\ e \in Events /\ t \in Targets /\ call[c] \in Calls /\ file \in Files
      /\ call[c].outcome \in {"sent", "failed", "unknown"}
  BY Alone DEF At, TypeOK, Progress, ProgressOf, Flight, FlightOf
<1>2. file.deliveries[e][t] \in Records
  BY <1>1 DEF Files
<1>3. Answered(c) \in Records /\ Answered(c).status = call[c].outcome
  BY <1>1, <1>2 DEF Answered, Records, Statuses
<1> QED BY <1>1, <1>3, PutIs DEF Stored, Record

(* Once the outcome is stored the records are right again, whether the call  *)
(* goes on or ends.                                                          *)
LEMMA StoredRecorded ==
  ASSUME Inv, NEW c \in Callers, At(c, "answered"),
         file' = Stored(c), received' = received
  PROVE  Recorded'
<1> USE DEF Inv
<1> DEFINE e == call[c].event
           t == call[c].target
<1>1. /\ e \in Events /\ t \in Targets /\ Answered(c).status = call[c].outcome
      /\ file'.sentEvents = file.sentEvents
      /\ \A e2 \in Events, t2 \in Targets :
           Record(e2, t2)' = IF e2 = e /\ t2 = t THEN Answered(c) ELSE Record(e2, t2)
  BY StoredIs DEF Record
<1>2. /\ call[c].outcome \in {"sent", "failed", "unknown"}
      /\ call[c].outcome = "sent" => received[e][t] = 1
      /\ call[c].outcome = "failed" => received[e][t] = 0
      /\ e \in HealthEvents => e \in file.sentEvents
  BY DEF Flight, FlightOf
<1> QED BY <1>1, <1>2 DEF Recorded

LEMMA StoreInv ==
  ASSUME Inv, NEW c \in Callers, Store(c)
  PROVE  Inv'
<1> USE DEF Inv
<1> DEFINE e == call[c].event
           t == call[c].target
<1>0. At(c, "answered") /\ ~At(c, "idle")
  BY DEF Store, At
<1>1. /\ lock = c /\ e \in Events /\ t \in Targets /\ call[c] \in Calls
      /\ Answered(c).status = call[c].outcome
      /\ file' \in Files /\ file'.fingerprint = file.fingerprint
      /\ \A e2 \in Events, t2 \in Targets :
           Record(e2, t2)' = IF e2 = e /\ t2 = t THEN Answered(c) ELSE Record(e2, t2)
  BY <1>0, StoredIs DEF Store, Record
<1>2. /\ Next1(c) \in Calls /\ Next1(c).step = "loaded" /\ Next1(c).target = NoEvent
      /\ Next1(c).event = e /\ Next1(c).chats = call[c].chats /\ Next1(c).left = call[c].left
      /\ Next1(c).errors = (call[c].errors \/ call[c].outcome # "sent")
  BY <1>1 DEF Next1, Calls, Steps
<1>3. call' \in [Callers -> Calls] /\ call'[c] = Next1(c) /\ result' \in Results
      /\ \A d \in Callers : d # c => call'[d] = call[d]
  BY <1>2, GoesIs DEF Store, TypeOK
<1>4. TypeOK'
  BY <1>1, <1>3 DEF TypeOK, Store
<1>5. Recorded'
  BY <1>0, StoredRecorded DEF Store
<1>6. FlightOf(c)'
  BY <1>2, <1>3 DEF FlightOf, At
<1>7. ProgressOf(c)'
  <2>1. ~call[c].errors => \A u \in call[c].chats \ call[c].left :
                              u # t => Record(e, u).status = "sent"
    BY <1>0 DEF Progress, ProgressOf
  <2>2. call[c].chats \subseteq Targets
    BY <1>1 DEF Calls
  <2>3. call'[c].errors \/ \A u \in call'[c].chats \ call'[c].left :
                             file'.deliveries[e][u].status = "sent"
    <3>1. call'[c].chats = call[c].chats /\ call'[c].left = call[c].left
          /\ (~call'[c].errors => ~call[c].errors /\ call[c].outcome = "sent")
      BY <1>2, <1>3
    <3>2. file'.deliveries[e][t].status = call[c].outcome
      BY <1>1 DEF Record
    <3>3. \A u \in Targets \ {t} : file'.deliveries[e][u] = Record(e, u)
      BY <1>1 DEF Record
    <3> QED BY <2>1, <2>2, <3>1, <3>2, <3>3 DEF Record
  <2> QED BY <1>1, <1>2, <1>3, <2>3 DEF ProgressOf, At, Record
<1>8. Locked' /\ Flight' /\ Progress'
  BY <1>0, <1>1, <1>3, <1>6, <1>7, Mine DEF Store
<1> QED BY <1>1, <1>4, <1>5, <1>8

(* A call that ends leaves every process idle.                               *)
LEMMA EndsIdle ==
  ASSUME Inv, NEW c \in Callers, ~At(c, "idle"),
         NEW answer \in Results, Return(c, answer)
  PROVE  /\ call' \in [Callers -> Calls] /\ result' = answer /\ lock' = Nobody
         /\ call'[c].step = "idle"
         /\ Locked' /\ Flight' /\ Progress'
<1>1. /\ call' \in [Callers -> Calls] /\ call'[c].step = "idle" /\ lock' = Nobody
      /\ \A d \in Callers : d # c => call'[d] = call[d]
  BY ReturnIs DEF Inv, TypeOK
<1>2. Locked' /\ Flight' /\ Progress'
  BY <1>1, Mine DEF At, FlightOf, ProgressOf
<1> QED BY <1>1, <1>2 DEF Return

LEMMA StoreFailsInv ==
  ASSUME Inv, NEW c \in Callers, StoreFails(c)
  PROVE  Inv'
<1> USE DEF Inv
<1>0. At(c, "answered") /\ ~At(c, "idle") /\ "errors" \in Results
  BY DEF StoreFails, At, Results
<1>1. /\ call' \in [Callers -> Calls] /\ result' = "errors" /\ lock' = Nobody
      /\ Locked' /\ Flight' /\ Progress'
  BY <1>0, EndsIdle DEF StoreFails
<1>2. file' = file \/ file' = Stored(c)
  BY DEF StoreFails
<1>3. file' \in Files /\ file'.fingerprint = file.fingerprint
  BY <1>0, <1>2, StoredIs DEF TypeOK
<1>4. TypeOK'
  BY <1>0, <1>1, <1>3 DEF TypeOK, StoreFails, Fault
<1>5. Recorded'
  BY <1>0, <1>2, StoredRecorded DEF StoreFails, Recorded, Record
<1> QED BY <1>1, <1>3, <1>4, <1>5

LEMMA ConcludedIs ==
  ASSUME Inv, NEW c \in Callers, ~At(c, "idle")
  PROVE  /\ Concluded(c) \in Files /\ Concluded(c).deliveries = file.deliveries
         /\ Concluded(c).fingerprint \in HealthEvents \cup {NoEvent}
         /\ file.sentEvents \subseteq Concluded(c).sentEvents
<1> DEFINE r == Remember(file, call[c].event)
<1>1. /\ r \in Files /\ r.fingerprint = file.fingerprint /\ r.deliveries = file.deliveries
      /\ file.sentEvents \subseteq r.sentEvents
  BY RememberIs DEF Inv, TypeOK, Progress, ProgressOf
<1> HIDE DEF r
<1>2. /\ Concluded(c) = r
         \/ (call[c].event \in HealthEvents
             /\ Concluded(c) = [r EXCEPT !.fingerprint = call[c].event])
  BY DEF Concluded, r
<1> QED BY <1>1, <1>2 DEF Inv, Files, Events

LEMMA FinishInv ==
  ASSUME Inv, NEW c \in Callers, Finish(c)
  PROVE  Inv'
<1> USE DEF Inv
<1>0. ~At(c, "idle")
  BY DEF Finish, At
<1>1. PICK answer \in Results : Return(c, answer)
  BY DEF Finish, Verdict, Results
<1>2. /\ call' \in [Callers -> Calls] /\ result' \in Results /\ lock' = Nobody
      /\ Locked' /\ Flight' /\ Progress'
  BY <1>0, <1>1, EndsIdle
<1>3. /\ file' \in Files /\ file'.fingerprint \in HealthEvents \cup {NoEvent}
      /\ file'.deliveries = file.deliveries /\ file.sentEvents \subseteq file'.sentEvents
  BY <1>0, ConcludedIs DEF Finish, TypeOK
<1>4. TypeOK'
  BY <1>2, <1>3 DEF TypeOK, Finish, Fault, NoFault
<1>5. Recorded'
  BY <1>3 DEF Recorded, Record, Finish
<1> QED BY <1>2, <1>3, <1>4, <1>5

LEMMA ClearInv ==
  ASSUME Inv, NEW c \in Callers, Clear(c)
  PROVE  Inv'
<1> USE DEF Inv
<1>0. file \in Files /\ NoRecord \in Records /\ NoRecord.status = "none" /\ NoRecord.attempts = 0
  BY LedgerAssumption DEF TypeOK, NoRecord, Records
<1>1. /\ file' \in Files /\ file'.fingerprint = NoEvent
      /\ \A e \in Events, t \in Targets :
           Record(e, t)' = IF Dropped(e, t) THEN NoRecord ELSE Record(e, t)
  BY <1>0 DEF Clear, Cleared, Files, Record
<1>2. /\ received' \in [Events -> [Targets -> Nat]]
      /\ \A e \in Events, t \in Targets :
           received'[e][t] = IF e \in HealthEvents /\ Record(e, t).status = "sent" THEN 0
                             ELSE received[e][t]
  BY DEF Clear, TypeOK, Record
<1>3. \A e \in Events, t \in Targets :
        Dropped(e, t) <=> e \in HealthEvents /\ Record(e, t).status = "sent"
  BY <1>0, LedgerAssumption DEF Dropped, Owned, Recorded, Record, Files, Events
<1>4. Recorded'
  BY <1>0, <1>1, <1>2, <1>3 DEF Recorded
<1>5. /\ call' \in [Callers -> Calls] /\ result' \in Results
      /\ \A d \in Callers : call'[d].step = "idle"
  BY AllIdle, GoesIs, IdleIs DEF Clear, TypeOK, At
<1>6. TypeOK'
  BY <1>1, <1>2, <1>5 DEF TypeOK, Clear
<1> QED BY <1>1, <1>4, <1>5, <1>6, IdleHolds

LEMMA CrashInv ==
  ASSUME Inv, NEW c \in Callers, Crash(c)
  PROVE  Inv'
<1> USE DEF Inv
<1>0. ~At(c, "idle")
  BY DEF Crash, At
<1>1. /\ call' \in [Callers -> Calls] /\ call'[c].step = "idle" /\ result' \in Results
      /\ \A d \in Callers : d # c => call'[d] = call[d]
  BY GoesIs, IdleIs DEF Crash, TypeOK
<1>2. Locked' /\ Flight' /\ Progress'
  BY <1>0, <1>1, Mine DEF At, FlightOf, ProgressOf
<1>3. TypeOK'
  BY <1>1 DEF TypeOK, Crash, Fault
<1>4. Recorded'
  BY DEF Recorded, Record, Crash
<1> QED BY <1>2, <1>3, <1>4 DEF Crash

LEMMA NextInv ==
  ASSUME Inv, [Next]_lvars
  PROVE  Inv'
<1>1. ASSUME NEW c \in Callers, NEW e \in Events, NEW chats \in (SUBSET Targets) \ {{}},
             Begin(c, e, chats)
      PROVE  Inv'
  BY <1>1, BeginInv
<1>2. ASSUME NEW c \in Callers, NEW t \in Targets, Claim(c, t)
      PROVE  Inv'
  BY <1>2, ClaimInv
<1>3. ASSUME NEW c \in Callers, Send(c) \/ Store(c) \/ StoreFails(c) \/ Finish(c)
      PROVE  Inv'
  BY <1>3, SendInv, StoreInv, StoreFailsInv, FinishInv
<1>4. ASSUME NEW c \in Callers, Clear(c) \/ Crash(c)
      PROVE  Inv'
  BY <1>4, ClearInv, CrashInv
<1>5. CASE UNCHANGED lvars
  BY <1>5 DEF lvars, Inv, TypeOK, Locked, Recorded, Flight, FlightOf, Progress, ProgressOf,
              At, Record
<1> QED BY <1>1, <1>2, <1>3, <1>4, <1>5 DEF Next

-----------------------------------------------------------------------------
(* The inductive invariant, for every value of the constants.                *)
THEOREM Inductive == Spec => []Inv
<1>1. Init => Inv
  BY InitInv
<1>2. Inv /\ [Next]_lvars => Inv'
  BY NextInv
<1> QED BY <1>1, <1>2, PTL DEF Spec

(* Every variable keeps its type, and no record counts more attempts than    *)
(* _DELIVERY_ATTEMPT_LIMIT.                                                  *)
THEOREM TypeCorrect == Spec => []TypeOK
<1>1. Inv => TypeOK
  BY DEF Inv
<1> QED BY <1>1, Inductive, PTL

(* deliver_telegram_targets sends a chat the message of an incident at most  *)
(* once, whatever dies, fails or is run again.                               *)
THEOREM AtMostOnce == Spec => []AtMostOncePerIncident
<1>1. Inv => AtMostOncePerIncident
  BY DEF Inv, Recorded, AtMostOncePerIncident
<1> QED BY <1>1, Inductive, PTL

(* Every health event a chat was sent is one the next _clear_alert drops.    *)
THEOREM ClearReopens == Spec => []AllClearReopens
<1>1. Inv => AllClearReopens
  BY DEF Inv, Recorded, Record, AllClearReopens, Owned, Events
<1> QED BY <1>1, Inductive, PTL

(* What QuietMeansReached says of one step.                                  *)
QuietStep ==
  \A c \in Callers :
    call[c].step = "loaded" /\ call'[c].step = "idle" /\ result' \in {"all_sent", "suppressed"} =>
      \A t \in call[c].chats : received[call[c].event][t] = 1

LEMMA FinishQuiet ==
  ASSUME Inv, NEW c \in Callers, Finish(c), result' \in {"all_sent", "suppressed"}
  PROVE  \A t \in call[c].chats :
           Record(call[c].event, t).status = "sent" /\ received[call[c].event][t] = 1
<1> DEFINE e == call[c].event
<1>1. /\ call[c] \in Calls /\ e \in Events /\ call[c].target = NoEvent
      /\ call[c].chats \subseteq Targets /\ NoEvent \notin Targets
  BY LedgerAssumption DEF Finish, Inv, TypeOK, Progress, ProgressOf, At, Calls
<1>2. result' = Verdict(c)
  BY DEF Finish, Return
<1>3. ~call[c].errors /\ \A t \in call[c].left : ~Held(Record(e, t))
  BY <1>2 DEF Verdict, Record
<1>4. \A t \in call[c].left : Record(e, t).status = "sent"
  BY <1>3 DEF Finish, Held, Record
<1>5. \A t \in call[c].chats \ call[c].left : Record(e, t).status = "sent"
  BY <1>1, <1>3 DEF Finish, Inv, Progress, ProgressOf, At
<1> QED BY <1>1, <1>4, <1>5 DEF Inv, Recorded

LEMMA NextQuiet ==
  ASSUME Inv, [Next]_lvars
  PROVE  QuietStep
<1> SUFFICES ASSUME NEW c \in Callers, call[c].step = "loaded", call'[c].step = "idle",
                    result' \in {"all_sent", "suppressed"}
             PROVE  \A t \in call[c].chats : received[call[c].event][t] = 1
  BY DEF QuietStep
<1>1. \A d \in Callers : d # c => call[d].step = "idle"
  BY Alone DEF At
<1>2. ~Free /\ lock = c
  BY Alone, LedgerAssumption DEF At, Free
<1>3. ~(UNCHANGED lvars)
  BY DEF lvars
<1>4. ASSUME NEW d \in Callers,
             \/ \E e \in Events : \E chats \in (SUBSET Targets) \ {{}} : Begin(d, e, chats)
             \/ Clear(d)
      PROVE  FALSE
  BY <1>2, <1>4 DEF Begin, Clear
<1>5. ASSUME NEW d \in Callers, Send(d) \/ Store(d) \/ StoreFails(d)
      PROVE  FALSE
  BY <1>1, <1>5 DEF Send, Store, StoreFails
<1>6. ASSUME NEW d \in Callers, (\E t \in Targets : Claim(d, t)) \/ Crash(d)
      PROVE  FALSE
  <2>1. result' \in {"none", "errors"}
    BY <1>6 DEF Claim, Crash, Goes, Return
  <2> QED BY <2>1
<1>7. PICK d \in Callers : Finish(d)
  BY <1>3, <1>4, <1>5, <1>6 DEF Next
<1>8. d = c
  BY <1>1, <1>7 DEF Finish
<1> QED BY <1>7, <1>8, FinishQuiet

(* A delivery that reports no error has reached every chat of it.            *)
THEOREM QuietReached == Spec => QuietMeansReached
<1>1. Inv /\ [Next]_lvars => [QuietStep]_lvars
  BY NextQuiet
<1> QED BY <1>1, Inductive, PTL DEF Spec, QuietMeansReached, QuietStep

-----------------------------------------------------------------------------
(* The ledger keeps the contract.  What a step has to show is said chat by   *)
(* chat: where the event stands and what the chat got, as the contract sees  *)
(* them.                                                                     *)
Stand(e, t) == IF InHand(e, t) THEN "none" ELSE Standing(Record(e, t))
Got(e, t) == IF InHand(e, t) THEN 0 ELSE received[e][t]
Same(e, t) == Stand(e, t)' = Stand(e, t) /\ Got(e, t)' = Got(e, t)
Seen == /\ \A e \in Events, t \in Targets : Got(e, t) \in Nat /\ Stand(e, t) \in Contract!Standings

(* A delivery has chats; what it is done with it has claimed, and the chat   *)
(* it is at is one of them.                                                  *)
HandOf(c) ==
  ~At(c, "idle") =>
    /\ call[c].chats # {} /\ call[c].left \subseteq call[c].chats
    /\ (At(c, "claimed") \/ At(c, "answered")) => call[c].target \in call[c].chats \ call[c].left
    /\ call[c].left # call[c].chats => call[c].claimed
Hand == \A c \in Callers : HandOf(c)

LEMMA HandMine ==
  ASSUME Inv, Hand, NEW c \in Callers, HandOf(c)',
         \A d \in Callers : d # c => call'[d] = call[d]
  PROVE  Hand'
  BY DEF Hand, HandOf, At

LEMMA HandKept ==
  ASSUME Inv, Hand, NEW c \in Callers, ~At(c, "idle"),
         call'[c].chats = call[c].chats, call'[c].left \subseteq call[c].left,
         call[c].claimed => call'[c].claimed,
         call'[c].left # call[c].left => call'[c].claimed,
         call'[c].step \in {"claimed", "answered"} => call'[c].target \in call'[c].chats \ call'[c].left,
         \A d \in Callers : d # c => call'[d] = call[d]
  PROVE  Hand'
<1>1. /\ call[c].chats # {} /\ call[c].left \subseteq call[c].chats
      /\ call[c].left # call[c].chats => call[c].claimed
  BY DEF Hand, HandOf
<1>2. call'[c].left # call'[c].chats => call'[c].claimed
  BY <1>1
<1>3. HandOf(c)'
  BY <1>1, <1>2 DEF HandOf, At
<1> QED BY <1>3, HandMine

LEMMA HandStep ==
  ASSUME Inv, Hand, [Next]_lvars
  PROVE  Hand'
<1>0. call \in [Callers -> Calls]
  BY DEF Inv, TypeOK
<1>1. ASSUME NEW c \in Callers, NEW answer \in Results, Return(c, answer)
      PROVE  Hand'
  BY <1>0, <1>1, ReturnIs, HandMine DEF HandOf, At
<1>2. ASSUME NEW c \in Callers, NEW e \in Events, NEW chats \in (SUBSET Targets) \ {{}}, Begin(c, e, chats)
      PROVE  Hand'
  <2> DEFINE new == [Idle EXCEPT !.step = "loaded", !.event = e, !.chats = chats, !.left = chats]
  <2>1. CASE Goes(c, new)
    <3>1. new \in Calls /\ new.step = "loaded" /\ new.chats = chats /\ new.left = chats
      BY DEF Idle, Calls, Steps
    <3>2. call'[c] = new /\ \A d \in Callers : d # c => call'[d] = call[d]
      BY <1>0, <2>1, <3>1, GoesIs
    <3> HIDE DEF new
    <3>3. HandOf(c)'
      BY <3>1, <3>2 DEF HandOf, At
    <3> QED BY <3>2, <3>3, HandMine
  <2>2. CASE Return(c, "errors") \/ Return(c, "legacy")
    BY <1>1, <2>2 DEF Results
  <2> QED BY <1>2, <2>1, <2>2 DEF Begin
<1>3. ASSUME NEW c \in Callers, NEW t \in Targets, Claim(c, t)
      PROVE  Hand'
  <2> DEFINE new == [call[c] EXCEPT !.step = "claimed", !.target = t,
                                    !.left = @ \ {t}, !.claimed = TRUE]
  <2>1. CASE Goes(c, new)
    <3>1. new.claimed
      BY <1>0, Zenon DEF Calls
    <3>2. /\ new \in Calls /\ new.step = "claimed" /\ new.target = t
          /\ new.left = call[c].left \ {t} /\ new.chats = call[c].chats
      <4>1. call[c] \in Calls
        BY <1>0
      <4> QED BY <4>1 DEF Calls, Steps
    <3>3. call'[c] = new /\ \A d \in Callers : d # c => call'[d] = call[d]
      BY <1>0, <2>1, <3>2, GoesIs
    <3> HIDE DEF new
    <3>4. t \in call[c].left /\ call[c].left \subseteq call[c].chats
      BY <1>3 DEF Claim, Hand, HandOf, At
    <3>5. ~At(c, "idle")
      BY <1>3 DEF Claim, At
    <3>6. /\ call'[c].chats = call[c].chats /\ call'[c].left = call[c].left \ {t}
          /\ call'[c].target = t /\ call'[c].claimed
      BY <3>1, <3>2, <3>3
    <3>7. call'[c].left # call[c].left
      BY <3>4, <3>6
    <3> QED BY <3>3, <3>4, <3>5, <3>6, <3>7, HandKept
  <2>2. CASE Return(c, "errors")
    BY <1>1, <2>2 DEF Results
  <2> QED BY <1>3, <2>1, <2>2 DEF Claim
<1>4. ASSUME NEW c \in Callers, Send(c)
      PROVE  Hand'
  <2>1. PICK outcome \in {"sent", "failed", "unknown"} :
          Goes(c, [call[c] EXCEPT !.step = "answered", !.outcome = outcome])
    BY <1>4 DEF Send
  <2> DEFINE new == [call[c] EXCEPT !.step = "answered", !.outcome = outcome]
  <2>2. call[c].claimed => new.claimed
    BY <1>0, Zenon DEF Calls
  <2>3. /\ new \in Calls /\ new.step = "answered" /\ new.target = call[c].target
        /\ new.left = call[c].left /\ new.chats = call[c].chats
    <3>1. call[c] \in Calls
      BY <1>0
    <3> QED BY <3>1 DEF Calls, Steps
  <2>4. call'[c] = new /\ \A d \in Callers : d # c => call'[d] = call[d]
    BY <1>0, <2>1, <2>3, GoesIs
  <2> HIDE DEF new
  <2>5. ~At(c, "idle") /\ call[c].target \in call[c].chats \ call[c].left
    BY <1>4 DEF Send, Hand, HandOf, At
  <2>6. /\ call'[c].chats = call[c].chats /\ call'[c].left = call[c].left
        /\ call'[c].target = call[c].target /\ (call[c].claimed => call'[c].claimed)
    BY <2>2, <2>3, <2>4
  <2> QED BY <2>4, <2>5, <2>6, HandKept
<1>5. ASSUME NEW c \in Callers, Store(c)
      PROVE  Hand'
  <2>1. call[c].claimed => Next1(c).claimed
    BY <1>0, Zenon DEF Next1, Calls
  <2>2. /\ Next1(c) \in Calls /\ Next1(c).step = "loaded" /\ Next1(c).left = call[c].left
        /\ Next1(c).chats = call[c].chats
    <3>1. call[c] \in Calls
      BY <1>0
    <3> QED BY <3>1 DEF Next1, Calls, Steps
  <2>3. call'[c] = Next1(c) /\ \A d \in Callers : d # c => call'[d] = call[d]
    BY <1>0, <1>5, <2>2, GoesIs DEF Store
  <2>4. ~At(c, "idle")
    BY <1>5 DEF Store, At
  <2>5. /\ call'[c].chats = call[c].chats /\ call'[c].left = call[c].left
        /\ call'[c].step = "loaded" /\ (call[c].claimed => call'[c].claimed)
    BY <2>1, <2>2, <2>3
  <2> QED BY <2>3, <2>4, <2>5, HandKept
<1>6. ASSUME NEW c \in Callers, StoreFails(c) \/ Finish(c)
      PROVE  Hand'
  BY <1>1, <1>6 DEF StoreFails, Finish, Verdict, Results
<1>7. ASSUME NEW c \in Callers, Clear(c) \/ Crash(c)
      PROVE  Hand'
  <2>1. call'[c].step = "idle" /\ \A d \in Callers : d # c => call'[d] = call[d]
    BY <1>0, <1>7, GoesIs, IdleIs DEF Clear, Crash
  <2> QED BY <2>1, HandMine DEF HandOf, At
<1>8. CASE UNCHANGED lvars
  BY <1>8 DEF lvars, Hand, HandOf, At
<1> QED BY <1>2, <1>3, <1>4, <1>5, <1>6, <1>7, <1>8 DEF Next

(* The contract's operators, said chat by chat.                              *)
LEMMA SeenAlways ==
  ASSUME Inv
  PROVE  Seen
  BY DEF Inv, TypeOK, Seen, Got, Stand, Standing, Contract!Standings

LEMMA SeenNext ==
  ASSUME Inv'
  PROVE  Seen'
  BY DEF Inv, TypeOK, Seen, Got, Stand, Standing, Contract!Standings

LEMMA WorkIs ==
  ASSUME \A e \in Events, t \in Targets : Same(e, t), result' = "none"
  PROVE  Contract!Next
<1>1. Contract!Work
  BY DEF Contract!Work, Same, Stand, Got, Record
<1> QED BY <1>1 DEF Contract!Next

LEMMA TreatsIs ==
  ASSUME Seen', NEW e \in Events, NEW chats \in (SUBSET Targets) \ {{}}, NEW returned,
         \A t \in chats :
           <<Stand(e, t)', Got(e, t)' - Got(e, t), returned>> \in Contract!Deliveries(Stand(e, t)),
         \A f \in Events, t \in Targets : f # e \/ t \notin chats => Same(f, t),
         \/ result' = returned /\ returned \in {"all_sent", "suppressed", "errors"}
         \/ result' = "none" /\ returned = "errors"
  PROVE  Contract!Next
<1>1. Contract!Treats(e, chats, returned)
  BY DEF Contract!Treats, Contract!Keeps, Same, Stand, Got, Record
<1>2. Contract!Deliver(e, chats) \/ Contract!Die(e, chats)
  <2>1. CASE result' = returned /\ returned \in {"all_sent", "suppressed", "errors"}
    <3>1. Contract!Treats(e, chats, result')
      BY <1>1, <2>1 DEF Contract!Treats
    <3> QED BY <2>1, <3>1 DEF Contract!Deliver
  <2>2. CASE result' = "none" /\ returned = "errors"
    <3>1. Contract!Treats(e, chats, "errors")
      BY <1>1, <2>2 DEF Contract!Treats
    <3> QED BY <2>2, <3>1 DEF Contract!Die
  <2> QED BY <2>1, <2>2
<1>3. /\ [f \in Events |-> [t \in Targets |-> Stand(f, t)']] \in [Events -> [Targets -> Contract!Standings]]
      /\ [f \in Events |-> [t \in Targets |-> Got(f, t)']] \in [Events -> [Targets -> Nat]]
  BY DEF Seen
<1> QED BY <1>2, <1>3 DEF Contract!Next, Stand, Got, Record

(* What the contract allows a delivery to do to a chat.                      *)
LEMMA Allowed ==
  ASSUME NEW old, NEW new, NEW got, NEW returned,
         \/ /\ old = "none" /\ returned = "errors"
            /\ \/ new = "none" /\ got = 0
               \/ new = "sent" /\ got = 1
               \/ new = "unknown" /\ got \in {0, 1}
         \/ old = "none" /\ returned = "all_sent" /\ new = "sent" /\ got = 1
         \/ old = "sent" /\ returned \in {"all_sent", "suppressed"} /\ new = old /\ got = 0
         \/ old \in Contract!Standings /\ returned = "errors" /\ new = old /\ got = 0
  PROVE  <<new, got, returned>> \in Contract!Deliveries(old)
  BY DEF Contract!Deliveries, Contract!Standings

LEMMA LegacyIs ==
  ASSUME Seen', NEW e \in HealthEvents, \A t \in Targets : Stand(e, t) = "none",
         \A f \in Events, t \in Targets : Same(f, t), result' = "legacy"
  PROVE  Contract!Next
<1>1. Contract!Legacy(e)
  BY DEF Contract!Legacy, Same, Stand, Got, Record, Events
<1>2. /\ [f \in Events |-> [t \in Targets |-> Stand(f, t)']] \in [Events -> [Targets -> Contract!Standings]]
      /\ [f \in Events |-> [t \in Targets |-> Got(f, t)']] \in [Events -> [Targets -> Nat]]
  BY DEF Seen
<1> QED BY <1>1, <1>2 DEF Contract!Next, Stand, Got, Record, Events

(* A delivery that fails or dies has done to each chat it claimed what its   *)
(* record says, and nothing to the others.                                   *)
LEMMA EndsContract ==
  ASSUME Inv, Inv', Hand, NEW c \in Callers, ~At(c, "idle"), lock' = Nobody,
         received' = received, result' \in {"errors", "none"},
         \A f \in Events, t \in Targets :
           ~InHand(f, t) => file'.deliveries[f][t].status = Record(f, t).status
  PROVE  Contract!Next
<1>1. lock = c /\ lock # Nobody
  BY Alone, LedgerAssumption
<1>2. PICK e \in Events, chats \in (SUBSET Targets) \ {{}} : e = call[c].event /\ chats = call[c].chats
  BY DEF Inv, TypeOK, Progress, ProgressOf, Hand, HandOf, Calls
<1>3. Seen /\ Seen'
  BY SeenAlways, SeenNext
<1>4. \A f \in Events, t \in Targets :
        Stand(f, t)' = Standing(file'.deliveries[f][t]) /\ Got(f, t)' = received[f][t]
  BY DEF Stand, Got, InHand, Record
<1>5. \A f \in Events, t \in Targets : ~InHand(f, t) => Same(f, t)
  BY <1>4 DEF Same, Stand, Got, Standing
<1>6. \A f \in Events, t \in Targets : f # e \/ t \notin chats => Same(f, t)
  BY <1>1, <1>2, <1>5 DEF InHand
<1>7. ASSUME NEW t \in chats
      PROVE  <<Stand(e, t)', Got(e, t)' - Got(e, t), "errors">> \in Contract!Deliveries(Stand(e, t))
  <2>1. CASE InHand(e, t)
    <3>1. Stand(e, t) = "none" /\ Got(e, t) = 0
      BY <2>1 DEF Stand, Got
    <3>2. /\ received[e][t] \in {0, 1}
          /\ file'.deliveries[e][t].status \in {"none", "failed"} => received[e][t] = 0
          /\ file'.deliveries[e][t].status = "sent" => received[e][t] = 1
      <4>1. t \in Targets /\ received[e][t] \in Nat
        BY <1>2, <1>7 DEF Inv, TypeOK
      <4>2. Recorded'
        BY DEF Inv
      <4> QED BY <4>1, <4>2 DEF Recorded, Record
    <3>3. \/ Stand(e, t)' = "none" /\ Got(e, t)' = 0
          \/ Stand(e, t)' = "sent" /\ Got(e, t)' = 1
          \/ Stand(e, t)' = "unknown" /\ Got(e, t)' \in {0, 1}
      BY <1>2, <1>4, <1>7, <3>2 DEF Standing
    <3>4. Got(e, t)' - Got(e, t) = Got(e, t)'
      BY <3>1, <3>3
    <3> QED BY <3>1, <3>3, <3>4, Allowed
  <2>2. CASE ~InHand(e, t)
    <3>1. Stand(e, t)' = Stand(e, t) /\ Got(e, t)' - Got(e, t) = 0
      BY <1>2, <1>3, <1>5, <1>7, <2>2 DEF Same, Seen
    <3>2. Stand(e, t) \in Contract!Standings
      BY <1>2, <1>3, <1>7 DEF Seen
    <3> QED BY <3>1, <3>2, Allowed
  <2> QED BY <2>1, <2>2
<1> QED BY <1>3, <1>6, <1>7, TreatsIs

LEMMA BeginContract ==
  ASSUME Inv, Inv', NEW c \in Callers, NEW e \in Events,
         NEW chats \in (SUBSET Targets) \ {{}}, Begin(c, e, chats)
  PROVE  Contract!Next
<1>1. Seen /\ Seen'
  BY SeenAlways, SeenNext
<1>2. \A f \in Events, t \in Targets :
        Stand(f, t) = Standing(Record(f, t)) /\ Got(f, t) = received[f][t]
  BY DEF Stand, Got, InHand, Begin, Free
<1>3. CASE Return(c, "errors") /\ UNCHANGED file
  <2>1. \A f \in Events, t \in Targets : Same(f, t)
    BY <1>2, <1>3 DEF Return, Same, Stand, Got, InHand, Begin, Record
  <2>2. ASSUME NEW t \in chats
        PROVE  <<Stand(e, t)', Got(e, t)' - Got(e, t), "errors">> \in Contract!Deliveries(Stand(e, t))
    <3>1. Stand(e, t)' = Stand(e, t) /\ Got(e, t)' - Got(e, t) = 0
          /\ Stand(e, t) \in Contract!Standings
      BY <1>1, <2>1 DEF Same, Seen
    <3> QED BY <3>1, Allowed
  <2>3. result' = "errors"
    BY <1>3 DEF Return
  <2> QED BY <1>1, <2>1, <2>2, <2>3, TreatsIs
<1>4. CASE Legacy(e) /\ Return(c, "legacy") /\ UNCHANGED file
  <2>1. \A f \in Events, t \in Targets : Same(f, t)
    BY <1>2, <1>4 DEF Return, Same, Stand, Got, InHand, Begin, Record
  <2>2. e \in HealthEvents
    BY <1>4, LedgerAssumption DEF Inv, Legacy, Events
  <2>3. \A t \in Targets : Stand(e, t) = "none"
    BY <1>2, <1>4 DEF Legacy, Standing, Record, NoRecord
  <2>4. result' = "legacy"
    BY <1>4 DEF Return
  <2> QED BY <1>1, <2>1, <2>2, <2>3, <2>4, LegacyIs
<1>5. CASE NoFault /\ ~Legacy(e) /\ lock' = c /\ result' = "none"
           /\ file' = [file EXCEPT !.deliveries[e] = Demote(@)]
           /\ call'[c].chats = call'[c].left
  <2>1. \A f \in Events, t \in Targets : ~InHand(f, t)'
    BY <1>5 DEF InHand
  <2>2. \A f \in Events, t \in Targets : Standing(file'.deliveries[f][t]) = Standing(Record(f, t))
    <3> DEFINE demoted == [file EXCEPT !.deliveries[e] = Demote(@)]
    <3>1. file \in Files
      BY DEF Inv, TypeOK
    <3>2. /\ demoted \in Files /\ demoted.fingerprint = file.fingerprint
          /\ demoted.sentEvents = file.sentEvents
          /\ \A f \in Events, t \in Targets :
               /\ demoted.deliveries[f][t].attempts = file.deliveries[f][t].attempts
               /\ demoted.deliveries[f][t].status = file.deliveries[f][t].status
                  \/ (f = e /\ file.deliveries[f][t].status = "pending"
                      /\ demoted.deliveries[f][t].status = "unknown")
      BY <3>1, DemotedIs
    <3>3. file' = demoted
      BY <1>5
    <3> HIDE DEF demoted
    <3>4. ASSUME NEW f \in Events, NEW t \in Targets
          PROVE  Standing(file'.deliveries[f][t]) = Standing(Record(f, t))
      BY <3>2, <3>3 DEF Standing, Record
    <3> QED BY <3>4
  <2>3. \A f \in Events, t \in Targets : Same(f, t)
    BY <1>2, <2>1, <2>2 DEF Same, Stand, Got, Begin, Record
  <2> QED BY <1>5, <2>3, WorkIs
<1> DEFINE new == [Idle EXCEPT !.step = "loaded", !.event = e, !.chats = chats, !.left = chats]
<1>6. ASSUME Goes(c, new)
      PROVE  call'[c].chats = call'[c].left /\ result' = "none"
  <2>1. new.chats = chats /\ new.left = chats
    BY DEF Idle
  <2> HIDE DEF new
  <2>2. call'[c] = new /\ result' = "none"
    BY <1>6 DEF Goes, Inv, TypeOK
  <2> QED BY <2>1, <2>2
<1> QED BY <1>3, <1>4, <1>5, <1>6 DEF Begin

LEMMA ClaimContract ==
  ASSUME Inv, Inv', Hand, NEW c \in Callers, NEW t \in Targets, Claim(c, t)
  PROVE  Contract!Next
<1>1. ~At(c, "idle") /\ call[c] \in Calls
  BY DEF Claim, At, Inv, TypeOK
<1>2. lock = c /\ lock # Nobody
  BY <1>1, Alone, LedgerAssumption
<1>3. CASE Return(c, "errors") /\ UNCHANGED file
  <2>1. lock' = Nobody /\ result' = "errors" /\ received' = received
    BY <1>3 DEF Return, Claim
  <2> QED BY <1>1, <1>3, <2>1, EndsContract DEF Record
<1>4. PICK e \in Events : e = call[c].event
  BY <1>1 DEF Inv, Progress, ProgressOf
<1> DEFINE new == [call[c] EXCEPT !.step = "claimed", !.target = t,
                                  !.left = @ \ {t}, !.claimed = TRUE]
<1>5. CASE Goes(c, new) /\ file' = Claiming(e, t) /\ UNCHANGED lock
  <2>1. call'[c] = new /\ result' = "none"
    BY <1>5 DEF Goes, Inv, TypeOK
  <2>2. /\ call'[c].event = e /\ call'[c].chats = call[c].chats
        /\ call'[c].left = call[c].left \ {t}
    BY <1>1, <1>4, <2>1 DEF Calls
  <2>3. t \in call[c].left /\ t \in call[c].chats
    BY <1>1 DEF Claim, Hand, HandOf
  <2>4. \A f \in Events, u \in Targets :
          InHand(f, u)' <=> InHand(f, u) \/ (f = e /\ u = t)
    BY <1>2, <1>4, <1>5, <2>2, <2>3 DEF InHand
  <2>5. Stand(e, t) = "none" /\ Got(e, t) = 0
    BY <1>2, <1>4, <2>3 DEF Stand, Got, InHand, Claim, Claimable, Standing, Inv, Recorded, Record
  <2>6. \A f \in Events, u \in Targets : f # e \/ u # t =>
          file'.deliveries[f][u] = Record(f, u)
    <3>1. Claimable(Record(e, t))
      BY <1>4 DEF Claim, Record
    <3> QED BY <1>5, <3>1, ClaimingIs
  <2>7. \A f \in Events, u \in Targets : Same(f, u)
    <3>1. ASSUME NEW f \in Events, NEW u \in Targets, f # e \/ u # t
          PROVE  Same(f, u)
      BY <2>4, <2>6, <3>1 DEF Same, Stand, Got, Claim, Record
    <3>2. Same(e, t)
      BY <2>4, <2>5 DEF Same, Stand, Got
    <3> QED BY <3>1, <3>2
  <2> QED BY <2>1, <2>7, WorkIs
<1> QED BY <1>3, <1>4, <1>5 DEF Claim

LEMMA SendContract ==
  ASSUME Inv, Inv', Hand, NEW c \in Callers, Send(c)
  PROVE  Contract!Next
<1>1. ~At(c, "idle") /\ At(c, "claimed") /\ call[c] \in Calls
  BY DEF Send, At, Inv, TypeOK
<1>2. lock = c /\ lock' = c /\ lock # Nobody
  BY <1>1, Alone, LedgerAssumption DEF Send
<1>3. PICK e \in Events, t \in Targets : e = call[c].event /\ t = call[c].target
  BY <1>1 DEF Inv, Progress, ProgressOf, Flight, FlightOf
<1>4. InHand(e, t)
  BY <1>1, <1>2, <1>3 DEF InHand, Hand, HandOf
<1>5. PICK outcome \in {"sent", "failed", "unknown"} :
        Goes(c, [call[c] EXCEPT !.step = "answered", !.outcome = outcome])
  BY DEF Send
<1>6. /\ call'[c].event = call[c].event /\ call'[c].chats = call[c].chats
      /\ call'[c].left = call[c].left /\ result' = "none"
  BY <1>1, <1>5 DEF Goes, Inv, TypeOK, Calls
<1>7. \A f \in Events, u \in Targets : InHand(f, u)' = InHand(f, u)
  BY <1>2, <1>6 DEF InHand
<1>8. \A f \in Events, u \in Targets :
        file'.deliveries[f][u] = Record(f, u) /\ (f # e \/ u # t => received'[f][u] = received[f][u])
  BY <1>3 DEF Send, Record, Inv, TypeOK
<1>9. \A f \in Events, u \in Targets : Same(f, u)
  BY <1>4, <1>7, <1>8 DEF Same, Stand, Got, Record
<1> QED BY <1>6, <1>9, WorkIs

LEMMA StoreContract ==
  ASSUME Inv, Inv', Hand, NEW c \in Callers, Store(c)
  PROVE  Contract!Next
<1>1. ~At(c, "idle") /\ At(c, "answered") /\ call[c] \in Calls
  BY DEF Store, At, Inv, TypeOK
<1>2. lock = c /\ lock' = c /\ lock # Nobody
  BY <1>1, Alone, LedgerAssumption DEF Store
<1>3. PICK e \in Events, t \in Targets : e = call[c].event /\ t = call[c].target
  BY <1>1 DEF Inv, Progress, ProgressOf, Flight, FlightOf
<1>4. InHand(e, t)
  BY <1>1, <1>2, <1>3 DEF InHand, Hand, HandOf
<1>5. /\ call'[c].event = call[c].event /\ call'[c].chats = call[c].chats
      /\ call'[c].left = call[c].left /\ result' = "none"
  BY <1>1 DEF Store, Next1, Goes, Inv, TypeOK, Calls
<1>6. \A f \in Events, u \in Targets : InHand(f, u)' = InHand(f, u)
  BY <1>2, <1>5 DEF InHand
<1>7. \A f \in Events, u \in Targets : f # e \/ u # t => file'.deliveries[f][u] = Record(f, u)
  BY <1>1, <1>3, StoredIs DEF Store
<1>8. \A f \in Events, u \in Targets : Same(f, u)
  BY <1>4, <1>6, <1>7 DEF Same, Stand, Got, Record, Store
<1> QED BY <1>5, <1>8, WorkIs

LEMMA StoreFailsContract ==
  ASSUME Inv, Inv', Hand, NEW c \in Callers, StoreFails(c)
  PROVE  Contract!Next
<1>1. ~At(c, "idle") /\ At(c, "answered") /\ call[c] \in Calls
  BY DEF StoreFails, At, Inv, TypeOK
<1>2. lock = c /\ lock # Nobody
  BY <1>1, Alone, LedgerAssumption
<1>3. PICK e \in Events, t \in Targets : e = call[c].event /\ t = call[c].target
  BY <1>1 DEF Inv, Progress, ProgressOf, Flight, FlightOf
<1>4. InHand(e, t)
  BY <1>1, <1>2, <1>3 DEF InHand, Hand, HandOf
<1>5. \A f \in Events, u \in Targets : f # e \/ u # t => file'.deliveries[f][u] = Record(f, u)
  BY <1>1, <1>3, StoredIs DEF StoreFails, Record
<1>6. lock' = Nobody /\ result' = "errors" /\ received' = received
  BY DEF StoreFails, Return
<1> QED BY <1>1, <1>4, <1>5, <1>6, EndsContract

LEMMA CrashContract ==
  ASSUME Inv, Inv', Hand, NEW c \in Callers, Crash(c)
  PROVE  Contract!Next
<1>1. ~At(c, "idle") /\ lock' = Nobody /\ result' = "none" /\ UNCHANGED <<file, received>>
  BY DEF Crash, At, Goes
<1> QED BY <1>1, EndsContract DEF Record

(* A delivery that ends without errors has sent every chat it claimed, and   *)
(* every other chat had been sent before.                                    *)
LEMMA FinishContract ==
  ASSUME Inv, Inv', Hand, NEW c \in Callers, Finish(c)
  PROVE  Contract!Next
<1>1. ~At(c, "idle") /\ At(c, "loaded") /\ call[c] \in Calls
  BY DEF Finish, At, Inv, TypeOK
<1>2. lock = c /\ lock # Nobody
  BY <1>1, Alone, LedgerAssumption
<1>3. lock' = Nobody /\ received' = received
  BY DEF Finish, Return
<1>4. file'.deliveries = file.deliveries
  BY <1>1, ConcludedIs DEF Finish
<1>5. CASE result' = "errors"
  BY <1>1, <1>3, <1>4, <1>5, EndsContract DEF Record
<1>6. CASE result' # "errors"
  <2>1. result' = Verdict(c)
    BY <1>6 DEF Finish, Return
  <2>2. result' \in {"all_sent", "suppressed"} /\ (call[c].claimed => result' = "all_sent")
    BY <1>6, <2>1 DEF Verdict
  <2>3. PICK e \in Events, chats \in (SUBSET Targets) \ {{}} : e = call[c].event /\ chats = call[c].chats
    BY <1>1 DEF Inv, Progress, ProgressOf, Hand, HandOf, Calls
  <2>4. \A t \in chats : Record(e, t).status = "sent" /\ received[e][t] = 1
    BY <2>2, <2>3, FinishQuiet
  <2>5. \A f \in Events, t \in Targets :
          Stand(f, t)' = Standing(Record(f, t)) /\ Got(f, t)' = received[f][t]
    BY <1>2, <1>3, <1>4 DEF Stand, Got, InHand, Record
  <2>6. \A f \in Events, t \in Targets : f # e \/ t \notin chats => Same(f, t)
    BY <1>2, <2>3, <2>5 DEF InHand, Same, Stand, Got
  <2>7. ASSUME NEW t \in chats
        PROVE  <<Stand(e, t)', Got(e, t)' - Got(e, t), result'>> \in Contract!Deliveries(Stand(e, t))
    <3>1. Stand(e, t)' = "sent" /\ Got(e, t)' = 1
      BY <2>3, <2>4, <2>5, <2>7 DEF Standing
    <3>2. CASE InHand(e, t)
      <4>1. call[c].left # call[c].chats
        BY <1>2, <3>2 DEF InHand
      <4>2. result' = "all_sent"
        BY <1>1, <2>2, <4>1 DEF Hand, HandOf
      <4>3. Stand(e, t) = "none" /\ Got(e, t)' - Got(e, t) = 1
        BY <3>1, <3>2 DEF Stand, Got
      <4> QED BY <3>1, <4>2, <4>3, Allowed
    <3>3. CASE ~InHand(e, t)
      <4>1. Stand(e, t) = "sent" /\ Got(e, t)' - Got(e, t) = 0
        BY <2>3, <2>4, <2>7, <3>1, <3>3 DEF Stand, Got, Standing
      <4> QED BY <2>2, <3>1, <4>1, Allowed
    <3> QED BY <3>2, <3>3
  <2>8. Seen'
    BY SeenNext
  <2> QED BY <2>2, <2>6, <2>7, <2>8, TreatsIs
<1> QED BY <1>5, <1>6

LEMMA ClearContract ==
  ASSUME Inv, NEW c \in Callers, Clear(c)
  PROVE  Contract!Next
<1>1. \A f \in Events, t \in Targets : ~InHand(f, t) /\ ~InHand(f, t)'
  BY DEF Clear, Free, InHand
<1>2. \A f \in Events, t \in Targets :
        Dropped(f, t) <=> f \in HealthEvents /\ Record(f, t).status = "sent"
  BY LedgerAssumption DEF Inv, TypeOK, Dropped, Owned, Recorded, Record, Files, Events
<1>3. \A f \in Events, t \in Targets :
        /\ file'.deliveries[f][t] = IF Dropped(f, t) THEN NoRecord ELSE Record(f, t)
        /\ received'[f][t] = IF f \in HealthEvents /\ Record(f, t).status = "sent" THEN 0
                             ELSE received[f][t]
  BY DEF Clear, Cleared, Record
<1>4. ASSUME NEW f \in Events, NEW t \in Targets
      PROVE  /\ Stand(f, t)' = IF f \in HealthEvents /\ Stand(f, t) = "sent" THEN "none" ELSE Stand(f, t)
             /\ Got(f, t)' = IF f \in HealthEvents /\ Stand(f, t) = "sent" THEN 0 ELSE Got(f, t)
  <2>1. Stand(f, t) = Standing(Record(f, t)) /\ Got(f, t) = received[f][t]
    BY <1>1 DEF Stand, Got
  <2>2. Stand(f, t)' = Standing(file'.deliveries[f][t]) /\ Got(f, t)' = received'[f][t]
    BY <1>1 DEF Stand, Got, Record
  <2>3. Stand(f, t) = "sent" <=> Record(f, t).status = "sent"
    BY <2>1 DEF Standing
  <2>4. Standing(NoRecord) = "none"
    BY DEF Standing, NoRecord
  <2> QED BY <1>2, <1>3, <2>1, <2>2, <2>3, <2>4
<1>5. result' = "none"
  BY DEF Clear, Goes
<1>6. Contract!AllClear
  BY <1>4, <1>5 DEF Contract!AllClear, Contract!Reopens, Stand, Got, Record
<1> QED BY <1>6 DEF Contract!Next

LEMMA NextContract ==
  ASSUME Inv, Inv', Hand, [Next]_lvars
  PROVE  [Contract!Next]_(Contract!cvars)
<1>1. ASSUME NEW c \in Callers, NEW e \in Events, NEW chats \in (SUBSET Targets) \ {{}},
             Begin(c, e, chats)
      PROVE  Contract!Next
  BY <1>1, BeginContract
<1>2. ASSUME NEW c \in Callers, NEW t \in Targets, Claim(c, t)
      PROVE  Contract!Next
  BY <1>2, ClaimContract
<1>3. ASSUME NEW c \in Callers, Send(c) \/ Store(c) \/ StoreFails(c) \/ Finish(c)
      PROVE  Contract!Next
  BY <1>3, SendContract, StoreContract, StoreFailsContract, FinishContract
<1>4. ASSUME NEW c \in Callers, Clear(c) \/ Crash(c)
      PROVE  Contract!Next
  BY <1>4, ClearContract, CrashContract
<1>5. CASE UNCHANGED lvars
  <2>1. UNCHANGED <<file, lock, call, result, received>>
    BY <1>5 DEF lvars
  <2>2. \A f \in Events, t \in Targets : Same(f, t)
    BY <2>1 DEF Same, Stand, Got, InHand, Record
  <2>3. UNCHANGED Contract!cvars
    BY <2>1, <2>2 DEF Contract!cvars, Same, Stand, Got, Record
  <2> QED BY <2>3
<1> QED BY <1>1, <1>2, <1>3, <1>4, <1>5 DEF Next

LEMMA InitContract ==
  ASSUME Init
  PROVE  Hand /\ Contract!Init
<1>1. \A c \in Callers : At(c, "idle")
  BY IdleIs DEF Init, At
<1>2. Hand
  BY <1>1 DEF Hand, HandOf
<1>3. \A f \in Events, t \in Targets : Record(f, t) = NoRecord
  BY DEF Init, EmptyFile, Record
<1>4. \A f \in Events, t \in Targets : Stand(f, t) = "none" /\ Got(f, t) = 0
  BY <1>3 DEF Init, InHand, Stand, Got, Standing, NoRecord
<1>5. Contract!Init
  BY <1>4 DEF Contract!Init, Init, Stand, Got, Record
<1> QED BY <1>2, <1>5

(* deliver_telegram_targets and _clear_alert, step by step with every death  *)
(* and error, are to each chat and each caller what ChatDelivery says.       *)
THEOREM LedgerKeepsContract == Spec => KeepsContract
<1>1. Init => Inv /\ Hand /\ Contract!Init
  BY InitInv, InitContract
<1>2. Inv /\ Hand /\ [Next]_lvars => Inv' /\ Hand' /\ [Contract!Next]_(Contract!cvars)
  BY NextInv, HandStep, NextContract
<1> QED BY <1>1, <1>2, PTL DEF Spec, KeepsContract, Contract!Spec

=============================================================================
