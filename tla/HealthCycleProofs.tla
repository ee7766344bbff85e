--------------------------- MODULE HealthCycleProofs ---------------------------
(* Theorems about the two single-process parts of the health cycle: the       *)
(* operational diagnosis, for any incidents and any number of days, calls and *)
(* faults, and the health check, for any domains, artifacts, checks and       *)
(* faults.                                                                    *)
EXTENDS OperationalDiagnosis, HealthCheck, TLAPS

-----------------------------------------------------------------------------
(* The operational diagnosis. *)

\* What is on disk covers what was sent: a request is for an incident attempted
\* from the same file, and its date is no later than the last one.
SentCovered ==
  /\ \A r \in requests : ~r.again /\ <<r.file, r.incident>> \in attempts /\ r.date <= lastDate
  /\ \A r, q \in requests : r.date = q.date /\ r.date # 0 => r = q

\* What the caller at work on a file may still rely on: before it records the
\* attempt nothing was asked, and after that the attempt is its own.
AskerInv(f) ==
  LET i == asker[f].incident
      d == asker[f].date
  IN /\ asker[f].step \in {"decided", "recorded", "answered"} => i \in Incidents
     /\ asker[f].step \in {"decided", "recorded"} /\ d # 0 => f = "consumer"
     /\ asker[f].step = "decided" =>
          /\ ~asker[f].resumes => <<f, i>> \notin attempts
          /\ d # 0 => d > lastDate
     /\ asker[f].step = "recorded" =>
          /\ <<f, i>> \in attempts
          /\ ~asker[f].resumes => ~Asked(f, i)
          /\ d # 0 => d <= lastDate /\ \A r \in requests : r.date # d

DiagnosisInv == DTypeOK /\ SentCovered /\ \A f \in StateFiles : AskerInv(f)

LEMMA ReadyType == AReady \in Askers /\ AReady.step = "ready"
BY DiagnosisAssumption DEF AReady, Askers

LEMMA WritingType ==
  ASSUME NEW i \in Incidents \cup {NoIncident}
  PROVE  Writing(i) \in Askers /\ Writing(i).step = "write"
BY DiagnosisAssumption DEF Writing, Askers

LEMMA DiagnosisInit == DInit => DiagnosisInv
<1> SUFFICES ASSUME DInit PROVE DiagnosisInv
  OBVIOUS
<1>1. \A f \in StateFiles : asker[f] = AReady
  BY DEF DInit
<1>2. DTypeOK
  BY ReadyType, DiagnosisAssumption DEF DInit, DTypeOK
<1>3. SentCovered
  BY DEF DInit, SentCovered
<1>4. \A f \in StateFiles : AskerInv(f)
  BY <1>1, ReadyType DEF AskerInv
<1>5. QED
  BY <1>2, <1>3, <1>4 DEF DiagnosisInv

\* A caller that is not in a request, or no longer, has nothing to rely on, and
\* the one at work on the other file is not concerned.
LEMMA Elsewhere ==
  ASSUME DiagnosisInv, NEW f \in StateFiles, NEW a \in Askers,
         a.step \in {"ready", "write"}, asker' = [asker EXCEPT ![f] = a],
         attempts' = attempts, lastDate' = lastDate, requests' = requests
  PROVE  SentCovered' /\ asker' \in [StateFiles -> Askers] /\ \A g \in StateFiles : AskerInv(g)'
<1>1. SentCovered' /\ asker' \in [StateFiles -> Askers]
  BY DEF DiagnosisInv, SentCovered, DTypeOK
<1>2. ASSUME NEW g \in StateFiles PROVE AskerInv(g)'
  <2>1. CASE g = f
    <3>1. asker'[g].step \in {"ready", "write"}
      BY <2>1 DEF DiagnosisInv, DTypeOK
    <3>2. QED
      BY <3>1 DEF AskerInv
  <2>2. CASE g # f
    <3>1. asker'[g] = asker[g] /\ AskerInv(g)
      BY <2>2 DEF DiagnosisInv, DTypeOK
    <3>2. QED
      BY <3>1 DEF AskerInv, Asked
  <2>3. QED
    BY <2>1, <2>2
<1>3. QED
  BY <1>1, <1>2

\* The call of a process that is in one returns.
LEMMA CallsOver ==
  ASSUME DiagnosisInv, NEW f \in StateFiles, CallOver(f),
         asker[f].step \in {"decided", "recorded", "answered"},
         attempts' = attempts, lastDate' = lastDate, requests' = requests
  PROVE  SentCovered' /\ asker' \in [StateFiles -> Askers] /\ \A g \in StateFiles : AskerInv(g)'
<1>1. asker[f].incident \in Incidents
  BY DEF DiagnosisInv, AskerInv
<1>2. Returned(f) \in Askers /\ Returned(f).step \in {"ready", "write"}
  BY <1>1, ReadyType, WritingType DEF Returned
<1>3. asker' = [asker EXCEPT ![f] = Returned(f)]
  BY DEF CallOver
<1>4. QED
  BY <1>2, <1>3, Elsewhere

\* The decision to ask: for a task to come back to, or for an incident that was
\* never attempted from the file; the daily consumer after the last date.
LEMMA DecideStep ==
  ASSUME DiagnosisInv, NEW f \in StateFiles, NEW i \in Incidents, NEW d \in 0..MaxDay,
         Decide(f, i, d), d # 0 => f = "consumer" /\ d > lastDate,
         UNCHANGED <<day, DWorld, State, requests, dfaults>>
  PROVE  DiagnosisInv'
<1> USE DEF DWorld, State
<1> DEFINE new == [step |-> "decided", incident |-> i, date |-> d, resumes |-> <<f, i>> \in pending]
<1>1. asker' = [asker EXCEPT ![f] = new] /\ asks' = asks + 1 /\ (~new.resumes => <<f, i>> \notin attempts)
  BY DEF Decide, Attempted
<1>2. new \in Askers
  BY DEF Askers
<1>3. DTypeOK'
  BY <1>1, <1>2 DEF DiagnosisInv, DTypeOK
<1>4. SentCovered'
  BY DEF DiagnosisInv, SentCovered
<1>5. ASSUME NEW g \in StateFiles PROVE AskerInv(g)'
  <2>1. CASE g = f
    <3>1. asker'[g] = new
      BY <1>1, <2>1 DEF DiagnosisInv, DTypeOK
    <3>2. QED
      BY <1>1, <2>1, <3>1 DEF AskerInv
  <2>2. CASE g # f
    <3>1. asker'[g] = asker[g] /\ AskerInv(g)
      BY <1>1, <2>2 DEF DiagnosisInv, DTypeOK
    <3>2. QED
      BY <3>1 DEF AskerInv, Asked
  <2>3. QED
    BY <2>1, <2>2
<1>6. QED
  BY <1>3, <1>4, <1>5 DEF DiagnosisInv

LEMMA StartStep ==
  ASSUME DiagnosisInv, StartCycle \/ StartDaily \/ StartLatest
  PROVE  DiagnosisInv'
<1>1. 0 \in 0..MaxDay /\ "cycle" \in StateFiles /\ "consumer" \in StateFiles
  BY DiagnosisAssumption DEF StateFiles
<1>2. CASE StartCycle
  <2>1. CASE \E i \in Incidents : Decide("cycle", i, 0)
    BY <1>1, <1>2, <2>1, DecideStep DEF StartCycle
  <2>2. ASSUME NEW i \in Incidents \cup {NoIncident}, asks' = asks,
               asker' = [asker EXCEPT !["cycle"] = Writing(i)]
        PROVE  DiagnosisInv'
    <3>1. /\ attempts' = attempts /\ pending' = pending /\ lastDate' = lastDate
          /\ requests' = requests /\ day' = day /\ recent' = recent /\ latest' = latest
          /\ dfaults' = dfaults
      BY <1>2 DEF StartCycle, DWorld, State
    <3>2. SentCovered' /\ asker' \in [StateFiles -> Askers] /\ \A g \in StateFiles : AskerInv(g)'
      BY <1>1, <2>2, <3>1, WritingType, Elsewhere
    <3>3. DTypeOK'
      BY <2>2, <3>1, <3>2 DEF DiagnosisInv, DTypeOK
    <3>4. QED
      BY <3>2, <3>3 DEF DiagnosisInv
  <2>3. QED
    BY <1>2, <2>1, <2>2 DEF StartCycle
<1>3. CASE StartDaily
  <2>1. PICK i \in Incidents : Decide("consumer", i, day)
    BY <1>3 DEF StartDaily, DiagnosisInv, DTypeOK
  <2>2. day \in 0..MaxDay /\ day > lastDate
    BY <1>3, DiagnosisAssumption DEF DiagnosisInv, DTypeOK, StartDaily, Limited
  <2>3. QED
    BY <1>1, <1>3, <2>1, <2>2, DecideStep DEF StartDaily
<1>4. CASE StartLatest
  <2>1. latest \in Incidents /\ Decide("consumer", latest, 0)
    BY <1>4 DEF StartLatest, DiagnosisInv, DTypeOK
  <2>2. QED
    BY <1>1, <1>4, <2>1, DecideStep DEF StartLatest
<1>5. QED
  BY <1>2, <1>3, <1>4

\* The attempt is on disk before anything is sent.
LEMMA RecordStep ==
  ASSUME DiagnosisInv, NEW f \in StateFiles, Record(f)
  PROVE  DiagnosisInv'
<1> USE DEF DWorld, DFault
<1> DEFINE i == asker[f].incident
           d == asker[f].date
<1>1. /\ pending' = pending /\ requests' = requests
      /\ day' = day /\ recent' = recent /\ latest' = latest /\ asks' = asks
      /\ asker[f].step = "decided" /\ i \in Incidents /\ asker[f] \in Askers
      /\ AskerInv(f) /\ SentCovered
  BY DEF Record, DiagnosisInv, AskerInv, DTypeOK
<1>2. CASE /\ attempts' = attempts \cup {<<f, i>>}
           /\ lastDate' = IF d # 0 THEN d ELSE lastDate
           /\ asker' = [asker EXCEPT ![f].step = "recorded"] /\ UNCHANGED dfaults
  <2>1. /\ asker' \in [StateFiles -> Askers] /\ asker'[f].step = "recorded"
        /\ asker'[f].incident = i /\ asker'[f].date = d
        /\ \A g \in StateFiles \ {f} : asker'[g] = asker[g]
    BY <1>1, <1>2 DEF DiagnosisInv, DTypeOK, Askers
  <2>2. asker'[f].resumes <=> asker[f].resumes
    <3>1. asker'[f] = [asker[f] EXCEPT !.step = "recorded"]
      BY <1>2 DEF DiagnosisInv, DTypeOK
    <3>2. QED
      BY <1>1, <3>1, Zenon DEF Askers
  <2>3. d \in 0..MaxDay /\ lastDate \in 0..MaxDay /\ lastDate' \in 0..MaxDay /\ lastDate <= lastDate'
    BY <1>1, <1>2 DEF DiagnosisInv, DTypeOK, AskerInv, Askers
  <2>4. DTypeOK'
    BY <1>1, <1>2, <2>1, <2>3 DEF DiagnosisInv, DTypeOK
  <2>5. \A r \in requests : r.date <= lastDate /\ r.date <= lastDate'
    <3>1. \A r \in requests : r.date \in 0..MaxDay /\ r.date <= lastDate
      BY <1>1 DEF DiagnosisInv, DTypeOK, SentCovered, Requests
    <3>2. QED
      BY <2>3, <3>1
  <2>6. SentCovered'
    BY <1>1, <1>2, <2>5 DEF SentCovered
  <2>7. AskerInv(f)'
    <3>1. ~asker[f].resumes => ~Asked(f, i)
      BY <1>1 DEF SentCovered, AskerInv, Asked
    <3>2. d # 0 => f = "consumer" /\ d <= lastDate' /\ \A r \in requests : r.date # d
      BY <1>1, <1>2, <2>3, <2>5 DEF AskerInv, DiagnosisInv, DTypeOK, Requests
    <3>3. \A j : Asked(f, j)' <=> Asked(f, j)
      BY <1>1 DEF Asked
    <3>4. QED
      BY <1>1, <1>2, <2>1, <2>2, <3>1, <3>2, <3>3 DEF AskerInv, Asked
  <2>8. ASSUME NEW g \in StateFiles \ {f} PROVE AskerInv(g)'
    <3>1. asker'[g] = asker[g] /\ AskerInv(g) /\ asker[g] \in Askers
      BY <2>1 DEF DiagnosisInv, DTypeOK
    <3>2. d # 0 => f = "consumer" /\ g # "consumer"
      BY <1>1 DEF AskerInv
    <3>3. d = 0 => lastDate' = lastDate
      BY <1>2
    <3>4. \A j : <<g, j>> \in attempts' <=> <<g, j>> \in attempts
      BY <1>2
    <3>5. QED
      BY <1>1, <3>1, <3>2, <3>3, <3>4 DEF AskerInv, Asked
  <2>9. QED
    BY <2>4, <2>6, <2>7, <2>8 DEF DiagnosisInv
<1>3. CASE dfaults' = dfaults + 1 /\ CallOver(f) /\ UNCHANGED <<attempts, lastDate>>
  <2>1. SentCovered' /\ asker' \in [StateFiles -> Askers] /\ \A g \in StateFiles : AskerInv(g)'
    BY <1>1, <1>3, CallsOver
  <2>2. DTypeOK'
    BY <1>1, <1>3, <2>1 DEF DiagnosisInv, DTypeOK
  <2>3. QED
    BY <2>1, <2>2 DEF DiagnosisInv
<1>4. QED
  BY <1>2, <1>3 DEF Record

\* The one request for an incident from the file, and the one for a date.
LEMMA AskStep ==
  ASSUME DiagnosisInv, NEW f \in StateFiles, Ask(f)
  PROVE  DiagnosisInv'
<1> USE DEF DWorld, State
<1> DEFINE i == asker[f].incident
           d == asker[f].date
           new == [file |-> f, incident |-> i, date |-> d, again |-> Asked(f, i)]
<1>1. /\ attempts' = attempts /\ pending' = pending /\ lastDate' = lastDate
      /\ day' = day /\ recent' = recent /\ latest' = latest /\ asks' = asks /\ dfaults' = dfaults
      /\ asker[f].step = "recorded" /\ i \in Incidents /\ asker[f] \in Askers
      /\ AskerInv(f) /\ SentCovered
      /\ requests' = IF asker[f].resumes THEN requests ELSE requests \cup {new}
  BY DEF Ask, DiagnosisInv, AskerInv, DTypeOK
<1>2. ~asker[f].resumes => ~Asked(f, i)
  BY <1>1 DEF AskerInv
<1>3. /\ d \in 0..MaxDay /\ <<f, i>> \in attempts /\ 0 <= lastDate
      /\ d # 0 => d <= lastDate /\ \A r \in requests : r.date # d
  BY <1>1 DEF AskerInv, Askers, DiagnosisInv, DTypeOK
<1>4. new \in Requests
  <2>1. Asked(f, i) \in BOOLEAN
    BY Zenon DEF Asked
  <2>2. ASSUME NEW b \in BOOLEAN
        PROVE  [file |-> f, incident |-> i, date |-> d, again |-> b] \in Requests
    BY <1>1, <1>3 DEF Requests
  <2>3. QED
    BY <2>1, <2>2, Zenon
<1>5. requests' \subseteq Requests
  BY <1>1, <1>4 DEF DiagnosisInv, DTypeOK
<1>6. SentCovered'
  <2>1. CASE asker[f].resumes
    BY <1>1, <2>1 DEF SentCovered
  <2>2. CASE ~asker[f].resumes
    <3>1. requests' = requests \cup {new}
      BY <1>1, <2>2
    <3>2. new.file = f /\ new.incident = i /\ new.date = d /\ ~new.again
      BY <1>2, <2>2
    <3>3. \A r \in requests' : ~r.again /\ <<r.file, r.incident>> \in attempts /\ r.date <= lastDate
      BY <1>1, <1>3, <3>1, <3>2 DEF SentCovered
    <3>4. \A r, q \in requests' : r.date = q.date /\ r.date # 0 => r = q
      BY <1>1, <1>3, <3>1, <3>2 DEF SentCovered
    <3>5. QED
      BY <1>1, <3>3, <3>4 DEF SentCovered
  <2>3. QED
    BY <2>1, <2>2
<1> DEFINE after == /\ asker' \in [StateFiles -> Askers]
                    /\ asker'[f].step \notin {"decided", "recorded"}
                    /\ asker'[f].step = "answered" => asker'[f].incident \in Incidents
                    /\ \A g \in StateFiles \ {f} : asker'[g] = asker[g]
<1>7. after
  <2>1. CASE CallOver(f)
    <3>1. Returned(f) \in Askers /\ Returned(f).step \in {"ready", "write"}
      BY <1>1, ReadyType, WritingType DEF Returned
    <3>2. QED
      BY <2>1, <3>1 DEF CallOver, DiagnosisInv, DTypeOK
  <2>2. ASSUME NEW u \in BOOLEAN,
               asker' = [asker EXCEPT ![f].step = "answered", ![f].resumes = u]
        PROVE  after
    BY <1>1, <2>2 DEF DiagnosisInv, DTypeOK, Askers
  <2>3. QED
    BY <2>1, <2>2 DEF Ask
<1>8. ASSUME NEW g \in StateFiles PROVE AskerInv(g)'
  <2>1. CASE g = f
    BY <1>7, <2>1 DEF AskerInv
  <2>2. CASE g # f
    <3>1. asker'[g] = asker[g] /\ AskerInv(g) /\ asker[g] \in Askers
      BY <1>7, <2>2 DEF DiagnosisInv, DTypeOK
    <3>2. asker[g].step = "recorded" /\ asker[g].date # 0 => d = 0
      BY <1>1, <2>2, <3>1 DEF AskerInv
    <3>3. \A j : Asked(g, j)' <=> Asked(g, j)
      BY <1>1, <2>2 DEF Asked
    <3>4. QED
      BY <1>1, <3>1, <3>2, <3>3 DEF AskerInv
  <2>3. QED
    BY <2>1, <2>2
<1>9. DTypeOK'
  BY <1>1, <1>5, <1>7 DEF DiagnosisInv, DTypeOK
<1>10. QED
  BY <1>6, <1>8, <1>9 DEF DiagnosisInv

LEMMA DiagnosisStep == DiagnosisInv /\ [DNext]_dvars => DiagnosisInv'
<1> SUFFICES ASSUME DiagnosisInv, [DNext]_dvars PROVE DiagnosisInv'
  OBVIOUS
<1> USE DEF DWorld, State, DFault
<1>1. CASE WriteCycle
  <2>1. /\ "cycle" \in StateFiles /\ asker' = [asker EXCEPT !["cycle"] = AReady]
        /\ attempts' = attempts /\ lastDate' = lastDate /\ requests' = requests
    BY <1>1 DEF WriteCycle, StateFiles
  <2>2. SentCovered' /\ asker' \in [StateFiles -> Askers] /\ \A g \in StateFiles : AskerInv(g)'
    BY <2>1, ReadyType, Elsewhere
  <2>3. asker["cycle"].incident \in Incidents \cup {NoIncident}
    BY <2>1 DEF DiagnosisInv, DTypeOK, Askers
  <2>4. DTypeOK'
    BY <1>1, <2>2, <2>3 DEF WriteCycle, DiagnosisInv, DTypeOK
  <2>5. QED
    BY <2>2, <2>4 DEF DiagnosisInv
<1>2. CASE Midnight
  <2>1. DTypeOK'
    BY <1>2, DiagnosisAssumption DEF Midnight, DiagnosisInv, DTypeOK
  <2>2. SentCovered' /\ \A g \in StateFiles : AskerInv(g)'
    BY <1>2 DEF Midnight, DiagnosisInv, SentCovered, AskerInv, Asked
  <2>3. QED
    BY <2>1, <2>2 DEF DiagnosisInv
<1>3. CASE StartCycle \/ StartDaily \/ StartLatest
  BY <1>3, StartStep
<1>4. ASSUME NEW f \in StateFiles, Record(f) PROVE DiagnosisInv'
  BY <1>4, RecordStep
<1>5. ASSUME NEW f \in StateFiles, Ask(f) PROVE DiagnosisInv'
  BY <1>5, AskStep
<1>6. ASSUME NEW f \in StateFiles, Keep(f) PROVE DiagnosisInv'
  <2>1. SentCovered' /\ asker' \in [StateFiles -> Askers] /\ \A g \in StateFiles : AskerInv(g)'
    BY <1>6, CallsOver DEF Keep
  <2>2. asker[f].incident \in Incidents
    BY <1>6 DEF Keep, DiagnosisInv, AskerInv
  <2>3. pending' \subseteq StateFiles \X Incidents
    BY <1>6, <2>2 DEF Keep, DiagnosisInv, DTypeOK
  <2>4. DTypeOK'
    BY <1>6, <2>1, <2>3 DEF Keep, DiagnosisInv, DTypeOK
  <2>5. QED
    BY <2>1, <2>4 DEF DiagnosisInv
<1>7. ASSUME NEW f \in StateFiles, DDie(f) PROVE DiagnosisInv'
  <2>1. SentCovered' /\ asker' \in [StateFiles -> Askers] /\ \A g \in StateFiles : AskerInv(g)'
    BY <1>7, ReadyType, Elsewhere DEF DDie
  <2>2. DTypeOK'
    BY <1>7, <2>1 DEF DDie, DiagnosisInv, DTypeOK
  <2>3. QED
    BY <2>1, <2>2 DEF DiagnosisInv
<1>8. CASE UNCHANGED dvars
  BY <1>8 DEF dvars, DiagnosisInv, DTypeOK, SentCovered, AskerInv, Asked
<1>9. QED
  BY <1>1, <1>2, <1>3, <1>4, <1>5, <1>6, <1>7, <1>8 DEF DNext

LEMMA DiagnosisInvariance == DSpec => []DiagnosisInv
BY DiagnosisInit, DiagnosisStep, PTL DEF DSpec

\* Every reachable state of the diagnosis is well typed.
THEOREM DiagnosisTypes == DSpec => []DTypeOK
<1>1. DiagnosisInv => DTypeOK
  BY DEF DiagnosisInv
<1>2. QED
  BY <1>1, DiagnosisInvariance, PTL

\* A set of errors is asked about once from each state file and a date is used
\* once, whatever answer is lost, write fails or process dies
\* (_record_operational_diagnosis_attempt before client.execute in
\* health_cycle.py).
THEOREM AskedOnce == DSpec => []DiagnosedOnce
<1>1. DiagnosisInv => DiagnosedOnce
  BY DEF DiagnosisInv, SentCovered, DiagnosedOnce
<1>2. QED
  BY <1>1, DiagnosisInvariance, PTL

-----------------------------------------------------------------------------
(* The health check. *)

CheckRecords ==
  [step : HSteps, todo : SUBSET Domains, domain : Domains, picked : 0..MaxArtifact,
   limited : BOOLEAN, found : [Domains -> 0..MaxArtifact], errors : SUBSET Domains,
   trouble : BOOLEAN]

StrictTypes == HTypeOK /\ stored \in [Domains -> SUBSET Artifacts] /\ check \in CheckRecords

\* A consumer's link goes through the current one, which names a stored version.
LinksInv ==
  \A d \in Domains :
    /\ matrix[d] \in {None, ViaCurrent} /\ backtest[d] \in {None, ViaCurrent}
    /\ current[d] # None => current[d] \in stored[d]

\* Both consumers of d read artifact a.
Whole(d, a) == matrix[d] = ViaCurrent /\ backtest[d] = ViaCurrent /\ current[d] = a

Activating == {"store", "current", "matrix", "backtest"}

\* A domain that is done is whole, and stays so while the others are activated;
\* the domain at work is not done, and its links move one after the other.
SyncInv ==
  /\ check.step = "repos" => check.found = HBlank
  /\ check.step \in {"sync"} \cup Activating =>
       \A d \in Domains : check.found[d] # None => d \notin check.todo /\ Whole(d, check.found[d])
  /\ check.step \in Activating => check.domain \in check.todo /\ check.picked \in Artifacts
  /\ check.step \in Activating \ {"store"} => check.picked \in stored[check.domain]
  /\ check.step \in {"matrix", "backtest"} => current[check.domain] = check.picked
  /\ check.step = "backtest" => matrix[check.domain] = ViaCurrent

\* So are the domains that the status calls ready, until the cycle has used it,
\* and those of a cycle without errors.
UseInv ==
  /\ check.step \in {"binance", "cycle"} =>
       \A d \in Domains : status[d] # None => Whole(d, status[d])
  /\ check.step = "report" /\ check.errors = {} =>
       \A d \in Domains : check.found[d] # None /\ Whole(d, check.found[d])

CheckInv == StrictTypes /\ LinksInv /\ SyncInv /\ UseInv

LEMMA Numbers ==
  /\ Artifacts \cup {None} = 0..MaxArtifact /\ None \notin Artifacts
  /\ ViaCurrent \notin Artifacts /\ ViaCurrent # None
  /\ ViaCurrent \in 0..ViaCurrent /\ None \in 0..ViaCurrent /\ None \in 0..MaxArtifact
  /\ Crypto \in Domains /\ 1 \in Artifacts
BY CheckAssumption DEF Artifacts, None, ViaCurrent

LEMMA RestingType == Resting \in CheckRecords /\ Resting.step = "idle" /\ Resting.found = HBlank
<1>1. HBlank \in [Domains -> 0..MaxArtifact]
  BY Numbers DEF HBlank
<1>2. QED
  BY <1>1, Numbers DEF Resting, CheckRecords, HSteps

LEMMA CheckInit == HInit => CheckInv
<1> SUFFICES ASSUME HInit PROVE CheckInv
  OBVIOUS
<1>1. StrictTypes
  BY RestingType, Numbers DEF HInit, StrictTypes, HTypeOK, HBlank, Resting, HSteps
<1>2. LinksInv
  BY DEF HInit, LinksInv, HBlank
<1>3. SyncInv /\ UseInv
  BY RestingType DEF HInit, SyncInv, UseInv, Activating
<1>4. QED
  BY <1>1, <1>2, <1>3 DEF CheckInv

\* A check that stops leaves no invariant to keep but that of the links.
LEMMA Stops ==
  ASSUME CheckInv, check' = Resting, UNCHANGED <<newest, unsound, stored, Links, status, stale>>,
         {snapshot', console'} \subseteq {"none", "ready", "unavailable"},
         alerted' \in BOOLEAN, repoLock' \in BOOLEAN
  PROVE  CheckInv'
<1> USE DEF Links
<1>1. StrictTypes'
  BY RestingType DEF CheckInv, StrictTypes, HTypeOK, CheckRecords
<1>2. LinksInv'
  BY DEF CheckInv, LinksInv
<1>3. SyncInv' /\ UseInv'
  BY RestingType DEF SyncInv, UseInv, Activating
<1>4. QED
  BY <1>1, <1>2, <1>3 DEF CheckInv

LEMMA ReposStep ==
  ASSUME CheckInv, Repos
  PROVE  CheckInv'
<1> USE DEF Upstream, Links, Shown, Counts, HFault
<1>0. StrictTypes /\ LinksInv /\ SyncInv /\ UseInv /\ check.step = "repos" /\ check.found = HBlank
  BY DEF CheckInv, Repos, Step, SyncInv
<1>1. CASE check' = [check EXCEPT !.step = "sync", !.todo = Domains]
  <2>1. check' \in CheckRecords /\ check'.step = "sync" /\ check'.found = HBlank
    BY <1>0, <1>1 DEF StrictTypes, CheckRecords, HSteps
  <2>2. StrictTypes'
    BY <1>0, <2>1 DEF Repos, StrictTypes, HTypeOK, CheckRecords
  <2>3. LinksInv'
    BY <1>0 DEF Repos, LinksInv
  <2>4. SyncInv' /\ UseInv'
    BY <2>1 DEF SyncInv, UseInv, HBlank, Activating
  <2>5. QED
    BY <2>2, <2>3, <2>4 DEF CheckInv
<1>2. CASE check' = Resting
  BY <1>0, <1>2, Stops DEF Repos, StrictTypes, HTypeOK
<1>3. QED
  BY <1>1, <1>2 DEF Repos

\* What goes on outside the checks, and the steps before the synchronisation.
LEMMA OutsideStep ==
  ASSUME CheckInv, Publish \/ Age \/ Start \/ Repos \/ HDie \/ UNCHANGED hvars
  PROVE  CheckInv'
<1> USE DEF Upstream, Links, Shown, Counts, HFault
<1>0. StrictTypes /\ LinksInv /\ SyncInv /\ UseInv
  BY DEF CheckInv
<1>1. CASE UNCHANGED <<stored, Links, status, check, Shown>> /\ newest' \in [Domains -> Artifacts]
           /\ unsound' \subseteq Domains /\ stale' \in BOOLEAN /\ repoLock' \in BOOLEAN
  <2>1. StrictTypes'
    BY <1>0, <1>1 DEF StrictTypes, HTypeOK
  <2>2. LinksInv' /\ SyncInv' /\ UseInv'
    BY <1>0, <1>1 DEF LinksInv, SyncInv, UseInv, Whole
  <2>3. QED
    BY <2>1, <2>2 DEF CheckInv
<1>2. CASE Publish
  <2>1. newest' \in [Domains -> Artifacts] /\ unsound' \subseteq Domains
    BY <1>0, <1>2, CheckAssumption DEF Publish, StrictTypes, HTypeOK, Artifacts
  <2>2. QED
    BY <1>0, <1>1, <1>2, <2>1 DEF Publish, StrictTypes, HTypeOK
<1>3. CASE Age
  BY <1>0, <1>1, <1>3 DEF Age, StrictTypes, HTypeOK
<1>4. CASE UNCHANGED hvars
  BY <1>0, <1>1, <1>4 DEF hvars, StrictTypes, HTypeOK
<1>5. CASE Start
  <2>1. check' = [Resting EXCEPT !.step = "repos"]
    BY <1>5 DEF Start
  <2>2. check' \in CheckRecords /\ check'.step = "repos" /\ check'.found = HBlank
    BY <2>1, RestingType DEF CheckRecords, HSteps
  <2>3. StrictTypes'
    BY <1>0, <1>5, <2>2 DEF Start, StrictTypes, HTypeOK, CheckRecords
  <2>4. LinksInv'
    BY <1>0, <1>5 DEF Start, LinksInv
  <2>5. SyncInv' /\ UseInv'
    BY <2>2 DEF SyncInv, UseInv, Activating
  <2>6. QED
    BY <2>3, <2>4, <2>5 DEF CheckInv
<1>6. CASE HDie
  BY <1>0, <1>6, Stops DEF HDie, StrictTypes, HTypeOK
<1>7. QED
  BY <1>2, <1>3, <1>4, <1>5, <1>6, ReposStep

\* A domain is done: in error, or whole.
LEMMA Concludes ==
  ASSUME CheckInv, check.step \in {"sync"} \cup Activating,
         NEW d \in check.todo, NEW a \in 0..MaxArtifact,
         check' \in CheckRecords, check'.step = "sync", check'.todo = check.todo \ {d},
         check'.found = [check.found EXCEPT ![d] = a],
         UNCHANGED <<newest, unsound, stored, current, matrix, status, stale, Shown, repoLock>>,
         backtest' \in [Domains -> 0..ViaCurrent], backtest'[d] \in {None, ViaCurrent},
         \A e \in Domains \ {d} : backtest'[e] = backtest[e],
         a # None => Whole(d, a)'
  PROVE  CheckInv'
<1> USE DEF Shown
<1>0. StrictTypes /\ LinksInv /\ SyncInv /\ d \in Domains
  BY DEF CheckInv, StrictTypes, HTypeOK
<1>1. StrictTypes'
  BY <1>0 DEF StrictTypes, HTypeOK, CheckRecords
<1>2. LinksInv'
  BY <1>0 DEF LinksInv
<1>3. ASSUME NEW e \in Domains, check'.found[e] # None
      PROVE  e \notin check'.todo /\ Whole(e, check.found[e])'
  <2>1. CASE e = d
    BY <1>0, <1>3, <2>1 DEF StrictTypes, CheckRecords, Whole
  <2>2. CASE e # d
    <3>1. check'.found[e] = check.found[e]
      BY <1>0, <2>2 DEF StrictTypes, CheckRecords
    <3>2. e \notin check.todo /\ Whole(e, check.found[e])
      BY <1>0, <1>3, <3>1 DEF SyncInv
    <3>3. QED
      BY <2>2, <3>1, <3>2 DEF Whole
  <2>3. QED
    BY <2>1, <2>2
<1>4. SyncInv' /\ UseInv'
  BY <1>3 DEF SyncInv, UseInv, Activating
<1>5. QED
  BY <1>1, <1>2, <1>4 DEF CheckInv

\* The domains that end in error, and those that are selected.
LEMMA SelectStep ==
  ASSUME CheckInv, NEW d \in Domains, SkipDomain(d) \/ ApiFails(d) \/ Select(d)
  PROVE  CheckInv'
<1> USE DEF Upstream, Links, Shown, Counts, HFault, Step
<1>0. /\ StrictTypes /\ LinksInv /\ SyncInv /\ UseInv
      /\ check.step = "sync" /\ d \in check.todo /\ check \in CheckRecords
      /\ backtest \in [Domains -> 0..ViaCurrent] /\ backtest[d] \in {None, ViaCurrent}
      /\ UNCHANGED <<newest, unsound, stored, current, matrix, backtest, status, stale, Shown, repoLock>>
  BY DEF CheckInv, SkipDomain, ApiFails, Select, StrictTypes, HTypeOK, LinksInv
<1>1. CASE /\ check' \in CheckRecords /\ check'.step = "sync" /\ check'.todo = check.todo \ {d}
           /\ check'.found = [check.found EXCEPT ![d] = None]
  BY <1>0, <1>1, Concludes, Numbers
<1>2. CASE Conclude(d, None)
  BY <1>0, <1>1, <1>2, Numbers DEF Conclude, CheckRecords, HSteps
<1>3. CASE ApiFails(d)
  <2>1. PICK l \in BOOLEAN :
          check' = [check EXCEPT !.todo = @ \ {d}, !.limited = l, !.found[d] = None]
    BY <1>3 DEF ApiFails
  <2>2. check'.todo = check.todo \ {d} /\ check'.found = [check.found EXCEPT ![d] = None]
    BY <1>0, <2>1 DEF CheckRecords
  <2>3. check'.step = "sync" /\ check' \in CheckRecords
    BY <1>0, <2>1, Numbers DEF CheckRecords
  <2>4. QED
    BY <1>1, <2>2, <2>3
<1>4. CASE /\ Select(d) /\ Usable(d)
  <2> DEFINE next == IF newest[d] \in stored[d] THEN "current" ELSE "store"
  <2>1. check' = [check EXCEPT !.domain = d, !.picked = newest[d], !.step = next]
    BY <1>4 DEF Select
  <2>2. newest[d] \in Artifacts /\ newest[d] \in 0..MaxArtifact
    BY <1>0, Numbers DEF StrictTypes, HTypeOK
  <2>3. /\ check' \in CheckRecords /\ check'.step = next /\ check'.domain = d
        /\ check'.picked = newest[d] /\ check'.todo = check.todo /\ check'.found = check.found
    BY <1>0, <2>1, <2>2 DEF CheckRecords, HSteps
  <2>4. StrictTypes'
    BY <1>0, <2>3 DEF StrictTypes, HTypeOK, CheckRecords
  <2>5. LinksInv'
    BY <1>0 DEF LinksInv
  <2>6. SyncInv'
    BY <1>0, <2>2, <2>3 DEF SyncInv, Activating, Whole
  <2>7. UseInv'
    BY <2>3 DEF UseInv
  <2>8. QED
    BY <2>4, <2>5, <2>6, <2>7 DEF CheckInv
<1>5. QED
  BY <1>2, <1>3, <1>4 DEF SkipDomain, Select

\* Storing and activating the version that was picked.
LEMMA ActivateStep ==
  ASSUME CheckInv, HStore \/ Activate \/ ActivateFails
  PROVE  CheckInv'
<1> USE DEF Upstream, Links, Shown, Counts, HFault, Step
<1>1. PICK d, a : d = check.domain /\ a = check.picked
  OBVIOUS
<1>2. /\ StrictTypes /\ LinksInv /\ SyncInv /\ UseInv
      /\ check.step \in Activating /\ check \in CheckRecords
      /\ d \in Domains /\ d \in check.todo /\ check.found[d] = None
      /\ a \in Artifacts /\ a \in 0..MaxArtifact /\ a # None
      /\ backtest \in [Domains -> 0..ViaCurrent] /\ backtest[d] \in {None, ViaCurrent}
  <2>1. check.step \in Activating
    BY DEF HStore, Activate, ActivateFails, Activating
  <2>2. QED
    BY <1>1, <2>1, Numbers DEF CheckInv, StrictTypes, HTypeOK, CheckRecords, LinksInv, SyncInv
<1>3. CASE ActivateFails
  BY <1>1, <1>2, <1>3, Concludes, Numbers, Zenon DEF ActivateFails, Conclude, CheckRecords, HSteps
<1>4. CASE HStore
  <2>1. stored' \in [Domains -> SUBSET Artifacts] /\ stored'[d] = stored[d] \cup {a}
        /\ \A e \in Domains : stored[e] \subseteq stored'[e]
    BY <1>1, <1>2, <1>4 DEF HStore, StrictTypes
  <2>2. /\ check' \in CheckRecords /\ check'.step = "current" /\ check'.todo = check.todo
        /\ check'.found = check.found /\ check'.domain = d /\ check'.picked = a
    BY <1>1, <1>2, <1>4 DEF HStore, HGoto, CheckRecords, HSteps
  <2>3. StrictTypes'
    BY <1>1, <1>2, <1>4, <2>1, <2>2 DEF HStore, StrictTypes, HTypeOK, CheckRecords
  <2>4. LinksInv'
    BY <1>1, <1>2, <1>4, <2>1 DEF HStore, LinksInv
  <2>5. SyncInv' /\ UseInv'
    BY <1>1, <1>2, <1>4, <2>1, <2>2 DEF HStore, SyncInv, UseInv, Activating, Whole
  <2>6. QED
    BY <2>3, <2>4, <2>5 DEF CheckInv
<1>5. CASE Activate /\ check.step = "current"
  <2>1. current' = [current EXCEPT ![d] = a] /\ UNCHANGED <<matrix, backtest>>
    BY <1>1, <1>5 DEF Activate, Swap
  <2>2. /\ check' \in CheckRecords /\ check'.step = "matrix" /\ check'.todo = check.todo
        /\ check'.found = check.found /\ check'.domain = d /\ check'.picked = a
    BY <1>1, <1>2, <1>5 DEF Activate, HGoto, CheckRecords, HSteps
  <2>3. StrictTypes'
    BY <1>1, <1>2, <1>5, <2>1, <2>2 DEF Activate, StrictTypes, HTypeOK, CheckRecords
  <2>4. a \in stored[d]
    BY <1>1, <1>2, <1>5 DEF SyncInv, Activating
  <2>5. LinksInv'
    BY <1>1, <1>2, <1>5, <2>1, <2>4 DEF Activate, LinksInv, StrictTypes, HTypeOK
  <2>6. ASSUME NEW e \in Domains, check'.found[e] # None
        PROVE  e \notin check'.todo /\ Whole(e, check.found[e])'
    BY <1>1, <1>2, <2>1, <2>2, <2>6 DEF SyncInv, Whole, StrictTypes, HTypeOK
  <2>7. current'[d] = a
    BY <1>1, <1>2, <2>1 DEF StrictTypes, HTypeOK
  <2>8. SyncInv'
    BY <1>1, <1>2, <1>5, <2>2, <2>4, <2>6, <2>7 DEF Activate, SyncInv, Activating
  <2>9. UseInv'
    BY <2>2 DEF UseInv
  <2>10. QED
    BY <2>3, <2>5, <2>8, <2>9 DEF CheckInv
<1>6. CASE Activate /\ check.step = "matrix"
  <2>1. matrix' = [matrix EXCEPT ![d] = ViaCurrent] /\ UNCHANGED <<current, backtest>>
    BY <1>1, <1>6 DEF Activate, Swap, ConsumerTarget
  <2>2. /\ check' \in CheckRecords /\ check'.step = "backtest" /\ check'.todo = check.todo
        /\ check'.found = check.found /\ check'.domain = d /\ check'.picked = a
    BY <1>1, <1>2, <1>6 DEF Activate, HGoto, CheckRecords, HSteps
  <2>3. StrictTypes'
    BY <1>1, <1>2, <1>6, <2>1, <2>2, Numbers DEF Activate, StrictTypes, HTypeOK, CheckRecords
  <2>5. LinksInv'
    BY <1>1, <1>2, <1>6, <2>1 DEF Activate, LinksInv, StrictTypes, HTypeOK
  <2>6. ASSUME NEW e \in Domains, check'.found[e] # None
        PROVE  e \notin check'.todo /\ Whole(e, check.found[e])'
    BY <1>1, <1>2, <2>1, <2>2, <2>6 DEF SyncInv, Whole, StrictTypes, HTypeOK
  <2>7. matrix'[d] = ViaCurrent
    BY <1>1, <1>2, <2>1 DEF StrictTypes, HTypeOK
  <2>8. SyncInv'
    BY <1>1, <1>2, <1>6, <2>1, <2>2, <2>6, <2>7 DEF Activate, SyncInv, Activating
  <2>9. UseInv'
    BY <2>2 DEF UseInv
  <2>10. QED
    BY <2>3, <2>5, <2>8, <2>9 DEF CheckInv
<1>7. CASE Activate /\ check.step = "backtest"
  <2>1. backtest' = [backtest EXCEPT ![d] = ViaCurrent] /\ UNCHANGED <<current, matrix>>
    BY <1>1, <1>7 DEF Activate, Swap, ConsumerTarget
  <2>2. /\ check' \in CheckRecords /\ check'.step = "sync" /\ check'.todo = check.todo \ {d}
        /\ check'.found = [check.found EXCEPT ![d] = a]
    <3>1. check' = [check EXCEPT !.step = "sync", !.todo = @ \ {d}, !.found[d] = a]
      BY <1>1, <1>7 DEF Activate, Conclude
    <3>2. QED
      BY <1>2, <3>1 DEF CheckRecords, HSteps
  <2>3. /\ backtest' \in [Domains -> 0..ViaCurrent] /\ backtest'[d] = ViaCurrent
        /\ \A e \in Domains \ {d} : backtest'[e] = backtest[e]
    BY <1>1, <1>2, <2>1, Numbers
  <2>4. Whole(d, a)'
    BY <1>1, <1>2, <1>7, <2>1, <2>3 DEF SyncInv, Whole
  <2>5. QED
    BY <1>1, <1>2, <1>7, <2>1, <2>2, <2>3, <2>4, Concludes DEF Activate
<1>8. QED
  BY <1>3, <1>4, <1>5, <1>6, <1>7 DEF Activate

\* The status, the cycle that uses it, and the report of the cycle.
LEMMA UseStep ==
  ASSUME CheckInv, WriteStatus \/ Binance \/ Cycle \/ Report \/ PublishSnapshot
  PROVE  CheckInv'
<1> USE DEF Upstream, Links, Shown, Counts, Step
<1>0. StrictTypes /\ LinksInv /\ SyncInv /\ UseInv /\ check \in CheckRecords
  BY DEF CheckInv, StrictTypes
<1>1. CASE WriteStatus
  <2>1. /\ check' \in CheckRecords /\ check'.step = "binance"
        /\ status' \in [Domains -> 0..MaxArtifact]
    BY <1>0, <1>1 DEF WriteStatus, HGoto, CheckRecords, HSteps
  <2>2. StrictTypes'
    BY <1>0, <1>1, <2>1, Numbers DEF WriteStatus, StrictTypes, HTypeOK, CheckRecords
  <2>3. LinksInv'
    BY <1>0, <1>1 DEF WriteStatus, LinksInv
  <2>4. \A d \in Domains : status'[d] # None => Whole(d, status[d])'
    BY <1>0, <1>1 DEF WriteStatus, SyncInv, Whole
  <2>5. SyncInv' /\ UseInv'
    BY <2>1, <2>4 DEF SyncInv, UseInv, Activating
  <2>6. QED
    BY <2>2, <2>3, <2>5 DEF CheckInv
<1>2. CASE Binance
  <2>1. check' \in CheckRecords /\ check'.step = "cycle"
    BY <1>0, <1>2 DEF Binance, HGoto, CheckRecords, HSteps
  <2>2. /\ status' \in [Domains -> 0..MaxArtifact]
        /\ \A d \in Domains : status'[d] = status[d] \/ status'[d] = None
    BY <1>0, <1>2, Numbers DEF Binance, StrictTypes, HTypeOK
  <2>3. StrictTypes'
    BY <1>0, <1>2, <2>1, <2>2, Numbers DEF Binance, StrictTypes, HTypeOK, CheckRecords
  <2>4. LinksInv'
    BY <1>0, <1>2 DEF Binance, LinksInv
  <2>5. \A d \in Domains : status'[d] # None => Whole(d, status[d])'
    BY <1>0, <1>2, <2>2 DEF Binance, UseInv, Whole
  <2>6. SyncInv' /\ UseInv'
    BY <2>1, <2>5 DEF SyncInv, UseInv, Activating
  <2>7. QED
    BY <2>3, <2>4, <2>6 DEF CheckInv
<1>3. CASE Cycle
  <2>1. PICK failed \in Uncovered, collector \in BOOLEAN, issues \in BOOLEAN :
          LET errors == failed \cup {d \in Domains : ~Ready(d)} IN
          /\ check' = [check EXCEPT !.step = "report", !.errors = errors, !.trouble = collector \/ issues,
                                    !.found = [d \in Domains |-> IF d \in errors THEN None ELSE status[d]]]
          /\ snapshot' = IF errors # {} \/ collector THEN "unavailable" ELSE "ready"
    BY <1>3 DEF Cycle
  <2> DEFINE errors == failed \cup {d \in Domains : ~Ready(d)}
             found == [d \in Domains |-> IF d \in errors THEN None ELSE status[d]]
  <2>2. errors \subseteq Domains /\ found \in [Domains -> 0..MaxArtifact]
    BY <1>0, Numbers DEF Uncovered, StrictTypes, HTypeOK
  <2>3. \A d \in Domains : errors = {} => Ready(d) /\ found[d] = status[d]
    OBVIOUS
  <2>4. check' = [check EXCEPT !.step = "report", !.errors = errors, !.trouble = collector \/ issues,
                               !.found = found]
    BY <2>1
  <2> HIDE DEF errors, found
  <2>5. check' \in CheckRecords /\ check'.step = "report" /\ check'.errors = errors /\ check'.found = found
    BY <1>0, <2>2, <2>4 DEF CheckRecords, HSteps
  <2>6. StrictTypes'
    BY <1>0, <1>3, <2>1, <2>5 DEF Cycle, StrictTypes, HTypeOK, CheckRecords
  <2>7. LinksInv'
    BY <1>0, <1>3 DEF Cycle, LinksInv
  <2>8. \A d \in Domains : Ready(d) => status[d] # None /\ Whole(d, status[d])
    BY <1>0, <1>3 DEF Cycle, Ready, UseInv
  <2>9. UNCHANGED <<current, matrix, backtest>>
    BY <1>3 DEF Cycle
  <2>10. SyncInv' /\ UseInv'
    BY <2>3, <2>5, <2>8, <2>9 DEF SyncInv, UseInv, Activating, Whole
  <2>11. QED
    BY <2>6, <2>7, <2>10 DEF CheckInv
<1>4. CASE Report
  <2>1. check' \in CheckRecords /\ check'.step = "publish"
    BY <1>0, <1>4 DEF Report, HGoto, CheckRecords, HSteps
  <2>2. alerted' \in BOOLEAN
    BY <1>4, Zenon DEF Report, Wrong
  <2>3. StrictTypes'
    BY <1>0, <1>4, <2>1, <2>2 DEF Report, StrictTypes, HTypeOK, CheckRecords
  <2>4. LinksInv'
    BY <1>0, <1>4 DEF Report, LinksInv
  <2>5. SyncInv' /\ UseInv'
    BY <2>1 DEF SyncInv, UseInv, Activating
  <2>6. QED
    BY <2>3, <2>4, <2>5 DEF CheckInv
<1>5. CASE PublishSnapshot
  BY <1>0, <1>5, Stops DEF PublishSnapshot, StrictTypes, HTypeOK
<1>6. QED
  BY <1>1, <1>2, <1>3, <1>4, <1>5

LEMMA CheckStep == CheckInv /\ [HNext]_hvars => CheckInv'
BY OutsideStep, SelectStep, ActivateStep, UseStep DEF HNext

LEMMA CheckInvariance == HSpec => []CheckInv
BY CheckInit, CheckStep, PTL DEF HSpec

\* Every reachable state of the health check is well typed.
THEOREM CheckTypes == HSpec => []HTypeOK
<1>1. CheckInv => HTypeOK
  BY DEF CheckInv, StrictTypes
<1>2. QED
  BY <1>1, CheckInvariance, PTL

\* The consumers of a domain read one artifact, stored whole, and a cycle
\* stamps the one they read, wherever an activation or a check broke off
\* (activate_version in sync_lifecycle_artifacts.py).
THEOREM ConsumersAlwaysAgree == HSpec => []ConsumersAgree
<1>1. CheckInv => ConsumersAgree
  <2>1. SUFFICES ASSUME CheckInv, NEW d \in Domains
                 PROVE  /\ matrix[d] # None /\ backtest[d] # None => Serves(d, matrix) = Serves(d, backtest)
                        /\ current[d] # None => current[d] \in stored[d]
                        /\ Step("cycle") /\ Ready(d) => {Serves(d, matrix), Serves(d, backtest)} = {status[d]}
    BY DEF ConsumersAgree
  <2>2. /\ matrix[d] # None /\ backtest[d] # None => Serves(d, matrix) = Serves(d, backtest)
        /\ current[d] # None => current[d] \in stored[d]
    BY <2>1 DEF CheckInv, LinksInv, Serves
  <2>3. ASSUME Step("cycle"), Ready(d)
        PROVE  {Serves(d, matrix), Serves(d, backtest)} = {status[d]}
    <3>1. Whole(d, status[d])
      BY <2>1, <2>3 DEF CheckInv, UseInv, Step, Ready
    <3>2. Serves(d, matrix) = status[d] /\ Serves(d, backtest) = status[d]
      BY <3>1 DEF Whole, Serves
    <3>3. QED
      BY <3>2
  <2>4. QED
    BY <2>2, <2>3
<1>2. QED
  BY <1>1, CheckInvariance, PTL

\* An open incident is closed only by a check that found every domain whole
\* itself (main of health_cycle.py, after sync_lifecycle_artifacts.py).
THEOREM ClosesWhole == HSpec => ClosesOnlyWhole
<1>1. ASSUME CheckInv, [HNext]_hvars
      PROVE  [alerted /\ ~alerted' =>
                \A d \in Domains : check.found[d] # None /\ Serves(d, backtest) = check.found[d]]_hvars
  <2>1. ASSUME alerted, ~alerted', NEW d \in Domains
        PROVE  check.found[d] # None /\ Serves(d, backtest) = check.found[d]
    <3>1. Report
      BY <1>1, <2>1
         DEF HNext, Publish, Age, Start, Repos, SkipDomain, ApiFails, Select, HStore, Activate, ActivateFails,
             WriteStatus, Binance, Cycle, PublishSnapshot, HDie, Shown, hvars
    <3>2. check.step = "report" /\ check.errors = {}
      BY <2>1, <3>1 DEF Report, Wrong, Step
    <3>3. check.found[d] # None /\ Whole(d, check.found[d])
      BY <1>1, <3>2 DEF CheckInv, UseInv
    <3>4. QED
      BY <3>3 DEF Whole, Serves
  <2>2. QED
    BY <2>1
<1>2. QED
  BY <1>1, CheckInvariance, PTL DEF HSpec, ClosesOnlyWhole
=============================================================================
