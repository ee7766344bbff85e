-------------------------- MODULE DailyBriefingProofs --------------------------
(* Theorems about one day of the daily briefing, for any domains, objects of  *)
(* the day and number of runs.                                                *)
EXTENDS DailyBriefing, TLAPS

Run == [step : DailySteps, todo : SUBSET BriefingDomains, findings : SUBSET Kinds,
        failed : BOOLEAN, unrecorded : BOOLEAN, builder : {"ok", "failed"},
        domain : {"ok", "failed"}, exit : {"none", "ok", "failed"}]
States == {"none", "sent", "unknown"}

Typed ==
  /\ config \in Configs /\ handoff \in 0..MaxObject
  /\ reports \in [BriefingDomains -> Contents]
  /\ daily \in Run /\ once \in {"idle", "first", "second"} /\ ledger \in [BEvents -> States]
  /\ digests \in Nat /\ recorded \subseteq Kinds /\ claimed \in BOOLEAN /\ runs \in Nat

LEMMA TypedIsTypeOK == Typed => BTypeOK
BY DEF Typed, Run, BTypeOK, States

LEMMA AsleepType == Asleep \in Run
BY DEF Asleep, Run, DailySteps, Kinds

LEMMA FindingsType ==
  ASSUME Typed
  PROVE  Found \subseteq Kinds
<1>1. \A content \in Contents : Findings(content) \subseteq Kinds
  BY DEF Findings, Kinds, Contents
<1>2. QED
  BY <1>1 DEF Typed, Found

\* A delivery leaves a status, and counts what it really sent.
LEMMA DeliveryType ==
  ASSUME NEW s \in States, NEW r \in Deliveries(s)
  PROVE  /\ r[1] \in States /\ r[2] \in {0, 1}
         /\ s = "none" => \/ r[1] = "sent" /\ r[2] = 1
                          \/ r[1] = "none" /\ r[2] = 0 /\ ~Delivered(r[3])
                          \/ r[1] = "unknown" /\ ~Delivered(r[3])
         /\ s # "none" => r[1] = s /\ r[2] = 0
         /\ Delivered(r[3]) => r[1] = "sent"
         /\ r[3] = "suppressed" => s = "sent"
<1>1. CASE s = "none"
  BY <1>1 DEF Deliveries, Delivered, States
<1>2. CASE s = "sent"
  BY <1>2 DEF Deliveries, Delivered, States
<1>3. CASE s = "unknown"
  BY <1>3 DEF Deliveries, Delivered, States
<1>4. QED
  BY <1>1, <1>2, <1>3 DEF States

LEMMA EventsType ==
  ASSUME Typed
  PROVE  /\ AttentionEvent \in BEvents /\ ledger[AttentionEvent] \in States
         /\ \A o : AttentionEvent # DigestEvent(o)
         /\ \A o : DigestEvent(o) \in BEvents /\ ledger[DigestEvent(o)] \in States
<1>1. daily.findings \in SUBSET Kinds
  BY DEF Typed, Run
<1>2. AttentionEvent \in BEvents
  BY <1>1 DEF AttentionEvent, BEvents
<1>3. \A o : AttentionEvent # DigestEvent(o)
  BY DEF AttentionEvent, DigestEvent
<1>4. \A o : DigestEvent(o) \in BEvents
  BY DEF DigestEvent, BEvents
<1>5. QED
  BY <1>2, <1>3, <1>4 DEF Typed

LEMMA TypedInit == BInit => Typed
<1> SUFFICES ASSUME BInit PROVE Typed
  OBVIOUS
<1>1. ledger \in [BEvents -> States]
  BY DEF BInit, States
<1>2. reports \in [BriefingDomains -> Contents]
  BY DEF BInit, Contents
<1>3. handoff \in 0..MaxObject
  BY BriefingAssumption DEF BInit
<1>4. QED
  BY <1>1, <1>2, <1>3, AsleepType DEF BInit, Typed

LEMMA TypedStep ==
  ASSUME Typed, [BNext]_bvars
  PROVE  Typed'
<1> USE DEF World, Rest, BAt, BGoto
<1>0. daily \in Run /\ Asleep \in Run
  BY AsleepType DEF Typed
<1>1. ASSUME UNCHANGED <<World, Rest>>, reports' \in [BriefingDomains -> Contents],
             recorded' \subseteq Kinds, daily' \in Run
      PROVE  Typed'
  BY <1>1 DEF Typed
<1>2. \A s \in DailySteps : [daily EXCEPT !.step = s] \in Run
  BY <1>0 DEF Run
<1>3. ASSUME NEW s, Exit(s)
      PROVE  daily' \in Run
  <2>1. PICK x \in {"ok", "failed"} : daily' = [Asleep EXCEPT !.step = "exit", !.exit = x]
    BY <1>3 DEF Exit
  <2>2. "exit" \in DailySteps
    BY DEF DailySteps
  <2>3. QED
    BY <1>0, <2>1, <2>2 DEF Run
<1>4. CASE Produce
  BY <1>4 DEF Produce, Typed, Objects
<1>5. CASE BStart
  <2>1. daily' \in Run
    BY <1>0, <1>5 DEF BStart, Run, DailySteps
  <2>2. runs' \in Nat
    BY <1>5 DEF BStart, Typed
  <2>3. QED
    BY <1>5, <2>1, <2>2 DEF BStart, Typed
<1>6. ASSUME NEW d \in BriefingDomains, Build(d)
      PROVE  Typed'
  <2>1. daily' \in Run
    BY <1>0, <1>6 DEF Build, Run
  <2>2. reports' \in [BriefingDomains -> Contents]
    BY <1>6 DEF Build, Typed
  <2>3. QED
    BY <1>1, <1>6, <2>1, <2>2 DEF Build, Typed
<1>7. CASE BuilderFails
  <2>1. daily' \in Run
    <3>1. PICK s \in DailySteps, x \in {"none", "failed"} :
            daily' = [daily EXCEPT !.builder = "failed", !.domain = "failed", !.step = s, !.exit = x]
      BY <1>7 DEF BuilderFails, DailySteps
    <3>2. QED
      BY <1>0, <3>1 DEF Run
  <2>2. reports' \in [BriefingDomains -> Contents]
    BY <1>0, <1>7 DEF BuilderFails, Typed, Run, Contents
  <2>3. QED
    BY <1>1, <1>7, <2>1, <2>2 DEF BuilderFails, Typed
<1>8. CASE Built
  BY <1>1, <1>2, <1>8 DEF Built, Typed, DailySteps
<1>9. CASE Consume
  <2>1. daily' \in Run
    BY <1>0, <1>9, FindingsType, Zenon DEF Consume, Run, DailySteps
  <2>2. QED
    BY <1>1, <1>9, <2>1 DEF Consume, Typed
<1>10. ASSUME NEW k \in Kinds, NEW s \in DailySteps, BRecords(k, s)
      PROVE  Typed'
  <2>1. [daily EXCEPT !.step = s, !.failed = TRUE, !.unrecorded = TRUE] \in Run
    BY <1>0 DEF Run
  <2>2. daily' \in Run
    BY <1>2, <1>10, <2>1 DEF BRecords
  <2>3. recorded' \subseteq Kinds
    BY <1>10 DEF BRecords, Typed
  <2>4. QED
    BY <1>1, <1>10, <2>2, <2>3 DEF BRecords, Typed
<1>11. CASE Watch \/ Issue
  BY <1>10, <1>11 DEF Watch, Issue, Kinds, DailySteps
<1>12. CASE Telegram
  <2>1. daily' \in Run
    <3>1. Attention \in BOOLEAN
      BY DEF Attention
    <3>2. \A r : Delivered(r[3]) \in BOOLEAN
      BY DEF Delivered
    <3>3. \A b \in BOOLEAN : [daily EXCEPT !.step = "routed", !.failed = b] \in Run
      BY <1>0 DEF Run, DailySteps
    <3>4. \A r : (daily.failed \/ ~Delivered(r[3])) \in BOOLEAN
      BY <3>2
    <3>5. CASE daily' = [daily EXCEPT !.step = "routed"]
      BY <1>2, <3>5 DEF DailySteps
    <3>6. CASE daily' = [daily EXCEPT !.step = "routed", !.failed = TRUE]
      BY <3>3, <3>6
    <3>7. ASSUME NEW r, daily' = [daily EXCEPT !.step = "routed", !.failed = daily.failed \/ ~Delivered(r[3])]
          PROVE  daily' \in Run
      BY <3>3, <3>4, <3>7
    <3>8. QED
      BY <1>12, <3>5, <3>6, <3>7 DEF Telegram
  <2>2. ledger' \in [BEvents -> States]
    <3>1. \A r \in Deliveries(ledger[AttentionEvent]) : r[1] \in States
      BY EventsType, DeliveryType
    <3>2. ledger \in [BEvents -> States]
      BY DEF Typed
    <3>3. QED
      BY <1>12, <3>1, <3>2 DEF Telegram
  <2>3. QED
    BY <1>12, <2>1, <2>2 DEF Telegram, Typed
<1>13. CASE Route
  <2>1. DomainStatus \in {"ok", "failed"}
    BY DEF DomainStatus
  <2>2. daily' \in Run
    BY <1>13, <2>1 DEF Route, Asleep, Run, DailySteps, Kinds
  <2>3. QED
    BY <1>1, <1>13, <2>2 DEF Route, Typed
<1>14. CASE ConsumerDies
  <2>1. daily' \in Run
    BY <1>14 DEF ConsumerDies, Asleep, Run, DailySteps, Kinds
  <2>2. QED
    BY <1>1, <1>14, <2>1 DEF ConsumerDies, Typed
<1>15. CASE SkipDigest \/ Refuse
  BY <1>1, <1>3, <1>15 DEF SkipDigest, Refuse, Typed
<1>16. ASSUME NEW s, NEW n \in DailySteps, Advance(s, n)
       PROVE  Typed'
  BY <1>1, <1>3, <1>2, <1>16 DEF Advance, Typed
<1>17. CASE Resolve \/ Fetch \/ BCheck
  BY <1>16, <1>17 DEF Resolve, Fetch, BCheck, DailySteps
<1>18. ASSUME NEW o, NEW r, SendDigest(o, r)
       PROVE  ledger' \in [BEvents -> States] /\ digests' \in Nat
  <2>1. r[1] \in States /\ r[2] \in {0, 1}
    BY <1>18, EventsType, DeliveryType DEF SendDigest
  <2>2. ledger' \in [BEvents -> States]
    BY <1>18, <2>1 DEF SendDigest, Typed
  <2>3. digests' \in Nat
    BY <1>18, <2>1 DEF SendDigest, Typed
  <2>4. QED
    BY <2>2, <2>3
<1>19. CASE BSend
  <2>1. PICK r \in Deliveries(ledger[DigestEvent(Object)]) :
          /\ SendDigest(Object, r)
          /\ Exit(IF Delivered(r[3]) THEN "ok" ELSE "failed")
          /\ claimed' = (claimed \/ Delivered(r[3]))
    BY <1>19 DEF BSend
  <2>2. daily' \in Run
    BY <1>3, <2>1
  <2>3. claimed' \in BOOLEAN
    BY <2>1, Zenon
  <2>4. QED
    BY <1>18, <1>19, <2>1, <2>2, <2>3 DEF BSend, Typed
<1>20. CASE BLeave
  <2>1. daily' \in Run
    BY <1>0, <1>20 DEF BLeave, Run
  <2>2. QED
    BY <1>1, <1>20, <2>1 DEF BLeave, Typed
<1>21. CASE StartOnce
  BY <1>21 DEF StartOnce, Typed
<1>22. ASSUME NEW o \in Objects, Child(o)
       PROVE  Typed'
  <2>1. once' \in {"idle", "second"}
    BY <1>22 DEF Child
  <2>2. ledger' \in [BEvents -> States] /\ digests' \in Nat
    BY <1>18, <1>22 DEF Child, Typed
  <2>3. claimed' \in BOOLEAN
    <3>1. claimed' = claimed \/ \E r : claimed' = (claimed \/ (once = "second" /\ r[3] = "suppressed"))
      BY <1>22 DEF Child
    <3>2. QED
      BY <3>1, Zenon DEF Typed
  <2>4. QED
    BY <1>22, <2>1, <2>2, <2>3 DEF Child, Typed
<1>23. CASE UNCHANGED bvars
  BY <1>23 DEF bvars, Typed
<1>24. QED
  BY <1>4, <1>5, <1>6, <1>7, <1>8, <1>9, <1>11, <1>12, <1>13, <1>15, <1>17, <1>19, <1>20, <1>21, <1>22, <1>23, <1>14
     DEF BNext

LEMMA TypedInvariance == BSpec => []Typed
BY TypedInit, TypedStep, PTL DEF BSpec

\* Every reachable state of the daily briefing is well typed.
THEOREM BriefingTypes == BSpec => []BTypeOK
BY TypedIsTypeOK, TypedInvariance, PTL

-----------------------------------------------------------------------------
(* The digest. *)

\* One entry of the ledger counts the messages, whichever run makes them.
DigestInv ==
  LET status == ledger[DigestEvent(0)]
  IN /\ status = "none" => digests = 0
     /\ status = "sent" => digests = 1
     /\ digests <= 1
     /\ claimed => status = "sent"

LEMMA DigestStep ==
  ASSUME Typed, DigestInv, [BNext]_bvars
  PROVE  DigestInv'
<1> USE DEF World, Rest
<1>0. \A o : DigestEvent(o) = DigestEvent(0)
  BY DEF DigestEvent
<1>1. DigestEvent(0)' = DigestEvent(0)
  BY DEF DigestEvent
<1>2. CASE UNCHANGED <<ledger, digests, claimed>>
  BY <1>2, <1>1 DEF DigestInv
<1>3. CASE Telegram
  <2>1. ledger'[DigestEvent(0)] = ledger[DigestEvent(0)]
    BY <1>3, EventsType DEF Telegram, Typed
  <2>2. UNCHANGED <<digests, claimed>>
    BY <1>3 DEF Telegram
  <2>3. QED
    BY <1>1, <2>1, <2>2 DEF DigestInv
<1>4. ASSUME NEW o, NEW r, SendDigest(o, r),
             claimed' = claimed \/ claimed' = (claimed \/ Delivered(r[3]))
               \/ claimed' = (claimed \/ (once = "second" /\ r[3] = "suppressed"))
      PROVE  DigestInv'
  <2>1. PICK s : s = ledger[DigestEvent(0)]
    OBVIOUS
  <2>2. s \in States /\ r \in Deliveries(s)
    BY <1>0, <1>4, <2>1, EventsType DEF SendDigest
  <2>3. ledger'[DigestEvent(0)] = r[1] /\ digests' = digests + r[2]
    <3>1. DigestEvent(0) \in BEvents /\ ledger \in [BEvents -> States]
      BY EventsType DEF Typed
    <3>2. QED
      BY <1>0, <1>4, <3>1 DEF SendDigest
  <2>4. /\ r[1] \in States /\ r[2] \in {0, 1}
        /\ s = "none" => \/ r[1] = "sent" /\ r[2] = 1
                         \/ r[1] = "none" /\ r[2] = 0 /\ ~Delivered(r[3])
                         \/ r[1] = "unknown" /\ ~Delivered(r[3])
        /\ s # "none" => r[1] = s /\ r[2] = 0
        /\ Delivered(r[3]) => r[1] = "sent"
        /\ r[3] = "suppressed" => s = "sent"
    BY <2>2, DeliveryType
  <2>5. claimed' => claimed \/ Delivered(r[3]) \/ r[3] = "suppressed"
    BY <1>4, Zenon
  <2>6. claimed' => r[1] = "sent"
    BY <2>1, <2>4, <2>5 DEF DigestInv
  <2>7. (r[1] = "none" => digests' = 0) /\ (r[1] = "sent" => digests' = 1) /\ digests' <= 1
    BY <2>1, <2>2, <2>3, <2>4 DEF DigestInv, Typed, States
  <2>8. QED
    BY <1>1, <2>3, <2>6, <2>7 DEF DigestInv
<1>5. CASE BSend
  BY <1>4, <1>5 DEF BSend
<1>6. ASSUME NEW o \in Objects, Child(o)
      PROVE  DigestInv'
  BY <1>2, <1>4, <1>6 DEF Child
<1>7. QED
  BY <1>2, <1>3, <1>5, <1>6
     DEF BNext, Produce, BStart, Build, BuilderFails, Built, Consume, Watch, Issue, BRecords, Route,
         ConsumerDies, SkipDigest, Resolve, Refuse, Fetch, BCheck, Advance, BLeave, StartOnce, bvars

\* The digest of a day and a target set is sent once, by whichever run and from
\* whichever object, and none is reported as delivered that was not sent
\* (runtime_digest.py and run_runtime_digest_once.py over one ledger).
THEOREM DigestAtMostOnce == BSpec => []DigestOnce
<1>1. BInit => DigestInv
  <2>1. DigestEvent(0) \in BEvents
    BY DEF DigestEvent, BEvents
  <2>2. QED
    BY <2>1 DEF BInit, DigestInv
<1>2. Typed /\ DigestInv /\ [BNext]_bvars => DigestInv'
  BY DigestStep
<1>3. DigestInv => DigestOnce
  BY DEF DigestInv, DigestOnce
<1>4. QED
  BY <1>1, <1>2, <1>3, TypedInvariance, PTL DEF BSpec

-----------------------------------------------------------------------------
(* What a quiet exit says. *)

Routing == {"watch", "issue", "telegram", "routed"}
Late == {"digest", "refused", "fetch", "check", "send"}
Full(d) == reports[d] \in Contents \ {"absent", "torn"}
Told == (\A d \in BriefingDomains : reports[d] \in {"quiet", "strategy"}) /\ Found \subseteq recorded

\* A builder that did not fail has written every report it is done with; what a
\* dispatch did not fail at is on record; a domain status of "ok" is the word of
\* both.
QuietInv ==
  /\ daily.step = "build" =>
       /\ daily.builder = "ok" /\ daily.domain = "ok"
       /\ \A d \in BriefingDomains \ daily.todo : Full(d)
  /\ daily.step \in {"consume"} \cup Routing /\ daily.builder = "ok" =>
       \A d \in BriefingDomains : Full(d)
  /\ daily.step = "consume" /\ daily.domain = "ok" => daily.builder = "ok"
  /\ daily.step \in Routing => daily.findings = Found
  /\ daily.step \in Routing \ {"watch"} /\ ~daily.failed =>
       ("strategy" \in daily.findings => "strategy" \in recorded)
  /\ daily.step \in {"telegram", "routed"} /\ ~daily.failed =>
       ("review" \in daily.findings => "review" \in recorded)
  /\ daily.step \in Late /\ daily.domain = "ok" /\ config.bridge => Told

\* Nothing to keep once a run is over.
LEMMA OverQuiet ==
  ASSUME daily'.step \in {"idle", "exit"}
  PROVE  QuietInv'
BY DEF QuietInv, Routing, Late

LEMMA StaysQuiet ==
  ASSUME QuietInv, UNCHANGED <<daily, reports, recorded, config>>
  PROVE  QuietInv'
BY DEF QuietInv, Full, Told, Found

\* On the way through the digest the domain status is carried along.
LEMMA LateQuiet ==
  ASSUME QuietInv, daily.step \in Late, UNCHANGED <<reports, recorded, config>>,
         daily'.step \in Late, daily'.domain = daily.domain
  PROVE  QuietInv'
BY DEF QuietInv, Full, Told, Found, Routing, Late

LEMMA FindingsOf ==
  ASSUME \A d \in BriefingDomains : Full(d), "urgent" \notin Found
  PROVE  /\ \A d \in BriefingDomains : reports[d] \in {"quiet", "strategy"}
         /\ Found \subseteq {"strategy"}
<1>1. \A d \in BriefingDomains : Findings(reports[d]) \subseteq Found
  BY DEF Found
<1>2. \A d \in BriefingDomains : "urgent" \notin Findings(reports[d])
  BY <1>1
<1>3. \A d \in BriefingDomains : reports[d] \in {"quiet", "strategy"}
  BY <1>2 DEF Full, Contents, Findings, Kinds
<1>4. \A d \in BriefingDomains : Findings(reports[d]) \subseteq {"strategy"}
  BY <1>3 DEF Findings, Kinds
<1>5. QED
  BY <1>3, <1>4 DEF Found

LEMMA BuildQuiet ==
  ASSUME Typed, QuietInv, BStart \/ (\E d \in BriefingDomains : Build(d)) \/ BuilderFails \/ Built
  PROVE  QuietInv'
<1> USE DEF World, Rest, BAt, BGoto
<1>0. daily \in Run
  BY DEF Typed
<1>1. CASE BStart
  <2>1. /\ daily'.step = "build" /\ daily'.builder = "ok" /\ daily'.domain = "ok"
        /\ daily'.todo = BriefingDomains
    BY <1>1 DEF BStart, Asleep
  <2>2. QED
    BY <2>1 DEF QuietInv, Routing, Late
<1>2. ASSUME NEW d \in BriefingDomains, Build(d)
      PROVE  QuietInv'
  <2>1. /\ daily.step = "build" /\ daily'.step = "build" /\ daily'.builder = daily.builder
        /\ daily'.domain = daily.domain /\ daily'.todo = daily.todo \ {d}
    BY <1>0, <1>2 DEF Build, Run
  <2>2. /\ reports'[d] \in Contents \ {"absent", "torn"}
        /\ \A e \in BriefingDomains \ {d} : reports'[e] = reports[e]
    BY <1>2 DEF Build, Typed
  <2>3. \A e \in BriefingDomains \ daily'.todo : reports'[e] \in Contents \ {"absent", "torn"}
    BY <2>1, <2>2 DEF QuietInv, Full
  <2>4. QED
    BY <2>1, <2>3 DEF QuietInv, Full, Routing, Late
<1>3. CASE BuilderFails
  <2>1. /\ daily'.step \in {"consume", "exit"} /\ daily'.builder = "failed" /\ daily'.domain = "failed"
    BY <1>0, <1>3 DEF BuilderFails, Run
  <2>2. QED
    BY <2>1 DEF QuietInv, Routing, Late
<1>4. CASE Built
  <2>1. /\ daily.step = "build" /\ daily.todo = {} /\ daily'.step = "consume"
        /\ daily'.builder = daily.builder /\ daily'.domain = daily.domain
    BY <1>0, <1>4 DEF Built, Run
  <2>2. UNCHANGED reports
    BY <1>4 DEF Built
  <2>3. QED
    BY <2>1, <2>2 DEF QuietInv, Full, Routing, Late
<1>5. QED
  BY <1>1, <1>2, <1>3, <1>4

LEMMA RouteQuiet ==
  ASSUME Typed, QuietInv, Consume \/ Watch \/ Issue \/ Telegram \/ Route
  PROVE  QuietInv'
<1> USE DEF World, Rest, BAt, BGoto
<1>1. daily \in Run
  BY DEF Typed
<1>2. UNCHANGED <<reports, config>>
  BY DEF Consume, Watch, Issue, BRecords, Telegram, Route
<1>3. Found' = Found /\ \A d : Full(d)' = Full(d)
  BY <1>2 DEF Found, Full
<1>4. daily \in Run /\ UNCHANGED <<reports, config>> /\ Found' = Found /\ \A d : Full(d)' = Full(d)
  BY <1>1, <1>2, <1>3
<1>5. CASE Consume
  <2>1. /\ daily.step = "consume" /\ daily'.domain = daily.domain /\ daily'.builder = daily.builder
        /\ \/ daily'.step = "watch" /\ daily'.findings = Found
           \/ daily'.step = "digest" /\ (config.bridge => Found = {})
    BY <1>4, <1>5 DEF Consume, Run
  <2>2. recorded' = recorded
    BY <1>5 DEF Consume
  <2>3. CASE daily'.step = "watch"
    BY <1>4, <2>1, <2>3 DEF QuietInv, Routing, Late
  <2>4. CASE daily'.step = "digest"
    <3>1. ASSUME daily'.domain = "ok", config.bridge
          PROVE  Told'
      <4>1. Found = {} /\ \A d \in BriefingDomains : Full(d)
        BY <2>1, <2>4, <3>1 DEF QuietInv
      <4>2. QED
        BY <1>4, <4>1, FindingsOf DEF Told
    <3>2. QED
      BY <1>4, <2>4, <3>1 DEF QuietInv, Routing, Late
  <2>5. QED
    BY <2>1, <2>3, <2>4
<1>6. CASE Watch \/ Issue
  <2>1. /\ daily'.builder = daily.builder /\ daily'.findings = daily.findings
        /\ daily'.step = IF daily.step = "watch" THEN "issue" ELSE "telegram"
        /\ daily.step \in {"watch", "issue"} /\ recorded \subseteq recorded'
        /\ ~daily'.failed =>
             /\ ~daily.failed
             /\ Watch => ("strategy" \in daily.findings => "strategy" \in recorded')
             /\ Issue => ("review" \in daily.findings => "review" \in recorded')
    <3>1. CASE Watch
      <4>1. Watch /\ ~Issue
        BY <3>1 DEF Watch, Issue
      <4>2. QED
        BY <1>4, <4>1, Zenon DEF Watch, BRecords, Run
    <3>2. CASE Issue
      <4>1. Issue /\ ~Watch
        BY <3>2 DEF Watch, Issue
      <4>2. QED
        BY <1>4, <4>1, Zenon DEF Issue, BRecords, Run
    <3>3. QED
      BY <1>6, <3>1, <3>2
  <2>2. CASE Watch
    <3>1. daily.step = "watch"
      BY <2>2 DEF Watch
    <3>2. QED
      BY <1>4, <2>1, <2>2, <3>1 DEF QuietInv, Routing, Late
  <2>3. CASE Issue
    <3>1. daily.step = "issue"
      BY <2>3 DEF Issue
    <3>2. QED
      BY <1>4, <2>1, <2>3, <3>1 DEF QuietInv, Routing, Late
  <2>4. QED
    BY <1>6, <2>2, <2>3
<1>7. CASE Telegram
  <2>1. /\ daily.step = "telegram" /\ daily'.step = "routed" /\ recorded' = recorded
        /\ daily'.builder = daily.builder /\ daily'.findings = daily.findings
        /\ ~daily'.failed => ~daily.failed
    BY <1>4, <1>7 DEF Telegram, Run
  <2>2. QED
    BY <1>4, <2>1 DEF QuietInv, Routing, Late
<1>8. CASE Route
  <2>1. /\ daily.step = "routed" /\ daily'.step = "digest" /\ daily'.domain = DomainStatus
        /\ recorded' = recorded
    BY <1>8 DEF Route, Asleep
  <2>2. ASSUME DomainStatus = "ok"
        PROVE  Told
    <3>1. ~daily.failed /\ "urgent" \notin daily.findings /\ daily.builder # "failed"
      BY <2>2 DEF DomainStatus, Attention
    <3>2. daily.builder = "ok"
      BY <1>4, <3>1 DEF Run
    <3>3. daily.findings = Found /\ (\A d \in BriefingDomains : Full(d))
          /\ ("strategy" \in Found => "strategy" \in recorded)
      BY <2>1, <3>1, <3>2 DEF QuietInv, Routing
    <3>4. QED
      BY <3>1, <3>3, FindingsOf DEF Told
  <2>3. Told' = Told
    BY <1>4, <2>1 DEF Told
  <2>4. QED
    BY <2>1, <2>2, <2>3 DEF QuietInv, Routing, Late
<1>9. QED
  BY <1>5, <1>6, <1>7, <1>8

LEMMA QuietStep ==
  ASSUME Typed, QuietInv, [BNext]_bvars
  PROVE  QuietInv'
<1> USE DEF World, Rest, BAt, BGoto
<1>0. daily \in Run
  BY DEF Typed
<1>1. CASE Produce \/ StartOnce \/ (\E object \in Objects : Child(object)) \/ UNCHANGED bvars
  BY <1>1, StaysQuiet DEF Produce, StartOnce, Child, bvars
<1>2. CASE BStart \/ (\E d \in BriefingDomains : Build(d)) \/ BuilderFails \/ Built
  BY <1>2, BuildQuiet
<1>3. CASE Consume \/ Watch \/ Issue \/ Telegram \/ Route
  BY <1>3, RouteQuiet
<1>4. CASE ConsumerDies
  <2>1. daily'.step = "digest" /\ daily'.domain = "failed"
    BY <1>4 DEF ConsumerDies, Asleep
  <2>2. QED
    BY <2>1 DEF QuietInv, Routing, Late
<1>5. ASSUME NEW s, Exit(s)
      PROVE  QuietInv'
  <2>1. daily'.step = "exit"
    BY <1>5 DEF Exit, Asleep
  <2>2. QED
    BY <2>1, OverQuiet
<1>6. CASE SkipDigest \/ Refuse \/ BSend
  BY <1>5, <1>6 DEF SkipDigest, Refuse, BSend
<1>7. ASSUME NEW s \in Late, NEW n \in Late, Advance(s, n)
      PROVE  QuietInv'
  <2>1. CASE Exit("failed")
    BY <1>5, <2>1
  <2>2. CASE daily' = [daily EXCEPT !.step = n]
    <3>1. daily.step \in Late /\ daily'.step \in Late /\ daily'.domain = daily.domain
      BY <1>0, <1>7, <2>2 DEF Advance, Run
    <3>2. QED
      BY <1>7, <3>1, LateQuiet DEF Advance
  <2>3. QED
    BY <1>7, <2>1, <2>2 DEF Advance
<1>8. CASE Resolve \/ Fetch \/ BCheck
  BY <1>7, <1>8 DEF Resolve, Fetch, BCheck, Late
<1>9. CASE BLeave
  BY <1>9, OverQuiet DEF BLeave, Asleep
<1>10. QED
  BY <1>1, <1>2, <1>3, <1>6, <1>8, <1>9, <1>4 DEF BNext

\* A pipeline that exits with success has left nothing unsaid, whatever failed
\* on its way (daily_briefing_pipeline.sh and consume_daily_briefing.py).
THEOREM QuietTellsAll == BSpec => QuietExitTellsAll
<1>1. BInit => QuietInv
  BY DEF BInit, Asleep, QuietInv, Routing, Late
<1>2. Typed /\ QuietInv /\ [BNext]_bvars => QuietInv'
  BY QuietStep
<1>3. ASSUME Typed, QuietInv, [BNext]_bvars
      PROVE  [daily.exit = "none" /\ daily'.exit = "ok" /\ config.bridge =>
                /\ \A d \in BriefingDomains : reports[d] \in {"quiet", "strategy"}
                /\ Found \subseteq recorded]_bvars
  <2> USE DEF World, Rest, BAt, BGoto
  <2>0. daily \in Run
    BY <1>3 DEF Typed
  <2>1. ASSUME daily.exit = "none", daily'.exit = "ok", config.bridge
        PROVE  Told
    <3>1. ASSUME NEW s, Exit(s), daily.step \in Late
          PROVE  Told
      <4>1. daily.domain = "ok"
        BY <2>1, <3>1 DEF Exit, Asleep
      <4>2. QED
        BY <1>3, <2>1, <3>1, <4>1 DEF QuietInv
    <3>2. CASE SkipDigest \/ Refuse \/ BSend
      BY <3>1, <3>2 DEF SkipDigest, Refuse, BSend, Late
    <3>3. CASE BStart \/ BuilderFails \/ Route \/ ConsumerDies \/ BLeave
              \/ (\E d \in BriefingDomains : Build(d)) \/ Built
      BY <2>0, <2>1, <3>3 DEF BStart, BuilderFails, Route, ConsumerDies, BLeave, Build, Built, Asleep, Run
    <3>4. CASE Consume \/ Watch \/ Issue \/ Telegram
      BY <2>0, <2>1, <3>4 DEF Consume, Watch, Issue, BRecords, Telegram, Run
    <3>5. ASSUME NEW s, NEW n, Advance(s, n)
          PROVE  FALSE
      BY <2>0, <2>1, <3>5 DEF Advance, Exit, Asleep, Run
    <3>6. CASE Resolve \/ Fetch \/ BCheck
      BY <3>5, <3>6 DEF Resolve, Fetch, BCheck
    <3>7. CASE UNCHANGED daily
      BY <2>1, <3>7
    <3>8. QED
      BY <1>3, <3>2, <3>3, <3>4, <3>6, <3>7 DEF BNext, Produce, StartOnce, Child, bvars
  <2>2. QED
    BY <2>1 DEF Told
<1>4. QED
  BY <1>1, <1>2, <1>3, TypedInvariance, PTL DEF BSpec, QuietExitTellsAll
=============================================================================
