----------------------------- MODULE DailyBriefing -----------------------------
(* One day of the daily briefing: the pipeline (builder, consumer, dispatch, *)
(* runtime digest) as the timer or an operator starts it, again and again,   *)
(* and the manual workflow that sends the same digest once                   *)
(* (run_runtime_digest_once.py).  They meet in the delivery ledger.          *)
(*                                                                           *)
(* Abstracted: the scores behind a finding, the texts, the fields of a       *)
(* projection (one that fails its checks is rejected), the reads from GCS.   *)
(* The ledger is what ChatDelivery promises of it and AlertLedger keeps, for *)
(* any one of the chats.                                                     *)
(* GitHub, the watch of the lifecycle library and Telegram are external.     *)
EXTENDS Integers, FiniteSets, DeliveryAnswers

CONSTANTS BriefingDomains, MaxObject, MaxRuns

(* What the constants are.                                                   *)
ASSUME BriefingAssumption == MaxObject \in Nat \ {0} /\ MaxRuns \in Nat

Objects == 1..MaxObject     \* projections of the day in the bucket
Kinds == {"strategy", "review", "urgent"}
Contents == {"absent", "torn", "quiet", "strategy", "urgent", "both"}
BEvents == {<<"urgent", {"urgent"}>>} \cup ({"record_failed"} \X SUBSET Kinds)
            \cup {<<"digest", o>> : o \in {{}} \cup {{x} : x \in Objects}}

VARIABLES
  config,   \* what the unit's environment gives
  handoff,  \* the object the producer's pointer names, 0 before it is made
  reports,  \* the report file of each domain
  daily,    \* the pipeline run at work
  once,     \* the manual run at work
  ledger,   \* standing of each event with the chat
  digests,  \* digest messages the chat really got
  recorded, \* findings of the daily run at GitHub
  claimed,  \* some run has reported the digest as delivered
  runs
bvars == <<config, handoff, reports, daily, once, ledger, digests, recorded, claimed, runs>>

Configs == [digest : BOOLEAN, bridge : BOOLEAN, telegram : BOOLEAN, object : 0..MaxObject]
Asleep == [step |-> "idle", todo |-> {}, findings |-> {}, failed |-> FALSE, unrecorded |-> FALSE,
           builder |-> "ok", domain |-> "ok", exit |-> "none"]
DailySteps == {"idle", "build", "consume", "watch", "issue", "telegram", "routed", "digest",
               "refused", "fetch", "check", "send", "exit"}

BInit ==
  /\ config \in Configs /\ handoff = 0
  /\ reports = [d \in BriefingDomains |-> "absent"]
  /\ daily = Asleep /\ once = "idle"
  /\ ledger = [e \in BEvents |-> "none"]
  /\ digests = 0 /\ recorded = {} /\ claimed = FALSE /\ runs = 0

-----------------------------------------------------------------------------
BAt(step) == daily.step = step
BGoto(step) == daily' = [daily EXCEPT !.step = step]
World == <<config, handoff>>
Rest == <<once, ledger, digests, claimed, runs>>

-----------------------------------------------------------------------------
(* The producer's pointer, made once a day.                                  *)
Produce ==
  /\ handoff = 0 /\ handoff' \in Objects
  /\ UNCHANGED <<config, reports, daily, recorded, Rest>>

BStart ==
  /\ BAt("idle") /\ runs < MaxRuns /\ runs' = runs + 1
  /\ daily' = [Asleep EXCEPT !.step = "build", !.todo = BriefingDomains]
  /\ recorded' = {}
  /\ UNCHANGED <<World, reports, once, ledger, digests, claimed>>

(* daily_briefing_builder.py: one file after the other.  Data that are       *)
(* missing, stale or do not cover the expected profiles are an urgent report.*)
Build(d) ==
  /\ BAt("build") /\ d \in daily.todo
  /\ daily' = [daily EXCEPT !.todo = @ \ {d}]
  /\ reports' \in {[reports EXCEPT ![d] = r] : r \in Contents \ {"absent", "torn"}}
  /\ UNCHANGED <<World, recorded, Rest>>
(* An exception ends the builder, perhaps in the middle of a file.  Only the *)
(* pipeline with the digest goes on with what reports there are.             *)
BuilderFails ==
  /\ BAt("build")
  /\ reports' \in {reports} \cup {[reports EXCEPT ![d] = "torn"] : d \in daily.todo}
  /\ daily' = [daily EXCEPT !.builder = "failed", !.domain = "failed",
                            !.step = IF config.digest THEN "consume" ELSE "exit",
                            !.exit = IF config.digest THEN "none" ELSE "failed"]
  /\ UNCHANGED <<World, recorded, Rest>>
Built ==
  /\ BAt("build") /\ daily.todo = {} /\ BGoto("consume")
  /\ UNCHANGED <<World, reports, recorded, Rest>>

-----------------------------------------------------------------------------
(* consume_briefing_dir: a file that is no JSON is a finding to review.      *)
Findings(content) ==
  CASE content = "torn" -> {"review"}
    [] content = "both" -> {"strategy", "urgent"}
    [] content \in Kinds -> {content}
    [] OTHER -> {}
Found == UNION {Findings(reports[d]) : d \in BriefingDomains}

(* Without the bridge's checkout there is nobody to consume.                 *)
Consume ==
  /\ BAt("consume")
  /\ daily' = IF config.bridge /\ Found # {}
              THEN [daily EXCEPT !.step = "watch", !.findings = Found]
              ELSE [daily EXCEPT !.step = "digest"]
  /\ UNCHANGED <<World, reports, recorded, Rest>>

(* dispatch_briefing_result, in its order.  A record may fail, or only seem  *)
(* to.                                                                       *)
BRecords(kind, next) ==
  /\ IF kind \in daily.findings
     THEN \/ recorded' = recorded \cup {kind} /\ BGoto(next)
          \/ /\ recorded' \in {recorded, recorded \cup {kind}}
             /\ daily' = [daily EXCEPT !.step = next, !.failed = TRUE, !.unrecorded = TRUE]
     ELSE BGoto(next) /\ UNCHANGED recorded
  /\ UNCHANGED <<World, reports, Rest>>
Watch == BAt("watch") /\ BRecords("strategy", "issue")
Issue == BAt("issue") /\ BRecords("review", "telegram")

Attention == "urgent" \in daily.findings
AttentionEvent ==
  IF daily.unrecorded THEN <<"record_failed", daily.findings>> ELSE <<"urgent", {"urgent"}>>
Telegram ==
  /\ BAt("telegram")
  /\ UNCHANGED <<World, reports, once, digests, recorded, claimed, runs>>
  /\ \/ ~(Attention \/ daily.unrecorded) /\ BGoto("routed") /\ UNCHANGED ledger
     \/ /\ Attention \/ daily.unrecorded
        /\ ~config.telegram
        /\ daily' = [daily EXCEPT !.step = "routed", !.failed = TRUE] /\ UNCHANGED ledger
     \/ /\ Attention \/ daily.unrecorded
        /\ config.telegram
        /\ \E r \in Deliveries(ledger[AttentionEvent]) :
             /\ ledger' = [ledger EXCEPT ![AttentionEvent] = r[1]]
             /\ daily' = [daily EXCEPT !.step = "routed", !.failed = @ \/ ~Delivered(r[3])]

(* The consumer's exit: urgent findings are never a success; the builder's   *)
(* failure stays one.                                                        *)
(* Mutant: the builder's failure is lost.                                    *)
FaultyDomainStatus == IF daily.failed \/ Attention THEN "failed" ELSE "ok"
DomainStatus == IF daily.failed \/ Attention \/ daily.builder = "failed" THEN "failed" ELSE "ok"
Route ==
  /\ BAt("routed") /\ daily' = [Asleep EXCEPT !.step = "digest", !.domain = DomainStatus]
  /\ UNCHANGED <<World, reports, recorded, Rest>>

(* The consumer alone dies, by an exception nobody catches or a kill, before *)
(* it dispatches or between two of its steps.  The pipeline goes on with the *)
(* failed status.                                                            *)
Dispatching == {"consume", "watch", "issue", "telegram", "routed"}
ConsumerDies ==
  /\ config.bridge /\ daily.step \in Dispatching
  /\ daily' = [Asleep EXCEPT !.step = "digest", !.domain = "failed"]
  /\ UNCHANGED <<World, reports, recorded, Rest>>

-----------------------------------------------------------------------------
(* The digest of an object.  The event is the platform, the date and the set *)
(* of targets: which object it was read from is no part of it.               *)
FaultyDigestEvent(object) == <<"digest", {object}>>
DigestEvent(object) == <<"digest", {}>>
Object == IF config.object # 0 THEN config.object ELSE handoff
SendDigest(object, r) ==
  /\ r \in Deliveries(ledger[DigestEvent(object)])
  /\ ledger' = [ledger EXCEPT ![DigestEvent(object)] = r[1]]
  /\ digests' = digests + r[2]

Exit(status) ==
  daily' = [Asleep EXCEPT !.step = "exit",
                         !.exit = IF status = "ok" /\ daily.domain = "ok" THEN "ok" ELSE "failed"]

(* Resolve the object, fetch it, check it, send it: each of these may refuse *)
(* and there is no other object to fall back to.                             *)
Advance(step, next) ==
  /\ BAt(step) /\ UNCHANGED <<World, reports, recorded, Rest>>
  /\ BGoto(next) \/ Exit("failed")
SkipDigest ==
  /\ BAt("digest") /\ ~config.digest /\ Exit("ok")
  /\ UNCHANGED <<World, reports, recorded, Rest>>
Resolve ==
  /\ config.digest
  /\ Advance("digest", IF config.bridge /\ Object # 0 THEN "fetch" ELSE "refused")
Refuse == BAt("refused") /\ Exit("failed") /\ UNCHANGED <<World, reports, recorded, Rest>>
Fetch == Advance("fetch", "check")
BCheck == Advance("check", IF config.telegram THEN "send" ELSE "refused")
BSend ==
  /\ BAt("send")
  /\ UNCHANGED <<World, reports, once, recorded, runs>>
  /\ \E r \in Deliveries(ledger[DigestEvent(Object)]) :
       /\ SendDigest(Object, r)
       /\ Exit(IF Delivered(r[3]) THEN "ok" ELSE "failed")
       /\ claimed' = (claimed \/ Delivered(r[3]))

(* The unit ends, or is killed at any step.                                  *)
BLeave ==
  /\ ~BAt("idle") /\ daily' = [Asleep EXCEPT !.exit = daily.exit]
  /\ UNCHANGED <<World, reports, recorded, Rest>>

-----------------------------------------------------------------------------
(* The manual run: a child process sends; when the ledger confirms that the  *)
(* message was sent, now or before, a second one must find it a duplicate.   *)
(* Any other answer stops the operation, without a retry.                    *)
StartOnce ==
  /\ once = "idle" /\ runs < MaxRuns /\ runs' = runs + 1
  /\ once' = "first"
  /\ UNCHANGED <<World, reports, daily, ledger, digests, recorded, claimed>>
Confirms(object, r) == Delivered(r[3]) /\ r[1] = "sent"
Child(object) ==
  /\ once \in {"first", "second"}
  /\ UNCHANGED <<World, reports, daily, recorded, runs>>
  /\ \/ once' = "idle" /\ UNCHANGED <<ledger, digests, claimed>>
     \/ \E r \in Deliveries(ledger[DigestEvent(object)]) :
          /\ SendDigest(object, r)
          /\ once' = IF once = "first" /\ Confirms(object, r) THEN "second" ELSE "idle"
          /\ claimed' = (claimed \/ (once = "second" /\ r[3] = "suppressed"))

BNext ==
  \/ Produce \/ BStart \/ (\E d \in BriefingDomains : Build(d)) \/ BuilderFails \/ Built
  \/ Consume \/ Watch \/ Issue \/ Telegram \/ Route \/ ConsumerDies
  \/ SkipDigest \/ Resolve \/ Refuse \/ Fetch \/ BCheck \/ BSend \/ BLeave
  \/ StartOnce \/ \E object \in Objects : Child(object)
BSpec == BInit /\ [][BNext]_bvars

-----------------------------------------------------------------------------
(* Every variable keeps its type.                                            *)
BTypeOK ==
  /\ config \in Configs /\ handoff \in 0..MaxObject /\ reports \in [BriefingDomains -> Contents]
  /\ daily.step \in DailySteps /\ daily.todo \subseteq BriefingDomains /\ daily.findings \subseteq Kinds
  /\ once \in {"idle", "first", "second"} /\ ledger \in [BEvents -> {"none", "sent", "unknown"}]
  /\ digests \in Nat /\ recorded \subseteq Kinds /\ claimed \in BOOLEAN /\ runs \in Nat

(* A pipeline that exits with success has left nothing unsaid: with the      *)
(* consumer's checkout in place, no report is missing, torn or urgent, and   *)
(* every other finding is on record.                                         *)
QuietExitTellsAll ==
  [][daily.exit = "none" /\ daily'.exit = "ok" /\ config.bridge =>
       /\ \A d \in BriefingDomains : reports[d] \in {"quiet", "strategy"}
       /\ Found \subseteq recorded]_bvars

(* The digest of a day and a target set is sent once, by whichever run and   *)
(* from whichever object, and a run that reports it as delivered is right.   *)
DigestOnce == digests <= 1 /\ (claimed => digests = 1)
=============================================================================
