----------------------------- MODULE HealthCheck -----------------------------
(* One health check of the quant monitor (scripts/health_check.sh): sync the *)
(* strategy repositories, sync and activate the lifecycle artifacts, import  *)
(* the Binance runs, run the health cycle, publish its snapshot.  The parts  *)
(* are separate processes that meet in files: the stored versions, three     *)
(* links per domain, status.json and the snapshot.  A check may be killed    *)
(* between any two of its steps and the next one starts over; checks do not  *)
(* overlap (one oneshot unit).                                               *)
(*                                                                           *)
(* Abstracted: the checks of a workflow run and of an archive (an artifact   *)
(* is sound or not), the git commands, the GitHub error codes other than the *)
(* rate limit, the scores.  GitHub and the lifecycle library are external.   *)
EXTENDS Integers, FiniteSets

CONSTANTS Domains, Crypto, MaxArtifact, MaxCheckFaults, MaxChecks

(* What the constants are.                                                   *)
ASSUME CheckAssumption ==
  Crypto \in Domains /\ MaxArtifact \in Nat \ {0} /\ MaxCheckFaults \in Nat /\ MaxChecks \in Nat

Artifacts == 1..MaxArtifact
None == 0
ViaCurrent == MaxArtifact + 1  \* a link to the path of the "current" link

VARIABLES
  newest,   \* the newest trusted artifact of a domain at GitHub
  unsound,  \* domains whose newest artifact does not pass validation
  stored,   \* versions/<domain>: whole directories with their manifest
  current, matrix, backtest, \* the three links
  status,   \* status.json: the artifact of a ready domain, None of one in error
  stale,    \* status.json is older than two hours
  check,    \* the check at work
  snapshot, console, \* the normalized snapshot, and the one published
  alerted,  \* an operational incident is open
  repoLock, \* the directory that excludes a second repository sync
  checks, hfaults
hvars == <<newest, unsound, stored, current, matrix, backtest, status, stale, check, snapshot,
           console, alerted, repoLock, checks, hfaults>>

HSteps == {"idle", "repos", "sync", "store", "current", "matrix", "backtest", "binance", "cycle",
           "report", "publish"}
HBlank == [d \in Domains |-> None]
Resting == [step |-> "idle", todo |-> {}, domain |-> Crypto, picked |-> None, limited |-> FALSE,
            found |-> HBlank, errors |-> {}, trouble |-> FALSE]

HInit ==
  /\ newest = [d \in Domains |-> 1] /\ unsound = {}
  /\ stored = [d \in Domains |-> {}]
  /\ current = HBlank /\ matrix = HBlank /\ backtest = HBlank
  /\ status = HBlank /\ stale = TRUE /\ check = Resting
  /\ snapshot = "none" /\ console = "none" /\ alerted = FALSE /\ repoLock = FALSE
  /\ checks = 0 /\ hfaults = 0

-----------------------------------------------------------------------------
Upstream == <<newest, unsound>>
Links == <<current, matrix, backtest>>
Shown == <<snapshot, console, alerted>>
Counts == <<checks, hfaults>>
Step(s) == check.step = s
HGoto(s) == check' = [check EXCEPT !.step = s]
HFault == hfaults < MaxCheckFaults /\ hfaults' = hfaults + 1

(* A workflow publishes an artifact; its archive may fail validation.        *)
Publish ==
  /\ \E d \in Domains :
       /\ newest[d] < MaxArtifact
       /\ newest' = [newest EXCEPT ![d] = @ + 1]
       /\ unsound' \in {unsound \ {d}, unsound \cup {d}}
  /\ UNCHANGED <<stored, Links, status, stale, check, Shown, repoLock, Counts>>
Age ==
  /\ ~stale /\ stale' = TRUE
  /\ UNCHANGED <<Upstream, stored, Links, status, check, Shown, repoLock, Counts>>

Start ==
  /\ Step("idle") /\ checks < MaxChecks /\ checks' = checks + 1
  /\ ~repoLock /\ repoLock' = TRUE
  /\ check' = [Resting EXCEPT !.step = "repos"]
  /\ UNCHANGED <<Upstream, stored, Links, status, stale, Shown, hfaults>>

(* One repository that cannot be brought to its revision ends the check,     *)
(* after the others were tried.                                              *)
Repos ==
  /\ Step("repos") /\ repoLock' = FALSE
  /\ \/ check' = [check EXCEPT !.step = "sync", !.todo = Domains] /\ UNCHANGED hfaults
     \/ HFault /\ check' = Resting
  /\ UNCHANGED <<Upstream, stored, Links, status, stale, Shown, checks>>

-----------------------------------------------------------------------------
(* sync_lifecycle_artifacts.py, a domain at a time, in memory until the end. *)
Conclude(d, artifact) ==
  check' = [check EXCEPT !.step = "sync", !.todo = @ \ {d}, !.found[d] = artifact]
RateLimited == check.limited

(* After a rate limit the rest of the domains are in error unasked.          *)
SkipDomain(d) ==
  /\ Step("sync") /\ d \in check.todo /\ RateLimited
  /\ Conclude(d, None)
  /\ UNCHANGED <<Upstream, stored, Links, status, stale, Shown, repoLock, Counts>>

(* The listing, the run, its jobs or the archive cannot be had.              *)
ApiFails(d) ==
  /\ Step("sync") /\ d \in check.todo /\ ~RateLimited /\ HFault
  /\ \E limited \in BOOLEAN :
       check' = [check EXCEPT !.todo = @ \ {d}, !.limited = limited, !.found[d] = None]
  /\ UNCHANGED <<Upstream, stored, Links, status, stale, Shown, repoLock, checks>>

(* The newest trusted artifact; one that was never stored is downloaded and  *)
(* validated in a staging directory, which becomes the version in one rename.*)
Sound(d) == d \notin unsound
Usable(d) == newest[d] \in stored[d] \/ Sound(d)
Select(d) ==
  /\ Step("sync") /\ d \in check.todo /\ ~RateLimited
  /\ IF Usable(d)
     THEN /\ check' = [check EXCEPT !.domain = d, !.picked = newest[d],
                         !.step = IF newest[d] \in stored[d] THEN "current" ELSE "store"]
     ELSE Conclude(d, None)
  /\ UNCHANGED <<Upstream, stored, Links, status, stale, Shown, repoLock, Counts>>
HStore ==
  /\ Step("store") /\ HGoto("current")
  /\ stored' = [stored EXCEPT ![check.domain] = @ \cup {check.picked}]
  /\ UNCHANGED <<Upstream, Links, status, stale, Shown, repoLock, Counts>>

(* activate_version: the current link first, and two links of the consumers  *)
(* to its path, so that one rename moves them all.                           *)
FaultyConsumerTarget == check.picked
ConsumerTarget == ViaCurrent
Swap(link, target) == [link EXCEPT ![check.domain] = target]
Activate ==
  /\ \/ /\ Step("current") /\ current' = Swap(current, check.picked) /\ HGoto("matrix")
        /\ UNCHANGED <<matrix, backtest>>
     \/ /\ Step("matrix") /\ matrix' = Swap(matrix, ConsumerTarget) /\ HGoto("backtest")
        /\ UNCHANGED <<current, backtest>>
     \/ /\ Step("backtest") /\ backtest' = Swap(backtest, ConsumerTarget)
        /\ Conclude(check.domain, check.picked)
        /\ UNCHANGED <<current, matrix>>
  /\ UNCHANGED <<Upstream, stored, status, stale, Shown, repoLock, Counts>>
(* A path that is no managed link, or an I/O error, leaves the rest undone.  *)
ActivateFails ==
  /\ check.step \in {"store", "current", "matrix", "backtest"} /\ HFault
  /\ Conclude(check.domain, None)
  /\ UNCHANGED <<Upstream, stored, Links, status, stale, Shown, repoLock, checks>>

(* status.json is written once, after the last domain.                       *)
WriteStatus ==
  /\ Step("sync") /\ check.todo = {}
  /\ status' = check.found /\ stale' = FALSE /\ HGoto("binance")
  /\ UNCHANGED <<Upstream, stored, Links, Shown, repoLock, Counts>>

(* sync_binance_live_runs.py: off or done, or blocked: then crypto is marked *)
(* in error in the status it finds.                                          *)
Binance ==
  /\ Step("binance") /\ HGoto("cycle")
  /\ status' \in {status, [status EXCEPT ![Crypto] = None]}
  /\ UNCHANGED <<Upstream, stored, Links, stale, Shown, repoLock, Counts>>

-----------------------------------------------------------------------------
(* health_cycle.py.  A domain without a ready status is an error; so is one  *)
(* whose snapshots or drift do not cover the expected profiles.  "trouble"   *)
(* is a dashboard that is no data, or an issue that was not recorded.        *)
FaultyReady(d) == current[d] # None /\ ~stale
Ready(d) == status[d] # None /\ ~stale
Uncovered == SUBSET {d \in Domains : Ready(d)}
Cycle ==
  /\ Step("cycle")
  /\ \E failed \in Uncovered, collector, issues \in BOOLEAN :
       LET errors == failed \cup {d \in Domains : ~Ready(d)} IN
       /\ check' = [check EXCEPT !.step = "report", !.errors = errors, !.trouble = collector \/ issues,
                                 !.found = [d \in Domains |-> IF d \in errors THEN None ELSE status[d]]]
       /\ snapshot' = IF errors # {} \/ collector THEN "unavailable" ELSE "ready"
  /\ UNCHANGED <<Upstream, stored, Links, status, stale, console, alerted, repoLock, Counts>>

(* Report what is wrong, or close the incident; then the cycle file.         *)
FaultyWrong == check.trouble
Wrong == check.errors # {} \/ check.trouble
Report ==
  /\ Step("report") /\ HGoto("publish")
  /\ alerted' = Wrong
  /\ UNCHANGED <<Upstream, stored, Links, status, stale, snapshot, console, repoLock, Counts>>
PublishSnapshot ==
  /\ Step("publish") /\ check' = Resting
  /\ console' \in {console, snapshot}
  /\ UNCHANGED <<Upstream, stored, Links, status, stale, snapshot, alerted, repoLock, Counts>>

(* Killed, or a part fails in a way the script does not go on from.  Killed  *)
(* in the repository sync, the lock stays and no later check gets past it.   *)
HDie ==
  /\ ~Step("idle") /\ HFault /\ check' = Resting
  /\ UNCHANGED <<Upstream, stored, Links, status, stale, Shown, repoLock, checks>>

HNext ==
  \/ Publish \/ Age \/ Start \/ Repos
  \/ \E d \in Domains : SkipDomain(d) \/ ApiFails(d) \/ Select(d)
  \/ HStore \/ Activate \/ ActivateFails \/ WriteStatus \/ Binance
  \/ Cycle \/ Report \/ PublishSnapshot \/ HDie
HSpec == HInit /\ [][HNext]_hvars

-----------------------------------------------------------------------------
(* Every variable keeps its type.                                            *)
HTypeOK ==
  /\ newest \in [Domains -> Artifacts] /\ unsound \subseteq Domains
  /\ \A d \in Domains : stored[d] \subseteq Artifacts
  /\ current \in [Domains -> Artifacts \cup {None}] /\ status \in [Domains -> Artifacts \cup {None}]
  /\ matrix \in [Domains -> 0..ViaCurrent] /\ backtest \in [Domains -> 0..ViaCurrent]
  /\ stale \in BOOLEAN /\ check.step \in HSteps /\ check.todo \subseteq Domains
  /\ {snapshot, console} \subseteq {"none", "ready", "unavailable"}
  /\ alerted \in BOOLEAN /\ repoLock \in BOOLEAN

Serves(d, link) == IF link[d] = ViaCurrent THEN current[d] ELSE link[d]

(* The two consumers of a domain never read different artifacts, or one that *)
(* was not stored whole, whatever activation fails half way or is killed     *)
(* (activate_version); and the revision a cycle stamps on its observations is*)
(* that of the artifact they read: a ready status is never used that an      *)
(* activation has gone past.                                                 *)
ConsumersAgree ==
  \A d \in Domains :
    /\ matrix[d] # None /\ backtest[d] # None => Serves(d, matrix) = Serves(d, backtest)
    /\ current[d] # None => current[d] \in stored[d]
    /\ Step("cycle") /\ Ready(d) => {Serves(d, matrix), Serves(d, backtest)} = {status[d]}

(* An incident is closed only by a check that synced, refreshed and covered  *)
(* every domain itself, with the artifact both consumers serve.              *)
ClosesOnlyWhole ==
  [][alerted /\ ~alerted' =>
       \A d \in Domains : check.found[d] # None /\ Serves(d, backtest) = check.found[d]]_hvars

=============================================================================
