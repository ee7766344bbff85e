---------------------------- MODULE MCQuantMonitor ----------------------------
(* The modules of the quant monitor on small sets, in one run.  "service"    *)
(* says which of them the behaviour is of: each is explored by itself while  *)
(* the others stand still.  Where two of them use one file (the ledger and   *)
(* the health cycle's diagnosis health_cycle.json, the check and the         *)
(* diagnosis the cycle files), each rewrites keys of its own under the lock, *)
(* or the module that reads takes what the other writes as any input, so     *)
(* their product would show nothing more.  The properties are those the      *)
(* modules state.                                                            *)
EXTENDS AlertLedger, OperationalDiagnosis, SummaryOperation, DiagnosisRehearsal, HealthCheck,
        DailyBriefing, TLC

VARIABLE service

monitorvars == <<service, lvars, dvars, svars, rvars, hvars, bvars>>

Services == {"ledger", "diagnosis", "summary", "rehearsal", "check", "briefing"}

MonitorInit ==
  /\ service \in Services
  /\ Init /\ SInit /\ RInit /\ DInit /\ HInit /\ BInit
  /\ service = "ledger" \/ file = EmptyFile
  /\ service = "briefing" \/ config = CHOOSE c \in Configs : TRUE

LedgerStep ==
  service = "ledger" /\ Next /\ UNCHANGED <<service, dvars, svars, rvars, hvars, bvars>>
DiagnosisStep ==
  service = "diagnosis" /\ DNext /\ UNCHANGED <<service, lvars, svars, rvars, hvars, bvars>>
SummaryStep ==
  service = "summary" /\ SNext /\ UNCHANGED <<service, lvars, dvars, rvars, hvars, bvars>>
RehearsalStep ==
  service = "rehearsal" /\ RNext /\ UNCHANGED <<service, lvars, dvars, svars, hvars, bvars>>
CheckStep ==
  service = "check" /\ HNext /\ UNCHANGED <<service, lvars, dvars, svars, rvars, bvars>>
BriefingStep ==
  service = "briefing" /\ BNext /\ UNCHANGED <<service, lvars, dvars, svars, rvars, hvars>>
MonitorNext ==
  \/ LedgerStep \/ DiagnosisStep \/ SummaryStep
  \/ RehearsalStep \/ CheckStep \/ BriefingStep
MonitorSpec == MonitorInit /\ [][MonitorNext]_monitorvars

Symmetry == Permutations(Callers) \cup Permutations(Targets) \cup Permutations(HealthEvents)
-----------------------------------------------------------------------------
(* Every variable of every module keeps its type.                            *)
TypesOK ==
  TypeOK /\ STypeOK /\ RTypeOK /\ DTypeOK /\ HTypeOK /\ BTypeOK
=============================================================================
