------------------------- MODULE ReleaseDeployment -------------------------
(***************************************************************************)
(* The forced command of deploy/vps/ci-deploy/quant_ai_deploy.py: it       *)
(* stages a release, switches the service to it by a systemd drop-in, and  *)
(* falls back to a pinned baseline release.  The service works on its      *)
(* database whenever it runs.                                              *)
(*                                                                         *)
(* One action is one step of execute() that reads or changes the world:    *)
(* a gate, a file, one systemctl call.  Any of them may raise, and a call  *)
(* that raised (a timeout) may have taken effect.  The status command only *)
(* reads and is left out, and so is a reboot of the machine.               *)
(***************************************************************************)
EXTENDS Naturals, FiniteSets

CONSTANTS
  Releases,    \* release identifiers that are deployed
  Baseline,    \* the pinned release, installed beforehand
  Helpers,     \* processes of the forced command
  None,
  MaxCrashes,  \* bound: helpers that die half way
  MaxDrifts    \* bound: changes of the service configuration

ASSUME BaselineAssumption == Baseline \notin Releases /\ None \notin Releases \cup Helpers \cup {Baseline}
ASSUME DeployBoundsAssumption == MaxCrashes \in Nat /\ MaxDrifts \in Nat

Installed == Releases \cup {Baseline}

VARIABLES
  (* the disk *)
  dir,      \* release directories: "none", "reserved" or "complete"
  backup,   \* what the drop-in named when a deploy saved it
  dropin,   \* the release the drop-in names
  (* the world *)
  unit,     \* the release of the unit that systemd has loaded
  running,  \* the release that runs, or None
  config,   \* whether the service configuration has the approved digest
  work,     \* whether the database holds unfinished work
  (* the helpers *)
  lock,
  pc, mode, goal,
  receipt,  \* the last receipt that was printed
  (* history, read by the properties only *)
  was,      \* what ran when a helper's command began
  last,     \* what ran last: the release the unfinished work is of
  fit,      \* releases whose preflight passed
  crashes, drifts   \* counters of the bounds

disk == <<dir, backup, dropin>>
world == <<unit, running, config, work>>
local == <<lock, pc, mode, goal, was, receipt>>
counters == <<crashes, drifts>>
vars == <<disk, world, local, last, fit, counters>>

Init ==
  /\ dir = [r \in Releases |-> "none"]
  /\ backup = [r \in Releases |-> None]
  /\ dropin = Baseline /\ unit = Baseline /\ running = Baseline
  /\ config = TRUE /\ work = FALSE
  /\ lock = None
  /\ pc = [h \in Helpers |-> "idle"]
  /\ mode = [h \in Helpers |-> "none"]
  /\ goal = [h \in Helpers |-> None]
  /\ receipt = [ok |-> FALSE, rolled_back |-> FALSE]
  /\ was = [h \in Helpers |-> None]
  /\ last = Baseline /\ fit = {} /\ crashes = 0 /\ drifts = 0

-----------------------------------------------------------------------------
(* Control: what follows a step, and what follows an exception in it. *)

Labels == {"reserve", "install", "preflight", "backup", "config1", "drain1", "stop", "config2",
           "drain2", "write", "reload", "restart", "health", "resumegate", "resume"}

FaultyFollowing ==
  [reserve |-> "install", install |-> "preflight", preflight |-> "backup", backup |-> "drain1",
   config1 |-> "drain1", drain1 |-> "stop", stop |-> "config2", config2 |-> "write",
   write |-> "reload", reload |-> "restart", restart |-> "health", resumegate |-> "resume"]
Following ==
  [reserve |-> "install", install |-> "preflight", preflight |-> "backup", backup |-> "drain1",
   config1 |-> "drain1", drain1 |-> "stop", stop |-> "config2", config2 |-> "drain2", drain2 |-> "write",
   write |-> "reload", reload |-> "restart", restart |-> "health", resumegate |-> "resume"]

\* A failed gate after the stop resumes the service, a failed activation of a
\* new release starts the automatic rollback, anything else ends the command.
FaultyFailTo(h) == IF pc[h] \in {"config2", "drain2"} THEN "resumegate"
                   ELSE IF mode[h] = "deploy" /\ pc[h] \in {"write", "reload", "restart", "health"} THEN "stop"
                   ELSE "idle"
FaultyFailToBackup(h) == IF pc[h] = "preflight" THEN "backup" ELSE "idle"
FailTo(h) == IF mode[h] # "auto" /\ pc[h] \in {"config2", "drain2"} THEN "resumegate"
             ELSE IF mode[h] = "deploy" /\ pc[h] \in {"write", "reload", "restart", "health"} THEN "stop"
             ELSE "idle"

\* The process exits: the memory is gone, and with it the lock.
Exit(h) ==
  /\ pc' = [pc EXCEPT ![h] = "idle"]
  /\ mode' = [mode EXCEPT ![h] = "none"]
  /\ goal' = [goal EXCEPT ![h] = None]
  /\ was' = [was EXCEPT ![h] = None]
  /\ lock' = None

End(h, ok, back) == Exit(h) /\ receipt' = [ok |-> ok, rolled_back |-> back]

Pass(h) ==
  /\ pc' = [pc EXCEPT ![h] = Following[pc[h]]]
  /\ UNCHANGED <<lock, mode, goal, was, receipt>>

Fail(h) ==
  IF FailTo(h) = "idle" THEN End(h, FALSE, FALSE)
  ELSE /\ pc' = [pc EXCEPT ![h] = FailTo(h)]
       /\ mode' = [mode EXCEPT ![h] = IF FailTo(h) = "stop" THEN "auto" ELSE @]
       /\ UNCHANGED <<lock, goal, was, receipt>>

Target(h) == IF mode[h] = "deploy" THEN goal[h] ELSE Baseline

-----------------------------------------------------------------------------
(* The steps of a command. *)

FaultyLockFree == TRUE
LockFree == lock = None

Begin(h) ==
  /\ pc[h] = "idle" /\ LockFree
  /\ lock' = h
  /\ \/ \E r \in Releases : /\ goal' = [goal EXCEPT ![h] = r]
                            /\ mode' = [mode EXCEPT ![h] = "deploy"]
                            /\ pc' = [pc EXCEPT ![h] = "reserve"]
     \/ /\ goal' = [goal EXCEPT ![h] = Baseline]
        /\ mode' = [mode EXCEPT ![h] = "rollback"]
        /\ pc' = [pc EXCEPT ![h] = "config1"]
  /\ was' = [was EXCEPT ![h] = running]
  /\ UNCHANGED <<disk, world, receipt, last, fit, counters>>

\* A release identifier is used once: its directory is reserved by mkdir, and
\* kept when the installation in it fails.
Reserve(h) ==
  /\ pc[h] = "reserve"
  /\ \/ dir[goal[h]] = "none" /\ dir' = [dir EXCEPT ![goal[h]] = "reserved"] /\ Pass(h)
     \/ UNCHANGED dir /\ Fail(h)
  /\ UNCHANGED <<backup, dropin, world, last, fit, counters>>

Install(h) ==
  /\ pc[h] = "install"
  /\ \/ dir' = [dir EXCEPT ![goal[h]] = "complete"] /\ Pass(h)
     \/ UNCHANGED dir /\ Fail(h)
  /\ UNCHANGED <<backup, dropin, world, last, fit, counters>>

\* The digest of the configuration, and the release's own check of it.
Preflight(h) ==
  /\ pc[h] = "preflight"
  /\ \/ config /\ fit' = fit \cup {goal[h]} /\ Pass(h)
     \/ UNCHANGED fit /\ Fail(h)
  /\ UNCHANGED <<disk, world, last, counters>>

Backup(h) ==
  /\ pc[h] = "backup"
  /\ \/ backup' = [backup EXCEPT ![goal[h]] = dropin] /\ Pass(h)
     \/ UNCHANGED backup /\ Fail(h)
  /\ UNCHANGED <<dir, dropin, world, last, fit, counters>>

ConfigGate(h) ==
  /\ pc[h] \in {"config1", "config2", "resumegate"}
  /\ IF config THEN Pass(h) ELSE Fail(h)
  /\ UNCHANGED <<disk, world, last, fit, counters>>

\* The counts of unfinished work; the database may also fail to answer.
Drain(h) ==
  /\ pc[h] \in {"drain1", "drain2"}
  /\ (~work /\ Pass(h)) \/ Fail(h)
  /\ UNCHANGED <<disk, world, last, fit, counters>>

Serve(r) ==
  /\ running' = r
  /\ last' = IF r = None THEN last ELSE r

Stop(h) ==
  /\ pc[h] = "stop"
  /\ \/ Serve(None) /\ Pass(h)
     \/ (\E r \in {running, None} : Serve(r)) /\ Fail(h)
  /\ UNCHANGED <<disk, unit, config, work, fit, counters>>

\* systemctl start; the command has failed in any case.
Resume(h) ==
  /\ pc[h] = "resume"
  /\ \E r \in {running, unit} : Serve(r)
  /\ End(h, FALSE, FALSE)
  /\ UNCHANGED <<disk, unit, config, work, fit, counters>>

\* activate: replace the drop-in, daemon-reload, restart.
Write(h) ==
  /\ pc[h] = "write"
  /\ \/ dropin' = Target(h) /\ Pass(h)
     \/ dropin' \in {dropin, Target(h)} /\ Fail(h)
  /\ UNCHANGED <<dir, backup, world, last, fit, counters>>

Reload(h) ==
  /\ pc[h] = "reload"
  /\ \/ unit' = dropin /\ Pass(h)
     \/ unit' \in {unit, dropin} /\ Fail(h)
  /\ UNCHANGED <<disk, running, config, work, last, fit, counters>>

\* A restart that succeeds may still leave a process that dies at once.
Restart(h) ==
  /\ pc[h] = "restart"
  /\ \/ (\E r \in {unit, None} : Serve(r)) /\ Pass(h)
     \/ (\E r \in {running, unit, None} : Serve(r)) /\ Fail(h)
  /\ UNCHANGED <<disk, unit, config, work, fit, counters>>

\* What systemd would start, and that it runs; the probe may find the right
\* release unhealthy, and it may raise.
FaultyHealthy(h) == unit = Target(h)
Healthy(h) == unit = Target(h) /\ running # None

\* A deploy whose release is not healthy rolls back, any other command tells so.
Health(h) ==
  /\ pc[h] = "health"
  /\ \/ mode[h] # "auto" /\ Healthy(h) /\ End(h, TRUE, mode[h] = "rollback")
     \/ mode[h] # "deploy" /\ End(h, FALSE, TRUE)
     \/ Fail(h)
  /\ UNCHANGED <<disk, world, last, fit, counters>>

Command(h) ==
  \/ Begin(h) \/ Reserve(h) \/ Install(h) \/ Preflight(h) \/ Backup(h) \/ ConfigGate(h) \/ Drain(h)
  \/ Stop(h) \/ Resume(h) \/ Write(h) \/ Reload(h) \/ Restart(h) \/ Health(h)

-----------------------------------------------------------------------------
(* The world: traffic, the operator and crashes. *)

\* Nothing keeps clients away: the service accepts and finishes work while it runs.
Traffic ==
  /\ running # None
  /\ work' = ~work
  /\ UNCHANGED <<disk, unit, running, config, local, last, fit, counters>>

\* The operator changes the configuration, or restores the approved one.
Drift ==
  /\ drifts < MaxDrifts
  /\ drifts' = drifts + 1
  /\ config' = ~config
  /\ UNCHANGED <<disk, unit, running, work, local, last, fit, crashes>>

\* The connection or the machine's patience ends, and the helper with it.
Crash(h) ==
  /\ pc[h] # "idle" /\ crashes < MaxCrashes
  /\ crashes' = crashes + 1
  /\ Exit(h)
  /\ UNCHANGED <<disk, world, receipt, last, fit, drifts>>

Next == (\E h \in Helpers : Command(h) \/ Crash(h)) \/ Traffic \/ Drift

Spec == Init /\ [][Next]_vars

-----------------------------------------------------------------------------
(* Properties. *)

\* Every variable has its type, and an automatic rollback never resumes.
TypeOK ==
  /\ dir \in [Releases -> {"none", "reserved", "complete"}]
  /\ backup \in [Releases -> Installed \cup {None}]
  /\ dropin \in Installed /\ unit \in Installed
  /\ running \in Installed \cup {None}
  /\ config \in BOOLEAN /\ work \in BOOLEAN
  /\ lock \in Helpers \cup {None}
  /\ pc \in [Helpers -> Labels \cup {"idle"}]
  /\ mode \in [Helpers -> {"none", "deploy", "rollback", "auto"}]
  /\ goal \in [Helpers -> Installed \cup {None}]
  /\ \A h \in Helpers : mode[h] = "auto" => pc[h] \notin {"resumegate", "resume"}
  /\ receipt \in [ok : BOOLEAN, rolled_back : BOOLEAN]
  /\ was \in [Helpers -> Installed \cup {None}]
  /\ last \in Installed /\ fit \subseteq Releases
  /\ crashes \in 0..MaxCrashes /\ drifts \in 0..MaxDrifts

\* What runs, what systemd would start and what the disk names is always the
\* baseline or a release whose preflight passed, after any failures.
ServesOnlyFit == {running, unit, dropin} \ {None} \subseteq fit \cup {Baseline}

\* No release is started on unfinished work of another one, although clients
\* go on until the service is stopped.
SwitchDrained == [][running' \notin {None, last} => ~work]_vars

\* A deploy replaces the drop-in only after the one it replaces is saved.
OriginalPreserved ==
  [][\A r \in Releases : dropin' = r /\ dropin # r => backup[r] = dropin]_vars

\* A receipt that says ok, or rolled back, tells the truth about what runs now
\* and about what a later start would run.
ReceiptsTrue ==
  [][\A h \in Helpers :
       pc[h] # "idle" /\ pc'[h] = "idle" /\ crashes' = crashes =>
         /\ receipt'.ok => running = Target(h)
         /\ receipt'.ok \/ receipt'.rolled_back => dropin = Target(h) /\ unit = Target(h)
         /\ receipt'.rolled_back => Target(h) = Baseline]_vars

\* A failed gate after the stop brings back the release that this command
\* stopped, if it stopped one.
ResumesWhatRan ==
  [][\A h \in Helpers : pc[h] = "resume" /\ was[h] # None => running' \in {None, was[h]}]_vars

\* A failed gate after the stop resumes the old runtime: what ran when the
\* command began, or the baseline, but no release whose activation failed.
ResumesOldRuntime ==
  [][\A h \in Helpers : pc[h] = "resume" => running' \in {None, was[h], Baseline}]_vars
=============================================================================
