---------------------- MODULE ReleaseDeploymentProofs ----------------------
(***************************************************************************)
(* Theorems about ReleaseDeployment, for every set of releases and of      *)
(* helpers and for every bound.                                            *)
(***************************************************************************)
EXTENDS ReleaseDeployment, TLAPS

-----------------------------------------------------------------------------
(* The inductive invariant. *)

\* A helper at work has the lock, and a goal of its kind of command.
Owned(h) ==
  /\ lock = h
  /\ mode[h] \in {"deploy", "rollback", "auto"}
  /\ mode[h] = "deploy" => goal[h] \in Releases
  /\ pc[h] \in {"reserve", "install", "preflight", "backup"} => mode[h] = "deploy"
  /\ pc[h] = "config1" => mode[h] = "rollback"

\* What the steps behind it have established for the steps ahead of it.
Checked(h) ==
  /\ mode[h] = "deploy" /\ pc[h] \notin {"reserve", "install", "preflight", "resumegate", "resume"}
       => goal[h] \in fit
  /\ mode[h] = "deploy" /\ pc[h] \in {"drain1", "stop", "config2", "drain2", "write"}
       => backup[goal[h]] = dropin
  /\ pc[h] \in {"config2", "drain2", "write", "reload", "restart", "resumegate", "resume"}
       => running = None
  /\ pc[h] \in {"write", "reload", "restart"} => ~work
  /\ pc[h] \in {"reload", "restart", "health"} => dropin = Target(h)
  /\ pc[h] \in {"restart", "health"} => unit = Target(h)
  /\ mode[h] # "auto" /\ pc[h] \notin {"restart", "health"} /\ was[h] # None => unit = was[h]

\* What runs is the loaded unit, and unfinished work is of that unit.
WorldInv ==
  /\ running # None => running = unit /\ running = last
  /\ work => unit = last

HelperInv == \A h \in Helpers : pc[h] # "idle" => Owned(h) /\ Checked(h)

Inv == TypeOK /\ WorldInv /\ HelperInv /\ ServesOnlyFit

-----------------------------------------------------------------------------
(* Control. *)

\* The lock belongs to the only helper at work.
LEMMA OneAtWork ==
  ASSUME HelperInv, NEW h \in Helpers, pc[h] # "idle", NEW g \in Helpers, g # h
  PROVE  pc[g] = "idle"
BY DEF HelperInv, Owned

\* What each way to end a step does to the control state.
Goes(h, l) ==
  /\ pc' = [pc EXCEPT ![h] = l]
  /\ UNCHANGED <<lock, goal, was, receipt>>

LEMMA FollowingAt ==
  /\ Following["reserve"] = "install"
  /\ Following["install"] = "preflight"
  /\ Following["preflight"] = "backup"
  /\ Following["backup"] = "drain1"
  /\ Following["config1"] = "drain1"
  /\ Following["drain1"] = "stop"
  /\ Following["stop"] = "config2"
  /\ Following["config2"] = "drain2"
  /\ Following["drain2"] = "write"
  /\ Following["write"] = "reload"
  /\ Following["reload"] = "restart"
  /\ Following["restart"] = "health"
  /\ Following["resumegate"] = "resume"
BY DEF Following

\* A step that passes goes to the label behind it.
LEMMA PassGoes ==
  ASSUME NEW h \in Helpers, Pass(h)
  PROVE  /\ UNCHANGED mode
         /\ pc[h] = "reserve" => Goes(h, "install")
         /\ pc[h] = "install" => Goes(h, "preflight")
         /\ pc[h] = "preflight" => Goes(h, "backup")
         /\ pc[h] = "backup" => Goes(h, "drain1")
         /\ pc[h] = "config1" => Goes(h, "drain1")
         /\ pc[h] = "drain1" => Goes(h, "stop")
         /\ pc[h] = "stop" => Goes(h, "config2")
         /\ pc[h] = "config2" => Goes(h, "drain2")
         /\ pc[h] = "drain2" => Goes(h, "write")
         /\ pc[h] = "write" => Goes(h, "reload")
         /\ pc[h] = "reload" => Goes(h, "restart")
         /\ pc[h] = "restart" => Goes(h, "health")
         /\ pc[h] = "resumegate" => Goes(h, "resume")
BY FollowingAt, Zenon DEF Pass, Goes

LEMMA PassNext ==
  ASSUME TypeOK, NEW h \in Helpers, Pass(h)
  PROVE  /\ pc'[h] = Following[pc[h]]
         /\ UNCHANGED <<mode, goal, was, lock>>
BY DEF Pass, TypeOK

\* A step that fails ends the command, resumes the service or rolls back.
LEMMA FailGoes ==
  ASSUME NEW h \in Helpers, Fail(h), TypeOK
  PROVE  \/ End(h, FALSE, FALSE)
         \/ /\ mode[h] # "auto" /\ pc[h] \in {"config2", "drain2"}
            /\ Goes(h, "resumegate") /\ UNCHANGED mode
         \/ /\ mode[h] = "deploy" /\ pc[h] \in {"write", "reload", "restart", "health"}
            /\ Goes(h, "stop") /\ mode' = [mode EXCEPT ![h] = "auto"]
<1>1. CASE FailTo(h) = "idle"
  BY <1>1 DEF Fail
<1>2. CASE FailTo(h) = "resumegate"
  <2>1. mode' = mode
    BY <1>2, Zenon DEF Fail, TypeOK
  <2>2. mode[h] # "auto" /\ pc[h] \in {"config2", "drain2"}
    BY <1>2 DEF FailTo
  <2>3. QED
    BY <1>2, <2>1, <2>2 DEF Fail, Goes
<1>3. CASE FailTo(h) = "stop"
  BY <1>3 DEF Fail, FailTo, Goes
<1>4. QED
  BY <1>1, <1>2, <1>3 DEF FailTo

\* The typed part of the helpers' own state.
ControlOK ==
  /\ lock \in Helpers \cup {None}
  /\ pc \in [Helpers -> Labels \cup {"idle"}]
  /\ mode \in [Helpers -> {"none", "deploy", "rollback", "auto"}]
  /\ goal \in [Helpers -> Installed \cup {None}]
  /\ \A h \in Helpers : mode[h] = "auto" => pc[h] \notin {"resumegate", "resume"}
  /\ receipt \in [ok : BOOLEAN, rolled_back : BOOLEAN]
  /\ was \in [Helpers -> Installed \cup {None}]

\* The end of a process leaves no helper at work.
LEMMA ExitControl ==
  ASSUME TypeOK, HelperInv, NEW h \in Helpers, pc[h] # "idle", Exit(h),
         receipt' \in [ok : BOOLEAN, rolled_back : BOOLEAN]
  PROVE  ControlOK' /\ \A g \in Helpers : pc'[g] = "idle"
<1>1. ControlOK'
  BY DEF TypeOK, ControlOK, Exit
<1>2. \A g \in Helpers : pc'[g] = "idle"
  BY OneAtWork DEF TypeOK, Exit
<1>3. QED
  BY <1>1, <1>2

LEMMA EndControl ==
  ASSUME TypeOK, HelperInv, NEW h \in Helpers, pc[h] # "idle",
         NEW ok \in BOOLEAN, NEW back \in BOOLEAN, End(h, ok, back)
  PROVE  ControlOK' /\ HelperInv'
BY ExitControl DEF End, HelperInv

\* A helper that goes on keeps the lock, and the others stay idle.
LEMMA GoesControl ==
  ASSUME TypeOK, HelperInv, NEW h \in Helpers, pc[h] # "idle", NEW l \in Labels, Goes(h, l),
         \/ mode' = mode /\ (mode[h] = "auto" => l \notin {"resumegate", "resume"})
         \/ mode' = [mode EXCEPT ![h] = "auto"] /\ l \notin {"resumegate", "resume"}
  PROVE  /\ ControlOK'
         /\ pc'[h] = l /\ lock' = h /\ goal'[h] = goal[h] /\ was'[h] = was[h]
         /\ \A g \in Helpers : g # h => pc'[g] = "idle"
<1>1. ControlOK'
  BY DEF TypeOK, ControlOK, Goes
<1>2. pc'[h] = l /\ lock' = h /\ goal'[h] = goal[h] /\ was'[h] = was[h]
  BY DEF TypeOK, HelperInv, Owned, Goes
<1>3. \A g \in Helpers : g # h => pc'[g] = "idle"
  BY OneAtWork DEF TypeOK, Goes
<1>4. QED
  BY <1>1, <1>2, <1>3

\* So it is enough to look at the helper that makes the step.
LEMMA GoesHelper ==
  ASSUME TypeOK, HelperInv, NEW h \in Helpers, pc[h] # "idle", NEW l \in Labels, Goes(h, l),
         \/ mode' = mode /\ (mode[h] = "auto" => l \notin {"resumegate", "resume"})
         \/ mode' = [mode EXCEPT ![h] = "auto"] /\ l \notin {"resumegate", "resume"},
         l \in {"reserve", "install", "preflight", "backup"} => mode'[h] = "deploy",
         l # "config1",
         Checked(h)'
  PROVE  ControlOK' /\ HelperInv'
<1>1. mode'[h] \in {"deploy", "rollback", "auto"} /\ (mode'[h] = "deploy" => mode[h] = "deploy")
  BY DEF TypeOK, HelperInv, Owned
<1>2. Owned(h)'
  BY <1>1, GoesControl DEF HelperInv, Owned
<1>3. QED
  BY <1>2, GoesControl DEF HelperInv

\* A failing step keeps the invariant if what it leaves is what a rollback
\* or a resume may start from.
LEMMA FailHelper ==
  ASSUME Inv, NEW h \in Helpers, pc[h] # "idle", Fail(h),
         pc[h] \in {"config2", "drain2"} => UNCHANGED <<unit, running>>
  PROVE  ControlOK' /\ HelperInv'
<1>0. TypeOK /\ HelperInv /\ Owned(h) /\ Checked(h)
  BY DEF Inv, HelperInv
<1>1. CASE End(h, FALSE, FALSE)
  BY <1>0, <1>1, EndControl
<1>2. CASE /\ mode[h] # "auto" /\ pc[h] \in {"config2", "drain2"}
           /\ Goes(h, "resumegate") /\ UNCHANGED mode
  <2>1. "resumegate" \in Labels
    BY DEF Labels
  <2>2. pc'[h] = "resumegate" /\ was'[h] = was[h]
    BY <1>0, <1>2, <2>1, GoesControl
  <2>3. Checked(h)'
    BY <1>0, <1>2, <2>2 DEF Checked
  <2>4. QED
    BY <1>0, <1>2, <2>1, <2>3, GoesHelper
<1>3. CASE /\ mode[h] = "deploy" /\ pc[h] \in {"write", "reload", "restart", "health"}
           /\ Goes(h, "stop") /\ mode' = [mode EXCEPT ![h] = "auto"]
  <2>1. "stop" \in Labels
    BY DEF Labels
  <2>2. pc'[h] = "stop" /\ mode'[h] = "auto"
    BY <1>0, <1>3, <2>1, GoesControl, Zenon DEF TypeOK
  <2>3. Checked(h)'
    BY <2>2 DEF Checked
  <2>4. QED
    BY <1>0, <1>3, <2>1, <2>3, GoesHelper
<1>4. QED
  BY <1>0, <1>1, <1>2, <1>3, FailGoes

\* A passing step keeps the invariant if it establishes what the next needs.
LEMMA PassHelper ==
  ASSUME Inv, NEW h \in Helpers, pc[h] \notin {"idle", "resume", "health"}, Pass(h), Checked(h)'
  PROVE  ControlOK' /\ HelperInv'
<1>0. TypeOK /\ HelperInv /\ Owned(h)
  BY DEF Inv, HelperInv
<1>1. PICK l \in Labels \ {"reserve", "config1", "resumegate"} :
        /\ Goes(h, l) /\ UNCHANGED mode
        /\ l \in {"install", "preflight", "backup"} => pc[h] \in {"reserve", "install", "preflight"}
        /\ l = "resume" => pc[h] = "resumegate"
  BY <1>0, PassGoes DEF TypeOK, Labels
<1>2. QED
  BY <1>0, <1>1, GoesHelper DEF TypeOK, Owned

-----------------------------------------------------------------------------
(* Every step keeps the invariant. *)

LEMMA InitInv == Init => Inv
<1> SUFFICES ASSUME Init PROVE Inv
  OBVIOUS
<1>1. TypeOK
  <2>1. crashes \in 0..MaxCrashes /\ drifts \in 0..MaxDrifts
    BY DeployBoundsAssumption DEF Init
  <2>2. ControlOK
    BY DEF Init, ControlOK, Installed
  <2>3. QED
    BY <2>1, <2>2 DEF Init, TypeOK, ControlOK, Installed
<1>2. WorldInv /\ HelperInv /\ ServesOnlyFit
  BY DEF Init, WorldInv, HelperInv, ServesOnlyFit
<1>3. QED
  BY <1>1, <1>2 DEF Inv

\* What a helper switches to is the baseline or a release that is fit.
LEMMA TargetFit ==
  ASSUME Inv, NEW h \in Helpers, pc[h] \in {"write", "reload", "restart", "health"}
  PROVE  Target(h) \in Installed /\ Target(h) \in fit \cup {Baseline}
BY DEF Inv, HelperInv, Owned, Checked, Target, Installed

LEMMA BeginInv ==
  ASSUME Inv, NEW h \in Helpers, Begin(h)
  PROVE  Inv'
<1>1. \A g \in Helpers : pc[g] = "idle"
  BY BaselineAssumption DEF Inv, HelperInv, Owned, Begin, LockFree
<1>2. UNCHANGED <<world, disk, last, fit, counters, receipt>>
  BY DEF Begin
<1>3. ControlOK'
  BY DEF Begin, Inv, TypeOK, ControlOK, Labels, Installed
<1>4. TypeOK' /\ WorldInv' /\ ServesOnlyFit'
  BY <1>2, <1>3 DEF Inv, TypeOK, ControlOK, WorldInv, ServesOnlyFit, world, disk, counters
<1>5. \A g \in Helpers : g # h => pc'[g] = "idle"
  BY <1>1 DEF Begin, Inv, TypeOK
<1>6. (running # None => running = unit) /\ unit' = unit /\ was'[h] = running
  BY <1>2 DEF Begin, Inv, TypeOK, WorldInv, world
<1>7. CASE /\ \E r \in Releases : goal' = [goal EXCEPT ![h] = r]
           /\ mode' = [mode EXCEPT ![h] = "deploy"]
           /\ pc' = [pc EXCEPT ![h] = "reserve"]
  <2>1. pc'[h] = "reserve" /\ mode'[h] = "deploy" /\ goal'[h] \in Releases /\ lock' = h
    BY <1>7 DEF Begin, Inv, TypeOK
  <2>2. Owned(h)' /\ Checked(h)'
    BY <1>6, <2>1 DEF Owned, Checked
  <2>3. QED
    BY <1>4, <1>5, <2>2 DEF Inv, HelperInv
<1>8. CASE /\ mode' = [mode EXCEPT ![h] = "rollback"]
           /\ pc' = [pc EXCEPT ![h] = "config1"]
  <2>1. pc'[h] = "config1" /\ mode'[h] = "rollback" /\ lock' = h
    BY <1>8 DEF Begin, Inv, TypeOK
  <2>2. Owned(h)' /\ Checked(h)'
    BY <1>6, <2>1 DEF Owned, Checked
  <2>3. QED
    BY <1>4, <1>5, <2>2 DEF Inv, HelperInv
<1>9. QED
  BY <1>7, <1>8 DEF Begin

\* The steps before the stop: they change the new release's files, and fit.
LEMMA StagingInv ==
  ASSUME Inv, NEW h \in Helpers, Reserve(h) \/ Install(h) \/ Preflight(h) \/ Backup(h)
  PROVE  Inv'
<1>0. TypeOK /\ WorldInv /\ HelperInv /\ ServesOnlyFit /\ pc[h] # "idle" /\ Owned(h) /\ Checked(h)
  BY DEF Inv, HelperInv, Reserve, Install, Preflight, Backup
<1>1. mode[h] = "deploy" /\ goal[h] \in Releases
  BY <1>0 DEF Owned, Reserve, Install, Preflight, Backup
<1>2. UNCHANGED <<dropin, unit, running, config, work, last, counters>> /\ fit \subseteq fit'
  BY DEF Reserve, Install, Preflight, Backup, world, disk
<1>3. ControlOK' /\ HelperInv'
  <2>1. CASE Fail(h)
    BY <1>0, <1>2, <2>1, FailHelper
  <2>2. CASE Pass(h)
    <3>1. pc[h] \in {"reserve", "install", "preflight", "backup"}
      BY DEF Reserve, Install, Preflight, Backup
    <3>2. /\ mode'[h] = mode[h] /\ goal'[h] = goal[h] /\ was'[h] = was[h]
          /\ pc[h] = "reserve" => pc'[h] = "install"
          /\ pc[h] = "install" => pc'[h] = "preflight"
          /\ pc[h] = "preflight" => pc'[h] = "backup"
          /\ pc[h] = "backup" => pc'[h] = "drain1"
      BY <2>2, PassNext, FollowingAt DEF Inv
    <3>3. CASE Backup(h) /\ ~Fail(h)
      <4>1. backup' = [backup EXCEPT ![goal[h]] = dropin] /\ pc[h] = "backup" /\ pc'[h] = "drain1"
        BY <3>2, <3>3 DEF Backup
      <4>2. backup'[goal'[h]] = dropin'
        BY <1>0, <1>1, <1>2, <3>2, <4>1 DEF TypeOK
      <4>3. Checked(h)'
        BY <1>0, <1>1, <1>2, <3>2, <4>1, <4>2 DEF Checked
      <4>4. QED
        BY <2>2, <3>1, <4>3, PassHelper
    <3>4. CASE Preflight(h) /\ ~Fail(h)
      <4>1. goal[h] \in fit' /\ pc'[h] = "backup"
        BY <3>2, <3>4 DEF Preflight
      <4>2. Checked(h)'
        BY <1>0, <1>1, <1>2, <3>2, <3>4, <4>1 DEF Checked, Preflight
      <4>3. QED
        BY <2>2, <3>1, <4>2, PassHelper
    <3>5. CASE (Reserve(h) \/ Install(h)) /\ ~Fail(h)
      <4>1. pc'[h] \in {"install", "preflight"} /\ pc[h] \in {"reserve", "install"}
        BY <3>2, <3>5 DEF Reserve, Install
      <4>2. Checked(h)'
        BY <1>0, <1>1, <1>2, <3>2, <4>1 DEF Checked
      <4>3. QED
        BY <2>2, <3>1, <4>2, PassHelper
    <3>6. QED
      BY <2>1, <3>3, <3>4, <3>5
  <2>3. QED
    BY <2>1, <2>2 DEF Reserve, Install, Preflight, Backup
<1>4. dir' \in [Releases -> {"none", "reserved", "complete"}] /\ backup' \in [Releases -> Installed \cup {None}]
      /\ fit' \subseteq Releases
  BY <1>0, <1>1 DEF TypeOK, Reserve, Install, Preflight, Backup, disk
<1>5. QED
  BY <1>0, <1>2, <1>3, <1>4 DEF Inv, TypeOK, ControlOK, WorldInv, ServesOnlyFit, counters

\* The gates look at the world and leave it alone.
LEMMA GateInv ==
  ASSUME Inv, NEW h \in Helpers, ConfigGate(h) \/ Drain(h)
  PROVE  Inv'
<1>0. TypeOK /\ HelperInv /\ pc[h] # "idle" /\ Owned(h) /\ Checked(h)
  BY DEF Inv, HelperInv, ConfigGate, Drain
<1>1. UNCHANGED <<disk, world, last, fit, counters>>
  BY DEF ConfigGate, Drain
<1>2. ControlOK' /\ HelperInv'
  <2>1. CASE Fail(h)
    BY <1>0, <1>1, <2>1, FailHelper DEF world
  <2>2. CASE Pass(h) /\ ~Fail(h)
    <3>1. /\ mode' = mode /\ goal' = goal /\ was' = was
          /\ pc[h] = "config1" => pc'[h] = "drain1"
          /\ pc[h] = "drain1" => pc'[h] = "stop"
          /\ pc[h] = "config2" => pc'[h] = "drain2"
          /\ pc[h] = "drain2" => pc'[h] = "write" /\ ~work
          /\ pc[h] = "resumegate" => pc'[h] = "resume"
          /\ pc[h] \in {"config1", "config2", "resumegate", "drain1", "drain2"}
      BY <1>0, <2>2, PassNext, FollowingAt DEF ConfigGate, Drain
    <3>2. pc[h] = "config1" => mode[h] # "deploy"
      BY <1>0 DEF Owned
    <3>3. Checked(h)'
      BY <1>0, <1>1, <3>1, <3>2 DEF Checked, Target, world, disk
    <3>4. QED
      BY <2>2, <3>1, <3>3, PassHelper
  <2>3. QED
    BY <2>1, <2>2 DEF ConfigGate, Drain
<1>3. QED
  BY <1>1, <1>2 DEF Inv, TypeOK, ControlOK, WorldInv, ServesOnlyFit, world, disk, counters

\* Stop and resume: the loaded unit runs, or nothing does.
LEMMA StopInv ==
  ASSUME Inv, NEW h \in Helpers, Stop(h)
  PROVE  Inv'
<1>0. TypeOK /\ HelperInv /\ WorldInv /\ pc[h] = "stop" /\ Owned(h) /\ Checked(h)
  BY DEF Inv, HelperInv, Stop
<1>1. UNCHANGED <<disk, unit, config, work, fit, counters>> /\ running' \in {running, None} /\ last' = last
  BY <1>0 DEF Stop, Serve, WorldInv
<1>2. ControlOK' /\ HelperInv'
  <2>1. CASE Fail(h)
    BY <1>0, <2>1, FailHelper
  <2>2. CASE Pass(h) /\ running' = None
    <3>1. mode' = mode /\ goal' = goal /\ was' = was /\ pc'[h] = "config2"
      BY <1>0, <2>2, PassNext, FollowingAt
    <3>2. Checked(h)'
      BY <1>0, <1>1, <2>2, <3>1 DEF Checked, disk
    <3>3. QED
      BY <1>0, <2>2, <3>2, PassHelper
  <2>3. QED
    BY <2>1, <2>2 DEF Stop, Serve
<1>3. QED
  BY <1>0, <1>1, <1>2 DEF Inv, TypeOK, ControlOK, WorldInv, ServesOnlyFit, disk, counters

LEMMA ResumeInv ==
  ASSUME Inv, NEW h \in Helpers, Resume(h)
  PROVE  Inv'
<1>0. TypeOK /\ HelperInv /\ WorldInv /\ pc[h] = "resume" /\ Owned(h) /\ Checked(h)
  BY DEF Inv, HelperInv, Resume
<1>1. /\ UNCHANGED <<disk, unit, config, work, fit, counters>>
      /\ running' \in {None, unit}
      /\ last' = IF running' = None THEN last ELSE running'
  BY <1>0 DEF Resume, Serve, Checked
<1>2. ControlOK' /\ HelperInv'
  BY <1>0, EndControl DEF Resume
<1>3. QED
  BY <1>0, <1>1, <1>2 DEF Inv, TypeOK, ControlOK, WorldInv, ServesOnlyFit, disk, counters

\* The three steps of an activation.
LEMMA WriteInv ==
  ASSUME Inv, NEW h \in Helpers, Write(h)
  PROVE  Inv'
<1>0. TypeOK /\ HelperInv /\ WorldInv /\ pc[h] = "write" /\ Owned(h) /\ Checked(h)
  BY DEF Inv, HelperInv, Write
<1>1. UNCHANGED <<dir, backup, world, last, fit, counters>> /\ dropin' \in {dropin, Target(h)}
  BY DEF Write
<1>2. ControlOK' /\ HelperInv'
  <2>1. CASE Fail(h)
    BY <1>0, <2>1, FailHelper
  <2>2. CASE Pass(h) /\ dropin' = Target(h)
    <3>1. mode' = mode /\ goal' = goal /\ was' = was /\ pc'[h] = "reload"
      BY <1>0, <2>2, PassNext, FollowingAt
    <3>2. Checked(h)'
      BY <1>0, <1>1, <2>2, <3>1 DEF Checked, Target, world
    <3>3. QED
      BY <1>0, <2>2, <3>2, PassHelper
  <2>3. QED
    BY <2>1, <2>2 DEF Write
<1>3. QED
  BY <1>0, <1>1, <1>2, TargetFit
     DEF Inv, TypeOK, ControlOK, WorldInv, ServesOnlyFit, world, counters

LEMMA ReloadInv ==
  ASSUME Inv, NEW h \in Helpers, Reload(h)
  PROVE  Inv'
<1>0. TypeOK /\ HelperInv /\ WorldInv /\ pc[h] = "reload" /\ Owned(h) /\ Checked(h)
  BY DEF Inv, HelperInv, Reload
<1>1. UNCHANGED <<disk, running, config, work, last, fit, counters>> /\ unit' \in {unit, dropin}
  BY DEF Reload
<1>2. ControlOK' /\ HelperInv'
  <2>1. CASE Fail(h)
    BY <1>0, <2>1, FailHelper
  <2>2. CASE Pass(h) /\ unit' = dropin
    <3>1. mode' = mode /\ goal' = goal /\ was' = was /\ pc'[h] = "restart"
      BY <1>0, <2>2, PassNext, FollowingAt
    <3>2. Checked(h)'
      BY <1>0, <1>1, <2>2, <3>1 DEF Checked, Target, disk
    <3>3. QED
      BY <1>0, <2>2, <3>2, PassHelper
  <2>3. QED
    BY <2>1, <2>2 DEF Reload
<1>3. running = None /\ ~work
  BY <1>0 DEF Checked
<1>4. QED
  BY <1>0, <1>1, <1>2, <1>3 DEF Inv, TypeOK, ControlOK, WorldInv, ServesOnlyFit, disk, counters

LEMMA RestartInv ==
  ASSUME Inv, NEW h \in Helpers, Restart(h)
  PROVE  Inv'
<1>0. TypeOK /\ HelperInv /\ WorldInv /\ pc[h] = "restart" /\ Owned(h) /\ Checked(h)
  BY DEF Inv, HelperInv, Restart
<1>1. running = None /\ ~work
  BY <1>0 DEF Checked
<1>2. /\ UNCHANGED <<disk, unit, config, work, fit, counters>>
      /\ running' \in {None, unit}
      /\ last' = IF running' = None THEN last ELSE running'
  BY <1>1 DEF Restart, Serve
<1>3. ControlOK' /\ HelperInv'
  <2>1. CASE Fail(h)
    BY <1>0, <2>1, FailHelper
  <2>2. CASE Pass(h)
    <3>1. mode' = mode /\ goal' = goal /\ was' = was /\ pc'[h] = "health"
      BY <1>0, <2>2, PassNext, FollowingAt
    <3>2. Checked(h)'
      BY <1>0, <1>2, <3>1 DEF Checked, Target, disk
    <3>3. QED
      BY <1>0, <2>2, <3>2, PassHelper
  <2>3. QED
    BY <2>1, <2>2 DEF Restart
<1>4. QED
  BY <1>0, <1>1, <1>2, <1>3 DEF Inv, TypeOK, ControlOK, WorldInv, ServesOnlyFit, disk, counters

LEMMA HealthInv ==
  ASSUME Inv, NEW h \in Helpers, Health(h)
  PROVE  Inv'
<1>0. TypeOK /\ HelperInv /\ pc[h] = "health"
  BY DEF Inv, Health
<1>1. UNCHANGED <<disk, world, last, fit, counters>>
  BY DEF Health
<1>2. ControlOK' /\ HelperInv'
  <2>1. (mode[h] = "rollback") \in BOOLEAN
    OBVIOUS
  <2>2. CASE Fail(h)
    BY <1>0, <2>2, FailHelper
  <2>3. CASE End(h, TRUE, mode[h] = "rollback")
    BY <1>0, <2>1, <2>3, EndControl
  <2>4. CASE End(h, FALSE, TRUE)
    BY <1>0, <2>4, EndControl
  <2>5. QED
    BY <2>2, <2>3, <2>4 DEF Health
<1>3. QED
  BY <1>1, <1>2 DEF Inv, TypeOK, ControlOK, WorldInv, ServesOnlyFit, world, disk, counters

\* The world: traffic meets a running service only, and a crash frees the lock.
LEMMA WorldStepInv ==
  ASSUME Inv, Traffic \/ Drift \/ \E h \in Helpers : Crash(h)
  PROVE  Inv'
<1>0. TypeOK /\ HelperInv /\ WorldInv
  BY DEF Inv
<1>1. CASE Traffic
  <2>1. UNCHANGED <<disk, unit, running, config, local, last, fit, counters>> /\ running # None
    BY <1>1 DEF Traffic
  <2>2. ASSUME NEW g \in Helpers, pc[g] # "idle"
        PROVE  (Owned(g) /\ Checked(g))'
    <3>1. Owned(g) /\ Checked(g) /\ pc[g] \notin {"write", "reload", "restart"}
      BY <1>0, <2>1, <2>2 DEF HelperInv, Checked
    <3>2. QED
      BY <2>1, <3>1 DEF Owned, Checked, Target, local, disk
  <2>3. work' \in BOOLEAN
    BY <1>1 DEF Traffic
  <2>4. QED
    BY <1>0, <2>1, <2>2, <2>3
       DEF Inv, TypeOK, WorldInv, HelperInv, ServesOnlyFit, local, disk, counters
<1>2. CASE Drift
  <2>1. UNCHANGED <<disk, unit, running, work, local, last, fit, crashes>> /\ config' \in BOOLEAN
    BY <1>2 DEF Drift
  <2>2. HelperInv'
    BY <1>0, <2>1 DEF HelperInv, Owned, Checked, Target, local, disk
  <2>3. drifts' \in 0..MaxDrifts
    BY <1>0, <1>2, DeployBoundsAssumption DEF Drift, TypeOK
  <2>4. QED
    BY <1>0, <2>1, <2>2, <2>3 DEF Inv, TypeOK, WorldInv, ServesOnlyFit, local, disk
<1>3. ASSUME NEW h \in Helpers, Crash(h)
      PROVE  Inv'
  <2>1. UNCHANGED <<disk, world, receipt, last, fit, drifts>>
    BY <1>3 DEF Crash
  <2>2. ControlOK' /\ HelperInv'
    BY <1>0, <1>3, <2>1, ExitControl DEF Crash, HelperInv, TypeOK
  <2>3. crashes' \in 0..MaxCrashes
    BY <1>0, <1>3, DeployBoundsAssumption DEF Crash, TypeOK
  <2>4. QED
    BY <1>0, <2>1, <2>2, <2>3 DEF Inv, TypeOK, ControlOK, WorldInv, ServesOnlyFit, world, disk
<1>4. QED
  BY <1>1, <1>2, <1>3

LEMMA NextInv ==
  ASSUME Inv, [Next]_vars
  PROVE  Inv'
<1>1. CASE UNCHANGED vars
  BY <1>1 DEF Inv, TypeOK, WorldInv, HelperInv, Owned, Checked, Target, ServesOnlyFit,
              vars, disk, world, local, counters
<1>2. ASSUME NEW h \in Helpers, Command(h)
      PROVE  Inv'
  BY <1>2, BeginInv, StagingInv, GateInv, StopInv, ResumeInv, WriteInv, ReloadInv, RestartInv, HealthInv
     DEF Command
<1>3. QED
  BY <1>1, <1>2, WorldStepInv DEF Next

-----------------------------------------------------------------------------
(* Which step changes what. *)

\* Only systemctl stop, start and restart change what runs.
LEMMA OnlyThreeServe ==
  ASSUME [Next]_vars
  PROVE  UNCHANGED running \/ \E h \in Helpers : Stop(h) \/ Resume(h) \/ Restart(h)
<1>1. CASE UNCHANGED vars
  BY <1>1 DEF vars, world
<1>2. CASE \E h \in Helpers : Command(h)
  BY <1>2, Zenon DEF Command, Begin, Reserve, Install, Preflight, Backup, ConfigGate, Drain, Write, Reload, Health, world
<1>3. CASE Traffic \/ Drift \/ \E h \in Helpers : Crash(h)
  BY <1>3 DEF Traffic, Drift, Crash, world
<1>4. QED
  BY <1>1, <1>2, <1>3 DEF Next

\* Only the first step of an activation replaces the drop-in.
LEMMA OnlyWriteReplaces ==
  ASSUME [Next]_vars
  PROVE  UNCHANGED dropin \/ \E h \in Helpers : Write(h)
<1>1. CASE UNCHANGED vars
  BY <1>1 DEF vars, disk
<1>2. CASE \E h \in Helpers : Command(h)
  BY <1>2, Zenon DEF Command, Begin, Reserve, Install, Preflight, Backup, ConfigGate, Drain, Stop, Resume,
              Reload, Restart, Health, disk
<1>3. CASE Traffic \/ Drift \/ \E h \in Helpers : Crash(h)
  BY <1>3 DEF Traffic, Drift, Crash, disk
<1>4. QED
  BY <1>1, <1>2, <1>3 DEF Next

-----------------------------------------------------------------------------
(* The theorems. *)

\* The inductive invariant holds.
THEOREM Invariance == Spec => []Inv
<1>1. QED
  BY InitInv, NextInv, PTL DEF Spec

\* Every variable has its type, and an automatic rollback never resumes.
THEOREM TypeCorrect == Spec => []TypeOK
<1>1. Inv => TypeOK
  BY DEF Inv
<1>2. QED
  BY <1>1, Invariance, PTL

\* Whatever fails, only the baseline and releases that passed their preflight
\* are named on disk, loaded and run (quant_ai_deploy.py, execute).
THEOREM OnlyFitReleasesServe == Spec => []ServesOnlyFit
<1>1. Inv => ServesOnlyFit
  BY DEF Inv
<1>2. QED
  BY <1>1, Invariance, PTL

\* No release is started on unfinished work of another one, although nothing
\* but the stop keeps clients away (the second drain of execute).
THEOREM SwitchesAreDrained == Spec => SwitchDrained
<1>1. ASSUME Inv, [Next]_vars, running' \notin {None, last}
      PROVE  ~work
  <2>1. ASSUME UNCHANGED running
        PROVE  FALSE
    BY <1>1, <2>1 DEF Inv, WorldInv
  <2>2. ASSUME NEW h \in Helpers, Stop(h)
        PROVE  FALSE
    BY <1>1, <2>2 DEF Inv, WorldInv, Stop, Serve
  <2>3. ASSUME NEW h \in Helpers, Resume(h)
        PROVE  ~work
    BY <1>1, <2>3 DEF Inv, WorldInv, HelperInv, Checked, Resume, Serve
  <2>4. ASSUME NEW h \in Helpers, Restart(h)
        PROVE  ~work
    BY <1>1, <2>4 DEF Inv, HelperInv, Checked, Restart
  <2>5. QED
    BY <1>1, <2>1, <2>2, <2>3, <2>4, OnlyThreeServe
<1>2. QED
  BY <1>1, Invariance, PTL DEF Spec, SwitchDrained

\* A deploy replaces the drop-in only after the one it replaces is saved
\* (Switcher.backup), whatever other connections do.
THEOREM OriginalsArePreserved == Spec => OriginalPreserved
<1>1. ASSUME Inv, [Next]_vars, NEW r \in Releases, dropin' = r, dropin # r
      PROVE  backup[r] = dropin
  <2>1. PICK h \in Helpers : Write(h)
    BY <1>1, OnlyWriteReplaces
  <2>2. Target(h) = r
    BY <1>1, <2>1 DEF Write
  <2>3. mode[h] = "deploy" /\ goal[h] = r
    BY <2>2, BaselineAssumption DEF Target
  <2>4. QED
    BY <1>1, <2>1, <2>3 DEF Inv, HelperInv, Checked, Write
<1>2. Inv /\ [Next]_vars =>
     \A r \in Releases : dropin' = r /\ dropin # r => backup[r] = dropin
  BY <1>1
<1>3. QED
  BY <1>2, Invariance, PTL DEF Spec, OriginalPreserved

\* A command that stopped a release and resumes brings back that one.
THEOREM ResumesAreFaithful == Spec => ResumesWhatRan
<1>1. ASSUME Inv, [Next]_vars, NEW h \in Helpers, pc[h] = "resume", was[h] # None
      PROVE  running' \in {None, was[h]}
  <2>1. running = None /\ unit = was[h]
    BY <1>1 DEF Inv, TypeOK, HelperInv, Checked
  <2>2. \A g \in Helpers : ~Stop(g) /\ ~Restart(g)
    BY <1>1, OneAtWork DEF Inv, Stop, Restart
  <2>3. ASSUME NEW g \in Helpers, Resume(g)
        PROVE  running' \in {None, was[h]}
    BY <2>1, <2>3 DEF Resume, Serve
  <2>4. QED
    BY <1>1, <2>1, <2>2, <2>3, OnlyThreeServe
<1>2. Inv /\ [Next]_vars =>
     \A h \in Helpers : pc[h] = "resume" /\ was[h] # None => running' \in {None, was[h]}
  BY <1>1
<1>3. QED
  BY <1>2, Invariance, PTL DEF Spec, ResumesWhatRan

\* A command ends without a claim, or at its health check.
LEMMA EndOfCommand ==
  ASSUME Inv, NEW h \in Helpers, Command(h), pc[h] # "idle", pc'[h] = "idle"
  PROVE  End(h, FALSE, FALSE) \/ Health(h)
<1>1. ASSUME Pass(h), pc[h] \notin {"resume", "health"}
      PROVE  FALSE
  BY <1>1, PassNext, FollowingAt DEF Inv, TypeOK, Labels
<1>2. ASSUME Fail(h)
      PROVE  End(h, FALSE, FALSE)
  BY <1>2, FailGoes, Zenon DEF Inv, TypeOK, Goes
<1>3. QED
  BY <1>1, <1>2 DEF Command, Begin, Reserve, Install, Preflight, Backup, ConfigGate, Drain, Stop, Resume,
                    Write, Reload, Restart

\* A receipt that says ok, or rolled back, is true of what runs and of what a
\* later start would run (HealthProbe.check and the receipt of execute).
THEOREM ReceiptsAreTrue == Spec => ReceiptsTrue
<1> DEFINE Claims(h) ==
      /\ receipt'.ok => running = Target(h)
      /\ receipt'.ok \/ receipt'.rolled_back => dropin = Target(h) /\ unit = Target(h)
      /\ receipt'.rolled_back => Target(h) = Baseline
<1>1. ASSUME Inv, [Next]_vars, NEW h \in Helpers, pc[h] # "idle", pc'[h] = "idle", crashes' = crashes
      PROVE  Claims(h)
  <2>1. ~UNCHANGED pc
    BY <1>1
  <2>2. PICK g \in Helpers : Command(g)
    <3>1. \A g \in Helpers : ~Crash(g)
      BY <1>1 DEF Inv, TypeOK, Crash
    <3>2. QED
      BY <1>1, <2>1, <3>1 DEF Next, Traffic, Drift, vars, local
  <2>3. g = h
    <3>1. lock = h /\ h # None
      BY <1>1, BaselineAssumption DEF Inv, HelperInv, Owned
    <3>2. ~Begin(g)
      BY <3>1 DEF Begin, LockFree
    <3>3. pc[g] # "idle"
      BY <2>2, <3>2 DEF Command, Reserve, Install, Preflight, Backup, ConfigGate, Drain, Stop, Resume,
                        Write, Reload, Restart, Health
    <3>4. QED
      BY <1>1, <3>3, OneAtWork DEF Inv
  <2>4. CASE End(h, FALSE, FALSE)
    BY <2>4 DEF End
  <2>5. CASE Health(h)
    <3>1. dropin = Target(h) /\ unit = Target(h) /\ (running # None => running = unit)
      BY <1>1, <2>5 DEF Health, Inv, WorldInv, HelperInv, Checked
    <3>2. CASE mode[h] # "auto" /\ Healthy(h) /\ End(h, TRUE, mode[h] = "rollback")
      BY <3>1, <3>2 DEF End, Healthy, Target
    <3>3. CASE mode[h] # "deploy" /\ End(h, FALSE, TRUE)
      BY <3>1, <3>3 DEF End, Target
    <3>4. CASE Fail(h)
      <4>1. End(h, FALSE, FALSE)
        BY <1>1, <3>4, FailGoes, Zenon DEF Inv, TypeOK, Goes
      <4>2. QED
        BY <4>1 DEF End
    <3>5. QED
      BY <2>5, <3>2, <3>3, <3>4 DEF Health
  <2>6. QED
    BY <1>1, <2>2, <2>3, <2>4, <2>5, EndOfCommand
<1>2. Inv /\ [Next]_vars =>
     \A h \in Helpers :
       pc[h] # "idle" /\ pc'[h] = "idle" /\ crashes' = crashes =>
         /\ receipt'.ok => running = Target(h)
         /\ receipt'.ok \/ receipt'.rolled_back => dropin = Target(h) /\ unit = Target(h)
         /\ receipt'.rolled_back => Target(h) = Baseline
  BY <1>1
<1>3. QED
  BY <1>2, Invariance, PTL DEF Spec, ReceiptsTrue
=============================================================================
