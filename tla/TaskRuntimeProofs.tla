-------------------------- MODULE TaskRuntimeProofs --------------------------
(***************************************************************************)
(* Theorems about TaskRuntime, for every set of tasks, projects, keys,     *)
(* providers, attempts and dispatching processes and for every bound.      *)
(***************************************************************************)
EXTENDS TaskRuntime, FiniteSetTheorems, SequenceTheorems, TLAPS

\* What the local state of a dispatcher holds at each of its steps.
LocalOK ==
  \A d \in Dispatchers :
    /\ pc[d] \in {"call", "readback", "store", "mark", "send", "poll", "finish"} => cur[d] \in Tasks
    /\ pc[d] \in {"readback", "store"} => reply[d] \in SubmitReply
    /\ pc[d] = "finish" => reply[d] \in TERMINAL

TypeInv == TypeOK /\ LocalOK

-----------------------------------------------------------------------------
(* Type correctness. *)

LEMMA AppendType ==
  ASSUME NEW S, NEW s \in Seq(S), NEW e \in S
  PROVE  Append(s, e) \in Seq(S)
BY AppendProperties

\* _state keeps the types of the two tables it writes.
LEMMA SetStatusType ==
  ASSUME TypeOK, NEW t, NEW s \in Status, SetStatus(t, s)
  PROVE  /\ status' \in [Tasks -> Status]
         /\ events' \in [Tasks -> Seq(Status \cup {"message"})]
<1>1. status' \in [Tasks -> Status]
  BY DEF TypeOK, SetStatus
<1>2. CASE t \in Tasks
  <2>1. Append(events[t], s) \in Seq(Status \cup {"message"})
    BY <1>2, AppendType DEF TypeOK
  <2>2. QED
    BY <1>1, <1>2, <2>1 DEF TypeOK, SetStatus
<1>3. CASE t \notin Tasks
  <2>1. events' = events
    BY <1>3 DEF TypeOK, SetStatus
  <2>2. QED
    BY <1>1, <2>1 DEF TypeOK
<1>4. QED
  BY <1>2, <1>3

LEMMA InitType == Init => TypeInv
BY BoundsAssumption DEF Init, TypeInv, TypeOK, LocalOK, Status

LEMMA ClientsType ==
  ASSUME TypeInv, Clients
  PROVE  TypeInv'
<1> USE DEF world, local, history
<1>0. TypeOK
  BY DEF TypeInv
<1>1. ASSUME NEW t \in Tasks, NEW r \in Request, Submit(t, r)
      PROVE  TypeInv'
  <2>1. {u \in Tasks : Exists(u)} \subseteq Tasks
    OBVIOUS
  <2>2. Cardinality({u \in Tasks : Exists(u)}) + 1 \in Nat
    BY <2>1, TasksAssumption, FS_Subset, FS_CardinalityType
  <2>3. created' \in [Tasks -> Nat]
    BY <1>0, <1>1, <2>2 DEF Submit, TypeOK
  <2>4. status' \in [Tasks -> Status] /\ events' \in [Tasks -> Seq(Status \cup {"message"})]
    BY <1>0, <1>1, SetStatusType DEF Submit, Status
  <2>5. QED
    BY <1>1, <2>3, <2>4 DEF Submit, TypeInv, TypeOK, LocalOK
<1>2. ASSUME NEW t \in Tasks, NEW a \in Attempts, Claim(t, a)
      PROVE  TypeInv'
  <2>1. status' \in [Tasks -> Status] /\ events' \in [Tasks -> Seq(Status \cup {"message"})]
    BY <1>0, <1>2, SetStatusType DEF Claim, Status
  <2>2. QED
    BY <1>2, <2>1 DEF Claim, TypeInv, TypeOK, LocalOK
<1>3. ASSUME NEW t \in Tasks, NEW a \in Attempts, NEW s \in Verdicts, ReportResult(t, a, s)
      PROVE  TypeInv'
  <2>1. status' \in [Tasks -> Status] /\ events' \in [Tasks -> Seq(Status \cup {"message"})]
    BY <1>0, <1>3, VerdictsAssumption, SetStatusType DEF ReportResult, Status
  <2>2. QED
    BY <1>3, <2>1, VerdictsAssumption DEF ReportResult, TypeInv, TypeOK, LocalOK, Report
<1>4. ASSUME NEW t \in Tasks, Message(t)
      PROVE  TypeInv'
  <2>1. Append(events[t], "message") \in Seq(Status \cup {"message"})
    BY <1>0, AppendType DEF TypeOK
  <2>2. revision' \in [Tasks -> 1..MaxRevision]
    BY <1>0, <1>4, BoundsAssumption DEF Message, TypeOK
  <2>3. QED
    BY <1>4, <2>1, <2>2 DEF Message, TypeInv, TypeOK, LocalOK
<1>5. ASSUME NEW t \in Tasks, Cancel(t)
      PROVE  TypeInv'
  <2>1. status' \in [Tasks -> Status] /\ events' \in [Tasks -> Seq(Status \cup {"message"})]
    BY <1>0, <1>5, SetStatusType DEF Cancel, CancelledForm, Status, TERMINAL
  <2>2. QED
    BY <1>5, <2>1 DEF Cancel, TypeInv, TypeOK, LocalOK
<1>6. ASSUME NEW t \in Tasks, Expire(t)
      PROVE  TypeInv'
  BY <1>6 DEF Expire, TypeInv, TypeOK, LocalOK, db
<1>7. QED
  BY <1>1, <1>2, <1>3, <1>4, <1>5, <1>6 DEF Clients

\* The rows a dispatcher picks and the outcomes it stores are well typed.
LEMMA OutcomeType ==
  ASSUME NEW d \in Dispatchers
  PROVE  Outcome(d) \in Status
BY DEF Outcome, Status, TERMINAL

LEMMA DispatchType ==
  ASSUME TypeInv, NEW d \in Dispatchers, Dispatch(d)
  PROVE  TypeInv'
<1> USE DEF world, local, history, Goto
<1>0. TypeOK /\ LocalOK
  BY DEF TypeInv
<1>1. ASSUME NEW r \in rows[d]
      PROVE  r.task \in Tasks
  BY <1>0, <1>1 DEF TypeOK
<1>2. CASE TickBegin(d)
  <2>1. TypeOK'
    BY <1>0, <1>2 DEF TickBegin, TypeOK, LocalOK, db
  <2>2. LocalOK'
    BY <1>0, <1>2 DEF TickBegin, TypeOK, LocalOK, db
  <2>3. QED
    BY <2>1, <2>2 DEF TypeInv
<1>3. CASE Classify(d)
  <2>1. status' \in [Tasks -> Status]
    BY <1>0, <1>3 DEF Classify, TypeOK, Status
  <2>2. events' \in [Tasks -> Seq(Status \cup {"message"})]
    <3>1. ASSUME NEW t \in Tasks
          PROVE  Append(events[t], "outcome_unknown") \in Seq(Status \cup {"message"})
      BY <1>0, <3>1, AppendType DEF TypeOK, Status
    <3>2. QED
      BY <1>0, <1>3, <3>1 DEF Classify, TypeOK
  <2>3. rows' \in [Dispatchers -> SUBSET [task : Tasks, sent : BOOLEAN]]
    BY <1>0, <1>3 DEF Classify, TypeOK
  <2>4. QED
    <3>1. TypeOK'
      BY <1>0, <1>3, <2>1, <2>2, <2>3 DEF Classify, TypeOK, LocalOK
    <3>2. LocalOK'
      BY <1>0, <1>3, <2>1, <2>2, <2>3 DEF Classify, TypeOK, LocalOK
    <3>3. QED
      BY <3>1, <3>2 DEF TypeInv
<1>4. CASE CallSubmit(d)
  <2>1. PICK outcome \in SubmitReply : reply' = [reply EXCEPT ![d] = outcome]
    BY <1>4 DEF CallSubmit
  <2>2. /\ reply' \in [Dispatchers -> {"none"} \cup SubmitReply \cup TERMINAL]
        /\ reply'[d] = outcome /\ \A e \in Dispatchers \ {d} : reply'[e] = reply[e]
    BY <1>0, <2>1 DEF TypeOK
  <2>3. cur[d] \in Tasks /\ calls' \in [Tasks -> Nat]
    BY <1>0, <1>4 DEF CallSubmit, TypeOK, LocalOK
  <2>4. TypeOK'
    BY <1>0, <1>4, <2>2, <2>3 DEF CallSubmit, TypeOK, db
  <2>5. LocalOK'
    BY <1>0, <1>4, <2>2, <2>3 DEF CallSubmit, TypeOK, LocalOK
  <2>6. QED
    BY <2>4, <2>5 DEF TypeInv
<1>5. CASE ReadBack(d)
  <2>1. cur[d] \in Tasks /\ status[cur[d]] \in Status
    BY <1>0, <1>5 DEF ReadBack, TypeOK, LocalOK
  <2>2. CASE pc' = [pc EXCEPT ![d] = "store"] /\ UNCHANGED <<cur, reply>>
    <3>1. TypeOK'
      BY <1>0, <1>5, <2>1, <2>2 DEF ReadBack, TypeOK, db
    <3>2. LocalOK'
      BY <1>0, <1>5, <2>2 DEF ReadBack, TypeOK, LocalOK
    <3>3. QED
      BY <3>1, <3>2 DEF TypeInv
  <2>3. CASE /\ pc' = [pc EXCEPT ![d] = "next"] /\ cur' = [cur EXCEPT ![d] = None]
             /\ reply' = [reply EXCEPT ![d] = "none"]
    <3>1. TypeOK'
      BY <1>0, <1>5, <2>1, <2>3 DEF ReadBack, TypeOK, db
    <3>2. LocalOK'
      BY <1>0, <1>5, <2>3 DEF ReadBack, TypeOK, LocalOK
    <3>3. QED
      BY <3>1, <3>2 DEF TypeInv
  <2>4. QED
    BY <1>5, <2>2, <2>3 DEF ReadBack
<1>6. CASE StoreSubmit(d)
  <2>1. /\ status' \in [Tasks -> Status]
        /\ events' \in [Tasks -> Seq(Status \cup {"message"})]
        /\ clobbered' \subseteq Tasks
    <3>1. CASE seen[d] \in Unsettled
      <4>1. cur[d] \in Tasks /\ SetStatus(cur[d], Outcome(d))
        BY <1>0, <1>6, <3>1 DEF StoreSubmit, LocalOK
      <4>2. clobbered' \subseteq Tasks
        BY <1>0, <1>6, <3>1, <4>1 DEF StoreSubmit, TypeOK
      <4>3. QED
        BY <1>0, <4>1, <4>2, OutcomeType, SetStatusType
    <3>2. CASE seen[d] \notin Unsettled
      BY <1>0, <1>6, <3>2 DEF StoreSubmit, TypeOK
    <3>3. QED
      BY <3>1, <3>2
  <2>2. handle' \in [Tasks -> BOOLEAN]
    BY <1>0, <1>6 DEF StoreSubmit, TypeOK
  <2>3. QED
    <3>1. TypeOK'
      BY <1>0, <1>6, <2>1, <2>2 DEF StoreSubmit, TypeOK, LocalOK, Status
    <3>2. LocalOK'
      BY <1>0, <1>6, <2>1, <2>2 DEF StoreSubmit, TypeOK, LocalOK, Status
    <3>3. QED
      BY <3>1, <3>2 DEF TypeInv
<1>7. CASE MarkCancel(d)
  BY <1>0, <1>7 DEF MarkCancel, RecordCancel, TypeInv, TypeOK, LocalOK
<1>8. CASE SendCancel(d)
  <2>1. cancels' \in [Tasks -> Nat]
    BY <1>0, <1>8 DEF SendCancel, TypeOK, LocalOK
  <2>2. CASE pc' = [pc EXCEPT ![d] = "next"] /\ cur' = [cur EXCEPT ![d] = None]
    BY <1>0, <1>8, <2>1, <2>2, Zenon DEF SendCancel, TypeInv, TypeOK, LocalOK, db
  <2>3. CASE pc' = [pc EXCEPT ![d] = "poll"] /\ UNCHANGED cur
    BY <1>0, <1>8, <2>1, <2>3 DEF SendCancel, TypeInv, TypeOK, LocalOK, db
  <2>4. QED
    BY <1>8, <2>2, <2>3 DEF SendCancel
<1>9. CASE Poll(d)
  <2>1. TypeOK'
    BY <1>0, <1>9, VerdictsAssumption, Zenon DEF Poll, TypeOK, LocalOK, db
  <2>2. LocalOK'
    BY <1>0, <1>9, VerdictsAssumption DEF Poll, TypeOK, LocalOK, db
  <2>3. QED
    BY <2>1, <2>2 DEF TypeInv
<1>10. CASE Finish(d)
  <2>1. reply[d] \in Status
    BY <1>0, <1>10 DEF Finish, LocalOK, Status
  <2>2. status' \in [Tasks -> Status] /\ events' \in [Tasks -> Seq(Status \cup {"message"})]
    BY <1>0, <1>10, <2>1, SetStatusType DEF Finish
  <2>3. QED
    <3>1. TypeOK'
      BY <1>0, <1>10, <2>2 DEF Finish, TypeOK, LocalOK
    <3>2. LocalOK'
      BY <1>0, <1>10, <2>2 DEF Finish, TypeOK, LocalOK
    <3>3. QED
      BY <3>1, <3>2 DEF TypeInv
<1>11. CASE TickEnd(d)
  BY <1>0, <1>11 DEF TickEnd, TypeInv, TypeOK, LocalOK, db
<1>12. ASSUME NEW r \in rows[d], SkipRow(d, r)
       PROVE  TypeInv'
  BY <1>0, <1>12 DEF SkipRow, Take, TypeInv, TypeOK, LocalOK, db
<1>13. ASSUME NEW r \in rows[d], RefuseQueued(d, r)
       PROVE  TypeInv'
  <2>1. status' \in [Tasks -> Status] /\ events' \in [Tasks -> Seq(Status \cup {"message"})]
    BY <1>0, <1>13, SetStatusType DEF RefuseQueued, Status, TERMINAL
  <2>2. QED
    <3>1. TypeOK'
      BY <1>0, <1>13, <2>1 DEF RefuseQueued, Take, TypeOK, LocalOK
    <3>2. LocalOK'
      BY <1>0, <1>13, <2>1 DEF RefuseQueued, Take, TypeOK, LocalOK
    <3>3. QED
      BY <3>1, <3>2 DEF TypeInv
<1>14. ASSUME NEW r \in rows[d], BeginSubmit(d, r)
       PROVE  TypeInv'
  <2>1. status' \in [Tasks -> Status] /\ events' \in [Tasks -> Seq(Status \cup {"message"})]
    BY <1>0, <1>14, SetStatusType DEF BeginSubmit, Status
  <2>2. QED
    <3>1. TypeOK'
      BY <1>0, <1>14, <1>1, <2>1 DEF BeginSubmit, Take, TypeOK, LocalOK
    <3>2. LocalOK'
      BY <1>0, <1>14, <1>1, <2>1 DEF BeginSubmit, Take, TypeOK, LocalOK
    <3>3. QED
      BY <3>1, <3>2 DEF TypeInv
<1>15. ASSUME NEW r \in rows[d], Watch(d, r)
       PROVE  TypeInv'
  <2>1. status' \in [Tasks -> Status] /\ events' \in [Tasks -> Seq(Status \cup {"message"})]
    <3>1. CASE UNCHANGED <<status, events>>
      BY <1>0, <3>1 DEF TypeOK
    <3>2. CASE SetStatus(r.task, "cancel_requested")
      BY <1>0, <3>2, SetStatusType DEF Status
    <3>3. QED
      BY <1>15, <3>1, <3>2 DEF Watch
  <2>2. pc' \in [Dispatchers -> {"idle", "classify", "next", "call", "readback", "store",
                                 "mark", "send", "poll", "finish"}]
    BY <1>0, <1>15 DEF Watch, Take, TypeOK
  <2>3. QED
    <3>1. TypeOK'
      BY <1>0, <1>15, <1>1, <2>1, <2>2 DEF Watch, Take, TypeOK, LocalOK
    <3>2. LocalOK'
      BY <1>0, <1>15, <1>1, <2>1, <2>2 DEF Watch, Take, TypeOK, LocalOK
    <3>3. QED
      BY <3>1, <3>2 DEF TypeInv
<1>16. QED
  BY <1>2, <1>3, <1>4, <1>5, <1>6, <1>7, <1>8, <1>9, <1>10, <1>11, <1>12, <1>13, <1>14, <1>15
     DEF Dispatch

LEMMA CrashType ==
  ASSUME TypeInv, NEW d \in Dispatchers, Crash(d)
  PROVE  TypeInv'
<1>0. dropped' \subseteq Tasks
  BY DEF Crash, TypeInv, TypeOK, LocalOK
<1>1. TypeOK'
  BY <1>0, BoundsAssumption DEF Crash, Goto, TypeInv, TypeOK, Status, db, world
<1>2. pc'[d] = "idle" /\ \A e \in Dispatchers \ {d} : pc'[e] = pc[e] /\ cur'[e] = cur[e] /\ reply'[e] = reply[e]
  BY DEF Crash, Goto, TypeInv, TypeOK
<1>3. LocalOK'
  BY <1>2 DEF TypeInv, LocalOK
<1>4. QED
  BY <1>1, <1>3 DEF TypeInv

LEMMA ReconfigureType ==
  ASSUME TypeInv, Reconfigure
  PROVE  TypeInv'
<1>1. TypeOK'
  BY BoundsAssumption DEF Reconfigure, TypeInv, TypeOK, db, local
<1>2. LocalOK'
  BY DEF Reconfigure, TypeInv, LocalOK, local
<1>3. QED
  BY <1>1, <1>2 DEF TypeInv

\* TypeInv is inductive.
LEMMA TypeStep == TypeInv /\ [Next]_vars => TypeInv'
<1> SUFFICES ASSUME TypeInv, [Next]_vars PROVE TypeInv'
  OBVIOUS
<1>1. CASE Clients
  BY <1>1, ClientsType
<1>2. CASE \E d \in Dispatchers : Dispatch(d) \/ Crash(d)
  BY <1>2, DispatchType, CrashType
<1>3. CASE Reconfigure
  BY <1>3, ReconfigureType
<1>4. CASE UNCHANGED vars
  BY <1>4 DEF vars, db, world, local, history, TypeInv, TypeOK, LocalOK
<1>5. QED
  BY <1>1, <1>2, <1>3, <1>4 DEF Next

\* Every reachable state of the task store and its dispatchers is well typed.
THEOREM TypeCorrect == Spec => []TypeOK
<1>1. Spec => []TypeInv
  BY InitType, TypeStep, PTL DEF Spec
<1>2. TypeInv => TypeOK
  BY DEF TypeInv
<1>3. QED
  BY <1>1, <1>2, PTL

-----------------------------------------------------------------------------
(* The inductive invariant behind the safety theorems. *)

\* Whoever is inside a tick holds the file lock, so at most one process is.
LockInv == \A d \in Dispatchers : pc[d] # "idle" => lock = d

\* One row of the tasks table, whatever wrote it.
RowInv ==
  \A t \in Tasks :
    /\ status[t] = "absent" => attempt[t] = None /\ reportDigest[t] = None
    /\ status[t] # "absent" => request[t] \in Request
    /\ attempt[t] # None => request[t].provider \in CallbackDriven
    /\ reportDigest[t] # None => attempt[t] # None
    /\ calls[t] <= 1
    /\ status[t] \in {"absent", "queued"} => calls[t] = 0

\* The task a dispatcher is working on, against what it remembers of it.
StepOK(d) ==
  /\ pc[d] = "classify" => \A t \in found[d] : status[t] \notin {"absent", "queued"}
  /\ pc[d] \in {"call", "readback", "store"} =>
       status[cur[d]] \notin {"absent", "queued", "outcome_unknown"}
  /\ pc[d] = "call" => calls[cur[d]] = 0
  /\ pc[d] = "store" /\ reply[d] # "accepted" /\ seen[d] = "cancel_requested" =>
       status[cur[d]] = "cancel_requested" /\ attempt[cur[d]] = None
  /\ pc[d] \in {"mark", "send", "poll", "finish"} => status[cur[d]] \notin {"absent", "queued"}
  /\ pc[d] \in {"poll", "finish"} => request[cur[d]].provider \notin CallbackDriven
  /\ pc[d] \in {"mark", "send", "poll", "finish"} /\ request[cur[d]].provider \notin CallbackDriven =>
       status[cur[d]] \in {"running", "cancel_requested"}

StepInv == \A d \in Dispatchers : StepOK(d)
TableInv == RowInv /\ OneTaskPerKey /\ ReportStands /\ ClaimedStaysOpen

Inv == TypeInv /\ LockInv /\ StepInv /\ TableInv

LEMMA InitInv == Init => Inv
<1> SUFFICES ASSUME Init PROVE Inv
  OBVIOUS
<1>1. \A d \in Dispatchers : pc[d] = "idle"
  BY DEF Init
<1>2. \A t \in Tasks : status[t] = "absent" /\ attempt[t] = None /\ reportDigest[t] = None /\ calls[t] = 0
  BY DEF Init
<1>3. LockInv /\ StepInv
  BY <1>1 DEF LockInv, StepInv, StepOK
<1>4. TableInv
  BY <1>2 DEF TableInv, RowInv, OneTaskPerKey, ReportStands, ClaimedStaysOpen, Exists
<1>5. QED
  BY <1>3, <1>4, InitType DEF Inv

\* A step that leaves the row and its history alone keeps the table in order.
LEMMA TableFrame ==
  ASSUME TableInv, UNCHANGED <<request, status, attempt, revision, reportDigest, calls, clobbered>>
  PROVE  TableInv'
<1>1. RowInv'
  BY DEF TableInv, RowInv
<1>2. OneTaskPerKey'
  BY DEF TableInv, OneTaskPerKey, Exists
<1>3. ReportStands' /\ ClaimedStaysOpen'
  BY DEF TableInv, ReportStands, ClaimedStaysOpen
<1>4. QED
  BY <1>1, <1>2, <1>3 DEF TableInv

\* A report's status is terminal.
LEMMA ReportTerminal ==
  ASSUME TypeOK
  PROVE  \A t \in Tasks : reportDigest[t] # None => reportDigest[t].status \in TERMINAL
BY DEF TypeOK, Report

\* While a process works, every other one is idle and stays so.
LEMMA OneAtWork ==
  ASSUME TypeOK, LockInv, NEW d \in Dispatchers, Dispatch(d) \/ Crash(d)
  PROVE  \A e \in Dispatchers \ {d} : pc[e] = "idle" /\ pc'[e] = "idle"
<1>1. lock = None \/ pc[d] # "idle"
  BY DEF Dispatch, TickBegin, LockFree, Classify, CallSubmit, ReadBack, StoreSubmit, MarkCancel, SendCancel,
         Poll, Finish, TickEnd, SkipRow, RefuseQueued, BeginSubmit, Watch, Take, Crash
<1>2. \A e \in Dispatchers \ {d} : pc[e] = "idle"
  BY <1>1, NoneAssumption DEF LockInv
<1>3. \A e \in Dispatchers \ {d} : pc'[e] = pc[e]
  <2>1. (\E l : Goto(d, l)) \/ UNCHANGED pc
    BY DEF Dispatch, TickBegin, Classify, CallSubmit, ReadBack, StoreSubmit, MarkCancel, SendCancel,
           Poll, Finish, TickEnd, SkipRow, RefuseQueued, BeginSubmit, Watch, Crash
  <2>2. QED
    BY <2>1 DEF Goto, TypeOK
<1>4. QED
  BY <1>2, <1>3

\* The lock belongs to the process inside a tick after each of its steps.
LEMMA LockStep ==
  ASSUME TypeOK, LockInv, NEW d \in Dispatchers, Dispatch(d) \/ Crash(d)
  PROVE  LockInv'
<1>1. pc'[d] # "idle" => lock' = d
  BY DEF TypeOK, LockInv, Dispatch, TickBegin, Classify, CallSubmit, ReadBack, StoreSubmit, MarkCancel,
         SendCancel, Poll, Finish, TickEnd, SkipRow, RefuseQueued, BeginSubmit, Watch, Take, Crash, Goto, local
<1>2. QED
  BY <1>1, OneAtWork DEF LockInv

\* So a dispatcher's step has only its own local state to account for.
LEMMA StepsOfOthers ==
  ASSUME TypeOK, LockInv, NEW d \in Dispatchers, Dispatch(d) \/ Crash(d), StepOK(d)'
  PROVE  StepInv'
BY OneAtWork DEF StepInv, StepOK

-----------------------------------------------------------------------------
(* The invariant is kept by the clients and the workers. *)

\* A status change is seen at its own row only.
LEMMA StatusAt ==
  ASSUME TypeOK, NEW t \in Tasks, NEW s, SetStatus(t, s)
  PROVE  status'[t] = s /\ \A u \in Tasks \ {t} : status'[u] = status[u]
<1>1. status \in [Tasks -> Status] /\ status' = [status EXCEPT ![t] = s]
  BY DEF TypeOK, SetStatus
<1>2. QED
  BY <1>1

LEMMA ClientsTable ==
  ASSUME Inv, Clients
  PROVE  TableInv'
<1> USE DEF world, local, history
<1>0. TypeOK /\ RowInv /\ OneTaskPerKey /\ ReportStands /\ ClaimedStaysOpen
  BY DEF Inv, TypeInv, TableInv
<1>1. ASSUME NEW t \in Tasks, NEW r \in Request, Submit(t, r)
      PROVE  TableInv'
  <2>1. /\ status[t] = "absent" /\ status'[t] = "queued"
        /\ \A u \in Tasks \ {t} : status'[u] = status[u]
    BY <1>0, <1>1, StatusAt DEF Submit, Exists
  <2>2. request'[t] = r /\ \A u \in Tasks \ {t} : request'[u] = request[u]
    <3>1. request \in [Tasks -> Request \cup {None}] /\ request' = [request EXCEPT ![t] = r]
      BY <1>0, <1>1 DEF Submit, TypeOK
    <3>2. QED
      BY <3>1
  <2>3. UNCHANGED <<attempt, revision, reportDigest, calls, clobbered>>
    BY <1>1 DEF Submit
  <2>4. attempt[t] = None /\ reportDigest[t] = None /\ calls[t] = 0
    BY <1>0, <2>1 DEF RowInv
  <2>5. RowInv'
    BY <1>0, <2>1, <2>2, <2>3, <2>4 DEF RowInv
  <2>6. \A u \in Tasks \ {t} :
          Exists(u) => <<request[u].owner, request[u].key>> # <<r.owner, r.key>>
    BY <1>1 DEF Submit, KeyFree
  <2>7. OneTaskPerKey'
    <3>1. SUFFICES ASSUME NEW u \in Tasks, NEW v \in Tasks, status'[u] # "absent", status'[v] # "absent",
                          <<request'[u].owner, request'[u].key>> = <<request'[v].owner, request'[v].key>>
                   PROVE  u = v
      BY DEF OneTaskPerKey, Exists
    <3>2. CASE u # t /\ v # t
      BY <1>0, <2>1, <2>2, <3>1, <3>2 DEF OneTaskPerKey, Exists
    <3>3. CASE u = t /\ v # t
      BY <2>1, <2>2, <2>6, <3>1, <3>3 DEF Exists
    <3>4. CASE u # t /\ v = t
      BY <2>1, <2>2, <2>6, <3>1, <3>4 DEF Exists
    <3>5. QED
      BY <3>2, <3>3, <3>4
  <2>8. ReportStands' /\ ClaimedStaysOpen'
    BY <1>0, <2>1, <2>3, <2>4 DEF ReportStands, ClaimedStaysOpen
  <2>9. QED
    BY <2>5, <2>7, <2>8 DEF TableInv
<1>2. ASSUME NEW t \in Tasks, NEW a \in Attempts, Claim(t, a)
      PROVE  TableInv'
  <2>1. /\ status[t] \in {"submitting", "running", "outcome_unknown"} /\ status'[t] = "running"
        /\ \A u \in Tasks \ {t} : status'[u] = status[u]
    BY <1>0, <1>2, StatusAt DEF Claim, Claimable
  <2>2. attempt[t] = None /\ request[t].provider \in CallbackDriven
    BY <1>2 DEF Claim, Claimable, AgentTask
  <2>3. \A u \in Tasks \ {t} : attempt'[u] = attempt[u]
    <3>1. attempt \in [Tasks -> Attempts \cup {None}] /\ attempt' = [attempt EXCEPT ![t] = a]
      BY <1>0, <1>2 DEF Claim, TypeOK
    <3>2. QED
      BY <3>1
  <2>4. UNCHANGED <<request, revision, reportDigest, calls, clobbered>>
    BY <1>2 DEF Claim
  <2>5. RowInv'
    BY <1>0, <2>1, <2>2, <2>3, <2>4 DEF RowInv
  <2>6. OneTaskPerKey'
    BY <1>0, <2>1, <2>4 DEF OneTaskPerKey, Exists
  <2>7. reportDigest[t] = None
    BY <1>0, <2>2 DEF RowInv
  <2>8. ReportStands' /\ ClaimedStaysOpen'
    BY <1>0, <2>1, <2>3, <2>4, <2>7 DEF ReportStands, ClaimedStaysOpen
  <2>9. QED
    BY <2>5, <2>6, <2>8 DEF TableInv
<1>3. ASSUME NEW t \in Tasks, NEW a \in Attempts, NEW s \in Verdicts, ReportResult(t, a, s)
      PROVE  TableInv'
  <2>1. /\ status[t] \in {"running", "cancel_requested"} /\ s \in TERMINAL /\ status'[t] = s
        /\ \A u \in Tasks \ {t} : status'[u] = status[u]
    BY <1>0, <1>3, VerdictsAssumption, StatusAt DEF ReportResult
  <2>2. attempt[t] = a /\ a # None
    BY <1>3, NoneAssumption DEF ReportResult
  <2>3. /\ reportDigest'[t] = [revision |-> revision[t], status |-> s]
        /\ \A u \in Tasks \ {t} : reportDigest'[u] = reportDigest[u]
    <3>1. /\ reportDigest \in [Tasks -> Report \cup {None}]
          /\ reportDigest' = [reportDigest EXCEPT ![t] = [revision |-> revision[t], status |-> s]]
      BY <1>0, <1>3 DEF ReportResult, TypeOK
    <3>2. QED
      BY <3>1
  <2>4. UNCHANGED <<request, attempt, revision, calls, clobbered>>
    BY <1>3 DEF ReportResult
  <2>5. status'[t] \notin {"absent", "queued"} /\ status[t] \notin {"absent", "queued"}
    BY <2>1 DEF TERMINAL
  <2>6. RowInv'
    BY <1>0, <2>1, <2>2, <2>3, <2>4, <2>5 DEF RowInv
  <2>7. OneTaskPerKey'
    BY <1>0, <2>1, <2>4, <2>5 DEF OneTaskPerKey, Exists
  <2>8. ReportStands' /\ ClaimedStaysOpen'
    BY <1>0, <2>1, <2>2, <2>3, <2>4 DEF ReportStands, ClaimedStaysOpen
  <2>9. QED
    BY <2>6, <2>7, <2>8 DEF TableInv
<1>4. ASSUME NEW t \in Tasks, Message(t)
      PROVE  TableInv'
  <2>0. UNCHANGED <<request, status, attempt, reportDigest, calls, clobbered>>
    BY <1>4 DEF Message
  <2>1. RowInv' /\ OneTaskPerKey' /\ ClaimedStaysOpen'
    BY <1>0, <2>0 DEF Exists, RowInv, OneTaskPerKey, ClaimedStaysOpen
  <2>2. ASSUME NEW u \in Tasks \ clobbered, reportDigest[u] # None
        PROVE  revision'[u] = revision[u]
    <3>1. status[u] \in TERMINAL
      BY <1>0, <2>2, ReportTerminal DEF ReportStands
    <3>2. u # t
      BY <1>4, <3>1 DEF Message, TakesMessage
    <3>3. /\ revision \in [Tasks -> 1..MaxRevision]
          /\ revision' = [revision EXCEPT ![t] = @ + 1]
      BY <1>0, <1>4 DEF Message, TypeOK
    <3>4. QED
      BY <3>2, <3>3
  <2>3. ReportStands'
    BY <1>0, <2>0, <2>2 DEF ReportStands
  <2>4. QED
    BY <2>1, <2>3 DEF TableInv
<1>5. ASSUME NEW t \in Tasks, Cancel(t)
      PROVE  TableInv'
  <2>1. /\ status[t] \notin TERMINAL \cup {"absent"}
        /\ status'[t] = CancelledForm(status[t])
        /\ \A u \in Tasks \ {t} : status'[u] = status[u]
    BY <1>0, <1>5, StatusAt DEF Cancel, Cancellable
  <2>2. UNCHANGED <<request, attempt, revision, reportDigest, calls, clobbered>>
    BY <1>5 DEF Cancel
  <2>3. status'[t] \in {"cancelled", "cancel_requested"}
    BY <2>1 DEF CancelledForm
  <2>4. RowInv'
    BY <1>0, <2>1, <2>2, <2>3 DEF RowInv
  <2>5. OneTaskPerKey'
    BY <1>0, <2>1, <2>2, <2>3 DEF Exists, OneTaskPerKey
  <2>6. ASSUME NEW u \in Tasks \ clobbered, reportDigest[u] # None
        PROVE  status'[u] = status[u]
    <3>1. status[u] \in TERMINAL
      BY <1>0, <2>6, ReportTerminal DEF ReportStands
    <3>2. QED
      BY <2>1, <3>1
  <2>7. ReportStands'
    BY <1>0, <2>2, <2>6 DEF ReportStands
  <2>8. ClaimedStaysOpen'
    BY <1>0, <2>1, <2>2, <2>3 DEF TERMINAL, ClaimedStaysOpen
  <2>9. QED
    BY <2>4, <2>5, <2>7, <2>8 DEF TableInv
<1>6. ASSUME NEW t \in Tasks, Expire(t)
      PROVE  TableInv'
  <2>1. UNCHANGED <<request, status, attempt, revision, reportDigest, calls, clobbered>>
    BY <1>6 DEF Expire, db
  <2>2. QED
    BY <1>0, <2>1, TableFrame DEF TableInv
<1>7. QED
  BY <1>1, <1>2, <1>3, <1>4, <1>5, <1>6 DEF Clients

LEMMA ClientsSteps ==
  ASSUME Inv, Clients
  PROVE  LockInv' /\ StepInv'
<1> USE DEF world, local, history
<1>0. TypeOK /\ LocalOK /\ RowInv /\ LockInv
  BY DEF Inv, TypeInv, TableInv
<1>1. UNCHANGED local
  BY Zenon DEF Clients, Submit, Claim, ReportResult, Message, Cancel, Expire
<1>2. LockInv'
  BY <1>0, <1>1 DEF LockInv
<1>3. SUFFICES ASSUME NEW d \in Dispatchers PROVE StepOK(d)'
  BY <1>2 DEF StepInv
<1>4. StepOK(d)
  BY DEF Inv, StepInv
<1>5. ASSUME NEW t \in Tasks, NEW r \in Request, Submit(t, r)
      PROVE  StepOK(d)'
  BY <1>0, <1>4, <1>5 DEF Submit, SetStatus, Exists, TypeOK, LocalOK, StepOK
<1>6. ASSUME NEW t \in Tasks, NEW a \in Attempts, Claim(t, a)
      PROVE  StepOK(d)'
  BY <1>0, <1>4, <1>6 DEF Claim, AgentTask, Claimable, SetStatus, TypeOK, LocalOK, StepOK
<1>7. ASSUME NEW t \in Tasks, NEW a \in Attempts, NEW s \in Verdicts, ReportResult(t, a, s)
      PROVE  StepOK(d)'
  BY <1>0, <1>4, <1>7, VerdictsAssumption, NoneAssumption
     DEF ReportResult, AgentTask, SetStatus, TERMINAL, TypeOK, LocalOK, StepOK
<1>8. ASSUME NEW t \in Tasks, Message(t)
      PROVE  StepOK(d)'
  BY <1>0, <1>4, <1>8 DEF Message, StepOK
<1>9. ASSUME NEW t \in Tasks, Cancel(t)
      PROVE  StepOK(d)'
  BY <1>0, <1>4, <1>9 DEF Cancel, Cancellable, CancelledForm, SetStatus, TERMINAL, TypeOK, LocalOK, StepOK
<1>10. ASSUME NEW t \in Tasks, Expire(t)
      PROVE  StepOK(d)'
  BY <1>4, <1>10 DEF Expire, db, StepOK
<1>11. QED
  BY <1>5, <1>6, <1>7, <1>8, <1>9, <1>10 DEF Clients

-----------------------------------------------------------------------------
(* The invariant is kept by the dispatcher. *)

LEMMA DispatchTable ==
  ASSUME Inv, NEW d \in Dispatchers, Dispatch(d)
  PROVE  TableInv'
<1> USE DEF world, local, history, Goto
<1>0. /\ TypeOK /\ LocalOK /\ TableInv
      /\ RowInv /\ OneTaskPerKey /\ ReportStands /\ ClaimedStaysOpen
      /\ StepOK(d)
  BY DEF Inv, TypeInv, TableInv, StepInv
<1>1. CASE TickBegin(d) \/ ReadBack(d) \/ MarkCancel(d) \/ SendCancel(d) \/ Poll(d) \/ TickEnd(d)
  <2>1. UNCHANGED <<request, status, attempt, revision, reportDigest, calls, clobbered>>
    BY <1>1 DEF TickBegin, ReadBack, MarkCancel, SendCancel, Poll, TickEnd, db
  <2>2. QED
    BY <1>0, <2>1, TableFrame
<1>2. CASE Classify(d)
  <2>1. ASSUME NEW t \in Tasks
        PROVE  \/ status'[t] = status[t]
               \/ status'[t] = "outcome_unknown" /\ status[t] \notin {"absent", "queued"}
    BY <1>0, <1>2 DEF Classify, StepOK
  <2>2. ASSUME NEW t \in Tasks \ clobbered', status'[t] # status[t]
        PROVE  attempt[t] = None
    BY <1>0, <1>2, <2>2 DEF Classify, Abandoned
  <2>3. RowInv'
    BY <1>0, <1>2, <2>1 DEF Classify, RowInv
  <2>4. OneTaskPerKey'
    BY <1>0, <1>2, <2>1 DEF Classify, OneTaskPerKey, Exists
  <2>5. ReportStands' /\ ClaimedStaysOpen'
    BY <1>0, <1>2, <2>2 DEF Classify, RowInv, ReportStands, ClaimedStaysOpen
  <2>6. QED
    BY <2>3, <2>4, <2>5 DEF TableInv
<1>3. CASE CallSubmit(d)
  <2>1. RowInv'
    BY <1>0, <1>3 DEF CallSubmit, TypeOK, LocalOK, RowInv, StepOK, db
  <2>2. QED
    BY <1>0, <1>3, <2>1 DEF CallSubmit, TableInv, OneTaskPerKey, ReportStands, ClaimedStaysOpen, Exists, db
<1>4. CASE StoreSubmit(d)
  <2> DEFINE t == cur[d]
  <2>0. /\ t \in Tasks
        /\ status[t] \notin {"absent", "queued"}
        /\ Outcome(d) \notin {"absent", "queued"}
    BY <1>0, <1>4 DEF StoreSubmit, LocalOK, StepOK, Outcome
  <2>1. /\ \A u \in Tasks \ {t} : status'[u] = status[u]
        /\ status'[t] \in {status[t], Outcome(d)}
    <3>1. CASE seen[d] \in Unsettled
      BY <1>0, <1>4, <2>0, <3>1 DEF StoreSubmit, SetStatus, TypeOK
    <3>2. CASE seen[d] \notin Unsettled
      BY <1>4, <3>2 DEF StoreSubmit
    <3>3. QED
      BY <3>1, <3>2
  <2>2. UNCHANGED <<request, attempt, revision, reportDigest, calls>>
    BY <1>4 DEF StoreSubmit
  <2>3. \A u \in Tasks : u \notin clobbered' => u \notin clobbered
    BY <1>4 DEF StoreSubmit
  <2>4. RowInv'
    BY <1>0, <2>0, <2>1, <2>2 DEF RowInv
  <2>5. OneTaskPerKey'
    BY <1>0, <2>0, <2>1, <2>2 DEF OneTaskPerKey, Exists
  <2>6. ASSUME t \notin clobbered', attempt[t] # None
        PROVE  /\ status'[t] \in {"running", "cancel_requested"} \cup TERMINAL
               /\ reportDigest[t] # None => status'[t] = status[t]
    <3>1. CASE status'[t] = status[t]
      BY <1>0, <2>0, <2>3, <2>6, <3>1 DEF ClaimedStaysOpen
    <3>2. CASE status'[t] # status[t]
      <4>1. seen[d] \in Unsettled /\ status[t] = seen[d] /\ status'[t] = Outcome(d)
        BY <1>0, <1>4, <2>0, <2>1, <2>6, <3>2 DEF StoreSubmit, TypeOK
      <4>2. status[t] = "cancel_requested"
        BY <1>0, <2>0, <2>3, <2>6, <4>1 DEF ClaimedStaysOpen, Unsettled, TERMINAL
      <4>3. reply[d] = "accepted"
        BY <1>0, <1>4, <2>6, <4>1, <4>2 DEF StoreSubmit, StepOK
      <4>4. QED
        BY <3>2, <4>1, <4>2, <4>3 DEF Outcome
    <3>3. QED
      BY <3>1, <3>2
  <2>7. ReportStands' /\ ClaimedStaysOpen'
    BY <1>0, <2>0, <2>1, <2>2, <2>3, <2>6 DEF RowInv, ReportStands, ClaimedStaysOpen
  <2>8. QED
    BY <2>4, <2>5, <2>7 DEF TableInv
<1>5. CASE Finish(d)
  <2> DEFINE t == cur[d]
  <2>0. /\ t \in Tasks /\ reply[d] \in TERMINAL
        /\ request[t].provider \notin CallbackDriven
        /\ status[t] # "absent"
    BY <1>0, <1>5 DEF Finish, LocalOK, StepOK
  <2>1. attempt[t] = None /\ reportDigest[t] = None
    BY <1>0, <2>0 DEF RowInv
  <2>2. UNCHANGED <<request, attempt, revision, reportDigest, calls, clobbered>>
    BY <1>5 DEF Finish
  <2>3. status'[t] = reply[d] /\ \A u \in Tasks \ {t} : status'[u] = status[u]
    BY <1>0, <1>5, <2>0, StatusAt DEF Finish
  <2>4. status'[t] \notin {"absent", "queued"}
    BY <2>0, <2>3 DEF TERMINAL
  <2>5. RowInv'
    BY <1>0, <2>0, <2>2, <2>3, <2>4 DEF RowInv
  <2>6. OneTaskPerKey'
    BY <1>0, <2>0, <2>2, <2>3 DEF OneTaskPerKey, Exists
  <2>7. ReportStands' /\ ClaimedStaysOpen'
    BY <1>0, <2>1, <2>2, <2>3 DEF ReportStands, ClaimedStaysOpen
  <2>8. QED
    BY <2>5, <2>6, <2>7 DEF TableInv
<1>6. ASSUME NEW r \in rows[d], SkipRow(d, r)
      PROVE  TableInv'
  BY <1>0, <1>6, TableFrame DEF SkipRow, db
<1>7. ASSUME NEW r \in rows[d], RefuseQueued(d, r) \/ BeginSubmit(d, r)
      PROVE  TableInv'
  <2> DEFINE t == r.task
  <2>0. t \in Tasks /\ status[t] = "queued"
    BY <1>0, <1>7 DEF RefuseQueued, BeginSubmit, TypeOK
  <2>1. /\ status'[t] \in TERMINAL \cup {"submitting"}
        /\ \A u \in Tasks \ {t} : status'[u] = status[u]
    BY <1>0, <1>7, <2>0, StatusAt DEF RefuseQueued, BeginSubmit, TERMINAL
  <2>2. UNCHANGED <<request, attempt, revision, reportDigest, calls, clobbered>>
    BY <1>7 DEF RefuseQueued, BeginSubmit
  <2>3. t \notin clobbered => attempt[t] = None
    BY <1>0, <2>0 DEF ClaimedStaysOpen, TERMINAL
  <2>4. status'[t] \notin {"absent", "queued"}
    BY <2>1 DEF TERMINAL
  <2>5. RowInv'
    BY <1>0, <2>0, <2>1, <2>2, <2>4 DEF RowInv
  <2>6. OneTaskPerKey'
    BY <1>0, <2>0, <2>1, <2>2 DEF OneTaskPerKey, Exists
  <2>7. t \notin clobbered => reportDigest[t] = None
    BY <1>0, <2>0, <2>3 DEF RowInv
  <2>8. ReportStands' /\ ClaimedStaysOpen'
    BY <1>0, <2>1, <2>2, <2>3, <2>7 DEF ReportStands, ClaimedStaysOpen
  <2>9. QED
    BY <2>5, <2>6, <2>8 DEF TableInv
<1>8. ASSUME NEW r \in rows[d], Watch(d, r)
      PROVE  TableInv'
  <2> DEFINE t == r.task
  <2>1. CASE UNCHANGED status
    BY <1>0, <1>8, <2>1, TableFrame DEF Watch
  <2>2. CASE status' # status
    <3>7. t \in Tasks
      BY <1>0 DEF TypeOK
    <3>8. status[t] = "running" /\ SetStatus(t, "cancel_requested")
      BY <1>8, <2>2 DEF Watch, Overdue
    <3>0. /\ status[t] = "running" /\ status'[t] = "cancel_requested"
          /\ \A u \in Tasks \ {t} : status'[u] = status[u]
      BY <1>0, <3>7, <3>8, StatusAt
    <3>1. UNCHANGED <<request, attempt, revision, reportDigest, calls, clobbered>>
      BY <1>8 DEF Watch
    <3>2. RowInv'
      BY <1>0, <3>7, <3>0, <3>1 DEF RowInv
    <3>3. OneTaskPerKey'
      BY <1>0, <3>7, <3>0, <3>1 DEF OneTaskPerKey, Exists
    <3>4. t \notin clobbered => reportDigest[t] = None
      BY <1>0, <3>7, <3>0, ReportTerminal DEF ReportStands, TERMINAL
    <3>5. ReportStands' /\ ClaimedStaysOpen'
      BY <1>0, <3>0, <3>1, <3>4 DEF ReportStands, ClaimedStaysOpen
    <3>6. QED
      BY <3>2, <3>3, <3>5 DEF TableInv
  <2>3. QED
    BY <2>1, <2>2
<1>9. QED
  BY <1>1, <1>2, <1>3, <1>4, <1>5, <1>6, <1>7, <1>8 DEF Dispatch

LEMMA DispatchSteps ==
  ASSUME Inv, NEW d \in Dispatchers, Dispatch(d)
  PROVE  LockInv' /\ StepInv'
<1> USE DEF world, local, history, Goto
<1>0. TypeOK /\ LocalOK /\ LockInv /\ RowInv /\ StepOK(d)
  BY DEF Inv, TypeInv, TableInv, StepInv
<1>1. LockInv'
  BY <1>0, LockStep
<1>2. SUFFICES StepOK(d)'
  BY <1>0, <1>1, StepsOfOthers
<1>3. CASE TickBegin(d)
  BY <1>0, <1>3 DEF TickBegin, Abandoned, TypeOK, StepOK, db
<1>4. CASE Classify(d) \/ StoreSubmit(d) \/ Finish(d) \/ TickEnd(d)
  <2>1. pc'[d] \in {"next", "idle"}
    BY <1>0, <1>4 DEF Classify, StoreSubmit, Finish, TickEnd, TypeOK
  <2>2. QED
    BY <2>1 DEF StepOK
<1>5. CASE CallSubmit(d)
  <2>1. pc'[d] = "readback" /\ UNCHANGED <<cur, status>>
    BY <1>0, <1>5 DEF CallSubmit, TypeOK, db
  <2>2. status[cur[d]] \notin {"absent", "queued", "outcome_unknown"}
    BY <1>0, <1>5 DEF CallSubmit, StepOK
  <2>3. QED
    BY <2>1, <2>2 DEF StepOK
<1>6. CASE ReadBack(d)
  BY <1>0, <1>6 DEF ReadBack, TypeOK, StepOK, db
<1>7. CASE MarkCancel(d)
  <2>1. pc[d] = "mark" /\ pc'[d] = "send" /\ UNCHANGED <<cur, status, request>>
    BY <1>0, <1>7 DEF MarkCancel, TypeOK
  <2>2. QED
    BY <1>0, <2>1 DEF StepOK
<1>8. CASE SendCancel(d)
  <2>1. CASE pc'[d] = "next"
    BY <2>1 DEF StepOK
  <2>2. CASE pc'[d] # "next"
    <3>1. /\ pc[d] = "send" /\ pc'[d] = "poll" /\ UNCHANGED <<cur, status, request>>
          /\ request[cur[d]].provider \notin CallbackDriven
      BY <1>0, <1>8, <2>2 DEF SendCancel, TypeOK, db
    <3>2. QED
      BY <1>0, <3>1 DEF StepOK
  <2>3. QED
    BY <2>1, <2>2
<1>9. CASE Poll(d)
  <2>1. CASE pc'[d] = "next"
    BY <2>1 DEF StepOK
  <2>2. CASE pc'[d] # "next"
    <3>1. pc[d] = "poll" /\ pc'[d] = "finish" /\ UNCHANGED <<cur, status, request>>
      BY <1>0, <1>9, <2>2 DEF Poll, TypeOK, db
    <3>2. QED
      BY <1>0, <3>1 DEF StepOK
  <2>3. QED
    BY <2>1, <2>2
<1>10. ASSUME NEW r \in rows[d], SkipRow(d, r) \/ RefuseQueued(d, r)
      PROVE  StepOK(d)'
  <2>1. pc'[d] = "next"
    BY <1>10 DEF SkipRow, RefuseQueued, Take
  <2>2. QED
    BY <2>1 DEF StepOK
<1>11. ASSUME NEW r \in rows[d], BeginSubmit(d, r)
      PROVE  StepOK(d)'
  <2>0. r.task \in Tasks
    BY <1>0 DEF TypeOK
  <2>1. /\ pc'[d] = "call" /\ cur'[d] = r.task
        /\ status'[r.task] = "submitting" /\ calls'[r.task] = 0
    BY <1>0, <1>11, <2>0 DEF BeginSubmit, SetStatus, TypeOK, RowInv
  <2>2. QED
    BY <2>1 DEF StepOK
<1>12. ASSUME NEW r \in rows[d], Watch(d, r)
       PROVE  StepOK(d)'
  <2>0. r.task \in Tasks
    BY <1>0 DEF TypeOK
  <2>1. status'[r.task] \in {"running", "cancel_requested"} /\ UNCHANGED request
    BY <1>0, <1>12, <2>0 DEF Watch, SetStatus, TypeOK
  <2>2. pc'[d] \in {"mark", "poll", "next"}
    BY <1>0, <1>12 DEF Watch, Take, TypeOK
  <2>3. pc'[d] = "poll" => request[r.task].provider \notin CallbackDriven
    BY <1>0, <1>12 DEF Watch, Take, TypeOK
  <2>4. pc'[d] # "next" => cur'[d] = r.task
    BY <1>0, <1>12 DEF Watch, Take, TypeOK
  <2>5. QED
    BY <2>1, <2>2, <2>3, <2>4 DEF StepOK
<1>13. QED
  BY <1>3, <1>4, <1>5, <1>6, <1>7, <1>8, <1>9, <1>10, <1>11, <1>12 DEF Dispatch

-----------------------------------------------------------------------------
(* Inv is inductive, and what follows from it. *)

LEMMA InvStep == Inv /\ [Next]_vars => Inv'
<1> SUFFICES ASSUME Inv, [Next]_vars PROVE Inv'
  OBVIOUS
<1>0. TypeInv /\ TypeInv'
  BY TypeStep DEF Inv
<1>1. CASE Clients
  BY <1>0, <1>1, ClientsTable, ClientsSteps DEF Inv
<1>2. ASSUME NEW d \in Dispatchers, Dispatch(d)
      PROVE  Inv'
  BY <1>0, <1>2, DispatchTable, DispatchSteps DEF Inv
<1>3. ASSUME NEW d \in Dispatchers, Crash(d)
      PROVE  Inv'
  <2>1. TypeOK /\ LockInv
    BY <1>0 DEF Inv, TypeInv
  <2>2. pc'[d] = "idle"
    BY <1>3, <2>1 DEF Crash, Goto, TypeOK
  <2>3. StepInv'
    BY <1>3, <2>1, <2>2, StepsOfOthers DEF StepOK
  <2>4. UNCHANGED <<request, status, attempt, revision, reportDigest, calls, clobbered>>
    BY <1>3 DEF Crash, db
  <2>5. QED
    BY <1>0, <1>3, <2>1, <2>3, <2>4, LockStep, TableFrame DEF Inv
<1>4. CASE Reconfigure
  BY <1>0, <1>4, TableFrame DEF Inv, Reconfigure, LockInv, StepInv, StepOK, db, local
<1>5. CASE UNCHANGED vars
  BY <1>0, <1>5, TableFrame DEF Inv, vars, LockInv, StepInv, StepOK, db, local, history
<1>6. QED
  BY <1>1, <1>2, <1>3, <1>4, <1>5 DEF Next

\* The inductive invariant holds in every reachable state.
THEOREM Invariance == Spec => []Inv
BY InitInv, InvStep, PTL DEF Spec

\* No task is handed to its provider twice, whatever processes crash, restart
\* or tick side by side (runtime.py, _advance).
THEOREM AtMostOneSubmission == Spec => []SubmitOnce
<1>1. Inv => SubmitOnce
  BY DEF Inv, TableInv, RowInv, SubmitOnce
<1>2. QED
  BY <1>1, Invariance, PTL

\* The file lock makes tick() classify only submissions nobody is making.
THEOREM NoneInFlightIsAbandoned == Spec => []InFlightNotAbandoned
<1>1. Inv => InFlightNotAbandoned
  BY DEF Inv, StepInv, StepOK, InFlightNotAbandoned
<1>2. QED
  BY <1>1, Invariance, PTL

\* submit() never binds a project's key to two tasks.
THEOREM KeysAreUnique == Spec => []OneTaskPerKey
<1>1. Inv => OneTaskPerKey
  BY DEF Inv, TableInv
<1>2. QED
  BY <1>1, Invariance, PTL

\* A stored report stays the task's outcome, on the materials it answers,
\* unless one of the two unguarded updates of _advance() overwrites the task.
THEOREM ReportsStand == Spec => []ReportStands
<1>1. Inv => ReportStands
  BY DEF Inv, TableInv
<1>2. QED
  BY <1>1, Invariance, PTL

\* A claimed task can still be reported on or is settled, under the same
\* exception.
THEOREM ClaimsStayOpen == Spec => []ClaimedStaysOpen
<1>1. Inv => ClaimedStaysOpen
  BY DEF Inv, TableInv
<1>2. QED
  BY <1>1, Invariance, PTL

-----------------------------------------------------------------------------
(* What a step never takes back. *)

\* What a step may make of a settled task and of one whose cancellation was
\* asked for.
FinalKept(t) ==
  /\ status[t] \in TERMINAL => status'[t] = status[t]
  /\ status[t] = "cancel_requested" =>
       status'[t] \in {"cancel_requested", "outcome_unknown"} \cup TERMINAL

LEMMA StepKeepsFinal ==
  ASSUME Inv, [Next]_vars, NEW t \in Tasks \ clobbered'
  PROVE  FinalKept(t)
<1> USE DEF FinalKept, TERMINAL
<1>0. TypeOK /\ LocalOK /\ StepInv
  BY DEF Inv, TypeInv
<1>1. ASSUME NEW u \in Tasks, NEW r \in Request, Submit(u, r)
      PROVE  FinalKept(t)
  BY <1>0, <1>1 DEF Submit, SetStatus, Exists, TypeOK
<1>2. ASSUME NEW u \in Tasks, NEW a \in Attempts, Claim(u, a)
      PROVE  FinalKept(t)
  BY <1>0, <1>2 DEF Claim, Claimable, SetStatus, TypeOK
<1>3. ASSUME NEW u \in Tasks, NEW a \in Attempts, NEW s \in Verdicts, ReportResult(u, a, s)
      PROVE  FinalKept(t)
  BY <1>0, <1>3, VerdictsAssumption DEF ReportResult, SetStatus, TypeOK
<1>4. ASSUME NEW u \in Tasks, Message(u) \/ Expire(u)
      PROVE  FinalKept(t)
  BY <1>4 DEF Message, Expire, db
<1>5. ASSUME NEW u \in Tasks, Cancel(u)
      PROVE  FinalKept(t)
  BY <1>0, <1>5 DEF Cancel, Cancellable, SetStatus, TypeOK
<1>6. ASSUME NEW d \in Dispatchers, Dispatch(d)
      PROVE  FinalKept(t)
  <2>0. StepOK(d)
    BY <1>0, <1>6 DEF StepInv
  <2>1. CASE UNCHANGED status
    BY <2>1
  <2>2. CASE Classify(d)
    BY <1>0, <2>2 DEF Classify, Abandoned
  <2>3. CASE StoreSubmit(d)
    <3>1. CASE status'[t] = status[t]
      BY <3>1
    <3>2. CASE status'[t] # status[t]
      <4>1. /\ t = cur[d] /\ seen[d] \in Unsettled
            /\ status'[t] = Outcome(d) /\ status[t] = seen[d]
        BY <1>0, <2>3, <3>2 DEF StoreSubmit, SetStatus, TypeOK, LocalOK
      <4>2. status[t] \notin TERMINAL
        BY <4>1 DEF Unsettled
      <4>3. seen[d] = "cancel_requested" =>
              Outcome(d) \in {"cancel_requested", "outcome_unknown"} \cup TERMINAL
        BY DEF Outcome
      <4>4. QED
        BY <4>1, <4>2, <4>3
    <3>3. QED
      BY <3>1, <3>2
  <2>4. CASE Finish(d)
    <3>1. status[cur[d]] \in {"running", "cancel_requested"} /\ reply[d] \in TERMINAL
      BY <1>0, <2>0, <2>4 DEF Finish, StepOK, LocalOK
    <3>2. QED
      BY <1>0, <2>4, <3>1 DEF Finish, SetStatus, TypeOK
  <2>5. ASSUME NEW r \in rows[d], RefuseQueued(d, r) \/ BeginSubmit(d, r)
        PROVE  FinalKept(t)
    BY <1>0, <2>5, Zenon DEF RefuseQueued, BeginSubmit, SetStatus, TypeOK
  <2>6. ASSUME NEW r \in rows[d], Watch(d, r)
        PROVE  FinalKept(t)
    BY <1>0, <2>6 DEF Watch, Overdue, SetStatus, TypeOK
  <2>7. QED
    BY <1>6, <2>1, <2>2, <2>3, <2>4, <2>5, <2>6
       DEF Dispatch, TickBegin, CallSubmit, ReadBack, MarkCancel, SendCancel, Poll, TickEnd, SkipRow, db
<1>7. CASE \E d \in Dispatchers : Crash(d)
  BY <1>7 DEF Crash, db
<1>8. CASE Reconfigure \/ UNCHANGED vars
  BY <1>8 DEF Reconfigure, vars, db
<1>9. QED
  BY <1>1, <1>2, <1>3, <1>4, <1>5, <1>6, <1>7, <1>8 DEF Next, Clients

\* A settled task keeps its status unless one of the unguarded updates
\* overwrites it.
THEOREM SettledStaysSettled == Spec => TerminalStands
<1>1. Inv /\ [Next]_vars =>
        [\A t \in Tasks \ clobbered' : status[t] \in TERMINAL => status'[t] = status[t]]_vars
  BY StepKeepsFinal DEF FinalKept
<1>2. QED
  BY <1>1, Invariance, PTL DEF Spec, TerminalStands

\* An accepted cancellation is not withdrawn by a step of the store, under
\* the same exception.
THEOREM CancellationStands == Spec => CancelStands
<1>1. Inv /\ [Next]_vars =>
        [\A t \in Tasks \ clobbered' :
           status[t] = "cancel_requested" =>
             status'[t] \in {"cancel_requested", "outcome_unknown"} \cup TERMINAL]_vars
  BY StepKeepsFinal DEF FinalKept
<1>2. QED
  BY <1>1, Invariance, PTL DEF Spec, CancelStands

-----------------------------------------------------------------------------
(* The quota. *)

\* Only submit() creates a task or changes what a task is a request for.
LEMMA OnlySubmitCreates ==
  ASSUME TypeOK, LocalOK, StepInv, [Next]_vars,
         ~ \E t \in Tasks, r \in Request : Submit(t, r)
  PROVE  request' = request /\ \A t \in Tasks : Exists(t)' => Exists(t)
<1> USE DEF Exists
<1>1. CASE Clients
  BY <1>1 DEF Clients, Claim, ReportResult, Message, Cancel, Expire, AgentTask, Cancellable, SetStatus, TypeOK, db
<1>2. ASSUME NEW d \in Dispatchers, Dispatch(d)
      PROVE  request' = request /\ \A t \in Tasks : Exists(t)' => Exists(t)
  <2>0. StepOK(d)
    BY DEF StepInv
  <2>1. CASE UNCHANGED <<request, status>>
    BY <2>1
  <2>2. CASE Classify(d)
    BY <2>0, <2>2 DEF Classify, StepOK, TypeOK
  <2>3. CASE StoreSubmit(d)
    BY <2>0, <2>3 DEF StoreSubmit, SetStatus, StepOK, TypeOK
  <2>4. CASE Finish(d)
    BY <2>0, <2>4 DEF Finish, SetStatus, StepOK, TypeOK
  <2>5. ASSUME NEW r \in rows[d], RefuseQueued(d, r) \/ BeginSubmit(d, r) \/ Watch(d, r)
        PROVE  request' = request /\ \A t \in Tasks : Exists(t)' => Exists(t)
    BY <2>5, Zenon DEF RefuseQueued, BeginSubmit, Watch, SetStatus, TypeOK
  <2>6. QED
    BY <1>2, <2>1, <2>2, <2>3, <2>4, <2>5
       DEF Dispatch, TickBegin, CallSubmit, ReadBack, MarkCancel, SendCancel, Poll, TickEnd, SkipRow, db
<1>3. CASE (\E d \in Dispatchers : Crash(d)) \/ Reconfigure \/ UNCHANGED vars
  BY <1>3 DEF Crash, Reconfigure, vars, db
<1>4. QED
  BY <1>1, <1>2, <1>3 DEF Next

\* No step forgets that a stale write hit a task.
LEMMA ClobberedGrows == [Next]_vars => clobbered \subseteq clobbered'
<1> SUFFICES ASSUME [Next]_vars PROVE clobbered \subseteq clobbered'
  OBVIOUS
<1>1. CASE Clients
  BY <1>1 DEF Clients, Submit, Claim, ReportResult, Message, Cancel, Expire, history
<1>2. CASE \E d \in Dispatchers : Dispatch(d) \/ Crash(d)
  BY <1>2 DEF Dispatch, TickBegin, Classify, CallSubmit, ReadBack, StoreSubmit, MarkCancel, SendCancel,
     Poll, Finish, TickEnd, SkipRow, RefuseQueued, BeginSubmit, Watch, Crash, history
<1>3. CASE Reconfigure \/ UNCHANGED vars
  BY <1>3 DEF Reconfigure, vars, history
<1>4. QED
  BY <1>1, <1>2, <1>3 DEF Next

LEMMA SubsetCardinality ==
  ASSUME NEW S, NEW T, T \subseteq Tasks, S \subseteq T
  PROVE  /\ IsFiniteSet(S) /\ Cardinality(S) \in Nat /\ Cardinality(T) \in Nat
         /\ Cardinality(S) <= Cardinality(T)
<1>1. IsFiniteSet(T)
  BY TasksAssumption, FS_Subset
<1>2. QED
  BY <1>1, FS_Subset, FS_CardinalityType

LEMMA QuotaStep ==
  ASSUME Inv, QuotaHolds, [Next]_vars
  PROVE  QuotaHolds'
<1> DEFINE Held(o) == Active(o) \ clobbered
<1>0. TypeOK /\ LocalOK /\ StepInv /\ MaxActive \in Nat
  BY BoundsAssumption DEF Inv, TypeInv
<1>1. SUFFICES ASSUME NEW o \in Owners PROVE Cardinality(Held(o)') <= MaxActive
  BY DEF QuotaHolds
<1>2. Active(o) \subseteq Tasks
  BY DEF Active
<1>3. CASE Held(o)' \subseteq Held(o)
  <2>1. Cardinality(Held(o)) <= MaxActive
    BY DEF QuotaHolds
  <2>2. Held(o) \subseteq Tasks
    BY <1>2
  <2>3. QED
    BY <1>0, <1>3, <2>1, <2>2, SubsetCardinality
<1>4. ASSUME NEW t \in Tasks, NEW r \in Request, Submit(t, r)
      PROVE  Cardinality(Held(o)') <= MaxActive
  <2>1. CASE r.owner = o
    <3>1. t \notin Active(o) /\ Cardinality(Active(o)) < MaxActive
      BY <1>4, <2>1 DEF Submit, QuotaFree, Active
    <3>2. Held(o)' \subseteq Active(o) \cup {t}
      BY <1>0, <1>4 DEF Submit, SetStatus, Active, Exists, TypeOK
    <3>3. /\ IsFiniteSet(Active(o))
          /\ Cardinality(Active(o) \cup {t}) = Cardinality(Active(o)) + 1
      BY <1>2, <3>1, SubsetCardinality, FS_AddElement
    <3>4. Cardinality(Held(o)') <= Cardinality(Active(o) \cup {t})
      BY <1>2, <3>2, SubsetCardinality
    <3>5. Cardinality(Active(o)) \in Nat /\ Cardinality(Held(o)') \in Nat
      BY <1>2, <3>2, SubsetCardinality
    <3>6. QED
      BY <1>0, <3>1, <3>3, <3>4, <3>5
  <2>2. CASE r.owner # o
    <3>1. Held(o)' \subseteq Held(o)
      BY <1>0, <1>4, <2>2 DEF Submit, SetStatus, Active, Exists, TypeOK, history
    <3>2. QED
      BY <1>3, <3>1
  <2>3. QED
    BY <2>1, <2>2
<1>5. CASE ~ \E t \in Tasks, r \in Request : Submit(t, r)
  <2>1. request' = request /\ \A t \in Tasks : Exists(t)' => Exists(t)
    BY <1>0, <1>5, OnlySubmitCreates
  <2>2. ASSUME NEW t \in Held(o)'
        PROVE  t \in Held(o)
    <3>1. t \in Tasks \ clobbered' /\ status'[t] \notin TERMINAL
      BY <2>2 DEF Active
    <3>2. status[t] \notin TERMINAL
      BY <3>1, StepKeepsFinal DEF FinalKept
    <3>3. t \notin clobbered
      BY <3>1, ClobberedGrows
    <3>4. QED
      BY <2>1, <2>2, <3>1, <3>2, <3>3 DEF Active
  <2>3. QED
    BY <1>3, <2>2
<1>6. QED
  BY <1>4, <1>5

\* A project never has more unsettled tasks than its policy allows, not
\* counting tasks that a stale write brought back to life (runtime.py, submit).
THEOREM QuotaIsKept == Spec => []QuotaHolds
<1>1. Init => QuotaHolds
  <2> SUFFICES ASSUME Init PROVE QuotaHolds
    OBVIOUS
  <2>1. \A o \in Owners : Active(o) \ clobbered = {}
    BY DEF Init, Active, Exists
  <2>2. QED
    BY <2>1, FS_EmptySet, BoundsAssumption DEF QuotaHolds
<1>2. Inv /\ QuotaHolds /\ [Next]_vars => QuotaHolds'
  BY QuotaStep
<1>3. QED
  BY <1>1, <1>2, Invariance, PTL DEF Spec

-----------------------------------------------------------------------------
(* Cancellations. *)

\* What a dispatcher remembers of the cancellations that were sent: its rows
\* agree with the table, and the row it is about to mark is not among them.
SentOK(d) ==
  /\ pc[d] \notin {"idle", "classify"} => \A r \in rows[d] : r.sent = cancelSent[r.task]
  /\ pc[d] = "mark" => ~cancelSent[cur[d]] /\ \A r \in rows[d] : r.task # cur[d]
  /\ pc[d] = "send" => cancelSent[cur[d]] /\ cancels[cur[d]] = 0

\* A cancellation that went out is on record.
CancelInv ==
  /\ \A t \in Tasks : cancels[t] <= 1 /\ (cancels[t] = 1 => cancelSent[t])
  /\ \A d \in Dispatchers : SentOK(d)

LEMMA DispatchCancels ==
  ASSUME Inv, CancelInv, NEW d \in Dispatchers, Dispatch(d)
  PROVE  CancelInv'
<1> USE DEF history, Goto
<1>0. TypeOK /\ LocalOK /\ LockInv /\ SentOK(d)
  BY DEF Inv, TypeInv, CancelInv
<1>1. ASSUME SentOK(d)', UNCHANGED <<cancels, cancelSent>>
      PROVE  CancelInv'
  BY <1>0, <1>1, OneAtWork DEF CancelInv, SentOK
<1>2. \A r \in rows[d] : r.task \in Tasks
  BY <1>0 DEF TypeOK
<1>3. CASE TickBegin(d) \/ TickEnd(d)
  <2>1. pc'[d] \in {"idle", "classify"} /\ UNCHANGED <<cancels, cancelSent>>
    BY <1>0, <1>3 DEF TickBegin, TickEnd, TypeOK, db
  <2>2. QED
    BY <1>1, <2>1 DEF SentOK
<1>4. CASE Classify(d)
  <2>1. /\ pc'[d] = "next"
        /\ rows'[d] = {[task |-> t, sent |-> cancelSent[t]] :
                         t \in {u \in Tasks : status'[u] \in Advanceable}}
        /\ UNCHANGED <<cancels, cancelSent>>
    BY <1>0, <1>4 DEF Classify, TypeOK
  <2>2. \A r \in rows'[d] : r.sent = cancelSent[r.task]
    BY <2>1
  <2>3. QED
    BY <1>1, <2>1, <2>2 DEF SentOK
<1>5. CASE CallSubmit(d) \/ ReadBack(d) \/ StoreSubmit(d) \/ Poll(d) \/ Finish(d)
  <2>1. /\ pc[d] \notin {"idle", "classify"}
        /\ pc'[d] \in {"readback", "store", "next", "finish"}
        /\ UNCHANGED <<cancels, cancelSent, rows>>
    BY <1>0, <1>5 DEF CallSubmit, ReadBack, StoreSubmit, Poll, Finish, TypeOK, db
  <2>2. QED
    BY <1>0, <1>1, <2>1 DEF SentOK
<1>6. CASE MarkCancel(d)
  <2>1. /\ pc[d] = "mark" /\ pc'[d] = "send" /\ cur[d] \in Tasks
        /\ cancelSent' = [cancelSent EXCEPT ![cur[d]] = TRUE]
        /\ UNCHANGED <<cur, rows, cancels>>
    BY <1>0, <1>6 DEF MarkCancel, RecordCancel, TypeOK, LocalOK
  <2>2. cancels[cur[d]] = 0
    <3>1. ~cancelSent[cur[d]]
      BY <1>0, <2>1 DEF SentOK
    <3>2. cancels[cur[d]] <= 1 /\ cancels[cur[d]] # 1 /\ cancels[cur[d]] \in Nat
      BY <1>0, <2>1, <3>1 DEF CancelInv, TypeOK
    <3>3. QED
      BY <3>2
  <2>3. \A t \in Tasks : cancelSent[t] => cancelSent'[t]
    BY <1>0, <2>1 DEF TypeOK
  <2>4. SentOK(d)'
    BY <1>0, <1>2, <2>1, <2>2 DEF SentOK, TypeOK
  <2>5. \A t \in Tasks : cancels'[t] <= 1 /\ (cancels'[t] = 1 => cancelSent'[t])
    BY <2>1, <2>3 DEF CancelInv
  <2>6. \A e \in Dispatchers \ {d} : SentOK(e)'
    BY <1>0, OneAtWork DEF SentOK
  <2>7. QED
    BY <2>4, <2>5, <2>6 DEF CancelInv
<1>7. CASE SendCancel(d)
  <2>1. /\ pc[d] = "send" /\ pc'[d] \in {"next", "poll"} /\ cur[d] \in Tasks
        /\ cancels' = [cancels EXCEPT ![cur[d]] = @ + 1]
        /\ UNCHANGED <<rows, cancelSent>>
    BY <1>0, <1>7 DEF SendCancel, TypeOK, LocalOK, db
  <2>2. cancelSent[cur[d]] /\ cancels'[cur[d]] = 1
    BY <1>0, <2>1 DEF SentOK, TypeOK
  <2>3. \A t \in Tasks \ {cur[d]} : cancels'[t] = cancels[t]
    BY <1>0, <2>1 DEF TypeOK
  <2>4. SentOK(d)'
    BY <1>0, <2>1 DEF SentOK
  <2>5. \A t \in Tasks : cancels'[t] <= 1 /\ (cancels'[t] = 1 => cancelSent'[t])
    BY <2>1, <2>2, <2>3 DEF CancelInv
  <2>6. \A e \in Dispatchers \ {d} : SentOK(e)'
    BY <1>0, OneAtWork DEF SentOK
  <2>7. QED
    BY <2>4, <2>5, <2>6 DEF CancelInv
<1>8. ASSUME NEW r \in rows[d], SkipRow(d, r) \/ RefuseQueued(d, r) \/ BeginSubmit(d, r)
      PROVE  CancelInv'
  <2>1. /\ pc[d] = "next" /\ pc'[d] \in {"next", "call"}
        /\ rows'[d] = rows[d] \ {r} /\ UNCHANGED <<cancels, cancelSent>>
    BY <1>0, <1>8 DEF SkipRow, RefuseQueued, BeginSubmit, Take, TypeOK, db
  <2>2. QED
    BY <1>0, <1>1, <2>1 DEF SentOK
<1>9. ASSUME NEW r \in rows[d], Watch(d, r)
      PROVE  CancelInv'
  <2>1. /\ pc[d] = "next" /\ pc'[d] \in {"mark", "poll", "next"}
        /\ rows'[d] = rows[d] \ {r} /\ UNCHANGED <<cancels, cancelSent>>
    BY <1>0, <1>9 DEF Watch, Take, TypeOK
  <2>2. \A q \in rows[d] : q.sent = cancelSent[q.task] /\ q \in [task : Tasks, sent : BOOLEAN]
    BY <1>0, <2>1 DEF SentOK, TypeOK
  <2>3. pc'[d] = "mark" => cur'[d] = r.task /\ ~r.sent
    BY <1>0, <1>9 DEF Watch, Take, TypeOK
  <2>4. \A q \in rows'[d] : q.task # r.task
    <3>1. SUFFICES ASSUME NEW q \in rows[d], q.task = r.task PROVE q = r
      BY <2>1
    <3>2. q.sent = r.sent
      BY <2>2, <3>1
    <3>3. QED
      BY <2>2, <3>1, <3>2
  <2>5. SentOK(d)'
    BY <2>1, <2>2, <2>3, <2>4 DEF SentOK
  <2>6. QED
    BY <1>1, <2>1, <2>5
<1>10. QED
  BY <1>3, <1>4, <1>5, <1>6, <1>7, <1>8, <1>9 DEF Dispatch

LEMMA CancelStep == Inv /\ CancelInv /\ [Next]_vars => CancelInv'
<1> SUFFICES ASSUME Inv, CancelInv, [Next]_vars PROVE CancelInv'
  OBVIOUS
<1>1. CASE Clients
  <2>1. UNCHANGED <<cancels, cancelSent, rows, pc, cur>>
    BY <1>1, Zenon DEF Clients, Submit, Claim, ReportResult, Message, Cancel, Expire, db, local, history
  <2>2. QED
    BY <2>1 DEF CancelInv, SentOK
<1>2. ASSUME NEW d \in Dispatchers, Dispatch(d)
      PROVE  CancelInv'
  BY <1>2, DispatchCancels
<1>3. ASSUME NEW d \in Dispatchers, Crash(d)
      PROVE  CancelInv'
  <2>1. pc'[d] = "idle" /\ UNCHANGED <<cancels, cancelSent>>
    BY <1>3 DEF Crash, Goto, Inv, TypeInv, TypeOK, db
  <2>2. \A e \in Dispatchers : pc'[e] = "idle"
    BY <1>3, <2>1, OneAtWork DEF Inv, TypeInv
  <2>3. QED
    BY <2>1, <2>2 DEF CancelInv, SentOK
<1>4. CASE Reconfigure \/ UNCHANGED vars
  BY <1>4 DEF Reconfigure, vars, db, local, history, CancelInv, SentOK
<1>5. QED
  BY <1>1, <1>2, <1>3, <1>4 DEF Next

\* A cancellation is sent to the provider at most once, whatever crashes come
\* between marking it and sending it (runtime.py, _advance).
THEOREM CancelIsSentOnce == Spec => []CancelSentOnce
<1>1. Init => CancelInv
  BY DEF Init, CancelInv, SentOK
<1>2. Spec => []CancelInv
  BY <1>1, CancelStep, Invariance, PTL DEF Spec
<1>3. CancelInv => CancelSentOnce
  BY DEF CancelInv, CancelSentOnce
<1>4. QED
  BY <1>2, <1>3, PTL

\* A cancellation on record was sent, is about to be, or its process died.
Accounted(t) == cancels[t] > 0 \/ t \in dropped \/ \E d \in Dispatchers : pc[d] = "send" /\ cur[d] = t
RecordsAccounted == \A t \in Tasks : cancelSent[t] => Accounted(t)

LEMMA AccountStep == Inv /\ RecordsAccounted /\ [Next]_vars => RecordsAccounted'
<1> SUFFICES ASSUME Inv, RecordsAccounted, [Next]_vars PROVE RecordsAccounted'
  OBVIOUS
<1> USE DEF history, Goto
<1>0. TypeOK /\ LocalOK /\ LockInv
  BY DEF Inv, TypeInv
\* Nothing that counts changes, but for a dispatcher at another step.
<1>1. ASSUME NEW d \in Dispatchers, pc[d] # "send", UNCHANGED <<cancels, cancelSent, dropped>>,
             \A e \in Dispatchers \ {d} : pc'[e] = pc[e] /\ cur'[e] = cur[e]
      PROVE  RecordsAccounted'
  BY <1>1 DEF RecordsAccounted, Accounted
<1>2. CASE Clients
  <2>1. UNCHANGED <<cancels, cancelSent, dropped, pc, cur>>
    BY <1>2, Zenon DEF Clients, Submit, Claim, ReportResult, Message, Cancel, Expire, db, local, history
  <2>2. QED
    BY <2>1 DEF RecordsAccounted, Accounted
<1>3. ASSUME NEW d \in Dispatchers, TickBegin(d) \/ Classify(d) \/ CallSubmit(d) \/ ReadBack(d)
                                      \/ StoreSubmit(d) \/ Poll(d) \/ Finish(d) \/ TickEnd(d)
      PROVE  RecordsAccounted'
  <2>1. /\ pc[d] # "send" /\ UNCHANGED <<cancels, cancelSent, dropped>>
        /\ \A e \in Dispatchers \ {d} : pc'[e] = pc[e] /\ cur'[e] = cur[e]
    BY <1>0, <1>3 DEF TickBegin, Classify, CallSubmit, ReadBack, StoreSubmit, Poll, Finish, TickEnd,
                      TypeOK, db
  <2>2. QED
    BY <1>1, <2>1
<1>4. ASSUME NEW d \in Dispatchers, NEW r \in rows[d],
             SkipRow(d, r) \/ RefuseQueued(d, r) \/ BeginSubmit(d, r) \/ Watch(d, r)
      PROVE  RecordsAccounted'
  <2>1. /\ pc[d] # "send" /\ UNCHANGED <<cancels, cancelSent, dropped>>
        /\ \A e \in Dispatchers \ {d} : pc'[e] = pc[e] /\ cur'[e] = cur[e]
    BY <1>0, <1>4 DEF SkipRow, RefuseQueued, BeginSubmit, Watch, Take, TypeOK, db
  <2>2. QED
    BY <1>1, <2>1
<1>5. ASSUME NEW d \in Dispatchers, MarkCancel(d)
      PROVE  RecordsAccounted'
  <2>1. /\ pc[d] = "mark" /\ pc'[d] = "send" /\ cur[d] \in Tasks
        /\ cancelSent' = [cancelSent EXCEPT ![cur[d]] = TRUE]
        /\ UNCHANGED <<cur, cancels, dropped>>
        /\ \A e \in Dispatchers \ {d} : pc'[e] = pc[e]
    BY <1>0, <1>5 DEF MarkCancel, RecordCancel, TypeOK, LocalOK
  <2>2. ASSUME NEW t \in Tasks, cancelSent'[t] PROVE Accounted(t)'
    <3>1. CASE t = cur[d]
      BY <2>1, <3>1 DEF Accounted
    <3>2. CASE t # cur[d]
      <4>1. Accounted(t)
        BY <1>0, <2>1, <2>2, <3>2 DEF RecordsAccounted, TypeOK
      <4>2. QED
        BY <2>1, <4>1 DEF Accounted
    <3>3. QED
      BY <3>1, <3>2
  <2>3. QED
    BY <2>2 DEF RecordsAccounted
<1>6. ASSUME NEW d \in Dispatchers, SendCancel(d)
      PROVE  RecordsAccounted'
  <2>1. /\ pc[d] = "send" /\ cur[d] \in Tasks
        /\ cancels' = [cancels EXCEPT ![cur[d]] = @ + 1] /\ UNCHANGED <<cancelSent, dropped>>
    BY <1>0, <1>6 DEF SendCancel, TypeOK, LocalOK, db
  <2>2. cancels'[cur[d]] > 0 /\ \A t \in Tasks \ {cur[d]} : cancels'[t] = cancels[t]
    BY <1>0, <2>1 DEF TypeOK
  <2>3. \A e \in Dispatchers : pc[e] = "send" => e = d
    <3>1. Dispatch(d)
      BY <1>6 DEF Dispatch
    <3>2. QED
      BY <1>0, <3>1, OneAtWork
  <2>4. QED
    BY <2>1, <2>2, <2>3 DEF RecordsAccounted, Accounted
<1>7. ASSUME NEW d \in Dispatchers, Crash(d)
      PROVE  RecordsAccounted'
  <2>1. /\ UNCHANGED <<cancels, cancelSent>> /\ dropped \subseteq dropped'
        /\ pc[d] = "send" => cur[d] \in dropped'
        /\ \A e \in Dispatchers \ {d} : pc'[e] = pc[e] /\ cur'[e] = cur[e]
    BY <1>0, <1>7 DEF Crash, TypeOK, db
  <2>2. QED
    BY <2>1 DEF RecordsAccounted, Accounted
<1>8. CASE Reconfigure \/ UNCHANGED vars
  BY <1>8 DEF Reconfigure, vars, db, local, RecordsAccounted, Accounted
<1>9. QED
  BY <1>2, <1>3, <1>4, <1>5, <1>6, <1>7, <1>8 DEF Next, Dispatch

\* The only cancellation on record that the provider may never get is one whose
\* process died between the record and the call (runtime.py, _advance).
THEOREM CancelsOnRecord == Spec => []RecordsAccounted
<1>1. Init => RecordsAccounted
  BY DEF Init, RecordsAccounted
<1>2. QED
  BY <1>1, AccountStep, Invariance, PTL DEF Spec

-----------------------------------------------------------------------------
(* Handles. *)

\* The task of a provider without workers, with no handle stored: while it is
\* unsettled a dispatcher is submitting it, or is about to give it up, and no
\* dispatcher has come further than that.
Awaited(d, t) ==
  /\ pc[d] = "classify" => t \in found[d]
  /\ pc[d] \in {"call", "readback", "store"} => t = cur[d]
  /\ pc[d] \notin {"next", "mark", "send", "poll", "finish"}

UnhandledOK(t) ==
  ApiTask(t) /\ ~handle[t] =>
    /\ status[t] # "running"
    /\ status[t] \in Unsettled => \A d \in Dispatchers : Awaited(d, t)

SeenOK(d) == pc[d] = "store" /\ reply[d] # "accepted" => seen[d] \in Unsettled

HandleInv == (\A t \in Tasks : UnhandledOK(t)) /\ (\A d \in Dispatchers : SeenOK(d))

\* A handle is stored for good.
LEMMA HandlesStay ==
  ASSUME TypeOK, LocalOK, [Next]_vars
  PROVE  \A t \in Tasks : handle[t] => handle'[t]
<1>1. CASE Clients
  BY <1>1 DEF Clients, Submit, Claim, ReportResult, Message, Cancel, Expire, db
<1>2. ASSUME NEW d \in Dispatchers, Dispatch(d)
      PROVE  \A t \in Tasks : handle[t] => handle'[t]
  <2>1. CASE UNCHANGED handle
    BY <2>1
  <2>2. CASE StoreSubmit(d)
    <3>1. handle \in [Tasks -> BOOLEAN]
      BY DEF TypeOK
    <3>2. handle' = [handle EXCEPT ![cur[d]] = TRUE] \/ handle' = handle
      BY <2>2 DEF StoreSubmit
    <3>3. QED
      BY <3>1, <3>2
  <2>3. QED
    BY <1>2, <2>1, <2>2 DEF Dispatch, TickBegin, Classify, CallSubmit, ReadBack, MarkCancel, SendCancel,
       Poll, Finish, TickEnd, SkipRow, RefuseQueued, BeginSubmit, Watch, db
<1>3. CASE (\E d \in Dispatchers : Crash(d)) \/ Reconfigure \/ UNCHANGED vars
  BY <1>3 DEF Crash, Reconfigure, vars, db
<1>4. QED
  BY <1>1, <1>2, <1>3 DEF Next

\* A step of a dispatcher moves it on, or takes a row.
LEMMA DispatchMoves ==
  ASSUME TypeOK, NEW d \in Dispatchers, Dispatch(d)
  PROVE  pc'[d] # pc[d] \/ rows'[d] # rows[d]
<1>1. ASSUME NEW r \in rows[d], Take(d, r)
      PROVE  rows'[d] # rows[d]
  BY <1>1 DEF Take, TypeOK
<1>2. QED
  BY <1>1 DEF Dispatch, TickBegin, Classify, CallSubmit, ReadBack, StoreSubmit, MarkCancel, SendCancel,
     Poll, Finish, TickEnd, SkipRow, RefuseQueued, BeginSubmit, Watch, Goto, TypeOK

LEMMA DispatchSeen ==
  ASSUME Inv, HandleInv, NEW d \in Dispatchers, Dispatch(d)
  PROVE  \A e \in Dispatchers : SeenOK(e)'
<1> USE DEF Goto
<1>0. TypeOK /\ LockInv
  BY DEF Inv, TypeInv
<1>1. \A e \in Dispatchers \ {d} : SeenOK(e)'
  BY <1>0, OneAtWork DEF SeenOK
<1>2. CASE ReadBack(d)
  BY <1>0, <1>1, <1>2 DEF ReadBack, SeenOK, TypeOK
<1>3. CASE ~ReadBack(d)
  <2>1. pc'[d] # "store"
    BY <1>0, <1>3 DEF Dispatch, TickBegin, Classify, CallSubmit, StoreSubmit, MarkCancel, SendCancel,
       Poll, Finish, TickEnd, SkipRow, RefuseQueued, BeginSubmit, Watch, Take, TypeOK
  <2>2. QED
    BY <1>1, <2>1 DEF SeenOK
<1>4. QED
  BY <1>2, <1>3

LEMMA DispatchHandles ==
  ASSUME Inv, HandleInv, NEW d \in Dispatchers, Dispatch(d), NEW t \in Tasks
  PROVE  UnhandledOK(t)'
<1> USE DEF Goto
<1>0. TypeOK /\ LocalOK /\ LockInv /\ RowInv /\ StepInv
  BY DEF Inv, TypeInv, TableInv
<1>1. [Next]_vars
  BY DEF Next
<1>2. ~ \E u \in Tasks, r \in Request : Submit(u, r)
  BY <1>0, DispatchMoves DEF Submit, local
<1>3. request' = request /\ (Exists(t)' => Exists(t))
  BY <1>0, <1>1, <1>2, OnlySubmitCreates
<1>4. SUFFICES ASSUME ApiTask(t), ~handle[t], ~handle'[t]
               PROVE  /\ status'[t] # "running"
                      /\ status'[t] \in Unsettled => Awaited(d, t)'
  <2>1. ApiTask(t)' => ApiTask(t)
    BY <1>3 DEF ApiTask
  <2>2. \A e \in Dispatchers \ {d} : Awaited(e, t)'
    BY <1>0, OneAtWork DEF Awaited
  <2>3. QED
    BY <1>0, <1>1, <2>1, <2>2, HandlesStay DEF UnhandledOK
<1>5. status[t] # "running" /\ (status[t] \in Unsettled => Awaited(d, t))
  BY <1>4 DEF HandleInv, UnhandledOK
<1>6. attempt[t] = None
  BY <1>0, <1>4 DEF ApiTask, Exists, RowInv
<1>7. CASE TickBegin(d)
  BY <1>0, <1>4, <1>5, <1>6, <1>7 DEF TickBegin, Abandoned, Unsettled, Awaited, TypeOK, db
<1>8. CASE Classify(d)
  BY <1>5, <1>8 DEF Classify, Unsettled, Awaited
<1>9. CASE CallSubmit(d)
  BY <1>0, <1>5, <1>9 DEF CallSubmit, Awaited, TypeOK, db
<1>10. CASE ReadBack(d)
  BY <1>0, <1>5, <1>6, <1>10 DEF ReadBack, Awaited, TypeOK, db
<1>11. CASE StoreSubmit(d)
  <2>1. CASE t # cur[d]
    <3>1. status[t] \notin Unsettled
      BY <1>5, <1>11, <2>1 DEF StoreSubmit, Awaited
    <3>2. status'[t] = status[t]
      BY <1>0, <1>11, <2>1 DEF StoreSubmit, SetStatus, TypeOK
    <3>3. QED
      BY <1>5, <3>1, <3>2
  <2>2. CASE t = cur[d]
    <3>1. reply[d] # "accepted"
      BY <1>0, <1>4, <1>11, <2>2 DEF StoreSubmit, TypeOK
    <3>2. seen[d] \in Unsettled
      BY <1>11, <3>1 DEF StoreSubmit, HandleInv, SeenOK
    <3>3. status'[t] \in {"failed", "outcome_unknown"}
      BY <1>0, <1>11, <2>2, <3>1, <3>2 DEF StoreSubmit, SetStatus, Outcome, TypeOK
    <3>4. QED
      BY <3>3 DEF Unsettled
  <2>3. QED
    BY <2>1, <2>2
<1>12. CASE MarkCancel(d) \/ SendCancel(d) \/ Poll(d) \/ TickEnd(d)
  BY <1>5, <1>12 DEF MarkCancel, SendCancel, Poll, TickEnd, Awaited, db
<1>13. CASE Finish(d)
  BY <1>0, <1>5, <1>13 DEF Finish, SetStatus, Awaited, TypeOK, LocalOK, TERMINAL, Unsettled
<1>14. ASSUME NEW r \in rows[d], SkipRow(d, r)
       PROVE  status'[t] # "running" /\ (status'[t] \in Unsettled => Awaited(d, t)')
  BY <1>5, <1>14 DEF SkipRow, Take, Awaited, db
<1>15. ASSUME NEW r \in rows[d], RefuseQueued(d, r)
       PROVE  status'[t] # "running" /\ (status'[t] \in Unsettled => Awaited(d, t)')
  <2>1. r.task \in Tasks
    BY <1>0 DEF TypeOK
  <2>2. /\ status'[t] \in {status[t], "cancelled", "failed"}
        /\ pc[d] = "next" /\ UNCHANGED <<pc, found, cur>>
    BY <1>0, <1>15, <2>1, StatusAt DEF RefuseQueued, Take
  <2>3. QED
    BY <1>5, <2>2 DEF Awaited, Unsettled
<1>16. ASSUME NEW r \in rows[d], BeginSubmit(d, r)
       PROVE  status'[t] # "running" /\ (status'[t] \in Unsettled => Awaited(d, t)')
  <2>1. pc[d] = "next" /\ pc'[d] = "call" /\ cur'[d] = r.task
        /\ status' = [status EXCEPT ![r.task] = "submitting"]
    BY <1>0, <1>16 DEF BeginSubmit, Take, SetStatus, TypeOK
  <2>2. QED
    BY <1>0, <1>5, <2>1 DEF Awaited, TypeOK
<1>17. ASSUME NEW r \in rows[d], Watch(d, r)
       PROVE  status'[t] # "running" /\ (status'[t] \in Unsettled => Awaited(d, t)')
  <2>1. status[t] \notin Unsettled
    BY <1>5, <1>17 DEF Watch, Take, Awaited
  <2>2. status'[t] = status[t]
    BY <1>0, <1>5, <1>17 DEF Watch, Overdue, SetStatus, TypeOK
  <2>3. QED
    BY <1>5, <2>1, <2>2
<1>18. QED
  BY <1>7, <1>8, <1>9, <1>10, <1>11, <1>12, <1>13, <1>14, <1>15, <1>16, <1>17 DEF Dispatch

LEMMA ClientsHandles ==
  ASSUME Inv, HandleInv, Clients
  PROVE  HandleInv'
<1>0. TypeOK /\ RowInv
  BY DEF Inv, TypeInv, TableInv
<1>1. UNCHANGED <<pc, found, cur, seen, reply, handle>>
  BY Zenon DEF Clients, Submit, Claim, ReportResult, Message, Cancel, Expire, db, local
<1>2. SUFFICES ASSUME NEW t \in Tasks PROVE UnhandledOK(t)'
  BY <1>1 DEF HandleInv, SeenOK
<1>3. UnhandledOK(t)
  BY DEF HandleInv
<1>4. ASSUME ApiTask(t)' => ApiTask(t), UNCHANGED status \/ status'[t] = status[t]
      PROVE  UnhandledOK(t)'
  BY <1>1, <1>3, <1>4 DEF UnhandledOK, Awaited
<1>5. ASSUME NEW u \in Tasks, NEW r \in Request, Submit(u, r)
      PROVE  UnhandledOK(t)'
  <2>1. CASE t = u
    BY <1>0, <1>5, <2>1 DEF Submit, SetStatus, UnhandledOK, Unsettled, TypeOK
  <2>2. CASE t # u
    BY <1>0, <1>5, <1>4, <2>2 DEF Submit, SetStatus, ApiTask, Exists, TypeOK
  <2>3. QED
    BY <2>1, <2>2
<1>6. ASSUME NEW u \in Tasks, NEW a \in Attempts, Claim(u, a)
      PROVE  UnhandledOK(t)'
  <2>1. CASE t = u
    BY <1>6, <2>1 DEF Claim, AgentTask, UnhandledOK, ApiTask
  <2>2. CASE t # u
    BY <1>0, <1>6, <1>4, <2>2 DEF Claim, SetStatus, ApiTask, Exists, TypeOK
  <2>3. QED
    BY <2>1, <2>2
<1>7. ASSUME NEW u \in Tasks, NEW a \in Attempts, NEW s \in Verdicts, ReportResult(u, a, s)
      PROVE  UnhandledOK(t)'
  <2>1. CASE t = u
    BY <1>7, <2>1 DEF ReportResult, AgentTask, UnhandledOK, ApiTask
  <2>2. CASE t # u
    BY <1>0, <1>7, <1>4, <2>2 DEF ReportResult, SetStatus, ApiTask, Exists, TypeOK
  <2>3. QED
    BY <2>1, <2>2
<1>8. ASSUME NEW u \in Tasks, Message(u) \/ Expire(u)
      PROVE  UnhandledOK(t)'
  BY <1>8, <1>4 DEF Message, Expire, ApiTask, Exists, db
<1>9. ASSUME NEW u \in Tasks, Cancel(u)
      PROVE  UnhandledOK(t)'
  <2>1. CASE t = u
    <3>1. Exists(t) /\ request' = request
      BY <1>9, <2>1 DEF Cancel, Cancellable, Exists
    <3>2. status[t] \notin {"outcome_unknown", "cancel_requested"} \cup TERMINAL
      BY <1>9, <2>1 DEF Cancel, Cancellable
    <3>3. status'[t] = CancelledForm(status[t])
      BY <1>0, <1>9, <2>1 DEF Cancel, SetStatus, TypeOK
    <3>4. status[t] \in {"queued", "submitting", "running"}
      BY <1>0, <3>1, <3>2 DEF TypeOK, Status, Exists
    <3>5. QED
      BY <1>1, <1>3, <3>1, <3>3, <3>4 DEF UnhandledOK, ApiTask, Awaited, CancelledForm, Unsettled
  <2>2. CASE t # u
    BY <1>0, <1>9, <1>4, <2>2 DEF Cancel, SetStatus, ApiTask, Exists, TypeOK
  <2>3. QED
    BY <2>1, <2>2
<1>10. QED
  BY <1>5, <1>6, <1>7, <1>8, <1>9 DEF Clients

LEMMA HandleStep == Inv /\ HandleInv /\ [Next]_vars => HandleInv'
<1> SUFFICES ASSUME Inv, HandleInv, [Next]_vars PROVE HandleInv'
  OBVIOUS
<1>1. CASE Clients
  BY <1>1, ClientsHandles
<1>2. ASSUME NEW d \in Dispatchers, Dispatch(d)
      PROVE  HandleInv'
  BY <1>2, DispatchHandles, DispatchSeen DEF HandleInv
<1>3. ASSUME NEW d \in Dispatchers, Crash(d)
      PROVE  HandleInv'
  <2>1. \A e \in Dispatchers : pc'[e] = "idle"
    BY <1>3, OneAtWork DEF Crash, Goto, Inv, TypeInv, TypeOK
  <2>2. QED
    BY <1>3, <2>1 DEF Crash, db, HandleInv, UnhandledOK, ApiTask, Exists, Awaited, SeenOK
<1>4. CASE Reconfigure \/ UNCHANGED vars
  BY <1>4 DEF Reconfigure, vars, db, local, HandleInv, UnhandledOK, ApiTask, Exists, Awaited, SeenOK
<1>5. QED
  BY <1>1, <1>2, <1>3, <1>4 DEF Next

LEMMA HandleInvariance == Spec => []HandleInv
<1>1. Init => HandleInv
  BY DEF Init, HandleInv, UnhandledOK, ApiTask, Exists, SeenOK
<1>2. QED
  BY <1>1, HandleStep, Invariance, PTL DEF Spec

LEMMA HandleAtWork == Inv /\ HandleInv => PollHasHandle
<1> SUFFICES ASSUME Inv, HandleInv, NEW d \in Dispatchers, pc[d] \in {"send", "poll", "finish"},
                    request[cur[d]].provider \notin CallbackDriven
             PROVE  handle[cur[d]]
  BY DEF PollHasHandle
<1>1. /\ cur[d] \in Tasks
      /\ status[cur[d]] \in {"running", "cancel_requested"}
  BY DEF Inv, TypeInv, LocalOK, StepInv, StepOK
<1>2. ApiTask(cur[d])
  BY <1>1 DEF ApiTask, Exists
<1>3. QED
  BY <1>1, <1>2 DEF HandleInv, UnhandledOK, Unsettled, Awaited

\* A provider without workers is polled, or told to cancel, only with the
\* handle of a run it accepted: what a dead process left without one is given
\* up before anything else is looked at (runtime.py, tick).
THEOREM PollsHaveHandles == Spec => []PollHasHandle
BY HandleAtWork, HandleInvariance, Invariance, PTL

-----------------------------------------------------------------------------
(* The abstract lifecycle. *)

\* What a dispatcher knows of a task of a provider without workers: nobody
\* but itself and cancel() touches the task it submits or gives up.
ApiStepOK(d) ==
  /\ pc[d] = "classify" => \A t \in found[d] : ApiTask(t) => status[t] \in Unsettled
  /\ pc[d] \in {"call", "readback", "store"} /\ ApiTask(cur[d]) => status[cur[d]] \in Unsettled
  /\ pc[d] \in {"readback", "store"} => calls[cur[d]] = 1
  /\ pc[d] = "store" /\ ApiTask(cur[d]) => seen[d] \in Unsettled

\* A handle is the provider's answer to the one call.
ApiInv ==
  /\ \A t \in Tasks : handle[t] => calls[t] = 1
  /\ \A d \in Dispatchers : ApiStepOK(d)

\* Every step but a submission and CallSubmit leaves the calls alone.
LEMMA CallsStay ==
  ASSUME [Next]_vars, ~ \E d \in Dispatchers : CallSubmit(d)
  PROVE  UNCHANGED calls
<1>1. CASE Clients
  BY <1>1 DEF Clients, Submit, Claim, ReportResult, Message, Cancel, Expire, history
<1>2. CASE \E d \in Dispatchers : Dispatch(d) \/ Crash(d)
  BY <1>2 DEF Dispatch, TickBegin, Classify, ReadBack, StoreSubmit, MarkCancel, SendCancel,
     Poll, Finish, TickEnd, SkipRow, RefuseQueued, BeginSubmit, Watch, Crash, history
<1>3. CASE Reconfigure \/ UNCHANGED vars
  BY <1>3 DEF Reconfigure, vars, history
<1>4. QED
  BY <1>1, <1>2, <1>3 DEF Next

LEMMA DispatchApi ==
  ASSUME Inv, ApiInv, NEW d \in Dispatchers, Dispatch(d)
  PROVE  ApiInv'
<1> USE DEF Goto
<1>0. TypeOK /\ LocalOK /\ LockInv /\ RowInv /\ StepOK(d) /\ ApiStepOK(d)
  BY DEF Inv, TypeInv, TableInv, StepInv, ApiInv
<1>1. ~ \E u \in Tasks, r \in Request : Submit(u, r)
  BY <1>0, DispatchMoves DEF Submit, local
<1>2. [Next]_vars
  BY DEF Next
<1>3. request' = request /\ \A t \in Tasks : ApiTask(t)' => ApiTask(t)
  BY <1>0, <1>1, <1>2, OnlySubmitCreates DEF Inv, ApiTask
<1>4. \A e \in Dispatchers \ {d} : ApiStepOK(e)'
  BY <1>0, OneAtWork DEF ApiStepOK
<1>5. \A t \in Tasks : handle'[t] => handle[t] \/ (pc[d] = "store" /\ t = cur[d])
  BY <1>0 DEF Dispatch, TickBegin, Classify, CallSubmit, ReadBack, StoreSubmit, MarkCancel, SendCancel,
     Poll, Finish, TickEnd, SkipRow, RefuseQueued, BeginSubmit, Watch, TypeOK, LocalOK, db
<1>6. CASE CallSubmit(d)
  <2>1. /\ pc[d] = "call" /\ pc'[d] = "readback" /\ cur[d] \in Tasks
        /\ calls' = [calls EXCEPT ![cur[d]] = @ + 1]
        /\ UNCHANGED <<request, status, handle, cur>>
    BY <1>0, <1>6 DEF CallSubmit, TypeOK, LocalOK, db
  <2>2. calls[cur[d]] = 0
    BY <1>0, <2>1 DEF StepOK
  <2>3. calls'[cur[d]] = 1 /\ \A t \in Tasks \ {cur[d]} : calls'[t] = calls[t]
    BY <1>0, <2>1, <2>2 DEF TypeOK
  <2>4. ApiStepOK(d)'
    BY <1>0, <2>1, <2>3 DEF ApiStepOK, ApiTask, Exists
  <2>5. QED
    BY <1>4, <2>1, <2>3, <2>4 DEF ApiInv, ApiTask, Exists
<1>7. CASE ~CallSubmit(d)
  <2>1. UNCHANGED calls
    BY <1>0, <1>2, <1>7, OneAtWork, CallsStay DEF CallSubmit
  <2>2. \A t \in Tasks : handle'[t] => calls'[t] = 1
    BY <1>0, <1>5, <2>1 DEF ApiInv, ApiStepOK
  <2>3. SUFFICES ApiStepOK(d)'
    BY <1>4, <2>2 DEF ApiInv
  <2>4. CASE TickBegin(d)
    BY <1>0, <2>4 DEF TickBegin, Abandoned, Unsettled, ApiStepOK, TypeOK, db
  <2>5. CASE ReadBack(d)
    BY <1>0, <2>1, <2>5 DEF ReadBack, ApiStepOK, ApiTask, Exists, TypeOK, db
  <2>6. ASSUME NEW r \in rows[d], BeginSubmit(d, r)
        PROVE  ApiStepOK(d)'
    <3>1. pc'[d] = "call" /\ cur'[d] = r.task /\ r.task \in Tasks
      BY <1>0, <2>6 DEF BeginSubmit, TypeOK
    <3>2. status'[r.task] = "submitting"
      BY <1>0, <2>6, <3>1 DEF BeginSubmit, SetStatus, TypeOK
    <3>3. QED
      BY <3>1, <3>2 DEF ApiStepOK, Unsettled
  <2>7. CASE ~TickBegin(d) /\ ~ReadBack(d) /\ ~ \E r \in rows[d] : BeginSubmit(d, r)
    <3>1. pc'[d] \notin {"classify", "call", "readback", "store"}
      BY <1>0, <1>7, <2>7 DEF Dispatch, Classify, StoreSubmit, MarkCancel, SendCancel, Poll, Finish,
         TickEnd, SkipRow, RefuseQueued, Watch, Take, TypeOK
    <3>2. QED
      BY <3>1 DEF ApiStepOK
  <2>8. QED
    BY <2>4, <2>5, <2>6, <2>7
<1>8. QED
  BY <1>6, <1>7

\* No client and no worker writes over the request of an existing task.
LEMMA ClientsRequest ==
  ASSUME TypeOK, Clients, NEW t \in Tasks, status[t] # "absent"
  PROVE  request'[t] = request[t]
<1>1. ASSUME NEW u \in Tasks, NEW r \in Request, Submit(u, r)
      PROVE  request'[t] = request[t]
  <2>1. u # t /\ request' = [request EXCEPT ![u] = r]
    BY <1>1 DEF Submit, Exists
  <2>2. request \in [Tasks -> Request \cup {None}]
    BY DEF TypeOK
  <2>3. QED
    BY <2>1, <2>2
<1>2. CASE UNCHANGED request
  BY <1>2
<1>3. QED
  BY <1>1, <1>2 DEF Clients, Claim, ReportResult, Message, Cancel, Expire, db

\* Clients leave an unsettled task without workers unsettled.
LEMMA ClientsUnsettled ==
  ASSUME TypeOK, Clients, NEW t \in Tasks, ApiTask(t), status[t] \in Unsettled
  PROVE  status'[t] \in Unsettled
<1>1. ASSUME NEW u \in Tasks, NEW r \in Request, Submit(u, r)
      PROVE  status'[t] \in Unsettled
  <2>1. u # t
    BY <1>1 DEF Submit, ApiTask
  <2>2. SetStatus(u, "queued")
    BY <1>1 DEF Submit
  <2>3. QED
    BY <2>1, <2>2, StatusAt
<1>2. ASSUME NEW u \in Tasks, NEW a \in Attempts, Claim(u, a)
      PROVE  status'[t] \in Unsettled
  <2>1. u # t
    BY <1>2 DEF Claim, AgentTask, ApiTask
  <2>2. SetStatus(u, "running")
    BY <1>2 DEF Claim
  <2>3. QED
    BY <2>1, <2>2, StatusAt
<1>3. ASSUME NEW u \in Tasks, NEW a \in Attempts, NEW s \in Verdicts, ReportResult(u, a, s)
      PROVE  status'[t] \in Unsettled
  <2>1. u # t
    BY <1>3 DEF ReportResult, AgentTask, ApiTask
  <2>2. SetStatus(u, s)
    BY <1>3 DEF ReportResult
  <2>3. QED
    BY <2>1, <2>2, StatusAt
<1>4. ASSUME NEW u \in Tasks, Cancel(u)
      PROVE  status'[t] \in Unsettled
  <2>1. SetStatus(u, CancelledForm(status[u]))
    BY <1>4 DEF Cancel
  <2>2. u = t => CancelledForm(status[u]) \in Unsettled
    BY DEF CancelledForm, Unsettled
  <2>3. QED
    BY <2>1, <2>2, StatusAt
<1>5. CASE UNCHANGED status
  BY <1>5
<1>6. QED
  BY <1>1, <1>2, <1>3, <1>4, <1>5 DEF Clients, Message, Expire, db

LEMMA ClientsApi ==
  ASSUME Inv, ApiInv, Clients
  PROVE  ApiInv'
<1>0. TypeOK /\ LocalOK /\ RowInv /\ StepInv
  BY DEF Inv, TypeInv, TableInv
<1>1. UNCHANGED <<pc, found, cur, seen, reply, handle, calls>>
  BY Zenon DEF Clients, Submit, Claim, ReportResult, Message, Cancel, Expire, db, local, history
<1>2. ASSUME NEW t \in Tasks, ApiTask(t), status[t] \in Unsettled
      PROVE  status'[t] \in Unsettled /\ request'[t] = request[t]
  BY <1>0, <1>2, ClientsRequest, ClientsUnsettled DEF ApiTask, Exists
<1>3. ASSUME NEW t \in Tasks, status[t] # "absent"
      PROVE  request'[t] = request[t]
  BY <1>0, <1>3, ClientsRequest
<1>4. \A t \in Tasks : status[t] # "absent" => (ApiTask(t)' => ApiTask(t))
  BY <1>3 DEF ApiTask, Exists
<1>5. ASSUME NEW d \in Dispatchers
      PROVE  ApiStepOK(d)'
  <2>1. ApiStepOK(d) /\ StepOK(d)
    BY <1>0 DEF ApiInv, StepInv
  <2>2. pc[d] = "classify" => \A t \in found[d] : t \in Tasks /\ status[t] # "absent"
    BY <1>0, <2>1 DEF StepOK, TypeOK
  <2>3. pc[d] \in {"call", "readback", "store"} => cur[d] \in Tasks /\ status[cur[d]] # "absent"
    BY <1>0, <2>1 DEF StepOK, LocalOK
  <2>4. QED
    BY <1>1, <1>2, <1>4, <2>1, <2>2, <2>3 DEF ApiStepOK
<1>6. QED
  BY <1>1, <1>5 DEF ApiInv

LEMMA ApiStep == Inv /\ ApiInv /\ [Next]_vars => ApiInv'
<1> SUFFICES ASSUME Inv, ApiInv, [Next]_vars PROVE ApiInv'
  OBVIOUS
<1>1. CASE Clients
  BY <1>1, ClientsApi
<1>2. ASSUME NEW d \in Dispatchers, Dispatch(d)
      PROVE  ApiInv'
  BY <1>2, DispatchApi
<1>3. ASSUME NEW d \in Dispatchers, Crash(d)
      PROVE  ApiInv'
  <2>1. \A e \in Dispatchers : pc'[e] = "idle"
    BY <1>3, OneAtWork DEF Crash, Goto, Inv, TypeInv, TypeOK
  <2>2. QED
    BY <1>3, <2>1 DEF Crash, db, ApiInv, ApiStepOK
<1>4. CASE Reconfigure \/ UNCHANGED vars
  BY <1>4 DEF Reconfigure, vars, db, local, history, ApiInv, ApiStepOK, ApiTask, Exists
<1>5. QED
  BY <1>1, <1>2, <1>3, <1>4 DEF Next

LEMMA ApiInvariance == Spec => []ApiInv
<1>1. Init => ApiInv
  BY DEF Init, ApiInv, ApiStepOK
<1>2. QED
  BY <1>1, ApiStep, Invariance, PTL DEF Spec

\* What the abstract lifecycle shows of one task.
Phase(t) == IF ApiTask(t) THEN PhaseOf(status[t]) ELSE "none"
OwnerOf(t) == IF ApiTask(t) THEN request[t].owner ELSE None
Started(t) == IF ApiTask(t) THEN calls[t] ELSE 0
Result(t) == IF ApiTask(t) /\ status[t] \in TERMINAL THEN status[t] ELSE "none"
Same(t) == UNCHANGED <<Phase(t), OwnerOf(t), Started(t), Result(t)>>

\* One step of the lifecycle from what happens to the tasks one by one.
LEMMA Stutters ==
  ASSUME \A t \in Tasks : Same(t)
  PROVE  UNCHANGED Lifecycle!vars
BY DEF Lifecycle!vars, Same, Phase, OwnerOf, Started, Result

\* The two modules count with the same operator.
LEMMA SameCardinality == \A S : Lifecycle!Cardinality(S) = Cardinality(S)
BY DEF Cardinality, Lifecycle!Cardinality

LEMMA Accepts ==
  ASSUME NEW t \in Tasks, NEW o \in Owners, \A u \in Tasks \ {t} : Same(u),
         Phase(t) = "none", Cardinality(Lifecycle!Open(o)) < MaxActive,
         Phase(t)' = "queued", OwnerOf(t)' = o, UNCHANGED <<Started(t), Result(t)>>
  PROVE  Lifecycle!Accept(t, o)
BY SameCardinality DEF Lifecycle!Accept, Same, Phase, OwnerOf, Started, Result

LEMMA Refuses ==
  ASSUME NEW t \in Tasks, \A u \in Tasks \ {t} : Same(u),
         Phase(t) = "queued", Phase(t)' = "done", Result(t)' \in {"cancelled", "failed"},
         UNCHANGED <<OwnerOf(t), Started(t)>>
  PROVE  Lifecycle!Refuse(t)
BY DEF Lifecycle!Refuse, Same, Phase, OwnerOf, Started, Result

LEMMA Activates ==
  ASSUME NEW t \in Tasks, \A u \in Tasks \ {t} : Same(u),
         Phase(t) = "queued", Phase(t)' = "active",
         UNCHANGED <<OwnerOf(t), Started(t), Result(t)>>
  PROVE  Lifecycle!Activate(t)
BY DEF Lifecycle!Activate, Same, Phase, OwnerOf, Started, Result

LEMMA Starts ==
  ASSUME NEW t \in Tasks, \A u \in Tasks \ {t} : Same(u),
         Phase(t) = "active", Started(t) = 0, Started(t)' = 1,
         UNCHANGED <<Phase(t), OwnerOf(t), Result(t)>>
  PROVE  Lifecycle!Start(t)
BY DEF Lifecycle!Start, Same, Phase, OwnerOf, Started, Result

LEMMA Settles ==
  ASSUME NEW t \in Tasks, \A u \in Tasks \ {t} : Same(u),
         Phase(t) = "active", Started(t) = 1, Phase(t)' = "done", Result(t)' \in TERMINAL,
         UNCHANGED <<OwnerOf(t), Started(t)>>
  PROVE  Lifecycle!Settle(t)
BY DEF Lifecycle!Settle, Lifecycle!Results, TERMINAL, Same, Phase, OwnerOf, Started, Result

LEMMA Loses ==
  ASSUME NEW S \in SUBSET Tasks, S # {}, \A u \in Tasks \ S : Same(u),
         \A t \in S : /\ Phase(t) = "active" /\ Phase(t)' = "unknown"
                      /\ UNCHANGED <<OwnerOf(t), Started(t), Result(t)>>
  PROVE  Lifecycle!Lose(S)
BY DEF Lifecycle!Lose, Same, Phase, OwnerOf, Started, Result

\* A task whose row and calls a step leaves alone looks the same.
LEMMA SameRow ==
  ASSUME NEW t, UNCHANGED <<status[t], request[t], calls[t]>>
  PROVE  Same(t)
BY DEF Same, Phase, OwnerOf, Started, Result, ApiTask, Exists

\* So does a worker's task, whatever happens to it.
LEMMA SameAgent ==
  ASSUME NEW t, ~ApiTask(t), ~ApiTask(t)'
  PROVE  Same(t)
BY DEF Same, Phase, OwnerOf, Started, Result

\* The open tasks of the lifecycle take places of the project's quota.
LEMMA OpenIsActive ==
  ASSUME NEW o \in Owners
  PROVE  Lifecycle!Open(o) \subseteq Active(o)
BY DEF Lifecycle!Open, Active, ApiTask, PhaseOf, TERMINAL

LEMMA ClientsLifecycle ==
  ASSUME Inv, Clients
  PROVE  Lifecycle!Next \/ UNCHANGED Lifecycle!vars
<1> USE DEF history
<1>0. TypeOK /\ RowInv
  BY DEF Inv, TypeInv, TableInv
<1>1. ASSUME NEW t \in Tasks, NEW r \in Request, Submit(t, r)
      PROVE  Lifecycle!Next \/ UNCHANGED Lifecycle!vars
  <2>1. /\ ~Exists(t) /\ status'[t] = "queued" /\ request'[t] = r
        /\ \A u \in Tasks \ {t} : UNCHANGED <<status[u], request[u]>>
        /\ UNCHANGED calls
    BY <1>0, <1>1 DEF Submit, SetStatus, TypeOK
  <2>2. \A u \in Tasks \ {t} : Same(u)
    BY <2>1, SameRow
  <2>3. CASE r.provider \in CallbackDriven
    <3>1. Same(t)
      BY <2>1, <2>3, SameAgent DEF ApiTask
    <3>2. QED
      BY <2>2, <3>1, Stutters
  <2>4. CASE r.provider \notin CallbackDriven
    <3>1. r.owner \in Owners /\ Cardinality(Active(r.owner)) < MaxActive
      BY <1>1 DEF Submit, QuotaFree, Request
    <3>2. Active(r.owner) \subseteq Tasks
      BY DEF Active
    <3>3. Cardinality(Lifecycle!Open(r.owner)) < MaxActive
      BY <3>1, <3>2, OpenIsActive, SubsetCardinality, BoundsAssumption
    <3>4. ~ApiTask(t) /\ ApiTask(t)' /\ calls[t] = 0
      BY <1>0, <2>1, <2>4 DEF ApiTask, Exists, RowInv
    <3>5. /\ Phase(t) = "none" /\ Phase(t)' = "queued" /\ OwnerOf(t)' = r.owner
          /\ UNCHANGED <<Started(t), Result(t)>>
      BY <2>1, <3>4 DEF Phase, PhaseOf, OwnerOf, Started, Result, TERMINAL
    <3>6. Lifecycle!Accept(t, r.owner)
      BY <2>2, <3>1, <3>3, <3>5, Accepts
    <3>7. QED
      BY <3>1, <3>6 DEF Lifecycle!Next
  <2>5. QED
    BY <2>3, <2>4
<1>2. ASSUME NEW t \in Tasks, NEW a \in Attempts,
             Claim(t, a) \/ \E s \in Verdicts : ReportResult(t, a, s)
      PROVE  Lifecycle!Next \/ UNCHANGED Lifecycle!vars
  <2>1. /\ AgentTask(t) /\ UNCHANGED <<request, calls>>
        /\ \A u \in Tasks \ {t} : status'[u] = status[u]
    BY <1>0, <1>2 DEF Claim, ReportResult, SetStatus, TypeOK
  <2>2. Same(t)
    BY <2>1, SameAgent DEF AgentTask, ApiTask
  <2>3. \A u \in Tasks : Same(u)
    BY <2>1, <2>2, SameRow
  <2>4. QED
    BY <2>3, Stutters
<1>3. ASSUME NEW t \in Tasks, Message(t) \/ Expire(t)
      PROVE  Lifecycle!Next \/ UNCHANGED Lifecycle!vars
  <2>1. UNCHANGED <<status, request, calls>>
    BY <1>3 DEF Message, Expire, db
  <2>2. QED
    BY <2>1, SameRow, Stutters
<1>4. ASSUME NEW t \in Tasks, Cancel(t)
      PROVE  Lifecycle!Next \/ UNCHANGED Lifecycle!vars
  <2>1. /\ Cancellable(status[t]) /\ status'[t] = CancelledForm(status[t])
        /\ UNCHANGED <<request, calls>>
        /\ \A u \in Tasks \ {t} : status'[u] = status[u]
    BY <1>0, <1>4 DEF Cancel, SetStatus, TypeOK
  <2>2. \A u \in Tasks \ {t} : Same(u)
    BY <2>1, SameRow
  <2>3. status[t] \in {"queued", "submitting", "running"}
    BY <1>0, <2>1 DEF Cancellable, TypeOK, Status
  <2>4. ApiTask(t)' = ApiTask(t)
    BY <2>1, <2>3 DEF CancelledForm, ApiTask, Exists
  <2>5. CASE ApiTask(t) /\ status[t] = "queued"
    <3>1. /\ Phase(t) = "queued" /\ Phase(t)' = "done" /\ Result(t)' \in {"cancelled", "failed"}
          /\ UNCHANGED <<OwnerOf(t), Started(t)>>
      BY <2>1, <2>4, <2>5 DEF CancelledForm, Phase, PhaseOf, Result, OwnerOf, Started, TERMINAL
    <3>2. QED
      BY <2>2, <3>1, Refuses DEF Lifecycle!Next
  <2>6. CASE ~(ApiTask(t) /\ status[t] = "queued")
    <3>1. Same(t)
      BY <2>1, <2>3, <2>4, <2>6 DEF CancelledForm, Same, Phase, PhaseOf, Result, OwnerOf, Started, TERMINAL
    <3>2. QED
      BY <2>2, <3>1, Stutters
  <2>7. QED
    BY <2>5, <2>6
<1>5. QED
  BY <1>1, <1>2, <1>3, <1>4 DEF Clients

LEMMA DispatchLifecycle ==
  ASSUME Inv, HandleInv, ApiInv, NEW d \in Dispatchers, Dispatch(d)
  PROVE  Lifecycle!Next \/ UNCHANGED Lifecycle!vars
<1> USE DEF history
<1>0. TypeOK /\ LocalOK /\ RowInv /\ StepOK(d) /\ ApiStepOK(d)
  BY DEF Inv, TypeInv, TableInv, StepInv, ApiInv
<1>1. CASE UNCHANGED <<status, request, calls>>
  BY <1>1, SameRow, Stutters
<1>2. CASE Classify(d)
  <2> DEFINE S == {t \in found[d] : ApiTask(t)}
  <2>1. /\ pc[d] = "classify" /\ found[d] \subseteq Tasks /\ UNCHANGED <<request, calls>>
        /\ \A t \in found[d] : status'[t] = "outcome_unknown" /\ status[t] # "absent"
        /\ \A t \in Tasks \ found[d] : status'[t] = status[t]
    BY <1>0, <1>2 DEF Classify, TypeOK, StepOK
  <2>2. \A t \in Tasks \ S : Same(t)
    <3>1. \A t \in Tasks \ found[d] : Same(t)
      BY <2>1, SameRow
    <3>2. \A t \in found[d] : ~ApiTask(t) => ~ApiTask(t)'
      BY <2>1 DEF ApiTask, Exists
    <3>3. QED
      BY <3>1, <3>2, SameAgent
  <2>3. CASE S = {}
    BY <2>2, <2>3, Stutters
  <2>4. CASE S # {}
    <3>1. ASSUME NEW t \in S
          PROVE  /\ Phase(t) = "active" /\ Phase(t)' = "unknown"
                 /\ UNCHANGED <<OwnerOf(t), Started(t), Result(t)>>
      <4>1. ApiTask(t) /\ ApiTask(t)' /\ status[t] \in Unsettled /\ status'[t] = "outcome_unknown"
        BY <1>0, <2>1 DEF ApiStepOK, ApiTask, Exists
      <4>2. QED
        BY <2>1, <4>1 DEF Unsettled, Phase, PhaseOf, OwnerOf, Started, Result, TERMINAL
    <3>2. S \in SUBSET Tasks
      BY <2>1
    <3>3. Lifecycle!Lose(S)
      BY <2>2, <2>4, <3>1, <3>2, Loses
    <3>4. QED
      BY <3>2, <3>3 DEF Lifecycle!Next
  <2>5. QED
    BY <2>3, <2>4
<1>3. CASE CallSubmit(d)
  <2>0. PICK t \in Tasks : t = cur[d]
    BY <1>0, <1>3 DEF CallSubmit, LocalOK
  <2>1. /\ pc[d] = "call" /\ t \in Tasks /\ calls[t] = 0 /\ calls'[t] = 1
        /\ UNCHANGED <<status, request>>
        /\ \A u \in Tasks \ {t} : calls'[u] = calls[u]
    BY <2>0, <1>0, <1>3 DEF CallSubmit, TypeOK, LocalOK, StepOK, db
  <2>2. \A u \in Tasks \ {t} : Same(u)
    BY <2>1, SameRow
  <2>3. ApiTask(t)' = ApiTask(t)
    BY <2>1 DEF ApiTask, Exists
  <2>4. CASE ApiTask(t)
    <3>1. status[t] \in Unsettled
      BY <1>0, <2>0, <2>1, <2>4 DEF ApiStepOK
    <3>2. Phase(t) = "active" /\ Started(t) = 0 /\ Started(t)' = 1
      BY <2>1, <2>4, <3>1 DEF Unsettled, Phase, PhaseOf, Started, ApiTask, Exists, TERMINAL
    <3>3. UNCHANGED <<Phase(t), OwnerOf(t), Result(t)>>
      BY <2>1, <2>3 DEF Phase, OwnerOf, Result
    <3>4. QED
      BY <2>1, <2>2, <3>2, <3>3, Starts DEF Lifecycle!Next
  <2>5. CASE ~ApiTask(t)
    BY <2>2, <2>3, <2>5, SameAgent, Stutters
  <2>6. QED
    BY <2>4, <2>5
<1>4. CASE StoreSubmit(d)
  <2>0. PICK t \in Tasks : t = cur[d]
    BY <1>0, <1>4 DEF StoreSubmit, LocalOK
  <2>1. /\ pc[d] = "store" /\ t \in Tasks /\ calls[t] = 1 /\ reply[d] \in SubmitReply
        /\ status[t] # "absent"
        /\ UNCHANGED <<request, calls>>
    BY <2>0, <1>0, <1>4 DEF StoreSubmit, LocalOK, StepOK, ApiStepOK
  <2>2. /\ \A u \in Tasks \ {t} : status'[u] = status[u]
        /\ status'[t] = IF seen[d] \in Unsettled THEN Outcome(d) ELSE status[t]
    <3>1. CASE seen[d] \in Unsettled
      BY <1>0, <1>4, <2>0, <2>1, <3>1 DEF StoreSubmit, SetStatus, TypeOK
    <3>2. CASE seen[d] \notin Unsettled
      BY <1>4, <2>0, <3>2 DEF StoreSubmit
    <3>3. QED
      BY <3>1, <3>2
  <2>3. \A u \in Tasks \ {t} : Same(u)
    BY <2>1, <2>2, SameRow
  <2>4. status'[t] # "absent" /\ ApiTask(t)' = ApiTask(t)
    BY <2>1, <2>2 DEF Outcome, ApiTask, Exists
  <2>5. CASE ~ApiTask(t)
    BY <2>3, <2>4, <2>5, SameAgent, Stutters
  <2>6. CASE ApiTask(t)
    <3>1. status[t] \in Unsettled /\ status'[t] = Outcome(d)
      BY <1>0, <2>0, <2>1, <2>2, <2>6 DEF ApiStepOK
    <3>2. Phase(t) = "active" /\ Result(t) = "none" /\ Started(t) = 1
      BY <2>1, <2>6, <3>1 DEF Unsettled, Phase, PhaseOf, Result, Started, TERMINAL
    <3>3. UNCHANGED <<OwnerOf(t), Started(t)>>
      BY <2>1, <2>4 DEF OwnerOf, Started
    <3>4. CASE reply[d] = "accepted"
      <4>1. status'[t] \in {"running", "cancel_requested"}
        BY <3>1, <3>4 DEF Outcome
      <4>2. Phase(t)' = "active" /\ Result(t)' = "none"
        BY <2>4, <2>6, <4>1 DEF Phase, PhaseOf, Result, TERMINAL
      <4>3. QED
        BY <2>3, <3>2, <3>3, <4>2, Stutters DEF Same
    <3>5. CASE reply[d] = "rejected"
      <4>1. Phase(t)' = "done" /\ Result(t)' \in TERMINAL
        BY <2>4, <2>6, <3>1, <3>5 DEF Outcome, Phase, PhaseOf, Result, TERMINAL
      <4>2. QED
        BY <2>1, <2>3, <3>2, <3>3, <4>1, Settles DEF Lifecycle!Next
    <3>6. CASE reply[d] = "raised"
      <4>1. Phase(t)' = "unknown" /\ Result(t)' = "none"
        BY <2>4, <2>6, <3>1, <3>6 DEF Outcome, Phase, PhaseOf, Result, TERMINAL
      <4>2. Lifecycle!Lose({t})
        BY <2>1, <2>3, <3>2, <3>3, <4>1, Loses
      <4>3. QED
        BY <2>1, <4>2 DEF Lifecycle!Next
    <3>7. QED
      BY <2>1, <3>4, <3>5, <3>6 DEF SubmitReply
  <2>7. QED
    BY <2>5, <2>6
<1>5. CASE Finish(d)
  <2>0. PICK t \in Tasks : t = cur[d]
    BY <1>0, <1>5 DEF Finish, LocalOK
  <2>1. /\ pc[d] = "finish" /\ t \in Tasks /\ reply[d] \in TERMINAL
        /\ status[t] \in {"running", "cancel_requested"}
        /\ request[t].provider \notin CallbackDriven
        /\ UNCHANGED <<request, calls>>
    BY <2>0, <1>0, <1>5 DEF Finish, LocalOK, StepOK
  <2>2. status'[t] = reply[d] /\ \A u \in Tasks \ {t} : status'[u] = status[u]
    BY <1>0, <1>5, <2>0, <2>1 DEF Finish, SetStatus, TypeOK
  <2>3. calls[t] = 1
    BY <2>0, <2>1, HandleAtWork DEF PollHasHandle, ApiInv
  <2>4. ApiTask(t) /\ ApiTask(t)'
    BY <2>1, <2>2 DEF ApiTask, Exists, TERMINAL
  <2>5. /\ Phase(t) = "active" /\ Started(t) = 1 /\ Phase(t)' = "done" /\ Result(t)' \in TERMINAL
        /\ UNCHANGED <<OwnerOf(t), Started(t)>>
    BY <2>1, <2>2, <2>3, <2>4 DEF Phase, PhaseOf, Started, Result, OwnerOf, TERMINAL
  <2>6. \A u \in Tasks \ {t} : Same(u)
    BY <2>1, <2>2, SameRow
  <2>7. QED
    BY <2>1, <2>5, <2>6, Settles DEF Lifecycle!Next
<1>6. ASSUME NEW r \in rows[d], RefuseQueued(d, r) \/ BeginSubmit(d, r)
      PROVE  Lifecycle!Next \/ UNCHANGED Lifecycle!vars
  <2> DEFINE t == r.task
  <2>1. /\ t \in Tasks /\ status[t] = "queued" /\ UNCHANGED <<request, calls>>
        /\ \A u \in Tasks \ {t} : status'[u] = status[u]
    BY <1>0, <1>6 DEF RefuseQueued, BeginSubmit, SetStatus, TypeOK
  <2>2. \/ RefuseQueued(d, r) /\ status'[t] \in {"cancelled", "failed"}
        \/ BeginSubmit(d, r) /\ status'[t] = "submitting"
    BY <1>0, <1>6, <2>1, Zenon DEF RefuseQueued, BeginSubmit, SetStatus, TypeOK
  <2>3. \A u \in Tasks \ {t} : Same(u)
    BY <2>1, SameRow
  <2>4. ApiTask(t)' = ApiTask(t)
    BY <2>1, <2>2 DEF ApiTask, Exists
  <2>5. CASE ~ApiTask(t)
    BY <2>3, <2>4, <2>5, SameAgent, Stutters
  <2>6. CASE ApiTask(t) /\ status'[t] = "submitting"
    <3>1. /\ Phase(t) = "queued" /\ Phase(t)' = "active"
          /\ UNCHANGED <<OwnerOf(t), Started(t), Result(t)>>
      BY <2>1, <2>4, <2>6 DEF Phase, PhaseOf, OwnerOf, Started, Result, TERMINAL
    <3>2. QED
      BY <2>1, <2>3, <3>1, Activates DEF Lifecycle!Next
  <2>7. CASE ApiTask(t) /\ status'[t] \in {"cancelled", "failed"}
    <3>1. /\ Phase(t) = "queued" /\ Phase(t)' = "done" /\ Result(t)' \in {"cancelled", "failed"}
          /\ UNCHANGED <<OwnerOf(t), Started(t)>>
      BY <2>1, <2>4, <2>7 DEF Phase, PhaseOf, OwnerOf, Started, Result, TERMINAL
    <3>2. QED
      BY <2>1, <2>3, <3>1, Refuses DEF Lifecycle!Next
  <2>8. QED
    BY <2>2, <2>5, <2>6, <2>7
<1>7. ASSUME NEW r \in rows[d], Watch(d, r)
      PROVE  Lifecycle!Next \/ UNCHANGED Lifecycle!vars
  <2> DEFINE t == r.task
  <2>1. /\ t \in Tasks /\ UNCHANGED <<request, calls>>
        /\ status[t] \in {"running", "cancel_requested"}
        /\ status'[t] \in {"running", "cancel_requested"}
        /\ \A u \in Tasks \ {t} : status'[u] = status[u]
    BY <1>0, <1>7 DEF Watch, SetStatus, TypeOK
  <2>2. Same(t)
    BY <2>1 DEF Same, Phase, PhaseOf, OwnerOf, Started, Result, ApiTask, Exists, TERMINAL
  <2>3. \A u \in Tasks : Same(u)
    BY <2>1, <2>2, SameRow
  <2>4. QED
    BY <2>3, Stutters
<1>8. QED
  BY <1>1, <1>2, <1>3, <1>4, <1>5, <1>6, <1>7
     DEF Dispatch, TickBegin, ReadBack, MarkCancel, SendCancel, Poll, TickEnd, SkipRow, db

LEMMA LifecycleStep ==
  ASSUME Inv, HandleInv, ApiInv, [Next]_vars
  PROVE  [Lifecycle!Next]_Lifecycle!vars
<1>1. CASE Clients
  BY <1>1, ClientsLifecycle
<1>2. ASSUME NEW d \in Dispatchers, Dispatch(d)
      PROVE  [Lifecycle!Next]_Lifecycle!vars
  BY <1>2, DispatchLifecycle
<1>3. CASE (\E d \in Dispatchers : Crash(d)) \/ Reconfigure \/ UNCHANGED vars
  <2>1. UNCHANGED <<status, request, calls>>
    BY <1>3 DEF Crash, Reconfigure, vars, db, history
  <2>2. QED
    BY <2>1, SameRow, Stutters
<1>4. QED
  BY <1>1, <1>2, <1>3 DEF Next

\* The store and its dispatchers implement TaskLifecycle for every task of a
\* provider without workers: accepted within the quota, started and settled at
\* most once, and unknown for good once its start is lost - whatever crashes,
\* restarts, cancellations and stale writes occur (runtime.py).
THEOREM RuntimeImplementsLifecycle == Spec => ImplementsLifecycle
<1>1. Init => Lifecycle!Init
  BY DEF Init, Lifecycle!Init, ApiTask, Exists
<1>2. Inv /\ HandleInv /\ ApiInv /\ [Next]_vars => [Lifecycle!Next]_Lifecycle!vars
  BY LifecycleStep
<1>3. QED
  BY <1>1, <1>2, Invariance, HandleInvariance, ApiInvariance, PTL
     DEF Spec, ImplementsLifecycle, Lifecycle!Spec
=============================================================================
