------------------------ MODULE SummaryOperationProofs ------------------------
(* One task, one cancellation and one output for every number of processes,  *)
(* outputs and calls.                                                        *)
(*                                                                           *)
(* The argument: whoever is past the load holds the lock; only one process   *)
(* ever created the journal, and until it submits nothing is submitted and   *)
(* the journal has neither intent nor task; the dispatch is on record before *)
(* a cancellation is sent and the output before it is shown.                 *)
EXTENDS SummaryOperation, TLAPS

Working == SSteps \ {"idle", "opened"}
Known == Working \ {"begin"}

(* What is true of the call of one process.                                  *)
Holds(p) == proc[p].step \in Working => flock = p
Creator(p) ==
  /\ proc[p].fresh => exists
  /\ proc[p].step \in {"submit", "submitted"} => proc[p].fresh /\ journal.intent
  /\ proc[p].fresh /\ proc[p].step \in {"opened", "begin"} => ~journal.intent
  /\ proc[p].fresh /\ proc[p].step \in {"opened", "begin", "submit"} => submits = 0
  /\ proc[p].fresh /\ proc[p].step \in {"opened", "begin", "submit", "submitted"} =>
       ~journal.submitted
Reader(p) ==
  /\ proc[p].step \in {"submit", "adopt"} => ~journal.cancel
  /\ proc[p].step \in {"withdraw", "cancelling", "read", "adopt"} => journal.submitted
  /\ proc[p].step \in Known => ~journal.unknown
  /\ At(p, "cancelling") => journal.dispatch /\ cancels = 0
CallOf(p) == Holds(p) /\ Creator(p) /\ Reader(p)

OneCreator == \A p, q \in Procs : proc[p].fresh /\ proc[q].fresh => p = q
Recorded ==
  /\ ~exists => submits = 0 /\ ~journal.intent /\ ~journal.submitted
  /\ submits <= 1 /\ cancels <= 1
  /\ ~journal.dispatch => cancels = 0
  /\ shown \subseteq {journal.verified}

Inv == STypeOK /\ (\A p \in Procs : CallOf(p)) /\ OneCreator /\ Recorded

-----------------------------------------------------------------------------
(* A call goes on, or it is over.                                            *)
Over(p) == proc'[p] = Away /\ flock' = NoProc
On(p, step) == proc'[p] = [proc[p] EXCEPT !.step = step] /\ flock' = p

LEMMA ContinueIs ==
  ASSUME proc \in [Procs -> SCalls], NEW p \in Procs, flock = p, NEW step \in SSteps,
         Continue(p, step)
  PROVE  /\ proc' \in [Procs -> SCalls] /\ \A q \in Procs : q # p => proc'[q] = proc[q]
         /\ On(p, step)
  BY DEF Continue, Goto, On, SCalls

LEMMA AwayIs ==
  Away \in SCalls /\ Away.step = "idle" /\ Away.fresh = FALSE
  BY DEF Away, SCalls, SSteps

LEMMA LeaveIs ==
  ASSUME proc \in [Procs -> SCalls], NEW p \in Procs, Leave(p)
  PROVE  /\ proc' \in [Procs -> SCalls] /\ \A q \in Procs : q # p => proc'[q] = proc[q]
         /\ Over(p)
  BY AwayIs DEF Leave, Over

(* The holder of the lock steps: the other processes are before their load,  *)
(* where only a creator would mind what happens.                             *)
LEMMA Mine ==
  ASSUME Inv, NEW p \in Procs, proc[p].step \in Working,
         \A q \in Procs : q # p => proc'[q] = proc[q],
         exists' = exists, proc'[p].fresh => proc[p].fresh,
         \/ proc[p].fresh
         \/ /\ submits' = submits /\ journal'.intent = journal.intent
            /\ journal'.submitted = journal.submitted,
         CallOf(p)'
  PROVE  (\A q \in Procs : CallOf(q))' /\ OneCreator'
<1> USE DEF Inv
<1>1. OneCreator'
  BY DEF OneCreator
<1>2. ASSUME NEW q \in Procs, q # p
      PROVE  CallOf(q)'
  <2>1. proc'[q].step \notin Working /\ proc'[q] = proc[q] /\ proc[q] \in SCalls
    BY <1>2 DEF CallOf, Holds, STypeOK
  <2>2. Holds(q)' /\ Reader(q)'
    BY <2>1 DEF Holds, Reader, At, Working, Known, SSteps
  <2>3. Creator(q)'
    BY <1>2, <2>1 DEF Creator, CallOf, OneCreator, Working, SSteps
  <2> QED BY <2>2, <2>3 DEF CallOf
<1> QED BY <1>1, <1>2

(* A call that is over has nothing left to claim.                            *)
LEMMA OverIs ==
  ASSUME NEW p \in Procs, Over(p)
  PROVE  CallOf(p)'
  BY AwayIs DEF Over, CallOf, Holds, Creator, Reader, At, Working, Known

LEMMA InitInv ==
  ASSUME SInit
  PROVE  Inv
<1>1. Blank \in Journals /\ Away \in SCalls
  BY AwayIs DEF Blank, Journals
<1>2. STypeOK
  BY <1>1 DEF SInit, STypeOK
<1>3. \A p \in Procs : CallOf(p)
  BY AwayIs DEF SInit, CallOf, Holds, Creator, Reader, At, Working, Known
<1>4. OneCreator /\ Recorded
  BY AwayIs DEF SInit, OneCreator, Recorded, Blank
<1> QED BY <1>2, <1>3, <1>4 DEF Inv

-----------------------------------------------------------------------------
LEMMA OpenInv ==
  ASSUME Inv, NEW p \in Procs, NEW cancel \in BOOLEAN, Open(p, cancel)
  PROVE  Inv'
<1> USE DEF Inv
<1> DEFINE new == [Away EXCEPT !.step = "opened", !.fresh = Fresh, !.cancel = cancel]
<1>1. new \in SCalls /\ new.step = "opened" /\ new.fresh = ~exists
  BY DEF Away, SCalls, SSteps, Fresh, STypeOK
<1> HIDE DEF new
<1>2. /\ proc' \in [Procs -> SCalls] /\ proc'[p] = new
      /\ \A q \in Procs : q # p => proc'[q] = proc[q]
  BY <1>1 DEF Open, STypeOK, new
<1>4. /\ exists' = TRUE /\ broken' \in BOOLEAN /\ opens' = opens + 1
      /\ UNCHANGED <<journal, flock, late, submits, cancels, shown>>
  BY DEF Open, STypeOK
<1>3. STypeOK'
  BY <1>2, <1>4 DEF STypeOK
<1>5. ASSUME NEW q \in Procs
      PROVE  CallOf(q)'
  <2>1. CASE q = p
    BY <1>1, <1>2, <1>4, <2>1 DEF CallOf, Holds, Creator, Reader, At, Working, Known, Recorded
  <2>2. CASE q # p
    BY <1>2, <1>4, <2>2 DEF CallOf, Holds, Creator, Reader, At
  <2> QED BY <2>1, <2>2
<1>6. OneCreator'
  BY <1>1, <1>2 DEF OneCreator, CallOf, Creator
<1>7. Recorded'
  BY <1>4 DEF Recorded
<1> QED BY <1>3, <1>5, <1>6, <1>7

LEMMA LoadInv ==
  ASSUME Inv, NEW p \in Procs, Load(p)
  PROVE  Inv'
<1> USE DEF Inv
<1>1. UNCHANGED <<exists, journal, late, submits, cancels, shown, opens>> /\ flock = NoProc
  BY DEF Load, Same
<1>2. \A q \in Procs : proc[q].step \notin Working
  BY <1>1, SummaryAssumption DEF CallOf, Holds
<1>3. /\ proc' \in [Procs -> SCalls] /\ \A q \in Procs : q # p => proc'[q] = proc[q]
      /\ \/ proc'[p].step = "idle" /\ proc'[p].fresh = FALSE
         \/ proc'[p].step = "begin" /\ proc'[p].fresh = proc[p].fresh /\ flock' = p
      /\ flock' \in {p, NoProc} /\ broken' \in BOOLEAN
  <2>1. CASE Leave(p)
    BY <2>1, LeaveIs, AwayIs DEF Over, Load, STypeOK
  <2>2. CASE flock' = p /\ Goto(p, "begin")
    <3>1. "begin" \in SSteps
      BY DEF SSteps
    <3>2. proc \in [Procs -> SCalls] /\ proc' = [proc EXCEPT ![p].step = "begin"]
      BY <2>2 DEF Goto, STypeOK
    <3>3. /\ proc' \in [Procs -> SCalls] /\ \A q \in Procs : q # p => proc'[q] = proc[q]
          /\ proc'[p].step = "begin" /\ proc'[p].fresh = proc[p].fresh
      BY <3>1, <3>2 DEF SCalls
    <3>4. broken' \in BOOLEAN
      BY DEF Load, STypeOK
    <3> QED BY <2>2, <3>3, <3>4
  <2> QED BY <2>1, <2>2 DEF Load
<1>4. STypeOK'
  BY <1>1, <1>3 DEF STypeOK
<1>5. ASSUME NEW q \in Procs
      PROVE  CallOf(q)'
  <2>1. CASE q = p
    BY <1>1, <1>3, <2>1 DEF CallOf, Holds, Creator, Reader, At, Working, Known, Load
  <2>2. CASE q # p
    BY <1>1, <1>2, <1>3, <2>2 DEF CallOf, Holds, Creator, Reader, At
  <2> QED BY <2>1, <2>2
<1>6. OneCreator'
  BY <1>3 DEF OneCreator
<1>7. Recorded'
  BY <1>1 DEF Recorded
<1> QED BY <1>4, <1>5, <1>6, <1>7

LEMMA DieInv ==
  ASSUME Inv, NEW p \in Procs, Die(p)
  PROVE  Inv'
<1> USE DEF Inv
<1>1. UNCHANGED <<exists, broken, journal, late, submits, cancels, shown, opens>>
  BY DEF Die, Same
<1>2. /\ proc' \in [Procs -> SCalls] /\ proc'[p] = Away
      /\ \A q \in Procs : q # p => proc'[q] = proc[q]
      /\ flock' = IF flock = p THEN NoProc ELSE flock
  BY AwayIs DEF Die, STypeOK
<1>3. STypeOK'
  BY <1>1, <1>2 DEF STypeOK
<1>4. ASSUME NEW q \in Procs
      PROVE  CallOf(q)'
  <2>1. CASE q = p
    BY <1>2, <2>1, AwayIs DEF CallOf, Holds, Creator, Reader, At, Working, Known
  <2>2. CASE q # p
    BY <1>1, <1>2, <2>2 DEF CallOf, Holds, Creator, Reader, At
  <2> QED BY <2>1, <2>2
<1>5. OneCreator'
  BY <1>2, AwayIs DEF OneCreator
<1>6. Recorded'
  BY <1>1 DEF Recorded
<1> QED BY <1>3, <1>4, <1>5, <1>6

LEMMA DeadlineInv ==
  ASSUME Inv, Deadline
  PROVE  Inv'
  BY DEF Deadline, Inv, STypeOK, CallOf, Holds, Creator, Reader, At, OneCreator, Recorded

-----------------------------------------------------------------------------
(* A record that notes a field changes nothing else.                         *)
Noted(field) == [journal EXCEPT ![field] = TRUE]

LEMMA NotedIs ==
  ASSUME journal \in Journals, NEW field \in Fields
  PROVE  /\ Noted(field) \in Journals /\ Noted(field).verified = journal.verified
         /\ Noted(field).intent = (field = "intent" \/ journal.intent)
         /\ Noted(field).submitted = (field = "submitted" \/ journal.submitted)
         /\ Noted(field).cancel = (field = "cancel" \/ journal.cancel)
         /\ Noted(field).dispatch = (field = "dispatch" \/ journal.dispatch)
         /\ Noted(field).unknown = (field = "unknown" \/ journal.unknown)
  BY Zenon DEF Noted, Journals, Fields

LEMMA AppendIs ==
  ASSUME STypeOK, NEW p \in Procs, flock = p, NEW new \in Journals, NEW step \in SSteps,
         Append(p, new, Continue(p, step)) \/ Append(p, new, Leave(p))
  PROVE  /\ proc' \in [Procs -> SCalls] /\ \A q \in Procs : q # p => proc'[q] = proc[q]
         /\ journal' \in {journal, new} /\ broken' \in BOOLEAN
         /\ flock' \in Procs \cup {NoProc}
         /\ Over(p) \/ (On(p, step) /\ journal' = new)
<1>1. journal' \in {journal, new} /\ broken' \in BOOLEAN
  BY DEF Append, Broken, STypeOK
<1>2. Leave(p) \/ (Continue(p, step) /\ journal' = new)
  BY DEF Append
<1>3. CASE Leave(p)
  BY <1>1, <1>3, LeaveIs DEF STypeOK, Over
<1>4. CASE Continue(p, step) /\ journal' = new
  BY <1>1, <1>4, ContinueIs DEF STypeOK, On
<1> QED BY <1>2, <1>3, <1>4

(* The same of a note, which goes on at step or not.                         *)
LEMMA NoteIs ==
  ASSUME STypeOK, NEW p \in Procs, flock = p, NEW field \in Fields, NEW step \in SSteps,
         Note(p, field, Continue(p, step)) \/ Note(p, field, Leave(p)), Same
  PROVE  /\ STypeOK' /\ \A q \in Procs : q # p => proc'[q] = proc[q]
         /\ journal' \in {journal, Noted(field)}
         /\ Over(p) \/ (On(p, step) /\ journal' = Noted(field))
<1>1. Noted(field) \in Journals
  BY NotedIs DEF STypeOK
<1>2. Append(p, Noted(field), Continue(p, step)) \/ Append(p, Noted(field), Leave(p))
  BY DEF Note, Noted
<1>3. /\ proc' \in [Procs -> SCalls] /\ \A q \in Procs : q # p => proc'[q] = proc[q]
      /\ journal' \in {journal, Noted(field)} /\ broken' \in BOOLEAN
      /\ flock' \in Procs \cup {NoProc}
      /\ Over(p) \/ (On(p, step) /\ journal' = Noted(field))
  BY <1>1, <1>2, AppendIs
<1> QED BY <1>1, <1>3 DEF STypeOK, Same

(* Whoever works holds the lock.                                             *)
LEMMA Holder ==
  ASSUME Inv, NEW p \in Procs, proc[p].step \in Working
  PROVE  flock = p /\ proc[p] \in SCalls /\ journal \in Journals /\ STypeOK
  BY DEF Inv, CallOf, Holds, STypeOK

(* A note that only its creator may make, or that is of neither the intent   *)
(* nor the task, keeps the invariant when it keeps that of its call.         *)
LEMMA NoteInv ==
  ASSUME Inv, NEW p \in Procs, proc[p].step \in Working, Same,
         NEW field \in Fields, NEW step \in SSteps,
         Note(p, field, Continue(p, step)) \/ Note(p, field, Leave(p)),
         field \in {"intent", "submitted"} => proc[p].fresh,
         field = "dispatch" => cancels = 0,
         On(p, step) /\ journal' = Noted(field) => CallOf(p)'
  PROVE  Inv'
<1> USE DEF Inv
<1>1. /\ STypeOK' /\ \A q \in Procs : q # p => proc'[q] = proc[q]
      /\ journal' \in {journal, Noted(field)}
      /\ Over(p) \/ (On(p, step) /\ journal' = Noted(field))
  BY Holder, NoteIs
<1>2. CallOf(p)'
  BY <1>1, OverIs
<1>3. proc'[p].fresh => proc[p].fresh
  BY <1>1, AwayIs, Holder DEF Over, On, SCalls
<1>4. /\ journal'.verified = journal.verified
      /\ journal'.dispatch = journal.dispatch \/ field = "dispatch"
      /\ field \notin {"intent", "submitted"} =>
           journal'.intent = journal.intent /\ journal'.submitted = journal.submitted
  <2>1. journal \in Journals
    BY Holder
  <2>2. journal' = journal \/ journal' = Noted(field)
    BY <1>1
  <2>3. CASE journal' = journal
    BY <2>3
  <2>4. CASE journal' = Noted(field)
    <3> HIDE DEF Inv
    <3> QED BY <2>1, <2>4, NotedIs DEF Journals
  <2> QED BY <2>2, <2>3, <2>4
<1>5. exists' = exists /\ submits' = submits /\ cancels' = cancels /\ shown' = shown
  BY DEF Same
<1>6. (\A q \in Procs : CallOf(q))' /\ OneCreator'
  BY <1>1, <1>2, <1>3, <1>4, <1>5, Mine
<1>7. Recorded'
  <2>1. ~exists' => ~proc[p].fresh
    BY <1>5 DEF CallOf, Creator
  <2> QED BY <1>4, <1>5, <2>1 DEF Recorded
<1> QED BY <1>1, <1>6, <1>7

LEMMA NoteCancelInv ==
  ASSUME Inv, NEW p \in Procs, NoteCancel(p)
  PROVE  Inv'
<1>1. At(p, "begin") /\ Same /\ Note(p, "cancel", Continue(p, "begin"))
  BY DEF NoteCancel
<1>2. On(p, "begin") /\ journal' = Noted("cancel") => CallOf(p)'
  <2> HAVE On(p, "begin") /\ journal' = Noted("cancel")
  <2>1. proc'[p].step = "begin" /\ proc'[p].fresh = proc[p].fresh /\ flock' = p
    BY <1>1, Holder DEF On, SCalls, At, Working, SSteps
  <2>2. journal'.intent = journal.intent /\ journal'.submitted = journal.submitted
    BY <1>1, NotedIs, Holder DEF Fields, Working, SSteps, At, Journals
  <2> QED BY <1>1, <2>1, <2>2 DEF Inv, CallOf, Holds, Creator, Reader, At, Known, Same
<1>3. proc[p].step \in Working /\ "cancel" \in Fields /\ "begin" \in SSteps
  BY <1>1 DEF At, Working, SSteps, Fields
<1> QED BY <1>1, <1>2, <1>3, NoteInv

LEMMA IntendInv ==
  ASSUME Inv, NEW p \in Procs, Intend(p)
  PROVE  Inv'
<1>1. At(p, "begin") /\ Same /\ Note(p, "intent", Continue(p, "submit"))
      /\ proc[p].fresh /\ ~journal.cancel /\ ~journal.unknown
  BY DEF Intend, MaySubmit
<1>2. On(p, "submit") /\ journal' = Noted("intent") => CallOf(p)'
  <2> HAVE On(p, "submit") /\ journal' = Noted("intent")
  <2>1. proc'[p].step = "submit" /\ proc'[p].fresh = proc[p].fresh /\ flock' = p
    BY <1>1, Holder DEF On, SCalls, At, Working, SSteps
  <2>2. journal'.intent /\ journal'.submitted = journal.submitted
        /\ journal'.cancel = journal.cancel /\ journal'.unknown = journal.unknown
    BY <1>1, NotedIs, Holder DEF Fields, Working, SSteps, At, Journals
  <2> QED BY <1>1, <2>1, <2>2 DEF Inv, CallOf, Holds, Creator, Reader, At, Known, Same
<1>3. proc[p].step \in Working /\ "intent" \in Fields /\ "submit" \in SSteps
  BY <1>1 DEF At, Working, SSteps, Fields
<1> QED BY <1>1, <1>2, <1>3, NoteInv

LEMMA SubmittedInv ==
  ASSUME Inv, NEW p \in Procs, Submitted(p)
  PROVE  Inv'
<1>1. At(p, "submitted") /\ Same /\ Note(p, "submitted", Continue(p, "withdraw"))
      /\ proc[p].fresh /\ ~journal.unknown
  BY DEF Submitted, Inv, CallOf, Creator, Reader, At, Known, Working, SSteps
<1>2. On(p, "withdraw") /\ journal' = Noted("submitted") => CallOf(p)'
  <2> HAVE On(p, "withdraw") /\ journal' = Noted("submitted")
  <2>1. proc'[p].step = "withdraw" /\ proc'[p].fresh = proc[p].fresh /\ flock' = p
    BY <1>1, Holder DEF On, SCalls, At, Working, SSteps
  <2>2. journal'.submitted /\ journal'.unknown = journal.unknown
    BY <1>1, NotedIs, Holder DEF Fields, Working, SSteps, At, Journals
  <2> QED BY <1>1, <2>1, <2>2 DEF Inv, CallOf, Holds, Creator, Reader, At, Known, Same
<1>3. proc[p].step \in Working /\ "submitted" \in Fields /\ "withdraw" \in SSteps
  BY <1>1 DEF At, Working, SSteps, Fields
<1> QED BY <1>1, <1>2, <1>3, NoteInv

LEMMA NoteDispatchInv ==
  ASSUME Inv, NEW p \in Procs, NoteDispatch(p)
  PROVE  Inv'
<1>1. At(p, "withdraw") /\ Same /\ Note(p, "dispatch", Continue(p, "cancelling"))
      /\ cancels = 0 /\ ~journal.unknown /\ journal.submitted
  BY DEF NoteDispatch, MustDispatch, Inv, Recorded, CallOf, Reader, At, Known, Working, SSteps
<1>2. On(p, "cancelling") /\ journal' = Noted("dispatch") => CallOf(p)'
  <2> HAVE On(p, "cancelling") /\ journal' = Noted("dispatch")
  <2>1. proc'[p].step = "cancelling" /\ proc'[p].fresh = proc[p].fresh /\ flock' = p
    BY <1>1, Holder DEF On, SCalls, At, Working, SSteps
  <2>2. /\ journal'.dispatch /\ journal'.unknown = journal.unknown
        /\ journal'.submitted = journal.submitted
    BY <1>1, NotedIs, Holder DEF Fields, Working, SSteps, At, Journals
  <2> QED BY <1>1, <2>1, <2>2 DEF Inv, CallOf, Holds, Creator, Reader, At, Known, Same
<1>3. proc[p].step \in Working /\ "dispatch" \in Fields /\ "cancelling" \in SSteps
  BY <1>1 DEF At, Working, SSteps, Fields
<1> QED BY <1>1, <1>2, <1>3, NoteInv

(* A note that ends its call.                                                *)
LEMMA LastNoteInv ==
  ASSUME Inv, NEW p \in Procs, proc[p].step \in Working, Same,
         NEW field \in {"cancel", "unknown"}, Note(p, field, Leave(p))
  PROVE  Inv'
<1> USE DEF Inv
<1>0. field \in Fields /\ "idle" \in SSteps
  BY DEF Fields, SSteps
<1>1. Append(p, Noted(field), Leave(p)) /\ Leave(p)
  BY DEF Note, Append, Noted
<1>2. Over(p)
  BY <1>1, LeaveIs DEF STypeOK
<1> QED BY <1>0, <1>2, OverIs, NoteInv

(* Nothing is appended: the holder only goes on, or leaves.                  *)
LEMMA QuietInv ==
  ASSUME Inv, NEW p \in Procs, proc[p].step \in Working,
         UNCHANGED <<exists, broken, journal, late, submits, cancels, opens>>,
         shown' = shown \/ (proc[p].output \in Outputs /\ journal.verified = proc[p].output
                             /\ shown' = shown \cup {proc[p].output}),
         NEW step \in SSteps, Continue(p, step) \/ Leave(p), On(p, step) => CallOf(p)'
  PROVE  Inv'
<1> USE DEF Inv
<1>1. /\ proc' \in [Procs -> SCalls] /\ \A q \in Procs : q # p => proc'[q] = proc[q]
      /\ Over(p) \/ On(p, step)
  BY ContinueIs, LeaveIs, Holder DEF STypeOK
<1>2. CallOf(p)'
  BY <1>1, OverIs
<1>3. proc'[p].fresh => proc[p].fresh
  BY <1>1, AwayIs, Holder DEF Over, On, SCalls
<1>4. STypeOK'
  BY <1>1 DEF STypeOK, Over, On
<1>5. (\A q \in Procs : CallOf(q))' /\ OneCreator'
  BY <1>1, <1>2, <1>3, Mine
<1>6. Recorded'
  BY DEF Recorded
<1> QED BY <1>4, <1>5, <1>6

LEMMA SubmitInv ==
  ASSUME Inv, NEW p \in Procs, Submit(p)
  PROVE  Inv'
<1> USE DEF Inv
<1>0. /\ At(p, "submit") /\ proc[p].step \in Working /\ flock = p /\ proc[p] \in SCalls
      /\ proc[p].fresh /\ submits = 0 /\ exists /\ journal.intent /\ ~journal.unknown
      /\ ~journal.submitted
  BY DEF Submit, At, Working, SSteps, Known, CallOf, Holds, Creator, Reader, STypeOK
<1>1. PICK step \in {"submitted", "judge"} : Continue(p, step)
  BY DEF Submit
<1>2. /\ proc' \in [Procs -> SCalls] /\ \A q \in Procs : q # p => proc'[q] = proc[q]
      /\ On(p, step) /\ step \in SSteps
  BY <1>0, <1>1, ContinueIs DEF STypeOK, SSteps
<1>3. proc'[p].step = step /\ proc'[p].fresh = proc[p].fresh /\ flock' = p
  BY <1>0, <1>2 DEF On, SCalls
<1>4. submits' = 1 /\ UNCHANGED <<exists, broken, journal, late, cancels, shown, opens>>
  BY <1>0 DEF Submit
<1>5. STypeOK'
  BY <1>2, <1>3, <1>4 DEF STypeOK
<1>6. CallOf(p)'
  BY <1>0, <1>1, <1>3, <1>4 DEF CallOf, Holds, Creator, Reader, At, Known, Working
<1>7. (\A q \in Procs : CallOf(q))' /\ OneCreator'
  BY <1>0, <1>2, <1>3, <1>4, <1>6, Mine
<1>8. Recorded'
  BY <1>0, <1>4 DEF Recorded
<1> QED BY <1>5, <1>7, <1>8

LEMMA ResumeInv ==
  ASSUME Inv, NEW p \in Procs, Resume(p)
  PROVE  Inv'
<1>1. At(p, "begin") /\ proc[p].step \in Working /\ "withdraw" \in SSteps
  BY DEF Resume, At, Working, SSteps
<1>2. On(p, "withdraw") /\ Continue(p, "withdraw") => CallOf(p)'
  <2> HAVE On(p, "withdraw") /\ Continue(p, "withdraw")
  <2>1. proc'[p].step = "withdraw" /\ proc'[p].fresh = proc[p].fresh /\ flock' = p
        /\ journal' = journal /\ exists' = exists
    BY <1>1, Holder DEF On, SCalls, Resume, Same
  <2>2. ~Leave(p)
    BY <2>1, LeaveIs, AwayIs, Holder DEF Over, Inv, STypeOK
  <2>3. journal.submitted /\ ~journal.unknown
    BY <2>2 DEF Resume
  <2> QED BY <1>1, <2>1, <2>3 DEF Inv, CallOf, Holds, Creator, Reader, At, Known
<1>3. CASE Leave(p)
  <2>1. Over(p)
    BY <1>3, LeaveIs, Holder, <1>1 DEF STypeOK
  <2>2. ~On(p, "withdraw")
    BY <1>1, <2>1, Holder, AwayIs DEF Over, On, SCalls
  <2> QED BY <1>1, <1>3, <2>2, QuietInv DEF Resume, Same
<1>4. CASE Continue(p, "withdraw")
  BY <1>1, <1>2, <1>4, QuietInv DEF Resume, Same
<1> QED BY <1>3, <1>4 DEF Resume

LEMMA SkipInv ==
  ASSUME Inv, NEW p \in Procs, Skip(p)
  PROVE  Inv'
<1>1. At(p, "withdraw") /\ proc[p].step \in Working /\ "read" \in SSteps
  BY DEF Skip, At, Working, SSteps
<1>2. On(p, "read") => CallOf(p)'
  <2> HAVE On(p, "read")
  <2>1. proc'[p].step = "read" /\ proc'[p].fresh = proc[p].fresh /\ flock' = p
        /\ journal' = journal /\ exists' = exists
    BY <1>1, Holder DEF On, SCalls, Skip, Same
  <2> QED BY <1>1, <2>1 DEF Inv, CallOf, Holds, Creator, Reader, At, Known
<1> QED BY <1>1, <1>2, QuietInv DEF Skip, Same

LEMMA SendCancelInv ==
  ASSUME Inv, NEW p \in Procs, SendCancel(p)
  PROVE  Inv'
<1> USE DEF Inv
<1>0. /\ At(p, "cancelling") /\ proc[p].step \in Working /\ flock = p /\ proc[p] \in SCalls
      /\ cancels = 0 /\ journal.dispatch /\ ~journal.unknown
  BY DEF SendCancel, At, Working, SSteps, Known, CallOf, Holds, Reader, STypeOK
<1>1. /\ proc' \in [Procs -> SCalls] /\ \A q \in Procs : q # p => proc'[q] = proc[q]
      /\ Over(p) \/ On(p, "read")
  BY <1>0, ContinueIs, LeaveIs DEF SendCancel, STypeOK, SSteps
<1>2. cancels' = 1 /\ UNCHANGED <<exists, broken, journal, late, submits, shown, opens>>
  BY <1>0 DEF SendCancel
<1>3. STypeOK'
  BY <1>1, <1>2 DEF STypeOK, Over, On
<1>4. CASE Over(p)
  <2>1. CallOf(p)' /\ (proc'[p].fresh => proc[p].fresh)
    BY <1>4, OverIs, AwayIs DEF Over
  <2>2. (\A q \in Procs : CallOf(q))' /\ OneCreator'
    BY <1>0, <1>1, <1>2, <2>1, Mine
  <2> QED BY <1>0, <1>2, <1>3, <2>2 DEF Recorded
<1>5. CASE On(p, "read")
  <2>1. proc'[p].step = "read" /\ proc'[p].fresh = proc[p].fresh /\ flock' = p
    BY <1>0, <1>5 DEF On, SCalls
  <2>2. CallOf(p)'
    BY <1>0, <1>2, <2>1 DEF CallOf, Holds, Creator, Reader, At, Known, Working
  <2>3. (\A q \in Procs : CallOf(q))' /\ OneCreator'
    BY <1>0, <1>1, <1>2, <2>1, <2>2, Mine
  <2> QED BY <1>0, <1>2, <1>3, <2>3 DEF Recorded
<1> QED BY <1>1, <1>4, <1>5

LEMMA ReadInv ==
  ASSUME Inv, NEW p \in Procs, Read(p)
  PROVE  Inv'
<1>0. /\ At(p, "read") /\ proc[p].step \in Working /\ flock = p /\ proc[p] \in SCalls
      /\ ~journal.unknown
  BY Holder DEF Read, At, Working, SSteps, Known, Inv, CallOf, Reader
<1>1. CASE Same /\ UNCHANGED <<broken, journal>> /\ Continue(p, "judge")
  <2>1. On(p, "judge") => CallOf(p)'
    <3> HAVE On(p, "judge")
    <3>1. proc'[p].step = "judge" /\ proc'[p].fresh = proc[p].fresh /\ flock' = p
      BY <1>0 DEF On, SCalls
    <3> QED BY <1>0, <1>1, <3>1 DEF Inv, CallOf, Holds, Creator, Reader, At, Known, Same
  <2> QED BY <1>0, <1>1, <2>1, QuietInv DEF Same, SSteps
<1>2. CASE Same /\ UNCHANGED <<broken, journal>> /\ Leave(p)
  <2>1. ~On(p, "begin")
    BY <1>0, <1>2, LeaveIs, AwayIs DEF Over, On, SCalls, Inv, STypeOK
  <2> QED BY <1>0, <1>2, <2>1, QuietInv DEF Same, SSteps
<1>3. CASE Same /\ Note(p, "cancel", Leave(p))
  BY <1>0, <1>3, LastNoteInv
<1>4. CASE /\ ~journal.cancel
           /\ \E o \in Outputs : proc' = [proc EXCEPT ![p].step = "adopt", ![p].output = o]
           /\ UNCHANGED <<exists, broken, journal, flock, late, submits, cancels, shown, opens>>
  <2>1. PICK o \in Outputs : proc' = [proc EXCEPT ![p].step = "adopt", ![p].output = o]
    BY <1>4
  <2> DEFINE new == [proc[p] EXCEPT !.step = "adopt", !.output = o]
  <2>2. new \in SCalls /\ new.step = "adopt" /\ new.fresh = proc[p].fresh
    BY <1>0 DEF SCalls, SSteps
  <2>3. proc' \in [Procs -> SCalls] /\ proc'[p] = new /\ \A q \in Procs : q # p => proc'[q] = proc[q]
    BY <2>1, <2>2 DEF Inv, STypeOK
  <2> HIDE DEF new
  <2>4. STypeOK'
    BY <1>4, <2>3 DEF Inv, STypeOK
  <2>5. CallOf(p)'
    BY <1>0, <1>4, <2>2, <2>3 DEF Inv, CallOf, Holds, Creator, Reader, At, Known
  <2>6. (\A q \in Procs : CallOf(q))' /\ OneCreator'
    BY <1>0, <1>4, <2>2, <2>3, <2>5, Mine
  <2> QED BY <1>4, <2>4, <2>6 DEF Inv, Recorded
<1> QED BY <1>1, <1>2, <1>3, <1>4 DEF Read

LEMMA AdoptInv ==
  ASSUME Inv, NEW p \in Procs, Adopt(p)
  PROVE  Inv'
<1> DEFINE new == [journal EXCEPT !.verified = proc[p].output]
<1>0. /\ At(p, "adopt") /\ proc[p].step \in Working /\ flock = p /\ proc[p] \in SCalls
      /\ ~journal.unknown /\ ~journal.cancel /\ journal.verified = NoOutput
      /\ journal \in Journals /\ shown \subseteq Outputs /\ STypeOK
  BY Holder DEF Adopt, At, Working, SSteps, Known, Inv, CallOf, Reader, STypeOK
<1>1. /\ new \in Journals /\ new.intent = journal.intent /\ new.submitted = journal.submitted
      /\ new.cancel = journal.cancel /\ new.dispatch = journal.dispatch
      /\ new.unknown = journal.unknown
  BY <1>0 DEF Journals, SCalls
<1>2. Append(p, new, Continue(p, "adopt")) /\ Same
  BY DEF Adopt
<1> HIDE DEF new
<1>3. /\ proc' \in [Procs -> SCalls] /\ \A q \in Procs : q # p => proc'[q] = proc[q]
      /\ journal' \in {journal, new} /\ broken' \in BOOLEAN
      /\ flock' \in Procs \cup {NoProc}
      /\ Over(p) \/ On(p, "adopt")
  BY <1>0, <1>1, <1>2, AppendIs DEF SSteps
<1>4. journal' \in Journals /\ journal'.intent = journal.intent
      /\ journal'.submitted = journal.submitted /\ journal'.cancel = journal.cancel
      /\ journal'.dispatch = journal.dispatch /\ journal'.unknown = journal.unknown
  BY <1>0, <1>1, <1>3
<1>5. STypeOK'
  BY <1>0, <1>2, <1>3, <1>4 DEF STypeOK, Same
<1>6. shown = {}
  BY <1>0, SummaryAssumption DEF Inv, Recorded
<1>7. Recorded'
  BY <1>2, <1>4, <1>6 DEF Inv, Recorded, Same
<1>8. CallOf(p)' /\ (proc'[p].fresh => proc[p].fresh)
  <2>1. CASE Over(p)
    BY <2>1, OverIs, AwayIs DEF Over
  <2>2. CASE On(p, "adopt")
    <3>1. proc'[p].step = "adopt" /\ proc'[p].fresh = proc[p].fresh /\ flock' = p
      BY <1>0, <2>2 DEF On, SCalls
    <3> QED BY <1>0, <1>2, <1>4, <3>1 DEF Inv, CallOf, Holds, Creator, Reader, At, Known, Same
  <2> QED BY <1>3, <2>1, <2>2
<1>9. (\A q \in Procs : CallOf(q))' /\ OneCreator'
  BY <1>0, <1>2, <1>3, <1>4, <1>8, Mine DEF Same
<1> QED BY <1>5, <1>7, <1>9 DEF Inv

LEMMA ContradictInv ==
  ASSUME Inv, NEW p \in Procs, Contradict(p)
  PROVE  Inv'
<1>1. At(p, "adopt") /\ proc[p].step \in Working /\ proc[p] \in SCalls /\ "judge" \in SSteps
      /\ ~journal.unknown
  BY Holder DEF Contradict, At, Working, Known, SSteps, Inv, CallOf, Reader
<1>2. On(p, "judge") => CallOf(p)'
  <2> HAVE On(p, "judge")
  <2>1. proc'[p].step = "judge" /\ proc'[p].fresh = proc[p].fresh /\ flock' = p
        /\ journal' = journal /\ exists' = exists
    BY <1>1 DEF On, SCalls, Contradict, Same
  <2> QED BY <1>1, <2>1 DEF Inv, CallOf, Holds, Creator, Reader, At, Known
<1> QED BY <1>1, <1>2, QuietInv DEF Contradict, Same

LEMMA ShowInv ==
  ASSUME Inv, NEW p \in Procs, Show(p)
  PROVE  Inv'
<1>1. /\ At(p, "adopt") /\ proc[p].step \in Working /\ proc[p] \in SCalls
      /\ journal.verified = proc[p].output /\ proc[p].output \in Outputs
  BY Holder DEF Show, Changed, At, Working, SSteps, SCalls
<1>2. CASE ~late /\ shown' = shown \cup {proc[p].output} /\ Leave(p) /\ UNCHANGED <<broken, journal>>
  <2>1. ~On(p, "begin")
    BY <1>1, <1>2, LeaveIs, AwayIs DEF Over, On, SCalls, Inv, STypeOK
  <2> QED BY <1>1, <1>2, <2>1, QuietInv DEF Show, SSteps
<1>3. CASE late /\ UNCHANGED shown /\ Note(p, "cancel", Leave(p))
  BY <1>1, <1>3, LastNoteInv DEF Show, Same
<1> QED BY <1>2, <1>3 DEF Show

LEMMA NextInv ==
  ASSUME Inv, [SNext]_svars
  PROVE  Inv'
<1>1. CASE UNCHANGED svars
  BY <1>1 DEF svars, Inv, STypeOK, CallOf, Holds, Creator, Reader, At, OneCreator, Recorded
<1>2. CASE Deadline
  BY <1>2, DeadlineInv
<1>3. ASSUME NEW p \in Procs, NEW cancel \in BOOLEAN, Open(p, cancel)
      PROVE  Inv'
  BY <1>3, OpenInv
<1>4. ASSUME NEW p \in Procs, SubmitTooLate(p) \/ Doubt(p)
      PROVE  Inv'
  <2>1. proc[p].step \in Working /\ Same
        /\ \E field \in {"cancel", "unknown"} : Note(p, field, Leave(p))
    BY <1>4 DEF SubmitTooLate, Doubt, At, Working, SSteps
  <2> QED BY <2>1, LastNoteInv
<1>5. ASSUME NEW p \in Procs, Load(p) \/ NoteCancel(p) \/ Intend(p) \/ Submit(p) \/ Submitted(p)
      PROVE  Inv'
  BY <1>5, LoadInv, NoteCancelInv, IntendInv, SubmitInv, SubmittedInv
<1>6. ASSUME NEW p \in Procs, Resume(p) \/ NoteDispatch(p) \/ Skip(p) \/ SendCancel(p) \/ Read(p)
      PROVE  Inv'
  BY <1>6, ResumeInv, NoteDispatchInv, SkipInv, SendCancelInv, ReadInv
<1>7. ASSUME NEW p \in Procs, Adopt(p) \/ Contradict(p) \/ Show(p) \/ Die(p)
      PROVE  Inv'
  BY <1>7, AdoptInv, ContradictInv, ShowInv, DieInv
<1> QED BY <1>1, <1>2, <1>3, <1>4, <1>5, <1>6, <1>7 DEF SNext

-----------------------------------------------------------------------------
(* The inductive invariant, for every value of the constants.                *)
THEOREM Inductive == SSpec => []Inv
<1>1. SInit => Inv
  BY InitInv
<1>2. Inv /\ [SNext]_svars => Inv'
  BY NextInv
<1> QED BY <1>1, <1>2, PTL DEF SSpec

(* Every variable of the summary operation keeps its type.                   *)
THEOREM TypeCorrect == SSpec => []STypeOK
<1>1. Inv => STypeOK
  BY DEF Inv
<1> QED BY <1>1, Inductive, PTL

(* execute_summary sends one submission and one cancellation at most and     *)
(* shows one output, whoever opens the journal and whatever is lost.         *)
THEOREM OneOutcomeAlways == SSpec => []OneOutcome
<1>1. Inv => OneOutcome
  BY DEF Inv, Recorded, OneOutcome
<1> QED BY <1>1, Inductive, PTL

(* What _Journal.append is asked to write on an earlier reading of the       *)
(* journal, the verified output included, is what the next load takes.       *)
THEOREM AppendsAlwaysAccepted == SSpec => []AppendsAccepted
<1>1. ASSUME Inv, NEW p \in Procs
      PROVE  /\ At(p, "begin") /\ MaySubmit(p) => Accepts(journal, "intent")
             /\ At(p, "submitted") => Accepts(journal, "submitted")
             /\ At(p, "submit") \/ At(p, "adopt") => Accepts(journal, "cancel")
             /\ At(p, "withdraw") /\ MustDispatch => Accepts(journal, "dispatch")
             /\ At(p, "judge") => Accepts(journal, "unknown")
             /\ At(p, "adopt") /\ journal.verified = NoOutput => Accepts(journal, "verified")
  <2>1. At(p, "begin") /\ MaySubmit(p) => ~journal.intent
    BY <1>1 DEF MaySubmit, Inv, CallOf, Creator, At
  <2>2. At(p, "submitted") => journal.intent /\ ~journal.submitted
    BY <1>1 DEF Inv, CallOf, Creator, At
  <2>3. At(p, "submit") \/ At(p, "adopt") => ~journal.cancel
    BY <1>1 DEF Inv, CallOf, Reader, At
  <2>4. At(p, "withdraw") \/ At(p, "adopt") => journal.submitted
    BY <1>1 DEF Inv, CallOf, Reader, At
  <2>5. At(p, "judge") \/ At(p, "adopt") => ~journal.unknown
    BY <1>1 DEF Inv, CallOf, Reader, At, Known, Working, SSteps
  <2> QED BY <2>1, <2>2, <2>3, <2>4, <2>5 DEF Accepts, MustDispatch
<1>2. Inv => AppendsAccepted
  BY <1>1 DEF AppendsAccepted
<1> QED BY <1>2, Inductive, PTL

=============================================================================
