--------------------------- MODULE SummaryOperation ---------------------------
(* One briefing summary: at most one AI task for a project, instance and     *)
(* occurrence, whoever calls and whatever fails.  The authority is an        *)
(* append-only journal under a file lock.  The call that creates the file is *)
(* the only one that may submit; every append is covered by a sentinel file, *)
(* so that a write that was not completed makes every later call answer      *)
(* "unknown".                                                                *)
(*                                                                           *)
(* Abstracted: the fields a record is checked for (a record that fails is    *)
(* the exception below), the digests (a binding other than this one is the   *)
(* load that fails).  The task service is external and may answer anything.  *)
EXTENDS Integers, FiniteSets

CONSTANTS Procs, NoProc, Outputs, NoOutput, MaxOpens

(* What the constants are.                                                   *)
ASSUME SummaryAssumption ==
  MaxOpens \in Nat /\ NoProc \notin Procs /\ NoOutput \notin Outputs

VARIABLES
  exists,  \* the journal file
  broken,  \* the sentinel, or no complete first line: nothing is known
  journal, \* what its records say
  flock,   \* the process that holds the lock
  proc,    \* the call each process is in
  late,    \* the deadline has passed
  submits, cancels, \* requests the service got
  shown,   \* outputs given to a caller as available
  opens
svars == <<exists, broken, journal, flock, proc, late, submits, cancels, shown, opens>>

Fields == {"intent", "submitted", "cancel", "dispatch", "unknown"}
Blank == [intent |-> FALSE, submitted |-> FALSE, cancel |-> FALSE, dispatch |-> FALSE,
          unknown |-> FALSE, verified |-> NoOutput]
Journals == [intent : BOOLEAN, submitted : BOOLEAN, cancel : BOOLEAN, dispatch : BOOLEAN,
             unknown : BOOLEAN, verified : Outputs \cup {NoOutput}]
SSteps == {"idle", "opened", "begin", "submit", "submitted", "judge", "withdraw", "cancelling", "read", "adopt"}
Away == [step |-> "idle", fresh |-> FALSE, cancel |-> FALSE, output |-> NoOutput]
SCalls == [step : SSteps, fresh : BOOLEAN, cancel : BOOLEAN, output : Outputs \cup {NoOutput}]

SInit ==
  /\ exists = FALSE /\ broken = FALSE /\ journal = Blank
  /\ flock = NoProc /\ proc = [p \in Procs |-> Away]
  /\ late = FALSE /\ submits = 0 /\ cancels = 0 /\ shown = {} /\ opens = 0

-----------------------------------------------------------------------------
Goto(p, step) == proc' = [proc EXCEPT ![p].step = step]
(* Return any result but "available"; the descriptor's close frees the lock. *)
Leave(p) == proc' = [proc EXCEPT ![p] = Away] /\ flock' = NoProc
At(p, step) == proc[p].step = step
Same == UNCHANGED <<exists, late, submits, cancels, shown, opens>>

(* _Journal.append, in a call that goes on with "done" or returns.  It may   *)
(* be refused before anything is written, or break off with the sentinel     *)
(* left behind, whether or not the record can be read back.                  *)
Broken == broken' = TRUE  \* the sentinel stays
Append(p, new, done) ==
  \/ journal' = new /\ UNCHANGED broken /\ done
  \/ UNCHANGED <<journal, broken>> /\ Leave(p)
  \/ Broken /\ journal' \in {journal, new} /\ Leave(p)
Note(p, field, done) == Append(p, [journal EXCEPT ![field] = TRUE], done)
Continue(p, step) == Goto(p, step) /\ UNCHANGED flock

-----------------------------------------------------------------------------
(* Open the journal, or create it: only its creator is fresh.                *)
FaultyFresh == ~exists \/ broken
Fresh == ~exists
Open(p, cancel) ==
  /\ At(p, "idle") /\ opens < MaxOpens /\ opens' = opens + 1
  /\ proc' = [proc EXCEPT ![p] = [Away EXCEPT !.step = "opened", !.fresh = Fresh, !.cancel = cancel]]
  /\ exists' = TRUE
  /\ broken' = IF exists THEN broken ELSE TRUE
  /\ UNCHANGED <<journal, flock, late, submits, cancels, shown>>

(* Lock and load.  The creator writes the binding; to anyone else a file     *)
(* without one is unknown.                                                   *)
Load(p) ==
  /\ At(p, "opened") /\ flock = NoProc /\ Same /\ UNCHANGED journal
  /\ IF proc[p].fresh
     THEN \/ broken' = FALSE /\ flock' = p /\ Goto(p, "begin")
          \/ UNCHANGED broken /\ Leave(p)
     ELSE UNCHANGED broken /\ IF broken THEN Leave(p) ELSE flock' = p /\ Goto(p, "begin")

(* A cancellation or the deadline is noted first.                            *)
NoteCancel(p) ==
  /\ At(p, "begin") /\ Same
  /\ proc[p].cancel \/ late
  /\ ~journal.cancel
  /\ Note(p, "cancel", Continue(p, "begin"))

(* Note the intent, and submit: only in the call that created the file.      *)
FaultyMaySubmit(p) == ~journal.submitted /\ ~journal.cancel /\ ~journal.unknown
MaySubmit(p) == proc[p].fresh /\ ~journal.cancel /\ ~journal.unknown
Quiet(p) == ~(proc[p].cancel \/ late) \/ journal.cancel
Intend(p) ==
  /\ At(p, "begin") /\ Quiet(p) /\ MaySubmit(p) /\ Same
  /\ Note(p, "intent", Continue(p, "submit"))

(* The deadline passed since the intent: cancelled, never submitted.         *)
SubmitTooLate(p) == At(p, "submit") /\ late /\ Same /\ Note(p, "cancel", Leave(p))

(* The request may have reached the service whatever it answers.             *)
Submit(p) ==
  /\ At(p, "submit")
  /\ submits' = submits + 1
  /\ \E step \in {"submitted", "judge"} : Continue(p, step)
  /\ UNCHANGED <<exists, broken, journal, late, cancels, shown, opens>>
Submitted(p) == At(p, "submitted") /\ Same /\ Note(p, "submitted", Continue(p, "withdraw"))
(* A submission or a readback that is no proof makes the outcome unknown.    *)
Doubt(p) == At(p, "judge") /\ Same /\ Note(p, "unknown", Leave(p))

(* Not this call's to submit: go on with a known task only.                  *)
Resume(p) ==
  /\ At(p, "begin") /\ Quiet(p) /\ ~MaySubmit(p) /\ Same /\ UNCHANGED <<broken, journal>>
  /\ IF journal.submitted /\ ~journal.unknown THEN Continue(p, "withdraw") ELSE Leave(p)

(* A noted cancellation is sent once: the dispatch is noted before it.       *)
MustDispatch == journal.cancel /\ ~journal.dispatch
NoteDispatch(p) ==
  At(p, "withdraw") /\ MustDispatch /\ Same /\ Note(p, "dispatch", Continue(p, "cancelling"))
Skip(p) ==
  At(p, "withdraw") /\ ~MustDispatch /\ Same /\ UNCHANGED <<broken, journal>> /\ Continue(p, "read")
SendCancel(p) ==
  /\ At(p, "cancelling")
  /\ cancels' = cancels + 1
  /\ Continue(p, "read") \/ Leave(p)
  /\ UNCHANGED <<exists, broken, journal, late, submits, shown, opens>>

(* The task is read back: unusable, or in doubt; not done, failed, cancelled *)
(* or too late; or completed with an output.                                 *)
Read(p) ==
  /\ At(p, "read")
  /\ \/ Same /\ UNCHANGED <<broken, journal>> /\ Continue(p, "judge")
     \/ Same /\ UNCHANGED <<broken, journal>> /\ Leave(p)
     \/ Same /\ ~journal.cancel /\ Note(p, "cancel", Leave(p))
     \/ /\ ~journal.cancel /\ ~late
        /\ \E o \in Outputs :
             proc' = [proc EXCEPT ![p].step = "adopt", ![p].output = o]
        /\ UNCHANGED <<exists, broken, journal, flock, late, submits, cancels, shown, opens>>

(* The first output is noted as verified; another one later is in doubt.     *)
FaultyChanged(p) == FALSE
Changed(p) == journal.verified \notin {NoOutput, proc[p].output}
Adopt(p) ==
  /\ At(p, "adopt") /\ journal.verified = NoOutput /\ Same
  /\ Append(p, [journal EXCEPT !.verified = proc[p].output], Continue(p, "adopt"))
Contradict(p) ==
  At(p, "adopt") /\ Changed(p) /\ Same /\ UNCHANGED <<broken, journal>> /\ Continue(p, "judge")
Show(p) ==
  /\ At(p, "adopt") /\ journal.verified # NoOutput /\ ~Changed(p)
  /\ UNCHANGED <<exists, late, submits, cancels, opens>>
  /\ \/ ~late /\ shown' = shown \cup {proc[p].output} /\ Leave(p) /\ UNCHANGED <<broken, journal>>
     \/ late /\ UNCHANGED shown /\ Note(p, "cancel", Leave(p))

-----------------------------------------------------------------------------
Deadline ==
  late' = TRUE /\ ~late
  /\ UNCHANGED <<exists, broken, journal, flock, proc, submits, cancels, shown, opens>>

(* The process dies; what it had not appended is lost, its lock is freed.    *)
Die(p) ==
  /\ ~At(p, "idle")
  /\ proc' = [proc EXCEPT ![p] = Away]
  /\ flock' = IF flock = p THEN NoProc ELSE flock
  /\ UNCHANGED <<broken, journal>> /\ Same

SNext ==
  \/ Deadline
  \/ \E p \in Procs :
       \/ \E cancel \in BOOLEAN : Open(p, cancel)
       \/ Load(p) \/ NoteCancel(p) \/ Intend(p) \/ SubmitTooLate(p) \/ Submit(p) \/ Submitted(p)
       \/ Doubt(p) \/ Resume(p) \/ NoteDispatch(p) \/ Skip(p) \/ SendCancel(p) \/ Read(p)
       \/ Adopt(p) \/ Contradict(p) \/ Show(p) \/ Die(p)
SSpec == SInit /\ [][SNext]_svars
-----------------------------------------------------------------------------
(* Every variable keeps its type.                                            *)
STypeOK ==
  /\ exists \in BOOLEAN /\ broken \in BOOLEAN /\ journal \in Journals
  /\ flock \in Procs \cup {NoProc} /\ proc \in [Procs -> SCalls] /\ late \in BOOLEAN
  /\ submits \in Nat /\ cancels \in Nat /\ shown \subseteq Outputs /\ opens \in Nat

(* The service is sent one submission and one cancellation at most, and all  *)
(* callers who get a summary get the one output the journal verified, whoever*)
(* opens the journal first, and whatever append, answer or process is lost   *)
(* (execute_summary).                                                        *)
OneOutcome == submits <= 1 /\ cancels <= 1 /\ shown \subseteq {journal.verified}

(* The transitions a load accepts (_Journal.state).                          *)
Accepts(j, field) ==
  CASE field = "intent" -> ~j.intent
    [] field = "submitted" -> j.intent /\ ~j.submitted
    [] field = "cancel" -> ~j.cancel
    [] field = "dispatch" -> j.cancel /\ j.submitted /\ ~j.dispatch
    [] field = "unknown" -> ~j.unknown
    [] field = "verified" -> j.submitted /\ ~j.cancel /\ ~j.unknown /\ j.verified = NoOutput

(* No sequence of calls appends what the next load would reject, which would *)
(* make the operation unknown for ever.  These are the appends that the code *)
(* decides on what it read before the call's other appends and requests; the *)
(* other cancellations are noted right after a test of the journal for one.  *)
AppendsAccepted ==
  \A p \in Procs :
    /\ At(p, "begin") /\ MaySubmit(p) => Accepts(journal, "intent")
    /\ At(p, "submitted") => Accepts(journal, "submitted")
    /\ At(p, "submit") \/ At(p, "adopt") => Accepts(journal, "cancel")
    /\ At(p, "withdraw") /\ MustDispatch => Accepts(journal, "dispatch")
    /\ At(p, "judge") => Accepts(journal, "unknown")
    /\ At(p, "adopt") /\ journal.verified = NoOutput => Accepts(journal, "verified")

=============================================================================
