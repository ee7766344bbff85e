----------------------- MODULE DiagnosisRehearsalProofs -----------------------
(* The rehearsal submits and cancels once and leaves a pending task its      *)
(* subscription, for every number of overlapping callers.                    *)
(*                                                                           *)
(* The argument: without a lock, it is the exclusive creation of a receipt   *)
(* that makes one caller the author of the task, and one of its cancellation;*)
(* a caller that gives up "keep" knows that the task is over, or is its      *)
(* author and has not submitted it.                                          *)
EXTENDS DiagnosisRehearsal, TLAPS

Author(p) == RAt(p, "intent") \/ caller[p].fresh
Made(f) == receipts[f] # "absent"

Knows(p) ==
  ~RAt(p, "idle") /\ ~caller[p].keep /\ ~caller[p].rejected =>
    task \in Terminal \/ (caller[p].fresh /\ task = "none")
NewComer(p) == RAt(p, "bind") => ~caller[p].fresh
CallOf(p) ==
  /\ NewComer(p)
  /\ RAt(p, "submit") => caller[p].fresh /\ caller[p].keep
  /\ Author(p) => Made("binding")
  /\ RAt(p, "intent") \/ (caller[p].fresh /\ caller[p].step \in {"check", "submit"}) =>
       submitted = 0
  /\ RAt(p, "cancelling") => Made("cancel") /\ cancelled = 0
  /\ Knows(p)

Unique ==
  \A p, q \in Rehearsers :
    (Author(p) /\ Author(q)) \/ (RAt(p, "cancelling") /\ RAt(q, "cancelling")) => p = q
Counted ==
  /\ submitted <= 1 /\ cancelled <= 1
  /\ ~Made("binding") => submitted = 0
  /\ ~Made("cancel") => cancelled = 0
  /\ submitted = 0 => task = "none"

Inv == RTypeOK /\ (\A p \in Rehearsers : CallOf(p)) /\ Unique /\ Counted

-----------------------------------------------------------------------------
(* A receipt that was made stays.                                            *)
Stays == \A f \in Receipts : Made(f) => receipts'[f] # "absent"

LEMMA OutIs == Out \in RCalls /\ Out.step = "idle" /\ Out.fresh = FALSE
  BY DEF Out, RCalls, RSteps

LEMMA BecomeIs ==
  ASSUME RTypeOK, NEW p \in Rehearsers, NEW state \in RCalls, Become(p, state)
  PROVE  /\ caller' \in [Rehearsers -> RCalls] /\ caller'[p] = state
         /\ \A q \in Rehearsers : q # p => caller'[q] = caller[q]
  BY DEF RTypeOK, Become

(* What a step of one caller has to respect for the others to go on.         *)
LEMMA Others ==
  ASSUME Inv, NEW p \in Rehearsers, \A q \in Rehearsers : q # p => caller'[q] = caller[q], Stays,
         submitted' = submitted \/ Author(p),
         cancelled' = cancelled \/ RAt(p, "cancelling"),
         task \in Terminal => task' \in Terminal,
         task = "none" => task' = "none" \/ caller[p].fresh,
         CallOf(p)',
         Author(p)' => Author(p) \/ ~Made("binding"),
         RAt(p, "cancelling")' => RAt(p, "cancelling") \/ ~Made("cancel")
  PROVE  (\A q \in Rehearsers : CallOf(q))' /\ Unique'
<1> USE DEF Inv
<1>1. "binding" \in Receipts /\ "cancel" \in Receipts
  BY DEF Receipts
<1>2. \A q \in Rehearsers : /\ Author(q) => Made("binding")
                            /\ RAt(q, "cancelling") => Made("cancel")
  BY DEF CallOf
<1>3. Unique'
  BY <1>2 DEF Unique, Author, RAt
<1>4. ASSUME NEW q \in Rehearsers, q # p
      PROVE  CallOf(q)'
  <2>1. caller'[q] = caller[q] /\ CallOf(q)
    BY <1>4
  <2>2. Author(q) => submitted' = submitted /\ ~Author(p)
    BY <1>4 DEF Unique
  <2>3. RAt(q, "cancelling") => cancelled' = cancelled
    BY <1>4 DEF Unique
  <2>4. Knows(q)'
    BY <2>1, <2>2 DEF CallOf, NewComer, Knows, Author, RAt
  <2> QED BY <1>1, <2>1, <2>2, <2>3, <2>4 DEF CallOf, NewComer, Author, RAt, Made, Stays
<1> QED BY <1>3, <1>4

(* A step that sends nothing.                                                *)
LEMMA QuietInv ==
  ASSUME Inv, NEW p \in Rehearsers, NEW state \in RCalls, Become(p, state),
         task' = task, submitted' = submitted, cancelled' = cancelled, taskLate' = taskLate,
         expired' = expired, subscription' \in {"active", "gone"}, entered' \in Nat,
         receipts' \in [Receipts -> States], Stays, CallOf(p)',
         Author(p)' => Author(p) \/ ~Made("binding"),
         RAt(p, "cancelling")' => RAt(p, "cancelling") \/ ~Made("cancel")
  PROVE  Inv'
<1>1. /\ caller' \in [Rehearsers -> RCalls] /\ \A q \in Rehearsers : q # p => caller'[q] = caller[q]
  BY BecomeIs DEF Inv
<1>2. RTypeOK'
  BY <1>1 DEF Inv, RTypeOK
<1>3. (\A q \in Rehearsers : CallOf(q))' /\ Unique'
  BY <1>1, Others
<1>4. Counted'
  BY DEF Inv, Counted, Made, Stays, Receipts
<1> QED BY <1>2, <1>3, <1>4 DEF Inv

(* A call that is over.                                                      *)
LEMMA OverInv ==
  ASSUME Inv, NEW p \in Rehearsers, Become(p, Out),
         task' = task, submitted' = submitted, cancelled' = cancelled, taskLate' = taskLate,
         expired' = expired, subscription' \in {"active", "gone"}, entered' \in Nat,
         receipts' \in [Receipts -> States], Stays
  PROVE  Inv'
<1>1. Out \in RCalls /\ caller'[p] = Out
  BY OutIs, BecomeIs DEF Inv
<1>2. CallOf(p)' /\ ~Author(p)' /\ ~RAt(p, "cancelling")'
  BY <1>1, OutIs DEF CallOf, NewComer, Knows, Author, RAt
<1> QED BY <1>1, <1>2, QuietInv

(* A call that goes on with a step at which nothing new is known.            *)
LEMMA GotoInv ==
  ASSUME Inv, NEW p \in Rehearsers, ~RAt(p, "idle"),
         NEW step \in RSteps \ {"idle", "bind", "intent", "check", "submit", "cancelling"}, RGoto(p, step),
         task' = task, submitted' = submitted, cancelled' = cancelled, taskLate' = taskLate,
         expired' = expired, subscription' \in {"active", "gone"}, entered' \in Nat,
         receipts' \in [Receipts -> States], Stays
  PROVE  Inv'
<1> DEFINE new == [caller[p] EXCEPT !.step = step]
<1>1. /\ new \in RCalls /\ new.step = step /\ new.fresh = caller[p].fresh
      /\ new.keep = caller[p].keep /\ new.rejected = caller[p].rejected
  BY DEF Inv, RTypeOK, RCalls
<1>2. Become(p, new)
  BY DEF RGoto
<1> HIDE DEF new
<1>3. caller'[p] = new
  BY <1>1, <1>2, BecomeIs DEF Inv
<1>4. Author(p)' => Author(p)
  BY <1>1, <1>3 DEF Author, RAt
<1>5. CallOf(p)'
  BY <1>1, <1>3, <1>4 DEF Inv, CallOf, NewComer, Knows, RAt, Stays, Made, Receipts, Author
<1>6. ~RAt(p, "cancelling")'
  BY <1>1, <1>3 DEF RAt
<1> QED BY <1>1, <1>2, <1>4, <1>5, <1>6, QuietInv

LEMMA InitInv ==
  ASSUME RInit
  PROVE  Inv
<1>1. RTypeOK
  BY OutIs DEF RInit, RTypeOK, States
<1>2. \A p \in Rehearsers : CallOf(p) /\ ~Author(p) /\ ~RAt(p, "cancelling")
  BY OutIs DEF RInit, CallOf, NewComer, Knows, Author, RAt
<1>3. Unique /\ Counted
  BY <1>2 DEF RInit, Unique, Counted
<1> QED BY <1>1, <1>2, <1>3 DEF Inv

-----------------------------------------------------------------------------
LEMMA WriteIs ==
  ASSUME RTypeOK, NEW p \in Rehearsers, NEW f \in Receipts, NEW state, Write(p, f, state)
  PROVE  /\ receipts' \in [Receipts -> States] /\ Stays
         /\ Raise(p) \/ (Become(p, state) /\ receipts'[f] # "absent")
  BY DEF Write, RTypeOK, States, Stays, Made

LEMMA SameIs ==
  ASSUME RTypeOK, UNCHANGED Service
  PROVE  /\ task' = task /\ submitted' = submitted /\ cancelled' = cancelled /\ taskLate' = taskLate
         /\ expired' = expired /\ subscription' \in {"active", "gone"}
  BY DEF Service, RTypeOK

LEMMA BeginInv ==
  ASSUME Inv, NEW p \in Rehearsers, NEW cancel \in BOOLEAN, NEW end \in BOOLEAN,
         Enter(p, cancel, end) \/ Reject(p)
  PROVE  Inv'
<1>1. PICK state \in RCalls : /\ Become(p, state) /\ state.fresh = FALSE
                              /\ state.step \in {"bind", "cleanup"} /\ (state.keep \/ state.rejected)
  <2> DEFINE begin == [Out EXCEPT !.step = "bind", !.cancel = cancel, !.end = end, !.keep = TRUE]
             reject == [Out EXCEPT !.step = "cleanup", !.rejected = TRUE]
  <2>1. begin \in RCalls /\ begin.fresh = FALSE /\ begin.step = "bind" /\ begin.keep = TRUE
    BY DEF Out, RCalls, RSteps
  <2>2. reject \in RCalls /\ reject.fresh = FALSE /\ reject.step = "cleanup" /\ reject.rejected = TRUE
    BY DEF Out, RCalls, RSteps
  <2>3. Become(p, begin) \/ Become(p, reject)
    BY DEF Enter, Reject
  <2> HIDE DEF begin, reject
  <2> QED BY <2>1, <2>2, <2>3
<1>2. caller'[p] = state
  BY <1>1, BecomeIs DEF Inv
<1>3. CallOf(p)' /\ ~Author(p)' /\ ~RAt(p, "cancelling")'
  <2>1. ~Author(p)' /\ ~RAt(p, "cancelling")' /\ ~RAt(p, "submit")' /\ ~RAt(p, "intent")'
    BY <1>1, <1>2 DEF Author, RAt
  <2>2. Knows(p)' /\ NewComer(p)'
    BY <1>1, <1>2 DEF Knows, NewComer
  <2> QED BY <1>1, <1>2, <2>1, <2>2 DEF CallOf
<1>4. receipts' = receipts /\ entered' \in Nat /\ UNCHANGED Service
  BY DEF Enter, Reject, Inv, RTypeOK
<1> QED BY <1>1, <1>3, <1>4, SameIs, QuietInv DEF Inv, RTypeOK, Stays, Made

LEMMA BindInv ==
  ASSUME Inv, NEW p \in Rehearsers, Bind(p)
  PROVE  Inv'
<1> DEFINE new == [caller[p] EXCEPT !.step = "intent"]
<1>0. ~RAt(p, "idle") /\ ~RAt(p, "cancelling") /\ RTypeOK /\ "binding" \in Receipts /\ entered' = entered
      /\ "cleanup" \in RSteps /\ "check" \in RSteps /\ UNCHANGED Service
  BY DEF Bind, RAt, Inv, Receipts, RSteps
<1>1. CASE Creates("binding") /\ Write(p, "binding", new)
  <2>1. /\ receipts' \in [Receipts -> States] /\ Stays
        /\ Raise(p) \/ (Become(p, new) /\ receipts'["binding"] # "absent")
    BY <1>0, <1>1, WriteIs
  <2>2. CASE Raise(p)
    BY <1>0, <2>1, <2>2, SameIs, GotoInv DEF Raise, RTypeOK
  <2>3. CASE Become(p, new) /\ receipts'["binding"] # "absent"
    <3>1. /\ new \in RCalls /\ new.step = "intent" /\ new.fresh = caller[p].fresh
          /\ new.keep = caller[p].keep /\ new.rejected = caller[p].rejected
      BY <1>0 DEF RTypeOK, RCalls, RSteps
    <3> HIDE DEF new
    <3>2. caller'[p] = new
      BY <1>0, <2>3, <3>1, BecomeIs
    <3>3. submitted' = 0
      BY <1>0, <1>1, SameIs DEF Inv, Counted, Made, Creates
    <3>4. CallOf(p)'
      BY <1>0, <2>3, <3>1, <3>2, <3>3, SameIs DEF Inv, CallOf, NewComer, Knows, Author, RAt, Made
    <3>5. ~RAt(p, "cancelling")' /\ ~Made("binding")
      BY <1>1, <3>1, <3>2 DEF RAt, Made, Creates
    <3> QED BY <1>0, <2>1, <2>3, <3>1, <3>4, <3>5, SameIs, QuietInv DEF RTypeOK
  <2> QED BY <2>1, <2>2, <2>3
<1>2. CASE ~Creates("binding") /\ UNCHANGED receipts /\ (RGoto(p, "check") \/ Raise(p))
  <2>1. CASE Raise(p)
    BY <1>0, <1>2, <2>1, SameIs, GotoInv DEF Raise, RTypeOK, Stays, Made
  <2>2. CASE RGoto(p, "check")
    <3> DEFINE there == [caller[p] EXCEPT !.step = "check"]
    <3>1. /\ there \in RCalls /\ there.step = "check" /\ there.fresh = caller[p].fresh
          /\ there.keep = caller[p].keep /\ there.rejected = caller[p].rejected
      BY <1>0 DEF RTypeOK, RCalls, RSteps
    <3>2. Become(p, there)
      BY <2>2 DEF RGoto
    <3> HIDE DEF there
    <3>3. caller'[p] = there /\ receipts' = receipts
      BY <1>0, <1>2, <3>1, <3>2, BecomeIs
    <3>4. caller[p].fresh = FALSE
      BY <1>0 DEF Bind, Inv, NewComer, CallOf, RTypeOK, RCalls
    <3>5. CallOf(p)' /\ ~Author(p)' /\ ~RAt(p, "cancelling")'
      BY <1>0, <3>1, <3>3, <3>4, SameIs DEF Inv, CallOf, NewComer, Knows, Author, RAt, Made
    <3> QED BY <1>0, <3>1, <3>2, <3>3, <3>5, SameIs, QuietInv DEF RTypeOK, Stays, Made
  <2> QED BY <1>2, <2>1, <2>2
<1> QED BY <1>1, <1>2 DEF Bind

LEMMA IntentInv ==
  ASSUME Inv, NEW p \in Rehearsers, Intent(p)
  PROVE  Inv'
<1> DEFINE new == [caller[p] EXCEPT !.step = "check", !.fresh = TRUE, !.keep = FALSE]
<1>0. /\ ~RAt(p, "idle") /\ RAt(p, "intent") /\ RTypeOK /\ "intent" \in Receipts /\ entered' = entered
      /\ "cleanup" \in RSteps /\ UNCHANGED Service /\ Write(p, "intent", new)
  BY DEF Intent, RAt, Inv, Receipts, RSteps
<1>1. /\ receipts' \in [Receipts -> States] /\ Stays
      /\ Raise(p) \/ Become(p, new)
  BY <1>0, WriteIs
<1>2. CASE Raise(p)
  BY <1>0, <1>1, <1>2, SameIs, GotoInv DEF Raise, RTypeOK
<1>3. CASE Become(p, new)
  <2>1. /\ new \in RCalls /\ new.step = "check" /\ new.fresh = TRUE /\ new.keep = FALSE
    BY <1>0, Zenon DEF RTypeOK, RCalls, RSteps
  <2> HIDE DEF new
  <2>2. caller'[p] = new
    BY <1>0, <1>3, <2>1, BecomeIs
  <2>3. submitted' = 0 /\ task' = "none" /\ Made("binding") /\ Author(p)
    BY <1>0, SameIs DEF Inv, Counted, CallOf, Author
  <2>4. CallOf(p)'
    <3>1. Made("binding")'
      BY <1>1, <2>3 DEF Stays, Made, Receipts
    <3> QED BY <2>1, <2>2, <2>3, <3>1 DEF CallOf, NewComer, Knows, RAt
  <2>5. ~RAt(p, "cancelling")'
    BY <2>1, <2>2 DEF RAt
  <2> QED BY <1>0, <1>1, <1>3, <2>1, <2>3, <2>4, <2>5, SameIs, QuietInv DEF RTypeOK
<1> QED BY <1>1, <1>2, <1>3

LEMMA CheckInv ==
  ASSUME Inv, NEW p \in Rehearsers, Check(p)
  PROVE  Inv'
<1> DEFINE new == [caller[p] EXCEPT !.step = "submit", !.keep = TRUE]
<1>0. /\ RAt(p, "check") /\ ~RAt(p, "idle") /\ RTypeOK /\ entered' = entered /\ receipts' = receipts
      /\ "cleanup" \in RSteps /\ "resume" \in RSteps /\ UNCHANGED Service
      /\ receipts' \in [Receipts -> States] /\ Stays
  BY DEF Check, RAt, Inv, RTypeOK, RSteps, Stays, Made
<1>1. CASE Raise(p) \/ RGoto(p, "resume")
  BY <1>0, <1>1, SameIs, GotoInv DEF Raise, RTypeOK
<1>2. CASE caller[p].fresh /\ Become(p, new)
  <2>1. /\ new \in RCalls /\ new.step = "submit" /\ new.fresh = caller[p].fresh /\ new.keep = TRUE
    BY <1>0, Zenon DEF RTypeOK, RCalls, RSteps
  <2> HIDE DEF new
  <2>2. caller'[p] = new
    BY <1>0, <1>2, <2>1, BecomeIs
  <2>3. submitted' = 0 /\ Made("binding")' /\ Author(p)
    BY <1>0, <1>2, SameIs DEF Inv, CallOf, Author, RAt, Made
  <2>4. CallOf(p)'
    BY <1>2, <2>1, <2>2, <2>3 DEF CallOf, NewComer, Knows, RAt
  <2>5. ~RAt(p, "cancelling")'
    BY <2>1, <2>2 DEF RAt
  <2> QED BY <1>0, <1>2, <2>1, <2>3, <2>4, <2>5, SameIs, QuietInv DEF RTypeOK
<1> QED BY <1>1, <1>2 DEF Check

LEMMA SubmitInv ==
  ASSUME Inv, NEW p \in Rehearsers, RSubmit(p)
  PROVE  Inv'
<1> USE DEF Inv
<1>0. /\ RAt(p, "submit") /\ RTypeOK /\ caller[p].fresh /\ caller[p].keep /\ submitted = 0
      /\ Made("binding") /\ task = "none" /\ Author(p)
  BY DEF RSubmit, RAt, CallOf, Author, Counted
<1>1. PICK step \in {"sent", "cleanup"} : RGoto(p, step)
  BY DEF RSubmit, Raise
<1> DEFINE new == [caller[p] EXCEPT !.step = step]
<1>2. /\ new \in RCalls /\ new.step = step /\ new.fresh = caller[p].fresh
      /\ new.keep = caller[p].keep
  BY <1>0, Zenon DEF RTypeOK, RCalls, RSteps
<1>3. Become(p, new)
  BY <1>1 DEF RGoto
<1> HIDE DEF new
<1>4. /\ caller' \in [Rehearsers -> RCalls] /\ caller'[p] = new
      /\ \A q \in Rehearsers : q # p => caller'[q] = caller[q]
  BY <1>0, <1>2, <1>3, BecomeIs
<1>5. /\ submitted' = 1 /\ task' \in {"none", "queued"}
      /\ UNCHANGED <<receipts, subscription, taskLate, expired, cancelled, entered>>
  BY <1>0 DEF RSubmit
<1>6. RTypeOK'
  BY <1>4, <1>5 DEF RTypeOK, Pending
<1>7. CallOf(p)'
  BY <1>0, <1>2, <1>4, <1>5 DEF CallOf, NewComer, Knows, RAt, Author, Made
<1>8. ~RAt(p, "cancelling")' /\ Stays
  BY <1>2, <1>4, <1>5 DEF RAt, Stays, Made
<1>9. (\A q \in Rehearsers : CallOf(q))' /\ Unique'
  BY <1>0, <1>4, <1>5, <1>7, <1>8, Others DEF Terminal
<1>10. Counted'
  BY <1>0, <1>5 DEF Counted, Made
<1> QED BY <1>6, <1>9, <1>10

LEMMA SentInv ==
  ASSUME Inv, NEW p \in Rehearsers, Sent(p)
  PROVE  Inv'
<1>0. /\ ~RAt(p, "idle") /\ RTypeOK /\ "submitted" \in Receipts /\ entered' = entered
      /\ "cleanup" \in RSteps /\ "resume" \in RSteps /\ UNCHANGED Service
      /\ Write(p, "submitted", [caller[p] EXCEPT !.step = "resume"])
  BY DEF Sent, RAt, Inv, Receipts, RSteps
<1>1. receipts' \in [Receipts -> States] /\ Stays /\ (Raise(p) \/ RGoto(p, "resume"))
  BY <1>0, WriteIs DEF RGoto
<1> QED BY <1>0, <1>1, SameIs, GotoInv DEF Raise, RTypeOK

(* A call that read the task: it keeps the subscription unless the task is   *)
(* over.                                                                     *)
LEMMA ReadInv ==
  ASSUME Inv, NEW p \in Rehearsers, RResume(p) \/ Reread(p)
  PROVE  Inv'
<1>0. /\ ~RAt(p, "idle") /\ RTypeOK /\ entered' = entered /\ receipts' = receipts
      /\ "cleanup" \in RSteps /\ UNCHANGED Service /\ receipts' \in [Receipts -> States] /\ Stays
  BY DEF RResume, Reread, RAt, Inv, RTypeOK, RSteps, Stays, Made
<1>1. CASE Raise(p)
  BY <1>0, <1>1, SameIs, GotoInv DEF Raise, RTypeOK
<1>2. CASE ~Raise(p)
  <2>1. PICK step \in {"cancel", "cleanup"}, done \in BOOLEAN :
          Become(p, [caller[p] EXCEPT !.step = step, !.keep = Keeps, !.done = done])
    <3>1. CASE RResume(p)
      <4>1. (IF Cancelling(p) /\ Keeps THEN "cancel" ELSE "cleanup") \in {"cancel", "cleanup"}
            /\ (~Cancelling(p) /\ task = "completed") \in BOOLEAN
        OBVIOUS
      <4> QED BY <1>2, <3>1, <4>1 DEF RResume
    <3>2. CASE Reread(p)
      <4>1. caller[p].done \in BOOLEAN /\ caller[p] \in RCalls
        BY <1>0 DEF RTypeOK, RCalls
      <4>2. [caller[p] EXCEPT !.step = "cleanup", !.keep = Keeps]
              = [caller[p] EXCEPT !.step = "cleanup", !.keep = Keeps, !.done = caller[p].done]
        BY <4>1 DEF RCalls
      <4> QED BY <1>2, <3>2, <4>1, <4>2 DEF Reread
    <3> QED BY <3>1, <3>2
  <2> DEFINE new == [caller[p] EXCEPT !.step = step, !.keep = Keeps, !.done = done]
  <2>2. /\ new \in RCalls /\ new.step = step /\ new.fresh = caller[p].fresh /\ new.keep = Keeps
    <3>1. caller[p] \in RCalls /\ step \in RSteps /\ Keeps \in BOOLEAN
      BY <1>0 DEF RTypeOK, RSteps, Keeps
    <3>2. new \in RCalls
      BY <3>1, Zenon DEF RCalls
    <3>3. new.step = step /\ new.fresh = caller[p].fresh /\ new.keep = Keeps
      BY <3>1, Zenon DEF RCalls
    <3> QED BY <3>2, <3>3
  <2>3. Become(p, new)
    BY <2>1
  <2> HIDE DEF new
  <2>4. caller'[p] = new
    BY <1>0, <2>2, <2>3, BecomeIs
  <2>5. (Author(p)' => Author(p)) /\ ~RAt(p, "cancelling")' /\ Knows(p)'
    BY <1>0, <2>2, <2>4, SameIs DEF Author, RAt, Knows, Keeps
  <2>6. CallOf(p)'
    BY <1>0, <2>2, <2>4, <2>5 DEF Inv, CallOf, NewComer, RAt, Made, Author
  <2> QED BY <1>0, <2>2, <2>3, <2>5, <2>6, SameIs, QuietInv DEF RTypeOK
<1> QED BY <1>1, <1>2

LEMMA CancelInv ==
  ASSUME Inv, NEW p \in Rehearsers, Cancel(p)
  PROVE  Inv'
<1> DEFINE new == [caller[p] EXCEPT !.step = "cancelling"]
<1>0. /\ RAt(p, "cancel") /\ ~RAt(p, "idle") /\ RTypeOK /\ "cancel" \in Receipts /\ entered' = entered
      /\ "cleanup" \in RSteps /\ "reread" \in RSteps /\ UNCHANGED Service
  BY DEF Cancel, RAt, Inv, Receipts, RSteps
<1>1. CASE Creates("cancel") /\ Write(p, "cancel", new)
  <2>1. /\ receipts' \in [Receipts -> States] /\ Stays
        /\ Raise(p) \/ (Become(p, new) /\ receipts'["cancel"] # "absent")
    BY <1>0, <1>1, WriteIs
  <2>2. CASE Raise(p)
    BY <1>0, <2>1, <2>2, SameIs, GotoInv DEF Raise, RTypeOK
  <2>3. CASE Become(p, new) /\ receipts'["cancel"] # "absent"
    <3>1. /\ new \in RCalls /\ new.step = "cancelling" /\ new.fresh = caller[p].fresh
          /\ new.keep = caller[p].keep /\ new.rejected = caller[p].rejected
      BY <1>0 DEF RTypeOK, RCalls, RSteps
    <3> HIDE DEF new
    <3>2. caller'[p] = new
      BY <1>0, <2>3, <3>1, BecomeIs
    <3>3. cancelled' = 0 /\ ~Made("cancel") /\ Made("cancel")'
      BY <1>0, <1>1, <2>3, SameIs DEF Inv, Counted, Made, Creates
    <3>4. Author(p)' => Author(p)
      BY <3>1, <3>2 DEF Author, RAt
    <3>5. CallOf(p)'
      BY <1>0, <2>1, <3>1, <3>2, <3>3, <3>4, SameIs
         DEF Inv, CallOf, NewComer, Knows, RAt, Stays, Made, Receipts
    <3> QED BY <1>0, <2>1, <2>3, <3>1, <3>3, <3>4, <3>5, SameIs, QuietInv DEF RTypeOK
  <2> QED BY <2>1, <2>2, <2>3
<1>2. CASE UNCHANGED receipts /\ (RGoto(p, "reread") \/ Raise(p))
  BY <1>0, <1>2, SameIs, GotoInv DEF Raise, RTypeOK, Stays, Made
<1> QED BY <1>1, <1>2 DEF Cancel

LEMMA SendCancelInv ==
  ASSUME Inv, NEW p \in Rehearsers, RSendCancel(p)
  PROVE  Inv'
<1> USE DEF Inv
<1>0. RAt(p, "cancelling") /\ RTypeOK /\ Made("cancel") /\ cancelled = 0
  BY DEF RSendCancel, CallOf
<1>1. PICK step \in {"reread", "cleanup"} : RGoto(p, step)
  BY DEF RSendCancel, Raise
<1> DEFINE new == [caller[p] EXCEPT !.step = step]
<1>2. /\ new \in RCalls /\ new.step = step /\ new.fresh = caller[p].fresh
      /\ new.keep = caller[p].keep /\ new.rejected = caller[p].rejected
  BY <1>0 DEF RTypeOK, RCalls, RSteps
<1>3. Become(p, new)
  BY <1>1 DEF RGoto
<1> HIDE DEF new
<1>4. /\ caller' \in [Rehearsers -> RCalls] /\ caller'[p] = new
      /\ \A q \in Rehearsers : q # p => caller'[q] = caller[q]
  BY <1>0, <1>2, <1>3, BecomeIs
<1>5. /\ cancelled' = 1 /\ (task' = task \/ (task \in Pending /\ task' = "cancelled"))
      /\ UNCHANGED <<receipts, subscription, taskLate, expired, submitted, entered>>
  BY <1>0 DEF RSendCancel
<1>6. RTypeOK'
  BY <1>4, <1>5 DEF RTypeOK, Pending, Terminal
<1>7. (Author(p)' => Author(p)) /\ ~RAt(p, "cancelling")' /\ Stays
  BY <1>2, <1>4, <1>5 DEF RAt, Author, Stays, Made
<1>8. CallOf(p)'
  <2>1. Knows(p)'
    BY <1>0, <1>2, <1>4, <1>5 DEF CallOf, Knows, RAt, Pending, Terminal
  <2> QED BY <1>0, <1>2, <1>4, <1>5, <1>7, <2>1 DEF CallOf, NewComer, RAt, Made
<1>9. (\A q \in Rehearsers : CallOf(q))' /\ Unique'
  <2>1. (task \in Terminal => task' \in Terminal) /\ (task = "none" => task' = "none")
    BY <1>5 DEF Pending, Terminal
  <2> QED BY <1>0, <1>4, <1>5, <1>7, <1>8, <2>1, Others
<1>10. Counted'
  BY <1>0, <1>5 DEF Counted, Made, Pending
<1> QED BY <1>6, <1>9, <1>10

(* The end of a call.                                                        *)
LEMMA EndInv ==
  ASSUME Inv, NEW p \in Rehearsers, Cleanup(p) \/ Confirm(p) \/ WriteVerified(p) \/ RDie(p)
  PROVE  Inv'
<1>1. /\ ~RAt(p, "idle") /\ RTypeOK /\ entered' = entered /\ "confirm" \in RSteps /\ "verified" \in RSteps
      /\ task' = task /\ submitted' = submitted /\ cancelled' = cancelled /\ taskLate' = taskLate
      /\ expired' = expired /\ subscription' \in {"active", "gone"}
  BY DEF Cleanup, Confirm, WriteVerified, RDie, RAt, Inv, RTypeOK, Service, RSteps
<1>2. receipts' \in [Receipts -> States] /\ Stays
  <2>1. CASE receipts' = receipts
    BY <1>1, <2>1 DEF RTypeOK, Stays, Made
  <2>2. CASE \E t \in {"torn", "whole"} : receipts' = [receipts EXCEPT !["verified"] = t]
    BY <1>1, <2>2 DEF RTypeOK, Stays, Made, States
  <2>3. WriteVerified(p) => receipts' = receipts
          \/ \E t \in {"torn", "whole"} : receipts' = [receipts EXCEPT !["verified"] = t]
    BY DEF WriteVerified
  <2> QED BY <2>1, <2>2, <2>3 DEF Cleanup, Confirm, RDie
<1>3. Become(p, Out) \/ RGoto(p, "confirm") \/ RGoto(p, "verified")
  BY DEF Cleanup, Confirm, WriteVerified, RDie
<1>4. CASE Become(p, Out)
  BY <1>1, <1>2, <1>4, OverInv DEF RTypeOK
<1>5. CASE RGoto(p, "confirm") \/ RGoto(p, "verified")
  BY <1>1, <1>2, <1>5, GotoInv DEF RTypeOK
<1> QED BY <1>3, <1>4, <1>5

LEMMA WorldInv ==
  ASSUME Inv, Work \/ Late \/ Expire
  PROVE  Inv'
<1> USE DEF Inv
<1>1. UNCHANGED <<receipts, caller, submitted, cancelled, entered>>
  BY DEF Work, Late, Expire
<1>2. RTypeOK'
  BY <1>1 DEF RTypeOK, Work, Late, Expire, Pending, Terminal
<1>3. /\ task \in Terminal => task' \in Terminal
      /\ task = "none" => task' = "none"
  BY DEF Work, Late, Expire, Terminal
<1>4. \A p \in Rehearsers : CallOf(p)'
  BY <1>1, <1>3 DEF CallOf, NewComer, Knows, Author, RAt, Made
<1>5. Unique' /\ Counted'
  BY <1>1, <1>3 DEF Unique, Author, RAt, Counted, Made
<1> QED BY <1>2, <1>4, <1>5

LEMMA NextInv ==
  ASSUME Inv, [RNext]_rvars
  PROVE  Inv'
<1>1. CASE UNCHANGED rvars
  BY <1>1 DEF rvars, Inv, RTypeOK, CallOf, NewComer, Knows, Author, RAt, Made, Unique, Counted
<1>2. CASE Work \/ Late \/ Expire
  BY <1>2, WorldInv
<1>3. ASSUME NEW p \in Rehearsers,
             (\E cancel, end \in BOOLEAN : Enter(p, cancel, end)) \/ Reject(p)
      PROVE  Inv'
  BY <1>3, BeginInv
<1>4. ASSUME NEW p \in Rehearsers,
             Bind(p) \/ Intent(p) \/ Check(p) \/ RSubmit(p) \/ Sent(p) \/ RResume(p)
      PROVE  Inv'
  BY <1>4, BindInv, IntentInv, CheckInv, SubmitInv, SentInv, ReadInv
<1>5. ASSUME NEW p \in Rehearsers,
             \/ Cancel(p) \/ RSendCancel(p) \/ Reread(p)
             \/ Cleanup(p) \/ Confirm(p) \/ WriteVerified(p) \/ RDie(p)
      PROVE  Inv'
  BY <1>5, CancelInv, SendCancelInv, ReadInv, EndInv
<1> QED BY <1>1, <1>2, <1>3, <1>4, <1>5 DEF RNext

-----------------------------------------------------------------------------
(* The inductive invariant, for every number of callers and calls.           *)
THEOREM Inductive == RSpec => []Inv
<1>1. RInit => Inv
  BY InitInv
<1>2. Inv /\ [RNext]_rvars => Inv'
  BY NextInv
<1> QED BY <1>1, <1>2, PTL DEF RSpec

(* Every variable of the rehearsal keeps its type.                           *)
THEOREM TypeCorrect ==
  RSpec => []RTypeOK
<1>1. Inv => RTypeOK
  BY DEF Inv
<1> QED BY <1>1, Inductive, PTL

(* run_historical_diagnosis_rehearsal, however its calls overlap and die,    *)
(* sends one submission and one cancellation at most.                        *)
THEOREM SubmitsOnceAlways ==
  RSpec => []SubmitsOnce
<1>1. Inv => SubmitsOnce
  BY DEF Inv, Counted, SubmitsOnce
<1> QED BY <1>1, Inductive, PTL

(* What PendingKeepsSubscription says of one step.                           *)
KeepsStep ==
  \A p \in Rehearsers :
    RAt(p, "cleanup") /\ caller'[p] # caller[p] /\ subscription = "active"
      /\ subscription' = "gone" /\ task \in Pending =>
      caller[p].end \/ caller[p].rejected \/ expired'

LEMMA NextKeeps ==
  ASSUME Inv, [RNext]_rvars
  PROVE  KeepsStep
<1> SUFFICES ASSUME NEW p \in Rehearsers, RAt(p, "cleanup"), caller'[p] # caller[p],
                    subscription = "active", subscription' = "gone", task \in Pending
             PROVE  caller[p].end \/ caller[p].rejected \/ expired'
  BY DEF KeepsStep
<1>1. Cleanup(p)
  <2>1. ~(UNCHANGED rvars) /\ ~Work /\ ~Late /\ ~Expire
    BY DEF rvars, Work, Late, Expire
  <2>2. ASSUME NEW q \in Rehearsers,
               (\E cancel, end \in BOOLEAN : Enter(q, cancel, end)) \/ Reject(q) \/ Bind(q)
                 \/ Intent(q) \/ Check(q) \/ Sent(q) \/ RResume(q) \/ Cancel(q) \/ Reread(q)
                 \/ Confirm(q) \/ WriteVerified(q) \/ RDie(q)
        PROVE  subscription' = subscription
    BY <2>2 DEF Enter, Reject, Bind, Intent, Check, Sent, RResume, Cancel, Reread, Confirm,
               WriteVerified, RDie, Service
  <2>3. ASSUME NEW q \in Rehearsers, RSubmit(q) \/ RSendCancel(q)
        PROVE  subscription' = subscription
    BY <2>3 DEF RSubmit, RSendCancel
  <2>4. PICK q \in Rehearsers : Cleanup(q)
    BY <2>1, <2>2, <2>3 DEF RNext
  <2>5. q # p => caller'[p] = caller[p]
    BY <2>4, BecomeIs, OutIs DEF Cleanup, RGoto, Become, Inv, RTypeOK
  <2> QED BY <2>4, <2>5
<1>2. expired' = expired /\ ~Retain(p)
  BY <1>1 DEF Cleanup
<1>3. caller[p].keep \/ caller[p].rejected
  BY DEF Inv, CallOf, Knows, RAt, Pending, Terminal
<1> QED BY <1>2, <1>3 DEF Retain

(* No call takes the subscription from a task the worker may still deliver.  *)
THEOREM PendingKeeps ==
  RSpec => PendingKeepsSubscription
<1>1. Inv /\ [RNext]_rvars => [KeepsStep]_rvars
  BY NextKeeps
<1> QED BY <1>1, Inductive, PTL DEF RSpec, PendingKeepsSubscription, KeepsStep

=============================================================================
