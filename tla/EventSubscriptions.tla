------------------------- MODULE EventSubscriptions -------------------------
(***************************************************************************)
(* The webhook subscriptions of src/src/ai_service/events.py: workers      *)
(* subscribe and unsubscribe on request threads, and the dispatcher, after *)
(* each tick, copies new events into per-subscription deliveries and calls *)
(* back.  _subscription_lock serialises subscribe, unsubscribe and one     *)
(* callback; flush() copies events before it takes the lock and stores a   *)
(* callback's answer after it released it.                                 *)
(*                                                                         *)
(* One action is one SQLite transaction or one call to a callback.  Every  *)
(* transaction that writes begins with a prune.  The signing keys and      *)
(* their rotation are left out: no step depends on which key signs.        *)
(***************************************************************************)
EXTENDS TaskEvents, FiniteSetsExt

CONSTANTS
  Principals, Urls,
  MaxSubscriptions,   \* per principal and project (4)
  MaxPending,         \* deliveries of one subscription (128)
  MaxCallbacks,       \* callbacks of one flush (4)
  MaxAttempts,        \* attempts at one delivery (5)
  MaxAdmissions,      \* bound: subscribe calls admitted
  MaxRegrants,        \* bound: changes of the granted principals
  MaxLapses,          \* bound: subscriptions that expire
  MaxCrashes          \* bound: crashes of the service

ASSUME LimitsAssumption == /\ MaxSubscriptions \in Nat /\ MaxPending \in Nat
                           /\ MaxCallbacks \in Nat /\ MaxAttempts \in Nat \ {0}
                           /\ MaxAdmissions \in Nat /\ MaxRegrants \in Nat
                           /\ MaxLapses \in Nat /\ MaxCrashes \in Nat

\* One project: an identity is a principal and a destination.
Subs == Principals \X Urls
Seqs == 1..MaxEvents

VARIABLES
  (* the tables *)
  row,         \* subscriptions: "none", "active" or "inactive"
  lapsed,      \* subscriptions past their expires
  start,       \* start_seq
  lifecycle,   \* subscription_lifecycle: "none", "kept" or "deleted"
  delivery,    \* event_deliveries: none, due, waiting (next_attempt), sent, stopped
  attempts,
  (* the configuration *)
  granted,     \* principals that can_access admits
  (* the threads *)
  lock,        \* whether _subscription_lock is held
  asking,      \* subscriptions whose challenge is out
  phase,       \* the dispatcher: idle, tick, deliver, sending, store
  todo,        \* the queued tasks tick() has yet to look at
  submitting,  \* the task tick() is submitting, in a singleton, or {}
  batch,       \* the pending rows flush() has yet to look at
  current,     \* the row being sent, in a singleton, or {}
  answer,      \* what its callback came back with
  (* history, read by the properties only *)
  acked,       \* deliveries a callback accepted and whose answer no crash lost
  admissions, regrants, lapses, crashes   \* counters of the bounds

tables == <<row, lapsed, start, lifecycle, delivery, attempts>>
flusher == <<phase, batch, current, answer>>
ticker == <<todo, submitting>>
counters == <<admissions, regrants, lapses, crashes>>
vars == <<store, tables, granted, lock, asking, flusher, ticker, acked, counters>>

Rows == {r \in Subs \X Seqs : delivery[r[1]][r[2]] # "none"}
Live(s) == row[s] = "active" /\ s \notin lapsed
Granted(s) == s[1] \in granted
\* has_active: what DotEventProvider.submit asks.
HasActive == \E s \in Subs : Live(s) /\ Granted(s)

Init ==
  /\ InitStore
  /\ row = [s \in Subs |-> "none"]
  /\ lapsed = {}
  /\ start = [s \in Subs |-> 0]
  /\ lifecycle = [s \in Subs |-> "none"]
  /\ delivery = [s \in Subs |-> [q \in Seqs |-> "none"]]
  /\ attempts = [s \in Subs |-> [q \in Seqs |-> 0]]
  /\ granted = Principals
  /\ lock = FALSE
  /\ asking = {}
  /\ phase = "idle" /\ todo = {} /\ submitting = {} /\ batch = {} /\ current = {} /\ answer = "none"
  /\ acked = {}
  /\ admissions = 0 /\ regrants = 0 /\ lapses = 0 /\ crashes = 0

-----------------------------------------------------------------------------
(* _prune, which every writing transaction begins with. *)

Dead == {s \in Subs : row[s] = "inactive" \/ (row[s] # "none" /\ s \in lapsed)}
Kept(s) == row[s] # "none" /\ s \notin Dead

Pruned(s) == IF s \in Dead THEN [q \in Seqs |-> "none"] ELSE delivery[s]

Prune ==
  /\ row' = [s \in Subs |-> IF s \in Dead THEN "none" ELSE row[s]]
  /\ delivery' = [s \in Subs |-> Pruned(s)]
  /\ lapsed' = lapsed \ Dead

\* get_event_subscription, or the constructor after a restart.
ReadStatus ==
  /\ Dead # {}
  /\ Prune
  /\ UNCHANGED <<store, start, lifecycle, attempts, granted, lock, asking, flusher, ticker,
                 acked, counters>>

-----------------------------------------------------------------------------
(* subscribe: admission, challenge and activation, all under the lock. *)

FaultyFree == TRUE
Free == ~lock

\* A refresh is always admitted, a new subscription below the limit.
Admissible(s) ==
  Kept(s) \/ Cardinality({u \in Subs : u[1] = s[1] /\ Kept(u)}) < MaxSubscriptions

Admit(s) ==
  /\ Free
  /\ Granted(s) /\ Admissible(s)
  /\ admissions < MaxAdmissions
  /\ admissions' = admissions + 1
  /\ lock' = TRUE
  /\ asking' = asking \cup {s}
  /\ Prune
  /\ UNCHANGED <<store, start, lifecycle, attempts, granted, flusher, ticker,
                 acked, regrants, lapses, crashes>>

\* The callback echoed the challenge and the grant still stands.  A refresh
\* keeps the cursor; a new lifetime starts after the newest event.
Activate(s) ==
  /\ s \in asking /\ Granted(s)
  /\ row' = [u \in Subs |-> IF u = s THEN "active" ELSE IF u \in Dead THEN "none" ELSE row[u]]
  /\ delivery' = [u \in Subs |-> Pruned(u)]
  /\ lapsed' = lapsed \ (Dead \cup {s})
  /\ start' = [start EXCEPT ![s] = IF Kept(s) THEN @ ELSE Len(log)]
  /\ lifecycle' = [lifecycle EXCEPT ![s] = "kept"]
  /\ lock' = FALSE
  /\ asking' = asking \ {s}
  /\ UNCHANGED <<store, attempts, granted, flusher, ticker, acked, counters>>

\* The challenge failed, or the grant was revoked meanwhile.
Refuse(s) ==
  /\ s \in asking
  /\ lock' = FALSE
  /\ asking' = asking \ {s}
  /\ UNCHANGED <<store, tables, granted, flusher, ticker, acked, counters>>

FaultyForget(s) == delivery' = [u \in Subs |-> Pruned(u)]
Forget(s) == delivery' = [u \in Subs |-> IF u = s THEN [q \in Seqs |-> "none"] ELSE Pruned(u)]

Unsubscribe(s) ==
  /\ Free
  /\ lifecycle[s] = "kept"
  /\ row' = [u \in Subs |-> IF u \in Dead \cup {s} THEN "none" ELSE row[u]]
  /\ Forget(s)
  /\ lapsed' = lapsed \ (Dead \cup {s})
  /\ lifecycle' = [lifecycle EXCEPT ![s] = "deleted"]
  /\ UNCHANGED <<store, start, attempts, granted, lock, asking, flusher, ticker,
                 acked, counters>>

-----------------------------------------------------------------------------
(* The dispatcher: tick(), then flush(). *)

\* tick() reads the queued tasks, and takes them in created order.
StartTick ==
  /\ phase = "idle"
  /\ Abandon
  /\ todo' = {t \in Tasks : task[t] = "queued"}
  /\ phase' = "tick"
  /\ UNCHANGED <<tables, granted, lock, asking, submitting, batch, current, answer, acked, counters>>

TickSubmit(t) ==
  /\ phase = "tick" /\ submitting = {}
  /\ t \in todo /\ \A u \in todo : QueuedAt(t) <= QueuedAt(u)
  /\ todo' = todo \ {t}
  /\ \/ BeginSubmit(t) /\ submitting' = {t}
     \/ Expire(t) /\ UNCHANGED submitting
     \/ task[t] # "queued" /\ UNCHANGED <<store, submitting>>
  /\ UNCHANGED <<tables, granted, lock, asking, flusher, acked, counters>>

\* submit refuses without an active subscription, and may fail otherwise.
TickSubmitted(t) ==
  /\ t \in submitting
  /\ submitting' = {}
  /\ \E outcome \in {IF HasActive THEN "accepted" ELSE "rejected", "raised"} : EndSubmit(t, outcome)
  /\ UNCHANGED <<tables, granted, lock, asking, todo, flusher, acked, counters>>

\* What flush() copies for a subscription: news past the cursor of tasks that
\* are open to workers, as much as the backlog has room for.
Announceable == {"running", "cancel_requested", "outcome_unknown"}
Fresh(s) == {q \in DOMAIN log : q > start[s] /\ task[log[q].task] \in Announceable}
First(S, n) == {q \in S : Cardinality({p \in S : p < q}) < n}

Backlog(s) == {q \in Seqs : delivery[s][q] \in {"due", "waiting"}}
Capacity(s) == MaxPending - Cardinality(Backlog(s))
FaultyCursor(s, S) == start[s]
Cursor(s, S) == IF S = {} THEN start[s] ELSE Max(S)

\* Rows never tried come first, in seq order; the others by next_attempt.
Before(n, r, u) == /\ n[r[1]][r[2]] = 0
                   /\ n[u[1]][u[2]] # 0 \/ r[2] < u[2]

\* The pending rows of one flush: the first MaxCallbacks that are due.
FaultyIsBatch(B, due, n) ==
  LET untried == {r \in due : n[r[1]][r[2]] = 0}
  IN /\ B \subseteq untried /\ Cardinality(B) = Min({MaxCallbacks, Cardinality(untried)})
     /\ \A r \in B, u \in untried \ B : ~Before(n, u, r)
IsBatch(B, due, n) ==
  /\ B \subseteq due /\ Cardinality(B) = Min({MaxCallbacks, Cardinality(due)})
  /\ \A r \in B, u \in due \ B : ~Before(n, u, r)

\* One transaction: prune, forget what is settled, drop the revoked, copy the
\* news and select the batch.
Collect ==
  LET open == {s \in Subs : Kept(s) /\ Granted(s)}
      new == [s \in Subs |-> IF s \in open THEN First(Fresh(s), Capacity(s))
                                           ELSE {}]
      rows == [s \in Subs |-> IF s \in Dead THEN "none"
                              ELSE IF s \in open \/ row[s] = "none" THEN row[s] ELSE "inactive"]
      deliveries == [s \in Subs |-> [q \in Seqs |->
                       IF s \notin Dead /\ q \in Backlog(s) THEN delivery[s][q]
                       ELSE IF q \in new[s] THEN "due" ELSE "none"]]
      tries == [s \in Subs |-> [q \in Seqs |-> IF q \in new[s] THEN 0 ELSE attempts[s][q]]]
      due == {r \in Subs \X Seqs : deliveries[r[1]][r[2]] = "due" /\ rows[r[1]] # "none"}
  IN /\ phase = "tick" /\ todo = {} /\ submitting = {}
     /\ row' = rows
     /\ lapsed' = lapsed \ Dead
     /\ delivery' = deliveries
     /\ attempts' = tries
     /\ start' = [s \in Subs |-> Cursor(s, new[s])]
     /\ \E B \in SUBSET due : IsBatch(B, due, tries) /\ batch' = B
     /\ phase' = "deliver"
     /\ UNCHANGED <<store, lifecycle, granted, lock, asking, ticker, current, answer,
                    acked, counters>>

\* The rows of a batch are taken in the order they were selected in.
IsNext(r) == r \in batch /\ \A u \in batch : ~Before(attempts, u, r)

\* Under the lock the subscription is looked up again ...
FaultyEntitled(s) == TRUE
Entitled(s) == Live(s) /\ Granted(s)

SkipRow(r) ==
  /\ phase = "deliver" /\ Free /\ IsNext(r)
  /\ ~Entitled(r[1])
  /\ batch' = batch \ {r}
  /\ UNCHANGED <<store, tables, granted, lock, asking, phase, ticker, current, answer,
                 acked, counters>>

\* ... and the callback is made.
Send(r) ==
  /\ phase = "deliver" /\ Free /\ IsNext(r)
  /\ Entitled(r[1])
  /\ batch' = batch \ {r}
  /\ lock' = TRUE
  /\ current' = {r}
  /\ phase' = "sending"
  /\ UNCHANGED <<store, tables, granted, asking, ticker, answer, acked, counters>>

\* 2xx; no answer, 429 or 5xx; anything else.  Then the lock is released.
Answers == {"accepted", "transient", "refused"}

Answer(a) ==
  /\ phase = "sending"
  /\ answer' = a
  /\ acked' = IF a = "accepted" THEN acked \cup current ELSE acked
  /\ lock' = FALSE
  /\ phase' = "store"
  /\ UNCHANGED <<store, tables, granted, asking, batch, ticker, current, counters>>

FaultyState(a, n) == CASE a = "accepted" -> "sent"
                       [] a = "transient" -> "waiting"
                       [] OTHER -> "stopped"
State(a, n) == CASE a = "accepted" -> "sent"
                 [] a = "transient" /\ n < MaxAttempts -> "waiting"
                 [] OTHER -> "stopped"

\* The UPDATE finds no row when the subscription was deleted meanwhile.
Store ==
  /\ phase = "store"
  /\ \E r \in current :
       LET s == r[1]  q == r[2]  n == attempts[s][q] + 1
       IN IF delivery[s][q] = "none"
          THEN UNCHANGED <<delivery, attempts>>
          ELSE /\ delivery' = [delivery EXCEPT ![s][q] = State(answer, n)]
               /\ attempts' = [attempts EXCEPT ![s][q] = n]
  /\ current' = {}
  /\ phase' = "deliver"
  /\ UNCHANGED <<store, row, lapsed, start, lifecycle, granted, lock, asking, batch, ticker,
                 answer, acked, counters>>

\* All rows are done, the lock was not to be had in time, or a callback was
\* made that used up the budget of the flush.
EndFlush ==
  /\ phase = "deliver"
  /\ batch = {} \/ ~Free \/ answer # "none"
  /\ phase' = "idle" /\ batch' = {} /\ answer' = "none"
  /\ UNCHANGED <<store, tables, granted, lock, asking, ticker, current,
                 acked, counters>>

Dispatch ==
  \/ StartTick
  \/ \E t \in Tasks : TickSubmit(t) \/ TickSubmitted(t)
  \/ Collect
  \/ \E r \in batch : SkipRow(r) \/ Send(r)
  \/ \E a \in Answers : Answer(a)
  \/ Store
  \/ EndFlush

-----------------------------------------------------------------------------
(* Time, configuration and crashes. *)

\* The pause before another attempt (next_attempt) is over.
Retry(s, q) ==
  /\ delivery[s][q] = "waiting"
  /\ delivery' = [delivery EXCEPT ![s][q] = "due"]
  /\ UNCHANGED <<store, row, lapsed, start, lifecycle, attempts, granted, lock, asking, flusher,
                 ticker, acked, counters>>

Lapse(s) ==
  /\ Live(s) /\ lapses < MaxLapses
  /\ lapses' = lapses + 1
  /\ lapsed' = lapsed \cup {s}
  /\ UNCHANGED <<store, row, start, lifecycle, delivery, attempts, granted, lock, asking, flusher,
                 ticker, acked, admissions, regrants, crashes>>

Regrant ==
  /\ regrants < MaxRegrants
  /\ regrants' = regrants + 1
  /\ granted' \in (SUBSET Principals) \ {granted}
  /\ UNCHANGED <<store, tables, lock, asking, flusher, ticker, acked,
                 admissions, lapses, crashes>>

\* The service dies and is started again; the constructor prunes.
Crash ==
  /\ crashes < MaxCrashes
  /\ crashes' = crashes + 1
  /\ acked' = acked \ current
  /\ lock' = FALSE /\ asking' = {} /\ todo' = {} /\ submitting' = {}
  /\ phase' = "idle" /\ batch' = {} /\ current' = {} /\ answer' = "none"
  /\ Prune
  /\ UNCHANGED <<store, start, lifecycle, attempts, granted,
                 admissions, regrants, lapses>>

Ask == \E s \in Subs : Admit(s) \/ Unsubscribe(s)
Reply == \E s \in Subs : Activate(s) \/ Refuse(s)
RetryAny == \E s \in Subs, q \in Seqs : Retry(s, q)

Next ==
  \/ Clients /\ UNCHANGED <<tables, granted, lock, asking, flusher, ticker, acked,
                            counters>>
  \/ Ask \/ Reply \/ ReadStatus
  \/ Dispatch
  \/ RetryAny \/ (\E s \in Subs : Lapse(s)) \/ Regrant \/ Crash

Spec == Init /\ [][Next]_vars

\* The drive loop goes on, a challenge ends (its request has a timeout) and a
\* pause before a retry passes.
Fairness == WF_vars(Dispatch) /\ WF_vars(Reply) /\ WF_vars(RetryAny)
FairSpec == Spec /\ Fairness

-----------------------------------------------------------------------------
(* Properties. *)

\* Every variable has its type; no delivery is attempted more than MaxAttempts
\* times.
TypeOK ==
  /\ StoreTypeOK
  /\ row \in [Subs -> {"none", "active", "inactive"}]
  /\ lapsed \subseteq Subs
  /\ start \in [Subs -> 0..MaxEvents]
  /\ lifecycle \in [Subs -> {"none", "kept", "deleted"}]
  /\ delivery \in [Subs -> [Seqs -> {"none", "due", "waiting", "sent", "stopped"}]]
  /\ attempts \in [Subs -> [Seqs -> 0..MaxAttempts]]
  /\ granted \subseteq Principals
  /\ lock \in BOOLEAN
  /\ asking \subseteq Subs
  /\ phase \in {"idle", "tick", "deliver", "sending", "store"}
  /\ todo \subseteq Tasks /\ submitting \subseteq Tasks
  /\ batch \subseteq Subs \X Seqs
  /\ current \subseteq Subs \X Seqs
  /\ answer \in {"none"} \cup Answers
  /\ acked \subseteq Subs \X Seqs
  /\ admissions \in 0..MaxAdmissions
  /\ regrants \in 0..MaxRegrants
  /\ lapses \in 0..MaxLapses
  /\ crashes \in 0..MaxCrashes

Sending(r) == phase' = "sending" /\ phase # "sending" /\ r \in current'

\* A principal never has more subscriptions than the limit, although the limit
\* is checked before the challenge and the row is written after it; and the
\* backlog of a subscription stays bounded, retries included.
WithinLimits ==
  /\ \A p \in Principals :
       Cardinality({s \in Subs : s[1] = p /\ row[s] = "active"}) <= MaxSubscriptions
  /\ \A s \in Subs : Cardinality({q \in Seqs : delivery[s][q] \in {"due", "waiting"}}) <= MaxPending

\* No delivery outlives its subscription, to be found by the next one.
NoOrphans == \A r \in Rows : row[r[1]] # "none"

\* While a callback is out its destination has not been unsubscribed and no
\* challenge is out, wherever its row was selected: so once unsubscribe has
\* returned none is in flight and, until it is subscribed again, none starts
\* (unsubscribe: "no delivery can start after deletion returns").
SendsExclusive ==
  phase = "sending" => asking = {} /\ \A r \in current : lifecycle[r[1]] = "kept"

\* What a callback accepted is not sent again, unless a crash lost the answer.
NoResend == [][\A r \in Subs \X Seqs : Sending(r) => r \notin acked]_vars

\* Every delivery ends: sent, stopped, or gone with its subscription.
DeliveriesSettle ==
  \A r \in Subs \X Seqs : r \in Rows ~> (r \notin Rows \/ delivery[r[1]][r[2]] \in {"sent", "stopped"})

\* The cursor of a live subscription passes no news but that which is copied
\* for delivery and that of tasks which are settled already.
CursorSkipsNothing ==
  [][\A s \in Subs : Live(s) /\ Live(s)' =>
       \A q \in start[s] + 1..start'[s] :
         delivery'[s][q] # "none" \/ task[log[q].task] = "settled"]_vars

\* Resubscribe after unsubscribe has no replay: what is sent is a delivery of
\* the subscription as it is now, not one that was deleted with an earlier one.
NoReplay == [][\A r \in Subs \X Seqs : Sending(r) => r \in Rows]_vars
=============================================================================
