---------------------- MODULE EventSubscriptionsProofs ----------------------
(***************************************************************************)
(* Theorems about EventSubscriptions, for every set of tasks, principals   *)
(* and destinations and for every limit and bound.  The set of identities  *)
(* need not be finite.                                                     *)
(***************************************************************************)
EXTENDS EventSubscriptions, FiniteSetTheorems, SequenceTheorems, WellFoundedInduction, TLAPS

-----------------------------------------------------------------------------
(* Counting sequence numbers. *)

\* A set of naturals has a least element.
LEMMA LeastNat ==
  ASSUME NEW T \in SUBSET Nat, T # {}
  PROVE  \E x \in T : \A y \in T : x <= y
<1>1. IsWellFoundedOn({ss \in Nat \X Nat : ss[1] < ss[2]}, Nat)
  BY NatLessThanWellFounded, Zenon DEF OpToRel
<1>2. PICK x \in T : \A y \in T : <<y, x>> \notin {ss \in Nat \X Nat : ss[1] < ss[2]}
  BY <1>1, WFMin
<1>3. ASSUME NEW y \in T
      PROVE  x <= y
  <2>1. <<y, x>> \in Nat \X Nat /\ <<y, x>>[1] = y /\ <<y, x>>[2] = x
    OBVIOUS
  <2>2. ~(y < x)
    BY <1>2, <2>1
  <2>3. QED
    BY <2>2
<1>4. QED
  BY <1>3

\* A bounded one has a greatest, and Max is that.
LEMMA MaxOf ==
  ASSUME NEW n \in Nat, NEW T \in SUBSET (0..n), T # {}
  PROVE  Max(T) \in T /\ \A y \in T : y <= Max(T)
<1> DEFINE U == {n - x : x \in T}
<1>1. U \in SUBSET Nat /\ U # {}
  <2>1. \A x \in T : n - x \in Nat
    OBVIOUS
  <2>2. QED
    BY <2>1
<1>2. PICK m \in U : \A y \in U : m <= y
  BY <1>1, LeastNat
<1>3. PICK x \in T : m = n - x
  BY <1>2
<1>4. \A y \in T : x >= y
  <2>1. SUFFICES ASSUME NEW y \in T PROVE x >= y
    OBVIOUS
  <2>2. m <= n - y
    BY <1>2
  <2>3. QED
    BY <1>3, <2>2
<1>5. QED
  BY <1>4 DEF Max

\* First(S, n) takes at most n elements of S.
LEMMA FirstBound ==
  ASSUME NEW k \in Nat, NEW S \in SUBSET (0..k), NEW n \in Nat
  PROVE  IsFiniteSet(First(S, n)) /\ Cardinality(First(S, n)) <= n
<1>1. IsFiniteSet(0..k)
  BY FS_Interval
<1>2. \A T \in SUBSET (0..k) : IsFiniteSet(T) /\ Cardinality(T) \in Nat
  BY <1>1, FS_Subset, FS_CardinalityType
<1>3. First(S, n) \in SUBSET (0..k)
  BY DEF First
<1>4. CASE First(S, n) = {}
  BY <1>4, FS_EmptySet
<1>5. CASE First(S, n) # {}
  <2>1. PICK m \in First(S, n) : \A y \in First(S, n) : y <= m
    BY <1>3, <1>5, MaxOf
  <2> DEFINE B == {p \in S : p < m}
  <2>2. Cardinality(B) < n /\ B \in SUBSET (0..k) /\ m \notin B
    <3>1. m \in S /\ m \in Int
      BY <1>3 DEF First
    <3>2. m \notin B
      BY <3>1
    <3>3. B \in SUBSET S
      OBVIOUS
    <3>4. B \in SUBSET (0..k)
      BY <3>3
    <3>5. Cardinality(B) < n
      BY Zenon DEF First
    <3>6. QED
      BY <3>2, <3>4, <3>5
  <2>3. First(S, n) \subseteq B \cup {m}
    <3>1. SUFFICES ASSUME NEW q \in First(S, n) PROVE q \in B \/ q = m
      OBVIOUS
    <3>2. q \in S /\ q \in Int /\ m \in Int /\ q <= m
      BY <1>3, <2>1 DEF First
    <3>3. QED
      BY <3>2
  <2>4. IsFiniteSet(B \cup {m}) /\ Cardinality(B \cup {m}) = Cardinality(B) + 1
    BY <1>2, <2>2, FS_AddElement
  <2>5. Cardinality(First(S, n)) <= Cardinality(B \cup {m})
    BY <2>3, <2>4, FS_Subset
  <2>6. QED
    BY <1>2, <1>3, <2>2, <2>4, <2>5
<1>6. QED
  BY <1>2, <1>3, <1>4, <1>5

-----------------------------------------------------------------------------
(* Type correctness of the tables. *)

LEMMA LogType ==
  ASSUME StoreTypeOK
  PROVE  Len(log) \in 0..MaxEvents /\ DOMAIN log = 1..Len(log) /\ DOMAIN log \subseteq Seqs
<1>1. log \in Seq([task : Tasks, kind : News]) /\ Len(log) <= MaxEvents
  BY DEF StoreTypeOK
<1>2. Len(log) \in Nat /\ DOMAIN log = 1..Len(log)
  BY <1>1, LenProperties
<1>3. QED
  BY <1>1, <1>2, EventsAssumption DEF Seqs

\* The log only grows, and within its bound.
LEMMA RecordType ==
  ASSUME StoreTypeOK, NEW t \in Tasks, NEW k \in News, Record(t, k), Room
  PROVE  /\ log' \in Seq([task : Tasks, kind : News])
         /\ Len(log') <= MaxEvents /\ Len(log) <= Len(log')
<1>1. log \in Seq([task : Tasks, kind : News]) /\ [task |-> t, kind |-> k] \in [task : Tasks, kind : News]
  BY DEF StoreTypeOK
<1>2. log' \in Seq([task : Tasks, kind : News]) /\ Len(log') = Len(log) + 1
  BY <1>1, AppendProperties DEF Record
<1>3. Len(log) \in Nat /\ Len(log) < MaxEvents
  BY <1>1, LenProperties DEF Room
<1>4. QED
  BY <1>2, <1>3, EventsAssumption

LEMMA ClientsStore ==
  ASSUME StoreTypeOK, Clients
  PROVE  StoreTypeOK' /\ Len(log) <= Len(log')
<1>0. Len(log) \in Nat
  BY LogType
<1>1. PICK t \in Tasks : Request(t) \/ FollowUp(t) \/ Withdraw(t) \/ Claim(t) \/ Report(t)
  BY DEF Clients
<1>2. task' \in [Tasks -> Status] /\ claimed' \subseteq Tasks
  BY <1>1 DEF Request, FollowUp, Withdraw, Claim, Report, Become, StoreTypeOK, Status
<1>3. CASE UNCHANGED log
  BY <1>0, <1>2, <1>3 DEF StoreTypeOK
<1>4. ASSUME NEW k \in News, Record(t, k), Room
      PROVE  StoreTypeOK' /\ Len(log) <= Len(log')
  BY <1>2, <1>4, RecordType DEF StoreTypeOK
<1>5. QED
  BY <1>1, <1>3, <1>4 DEF Request, FollowUp, Withdraw, Claim, Report, News

LEMMA TickStore ==
  ASSUME StoreTypeOK, NEW t \in Tasks, NEW o,
         Abandon \/ BeginSubmit(t) \/ Expire(t) \/ EndSubmit(t, o)
  PROVE  StoreTypeOK' /\ Len(log) <= Len(log')
<1>0. Len(log) \in Nat
  BY LogType
<1>1. task' \in [Tasks -> Status] /\ claimed' \subseteq Tasks
  BY DEF Abandon, BeginSubmit, Expire, EndSubmit, Become, StoreTypeOK, Status
<1>2. CASE UNCHANGED log
  BY <1>0, <1>1, <1>2 DEF StoreTypeOK
<1>3. CASE Record(t, "cancel_requested") /\ Room
  BY <1>1, <1>3, RecordType DEF StoreTypeOK, News
<1>4. QED
  BY <1>2, <1>3 DEF Abandon, BeginSubmit, Expire, EndSubmit

-----------------------------------------------------------------------------
(* What the transactions do to the tables. *)

\* A prune deletes the dead subscriptions with their deliveries.
LEMMA PrunedRows ==
  ASSUME TypeOK, Prune
  PROVE  /\ row' \in [Subs -> {"none", "active", "inactive"}]
         /\ delivery' \in [Subs -> [Seqs -> {"none", "due", "waiting", "sent", "stopped"}]]
         /\ lapsed' \subseteq lapsed
         /\ \A s \in Subs : \/ row'[s] = row[s] /\ delivery'[s] = delivery[s] /\ s \notin Dead
                            \/ row'[s] = "none" /\ s \in Dead /\ \A q \in Seqs : delivery'[s][q] = "none"
BY DEF TypeOK, Prune, Pruned

\* So do an activation and an unsubscription, which besides write one row.
LEMMA ActivatedRows ==
  ASSUME TypeOK, NEW s \in Subs, Activate(s)
  PROVE  /\ row' \in [Subs -> {"none", "active", "inactive"}]
         /\ delivery' \in [Subs -> [Seqs -> {"none", "due", "waiting", "sent", "stopped"}]]
         /\ lapsed' \subseteq lapsed
         /\ row'[s] = "active"
         /\ \A u \in Subs \ {s} : row'[u] = row[u] \/ row'[u] = "none"
         /\ \A u \in Subs : \/ delivery'[u] = delivery[u] /\ u \notin Dead
                            \/ u \in Dead /\ \A q \in Seqs : delivery'[u][q] = "none"
         /\ \A u \in Subs \ Dead : row'[u] = row[u] \/ u = s
BY DEF TypeOK, Activate, Pruned

LEMMA UnsubscribedRows ==
  ASSUME TypeOK, NEW s \in Subs, Unsubscribe(s)
  PROVE  /\ row' \in [Subs -> {"none", "active", "inactive"}]
         /\ delivery' \in [Subs -> [Seqs -> {"none", "due", "waiting", "sent", "stopped"}]]
         /\ lapsed' \subseteq lapsed
         /\ \A u \in Subs : \/ row'[u] = row[u] /\ delivery'[u] = delivery[u]
                            \/ row'[u] = "none" /\ \A q \in Seqs : delivery'[u][q] = "none"
BY DEF TypeOK, Unsubscribe, Forget, Pruned

\* What flush() copies for a subscription.
Open == {s \in Subs : Kept(s) /\ Granted(s)}
New(s) == IF s \in Open THEN First(Fresh(s), Capacity(s)) ELSE {}

LEMMA NewSeqs ==
  ASSUME TypeOK, NEW s \in Subs
  PROVE  /\ New(s) \subseteq 1..Len(log) /\ New(s) \subseteq Seqs
         /\ \A q \in New(s) : q > start[s]
         /\ s \notin Open => New(s) = {}
BY LogType DEF TypeOK, New, First, Fresh

\* A cursor moves to the newest of them.
LEMMA CursorMoves ==
  ASSUME TypeOK, NEW s \in Subs, start[s] <= Len(log)
  PROVE  /\ Cursor(s, New(s)) \in 0..Len(log)
         /\ start[s] <= Cursor(s, New(s))
         /\ \A q \in New(s) : q <= Cursor(s, New(s))
<1>0. Len(log) \in Nat /\ start[s] \in Nat
  BY LogType DEF TypeOK
<1>1. CASE New(s) = {}
  BY <1>0, <1>1 DEF Cursor
<1>2. CASE New(s) # {}
  <2>1. New(s) \in SUBSET (0..Len(log)) /\ \A q \in New(s) : q > start[s]
    BY <1>0, NewSeqs
  <2>2. Max(New(s)) \in New(s) /\ \A q \in New(s) : q <= Max(New(s))
    BY <1>0, <1>2, <2>1, MaxOf
  <2>3. QED
    BY <1>0, <1>2, <2>1, <2>2 DEF Cursor
<1>3. QED
  BY <1>1, <1>2

LEMMA CollectedRows ==
  ASSUME TypeOK, Collect
  PROVE  /\ row' \in [Subs -> {"none", "active", "inactive"}]
         /\ \A s \in Subs : /\ s \in Dead => row'[s] = "none"
                            /\ s \in Open => row'[s] = row[s]
                            /\ s \notin Dead /\ row[s] = "none" => row'[s] = "none"
                            /\ s \notin Dead /\ row[s] # "none" => row'[s] # "none"
                            /\ row'[s] = "active" => row[s] = "active"
         /\ delivery' \in [Subs -> [Seqs -> {"none", "due", "waiting", "sent", "stopped"}]]
         /\ \A s \in Subs, q \in Seqs :
              delivery'[s][q] = IF s \notin Dead /\ q \in Backlog(s) THEN delivery[s][q]
                                ELSE IF q \in New(s) THEN "due" ELSE "none"
         /\ attempts' \in [Subs -> [Seqs -> 0..MaxAttempts]]
         /\ \A s \in Subs, q \in Seqs : attempts'[s][q] = IF q \in New(s) THEN 0 ELSE attempts[s][q]
         /\ start' = [s \in Subs |-> Cursor(s, New(s))]
         /\ batch' \subseteq Subs \X Seqs
         /\ \A r \in batch' : delivery'[r[1]][r[2]] = "due"
<1> DEFINE open == {s \in Subs : Kept(s) /\ Granted(s)}
           new == [s \in Subs |-> IF s \in open THEN First(Fresh(s), Capacity(s)) ELSE {}]
           rows == [s \in Subs |-> IF s \in Dead THEN "none"
                                   ELSE IF s \in open \/ row[s] = "none" THEN row[s] ELSE "inactive"]
           deliveries == [s \in Subs |-> [q \in Seqs |->
                            IF s \notin Dead /\ q \in Backlog(s) THEN delivery[s][q]
                            ELSE IF q \in new[s] THEN "due" ELSE "none"]]
           tries == [s \in Subs |-> [q \in Seqs |-> IF q \in new[s] THEN 0 ELSE attempts[s][q]]]
           due == {r \in Subs \X Seqs : deliveries[r[1]][r[2]] = "due" /\ rows[r[1]] # "none"}
<1>1. \A s \in Subs : new[s] = New(s)
  BY DEF New, Open
<1>2. row' = rows
  BY DEF Collect
<1>3. delivery' = deliveries
  BY DEF Collect
<1>4. attempts' = tries
  BY DEF Collect
<1>5. start' = [s \in Subs |-> Cursor(s, new[s])]
  BY DEF Collect
<1>6. batch' \subseteq {r \in Subs \X Seqs : delivery'[r[1]][r[2]] = "due"}
  <2>1. \E B \in SUBSET due : IsBatch(B, due, tries) /\ batch' = B
    BY Zenon DEF Collect
  <2>2. batch' \subseteq due
    BY <2>1
  <2> HIDE DEF deliveries, rows
  <2>3. QED
    BY <1>3, <2>2
<1> HIDE DEF new
<1>7. start' = [s \in Subs |-> Cursor(s, New(s))]
  BY <1>1, <1>5
<1>8. /\ row' \in [Subs -> {"none", "active", "inactive"}]
      /\ \A s \in Subs : /\ s \in Dead => row'[s] = "none"
                         /\ s \in Open => row'[s] = row[s]
                         /\ s \notin Dead /\ row[s] = "none" => row'[s] = "none"
                         /\ s \notin Dead /\ row[s] # "none" => row'[s] # "none"
                         /\ row'[s] = "active" => row[s] = "active"
  BY <1>2 DEF TypeOK, Open, Kept
<1>9. \A s \in Subs, q \in Seqs :
        delivery'[s][q] = IF s \notin Dead /\ q \in Backlog(s) THEN delivery[s][q]
                          ELSE IF q \in New(s) THEN "due" ELSE "none"
  BY <1>1, <1>3
<1>10. delivery' \in [Subs -> [Seqs -> {"none", "due", "waiting", "sent", "stopped"}]]
  BY <1>3 DEF TypeOK
<1>11. \A s \in Subs, q \in Seqs : attempts'[s][q] = IF q \in New(s) THEN 0 ELSE attempts[s][q]
  BY <1>1, <1>4
<1>12. attempts' \in [Subs -> [Seqs -> 0..MaxAttempts]]
  BY <1>4, LimitsAssumption DEF TypeOK
<1>13. QED
  BY <1>6, <1>7, <1>8, <1>9, <1>10, <1>11, <1>12

-----------------------------------------------------------------------------
(* The rows a flush works on, and type correctness. *)

\* Outside a flush nothing is in hand; what is in hand is due, or was deleted
\* with its subscription; the row being sent is not one still to come.
BatchInv ==
  /\ phase \in {"idle", "tick"} => batch = {} /\ current = {}
  /\ phase = "deliver" => current = {}
  /\ phase = "store" => answer \in Answers
  /\ \A r, u \in current : r = u
  /\ current \cap batch = {}
  /\ \A r \in batch \cup current : delivery[r[1]][r[2]] \in {"due", "none"}

\* A delivery that is still to be made has an attempt left.
TryInv ==
  \A s \in Subs, q \in Seqs :
    delivery[s][q] \in {"due", "waiting"} => attempts[s][q] < MaxAttempts

TypeInv == TypeOK /\ BatchInv /\ TryInv

\* What Store makes of the row in hand.
LEMMA StoredRows ==
  ASSUME TypeInv, Store
  PROVE  /\ delivery' \in [Subs -> [Seqs -> {"none", "due", "waiting", "sent", "stopped"}]]
         /\ attempts' \in [Subs -> [Seqs -> 0..MaxAttempts]]
         /\ \A s \in Subs, q \in Seqs :
              \/ delivery'[s][q] = delivery[s][q] /\ attempts'[s][q] = attempts[s][q]
                 /\ (<<s, q>> \in current => delivery[s][q] = "none")
              \/ /\ <<s, q>> \in current /\ delivery[s][q] = "due"
                 /\ delivery'[s][q] \in {"sent", "waiting", "stopped"}
                 /\ answer = "accepted" => delivery'[s][q] = "sent"
                 /\ delivery'[s][q] = "waiting" => attempts'[s][q] < MaxAttempts
<1>1. PICK r \in current :
        LET s == r[1]  q == r[2]  n == attempts[s][q] + 1
        IN IF delivery[s][q] = "none"
           THEN UNCHANGED <<delivery, attempts>>
           ELSE /\ delivery' = [delivery EXCEPT ![s][q] = State(answer, n)]
                /\ attempts' = [attempts EXCEPT ![s][q] = n]
  BY DEF Store
<1>2. /\ r \in Subs \X Seqs /\ r = <<r[1], r[2]>> /\ r[1] \in Subs /\ r[2] \in Seqs
      /\ \A u \in current : u = r
      /\ delivery[r[1]][r[2]] \in {"due", "none"}
  BY DEF TypeInv, TypeOK, BatchInv
<1>3. CASE delivery[r[1]][r[2]] = "none"
  BY <1>1, <1>2, <1>3 DEF TypeInv, TypeOK
<1>4. CASE delivery[r[1]][r[2]] = "due"
  <2> DEFINE n == attempts[r[1]][r[2]] + 1
  <2>1. /\ delivery' = [delivery EXCEPT ![r[1]][r[2]] = State(answer, n)]
        /\ attempts' = [attempts EXCEPT ![r[1]][r[2]] = n]
    BY <1>1, <1>4
  <2>2. n \in 0..MaxAttempts
    BY <1>2, <1>4, LimitsAssumption DEF TypeInv, TypeOK, TryInv
  <2>3. /\ State(answer, n) \in {"sent", "waiting", "stopped"}
        /\ answer = "accepted" => State(answer, n) = "sent"
        /\ State(answer, n) = "waiting" => n < MaxAttempts
    BY DEF State
  <2> HIDE DEF n
  <2>4. /\ delivery' \in [Subs -> [Seqs -> {"none", "due", "waiting", "sent", "stopped"}]]
        /\ attempts' \in [Subs -> [Seqs -> 0..MaxAttempts]]
    BY <1>2, <2>1, <2>2, <2>3 DEF TypeInv, TypeOK
  <2>5. ASSUME NEW s \in Subs, NEW q \in Seqs, <<s, q>> # r
        PROVE  delivery'[s][q] = delivery[s][q] /\ attempts'[s][q] = attempts[s][q]
    BY <1>2, <2>1, <2>5 DEF TypeInv, TypeOK
  <2>6. delivery'[r[1]][r[2]] = State(answer, n) /\ attempts'[r[1]][r[2]] = n
    BY <1>2, <2>1 DEF TypeInv, TypeOK
  <2>7. ASSUME NEW s \in Subs, NEW q \in Seqs
        PROVE  \/ delivery'[s][q] = delivery[s][q] /\ attempts'[s][q] = attempts[s][q]
                  /\ (<<s, q>> \in current => delivery[s][q] = "none")
               \/ /\ <<s, q>> \in current /\ delivery[s][q] = "due"
                  /\ delivery'[s][q] \in {"sent", "waiting", "stopped"}
                  /\ answer = "accepted" => delivery'[s][q] = "sent"
                  /\ delivery'[s][q] = "waiting" => attempts'[s][q] < MaxAttempts
    <3>1. CASE <<s, q>> = r
      <4>1. s = r[1] /\ q = r[2]
        BY <3>1
      <4>2. QED
        BY <1>1, <1>4, <2>3, <2>6, <3>1, <4>1
    <3>2. CASE <<s, q>> # r
      BY <1>2, <2>5, <3>2
    <3>3. QED
      BY <3>1, <3>2
  <2>8. QED
    BY <2>4, <2>7
<1>5. QED
  BY <1>2, <1>3, <1>4

LEMMA CursorType ==
  ASSUME TypeOK, NEW s \in Subs
  PROVE  Cursor(s, New(s)) \in 0..MaxEvents
<1>1. New(s) \in SUBSET (0..MaxEvents)
  BY NewSeqs DEF Seqs
<1>2. New(s) # {} => Max(New(s)) \in New(s)
  BY <1>1, MaxOf, EventsAssumption
<1>3. QED
  BY <1>1, <1>2 DEF Cursor, TypeOK

\* TypeOK in three parts.
TablesOK ==
  /\ row \in [Subs -> {"none", "active", "inactive"}]
  /\ lapsed \subseteq Subs
  /\ start \in [Subs -> 0..MaxEvents]
  /\ lifecycle \in [Subs -> {"none", "kept", "deleted"}]
  /\ delivery \in [Subs -> [Seqs -> {"none", "due", "waiting", "sent", "stopped"}]]
  /\ attempts \in [Subs -> [Seqs -> 0..MaxAttempts]]

ControlOK ==
  /\ granted \subseteq Principals
  /\ lock \in BOOLEAN
  /\ asking \subseteq Subs
  /\ phase \in {"idle", "tick", "deliver", "sending", "store"}
  /\ todo \subseteq Tasks /\ submitting \subseteq Tasks
  /\ batch \subseteq Subs \X Seqs
  /\ current \subseteq Subs \X Seqs
  /\ answer \in {"none"} \cup Answers
  /\ acked \subseteq Subs \X Seqs
  /\ admissions \in 0..MaxAdmissions
  /\ regrants \in 0..MaxRegrants
  /\ lapses \in 0..MaxLapses
  /\ crashes \in 0..MaxCrashes

LEMMA TypeParts == TypeOK <=> StoreTypeOK /\ TablesOK /\ ControlOK
BY DEF TypeOK, TablesOK, ControlOK

LEMMA TypePartsNext == TypeOK' <=> StoreTypeOK' /\ TablesOK' /\ ControlOK'
BY DEF TypeOK, TablesOK, ControlOK

LEMMA StoreFrame == StoreTypeOK /\ UNCHANGED store => StoreTypeOK'
BY DEF StoreTypeOK, store

LEMMA TablesFrame == TablesOK /\ UNCHANGED tables => TablesOK'
BY DEF TablesOK, tables

LEMMA InitType == Init => TypeInv
<1> SUFFICES ASSUME Init PROVE TypeInv
  OBVIOUS
<1>1. StoreTypeOK
  BY EventsAssumption DEF Init, InitStore, StoreTypeOK, Status
<1>2. TablesOK
  BY EventsAssumption, LimitsAssumption DEF Init, TablesOK
<1>3. ControlOK
  <2>1. 0 \in 0..MaxAdmissions /\ 0 \in 0..MaxRegrants /\ 0 \in 0..MaxLapses /\ 0 \in 0..MaxCrashes
    BY LimitsAssumption
  <2>2. QED
    BY <2>1 DEF Init, ControlOK
<1>4. QED
  BY <1>1, <1>2, <1>3, TypeParts DEF Init, TypeInv, BatchInv, TryInv

LEMMA AskType ==
  ASSUME TypeInv, Ask \/ Reply \/ ReadStatus \/ Crash
  PROVE  TypeOK'
<1>0. TypeOK /\ StoreTypeOK /\ TablesOK /\ ControlOK
  BY TypeParts DEF TypeInv
<1> USE DEF flusher, ticker, counters
<1>1. StoreTypeOK'
  BY <1>0, StoreFrame
     DEF Ask, Admit, Unsubscribe, Reply, Activate, Refuse, ReadStatus, Crash
<1>2. ASSUME NEW s \in Subs, Admit(s)
      PROVE  TablesOK' /\ ControlOK'
  <2>1. TablesOK'
    BY <1>0, <1>2, PrunedRows DEF Admit, TablesOK
  <2>2. ControlOK'
    BY <1>0, <1>2, LimitsAssumption DEF Admit, ControlOK
  <2>3. QED
    BY <2>1, <2>2
<1>3. ASSUME NEW s \in Subs, Unsubscribe(s)
      PROVE  TablesOK' /\ ControlOK'
  <2>1. TablesOK'
    BY <1>0, <1>3, UnsubscribedRows DEF Unsubscribe, TablesOK
  <2>2. ControlOK'
    BY <1>0, <1>3 DEF Unsubscribe, ControlOK
  <2>3. QED
    BY <2>1, <2>2
<1>4. ASSUME NEW s \in Subs, Activate(s)
      PROVE  TablesOK' /\ ControlOK'
  <2>1. start' \in [Subs -> 0..MaxEvents]
    BY <1>0, <1>4, LogType DEF Activate, TablesOK
  <2>2. TablesOK'
    BY <1>0, <1>4, <2>1, ActivatedRows DEF Activate, TablesOK
  <2>3. ControlOK'
    BY <1>0, <1>4 DEF Activate, ControlOK
  <2>4. QED
    BY <2>2, <2>3
<1>5. ASSUME NEW s \in Subs, Refuse(s)
      PROVE  TablesOK' /\ ControlOK'
  <2>1. TablesOK'
    BY <1>0, <1>5, TablesFrame DEF Refuse
  <2>2. ControlOK'
    BY <1>0, <1>5 DEF Refuse, ControlOK
  <2>3. QED
    BY <2>1, <2>2
<1>6. CASE ReadStatus
  <2>1. TablesOK'
    BY <1>0, <1>6, PrunedRows DEF ReadStatus, TablesOK
  <2>2. ControlOK'
    BY <1>0, <1>6 DEF ReadStatus, ControlOK
  <2>3. QED
    BY <1>1, <2>1, <2>2, TypePartsNext
<1>7. CASE Crash
  <2>1. TablesOK'
    BY <1>0, <1>7, PrunedRows DEF Crash, TablesOK
  <2>2. ControlOK'
    <3>1. crashes' \in 0..MaxCrashes
      BY <1>0, <1>7, LimitsAssumption DEF Crash, ControlOK
    <3>2. QED
      BY <1>0, <1>7, <3>1 DEF Crash, ControlOK
  <2>3. QED
    BY <1>1, <2>1, <2>2, TypePartsNext
<1>8. QED
  BY <1>1, <1>2, <1>3, <1>4, <1>5, <1>6, <1>7, TypePartsNext DEF Ask, Reply

LEMMA DispatchType ==
  ASSUME TypeInv, Dispatch
  PROVE  TypeOK'
<1>0. TypeOK /\ StoreTypeOK /\ TablesOK /\ ControlOK
  BY TypeParts DEF TypeInv
<1> USE DEF flusher, ticker, counters
<1>1. StoreTypeOK'
  <2>1. ASSUME NEW t \in Tasks, TickSubmit(t) \/ TickSubmitted(t)
        PROVE  StoreTypeOK'
    BY <1>0, <2>1, TickStore, StoreFrame DEF TickSubmit, TickSubmitted
  <2>2. CASE StartTick
    <3>1. CASE Tasks = {}
      <4>1. task' = [t \in Tasks |-> IF t \in InDoubt THEN "outcome_unknown" ELSE task[t]]
            /\ UNCHANGED <<claimed, log>>
        BY <2>2 DEF StartTick, Abandon
      <4>2. QED
        BY <1>0, <4>1 DEF StoreTypeOK, Status
    <3>2. CASE Tasks # {}
      BY <1>0, <2>2, <3>2, TickStore DEF StartTick
    <3>3. QED
      BY <3>1, <3>2
  <2>3. QED
    BY <1>0, <2>1, <2>2, StoreFrame DEF Dispatch, Collect, SkipRow, Send, Answer, Store, EndFlush
<1>2. TablesOK'
  <2>1. CASE Collect
    <3>1. start' \in [Subs -> 0..MaxEvents]
      BY <1>0, <2>1, CollectedRows, CursorType
    <3>2. QED
      BY <1>0, <2>1, <3>1, CollectedRows DEF Collect, TablesOK
  <2>2. CASE Store
    BY <1>0, <2>2, StoredRows DEF Store, TablesOK
  <2>3. CASE UNCHANGED tables
    BY <1>0, <2>3, TablesFrame
  <2>4. QED
    BY <2>1, <2>2, <2>3 DEF Dispatch, StartTick, TickSubmit, TickSubmitted, SkipRow, Send, Answer, EndFlush
<1>3. ControlOK'
  <2>1. CASE StartTick
    BY <1>0, <2>1 DEF StartTick, ControlOK
  <2>2. ASSUME NEW t \in Tasks, TickSubmit(t) \/ TickSubmitted(t)
        PROVE  ControlOK'
    BY <1>0, <2>2 DEF TickSubmit, TickSubmitted, ControlOK
  <2>3. CASE Collect
    BY <1>0, <2>3, CollectedRows DEF Collect, ControlOK
  <2>4. ASSUME NEW r \in batch, SkipRow(r) \/ Send(r)
        PROVE  ControlOK'
    BY <1>0, <2>4 DEF SkipRow, Send, ControlOK
  <2>5. ASSUME NEW a \in Answers, Answer(a)
        PROVE  ControlOK'
    BY <1>0, <2>5 DEF Answer, ControlOK
  <2>6. CASE Store \/ EndFlush
    BY <1>0, <2>6 DEF Store, EndFlush, ControlOK
  <2>7. QED
    BY <2>1, <2>2, <2>3, <2>4, <2>5, <2>6 DEF Dispatch
<1>4. QED
  BY <1>1, <1>2, <1>3, TypePartsNext

LEMMA TypeStep ==
  ASSUME TypeInv, [Next]_vars
  PROVE  TypeOK'
<1>0. TypeOK /\ StoreTypeOK /\ TablesOK /\ ControlOK
  BY TypeParts DEF TypeInv
<1> USE DEF flusher, ticker, counters
<1>1. CASE Clients /\ UNCHANGED <<tables, granted, lock, asking, flusher, ticker, acked, counters>>
  <2>1. StoreTypeOK' /\ TablesOK'
    BY <1>0, <1>1, ClientsStore, TablesFrame
  <2>2. ControlOK'
    BY <1>0, <1>1 DEF ControlOK
  <2>3. QED
    BY <2>1, <2>2, TypePartsNext
<1>2. CASE Ask \/ Reply \/ ReadStatus \/ Crash
  BY <1>2, AskType
<1>3. CASE Dispatch
  BY <1>3, DispatchType
<1>4. CASE RetryAny
  <2>1. StoreTypeOK'
    BY <1>0, <1>4, StoreFrame DEF RetryAny, Retry
  <2>2. TablesOK'
    BY <1>0, <1>4 DEF RetryAny, Retry, TablesOK
  <2>3. ControlOK'
    BY <1>0, <1>4 DEF RetryAny, Retry, ControlOK
  <2>4. QED
    BY <2>1, <2>2, <2>3, TypePartsNext
<1>5. CASE (\E s \in Subs : Lapse(s)) \/ Regrant
  <2>1. StoreTypeOK'
    BY <1>0, <1>5, StoreFrame DEF Lapse, Regrant
  <2>2. TablesOK'
    BY <1>0, <1>5 DEF Lapse, Regrant, TablesOK, tables
  <2>3. ControlOK'
    <3>1. CASE \E s \in Subs : Lapse(s)
      BY <1>0, <3>1, LimitsAssumption DEF Lapse, ControlOK
    <3>2. CASE Regrant
      BY <1>0, <3>2, LimitsAssumption DEF Regrant, ControlOK
    <3>3. QED
      BY <1>5, <3>1, <3>2
  <2>4. QED
    BY <2>1, <2>2, <2>3, TypePartsNext
<1>6. CASE UNCHANGED vars
  BY <1>0, <1>6, StoreFrame, TablesFrame, TypePartsNext DEF vars, ControlOK
<1>7. QED
  BY <1>1, <1>2, <1>3, <1>4, <1>5, <1>6 DEF Next

\* Deliveries are made by Collect, settled by Store and taken up again by
\* Retry; every other step leaves them alone or deletes them.
LEMMA Fades ==
  ASSUME TypeOK, [Next]_vars, ~Collect, ~Store, ~RetryAny
  PROVE  /\ \A s \in Subs, q \in Seqs : delivery'[s][q] = delivery[s][q] \/ delivery'[s][q] = "none"
         /\ UNCHANGED attempts
<1>1. CASE UNCHANGED tables
  BY <1>1 DEF tables
<1>2. ASSUME NEW s \in Subs, Admit(s)
      PROVE  /\ \A u \in Subs, q \in Seqs : delivery'[u][q] = delivery[u][q] \/ delivery'[u][q] = "none"
             /\ UNCHANGED attempts
  BY <1>2, PrunedRows DEF Admit
<1>3. ASSUME NEW s \in Subs, Activate(s)
      PROVE  /\ \A u \in Subs, q \in Seqs : delivery'[u][q] = delivery[u][q] \/ delivery'[u][q] = "none"
             /\ UNCHANGED attempts
  BY <1>3, ActivatedRows, Zenon DEF Activate
<1>4. ASSUME NEW s \in Subs, Unsubscribe(s)
      PROVE  /\ \A u \in Subs, q \in Seqs : delivery'[u][q] = delivery[u][q] \/ delivery'[u][q] = "none"
             /\ UNCHANGED attempts
  BY <1>4, UnsubscribedRows DEF Unsubscribe
<1>5. CASE ReadStatus \/ Crash
  BY <1>5, PrunedRows DEF ReadStatus, Crash
<1>6. CASE (\E s \in Subs : Lapse(s)) \/ Regrant
  BY <1>6 DEF Lapse, Regrant, tables
<1>7. CASE Dispatch
  BY <1>1, <1>7 DEF Dispatch, StartTick, TickSubmit, TickSubmitted, SkipRow, Send, Answer, EndFlush
<1>8. QED
  BY <1>1, <1>2, <1>3, <1>4, <1>5, <1>6, <1>7 DEF Next, Ask, Reply, Refuse, vars

\* Outside the dispatcher and a crash, nothing touches a flush.
LEMMA FlusherStays ==
  ASSUME [Next]_vars, ~Dispatch, ~Crash
  PROVE  UNCHANGED <<flusher, ticker>>
BY DEF Next, Ask, Admit, Unsubscribe, Reply, Activate, Refuse, ReadStatus, RetryAny, Retry, Lapse, Regrant, vars

LEMMA TryStep ==
  ASSUME TypeInv, [Next]_vars
  PROVE  TryInv'
<1>0. TypeOK /\ TryInv
  BY DEF TypeInv
<1>1. CASE Collect
  <2>1. ASSUME NEW s \in Subs, NEW q \in Seqs, delivery'[s][q] \in {"due", "waiting"}
        PROVE  attempts'[s][q] < MaxAttempts
    <3>1. CASE q \in New(s)
      BY <1>0, <1>1, <3>1, CollectedRows, LimitsAssumption
    <3>2. CASE q \notin New(s)
      <4>1. delivery[s][q] = delivery'[s][q] /\ attempts'[s][q] = attempts[s][q]
        BY <1>0, <1>1, <2>1, <3>2, CollectedRows
      <4>2. QED
        BY <1>0, <2>1, <4>1 DEF TryInv
    <3>3. QED
      BY <3>1, <3>2
  <2>2. QED
    BY <2>1 DEF TryInv
<1>2. CASE Store
  <2>1. ASSUME NEW s \in Subs, NEW q \in Seqs, delivery'[s][q] \in {"due", "waiting"}
        PROVE  attempts'[s][q] < MaxAttempts
    BY <1>0, <1>2, <2>1, StoredRows DEF TryInv
  <2>2. QED
    BY <2>1 DEF TryInv
<1>3. CASE RetryAny
  BY <1>0, <1>3 DEF RetryAny, Retry, TypeOK, TryInv
<1>4. CASE ~Collect /\ ~Store /\ ~RetryAny
  BY <1>0, <1>4, Fades DEF TryInv
<1>5. QED
  BY <1>1, <1>2, <1>3, <1>4

LEMMA BatchStep ==
  ASSUME TypeInv, [Next]_vars
  PROVE  BatchInv'
<1> USE DEF flusher, ticker
<1>0. TypeOK /\ BatchInv
  BY DEF TypeInv
<1>1. \A r \in batch \cup current : r \in Subs \X Seqs /\ r[1] \in Subs /\ r[2] \in Seqs /\ r = <<r[1], r[2]>>
  BY <1>0 DEF TypeOK
<1>2. CASE Collect
  BY <1>0, <1>2, CollectedRows, Zenon DEF Collect, BatchInv
<1>3. CASE Store
  <2>1. ASSUME NEW r \in batch
        PROVE  delivery'[r[1]][r[2]] \in {"due", "none"}
    <3>1. r \notin current /\ r = <<r[1], r[2]>> /\ r[1] \in Subs /\ r[2] \in Seqs
      BY <1>0, <1>1 DEF BatchInv
    <3>2. delivery'[r[1]][r[2]] = delivery[r[1]][r[2]]
      BY <1>3, <3>1, StoredRows
    <3>3. QED
      BY <1>0, <3>2 DEF BatchInv
  <2>2. phase' = "deliver" /\ current' = {} /\ batch' = batch
    BY <1>3 DEF Store
  <2>3. QED
    BY <2>1, <2>2 DEF BatchInv
<1>4. CASE RetryAny
  <2>1. PICK s \in Subs, q \in Seqs : Retry(s, q)
    BY <1>4 DEF RetryAny
  <2>2. ASSUME NEW r \in batch \cup current
        PROVE  delivery'[r[1]][r[2]] \in {"due", "none"}
    BY <1>0, <1>1, <2>1 DEF Retry, TypeOK, BatchInv
  <2>3. UNCHANGED <<phase, batch, current, answer>>
    BY <2>1 DEF Retry
  <2>4. QED
    BY <1>0, <2>2, <2>3 DEF BatchInv
<1>5. CASE ~Collect /\ ~Store /\ ~RetryAny
  <2>1. \A r \in batch \cup current : delivery'[r[1]][r[2]] \in {"due", "none"}
    BY <1>0, <1>1, <1>5, Fades DEF BatchInv
  <2>2. CASE ~Dispatch /\ ~Crash
    <3>1. UNCHANGED <<phase, batch, current, answer>>
      BY <2>2, FlusherStays
    <3>2. QED
      BY <1>0, <2>1, <3>1 DEF BatchInv
  <2>3. CASE Crash
    BY <2>3 DEF Crash, BatchInv
  <2>4. ASSUME NEW t \in Tasks, StartTick \/ TickSubmit(t) \/ TickSubmitted(t)
        PROVE  BatchInv'
    BY <1>0, <2>1, <2>4 DEF StartTick, TickSubmit, TickSubmitted, BatchInv
  <2>5. CASE StartTick
    BY <1>0, <2>1, <2>5 DEF StartTick, BatchInv
  <2>6. ASSUME NEW r \in batch, SkipRow(r)
        PROVE  BatchInv'
    BY <1>0, <2>1, <2>6 DEF SkipRow, BatchInv
  <2>7. ASSUME NEW r \in batch, Send(r)
        PROVE  BatchInv'
    BY <1>0, <2>1, <2>7 DEF Send, BatchInv
  <2>8. ASSUME NEW a \in Answers, Answer(a)
        PROVE  BatchInv'
    BY <1>0, <2>1, <2>8 DEF Answer, BatchInv
  <2>9. CASE EndFlush
    BY <1>0, <2>1, <2>9 DEF EndFlush, BatchInv
  <2>10. QED
    BY <1>5, <2>2, <2>3, <2>4, <2>5, <2>6, <2>7, <2>8, <2>9 DEF Dispatch
<1>6. QED
  BY <1>2, <1>3, <1>4, <1>5

LEMMA TypeInvStep == TypeInv /\ [Next]_vars => TypeInv'
BY TypeStep, TryStep, BatchStep DEF TypeInv

LEMMA TypeInvariance == Spec => []TypeInv
BY InitType, TypeInvStep, PTL DEF Spec

\* Every reachable state of the subscriptions is well typed, and no delivery
\* is attempted more often than the limit (events.py, _flush).
THEOREM TypeCorrect == Spec => []TypeOK
<1>1. TypeInv => TypeOK
  BY DEF TypeInv
<1>2. QED
  BY <1>1, TypeInvariance, PTL

-----------------------------------------------------------------------------
(* No delivery without its subscription. *)

LEMMA RowOf == TypeOK => \A r \in Rows : r[1] \in Subs /\ r[2] \in Seqs /\ r = <<r[1], r[2]>>
BY DEF Rows

\* NoOrphans, one delivery at a time.
Rooted == \A s \in Subs, q \in Seqs : delivery[s][q] # "none" => row[s] # "none"

LEMMA RootedIsNoOrphans == Rooted => NoOrphans
BY DEF Rooted, NoOrphans, Rows

\* Only a prune, an unsubscription, an activation and a flush write a row, and
\* what they delete they delete with its deliveries.
LEMMA RootedStep ==
  ASSUME TypeInv, Rooted, [Next]_vars
  PROVE  Rooted'
<1>0. TypeOK
  BY DEF TypeInv
<1>1. CASE Collect
  <2>1. SUFFICES ASSUME NEW s \in Subs, NEW q \in Seqs, delivery'[s][q] # "none"
                 PROVE  row'[s] # "none"
    BY DEF Rooted
  <2>2. CASE s \notin Dead /\ q \in Backlog(s)
    BY <1>0, <1>1, <2>2, CollectedRows DEF Backlog, Rooted
  <2>3. CASE ~(s \notin Dead /\ q \in Backlog(s))
    <3>1. s \in Open
      BY <1>0, <1>1, <2>1, <2>3, CollectedRows, NewSeqs
    <3>2. QED
      BY <1>0, <1>1, <3>1, CollectedRows DEF Open, Kept
  <2>4. QED
    BY <2>2, <2>3
<1>2. CASE Store
  <2>1. \A s \in Subs, q \in Seqs : delivery'[s][q] # "none" => delivery[s][q] # "none"
    BY <1>2, StoredRows
  <2>2. row' = row
    BY <1>2 DEF Store
  <2>3. QED
    BY <2>1, <2>2 DEF Rooted
<1>3. CASE RetryAny
  BY <1>0, <1>3 DEF RetryAny, Retry, TypeOK, Rooted
<1>4. CASE ~Collect /\ ~Store /\ ~RetryAny
  <2>1. CASE UNCHANGED <<row, delivery>>
    BY <2>1 DEF Rooted
  <2>2. CASE Prune
    BY <1>0, <2>2, PrunedRows DEF Rooted
  <2>3. ASSUME NEW s \in Subs, Activate(s)
        PROVE  Rooted'
    BY <1>0, <2>3, ActivatedRows DEF Rooted
  <2>4. ASSUME NEW s \in Subs, Unsubscribe(s)
        PROVE  Rooted'
    BY <1>0, <2>4, UnsubscribedRows DEF Rooted
  <2>5. QED
    BY <1>4, <2>1, <2>2, <2>3, <2>4
       DEF Next, Ask, Admit, Reply, Refuse, ReadStatus, Lapse, Regrant, Crash, Dispatch,
           StartTick, TickSubmit, TickSubmitted, SkipRow, Send, Answer, EndFlush, vars, tables
<1>5. QED
  BY <1>1, <1>2, <1>3, <1>4

LEMMA RootedInvariance == Spec => []Rooted
<1>1. Init => Rooted
  BY DEF Init, Rooted
<1>2. TypeInv /\ Rooted /\ [Next]_vars => Rooted'
  BY RootedStep
<1>3. QED
  BY <1>1, <1>2, TypeInvariance, PTL DEF Spec

\* No delivery outlives its subscription: what unsubscribe, expiry, revocation
\* and the prune delete, they delete with its deliveries, so that the next
\* subscription of the same destination finds none of them.
THEOREM DeliveriesHaveSubscriptions == Spec => []NoOrphans
BY RootedIsNoOrphans, RootedInvariance, PTL

-----------------------------------------------------------------------------
(* Who is called back. *)

\* Only Send makes a callback, and it looks the subscription up again first.
LEMMA SendsOnly ==
  ASSUME TypeInv, [Next]_vars, phase' = "sending", phase # "sending"
  PROVE  \E r \in batch : Send(r) /\ current' = {r}
<1>1. \E r \in batch : Send(r)
  BY FlusherStays DEF Next, Dispatch, StartTick, TickSubmit, TickSubmitted, Collect, SkipRow, Answer,
     Store, EndFlush, Crash, flusher
<1>2. QED
  BY <1>1 DEF Send

-----------------------------------------------------------------------------
(* The limits. *)

BacklogInv == \A s \in Subs : Cardinality(Backlog(s)) <= MaxPending

LEMMA SeqsFinite ==
  /\ Seqs \subseteq 0..MaxEvents
  /\ \A S \in SUBSET Seqs : IsFiniteSet(S) /\ Cardinality(S) \in Nat
  /\ \A S, T \in SUBSET Seqs : S \subseteq T => Cardinality(S) <= Cardinality(T)
<1>1. IsFiniteSet(Seqs)
  BY FS_Interval, EventsAssumption DEF Seqs
<1>2. \A S \in SUBSET Seqs : IsFiniteSet(S) /\ Cardinality(S) \in Nat
  BY <1>1, FS_Subset, FS_CardinalityType
<1>3. \A S, T \in SUBSET Seqs : S \subseteq T => Cardinality(S) <= Cardinality(T)
  BY <1>2, FS_Subset
<1>4. QED
  BY <1>2, <1>3, EventsAssumption DEF Seqs

\* A flush copies what there is room for, and nothing else adds to a backlog.
LEMMA BacklogStep ==
  ASSUME TypeInv, BacklogInv, [Next]_vars
  PROVE  BacklogInv'
<1>0. TypeOK
  BY DEF TypeInv
<1> SUFFICES ASSUME NEW s \in Subs
             PROVE  Cardinality(Backlog(s)') <= MaxPending
  BY DEF BacklogInv, Backlog
<1>1. Backlog(s) \in SUBSET Seqs /\ Backlog(s)' \in SUBSET Seqs
  BY DEF Backlog
<1>2. Cardinality(Backlog(s)) \in Nat /\ Cardinality(Backlog(s)) <= MaxPending
  BY <1>1, SeqsFinite DEF BacklogInv
<1>3. CASE Backlog(s)' \subseteq Backlog(s)
  <2>1. Cardinality(Backlog(s)') <= Cardinality(Backlog(s)) /\ Cardinality(Backlog(s)') \in Nat
    BY <1>1, <1>3, SeqsFinite
  <2>2. QED
    BY <1>2, <2>1, LimitsAssumption
<1>4. CASE Collect /\ s \in Open
  <2>1. Capacity(s) \in Nat /\ Capacity(s) + Cardinality(Backlog(s)) = MaxPending
    BY <1>2, LimitsAssumption DEF Capacity
  <2>2. Fresh(s) \in SUBSET (0..MaxEvents)
    BY <1>0, LogType, SeqsFinite DEF Fresh, TypeOK
  <2>3. Cardinality(New(s)) <= Capacity(s)
    BY <1>4, <2>1, <2>2, FirstBound, EventsAssumption DEF New
  <2>4. New(s) \in SUBSET Seqs
    BY <1>0, NewSeqs
  <2>5. Backlog(s)' \subseteq Backlog(s) \cup New(s)
    BY <1>0, <1>4, CollectedRows DEF Backlog
  <2>6. Cardinality(Backlog(s)') <= Cardinality(Backlog(s) \cup New(s))
    BY <1>1, <2>4, <2>5, SeqsFinite
  <2>7. Cardinality(Backlog(s) \cup New(s)) =
          Cardinality(Backlog(s)) + Cardinality(New(s)) - Cardinality(Backlog(s) \cap New(s))
    BY <1>1, <2>4, SeqsFinite, FS_Union
  <2>8. /\ Cardinality(New(s)) \in Nat /\ Cardinality(Backlog(s) \cap New(s)) \in Nat
        /\ Cardinality(Backlog(s)') \in Nat
    <3>1. Backlog(s) \cap New(s) \in SUBSET Seqs
      BY <1>1
    <3>2. QED
      BY <1>1, <2>4, <3>1, SeqsFinite
  <2>9. QED
    BY <1>2, <2>1, <2>3, <2>6, <2>7, <2>8, LimitsAssumption
<1>5. CASE Collect /\ s \notin Open
  <2>1. New(s) = {}
    BY <1>5 DEF New
  <2>2. Backlog(s)' \subseteq Backlog(s)
    BY <1>0, <1>5, <2>1, CollectedRows DEF Backlog
  <2>3. QED
    BY <1>3, <2>2
<1>6. CASE Store
  <2>1. \A q \in Seqs : delivery'[s][q] \in {"due", "waiting"} => delivery[s][q] \in {"due", "waiting"}
    BY <1>6, StoredRows
  <2>2. QED
    BY <1>3, <2>1 DEF Backlog
<1>7. CASE RetryAny
  <2>1. \A q \in Seqs : delivery'[s][q] \in {"due", "waiting"} => delivery[s][q] \in {"due", "waiting"}
    BY <1>0, <1>7 DEF RetryAny, Retry, TypeOK
  <2>2. QED
    BY <1>3, <2>1 DEF Backlog
<1>8. CASE ~Collect /\ ~Store /\ ~RetryAny
  <2>1. \A q \in Seqs : delivery'[s][q] \in {"due", "waiting"} => delivery[s][q] \in {"due", "waiting"}
    BY <1>0, <1>8, Fades
  <2>2. QED
    BY <1>3, <2>1 DEF Backlog
<1>9. QED
  BY <1>4, <1>5, <1>6, <1>7, <1>8

\* A challenge or a callback is out only under the lock, and only one is.
LockInv ==
  /\ asking # {} => lock
  /\ phase = "sending" => lock /\ asking = {}
  /\ \A s, u \in asking : s = u

\* The active subscriptions of a principal; those whose challenge is out fit in.
Act(p) == {s \in Subs : s[1] = p /\ row[s] = "active"}
FitInv ==
  /\ \A p \in Principals : IsFiniteSet(Act(p)) /\ Cardinality(Act(p)) <= MaxSubscriptions
  /\ \A s \in asking : Cardinality(Act(s[1]) \cup {s}) <= MaxSubscriptions

LEMMA LockStep ==
  ASSUME TypeInv, LockInv, [Next]_vars
  PROVE  LockInv'
<1> USE DEF flusher, ticker
<1>1. CASE UNCHANGED <<lock, asking>> /\ (phase' = "sending" => phase = "sending")
  BY <1>1 DEF LockInv
<1>2. ASSUME NEW s \in Subs, Admit(s)
      PROVE  LockInv'
  BY <1>2 DEF Admit, Free, LockInv
<1>3. ASSUME NEW s \in Subs, Activate(s) \/ Refuse(s)
      PROVE  LockInv'
  BY <1>3 DEF Activate, Refuse, LockInv
<1>4. ASSUME NEW r \in batch, Send(r)
      PROVE  LockInv'
  BY <1>4 DEF Send, Free, LockInv
<1>5. ASSUME NEW a \in Answers, Answer(a)
      PROVE  LockInv'
  BY <1>5 DEF Answer, LockInv
<1>6. CASE Crash
  BY <1>6 DEF Crash, LockInv
<1>7. CASE Dispatch
  BY <1>1, <1>4, <1>5, <1>7
     DEF Dispatch, StartTick, TickSubmit, TickSubmitted, Collect, SkipRow, Store, EndFlush
<1>8. CASE Clients /\ UNCHANGED <<tables, granted, lock, asking, flusher, ticker, acked, counters>>
  BY <1>1, <1>8
<1>9. CASE ReadStatus \/ RetryAny \/ Regrant \/ \E s \in Subs : Unsubscribe(s) \/ Lapse(s)
  BY <1>1, <1>9 DEF ReadStatus, RetryAny, Retry, Regrant, Unsubscribe, Lapse
<1>10. CASE UNCHANGED vars
  BY <1>1, <1>10 DEF vars
<1>11. QED
  BY <1>2, <1>3, <1>6, <1>7, <1>8, <1>9, <1>10 DEF Next, Ask, Reply

\* Only an activation makes a row active.
LEMMA RowsFade ==
  ASSUME TypeInv, [Next]_vars, ~\E s \in Subs : Activate(s)
  PROVE  \A u \in Subs : row'[u] = "active" => row[u] = "active"
<1>0. TypeOK
  BY DEF TypeInv
<1>1. CASE UNCHANGED row
  BY <1>1
<1>2. CASE Prune
  BY <1>0, <1>2, PrunedRows
<1>3. ASSUME NEW s \in Subs, Unsubscribe(s)
      PROVE  \A u \in Subs : row'[u] = "active" => row[u] = "active"
  BY <1>0, <1>3, UnsubscribedRows
<1>4. CASE Collect
  BY <1>0, <1>4, CollectedRows
<1>5. QED
  BY <1>1, <1>2, <1>3, <1>4
     DEF Next, Ask, Admit, Reply, Refuse, ReadStatus, RetryAny, Retry, Lapse, Regrant, Crash, Dispatch,
         StartTick, TickSubmit, TickSubmitted, SkipRow, Send, Answer, Store, EndFlush, vars, tables

\* Fewer active subscriptions are within the limit as well.
LEMMA FewerFit ==
  ASSUME NEW A, NEW B, NEW x, IsFiniteSet(A), B \subseteq A
  PROVE  /\ IsFiniteSet(B) /\ Cardinality(B) <= Cardinality(A)
         /\ Cardinality(B \cup {x}) <= Cardinality(A \cup {x})
         /\ Cardinality(A) \in Nat /\ Cardinality(B) \in Nat
         /\ Cardinality(A \cup {x}) \in Nat /\ Cardinality(B \cup {x}) \in Nat
<1>1. IsFiniteSet(A \cup {x}) /\ B \cup {x} \subseteq A \cup {x}
  BY FS_AddElement
<1>2. IsFiniteSet(B) /\ Cardinality(B) <= Cardinality(A)
  BY FS_Subset
<1>3. IsFiniteSet(B \cup {x}) /\ Cardinality(B \cup {x}) <= Cardinality(A \cup {x})
  BY <1>1, FS_Subset
<1>4. QED
  BY <1>1, <1>2, <1>3, FS_CardinalityType

\* The limit is checked when the challenge goes out, and until it is answered
\* the lock keeps everyone else from being admitted.
LEMMA AdmitFits ==
  ASSUME TypeInv, LockInv, FitInv, NEW s \in Subs, Admit(s)
  PROVE  FitInv'
<1>0. TypeOK /\ s[1] \in Principals
  BY DEF TypeInv, Subs
<1>1. asking' = {s}
  BY DEF Admit, Free, LockInv
<1>2. /\ \A u \in Subs : row'[u] = "active" => row[u] = "active"
      /\ \A u \in Subs : row'[u] = "active" <=> Kept(u)
  <2>1. Prune
    BY DEF Admit
  <2>2. \A u \in Subs : row'[u] = "active" => row[u] = "active"
    BY <1>0, <2>1, PrunedRows
  <2>3. \A u \in Subs : row'[u] = "active" <=> Kept(u)
    BY <1>0, <2>1 DEF Prune, Kept, Dead, TypeOK
  <2>4. QED
    BY <2>2, <2>3
<1>3. \A p \in Principals : Act(p)' \subseteq Act(p)
  BY <1>2 DEF Act
<1>4. \A p \in Principals : /\ IsFiniteSet(Act(p)') /\ Cardinality(Act(p)') \in Nat
                            /\ Cardinality(Act(p)') <= MaxSubscriptions
  <2>1. SUFFICES ASSUME NEW p \in Principals
                 PROVE  /\ IsFiniteSet(Act(p)') /\ Cardinality(Act(p)') \in Nat
                        /\ Cardinality(Act(p)') <= MaxSubscriptions
    OBVIOUS
  <2>2. IsFiniteSet(Act(p)) /\ Cardinality(Act(p)) <= MaxSubscriptions
    BY DEF FitInv
  <2>3. /\ IsFiniteSet(Act(p)') /\ Cardinality(Act(p)') <= Cardinality(Act(p))
        /\ Cardinality(Act(p)) \in Nat /\ Cardinality(Act(p)') \in Nat
    BY <1>3, <2>2, FewerFit
  <2>4. QED
    BY <2>2, <2>3, LimitsAssumption
<1>5. Cardinality(Act(s[1])' \cup {s}) <= MaxSubscriptions
  <2>1. CASE Kept(s)
    <3>1. Act(s[1])' \cup {s} = Act(s[1])'
      BY <1>2, <2>1 DEF Act
    <3>2. QED
      BY <1>0, <1>4, <3>1
  <2>2. CASE ~Kept(s)
    <3>1. Act(s[1])' = {u \in Subs : u[1] = s[1] /\ Kept(u)}
      BY <1>2 DEF Act
    <3>2. Cardinality(Act(s[1])') < MaxSubscriptions
      BY <2>2, <3>1 DEF Admit, Admissible
    <3>3. s \notin Act(s[1])'
      BY <1>2, <2>2 DEF Act
    <3>4. Cardinality(Act(s[1])' \cup {s}) = Cardinality(Act(s[1])') + 1
      BY <1>0, <1>4, <3>3, FS_AddElement
    <3>5. QED
      BY <1>0, <1>4, <3>2, <3>4, LimitsAssumption
  <2>3. QED
    BY <2>1, <2>2
<1>6. \A u \in asking' : Cardinality(Act(u[1])' \cup {u}) <= MaxSubscriptions
  BY <1>1, <1>5
<1>7. QED
  BY <1>4, <1>6 DEF FitInv, Act

LEMMA ActivateFits ==
  ASSUME TypeInv, LockInv, FitInv, NEW s \in Subs, Activate(s)
  PROVE  FitInv'
<1>0. TypeOK /\ s \in asking
  BY DEF TypeInv, Activate
<1>1. asking' = {}
  BY DEF Activate, LockInv
<1>2. \A u \in Subs : row'[u] = "active" => u = s \/ row[u] = "active"
  BY <1>0, ActivatedRows
<1>3. ASSUME NEW p \in Principals
      PROVE  IsFiniteSet(Act(p)') /\ Cardinality(Act(p)') <= MaxSubscriptions
  <2>0. IsFiniteSet(Act(p)) /\ Cardinality(Act(p)) <= MaxSubscriptions
    BY DEF FitInv
  <2>1. CASE p = s[1]
    <3>1. IsFiniteSet(Act(p) \cup {s}) /\ Act(p)' \subseteq Act(p) \cup {s}
      BY <1>2, <2>0, FS_AddElement DEF Act
    <3>2. Cardinality(Act(p) \cup {s}) <= MaxSubscriptions
      BY <1>0, <2>1 DEF FitInv
    <3>3. /\ IsFiniteSet(Act(p)') /\ Cardinality(Act(p)') <= Cardinality(Act(p) \cup {s})
          /\ Cardinality(Act(p) \cup {s}) \in Nat /\ Cardinality(Act(p)') \in Nat
      BY <3>1, FewerFit
    <3>4. QED
      BY <3>2, <3>3, LimitsAssumption
  <2>2. CASE p # s[1]
    <3>1. Act(p)' \subseteq Act(p)
      BY <1>2, <2>2 DEF Act
    <3>2. /\ IsFiniteSet(Act(p)') /\ Cardinality(Act(p)') <= Cardinality(Act(p))
          /\ Cardinality(Act(p)) \in Nat /\ Cardinality(Act(p)') \in Nat
      BY <2>0, <3>1, FewerFit
    <3>3. QED
      BY <2>0, <3>2, LimitsAssumption
  <2>3. QED
    BY <2>1, <2>2
<1>4. QED
  BY <1>1, <1>3 DEF FitInv, Act

LEMMA FitStep ==
  ASSUME TypeInv, LockInv, FitInv, [Next]_vars
  PROVE  FitInv'
<1>1. ASSUME NEW s \in Subs, Admit(s) \/ Activate(s)
      PROVE  FitInv'
  BY <1>1, AdmitFits, ActivateFits
<1>2. CASE ~\E s \in Subs : Admit(s) \/ Activate(s)
  <2>1. asking' \subseteq asking
    BY <1>2 DEF Next, Ask, Unsubscribe, Reply, Refuse, ReadStatus, RetryAny, Retry, Lapse, Regrant, Crash,
       Dispatch, StartTick, TickSubmit, TickSubmitted, Collect, SkipRow, Send, Answer, Store, EndFlush, vars
  <2>2. \A u \in Subs : row'[u] = "active" => row[u] = "active"
    BY <1>2, RowsFade
  <2>3. \A p \in Principals : Act(p)' \subseteq Act(p)
    BY <2>2 DEF Act
  <2>4. ASSUME NEW p \in Principals
        PROVE  IsFiniteSet(Act(p)') /\ Cardinality(Act(p)') <= MaxSubscriptions
    <3>1. IsFiniteSet(Act(p)) /\ Cardinality(Act(p)) <= MaxSubscriptions
      BY DEF FitInv
    <3>2. /\ IsFiniteSet(Act(p)') /\ Cardinality(Act(p)') <= Cardinality(Act(p))
          /\ Cardinality(Act(p)) \in Nat /\ Cardinality(Act(p)') \in Nat
      BY <2>3, <3>1, FewerFit
    <3>3. QED
      BY <3>1, <3>2, LimitsAssumption
  <2>5. ASSUME NEW s \in asking'
        PROVE  Cardinality(Act(s[1])' \cup {s}) <= MaxSubscriptions
    <3>1. s \in asking /\ s[1] \in Principals
      BY <2>1, <2>5 DEF TypeInv, TypeOK, Subs
    <3>2. IsFiniteSet(Act(s[1])) /\ Cardinality(Act(s[1]) \cup {s}) <= MaxSubscriptions
      BY <3>1 DEF FitInv
    <3>3. /\ Cardinality(Act(s[1])' \cup {s}) <= Cardinality(Act(s[1]) \cup {s})
          /\ Cardinality(Act(s[1]) \cup {s}) \in Nat /\ Cardinality(Act(s[1])' \cup {s}) \in Nat
      BY <2>3, <3>1, <3>2, FewerFit
    <3>4. QED
      BY <3>2, <3>3, LimitsAssumption
  <2>6. QED
    BY <2>4, <2>5 DEF FitInv, Act
<1>3. QED
  BY <1>1, <1>2

LimitInv == BacklogInv /\ LockInv /\ FitInv

LEMMA LimitInvariance == Spec => []LimitInv
<1>1. ASSUME Init
      PROVE  LimitInv
  <2>1. \A s \in Subs : Backlog(s) = {}
    BY <1>1 DEF Init, Backlog
  <2>2. \A p \in Principals : Act(p) = {}
    BY <1>1 DEF Init, Act
  <2>3. IsFiniteSet({}) /\ Cardinality({}) = 0
    BY FS_EmptySet
  <2>4. BacklogInv
    BY <2>1, <2>3, LimitsAssumption DEF BacklogInv
  <2>5. asking = {} /\ phase = "idle"
    BY <1>1 DEF Init
  <2>6. LockInv
    BY <2>5 DEF LockInv
  <2>7. FitInv
    BY <2>2, <2>3, <2>5, LimitsAssumption DEF FitInv
  <2>8. QED
    BY <2>4, <2>6, <2>7 DEF LimitInv
<1>2. TypeInv /\ LimitInv /\ [Next]_vars => LimitInv'
  BY BacklogStep, LockStep, FitStep DEF LimitInv
<1>3. QED
  BY <1>1, <1>2, TypeInvariance, PTL DEF Spec

\* No principal ever has more subscriptions than its limit, although the limit
\* is checked before the challenge and the row is written after it (subscribe);
\* and the backlog of a subscription is bounded, retries included (_flush).
THEOREM LimitsHold == Spec => []WithinLimits
<1>1. LimitInv => WithinLimits
  BY DEF LimitInv, BacklogInv, FitInv, WithinLimits, Backlog, Act
<1>2. QED
  BY <1>1, LimitInvariance, PTL

-----------------------------------------------------------------------------
(* Callbacks and unsubscriptions. *)

\* The two tables agree on what is subscribed; a callback that is out, whose row
\* may be gone by expiry, is not to a destination that was unsubscribed.
KeptInv ==
  /\ \A s \in Subs : row[s] # "none" => lifecycle[s] = "kept"
  /\ phase = "sending" => \A r \in current : lifecycle[r[1]] = "kept"

\* But for an activation no step makes a row.
LEMMA RowsGo ==
  ASSUME TypeOK, [Next]_vars, ~\E s \in Subs : Activate(s)
  PROVE  \A u \in Subs : row'[u] # "none" => row[u] # "none"
<1>1. CASE UNCHANGED row
  BY <1>1
<1>2. CASE Prune
  BY <1>2, PrunedRows
<1>3. ASSUME NEW s \in Subs, Unsubscribe(s)
      PROVE  \A u \in Subs : row'[u] # "none" => row[u] # "none"
  BY <1>3, UnsubscribedRows
<1>4. CASE Collect
  BY <1>4, CollectedRows DEF Dead
<1>5. QED
  BY <1>1, <1>2, <1>3, <1>4
     DEF Next, Ask, Admit, Reply, Refuse, ReadStatus, RetryAny, Retry, Lapse, Regrant, Crash, Dispatch,
         StartTick, TickSubmit, TickSubmitted, SkipRow, Send, Answer, Store, EndFlush, vars, tables

\* Only the two calls of a subscriber write the lifecycle.
LEMMA LifecycleStays ==
  ASSUME [Next]_vars, ~\E s \in Subs : Activate(s) \/ Unsubscribe(s)
  PROVE  lifecycle' = lifecycle
BY DEF Next, Ask, Admit, Reply, Refuse, ReadStatus, RetryAny, Retry, Lapse, Regrant, Crash, Dispatch,
       StartTick, TickSubmit, TickSubmitted, Collect, SkipRow, Send, Answer, Store, EndFlush, vars, tables

\* A callback that is out after the step was out before it, or is made by it to
\* an active subscription.
LEMMA OutBefore ==
  ASSUME TypeInv, [Next]_vars, phase' = "sending"
  PROVE  \/ phase = "sending" /\ current' = current
         \/ /\ \A r \in current' : r[1] \in Subs /\ row[r[1]] = "active"
            /\ ~\E s \in Subs : Activate(s) \/ Unsubscribe(s)
<1>1. CASE phase = "sending"
  <2>1. CASE Dispatch
    <3>1. \E t \in Tasks : TickSubmitted(t)
      BY <1>1, <2>1 DEF Dispatch, StartTick, TickSubmit, Collect, SkipRow, Send, Answer, Store, EndFlush
    <3>2. QED
      BY <1>1, <3>1 DEF TickSubmitted, flusher
  <2>2. CASE ~Dispatch
    BY <1>1, <2>2, FlusherStays DEF Crash, flusher
  <2>3. QED
    BY <2>1, <2>2
<1>2. CASE phase # "sending"
  <2>1. PICK r \in batch : Send(r) /\ current' = {r}
    BY <1>2, SendsOnly
  <2>2. r[1] \in Subs
    BY <2>1 DEF TypeInv, TypeOK
  <2>3. row[r[1]] = "active"
    BY <2>1 DEF Send, Entitled, Live
  <2>4. ~\E s \in Subs : Activate(s) \/ Unsubscribe(s)
    BY <1>2 DEF Activate, Unsubscribe, flusher
  <2>5. QED
    BY <2>1, <2>2, <2>3, <2>4
<1>3. QED
  BY <1>1, <1>2

LEMMA KeptStep ==
  ASSUME TypeInv, LockInv, KeptInv, [Next]_vars
  PROVE  KeptInv'
<1>0. TypeOK
  BY DEF TypeInv
<1>1. ASSUME NEW s \in Subs, Activate(s)
      PROVE  KeptInv'
  <2>1. lifecycle'[s] = "kept" /\ \A u \in Subs : lifecycle[u] = "kept" => lifecycle'[u] = "kept"
    BY <1>0, <1>1 DEF Activate, TypeOK
  <2>2. \A u \in Subs : row'[u] # "none" => u = s \/ row[u] # "none"
    BY <1>0, <1>1, ActivatedRows
  <2>3. phase' # "sending"
    BY <1>1 DEF Activate, LockInv, flusher
  <2>4. QED
    BY <2>1, <2>2, <2>3 DEF KeptInv
<1>2. ASSUME NEW s \in Subs, Unsubscribe(s)
      PROVE  KeptInv'
  <2>1. \A u \in Subs \ {s} : lifecycle'[u] = lifecycle[u]
    BY <1>0, <1>2 DEF Unsubscribe, TypeOK
  <2>2. row'[s] = "none" /\ \A u \in Subs : row'[u] # "none" => row[u] # "none"
    BY <1>0, <1>2, UnsubscribedRows DEF Unsubscribe
  <2>3. phase' # "sending"
    BY <1>2 DEF Unsubscribe, Free, LockInv, flusher
  <2>4. QED
    BY <2>1, <2>2, <2>3 DEF KeptInv
<1>3. CASE ~\E s \in Subs : Activate(s) \/ Unsubscribe(s)
  <2>1. lifecycle' = lifecycle
    BY <1>3, LifecycleStays
  <2>2. \A u \in Subs : row'[u] # "none" => row[u] # "none"
    BY <1>0, <1>3, RowsGo
  <2>3. phase' = "sending" => \A r \in current' : lifecycle[r[1]] = "kept"
    BY OutBefore DEF KeptInv
  <2>4. QED
    BY <2>1, <2>2, <2>3 DEF KeptInv
<1>4. QED
  BY <1>1, <1>2, <1>3

\* While a callback is out its destination has not been unsubscribed and no
\* challenge is out: no delivery starts after a deletion returned (unsubscribe),
\* although flush() selects its rows before it takes the lock.
THEOREM CallbacksAreExclusive == Spec => []SendsExclusive
<1>1. Init => KeptInv
  BY DEF Init, KeptInv
<1>2. TypeInv /\ LimitInv /\ KeptInv /\ [Next]_vars => KeptInv'
  BY KeptStep DEF LimitInv
<1>3. LimitInv /\ KeptInv => SendsExclusive
  BY DEF LimitInv, LockInv, KeptInv, SendsExclusive
<1>4. QED
  BY <1>1, <1>2, <1>3, TypeInvariance, LimitInvariance, PTL DEF Spec

-----------------------------------------------------------------------------
(* The cursor, and what was accepted. *)

LEMMA LogGrows ==
  ASSUME TypeInv, [Next]_vars
  PROVE  Len(log) <= Len(log') /\ Len(log) \in Nat /\ Len(log') \in Nat
<1>0. StoreTypeOK /\ Len(log) \in Nat
  BY LogType DEF TypeInv, TypeOK
<1>1. Len(log') \in Nat
  <2>1. TypeOK'
    BY TypeStep
  <2>2. log' \in Seq([task : Tasks, kind : News])
    BY <2>1 DEF TypeOK, StoreTypeOK
  <2>3. QED
    BY <2>2, LenProperties
<1>2. CASE UNCHANGED log
  BY <1>0, <1>2
<1>3. CASE Clients
  BY <1>0, <1>1, <1>3, ClientsStore
<1>4. ASSUME NEW t \in Tasks, TickSubmit(t) \/ TickSubmitted(t)
      PROVE  Len(log) <= Len(log')
  BY <1>0, <1>2, <1>4, TickStore DEF TickSubmit, TickSubmitted, store
<1>5. QED
  BY <1>0, <1>1, <1>2, <1>3, <1>4
     DEF Next, Ask, Admit, Unsubscribe, Reply, Activate, Refuse, ReadStatus, RetryAny, Retry, Lapse, Regrant,
         Crash, Dispatch, StartTick, Abandon, Collect, SkipRow, Send, Answer, Store, EndFlush, vars, store

\* A cursor is never past the log, and never behind what was copied.
Passed(r) == r[2] <= start[r[1]]
PassedInv ==
  /\ \A s \in Subs : start[s] <= Len(log)
  /\ \A s \in Subs, q \in Seqs : delivery[s][q] # "none" => Passed(<<s, q>>)
  /\ \A r \in batch \cup current \cup acked : Passed(r)

\* A cursor only moves forward.
LEMMA StartMoves ==
  ASSUME TypeInv, \A s \in Subs : start[s] <= Len(log), [Next]_vars
  PROVE  \A s \in Subs : start[s] <= start'[s] /\ start'[s] <= Len(log')
<1>0. TypeOK /\ \A s \in Subs : start[s] \in Nat
  <2>1. TypeOK
    BY DEF TypeInv
  <2>2. start \in [Subs -> Nat]
    BY <2>1 DEF TypeOK
  <2>3. QED
    BY <2>1, <2>2
<1>1. CASE UNCHANGED start
  BY <1>0, <1>1, LogGrows
<1>2. ASSUME NEW u \in Subs, Activate(u)
      PROVE  \A s \in Subs : start[s] <= start'[s] /\ start'[s] <= Len(log')
  <2>1. log' = log
    BY <1>2 DEF Activate, store
  <2>2. \A s \in Subs : start'[s] = start[s] \/ start'[s] = Len(log)
    BY <1>0, <1>2 DEF Activate, TypeOK
  <2>3. QED
    BY <1>0, <2>1, <2>2, LogGrows
<1>3. CASE Collect
  <2>1. log' = log
    BY <1>3 DEF Collect, store
  <2>2. \A s \in Subs : Cursor(s, New(s)) \in 0..Len(log) /\ start[s] <= Cursor(s, New(s))
    BY <1>0, CursorMoves
  <2>3. QED
    BY <1>0, <1>3, <2>1, <2>2, CollectedRows, LogGrows
<1>4. QED
  BY <1>1, <1>2, <1>3
     DEF Next, Ask, Admit, Unsubscribe, Reply, Refuse, ReadStatus, RetryAny, Retry, Lapse, Regrant,
         Crash, Dispatch, StartTick, TickSubmit, TickSubmitted, SkipRow, Send, Answer, Store, EndFlush,
         vars, tables

\* What a flush has in hand comes from the table or from the batch.
LEMMA HandMoves ==
  ASSUME TypeInv, [Next]_vars
  PROVE  \/ batch' \cup current' \cup acked' \subseteq batch \cup current \cup acked
         \/ Collect /\ UNCHANGED <<current, acked>>
<1> USE DEF flusher, ticker
<1>1. CASE ~Dispatch /\ ~Crash
  <2>1. UNCHANGED <<batch, current>>
    BY <1>1, FlusherStays
  <2>2. UNCHANGED acked
    BY <1>1 DEF Next, Ask, Admit, Unsubscribe, Reply, Activate, Refuse, ReadStatus, RetryAny, Retry, Lapse,
       Regrant, vars
  <2>3. QED
    BY <2>1, <2>2
<1>2. CASE Crash
  BY <1>2 DEF Crash
<1>3. CASE Dispatch
  BY <1>3 DEF Dispatch, StartTick, TickSubmit, TickSubmitted, Collect, SkipRow, Send, Answer, Store, EndFlush
<1>4. QED
  BY <1>1, <1>2, <1>3

LEMMA PassedStep ==
  ASSUME TypeInv, PassedInv, [Next]_vars
  PROVE  PassedInv'
<1>0. TypeOK /\ TypeOK'
  BY TypeStep DEF TypeInv
<1>1. \A s \in Subs : start[s] <= start'[s] /\ start'[s] <= Len(log')
  BY StartMoves DEF PassedInv
<1>2. \A s \in Subs : start[s] \in Nat /\ start'[s] \in Nat
  BY <1>0 DEF TypeOK
<1>3. \A r \in Subs \X Seqs : Passed(r) => Passed(r)'
  BY <1>1, <1>2 DEF Passed, Seqs
<1>4. ASSUME NEW s \in Subs, NEW q \in Seqs, delivery'[s][q] # "none"
      PROVE  Passed(<<s, q>>)'
  <2>1. CASE delivery[s][q] # "none"
    BY <1>3, <2>1 DEF PassedInv
  <2>2. CASE delivery[s][q] = "none"
    <3>1. CASE Collect
      <4>1. q \in New(s)
        BY <1>0, <1>4, <2>2, <3>1, CollectedRows DEF Backlog
      <4>2. start'[s] = Cursor(s, New(s)) /\ q <= Cursor(s, New(s))
        BY <1>0, <3>1, <4>1, CollectedRows, CursorMoves DEF PassedInv
      <4>3. QED
        BY <4>2 DEF Passed
    <3>2. CASE Store
      BY <1>4, <2>2, <3>2, StoredRows
    <3>3. CASE RetryAny
      BY <1>0, <1>4, <2>2, <3>3 DEF RetryAny, Retry, TypeOK
    <3>4. CASE ~Collect /\ ~Store /\ ~RetryAny
      BY <1>0, <1>4, <2>2, <3>4, Fades
    <3>5. QED
      BY <3>1, <3>2, <3>3, <3>4
  <2>3. QED
    BY <2>1, <2>2
<1>5. ASSUME NEW r \in batch' \cup current' \cup acked'
      PROVE  Passed(r)'
  <2>1. r \in Subs \X Seqs /\ r = <<r[1], r[2]>> /\ r[1] \in Subs /\ r[2] \in Seqs
    BY <1>0, <1>5 DEF TypeOK
  <2>2. CASE r \in batch \cup current \cup acked
    BY <1>3, <2>1, <2>2 DEF PassedInv
  <2>3. CASE Collect /\ r \in batch'
    <3>1. delivery'[r[1]][r[2]] # "none"
      BY <1>0, <2>3, CollectedRows
    <3>2. QED
      BY <1>4, <2>1, <3>1
  <2>4. QED
    BY <1>5, <2>2, <2>3, HandMoves
<1>6. QED
  BY <1>1, <1>4, <1>5 DEF PassedInv

\* What a callback accepted is not selected again; while its answer is being
\* stored it is still in hand, and after that it is not due any more.
AckInv ==
  \A r \in acked :
    /\ r \notin batch
    /\ r \in current => phase = "store" /\ answer = "accepted"
    /\ delivery[r[1]][r[2]] \in {"due", "waiting"} => r \in current

LEMMA AckStep ==
  ASSUME TypeInv, PassedInv, AckInv, [Next]_vars
  PROVE  AckInv'
<1> USE DEF flusher, ticker
<1>0. TypeOK /\ BatchInv
  BY DEF TypeInv
<1>1. \A r \in acked \cup current :
        r \in Subs \X Seqs /\ r = <<r[1], r[2]>> /\ r[1] \in Subs /\ r[2] \in Seqs
  BY <1>0 DEF TypeOK
<1>2. CASE Collect
  <2>1. acked' = acked /\ current' = {} /\ current = {}
    BY <1>0, <1>2 DEF Collect, BatchInv
  <2>2. ASSUME NEW r \in acked
        PROVE  delivery'[r[1]][r[2]] \notin {"due", "waiting"}
    <3>1. r[1] \in Subs /\ r[2] \in Seqs
      BY <1>1
    <3>2. r[2] \notin Backlog(r[1])
      BY <2>1 DEF AckInv, Backlog
    <3>3. r[2] \notin New(r[1])
      <4>1. r[2] <= start[r[1]] /\ start[r[1]] \in Nat /\ r[2] \in Nat
        BY <1>0, <3>1 DEF PassedInv, Passed, TypeOK, Seqs
      <4>2. QED
        BY <1>0, <3>1, <4>1, NewSeqs
    <3>4. QED
      BY <1>0, <1>2, <3>1, <3>2, <3>3, CollectedRows
  <2>3. \A r \in batch' : delivery'[r[1]][r[2]] = "due"
    BY <1>0, <1>2, CollectedRows
  <2>4. QED
    BY <2>1, <2>2, <2>3 DEF AckInv
<1>3. CASE Store
  <2>1. /\ acked' = acked /\ current' = {} /\ batch' = batch
    BY <1>3 DEF Store
  <2>2. ASSUME NEW r \in acked
        PROVE  delivery'[r[1]][r[2]] \notin {"due", "waiting"}
    <3>1. r = <<r[1], r[2]>> /\ r[1] \in Subs /\ r[2] \in Seqs
      BY <1>1
    <3>2. CASE r \in current
      <4>1. answer = "accepted"
        BY <3>2 DEF AckInv
      <4>2. QED
        BY <1>3, <3>1, <3>2, <4>1, StoredRows
    <3>3. CASE r \notin current
      <4>1. delivery'[r[1]][r[2]] = delivery[r[1]][r[2]]
        BY <1>3, <3>1, <3>3, StoredRows
      <4>2. QED
        BY <3>3, <4>1 DEF AckInv
    <3>4. QED
      BY <3>2, <3>3
  <2>3. QED
    BY <2>1, <2>2 DEF AckInv
<1>4. CASE RetryAny
  <2>1. PICK s \in Subs, q \in Seqs : Retry(s, q)
    BY <1>4 DEF RetryAny
  <2>2. ASSUME NEW r \in acked, delivery'[r[1]][r[2]] \in {"due", "waiting"}
        PROVE  delivery[r[1]][r[2]] \in {"due", "waiting"}
    BY <1>0, <1>1, <2>1, <2>2 DEF Retry, TypeOK
  <2>3. UNCHANGED <<phase, batch, current, answer, acked>>
    BY <2>1 DEF Retry
  <2>4. QED
    BY <2>2, <2>3 DEF AckInv
<1>5. CASE ~Collect /\ ~Store /\ ~RetryAny
  <2>1. \A r \in acked \cup current :
          delivery'[r[1]][r[2]] = delivery[r[1]][r[2]] \/ delivery'[r[1]][r[2]] = "none"
    BY <1>0, <1>1, <1>5, Fades
  <2>2. CASE ~Dispatch /\ ~Crash
    <3>1. UNCHANGED <<phase, batch, current, answer>>
      BY <2>2, FlusherStays
    <3>2. UNCHANGED acked
      BY <2>2 DEF Next, Ask, Admit, Unsubscribe, Reply, Activate, Refuse, ReadStatus, RetryAny, Retry, Lapse,
         Regrant, vars
    <3>3. QED
      BY <2>1, <3>1, <3>2 DEF AckInv
  <2>3. CASE Crash
    <3>1. acked' = acked \ current /\ batch' = {} /\ current' = {}
      BY <2>3 DEF Crash
    <3>2. QED
      BY <2>1, <3>1 DEF AckInv
  <2>4. CASE StartTick \/ EndFlush \/ \E t \in Tasks : TickSubmit(t) \/ TickSubmitted(t)
    <3>1. acked' = acked /\ batch' \subseteq batch /\ current' = current
      BY <2>4 DEF StartTick, TickSubmit, TickSubmitted, EndFlush
    <3>2. current = {} \/ UNCHANGED <<phase, answer>>
      BY <1>0, <2>4 DEF StartTick, TickSubmit, TickSubmitted, EndFlush, BatchInv
    <3>3. QED
      BY <2>1, <3>1, <3>2 DEF AckInv
  <2>5. ASSUME NEW r \in batch, SkipRow(r)
        PROVE  AckInv'
    BY <2>1, <2>5 DEF SkipRow, AckInv
  <2>6. ASSUME NEW r \in batch, Send(r)
        PROVE  AckInv'
    <3>1. current = {} /\ current' = {r} /\ batch' \subseteq batch /\ acked' = acked /\ r \notin acked
      BY <1>0, <2>6 DEF Send, BatchInv, AckInv
    <3>2. QED
      BY <2>1, <3>1 DEF AckInv
  <2>7. ASSUME NEW a \in Answers, Answer(a)
        PROVE  AckInv'
    <3>1. phase = "sending" /\ UNCHANGED <<batch, current>> /\ phase' = "store" /\ answer' = a
      BY <2>7 DEF Answer
    <3>2. \A r \in acked : r \notin current
      BY <3>1 DEF AckInv
    <3>3. acked' = IF a = "accepted" THEN acked \cup current ELSE acked
      BY <2>7 DEF Answer
    <3>4. \A r \in current : r \notin batch
      BY <1>0 DEF BatchInv
    <3>5. QED
      BY <2>1, <3>1, <3>2, <3>3, <3>4 DEF AckInv
  <2>8. QED
    BY <1>5, <2>2, <2>3, <2>4, <2>5, <2>6, <2>7 DEF Dispatch
<1>6. QED
  BY <1>2, <1>3, <1>4, <1>5

SentInv == PassedInv /\ AckInv

LEMMA SentInvariance == Spec => []SentInv
<1>1. ASSUME Init
      PROVE  SentInv
  <2>1. Len(log) = 0
    BY <1>1 DEF Init, InitStore
  <2>2. PassedInv
    BY <1>1, <2>1 DEF Init, PassedInv
  <2>3. AckInv
    BY <1>1 DEF Init, AckInv
  <2>4. QED
    BY <2>2, <2>3 DEF SentInv
<1>2. TypeInv /\ SentInv /\ [Next]_vars => SentInv'
  BY PassedStep, AckStep DEF SentInv
<1>3. QED
  BY <1>1, <1>2, TypeInvariance, PTL DEF Spec

\* What a callback accepted is never sent again, unless a crash lost the answer:
\* neither by a later flush, nor after unsubscribe and subscribe, which start
\* after the newest event (_flush).
THEOREM AcceptedOnce == Spec => NoResend
<1>1. ASSUME TypeInv, SentInv, [Next]_vars
      PROVE  [\A r \in Subs \X Seqs : Sending(r) => r \notin acked]_vars
  <2>1. ASSUME NEW r \in Subs \X Seqs, Sending(r)
        PROVE  r \notin acked
    <3>1. PICK u \in batch : Send(u) /\ current' = {u}
      BY <1>1, <2>1, SendsOnly DEF Sending
    <3>2. u = r
      BY <2>1, <3>1 DEF Sending
    <3>3. QED
      BY <1>1, <3>1, <3>2 DEF SentInv, AckInv
  <2>2. QED
    BY <2>1
<1>2. QED
  BY <1>1, TypeInvariance, SentInvariance, PTL DEF Spec, NoResend
=============================================================================
