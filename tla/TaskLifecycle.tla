--------------------------- MODULE TaskLifecycle ---------------------------
(***************************************************************************)
(* What the service promises about a task whose provider has no workers    *)
(* (an api-mode task): it is accepted within its project's quota, started  *)
(* at most once, and settled at most once.  A task whose start was lost    *)
(* stays unknown: nobody starts it again and nobody settles it, but it     *)
(* keeps its place in the quota.                                           *)
(***************************************************************************)
EXTENDS Integers, FiniteSets

CONSTANTS Tasks, Owners, MaxActive, None

Results == {"completed", "failed", "invalid_output", "cancelled"}

VARIABLES
  phase,     \* "none", "queued", "active", "unknown" or "done"
  owner,     \* the project of an accepted task
  started,   \* how often its provider was asked to start it
  result     \* what a task that is done settled on

vars == <<phase, owner, started, result>>

Open(o) == {t \in Tasks : owner[t] = o /\ phase[t] \in {"queued", "active", "unknown"}}

Init ==
  /\ phase = [t \in Tasks |-> "none"]
  /\ owner = [t \in Tasks |-> None]
  /\ started = [t \in Tasks |-> 0]
  /\ result = [t \in Tasks |-> "none"]

Accept(t, o) ==
  /\ phase[t] = "none"
  /\ Cardinality(Open(o)) < MaxActive
  /\ phase' = [phase EXCEPT ![t] = "queued"]
  /\ owner' = [owner EXCEPT ![t] = o]
  /\ UNCHANGED <<started, result>>

\* Cancelled, out of time or no longer admitted: settled without a start.
Refuse(t) ==
  /\ phase[t] = "queued"
  /\ phase' = [phase EXCEPT ![t] = "done"]
  /\ \E r \in {"cancelled", "failed"} : result' = [result EXCEPT ![t] = r]
  /\ UNCHANGED <<owner, started>>

Activate(t) ==
  /\ phase[t] = "queued"
  /\ phase' = [phase EXCEPT ![t] = "active"]
  /\ UNCHANGED <<owner, started, result>>

Start(t) ==
  /\ phase[t] = "active" /\ started[t] = 0
  /\ started' = [started EXCEPT ![t] = 1]
  /\ UNCHANGED <<phase, owner, result>>

Settle(t) ==
  /\ phase[t] = "active" /\ started[t] = 1
  /\ phase' = [phase EXCEPT ![t] = "done"]
  /\ \E r \in Results : result' = [result EXCEPT ![t] = r]
  /\ UNCHANGED <<owner, started>>

\* Several starts can be found lost at once, after a crash.
Lose(S) ==
  /\ S # {} /\ \A t \in S : phase[t] = "active"
  /\ phase' = [t \in Tasks |-> IF t \in S THEN "unknown" ELSE phase[t]]
  /\ UNCHANGED <<owner, started, result>>

Next ==
  \/ \E t \in Tasks :
       \/ \E o \in Owners : Accept(t, o)
       \/ Refuse(t) \/ Activate(t) \/ Start(t) \/ Settle(t)
  \/ \E S \in SUBSET Tasks : Lose(S)

Spec == Init /\ [][Next]_vars
=============================================================================
