---------------------------- MODULE ChatDelivery ----------------------------
(* What the delivery ledger promises to whoever delivers through it, whoever *)
(* else does and whatever dies: a delivery is one step, and that step does   *)
(* to each of its chats what DeliveryAnswers allows.  Only a cycle without   *)
(* anything to report takes an operational alert back to its beginning.      *)
EXTENDS Integers, DeliveryAnswers

CONSTANTS Events, HealthEvents, Targets

VARIABLES
  standing,  \* of each event with each chat: "none", "sent" or "unknown"
  got,       \* how often the chat got the message of the incident
  answer     \* what the last step returned to a caller
cvars == <<standing, got, answer>>

Standings == {"none", "sent", "unknown"}

Init ==
  /\ standing = [e \in Events |-> [t \in Targets |-> "none"]]
  /\ got = [e \in Events |-> [t \in Targets |-> 0]]
  /\ answer = "none"

Keeps(e, t) == standing'[e][t] = standing[e][t] /\ got'[e][t] = got[e][t]

Treats(e, chats, returned) ==
  /\ \A t \in chats :
       <<standing'[e][t], got'[e][t] - got[e][t], returned>> \in Deliveries(standing[e][t])
  /\ \A f \in Events, t \in Targets : f # e \/ t \notin chats => Keeps(f, t)

Deliver(e, chats) ==
  /\ answer' \in {"all_sent", "suppressed", "errors"}
  /\ Treats(e, chats, answer')

\* A delivery that dies did what one with errors does, and tells nobody.
Die(e, chats) == answer' = "none" /\ Treats(e, chats, "errors")

\* An alert of the release before the ledger named its chats counts as told.
Legacy(e) ==
  /\ e \in HealthEvents /\ \A t \in Targets : standing[e][t] = "none"
  /\ answer' = "legacy" /\ UNCHANGED <<standing, got>>

\* The all clear: every operational alert that was sent may be sent again.
Reopens(e, t) == e \in HealthEvents /\ standing[e][t] = "sent"
AllClear ==
  /\ standing' = [e \in Events |-> [t \in Targets |->
                    IF Reopens(e, t) THEN "none" ELSE standing[e][t]]]
  /\ got' = [e \in Events |-> [t \in Targets |-> IF Reopens(e, t) THEN 0 ELSE got[e][t]]]
  /\ answer' = "none"

\* A delivery is at work.
Work == answer' = "none" /\ UNCHANGED <<standing, got>>

Next ==
  \/ Work \/ AllClear
  \/ /\ standing' \in [Events -> [Targets -> Standings]] /\ got' \in [Events -> [Targets -> Nat]]
     /\ \E e \in Events :
          Legacy(e) \/ \E chats \in (SUBSET Targets) \ {{}} : Deliver(e, chats) \/ Die(e, chats)
Spec == Init /\ [][Next]_cvars
=============================================================================
