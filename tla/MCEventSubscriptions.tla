------------------------ MODULE MCEventSubscriptions ------------------------
(* EventSubscriptions on small sets. *)
EXTENDS EventSubscriptions, TLC

Symmetry == Permutations(Tasks) \cup Permutations(Urls)
=============================================================================
