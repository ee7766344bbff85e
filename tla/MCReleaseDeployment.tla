------------------------ MODULE MCReleaseDeployment ------------------------
(* ReleaseDeployment on small sets. *)
EXTENDS ReleaseDeployment, TLC

Symmetry == Permutations(Releases) \cup Permutations(Helpers)
=============================================================================
