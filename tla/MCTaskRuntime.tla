--------------------------- MODULE MCTaskRuntime ---------------------------
(* TaskRuntime on small sets. *)
EXTENDS TaskRuntime, TLC

Symmetry == Permutations(Tasks) \cup Permutations(Attempts) \cup Permutations(Dispatchers)
              \cup Permutations(Keys)
\* The state without the event log, which no other variable depends on.
WithoutEvents == <<request, status, created, attempt, handle, revision, reportDigest, cancelSent,
                   world, local, history>>
=============================================================================
