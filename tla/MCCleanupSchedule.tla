------------------------- MODULE MCCleanupSchedule -------------------------
(* CleanupSchedule with finite sets of processes and tokens.               *)
EXTENDS CleanupSchedule, TLC

\* Processes and tokens are interchangeable.
Symmetry == Permutations(Cleaners) \cup Permutations(Tokens)

\* The upload whose object the store refuses to delete.
FirstUpload == {1}
=============================================================================
