-------------------------- MODULE MCIssuanceWorker --------------------------
(* IssuanceWorker with finite sets of processes and owner tokens.          *)
EXTENDS IssuanceWorker, TLC

\* Processes and tokens are interchangeable.
Symmetry == Permutations(Workers) \cup Permutations(Tokens)
=============================================================================
