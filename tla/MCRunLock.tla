------------------------------- MODULE MCRunLock -------------------------------
(* Instance of RunLock for TLC. *)
EXTENDS RunLock, TLC

Symmetry == Permutations(Runs)
=============================================================================
