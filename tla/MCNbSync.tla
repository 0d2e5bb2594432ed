------------------------------ MODULE MCNbSync ------------------------------
(* Instance of NbSync for TLC. *)
EXTENDS NbSync, TLC

Symmetry == Permutations(Chassis)
=============================================================================
