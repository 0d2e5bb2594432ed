----------------------------- MODULE MCNamespace -----------------------------
(* Instance of Namespace for TLC: one address family. *)
EXTENDS Namespace, TLC

SingleStack == <<"ip4">>
Symmetry == Permutations(Namespaces) \cup Permutations(Ports)
=============================================================================
