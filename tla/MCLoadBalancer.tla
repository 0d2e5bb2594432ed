---------------------------- MODULE MCLoadBalancer ----------------------------
(* Instance of LoadBalancer for TLC. *)
EXTENDS LoadBalancer, TLC

Symmetry == Permutations(Protocols) \cup Permutations(Workers)
=============================================================================
