--------------------------- MODULE MCClusterBringup ---------------------------
(* An instance of ClusterBringup for TLC. *)
EXTENDS ClusterBringup

(* Before the first iteration, after the first, and after the last. *)
MCExtIterations == {-1, 0, 1, 7}
=============================================================================
