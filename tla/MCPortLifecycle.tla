--------------------------- MODULE MCPortLifecycle ---------------------------
(* Instance of PortLifecycle for TLC: ports a1, a2 are active, v is passive. *)
EXTENDS PortLifecycle, TLC

CONSTANTS a1, a2, v

MCPorts   == {a1, a2, v}
MCPassive == {v}

Symmetry == Permutations({a1, a2}) \cup Permutations(Procs)
=============================================================================
