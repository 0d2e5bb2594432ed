----------------------------- MODULE MCDeployment -----------------------------
(* Instance of Deployment for TLC: one or two zones of either kind. *)
EXTENDS Deployment

MCConfigs == {"ovn_kubernetes", "openstack"} \X {1, 2}
=============================================================================
