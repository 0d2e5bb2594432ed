----------------------------- MODULE MCBgpBatches -----------------------------
(* Instance of BgpBatches for TLC: the gateway of the last VRF may move, *)
(* and this VRF may get another route. *)
EXTENDS BgpBatches, TLC

MCGwChassis == <<{1}, {1}, {1, 2}>>
MCMaxOthers == <<0, 0, 1>>
=============================================================================
