-------------------------- MODULE MCSandboxChannel --------------------------
(* Instance of SandboxChannel for TLC.                                     *)
EXTENDS SandboxChannel, TLC

CONSTANTS c1, c2, c3

MCCmds         == {c1, c2, c3}
MCChecked      == {c1}
MCFails        == {c1, c2}
MCUnterminated == {c3}
MCTrickling    == {c2}
=============================================================================
