--------------------------- MODULE MCOpenStackCloud ---------------------------
(* An instance of OpenStackCloud for TLC. *)
EXTENDS OpenStackCloud
=============================================================================
