--------------------------- MODULE MCProvisioning ---------------------------
(***************************************************************************)
(* The instance of Provisioning for TLC.                                   *)
(***************************************************************************)
EXTENDS Provisioning, TLC

CONSTANTS e1, e2

=============================================================================
