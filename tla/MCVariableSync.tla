--------------------------- MODULE MCVariableSync ---------------------------
(***************************************************************************)
(* The instance of VariableSync for TLC: two variables, one of them sent   *)
(* on every assignment, that may want the same name, and two callbacks, of *)
(* which one may subscribe by name and the other by id.                    *)
(***************************************************************************)
EXTENDS VariableSync, TLC

CONSTANTS v1, v2, n1, b1, b2, x, y

=============================================================================
