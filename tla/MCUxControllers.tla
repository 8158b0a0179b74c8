-------------------------- MODULE MCUxControllers ---------------------------
(***************************************************************************)
(* The instance of UxControllers for TLC: two connections of one device,   *)
(* or of two devices that were given the same name.                        *)
(***************************************************************************)
EXTENDS UxControllers, TLC

CONSTANTS d1, d2, pot

Namesakes == [c \in {d1, d2} |-> pot]
=============================================================================
