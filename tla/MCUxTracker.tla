---------------------------- MODULE MCUxTracker -----------------------------
(***************************************************************************)
(* Instances of UxTracker for TLC.  Controls and notifications share the   *)
(* polling but no data, so they are checked apart: a label and a toggle    *)
(* before one page that may select twice, and so poll in two loops for two *)
(* sessions, and a notification before two pages.                          *)
(***************************************************************************)
EXTENDS UxTracker, TLC

CONSTANTS p1, p2
=============================================================================
