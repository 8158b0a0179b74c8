---------------------------- MODULE MCPlantCare -----------------------------
(***************************************************************************)
(* The instance of PlantCare for TLC: soil that may be too dry, right or   *)
(* too wet.                                                                *)
(***************************************************************************)
EXTENDS PlantCare, TLC

MiddleLevel == {[left |-> 1, right |-> 1]}
=============================================================================
