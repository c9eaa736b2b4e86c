------------------------------ MODULE MCTemporal ------------------------------
(***************************************************************************)
(* Instances of the supervised run for TLC.                                *)
(***************************************************************************)
EXTENDS Temporal
=============================================================================
