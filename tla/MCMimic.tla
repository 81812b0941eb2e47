-------------------------------- MODULE MCMimic --------------------------------
(***************************************************************************)
(* A small instance of Mimic.                                              *)
(***************************************************************************)
EXTENDS Mimic, TLC

===============================================================================
