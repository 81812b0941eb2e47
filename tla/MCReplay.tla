-------------------------------- MODULE MCReplay --------------------------------
(***************************************************************************)
(* A small instance of Replay.                                             *)
(***************************************************************************)
EXTENDS Replay, TLC

===============================================================================
