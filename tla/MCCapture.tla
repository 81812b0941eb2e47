------------------------------ MODULE MCCapture ------------------------------
(***************************************************************************)
(* Small instances of Capture.                                             *)
(***************************************************************************)
EXTENDS Capture

===============================================================================
