---------------------------- MODULE MCInterrupted ----------------------------
(***************************************************************************)
(* Instances of Interrupted for TLC.                                       *)
(***************************************************************************)
EXTENDS MCPointToPoint, Interrupted
=============================================================================
