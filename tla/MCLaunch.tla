------------------------------ MODULE MCLaunch ------------------------------
(***************************************************************************)
(* Instances of LaunchTables for TLC.                                      *)
(***************************************************************************)
EXTENDS LaunchTables

StandardFiles == {0, 1, 2}
=============================================================================
