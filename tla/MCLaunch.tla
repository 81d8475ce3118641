------------------------------ MODULE MCLaunch ------------------------------
(***************************************************************************)
(* An instance of Launch for TLC: three processes on one key file.         *)
(***************************************************************************)
EXTENDS Launch
=============================================================================
