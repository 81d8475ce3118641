------------------------------ MODULE MCWorker ------------------------------
(***************************************************************************)
(* An instance of Worker for TLC: five events in batches of two, so that a *)
(* rest remains, and a clock of two ticks.                                 *)
(***************************************************************************)
EXTENDS Worker
=============================================================================
