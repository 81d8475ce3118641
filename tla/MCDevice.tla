------------------------------ MODULE MCDevice ------------------------------
(***************************************************************************)
(* Instances of Device for TLC.  The device may sign two different events   *)
(* with number 1, as many that follow each with number 2, and one with      *)
(* number 3: whatever it has signed and lost it may sign differently.       *)
(***************************************************************************)
EXTENDS Device, TLC

CONSTANTS a1, x1, a2, y2, x2, a3

MCEvents == {a1, x1, a2, y2, x2, a3}
MCSequenceOf == a1 :> 1 @@ x1 :> 1 @@ a2 :> 2 @@ y2 :> 2 @@ x2 :> 2 @@ a3 :> 3
MCPreviousOf ==
  a1 :> ZeroHash @@ x1 :> ZeroHash @@ a2 :> a1 @@ y2 :> a1 @@ x2 :> x1 @@ a3 :> a2
MCLimits == {1, 2}
=============================================================================
