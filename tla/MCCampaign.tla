----------------------------- MODULE MCCampaign -----------------------------
(***************************************************************************)
(* An instance of Campaign for TLC: two runners, and two runs of one device *)
(* of which the first has an outage; blocks hold two events, so that one is *)
(* left to be sealed.                                                      *)
(***************************************************************************)
EXTENDS Campaign

CONSTANTS w1, r1, r2

TwoRuns == <<1, 2>>
OneRun == <<1>>
FirstRun == {1}
=============================================================================
