----------------------------- MODULE MCLedger ------------------------------
(***************************************************************************)
(* An instance of Ledger for TLC: two proposers race, p1 with quorum 2 and *)
(* p2, on the same database after a change of configuration, with quorum   *)
(* 1; and every kind of submission is made.  Device d1 forks its chain,    *)
(* loses its predecessor hash and has a second key somebody tries to       *)
(* enrol; d2 has one event and a copy of it signed by another key.  Three   *)
(* events can be accepted, so the longest chain has three blocks.          *)
(***************************************************************************)
EXTENDS LedgerRefinement, TLC

CONSTANTS d1, d2, n1, n2, k1, k2, kn1, kn2, p1, p2,
          a1, a2, fork1, gap2, b1, forged1

MCDevices == {d1, d2}
MCAuthorities == {n1, n2}
MCKeys == {k1, k2, kn1, kn2}
MCEvents == {a1, a2, fork1, gap2, b1, forged1}
MCDeviceOf ==
  [e \in MCEvents |-> IF e \in {b1, forged1} THEN d2 ELSE d1]
MCSequenceOf == [e \in MCEvents |-> IF e \in {a2, gap2} THEN 2 ELSE 1]
MCPreviousOf == [e \in MCEvents |-> IF e = a2 THEN a1 ELSE ZeroHash]
MCSignerOf == [e \in MCEvents |-> IF e = b1 THEN k2 ELSE k1]

MCCallers == {p1, p2}
MCNodeOf == p1 :> n1 @@ p2 :> n2
MCNodeKeyOf == p1 :> kn1 @@ p2 :> kn2
MCQuorumOf == p1 :> 2 @@ p2 :> 1

MCDeviceKeys == d1 :> {k1, k2} @@ d2 :> {k2}
MCAuthorityKeys == n1 :> {kn1} @@ n2 :> {kn2}
=============================================================================
