----------------------------- MODULE MCVerifier -----------------------------
(***************************************************************************)
(* Instances of Verifier for TLC: one proposer with a quorum of two out of *)
(* two, and two devices with three events; in MCDeletion one device with   *)
(* two.                                                                    *)
(***************************************************************************)
EXTENDS Verifier, TLC

CONSTANTS d1, d2, n1, n2, k1, k2, kn1, kn2, p1, a1, a2, b1

MCAuthorities == {n1, n2}
MCKeys == {k1, k2, kn1, kn2}
MCCallers == {p1}
MCNodeOf == p1 :> n1
MCNodeKeyOf == p1 :> kn1
MCQuorumOf == p1 :> 2
MCAuthorityKeys == n1 :> {kn1} @@ n2 :> {kn2}

MCOneDevice == {d1}
MCTwoDevices == {d1, d2}
MCTwoEvents == {a1, a2}
MCThreeEvents == {a1, a2, b1}
MCDeviceOf == [e \in Events |-> IF e = b1 THEN d2 ELSE d1]
MCSequenceOf == [e \in Events |-> IF e = a2 THEN 2 ELSE 1]
MCPreviousOf == [e \in Events |-> IF e = a2 THEN a1 ELSE ZeroHash]
MCSignerOf == [e \in Events |-> IF e = b1 THEN k2 ELSE k1]
MCDeviceKeys == [d \in Devices |-> IF d = d1 THEN {k1} ELSE {k2}]

MCBlockDeletion == {"block_row_deleted"}
=============================================================================
