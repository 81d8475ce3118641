----------------------------- MODULE MCGateway -----------------------------
(***************************************************************************)
(* An instance of Gateway for TLC: three handler threads, three events of two *)
(* devices, batches of two, and a quorum of two out of two local            *)
(* authorities, whose signatures may also be posted from outside.          *)
(***************************************************************************)
EXTENDS Gateway, TLC

CONSTANTS d1, d2, n1, n2, k1, k2, kn1, kn2, t1, t2, t3, a1, a2, b1

MCDevices == {d1, d2}
MCAuthorities == {n1, n2}
MCKeys == {k1, k2, kn1, kn2}
MCEvents == {a1, a2, b1}
MCDeviceOf == a1 :> d1 @@ a2 :> d1 @@ b1 :> d2
MCSequenceOf == a1 :> 1 @@ a2 :> 2 @@ b1 :> 1
MCPreviousOf == a1 :> ZeroHash @@ a2 :> a1 @@ b1 :> ZeroHash
MCSignerOf == a1 :> k1 @@ a2 :> k1 @@ b1 :> k2
MCThreads == {t1, t2, t3}
MCKeyOf == n1 :> kn1 @@ n2 :> kn2
MCNodeOf == [t \in Callers |-> n1]
MCNodeKeyOf == [t \in Callers |-> kn1]
MCQuorumOf == [t \in Callers |-> 2]
MCDeviceKeys == d1 :> {k1} @@ d2 :> {k2}
MCAuthorityKeys == n1 :> {kn1} @@ n2 :> {kn2}
MCLocalSigners == <<n2>>
=============================================================================
