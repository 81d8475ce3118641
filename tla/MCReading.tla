------------------------------ MODULE MCReading -----------------------------
(***************************************************************************)
(* One instance for TLC of what a gateway shows of its data, in three parts *)
(* that share no state: Verifier, which reads the tables; Merkle, which     *)
(* builds and checks a proof of inclusion; and ClusterControl, which shows  *)
(* the containers.  A behaviour is one of a part, with the others at rest. *)
(*                                                                         *)
(* A block of Merkle has up to five of five events, so that levels are odd  *)
(* at the bottom, in the middle, or at both.  ClusterControl has two        *)
(* viewers, one operator, two services, and a cache that lives two ticks.   *)
(***************************************************************************)
EXTENDS MCVerifier, Merkle, ClusterControl

CONSTANTS h1, h2, h3, h4, h5, v1, v2, s1, s2

MCHashes == {h1, h2, h3, h4, h5}
MCViewers == {v1, v2}
MCServices == {s1, s2}
Symmetric == Permutations(MCViewers) \cup Permutations(MCServices)

VARIABLE part

MCInit ==
  /\ VerifierInit /\ MerkleInit /\ ControlInit
  /\ part \in {"tables", "proof", "containers"}
  /\ part # "proof" => block = <<h1, h2, h3, h4, h5>> /\ event = h1

MCNext ==
  /\ \/ part = "tables" /\ VerifierNext /\ UNCHANGED <<merkleVars, controlVars>>
     \/ part = "proof" /\ Climb /\ UNCHANGED <<verifierVars, controlVars>>
     \/ part = "containers" /\ ControlNext /\ UNCHANGED <<verifierVars, merkleVars>>
  /\ UNCHANGED part

MCSpec == MCInit /\ [][MCNext]_<<verifierVars, merkleVars, controlVars, part>>
=============================================================================
