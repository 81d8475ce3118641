------------------------------- MODULE Merkle -------------------------------
(***************************************************************************)
(* The Merkle tree of a block's events (edgechaindb/merkle.py) and the      *)
(* proofs of inclusion made from it (event_proof and verify_event_proof in  *)
(* edgechaindb/ledger.py).                                                 *)
(*                                                                         *)
(* The two loops, which build one level after the other, are the actions.   *)
(* A hash is the term it was computed from, with its domain separator:      *)
(* SHA-256 is taken to have no collisions, and hashes are never decoded.    *)
(***************************************************************************)
EXTENDS Naturals, Sequences, SequencesExt

CONSTANTS
  Hashes,        \* event hashes
  MaxEvents      \* bound: events in a block

ASSUME MerkleConfig == MaxEvents \in Nat \ {0}

VARIABLES
  block,         \* block_event_hashes: the block's events by their position
  event,         \* the event a proof is asked for
  level,         \* level
  position,      \* position, from 0
  steps          \* result

merkleVars == <<block, event, level, position, steps>>

Leaf(value) == <<"leaf", value>>
Node(left, right) == <<"node", left, right>>
EMPTY_ROOT == <<"empty">>

Leaves(values) == [i \in DOMAIN values |-> Leaf(values[i])]

----------------------------------------------------------------------------
(* root *)

\* An odd level repeats its last node.
Even(nodes) == IF Len(nodes) % 2 = 0 THEN nodes ELSE Append(nodes, Last(nodes))

Pairs(nodes) == [i \in 1 .. Len(nodes) \div 2 |-> Node(nodes[2 * i - 1], nodes[2 * i])]

Raised(nodes) == IF Len(nodes) > 1 THEN Pairs(Even(nodes)) ELSE nodes

\* The loop turns less often than there are nodes.
Top(nodes) ==
  LET after[turns \in 0 .. Len(nodes)] ==
        IF turns = 0 THEN nodes ELSE Raised(after[turns - 1])
  IN  after[Len(nodes)][1]

Root(values) == IF values = << >> THEN EMPTY_ROOT ELSE Top(Leaves(values))

----------------------------------------------------------------------------
(* event_proof: proof of the event at its position in the block *)

Blocks == {b \in BoundedSeq(Hashes, MaxEvents) : b # << >> /\ IsInjective(b)}

MerkleInit ==
  /\ block \in Blocks
  /\ event \in ToSet(block)
  /\ level = Leaves(block)
  /\ position = (CHOOSE i \in DOMAIN block : block[i] = event) - 1
  /\ steps = << >>

Sibling(nodes, at) ==
  IF at % 2 = 0 THEN [side |-> "right", sibling |-> nodes[at + 2]]
                ELSE [side |-> "left", sibling |-> nodes[at]]

\* One turn of the loop.
Climb ==
  /\ Len(level) > 1
  /\ steps' = Append(steps, Sibling(Even(level), position))
  /\ position' = position \div 2
  /\ level' = Pairs(Even(level))
  /\ UNCHANGED <<block, event>>

MerkleSpec == MerkleInit /\ [][Climb]_merkleVars

----------------------------------------------------------------------------
(* verify_event_proof *)

\* Mutant of Combine: the sides are swapped.
CombineSwapped(step, current) ==
  IF step.side = "left" THEN Node(current, step.sibling) ELSE Node(step.sibling, current)

Combine(step, current) ==
  IF step.side = "left" THEN Node(step.sibling, current) ELSE Node(current, step.sibling)

\* What the verifier has computed after these steps.
Walk(value, proof) ==
  LET current[i \in 0 .. Len(proof)] ==
        IF i = 0 THEN Leaf(value) ELSE Combine(proof[i], current[i - 1])
  IN  current[Len(proof)]

Verify(value, proof, expected_root) == Walk(value, proof) = expected_root

----------------------------------------------------------------------------
(* Properties *)

MerkleTypeOK ==
  /\ block \in Blocks /\ event \in Hashes
  /\ Len(level) \in 1 .. Len(block)
  /\ position \in 0 .. Len(level) - 1
  /\ \A i \in DOMAIN steps : steps[i].side \in {"left", "right"}

\* At every turn of the loop the steps so far lead the verifier to the node
\* that stands for the event on this level, and no other event of the block
\* leads it there: this is why the finished proof can be trusted
\* (merkle.py:47-59 against merkle.py:62-71).
StepsLeadUp ==
  /\ Walk(event, steps) = level[position + 1]
  /\ \A other \in ToSet(block) \ {event} : Walk(other, steps) # level[position + 1]

\* A finished proof verifies against the root the block was sealed with, for
\* its own event and no other, whatever the size of the block; also the one
\* of an event an odd level has repeated (ledger.py:264-308).
ProofProves ==
  Len(level) = 1 =>
    \A e \in Hashes : Verify(e, steps, Root(block)) <=> e = event

\* A root stands for one list of events: no other list of distinct events
\* that a block may hold has it, when the proof for one is finished.  (With repetitions it would be ambiguous: a
\* list and the list that repeats its last event may have the same root,
\* merkle.py:24; event_hash is UNIQUE in block_events, store.py:71.)
RootIdentifies ==
  Len(level) = 1 => \A other \in Blocks : Root(other) = Root(block) => other = block

\* A proof stands for one event of one block, and nothing else has it.
MerkleInv == MerkleTypeOK /\ StepsLeadUp /\ ProofProves /\ RootIdentifies
=============================================================================
