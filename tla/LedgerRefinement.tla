-------------------------- MODULE LedgerRefinement -------------------------
(***************************************************************************)
(* Ledger implements EventLog: the log of a device is read off the events   *)
(* table in the order of their sequence numbers, and the sealed batches are *)
(* the finalized blocks in the order of their heights.  Accepting an event  *)
(* records it, the signature that completes a quorum seals a batch, and     *)
(* every other step of every caller is invisible.                          *)
(***************************************************************************)
EXTENDS Ledger

OwnerOf == [d \in DOMAIN devices |-> devices[d].public_key]

EventAt(d, i) == CHOOSE e \in Stored(d) : SequenceOf[e] = i

LogLength(d) == IF d \in DOMAIN devices THEN devices[d].last_sequence ELSE 0

LogOf == [d \in Devices |-> [i \in 1 .. LogLength(d) |-> EventAt(d, i)]]

SealedBlocks ==
  [h \in 1 .. LastFinalizedHeight |-> blocks[h].header.event_hashes]

Log == INSTANCE EventLog WITH owner <- OwnerOf, log <- LogOf, sealed <- SealedBlocks

\* However the proposers interleave, crash and race with the signers, a
\* client sees only events joining the end of a device's log and whole
\* batches joining the end of one chain (the work of insert_verified_event,
\* create_proposal and insert_block_signature together).
ImplementsEventLog == Log!Spec
=============================================================================
