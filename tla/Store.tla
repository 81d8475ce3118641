------------------------------- MODULE Store -------------------------------
(***************************************************************************)
(* The SQLite database of an EdgeChainDB gateway (edgechaindb/store.py):   *)
(* its tables, its reads and its write transactions.                       *)
(*                                                                         *)
(* Every method of Database opens a connection of its own; a write method  *)
(* runs between BEGIN IMMEDIATE and COMMIT, so it is one atomic action     *)
(* here, and one that raises rolls back and changes nothing, so it is not  *)
(* a step at all.  A read method is atomic too, but two reads of one       *)
(* caller are not: the modules that call them take a step for each.        *)
(*                                                                         *)
(* SHA-256 and Ed25519 are ideal.  An event is its event_hash, and the     *)
(* constants below give the signed fields that the hash determines.        *)
(* Timestamps, payloads and key ids are left out.                          *)
(***************************************************************************)
EXTENDS Naturals, FiniteSets, FiniteSetsExt

CONSTANTS
  Devices,       \* device identifiers
  Authorities,   \* authority identifiers
  Keys,          \* Ed25519 key pairs
  Events,        \* signed events that may reach the gateway, by event_hash
  DeviceOf,      \* event -> its device_id
  SequenceOf,    \* event -> its sequence
  PreviousOf,    \* event -> its previous_event_hash
  SignerOf,      \* event -> the key its signature verifies under
  ZeroHash       \* 32 zero bytes: the predecessor of a first event or block

ASSUME EventFields ==
  /\ DeviceOf \in [Events -> Devices]
  /\ SequenceOf \in [Events -> Nat]
  /\ PreviousOf \in [Events -> Events \cup {ZeroHash}]
  /\ SignerOf \in [Events -> Keys]

ASSUME FiniteAuthorities == IsFiniteSet(Authorities)

ASSUME ZeroHashIsNoEvent == ZeroHash \notin Events

(***************************************************************************)
(* The tables, each a function from the primary keys of its rows.  A row   *)
(* of blocks holds its header (whose event_hashes are the rows it has in   *)
(* block_events, whose authorities are those it has in block_authorities)  *)
(* and its block_signatures.  A block_height of 0 is SQL's NULL.           *)
(***************************************************************************)
VARIABLES
  devices,       \* device_id -> public_key, last_sequence, last_event_hash
  authorities,   \* authority_id -> public_key
  events,        \* event_hash -> block_height, finalized
  blocks         \* height -> header, status, signatures

tables == <<devices, authorities, events, blocks>>

StoreInit ==
  /\ devices = [d \in {} |-> ZeroHash]
  /\ authorities = [a \in {} |-> ZeroHash]
  /\ events = [e \in {} |-> ZeroHash]
  /\ blocks = [h \in {} |-> ZeroHash]

\* The table with one more row (a row already under the key is replaced).
WithRow(table, key, row) ==
  [k \in DOMAIN table \cup {key} |-> IF k = key THEN row ELSE table[k]]

----------------------------------------------------------------------------
(* Hashes and signatures. *)

\* The header fixes the hash and, SHA-256 being collision-free, the hash the
\* header.  A header's merkle_root and event_count stand for the set of its
\* events, its authority_set_hash for the snapshot.
BlockHash(header) == <<"edgechaindb:block", header>>

Signature(key, hash) == [key |-> key, over |-> hash]

\* Mutant of Verifies: the key is not the one of the snapshot.
VerifiesAnyKey(key, signature, hash) == signature.over = hash

Verifies(key, signature, hash) == signature = Signature(key, hash)

----------------------------------------------------------------------------
(* Reads. *)

Pending == {e \in DOMAIN events : events[e].block_height = 0}

OpenHeights == {h \in DOMAIN blocks : blocks[h].status = "proposed"}

FinalizedHeights == {h \in DOMAIN blocks : blocks[h].status = "finalized"}

\* Mutant of LastFinalizedHeight: proposals are counted too.
LastBlockHeight == IF blocks = << >> THEN 0 ELSE Max(DOMAIN blocks)

LastFinalizedHeight == IF FinalizedHeights = {} THEN 0 ELSE Max(FinalizedHeights)

Members(h) == blocks[h].header.authorities

----------------------------------------------------------------------------
(* Write transactions. *)

\* Enrolment with the key already bound changes nothing, with another key it
\* is an error: only a new row is a step.
RegisterDevice(d, key) ==
  /\ d \notin DOMAIN devices
  /\ devices' = WithRow(devices, d, [public_key |-> key, last_sequence |-> 0,
                                     last_event_hash |-> ZeroHash])
  /\ UNCHANGED <<authorities, events, blocks>>

RegisterAuthority(a, key) ==
  /\ a \notin DOMAIN authorities
  /\ authorities' = WithRow(authorities, a, key)
  /\ UNCHANGED <<devices, events, blocks>>

\* Mutant of NextInSequence: numbers may be skipped.
LaterInSequence(e) == SequenceOf[e] > devices[DeviceOf[e]].last_sequence

NextInSequence(e) == SequenceOf[e] = devices[DeviceOf[e]].last_sequence + 1

ContinuesChain(e) == PreviousOf[e] = devices[DeviceOf[e]].last_event_hash

\* UNIQUE(device_id, sequence)
SequenceFree(e) ==
  \A f \in DOMAIN events :
     DeviceOf[f] = DeviceOf[e] => SequenceOf[f] # SequenceOf[e]

\* A hash that is already stored is reported as a duplicate and changes
\* nothing; otherwise the event and the device's checkpoint move together.
InsertVerifiedEvent(e) ==
  /\ e \notin DOMAIN events
  /\ DeviceOf[e] \in DOMAIN devices
  /\ NextInSequence(e)
  /\ ContinuesChain(e)
  /\ SequenceFree(e)
  /\ events' = WithRow(events, e, [block_height |-> 0, finalized |-> FALSE])
  /\ devices' = [devices EXCEPT ![DeviceOf[e]].last_sequence = SequenceOf[e],
                                ![DeviceOf[e]].last_event_hash = e]
  /\ UNCHANGED <<authorities, blocks>>

\* The primary key of blocks, and UNIQUE(block_events.event_hash).
HeightFree(h) == h \notin DOMAIN blocks

Unclaimed(hashes) ==
  \A h \in DOMAIN blocks : blocks[h].header.event_hashes \cap hashes = {}

StillPending(hashes) == hashes \subseteq Pending

ProposedRow(header) ==
  [header |-> header, status |-> "proposed", signatures |-> [a \in {} |-> ZeroHash]]

\* Mutant of AssignedTo: the update misses its condition on the event.
AllAssignedTo(h, hashes) == [e \in DOMAIN events |-> [events[e] EXCEPT !.block_height = h]]

AssignedTo(h, hashes) ==
  [e \in DOMAIN events |->
     IF e \in hashes THEN [events[e] EXCEPT !.block_height = h] ELSE events[e]]

\* Mutant of Proposable: the transaction relies on what its caller has read.
ProposableUnchecked(header) == HeightFree(header.height)

Proposable(header) ==
  /\ OpenHeights = {}
  /\ StillPending(header.event_hashes)
  /\ HeightFree(header.height)
  /\ Unclaimed(header.event_hashes)

CreateProposal(header) ==
  /\ Proposable(header)
  /\ blocks' = WithRow(blocks, header.height, ProposedRow(header))
  /\ events' = AssignedTo(header.height, header.event_hashes)
  /\ UNCHANGED <<devices, authorities>>

\* Mutant of WithSignature: the new signature replaces those before it.
OnlySignature(h, a, signature) == [b \in {a} |-> signature]

\* INSERT OR IGNORE: a second signature of one authority is dropped.
WithSignature(h, a, signature) ==
  IF a \in DOMAIN blocks[h].signatures
    THEN blocks[h].signatures
    ELSE WithRow(blocks[h].signatures, a, signature)

\* Mutant of ReachesQuorum: off by one.
ExceedsQuorum(h, signatures) ==
  Cardinality(DOMAIN signatures) > blocks[h].header.quorum_threshold

ReachesQuorum(h, signatures) ==
  Cardinality(DOMAIN signatures) >= blocks[h].header.quorum_threshold

PreviousFinalized(h) ==
  IF h = 1
    THEN blocks[h].header.previous_hash = ZeroHash
    ELSE /\ h - 1 \in FinalizedHeights
         /\ blocks[h].header.previous_hash = BlockHash(blocks[h - 1].header)

FinalizedIn(h) ==
  [e \in DOMAIN events |->
     IF events[e].block_height = h THEN [events[e] EXCEPT !.finalized = TRUE]
                                   ELSE events[e]]

\* The signature that completes the quorum finalizes the block and its
\* events in the same transaction; later ones are still recorded.
InsertBlockSignature(h, a, signature) ==
  LET signatures == WithSignature(h, a, signature)
  IN  /\ h \in DOMAIN blocks
      /\ ~ (h \in FinalizedHeights /\ a \in DOMAIN blocks[h].signatures)
      /\ a \in DOMAIN Members(h)
      /\ \/ /\ ~ ReachesQuorum(h, signatures)
            /\ blocks' = [blocks EXCEPT ![h].signatures = signatures]
            /\ UNCHANGED events
         \/ /\ ReachesQuorum(h, signatures)
            /\ PreviousFinalized(h)
            /\ blocks' = [blocks EXCEPT ![h].signatures = signatures,
                                        ![h].status = "finalized"]
            /\ events' = FinalizedIn(h)
      /\ UNCHANGED <<devices, authorities>>

=============================================================================
