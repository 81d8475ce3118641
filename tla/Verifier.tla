------------------------------ MODULE Verifier ------------------------------
(***************************************************************************)
(* EdgeChainLedger.verify_all (edgechaindb/ledger.py), which re-reads the   *)
(* whole database, one query after the other and without a transaction,     *)
(* while the gateway may be writing (GET /verify takes no lock); and what   *)
(* it makes of a database whose rows were damaged, one row at a time, as    *)
(* benchmarks/integrity_detection.py damages them.                         *)
(*                                                                         *)
(* A damage is an overlay on what the queries return: the tables of Ledger  *)
(* stay as the gateway wrote them.  As in the benchmark, nothing is written *)
(* to a damaged database.                                                  *)
(***************************************************************************)
EXTENDS Ledger, Sequences, SequencesExt

CONSTANT DamageKinds    \* the damages to try

\* A value whose bytes were flipped, and no damage.
Corrupt == <<"corrupted">>
Undamaged == [kind |-> "none"]

ASSUME VerifierConfig ==
  /\ Undamaged.kind \notin DamageKinds
  /\ Corrupt \notin Events \cup Keys \cup {ZeroHash}

VARIABLES
  damage,        \* Undamaged, or the kind of damage and the row it is in
  check,         \* the next query of verify_all, "idle" or "done"
  rows,          \* block rows of the snapshot that are still to be checked
  left,          \* rows of the inner loop that are still to be checked
  expected,      \* expected_height
  previous,      \* previous_hash
  members,       \* member_map of the block being checked
  chain,         \* chain_state: device -> last event seen of it
  errors,        \* kinds of error found
  written        \* a transaction was committed since verify_all started

local == <<rows, left, expected, previous, members, chain>>
verifierVars == <<devices, authorities, events, blocks, pc, draft, damage, check,
                  rows, left, expected, previous, members, chain, errors, written>>

Nothing == [x \in {} |-> ZeroHash]

VerifierInit ==
  /\ Init
  /\ damage = Undamaged
  /\ check = "idle"
  /\ rows = << >> /\ left = {} /\ expected = 1 /\ previous = ZeroHash
  /\ members = Nothing /\ chain = Nothing
  /\ errors = {} /\ written = FALSE

----------------------------------------------------------------------------
(* What the queries return: the stored value, or the damaged one. *)

Read(kind, row, stored, damaged) ==
  IF damage.kind = kind /\ damage.row = row THEN damaged ELSE stored

\* The root stands for the list of hashes below it, << >> for a corrupted one.
BlockEventHashes(h) ==
  LET hashes == SetToSeq(blocks[h].header.event_hashes)
  IN  Read("block_membership_reordered", h, hashes, Reverse(hashes))

BlockRow(h) ==
  LET header == blocks[h].header
  IN  [height        |-> h,
       previous_hash |-> Read("previous_block_hash_corrupted", h,
                              header.previous_hash, Corrupt),
       merkle_root   |-> Read("merkle_root_corrupted", h,
                              SetToSeq(header.event_hashes), << >>),
       event_count   |-> Cardinality(header.event_hashes),
       proposer_id   |-> header.proposer_id,
       authority_set |-> header.authorities,
       quorum        |-> header.quorum_threshold,
       status        |-> blocks[h].status,
       block_hash    |-> BlockHash(header)]

StoredHeights ==
  {h \in DOMAIN blocks : ~ Read("block_row_deleted", h, FALSE, TRUE)}

\* ORDER BY height
Ith(heights, i) ==
  CHOOSE h \in heights : Cardinality({g \in heights : g <= h}) = i

AllBlocks ==
  [i \in 1 .. Cardinality(StoredHeights) |-> BlockRow(Ith(StoredHeights, i))]

StoredEvents == {e \in DOMAIN events : ~ Read("event_deleted", e, FALSE, TRUE)}

\* As the benchmark changes it.
EventSequence(e) ==
  Read("sequence_modified", e, SequenceOf[e], SequenceOf[e] + 10000)

EventPrevious(e) == Read("previous_event_hash_corrupted", e, PreviousOf[e], Corrupt)

EventSigner(e) == Read("event_signature_corrupted", e, SignerOf[e], Corrupt)

PayloadAsSigned(e) == Read("event_payload_modified", e, TRUE, FALSE)

EventHeight(e) == Read("block_mapping_detached", e, events[e].block_height, 0)

EventFinalized(e) == Read("finalized_flag_cleared", e, events[e].finalized, FALSE)

BlockAuthorities(h) ==
  [a \in DOMAIN Members(h) |->
     Read("authority_snapshot_corrupted", <<h, a>>, Members(h)[a], Corrupt)]

BlockSignatures(h) ==
  LET present == {a \in DOMAIN blocks[h].signatures :
                    ~ Read("quorum_signature_deleted", <<h, a>>, FALSE, TRUE)}
  IN  [a \in present |-> Read("block_signature_corrupted", <<h, a>>,
                              blocks[h].signatures[a], Signature(Corrupt, Corrupt))]

DeviceKnown(d) == d \in DOMAIN devices /\ ~ Read("device_row_deleted", d, FALSE, TRUE)

----------------------------------------------------------------------------
(* The damages: the rows each of them may hit. *)

Interior == {e \in DOMAIN events : SequenceOf[e] > 1}

Assigned == {e \in DOMAIN events : events[e].block_height # 0}

\* The rows of block_authorities and block_signatures of some blocks.
MemberRows(heights) == UNION {{<<h, a>> : a \in DOMAIN Members(h)} : h \in heights}

SignatureRows(heights) ==
  UNION {{<<h, a>> : a \in DOMAIN blocks[h].signatures} : h \in heights}

\* The benchmark's blocks hold just as many signatures as their quorum asks.
JustEnough ==
  {h \in FinalizedHeights :
     Cardinality(DOMAIN blocks[h].signatures) = blocks[h].header.quorum_threshold}

Targets(kind) ==
  CASE kind \in {"event_payload_modified", "event_signature_corrupted",
                 "sequence_modified"} -> DOMAIN events
    [] kind \in {"previous_event_hash_corrupted", "event_deleted"} -> Interior
    [] kind = "block_membership_reordered" ->
         {h \in DOMAIN blocks : Cardinality(blocks[h].header.event_hashes) >= 2}
    [] kind = "merkle_root_corrupted" -> DOMAIN blocks
    [] kind = "block_row_deleted" -> FinalizedHeights
    [] kind = "previous_block_hash_corrupted" -> DOMAIN blocks \ {1}
    [] kind = "authority_snapshot_corrupted" ->
         MemberRows(DOMAIN blocks)
    [] kind = "block_signature_corrupted" ->
         SignatureRows(DOMAIN blocks)
    [] kind = "quorum_signature_deleted" -> SignatureRows(JustEnough)
    [] kind = "finalized_flag_cleared" -> {e \in DOMAIN events : events[e].finalized}
    [] kind = "block_mapping_detached" -> Assigned
    [] kind = "device_row_deleted" -> {d \in DOMAIN devices : Stored(d) # {}}

\* TAMPER_CASES, but for the policy hash, which is a constant and not in the
\* headers here; and the loss of a device's row.
TamperCases ==
  {"event_payload_modified", "event_signature_corrupted",
   "previous_event_hash_corrupted", "sequence_modified", "event_deleted",
   "block_membership_reordered", "merkle_root_corrupted",
   "previous_block_hash_corrupted", "authority_snapshot_corrupted",
   "block_signature_corrupted", "quorum_signature_deleted",
   "finalized_flag_cleared", "block_mapping_detached", "device_row_deleted"}

Damage ==
  /\ damage = Undamaged
  /\ check \in {"idle", "done"}
  /\ \A p \in Callers : pc[p] = "idle"
  /\ \E kind \in DamageKinds : \E row \in Targets(kind) :
        damage' = [kind |-> kind, row |-> row]
  /\ check' = "idle"
  /\ errors' = {}
  /\ UNCHANGED <<vars, local, written>>

----------------------------------------------------------------------------
(* verify_all, one action for each query and what is computed from it. *)

Goto(query) == check' = query /\ UNCHANGED <<vars, damage, written>>

Found(alarms) == errors' = errors \cup alarms

ErrorIf(condition, alarm) == IF condition THEN {alarm} ELSE {}

Start ==
  /\ check \in {"idle", "done"}
  /\ rows' = AllBlocks
  /\ left' = {} /\ expected' = 1 /\ previous' = ZeroHash
  /\ members' = Nothing /\ chain' = Nothing
  /\ errors' = {}
  /\ check' = "block" /\ written' = FALSE
  /\ UNCHANGED <<vars, damage>>

HeaderFromRow(row) ==
  [height |-> row.height, previous_hash |-> row.previous_hash,
   event_hashes |-> Range(row.merkle_root), proposer_id |-> row.proposer_id,
   authorities |-> row.authority_set, quorum_threshold |-> row.quorum]

\* Mutant of RootMatches: the root does not commit to the order.
RootOfTheSet(row, hashes) == Range(hashes) = Range(row.merkle_root)

RootMatches(row, hashes) == hashes = row.merkle_root

CheckHeader ==
  LET row == Head(rows)
      hashes == BlockEventHashes(row.height)
  IN  /\ check = "block" /\ rows # << >>
      /\ Found(ErrorIf(row.height # expected, "block height gap")
          \cup ErrorIf(row.previous_hash # previous, "previous hash mismatch")
          \cup ErrorIf(BlockHash(HeaderFromRow(row)) # row.block_hash, "block hash mismatch")
          \cup ErrorIf(Len(hashes) # row.event_count, "event count mismatch")
          \cup ErrorIf(~ RootMatches(row, hashes), "Merkle root mismatch"))
      /\ left' = Range(hashes)
      /\ Goto("references")
      /\ UNCHANGED <<rows, expected, previous, members, chain>>

\* Mutant of FlagDiffers: the flag and the status must agree both ways,
\* although the event's row is read later than the block's.
FlagOutOfStep(row, e) == (row.status = "finalized") # EventFinalized(e)

FlagDiffers(row, e) == row.status = "finalized" /\ ~ EventFinalized(e)

CheckReference ==
  LET e == CHOOSE e \in left : TRUE
      row == Head(rows)
  IN  /\ check = "references" /\ left # {}
      /\ Found(IF e \notin StoredEvents
                 THEN {"missing event"}
                 ELSE ErrorIf(EventHeight(e) # row.height, "inconsistent block_height")
                        \cup ErrorIf(FlagDiffers(row, e), "event not finalized"))
      /\ left' = left \ {e}
      /\ Goto("references")
      /\ UNCHANGED <<rows, expected, previous, members, chain>>

CheckAuthorities ==
  LET row == Head(rows)
  IN  /\ check = "references" /\ left = {}
      /\ members' = BlockAuthorities(row.height)
      /\ Found(ErrorIf(members' # row.authority_set, "authority snapshot mismatch"))
      /\ Goto("signatures")
      /\ UNCHANGED <<rows, left, expected, previous, chain>>

NextBlock == rows' = Tail(rows) /\ members' = Nothing

CheckSignatures ==
  LET row == Head(rows)
      signatures == BlockSignatures(row.height)
      valid == {a \in DOMAIN signatures :
                  /\ a \in DOMAIN members
                  /\ Verifies(members[a], signatures[a], row.block_hash)}
      invalid == ErrorIf(valid # DOMAIN signatures, "invalid signature")
  IN  /\ check = "signatures"
      /\ \/ /\ row.status = "finalized"
            /\ Found(invalid \cup ErrorIf(Cardinality(valid) < row.quorum,
                                          "finalized without quorum"))
            /\ previous' = row.block_hash
            /\ expected' = expected + 1
            /\ NextBlock
            /\ Goto("block")
         \/ /\ row.status # "finalized"
            /\ Found(invalid)
            /\ Goto("tip")
            /\ UNCHANGED <<rows, expected, previous, members>>
      /\ UNCHANGED <<left, chain>>

LastHeightNow == Max(StoredHeights)

\* The blocks are read again for each proposal found in the snapshot.
CheckTip ==
  /\ check = "tip"
  /\ Found(ErrorIf(Head(rows).height # LastHeightNow, "non-final block is not last"))
  /\ NextBlock
  /\ Goto("block")
  /\ UNCHANGED <<left, expected, previous, chain>>

\* The fields of an event that are checked below never change.
ReadEvents ==
  /\ check = "block" /\ rows = << >>
  /\ left' = StoredEvents
  /\ expected' = 1 /\ previous' = ZeroHash
  /\ Goto("events")
  /\ UNCHANGED <<rows, members, chain, errors>>

\* ORDER BY device_id, sequence
NextEvent ==
  LET d == DeviceOf[CHOOSE e \in left : TRUE]
  IN  CHOOSE e \in left :
         /\ DeviceOf[e] = d
         /\ \A f \in left : DeviceOf[f] = d => EventSequence(e) <= EventSequence(f)

ChainErrors(d, e) ==
  LET seen == d \in DOMAIN chain
      expectedSequence == IF seen THEN EventSequence(chain[d]) + 1 ELSE 1
      expectedPrevious == IF seen THEN chain[d] ELSE ZeroHash
  IN  ErrorIf(EventSequence(e) # expectedSequence, "unexpected sequence")
        \cup ErrorIf(EventPrevious(e) # expectedPrevious, "previous event hash mismatch")

\* unsigned_cbor keeps the sequence and the payload the device signed, and
\* the event's hash covers it and the signature.
EventErrors(d, e) ==
  ErrorIf(EventSequence(e) # SequenceOf[e], "sequence mismatch")
    \cup ErrorIf(~ PayloadAsSigned(e), "payload mismatch")
    \cup ErrorIf(EventSigner(e) # devices[d].public_key, "invalid event signature")
    \cup ErrorIf(EventSigner(e) # SignerOf[e], "event hash mismatch")

CheckEvent ==
  LET e == NextEvent
      d == DeviceOf[e]
  IN  /\ check = "events" /\ left # {}
      /\ left' = left \ {e}
      /\ \/ /\ ~ DeviceKnown(d)
            /\ Found({"unknown device"})
            /\ UNCHANGED chain
         \/ /\ DeviceKnown(d)
            /\ Found(ChainErrors(d, e) \cup EventErrors(d, e))
            /\ chain' = WithRow(chain, d, e)
      /\ Goto("events")
      /\ UNCHANGED <<rows, expected, previous, members>>

CheckpointErrors(d) ==
  ErrorIf(devices[d].last_sequence # EventSequence(chain[d]), "sequence checkpoint mismatch")
    \cup ErrorIf(devices[d].last_event_hash # chain[d], "hash checkpoint mismatch")

\* The devices are read again: only those that have events are.
CheckCheckpoint ==
  LET d == CHOOSE d \in DOMAIN chain : TRUE
  IN  /\ check = "events" /\ left = {}
      /\ chain # Nothing
      /\ Found(IF DeviceKnown(d) THEN CheckpointErrors(d) ELSE {})
      /\ chain' = [c \in DOMAIN chain \ {d} |-> chain[c]]
      /\ Goto("events")
      /\ UNCHANGED <<rows, left, expected, previous, members>>

ReadAssigned ==
  /\ check = "events" /\ left = {} /\ chain = Nothing
  /\ left' = {<<e, EventHeight(e)>> : e \in {f \in StoredEvents : EventHeight(f) # 0}}
  /\ Goto("mappings")
  /\ UNCHANGED <<rows, expected, previous, members, chain, errors>>

\* block_events keeps its rows when the row of their block is deleted.
CheckMapping ==
  LET assigned == CHOOSE pair \in left : TRUE
      mapping == {h \in DOMAIN blocks : assigned[1] \in blocks[h].header.event_hashes}
  IN  /\ check = "mappings" /\ left # {}
      /\ Found(ErrorIf(mapping # {assigned[2]}, "block mapping mismatch"))
      /\ left' = left \ {assigned}
      /\ Goto("mappings")
      /\ UNCHANGED <<rows, expected, previous, members, chain>>

Finish ==
  /\ check = "mappings" /\ left = {}
  /\ Goto("done")
  /\ UNCHANGED <<local, errors>>

VerifyStep ==
  \/ Start
  \/ CheckHeader \/ CheckReference \/ CheckAuthorities \/ CheckSignatures \/ CheckTip
  \/ ReadEvents \/ CheckEvent \/ CheckCheckpoint
  \/ ReadAssigned \/ CheckMapping \/ Finish

GatewayWrites ==
  /\ damage = Undamaged
  /\ Next
  /\ written' = (written \/ tables' # tables)
  /\ UNCHANGED <<damage, check, local, errors>>

VerifierNext == VerifyStep \/ GatewayWrites \/ Damage

VerifierSpec == VerifierInit /\ [][VerifierNext]_verifierVars

----------------------------------------------------------------------------
(* Properties *)

VerifierTypeOK ==
  /\ TypeOK
  /\ check \in {"idle", "block", "references", "signatures", "tip", "events",
                "mappings", "done"}
  /\ expected \in Nat /\ written \in BOOLEAN
  /\ DOMAIN chain \subseteq Devices
  /\ damage # Undamaged => damage.kind \in DamageKinds

\* A database nobody wrote to while it was read, and whose rows are those
\* the gateway wrote, is valid, whatever state the gateway was stopped in:
\* with a proposal open, events pending, signatures beyond the quorum
\* (verify_all; recovery_report.py:139 fails a restart otherwise).
QuietIsValid ==
  check = "done" /\ damage = Undamaged /\ ~ written => errors = {}

\* What a busy gateway can make verify_all report of a sound database is
\* only what it reads a second time: the tip after the blocks, and the
\* devices' checkpoints after the events.  Every other comparison of two
\* reads is of things that do not change or only in the direction it allows.
StaleAlarms ==
  {"non-final block is not last", "sequence checkpoint mismatch", "hash checkpoint mismatch"}

OnlyStaleAlarms == damage = Undamaged => errors \subseteq StaleAlarms

\* verify_all raises no alarm that the state of the database does not
\* explain (ledger.py:380-490).
VerifierInv == VerifierTypeOK /\ QuietIsValid /\ OnlyStaleAlarms

\* Each of the damages that were tried (TamperCases), to any row of any database
\* the gateway can leave behind, is reported: a single comparison that verify_all left out, or made
\* against the damaged copy, would let one of them through.
DamageIsFound == check = "done" /\ damage # Undamaged => errors # {}

\* "The gateway chain detects: deleted or altered database rows"
\* (README.md:46-48), here for the rows of blocks.
BlockLossIsFound ==
  check = "done" /\ damage # Undamaged /\ damage.kind = "block_row_deleted"
    => errors # {}
=============================================================================
