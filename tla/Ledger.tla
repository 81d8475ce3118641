------------------------------- MODULE Ledger -------------------------------
(***************************************************************************)
(* EdgeChainLedger (edgechaindb/ledger.py) over the tables of Store, used   *)
(* by several callers at once and without any lock: threads of one gateway, *)
(* or processes that share the database file.                              *)
(*                                                                         *)
(* propose_block reads the open proposal, the authorities, the pending     *)
(* events and the last finalized block one after the other, each read on a *)
(* connection of its own, and only then runs the create_proposal           *)
(* transaction.  Whatever the other callers commit in between makes what   *)
(* it read stale.                                                          *)
(***************************************************************************)
EXTENDS Store

CONSTANTS
  Callers,       \* callers of propose_block
  NodeOf,        \* caller -> the authority it proposes as
  NodeKeyOf,     \* caller -> the private key it proposes with
  QuorumOf,      \* caller -> quorum_threshold of its EdgeChainLedger
  DeviceKeys,    \* device -> the keys an enrolment of it may present
  AuthorityKeys  \* authority -> the keys a registration of it may present

ASSUME CallerConfig ==
  /\ NodeOf \in [Callers -> Authorities]
  /\ NodeKeyOf \in [Callers -> Keys]
  /\ QuorumOf \in [Callers -> Nat \ {0}]
  /\ DeviceKeys \in [Devices -> SUBSET Keys]
  /\ AuthorityKeys \in [Authorities -> SUBSET Keys]

VARIABLES
  pc,            \* caller -> the next step of its propose_block, or "idle"
  draft          \* caller -> what its propose_block has read so far

vars == <<devices, authorities, events, blocks, pc, draft>>

EmptyDraft ==
  [authorities |-> [a \in {} |-> ZeroHash], event_hashes |-> {},
   height |-> 0, previous_hash |-> ZeroHash]

Init ==
  /\ StoreInit
  /\ pc = [p \in Callers |-> "idle"]
  /\ draft = [p \in Callers |-> EmptyDraft]

----------------------------------------------------------------------------
(* Enrolment and acceptance.  No row of devices or authorities changes its  *)
(* key, so the read of the device before the transaction cannot be stale.   *)

EnrollDevice(d) ==
  /\ \E key \in DeviceKeys[d] : RegisterDevice(d, key)
  /\ UNCHANGED <<pc, draft>>

EnrollAuthority(a) ==
  /\ \E key \in AuthorityKeys[a] : RegisterAuthority(a, key)
  /\ UNCHANGED <<pc, draft>>

SignedByDevice(e) == SignerOf[e] = devices[DeviceOf[e]].public_key

AcceptEvent(e) ==
  /\ SequenceOf[e] >= 1
  /\ DeviceOf[e] \in DOMAIN devices
  /\ SignedByDevice(e)
  /\ InsertVerifiedEvent(e)
  /\ UNCHANGED <<pc, draft>>

----------------------------------------------------------------------------
(* propose_block, one step for each visit to the database. *)

CheckNoOpenBlock(p) ==
  /\ pc[p] = "idle"
  /\ OpenHeights = {}
  /\ pc' = [pc EXCEPT ![p] = "snapshot"]
  /\ UNCHANGED <<tables, draft>>

\* Mutant of EnoughAuthorities: any snapshot is good enough.
SomeAuthority(p) == DOMAIN authorities # {}

\* Another: off by one.
MoreThanEnough(p) == Cardinality(DOMAIN authorities) > QuorumOf[p]

EnoughAuthorities(p) == Cardinality(DOMAIN authorities) >= QuorumOf[p]

MayPropose(p) ==
  /\ NodeOf[p] \in DOMAIN authorities
  /\ NodeKeyOf[p] = authorities[NodeOf[p]]

TakeSnapshot(p) ==
  /\ pc[p] = "snapshot"
  /\ EnoughAuthorities(p)
  /\ MayPropose(p)
  /\ pc' = [pc EXCEPT ![p] = "select"]
  /\ draft' = [draft EXCEPT ![p].authorities = authorities]
  /\ UNCHANGED tables

\* The oldest max_events pending events.  received_at_ms is read before the
\* event's transaction and ties are broken by hash, so for some max_events
\* any non-empty set of pending events can be the one selected.
SelectPending(p) ==
  /\ pc[p] = "select"
  /\ \E selected \in (SUBSET Pending) \ {{}} :
        draft' = [draft EXCEPT ![p].event_hashes = selected]
  /\ pc' = [pc EXCEPT ![p] = "link"]
  /\ UNCHANGED tables

\* Mutant of NextHeight: the height of the block below.
LastHeight == LastFinalizedHeight

NextHeight == LastFinalizedHeight + 1

TipHash ==
  IF FinalizedHeights = {} THEN ZeroHash
                           ELSE BlockHash(blocks[LastFinalizedHeight].header)

LinkToPrevious(p) ==
  /\ pc[p] = "link"
  /\ pc' = [pc EXCEPT ![p] = "create"]
  /\ draft' = [draft EXCEPT ![p].height = NextHeight, ![p].previous_hash = TipHash]
  /\ UNCHANGED tables

Header(p) ==
  [height           |-> draft[p].height,
   previous_hash    |-> draft[p].previous_hash,
   event_hashes     |-> draft[p].event_hashes,
   proposer_id      |-> NodeOf[p],
   authorities      |-> draft[p].authorities,
   quorum_threshold |-> QuorumOf[p]]

Propose(p) ==
  /\ pc[p] = "create"
  /\ CreateProposal(Header(p))
  /\ pc' = [pc EXCEPT ![p] = "sign"]
  /\ UNCHANGED draft

Return(p) ==
  /\ pc' = [pc EXCEPT ![p] = "idle"]
  /\ draft' = [draft EXCEPT ![p] = EmptyDraft]

\* The proposer's own sign_block, at the end of propose_block.
SignOwn(p) ==
  LET h == draft[p].height
  IN  /\ pc[p] = "sign"
      /\ NodeKeyOf[p] = Members(h)[NodeOf[p]]
      /\ \/ InsertBlockSignature(h, NodeOf[p],
                                 Signature(NodeKeyOf[p], BlockHash(blocks[h].header)))
         \/ /\ h \in FinalizedHeights
            /\ NodeOf[p] \in DOMAIN blocks[h].signatures
            /\ UNCHANGED tables
      /\ Return(p)

\* propose_block raises: too few authorities or a key that is not the
\* proposer's, nothing pending, or a draft the transaction refuses.
Refused(p) ==
  \/ pc[p] = "snapshot" /\ ~ (EnoughAuthorities(p) /\ MayPropose(p))
  \/ pc[p] = "select" /\ Pending = {}
  \/ pc[p] = "create" /\ ~ Proposable(Header(p))

Raise(p) ==
  /\ Refused(p)
  /\ Return(p)
  /\ UNCHANGED tables

\* The caller dies, or SQLite gives up on a lock, between two of its visits.
Abandon(p) ==
  /\ pc[p] # "idle"
  /\ Return(p)
  /\ UNCHANGED tables

----------------------------------------------------------------------------
(* Signatures of other authorities, at any time after the proposal. *)

SignBlock(h, a, key) ==
  /\ a \in DOMAIN Members(h)
  /\ key = Members(h)[a]
  /\ InsertBlockSignature(h, a, Signature(key, BlockHash(blocks[h].header)))
  /\ UNCHANGED <<pc, draft>>

AddExternalSignature(h, a, signature) ==
  /\ a \in DOMAIN Members(h)
  /\ Verifies(Members(h)[a], signature, BlockHash(blocks[h].header))
  /\ InsertBlockSignature(h, a, signature)
  /\ UNCHANGED <<pc, draft>>

\* Signatures an authority can present: over any block that was published.
PublishedSignatures ==
  {Signature(key, BlockHash(blocks[h].header)) : key \in Keys, h \in DOMAIN blocks}

CallerStep(p) ==
  \/ CheckNoOpenBlock(p)
  \/ TakeSnapshot(p)
  \/ SelectPending(p)
  \/ LinkToPrevious(p)
  \/ Propose(p)
  \/ SignOwn(p)
  \/ Raise(p)

Next ==
  \/ \E d \in Devices : EnrollDevice(d)
  \/ \E a \in Authorities : EnrollAuthority(a)
  \/ \E e \in Events : AcceptEvent(e)
  \/ \E p \in Callers : CallerStep(p)
  \/ \E p \in Callers : Abandon(p)
  \/ \E h \in DOMAIN blocks, a \in Authorities, key \in Keys : SignBlock(h, a, key)
  \/ \E h \in DOMAIN blocks, a \in Authorities, signature \in PublishedSignatures :
        AddExternalSignature(h, a, signature)

Spec == Init /\ [][Next]_vars

----------------------------------------------------------------------------
(* Types *)

HashOrZero == Events \cup {ZeroHash}

Snapshots == UNION {[A -> Keys] : A \in SUBSET Authorities}

EventRows == [block_height : Nat, finalized : BOOLEAN]

DeviceRows == [public_key : Keys, last_sequence : Nat, last_event_hash : HashOrZero]

TablesTypeOK ==
  /\ DOMAIN devices \subseteq Devices
  /\ devices \in [DOMAIN devices -> DeviceRows]
  /\ authorities \in Snapshots
  /\ DOMAIN events \subseteq Events
  /\ events \in [DOMAIN events -> EventRows]
  /\ DOMAIN blocks \subseteq Nat \ {0}
  /\ IsFiniteSet(DOMAIN blocks)
  /\ blocks = [h \in DOMAIN blocks |-> [header     |-> blocks[h].header,
                                        status     |-> blocks[h].status,
                                        signatures |-> blocks[h].signatures]]
  /\ \A h \in DOMAIN blocks :
        /\ blocks[h].header.event_hashes \in (SUBSET Events) \ {{}}
        /\ blocks[h].header.proposer_id \in Authorities
        /\ blocks[h].header.authorities \in Snapshots
        /\ blocks[h].header.quorum_threshold \in Nat \ {0}
        /\ blocks[h].status \in {"proposed", "finalized"}
        /\ DOMAIN blocks[h].signatures \subseteq Authorities

CallersTypeOK ==
  /\ pc \in [Callers -> {"idle", "snapshot", "select", "link", "create", "sign"}]
  /\ draft = [p \in Callers |-> [authorities   |-> draft[p].authorities,
                                 event_hashes  |-> draft[p].event_hashes,
                                 height        |-> draft[p].height,
                                 previous_hash |-> draft[p].previous_hash]]
  /\ \A p \in Callers :
        /\ draft[p].authorities \in Snapshots
        /\ draft[p].event_hashes \subseteq Events
        /\ draft[p].height \in Nat

\* Rows and drafts have the fields and ranges the schema declares (a
\* previous_hash, being the hash of a whole header, is left to ChainLinked).
\* SCHEMA in store.py; a height that is not positive breaks it.
TypeOK == TablesTypeOK /\ CallersTypeOK

----------------------------------------------------------------------------
(* Safety *)

\* The blocks are numbered from 1 without a gap, each names the hash of the
\* one below it, and only the highest may still be a proposal, whatever the
\* proposers read and however stale it was ("A proposal is allowed only as
\* the final row", ledger.py:391).
ChainLinked ==
  /\ FinalizedHeights = 1 .. Cardinality(FinalizedHeights)
  /\ \A h \in DOMAIN blocks :
        /\ blocks[h].header.height = h
        /\ h = 1 => blocks[h].header.previous_hash = ZeroHash
        /\ h > 1 => /\ h - 1 \in FinalizedHeights
                    /\ blocks[h].header.previous_hash
                         = BlockHash(blocks[h - 1].header)

\* A block is final exactly when as many authorities as its own threshold
\* asks have signed it, each one of its snapshot, with the key it has there,
\* over this block's hash (insert_block_signature, add_external_signature).
QuorumIsFinality ==
  \A h \in DOMAIN blocks :
     /\ blocks[h].status = "finalized"
          <=> Cardinality(DOMAIN blocks[h].signatures)
                >= blocks[h].header.quorum_threshold
     /\ \A a \in DOMAIN blocks[h].signatures :
           /\ a \in DOMAIN Members(h)
           /\ blocks[h].signatures[a]
                = Signature(Members(h)[a], BlockHash(blocks[h].header))

\* No proposal is born that its own snapshot could never finalize: it has as
\* many members as its threshold, and their keys are the registered ones
\* (_authority_snapshot, read long before the proposal is written).
QuorumReachable ==
  \A h \in DOMAIN blocks :
     /\ Cardinality(DOMAIN Members(h)) >= blocks[h].header.quorum_threshold
     /\ \A a \in DOMAIN Members(h) :
           a \in DOMAIN authorities /\ Members(h)[a] = authorities[a]

\* events.block_height, block_events and the finalized flag tell one story:
\* an event is in the block it names and in no other, and it is final exactly
\* when that block is (the mapping verify_all re-checks, ledger.py:459-478).
EventsMatchBlocks ==
  /\ \A e \in DOMAIN events :
        /\ \A h \in DOMAIN blocks :
              e \in blocks[h].header.event_hashes <=> events[e].block_height = h
        /\ events[e].block_height # 0 => events[e].block_height \in DOMAIN blocks
        /\ events[e].finalized <=> events[e].block_height \in FinalizedHeights
  /\ \A h \in DOMAIN blocks : blocks[h].header.event_hashes \subseteq DOMAIN events

Stored(d) == {e \in DOMAIN events : DeviceOf[e] = d}

\* What the gateway holds of a device is one unbroken chain of events the
\* device's enrolled key signed, numbered 1 .. last_sequence and each naming
\* its predecessor's hash, and the checkpoint is the chain's end, in spite of
\* forked, forged, repeated and reordered submissions (accept_event).
DeviceChains ==
  /\ \A e \in DOMAIN events : DeviceOf[e] \in DOMAIN devices
  /\ \A d \in DOMAIN devices :
        /\ \A e \in Stored(d) :
              /\ SignerOf[e] = devices[d].public_key
              /\ SequenceOf[e] \in 1 .. devices[d].last_sequence
              /\ SequenceOf[e] = 1 => PreviousOf[e] = ZeroHash
              /\ SequenceOf[e] > 1 =>
                    /\ PreviousOf[e] \in Stored(d)
                    /\ SequenceOf[PreviousOf[e]] = SequenceOf[e] - 1
        /\ \A e, f \in Stored(d) : SequenceOf[e] = SequenceOf[f] => e = f
        /\ \A i \in 1 .. devices[d].last_sequence : \E e \in Stored(d) : SequenceOf[e] = i
        /\ devices[d].last_sequence = 0 => devices[d].last_event_hash = ZeroHash
        /\ devices[d].last_sequence > 0 =>
              /\ devices[d].last_event_hash \in Stored(d)
              /\ SequenceOf[devices[d].last_event_hash] = devices[d].last_sequence

DraftSound(p) ==
  /\ pc[p] \in {"select", "link", "create"} =>
        /\ Cardinality(DOMAIN draft[p].authorities) >= QuorumOf[p]
        /\ \A a \in DOMAIN draft[p].authorities :
              /\ a \in DOMAIN authorities
              /\ draft[p].authorities[a] = authorities[a]
  /\ pc[p] \in {"link", "create"} =>
        /\ draft[p].event_hashes # {}
        /\ draft[p].event_hashes \subseteq DOMAIN events
  /\ pc[p] = "create" =>
        /\ draft[p].height > 0
        /\ draft[p].height = 1 => draft[p].previous_hash = ZeroHash
        /\ draft[p].height > 1 =>
              /\ draft[p].height - 1 \in FinalizedHeights
              /\ draft[p].previous_hash
                   = BlockHash(blocks[draft[p].height - 1].header)

\* What a proposer has read may be stale but is never wrong: its snapshot
\* still holds enrolled authorities with their keys, enough for its quorum;
\* the events it selected are still stored; and the block it means to extend
\* is still final, so only the height tells the transaction that a block has
\* been added since (propose_block up to its call of create_proposal).
DraftsSound == \A p \in Callers : DraftSound(p)

\* The inductive invariant: what holds of the tables, and of the callers.
TablesInv ==
  /\ TablesTypeOK
  /\ ChainLinked
  /\ QuorumIsFinality
  /\ QuorumReachable
  /\ EventsMatchBlocks
  /\ DeviceChains

LedgerInv ==
  /\ TablesInv
  /\ CallersTypeOK
  /\ DraftsSound

----------------------------------------------------------------------------
(* What no step may do *)

\* A published header never changes, a final block stays final, a recorded
\* signature stays, and an event never leaves the block it was sealed in:
\* the ledger only grows (create_proposal, insert_block_signature).
NothingIsUndone ==
  /\ \A h \in DOMAIN blocks :
        /\ h \in DOMAIN blocks'
        /\ blocks'[h].header = blocks[h].header
        /\ blocks[h].status = "finalized" => blocks'[h].status = "finalized"
        /\ \A a \in DOMAIN blocks[h].signatures :
              /\ a \in DOMAIN blocks'[h].signatures
              /\ blocks'[h].signatures[a] = blocks[h].signatures[a]
  /\ \A e \in DOMAIN events :
        /\ e \in DOMAIN events'
        /\ events[e].block_height # 0 =>
              events'[e].block_height = events[e].block_height
        /\ events[e].finalized => events'[e].finalized

OnlyGrows == [][NothingIsUndone]_vars
=============================================================================
