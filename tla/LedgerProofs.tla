---------------------------- MODULE LedgerProofs ---------------------------
(***************************************************************************)
(* The safety of Ledger, for all values of the constants.                  *)
(*                                                                         *)
(* First what each transaction of Store does to the invariant of the        *)
(* tables, then that every step of Ledger is one of those transactions or   *)
(* none, then that what the callers have read stays sound, and from these   *)
(* the inductive invariant and the theorems.                               *)
(***************************************************************************)
EXTENDS LedgerRefinement, Sequences, FiniteSetTheorems, TLAPS

\* The empty database, with every caller idle, satisfies the invariant.
LEMMA InitInv == Init => LedgerInv
<1> SUFFICES ASSUME Init PROVE LedgerInv
  OBVIOUS
<1> USE CallerConfig DEF Init, StoreInit
<1>1. /\ DOMAIN devices = {} /\ DOMAIN authorities = {}
      /\ DOMAIN events = {} /\ DOMAIN blocks = {}
  OBVIOUS
<1>2. TablesTypeOK /\ CallersTypeOK
  <2>1. authorities \in Snapshots
    <3>1. {} \in SUBSET Authorities /\ authorities \in [{} -> Keys]
      BY <1>1
    <3> QED BY <3>1 DEF Snapshots
  <2>2. EmptyDraft.authorities \in Snapshots
    BY <2>1 DEF EmptyDraft
  <2>3. IsFiniteSet(DOMAIN blocks)
    BY <1>1, FS_EmptySet
  <2>4. \A p \in Callers : draft[p] = EmptyDraft
    OBVIOUS
  <2>5. devices \in [DOMAIN devices -> DeviceRows] /\ events \in [DOMAIN events -> EventRows]
    BY <1>1
  <2>6. blocks = [h \in DOMAIN blocks |-> [header     |-> blocks[h].header,
                                        status     |-> blocks[h].status,
                                        signatures |-> blocks[h].signatures]]
    BY <1>1
  <2>7. pc \in [Callers -> {"idle", "snapshot", "select", "link", "create", "sign"}]
    OBVIOUS
  <2>8. draft = [p \in Callers |-> [authorities   |-> draft[p].authorities,
                                 event_hashes  |-> draft[p].event_hashes,
                                 height        |-> draft[p].height,
                                 previous_hash |-> draft[p].previous_hash]]
    BY <2>4 DEF EmptyDraft
  <2>9. \A p \in Callers :
        /\ draft[p].authorities \in Snapshots
        /\ draft[p].event_hashes \subseteq Events
        /\ draft[p].height \in Nat
    BY <2>2, <2>4 DEF EmptyDraft
  <2> QED BY <1>1, <2>1, <2>3, <2>5, <2>6, <2>7, <2>8, <2>9 DEF TablesTypeOK, CallersTypeOK
<1>3. FinalizedHeights = {} /\ FinalizedHeights = 1 .. Cardinality(FinalizedHeights)
  BY <1>1, FS_EmptySet DEF FinalizedHeights
<1>4. ChainLinked /\ QuorumIsFinality /\ QuorumReachable
  BY <1>1, <1>3 DEF ChainLinked, QuorumIsFinality, QuorumReachable
<1>5. EventsMatchBlocks /\ DeviceChains
  BY <1>1 DEF EventsMatchBlocks, DeviceChains
<1>6. DraftsSound
  BY DEF DraftsSound, DraftSound
<1> QED BY <1>2, <1>4, <1>5, <1>6 DEF LedgerInv, TablesInv

\* A snapshot has finitely many members, and each has a key.
LEMMA SnapshotType ==
  ASSUME NEW S \in Snapshots
  PROVE  /\ DOMAIN S \subseteq Authorities
         /\ IsFiniteSet(DOMAIN S)
         /\ S \in [DOMAIN S -> Keys]
<1>1. PICK A \in SUBSET Authorities : S \in [A -> Keys]
  BY DEF Snapshots
<1>2. DOMAIN S = A
  BY <1>1
<1> QED BY <1>1, <1>2, FiniteAuthorities, FS_Subset

\* The finalized blocks are the first n, so the last of them is number n.
LEMMA Tip ==
  ASSUME TablesTypeOK, ChainLinked
  PROVE  /\ LastFinalizedHeight \in Nat
         /\ FinalizedHeights = 1 .. LastFinalizedHeight
<1> DEFINE n == Cardinality(FinalizedHeights)
<1>1. IsFiniteSet(FinalizedHeights)
  BY FS_Subset DEF TablesTypeOK, FinalizedHeights
<1>2. n \in Nat /\ FinalizedHeights = 1 .. n
  BY <1>1, FS_CardinalityType DEF ChainLinked
<1> HIDE DEF n
<1>3. CASE FinalizedHeights = {}
  <2>1. n = 0
    BY <1>2, <1>3
  <2> QED BY <2>1, <1>2, <1>3 DEF LastFinalizedHeight
<1>4. CASE FinalizedHeights # {}
  <2>1. n \in FinalizedHeights /\ \A k \in FinalizedHeights : n >= k
    BY <1>2, <1>4
  <2>2. Max(FinalizedHeights) = n
    BY <2>1, <1>2 DEF Max
  <2> QED BY <2>2, <1>2, <1>4 DEF LastFinalizedHeight
<1> QED BY <1>3, <1>4

----------------------------------------------------------------------------
(* What each transaction does to the invariant of the tables. *)

\* register_device: a new device has an empty chain.
LEMMA RegisterDeviceStep ==
  ASSUME TablesInv, NEW d \in Devices, NEW key \in Keys, RegisterDevice(d, key)
  PROVE  TablesInv' /\ NothingIsUndone
<1> DEFINE row == [public_key |-> key, last_sequence |-> 0, last_event_hash |-> ZeroHash]
<1>1. /\ DOMAIN devices' = DOMAIN devices \cup {d}
      /\ devices'[d] = row
      /\ \A c \in DOMAIN devices : c # d /\ devices'[c] = devices[c]
      /\ d \notin DOMAIN devices
      /\ UNCHANGED <<authorities, events, blocks>>
  BY DEF RegisterDevice, WithRow
<1>2. TablesTypeOK'
  <2>1. devices' \in [DOMAIN devices' -> DeviceRows]
    <3>1. row \in DeviceRows
      BY DEF DeviceRows, HashOrZero
    <3>2. devices' = WithRow(devices, d, row)
      BY DEF RegisterDevice
    <3> HIDE DEF row
    <3> QED BY <3>1, <3>2, <1>1 DEF WithRow, TablesInv, TablesTypeOK
  <2> QED BY <2>1, <1>1 DEF TablesInv, TablesTypeOK
<1>3. ChainLinked' /\ QuorumIsFinality' /\ QuorumReachable' /\ EventsMatchBlocks'
  BY <1>1 DEF TablesInv, ChainLinked, QuorumIsFinality, QuorumReachable,
              EventsMatchBlocks, FinalizedHeights, Members
<1>4. DeviceChains'
  <2>1. Stored(d) = {}
    BY <1>1 DEF TablesInv, DeviceChains, Stored
  <2>2. \A c \in Devices : Stored(c)' = Stored(c)
    BY <1>1 DEF Stored
  <2> QED BY <1>1, <2>1, <2>2 DEF TablesInv, TablesTypeOK, DeviceChains
<1>5. NothingIsUndone
  BY <1>1 DEF NothingIsUndone
<1> QED BY <1>2, <1>3, <1>4, <1>5 DEF TablesInv

\* register_authority: the snapshots of old blocks still name registered keys.
LEMMA RegisterAuthorityStep ==
  ASSUME TablesInv, NEW a \in Authorities, NEW key \in Keys, RegisterAuthority(a, key)
  PROVE  TablesInv' /\ NothingIsUndone
<1>1. /\ DOMAIN authorities' = DOMAIN authorities \cup {a}
      /\ authorities'[a] = key
      /\ \A c \in DOMAIN authorities : c # a /\ authorities'[c] = authorities[c]
      /\ authorities' = WithRow(authorities, a, key)
      /\ UNCHANGED <<devices, events, blocks>>
  BY DEF RegisterAuthority, WithRow
<1>2. TablesTypeOK'
  <2>1. authorities' \in Snapshots
    <3>1. /\ DOMAIN authorities \subseteq Authorities
          /\ authorities \in [DOMAIN authorities -> Keys]
      BY SnapshotType DEF TablesInv, TablesTypeOK
    <3>2. authorities' \in [DOMAIN authorities \cup {a} -> Keys]
      BY <1>1, <3>1 DEF WithRow
    <3>3. DOMAIN authorities \cup {a} \in SUBSET Authorities
      BY <3>1
    <3> QED BY <3>2, <3>3 DEF Snapshots
  <2> QED BY <2>1, <1>1 DEF TablesInv, TablesTypeOK
<1>3. ChainLinked' /\ QuorumIsFinality' /\ EventsMatchBlocks' /\ DeviceChains'
  BY <1>1 DEF TablesInv, ChainLinked, QuorumIsFinality, DeviceChains, Stored,
              EventsMatchBlocks, FinalizedHeights, Members
<1>4. QuorumReachable'
  BY <1>1 DEF TablesInv, QuorumReachable, Members
<1>5. NothingIsUndone
  BY <1>1 DEF NothingIsUndone
<1> QED BY <1>2, <1>3, <1>4, <1>5 DEF TablesInv

\* insert_verified_event: the event becomes the end of its device's chain, and
\* is in no block yet.
LEMMA InsertVerifiedEventStep ==
  ASSUME TablesInv, NEW e \in Events, SequenceOf[e] >= 1, SignedByDevice(e),
         InsertVerifiedEvent(e)
  PROVE  TablesInv' /\ NothingIsUndone
<1> DEFINE row == [block_height |-> 0, finalized |-> FALSE]
           d == DeviceOf[e]
<1>1. /\ DOMAIN events' = DOMAIN events \cup {e}
      /\ events'[e] = row
      /\ \A f \in DOMAIN events : f # e /\ events'[f] = events[f]
      /\ UNCHANGED <<authorities, blocks>>
  BY DEF InsertVerifiedEvent, WithRow
<1>2. /\ d \in DOMAIN devices /\ d \in Devices
      /\ SequenceOf[e] \in Nat
      /\ SequenceOf[e] = devices[d].last_sequence + 1
      /\ PreviousOf[e] = devices[d].last_event_hash
  BY EventFields DEF InsertVerifiedEvent, NextInSequence, ContinuesChain
<1>3. /\ DOMAIN devices' = DOMAIN devices
      /\ \A c \in DOMAIN devices :
            /\ devices'[c].public_key = devices[c].public_key
            /\ c # d => devices'[c] = devices[c]
      /\ devices'[d].last_sequence = SequenceOf[e]
      /\ devices'[d].last_event_hash = e
      /\ devices' \in [DOMAIN devices -> DeviceRows]
  <2>1. devices' = [devices EXCEPT ![d].last_sequence = SequenceOf[e],
                                   ![d].last_event_hash = e]
    BY DEF InsertVerifiedEvent
  <2>2. devices \in [DOMAIN devices -> DeviceRows]
    BY DEF TablesInv, TablesTypeOK
  <2>3. SequenceOf[e] \in Nat /\ e \in HashOrZero
    BY <1>2 DEF HashOrZero
  <2> HIDE DEF d
  <2> QED BY <2>1, <2>2, <2>3, <1>2 DEF DeviceRows
<1>4. TablesTypeOK'
  <2>1. events' \in [DOMAIN events' -> EventRows]
    <3>1. row \in EventRows
      BY DEF EventRows
    <3>2. events' = WithRow(events, e, row)
      BY DEF InsertVerifiedEvent
    <3> HIDE DEF row
    <3> QED BY <3>1, <3>2, <1>1 DEF WithRow, TablesInv, TablesTypeOK
  <2> QED BY <2>1, <1>1, <1>3 DEF TablesInv, TablesTypeOK
<1>5. ChainLinked' /\ QuorumIsFinality' /\ QuorumReachable'
  BY <1>1 DEF TablesInv, ChainLinked, QuorumIsFinality, QuorumReachable,
              FinalizedHeights, Members
<1>6. EventsMatchBlocks'
  <2>1. 0 \notin DOMAIN blocks /\ 0 \notin FinalizedHeights
    BY DEF TablesInv, TablesTypeOK, FinalizedHeights
  <2>2. \A h \in DOMAIN blocks : e \notin blocks[h].header.event_hashes
    BY DEF TablesInv, EventsMatchBlocks, InsertVerifiedEvent
  <2>3. FinalizedHeights' = FinalizedHeights
    BY <1>1 DEF FinalizedHeights
  <2> QED BY <2>1, <2>2, <2>3, <1>1 DEF TablesInv, EventsMatchBlocks
<1>7. DeviceChains'
  <2>1. \A f \in DOMAIN events : DeviceOf[f] \in DOMAIN devices
    BY DEF TablesInv, DeviceChains
  <2>2. \A c \in DOMAIN devices : c # d => Stored(c)' = Stored(c)
    BY <1>1 DEF Stored
  <2>3. Stored(d)' = Stored(d) \cup {e}
    BY <1>1 DEF Stored
  <2>4. \A f \in Stored(d) : SequenceOf[f] \in 1 .. devices[d].last_sequence
    BY <1>2 DEF TablesInv, DeviceChains
  <2>5. /\ devices[d].last_sequence \in Nat
        /\ devices[d].last_sequence = 0 => PreviousOf[e] = ZeroHash
        /\ devices[d].last_sequence > 0 =>
              /\ PreviousOf[e] \in Stored(d)
              /\ SequenceOf[PreviousOf[e]] = SequenceOf[e] - 1
    <3>1. devices[d].last_sequence \in Nat
      BY <1>2 DEF TablesInv, TablesTypeOK, DeviceRows
    <3>2. /\ devices[d].last_sequence = 0 => devices[d].last_event_hash = ZeroHash
          /\ devices[d].last_sequence > 0 =>
                /\ devices[d].last_event_hash \in Stored(d)
                /\ SequenceOf[devices[d].last_event_hash] = devices[d].last_sequence
      BY <1>2 DEF TablesInv, DeviceChains
    <3> QED BY <3>1, <3>2, <1>2
  <2>6. ASSUME NEW c \in DOMAIN devices, c # d
        PROVE  /\ \A f \in Stored(c)' :
                    /\ SignerOf[f] = devices'[c].public_key
                    /\ SequenceOf[f] \in 1 .. devices'[c].last_sequence
                    /\ SequenceOf[f] = 1 => PreviousOf[f] = ZeroHash
                    /\ SequenceOf[f] > 1 =>
                          /\ PreviousOf[f] \in Stored(c)'
                          /\ SequenceOf[PreviousOf[f]] = SequenceOf[f] - 1
               /\ \A f, g \in Stored(c)' : SequenceOf[f] = SequenceOf[g] => f = g
               /\ \A i \in 1 .. devices'[c].last_sequence :
                     \E f \in Stored(c)' : SequenceOf[f] = i
               /\ devices'[c].last_sequence = 0 => devices'[c].last_event_hash = ZeroHash
               /\ devices'[c].last_sequence > 0 =>
                     /\ devices'[c].last_event_hash \in Stored(c)'
                     /\ SequenceOf[devices'[c].last_event_hash] = devices'[c].last_sequence
    BY <2>2, <2>6, <1>3 DEF TablesInv, DeviceChains
  <2>7. \A f \in Stored(d)' :
           /\ SignerOf[f] = devices'[d].public_key
           /\ SequenceOf[f] \in 1 .. devices'[d].last_sequence
           /\ SequenceOf[f] = 1 => PreviousOf[f] = ZeroHash
           /\ SequenceOf[f] > 1 =>
                 /\ PreviousOf[f] \in Stored(d)'
                 /\ SequenceOf[PreviousOf[f]] = SequenceOf[f] - 1
    <3> TAKE f \in Stored(d)'
    <3>1. CASE f = e
      BY <3>1, <2>3, <2>5, <1>2, <1>3 DEF SignedByDevice
    <3>2. CASE f \in Stored(d)
      <4>1. /\ SignerOf[f] = devices[d].public_key
            /\ SequenceOf[f] \in 1 .. devices[d].last_sequence
            /\ SequenceOf[f] = 1 => PreviousOf[f] = ZeroHash
            /\ SequenceOf[f] > 1 =>
                  /\ PreviousOf[f] \in Stored(d)
                  /\ SequenceOf[PreviousOf[f]] = SequenceOf[f] - 1
        BY <3>2, <1>2 DEF TablesInv, DeviceChains
      <4> QED BY <4>1, <2>3, <2>5, <1>2, <1>3
    <3> QED BY <3>1, <3>2, <2>3
  <2>8. \A f, g \in Stored(d)' : SequenceOf[f] = SequenceOf[g] => f = g
    <3>1. \A f, g \in Stored(d) : SequenceOf[f] = SequenceOf[g] => f = g
      BY <1>2 DEF TablesInv, DeviceChains
    <3> QED BY <3>1, <2>3, <2>4, <2>5, <1>2
  <2>9. /\ devices'[d].last_sequence # 0
        /\ devices'[d].last_event_hash \in Stored(d)'
        /\ SequenceOf[devices'[d].last_event_hash] = devices'[d].last_sequence
    BY <1>2, <1>3, <2>3, <2>5
  <2>10. \A i \in 1 .. devices'[d].last_sequence : \E f \in Stored(d)' : SequenceOf[f] = i
    <3>1. \A i \in 1 .. devices[d].last_sequence : \E f \in Stored(d) : SequenceOf[f] = i
      BY <1>2 DEF TablesInv, DeviceChains
    <3>2. \A i \in 1 .. devices'[d].last_sequence :
             i = SequenceOf[e] \/ i \in 1 .. devices[d].last_sequence
      BY <2>5, <1>2, <1>3
    <3> QED BY <3>1, <3>2, <2>3
  <2> QED BY <2>1, <2>6, <2>7, <2>8, <2>9, <2>10, <1>1, <1>2, <1>3 DEF DeviceChains
<1>8. NothingIsUndone
  BY <1>1 DEF NothingIsUndone
<1> QED BY <1>4, <1>5, <1>6, <1>7, <1>8 DEF TablesInv

\* create_proposal: the row joins the top of the chain, although its header was
\* made from stale reads, and its events leave the pending ones.
LEMMA CreateProposalStep ==
  ASSUME TablesInv, DraftsSound, CallersTypeOK,
         NEW p \in Callers, pc[p] = "create", CreateProposal(Header(p))
  PROVE  TablesInv' /\ NothingIsUndone
<1> DEFINE header == Header(p)
           h == header.height
           hashes == header.event_hashes
<1>1. /\ header.height = draft[p].height
      /\ header.previous_hash = draft[p].previous_hash
      /\ header.event_hashes = draft[p].event_hashes
      /\ header.proposer_id = NodeOf[p]
      /\ header.authorities = draft[p].authorities
      /\ header.quorum_threshold = QuorumOf[p]
  BY DEF Header
<1>2. /\ h \in Nat \ {0}
      /\ h = 1 => header.previous_hash = ZeroHash
      /\ h > 1 => /\ h - 1 \in FinalizedHeights
                  /\ header.previous_hash = BlockHash(blocks[h - 1].header)
      /\ hashes \in (SUBSET Events) \ {{}}
      /\ header.proposer_id \in Authorities
      /\ header.quorum_threshold \in Nat \ {0}
      /\ header.authorities \in Snapshots
      /\ Cardinality(DOMAIN header.authorities) >= header.quorum_threshold
      /\ \A a \in DOMAIN header.authorities :
            a \in DOMAIN authorities /\ header.authorities[a] = authorities[a]
  <2>1. /\ draft[p].height \in Nat
        /\ draft[p].event_hashes \subseteq Events
        /\ draft[p].authorities \in Snapshots
    BY DEF CallersTypeOK
  <2>2. /\ Cardinality(DOMAIN draft[p].authorities) >= QuorumOf[p]
        /\ \A a \in DOMAIN draft[p].authorities :
              /\ a \in DOMAIN authorities
              /\ draft[p].authorities[a] = authorities[a]
        /\ draft[p].event_hashes # {}
        /\ draft[p].height > 0
        /\ draft[p].height = 1 => draft[p].previous_hash = ZeroHash
        /\ draft[p].height > 1 =>
              /\ draft[p].height - 1 \in FinalizedHeights
              /\ draft[p].previous_hash = BlockHash(blocks[draft[p].height - 1].header)
    BY DEF DraftsSound, DraftSound
  <2>3. NodeOf[p] \in Authorities /\ QuorumOf[p] \in Nat \ {0}
    BY CallerConfig
  <2> HIDE DEF header
  <2> QED BY <1>1, <2>1, <2>2, <2>3
<1> HIDE DEF header
<1>3. /\ hashes \subseteq Pending
      /\ h \notin DOMAIN blocks
      /\ \A k \in DOMAIN blocks : blocks[k].header.event_hashes \cap hashes = {}
      /\ UNCHANGED <<devices, authorities>>
  BY DEF header, CreateProposal, Proposable, StillPending, HeightFree, Unclaimed
<1>4. /\ DOMAIN blocks' = DOMAIN blocks \cup {h}
      /\ blocks'[h] = [header |-> header, status |-> "proposed",
                       signatures |-> [a \in {} |-> ZeroHash]]
      /\ \A k \in DOMAIN blocks : k # h /\ blocks'[k] = blocks[k]
      /\ blocks' = [k \in DOMAIN blocks' |-> blocks'[k]]
  BY <1>3 DEF header, CreateProposal, ProposedRow, WithRow
<1>5. /\ DOMAIN events' = DOMAIN events
      /\ \A e \in DOMAIN events : e \notin hashes => events'[e] = events[e]
      /\ \A e \in hashes :
            /\ e \in DOMAIN events
            /\ events[e].block_height = 0
            /\ events'[e].block_height = h
            /\ events'[e].finalized = events[e].finalized
      /\ events' \in [DOMAIN events -> EventRows]
  <2>1. events' = [e \in DOMAIN events |->
            IF e \in hashes THEN [events[e] EXCEPT !.block_height = h] ELSE events[e]]
    BY DEF header, CreateProposal, AssignedTo
  <2>2. events \in [DOMAIN events -> EventRows]
    BY DEF TablesInv, TablesTypeOK
  <2>3. hashes \subseteq DOMAIN events /\ \A e \in hashes : events[e].block_height = 0
    BY <1>3 DEF Pending
  <2> QED BY <2>1, <2>2, <2>3, <1>2 DEF EventRows
<1>6. FinalizedHeights' = FinalizedHeights
  BY <1>4 DEF FinalizedHeights
<1>7. TablesTypeOK'
  <2>1. IsFiniteSet(DOMAIN blocks')
    BY <1>4, FS_AddElement DEF TablesInv, TablesTypeOK
  <2>2. blocks' = [k \in DOMAIN blocks' |-> [header     |-> blocks'[k].header,
                                             status     |-> blocks'[k].status,
                                             signatures |-> blocks'[k].signatures]]
    <3>1. \A k \in DOMAIN blocks :
             blocks[k] = [header     |-> blocks[k].header,
                          status     |-> blocks[k].status,
                          signatures |-> blocks[k].signatures]
      BY DEF TablesInv, TablesTypeOK
    <3> QED BY <3>1, <1>4
  <2>3. \A k \in DOMAIN blocks' :
           /\ blocks'[k].header.event_hashes \in (SUBSET Events) \ {{}}
           /\ blocks'[k].header.proposer_id \in Authorities
           /\ blocks'[k].header.authorities \in Snapshots
           /\ blocks'[k].header.quorum_threshold \in Nat \ {0}
           /\ blocks'[k].status \in {"proposed", "finalized"}
           /\ DOMAIN blocks'[k].signatures \subseteq Authorities
    BY <1>2, <1>4 DEF TablesInv, TablesTypeOK
  <2> QED BY <2>1, <2>2, <2>3, <1>2, <1>3, <1>4, <1>5 DEF TablesInv, TablesTypeOK
<1>8. ChainLinked'
  <2>1. header.height = h
    OBVIOUS
  <2>2. \A k \in FinalizedHeights : k \in DOMAIN blocks
    BY DEF FinalizedHeights
  <2>3. FinalizedHeights' = 1 .. Cardinality(FinalizedHeights')
    BY <1>6 DEF TablesInv, ChainLinked
  <2>4. ASSUME NEW k \in DOMAIN blocks'
        PROVE  /\ blocks'[k].header.height = k
               /\ k = 1 => blocks'[k].header.previous_hash = ZeroHash
               /\ k > 1 => /\ k - 1 \in FinalizedHeights'
                           /\ blocks'[k].header.previous_hash
                                = BlockHash(blocks'[k - 1].header)
    <3>1. CASE k = h
      BY <3>1, <1>2, <1>4, <1>6, <2>2
    <3>2. CASE k \in DOMAIN blocks
      BY <3>2, <1>4, <1>6, <2>2 DEF TablesInv, ChainLinked
    <3> QED BY <3>1, <3>2, <1>4
  <2> QED BY <2>3, <2>4 DEF ChainLinked
<1>9. QuorumIsFinality'
  <2>1. DOMAIN blocks'[h].signatures = {} /\ blocks'[h].status = "proposed"
        /\ blocks'[h].header = header
    BY <1>4
  <2>2. Cardinality({}) = 0
    BY FS_EmptySet
  <2>3. ~ (0 >= header.quorum_threshold)
    BY <1>2
  <2> QED BY <2>1, <2>2, <2>3, <1>4 DEF TablesInv, QuorumIsFinality, Members
<1>10. QuorumReachable'
  <2>1. blocks'[h].header = header
    BY <1>4
  <2> QED BY <2>1, <1>2, <1>3, <1>4 DEF TablesInv, QuorumReachable, Members
<1>11. EventsMatchBlocks'
  <2>1. 0 \notin DOMAIN blocks /\ 0 \notin FinalizedHeights /\ h \notin FinalizedHeights
    BY <1>3 DEF TablesInv, TablesTypeOK, FinalizedHeights
  <2>2. blocks'[h].header.event_hashes = hashes
    BY <1>4
  <2>3. ASSUME NEW e \in DOMAIN events, e \in hashes
        PROVE  /\ \A k \in DOMAIN blocks' :
                     e \in blocks'[k].header.event_hashes <=> events'[e].block_height = k
               /\ events'[e].block_height \in DOMAIN blocks'
               /\ ~ events'[e].finalized
    BY <2>1, <2>2, <2>3, <1>3, <1>4, <1>5 DEF TablesInv, EventsMatchBlocks
  <2>4. ASSUME NEW e \in DOMAIN events, e \notin hashes
        PROVE  /\ \A k \in DOMAIN blocks' :
                     e \in blocks'[k].header.event_hashes <=> events'[e].block_height = k
               /\ events'[e].block_height # 0 => events'[e].block_height \in DOMAIN blocks'
               /\ events'[e].finalized <=> events'[e].block_height \in FinalizedHeights
    BY <2>1, <2>2, <2>4, <1>2, <1>3, <1>4, <1>5 DEF TablesInv, EventsMatchBlocks
  <2>5. \A k \in DOMAIN blocks' : blocks'[k].header.event_hashes \subseteq DOMAIN events'
    BY <2>2, <1>4, <1>5 DEF TablesInv, EventsMatchBlocks
  <2>6. \A e \in hashes : events'[e].block_height = h
    BY <1>5
  <2> QED BY <2>1, <2>3, <2>4, <2>5, <2>6, <1>5, <1>6 DEF EventsMatchBlocks
<1>12. DeviceChains'
  <2>1. \A d \in DOMAIN devices : Stored(d)' = Stored(d)
    BY <1>5 DEF Stored
  <2> QED BY <2>1, <1>3, <1>5 DEF TablesInv, DeviceChains
<1>13. NothingIsUndone
  <2>1. \A e \in DOMAIN events : events[e].block_height # 0 => e \notin hashes
    BY <1>5
  <2> QED BY <2>1, <1>4, <1>5 DEF NothingIsUndone
<1> QED BY <1>7, <1>8, <1>9, <1>10, <1>11, <1>12, <1>13 DEF TablesInv

\* insert_block_signature: the block is final if and only if the signature
\* completes its quorum, and its events with it.
LEMMA InsertBlockSignatureStep ==
  ASSUME TablesInv, NEW h \in DOMAIN blocks, NEW a \in DOMAIN Members(h),
         NEW signature,
         Verifies(Members(h)[a], signature, BlockHash(blocks[h].header)),
         InsertBlockSignature(h, a, signature)
  PROVE  TablesInv' /\ NothingIsUndone
<1> DEFINE old == blocks[h].signatures
           new == WithSignature(h, a, signature)
           threshold == blocks[h].header.quorum_threshold
<1>1. /\ DOMAIN new = DOMAIN old \cup {a}
      /\ \A b \in DOMAIN old : new[b] = old[b]
      /\ a \notin DOMAIN old => new[a] = signature
  BY DEF WithSignature, WithRow
<1> HIDE DEF new
<1>2. /\ IsFiniteSet(DOMAIN old)
      /\ Cardinality(DOMAIN old) \in Nat
      /\ Cardinality(DOMAIN new) \in Nat
      /\ Cardinality(DOMAIN old) <= Cardinality(DOMAIN new)
      /\ threshold \in Nat \ {0}
      /\ a \in Authorities
  <2>1. DOMAIN old \subseteq Authorities /\ threshold \in Nat \ {0}
    BY DEF TablesInv, TablesTypeOK
  <2>2. a \in Authorities
    BY SnapshotType DEF TablesInv, TablesTypeOK, Members
  <2>3. IsFiniteSet(DOMAIN old) /\ IsFiniteSet(DOMAIN new)
    BY <2>1, <2>2, <1>1, FiniteAuthorities, FS_Subset
  <2> QED BY <2>1, <2>2, <2>3, <1>1, FS_CardinalityType, FS_Subset
<1>3. /\ UNCHANGED <<devices, authorities>>
      /\ DOMAIN blocks' = DOMAIN blocks
      /\ \A k \in DOMAIN blocks : k # h => blocks'[k] = blocks[k]
      /\ blocks'[h].header = blocks[h].header
      /\ blocks'[h].signatures = new
      /\ blocks' = [k \in DOMAIN blocks |-> [header     |-> blocks'[k].header,
                                            status     |-> blocks'[k].status,
                                            signatures |-> blocks'[k].signatures]]
  <2>1. blocks = [k \in DOMAIN blocks |-> [header     |-> blocks[k].header,
                                           status     |-> blocks[k].status,
                                           signatures |-> blocks[k].signatures]]
    BY DEF TablesInv, TablesTypeOK
  <2>2. \/ blocks' = [blocks EXCEPT ![h].signatures = new]
        \/ blocks' = [blocks EXCEPT ![h].signatures = new, ![h].status = "finalized"]
    BY DEF InsertBlockSignature, new
  <2>3. UNCHANGED <<devices, authorities>>
    BY DEF InsertBlockSignature
  <2> QED BY <2>1, <2>2, <2>3
<1>4. \/ /\ Cardinality(DOMAIN new) < threshold
         /\ blocks[h].status = "proposed"
         /\ blocks'[h].status = "proposed"
         /\ events' = events
      \/ /\ Cardinality(DOMAIN new) >= threshold
         /\ PreviousFinalized(h)
         /\ blocks'[h].status = "finalized"
         /\ events' = FinalizedIn(h)
  <2>1. blocks[h] = [header     |-> blocks[h].header,
                     status     |-> blocks[h].status,
                     signatures |-> blocks[h].signatures]
    BY DEF TablesInv, TablesTypeOK
  <2>2. CASE ~ ReachesQuorum(h, new)
    <3>1. Cardinality(DOMAIN new) < threshold
      BY <2>2, <1>2 DEF ReachesQuorum
    <3>2. blocks[h].status = "proposed"
      BY <3>1, <1>2 DEF TablesInv, TablesTypeOK, QuorumIsFinality
    <3>3. blocks' = [blocks EXCEPT ![h].signatures = new] /\ events' = events
      BY <2>2 DEF InsertBlockSignature, new
    <3>4. blocks'[h].status = blocks[h].status
      BY <2>1, <3>3
    <3> QED BY <3>1, <3>2, <3>3, <3>4
  <2>3. CASE ReachesQuorum(h, new)
    <3>1. /\ blocks' = [blocks EXCEPT ![h].signatures = new, ![h].status = "finalized"]
          /\ PreviousFinalized(h)
          /\ events' = FinalizedIn(h)
      BY <2>3 DEF InsertBlockSignature, new
    <3>2. blocks'[h].status = "finalized"
      BY <2>1, <3>1
    <3> QED BY <2>3, <3>1, <3>2 DEF ReachesQuorum
  <2> QED BY <2>2, <2>3
<1>5. /\ FinalizedHeights \subseteq FinalizedHeights'
      /\ FinalizedHeights' \subseteq FinalizedHeights \cup {h}
      /\ h \in FinalizedHeights' <=> blocks'[h].status = "finalized"
  BY <1>3, <1>4 DEF FinalizedHeights
<1>6. /\ DOMAIN events' = DOMAIN events
      /\ events' \in [DOMAIN events -> EventRows]
      /\ \A e \in DOMAIN events :
            /\ events'[e].block_height = events[e].block_height
            /\ events[e].finalized => events'[e].finalized
            /\ events[e].block_height # h => events'[e] = events[e]
            /\ h \in FinalizedHeights' /\ events[e].block_height = h => events'[e].finalized
            /\ h \notin FinalizedHeights' => events'[e] = events[e]
  <2>1. events \in [DOMAIN events -> EventRows]
    BY DEF TablesInv, TablesTypeOK
  <2>2. CASE events' = events /\ h \notin FinalizedHeights'
    BY <2>1, <2>2
  <2>3. CASE events' = FinalizedIn(h) /\ h \in FinalizedHeights'
    BY <2>1, <2>3 DEF FinalizedIn, EventRows
  <2> QED BY <2>2, <2>3, <1>4, <1>5
<1>7. TablesTypeOK'
  <2>1. \A k \in DOMAIN blocks' :
           /\ blocks'[k].header.event_hashes \in (SUBSET Events) \ {{}}
           /\ blocks'[k].header.proposer_id \in Authorities
           /\ blocks'[k].header.authorities \in Snapshots
           /\ blocks'[k].header.quorum_threshold \in Nat \ {0}
           /\ blocks'[k].status \in {"proposed", "finalized"}
           /\ DOMAIN blocks'[k].signatures \subseteq Authorities
    <3>1. DOMAIN new \subseteq Authorities
      BY <1>1, <1>2 DEF TablesInv, TablesTypeOK
    <3> QED BY <3>1, <1>3, <1>4 DEF TablesInv, TablesTypeOK
  <2>2. blocks' = [k \in DOMAIN blocks' |-> [header     |-> blocks'[k].header,
                                             status     |-> blocks'[k].status,
                                             signatures |-> blocks'[k].signatures]]
    BY <1>3
  <2> QED BY <2>1, <2>2, <1>3, <1>6 DEF TablesInv, TablesTypeOK
<1>8. ChainLinked'
  <2>1. FinalizedHeights' = 1 .. Cardinality(FinalizedHeights')
    <3>1. CASE FinalizedHeights' = FinalizedHeights
      BY <3>1 DEF TablesInv, ChainLinked
    <3>2. CASE FinalizedHeights' # FinalizedHeights
      <4>1. FinalizedHeights' = FinalizedHeights \cup {h} /\ h \notin FinalizedHeights
        BY <3>2, <1>5
      <4>2. h = 1 \/ h - 1 \in FinalizedHeights
        BY DEF TablesInv, TablesTypeOK, ChainLinked
      <4>3. PICK n \in Nat : FinalizedHeights = 1 .. n
        BY Tip DEF TablesInv
      <4>4. h \in Nat \ {0}
        BY DEF TablesInv, TablesTypeOK
      <4>5. h = n + 1
        BY <4>1, <4>2, <4>3, <4>4
      <4>6. FinalizedHeights' = 1 .. (n + 1)
        BY <4>1, <4>3, <4>5
      <4>7. Cardinality(1 .. (n + 1)) = n + 1
        BY FS_Interval
      <4> QED BY <4>6, <4>7
    <3> QED BY <3>1, <3>2
  <2>2. \A k \in FinalizedHeights : k \in DOMAIN blocks
    BY DEF FinalizedHeights
  <2>3. \A k \in DOMAIN blocks : blocks'[k].header = blocks[k].header
    BY <1>3
  <2> QED BY <2>1, <2>2, <2>3, <1>3, <1>5 DEF TablesInv, ChainLinked
<1>9. QuorumIsFinality'
  <2>1. \A k \in DOMAIN blocks : blocks'[k].header = blocks[k].header
    BY <1>3
  <2>2. ASSUME NEW k \in DOMAIN blocks
        PROVE  blocks'[k].status = "finalized"
                 <=> Cardinality(DOMAIN blocks'[k].signatures)
                       >= blocks'[k].header.quorum_threshold
    <3>1. CASE k = h
      BY <3>1, <1>2, <1>3, <1>4
    <3>2. CASE k # h
      BY <3>2, <1>3 DEF TablesInv, QuorumIsFinality
    <3> QED BY <3>1, <3>2
  <2>3. \A b \in DOMAIN new :
           /\ b \in DOMAIN Members(h)
           /\ new[b] = Signature(Members(h)[b], BlockHash(blocks[h].header))
    BY <1>1 DEF TablesInv, QuorumIsFinality, Verifies
  <2>4. ASSUME NEW k \in DOMAIN blocks, NEW b \in DOMAIN blocks'[k].signatures
        PROVE  /\ b \in DOMAIN blocks'[k].header.authorities
               /\ blocks'[k].signatures[b]
                    = Signature(blocks'[k].header.authorities[b],
                                BlockHash(blocks'[k].header))
    <3>1. CASE k = h
      BY <3>1, <1>3, <2>3 DEF Members
    <3>2. CASE k # h
      BY <3>2, <1>3 DEF TablesInv, QuorumIsFinality, Members
    <3> QED BY <3>1, <3>2
  <2> QED BY <2>2, <2>4, <1>3 DEF QuorumIsFinality, Members
<1>10. QuorumReachable'
  <2>1. \A k \in DOMAIN blocks : blocks'[k].header = blocks[k].header
    BY <1>3
  <2> QED BY <2>1, <1>3 DEF TablesInv, QuorumReachable, Members
<1>11. EventsMatchBlocks'
  <2>1. \A k \in DOMAIN blocks : blocks'[k].header = blocks[k].header
    BY <1>3
  <2>2. ASSUME NEW e \in DOMAIN events
        PROVE  events'[e].finalized <=> events'[e].block_height \in FinalizedHeights'
    <3>1. events[e].finalized <=> events[e].block_height \in FinalizedHeights
      BY DEF TablesInv, EventsMatchBlocks
    <3> QED BY <3>1, <1>5, <1>6
  <2> QED BY <2>1, <2>2, <1>3, <1>6 DEF TablesInv, EventsMatchBlocks
<1>12. DeviceChains'
  <2>1. \A d \in DOMAIN devices : Stored(d)' = Stored(d)
    BY <1>6 DEF Stored
  <2> QED BY <2>1, <1>3, <1>6 DEF TablesInv, DeviceChains
<1>13. NothingIsUndone
  BY <1>1, <1>3, <1>4, <1>6 DEF NothingIsUndone
<1> QED BY <1>7, <1>8, <1>9, <1>10, <1>11, <1>12, <1>13 DEF TablesInv

\* A step that leaves the tables alone keeps what holds of them.
LEMMA TablesStutter ==
  ASSUME TablesInv, UNCHANGED tables
  PROVE  TablesInv' /\ NothingIsUndone
<1> USE DEF tables
<1>1. TablesTypeOK' /\ ChainLinked' /\ QuorumIsFinality' /\ QuorumReachable'
  BY DEF TablesInv, TablesTypeOK, ChainLinked, QuorumIsFinality, QuorumReachable,
         FinalizedHeights, Members
<1>2. EventsMatchBlocks' /\ DeviceChains'
  BY DEF TablesInv, EventsMatchBlocks, DeviceChains, FinalizedHeights, Stored
<1>3. NothingIsUndone
  BY DEF NothingIsUndone
<1> QED BY <1>1, <1>2, <1>3 DEF TablesInv

AuthoritiesKept ==
  \A a \in DOMAIN authorities : a \in DOMAIN authorities' /\ authorities'[a] = authorities[a]

----------------------------------------------------------------------------
(* Every step is one transaction or none. *)

SignatureOf(h, a) == Signature(Members(h)[a], BlockHash(blocks[h].header))

Transaction ==
  \/ UNCHANGED tables
  \/ \E d \in Devices, key \in Keys : RegisterDevice(d, key)
  \/ \E a \in Authorities, key \in Keys : RegisterAuthority(a, key)
  \/ \E e \in Events : SequenceOf[e] >= 1 /\ SignedByDevice(e) /\ InsertVerifiedEvent(e)
  \/ \E p \in Callers : pc[p] = "create" /\ CreateProposal(Header(p))
  \/ \E h \in DOMAIN blocks : \E a \in DOMAIN Members(h) :
        InsertBlockSignature(h, a, SignatureOf(h, a))

\* Whatever a caller does, the tables see one of five transactions, or nothing.
LEMMA EveryStepIsATransaction ==
  ASSUME [Next]_vars
  PROVE  Transaction
<1>1. ASSUME UNCHANGED tables PROVE Transaction
  BY <1>1 DEF Transaction
<1>2. CASE UNCHANGED vars
  BY <1>2, <1>1 DEF vars, tables
<1>3. CASE \/ \E d \in Devices : EnrollDevice(d)
           \/ \E a \in Authorities : EnrollAuthority(a)
  BY <1>3, CallerConfig DEF EnrollDevice, EnrollAuthority, Transaction
<1>4. CASE \E e \in Events : AcceptEvent(e)
  BY <1>4 DEF AcceptEvent, Transaction
<1>5. ASSUME NEW p \in Callers, CallerStep(p)
      PROVE  Transaction
  <2>1. CASE \/ CheckNoOpenBlock(p) \/ TakeSnapshot(p) \/ SelectPending(p)
             \/ LinkToPrevious(p) \/ Raise(p)
    BY <2>1, <1>1 DEF CheckNoOpenBlock, TakeSnapshot, SelectPending, LinkToPrevious, Raise
  <2>2. CASE Propose(p)
    BY <2>2 DEF Propose, Transaction
  <2>3. CASE SignOwn(p)
    BY <2>3, <1>1 DEF SignOwn, InsertBlockSignature, SignatureOf, Transaction
  <2> QED BY <1>5, <2>1, <2>2, <2>3 DEF CallerStep
<1>6. CASE \E p \in Callers : Abandon(p)
  BY <1>6, <1>1 DEF Abandon
<1>7. CASE \E h \in DOMAIN blocks, a \in Authorities, key \in Keys : SignBlock(h, a, key)
  BY <1>7 DEF SignBlock, SignatureOf, Transaction
<1>8. CASE \E h \in DOMAIN blocks, a \in Authorities, signature \in PublishedSignatures :
              AddExternalSignature(h, a, signature)
  BY <1>8 DEF AddExternalSignature, Verifies, SignatureOf, Transaction
<1> QED
  BY <1>2, <1>3, <1>4, <1>5, <1>6, <1>7, <1>8 DEF Next

\* The invariant of the tables is inductive, and no step undoes anything.
LEMMA TablesStep ==
  ASSUME LedgerInv, [Next]_vars
  PROVE  TablesInv' /\ NothingIsUndone /\ AuthoritiesKept
<1> USE DEF LedgerInv
<1>1. CASE UNCHANGED tables
  BY <1>1, TablesStutter DEF tables, AuthoritiesKept
<1>2. CASE \E d \in Devices, key \in Keys : RegisterDevice(d, key)
  BY <1>2, RegisterDeviceStep DEF RegisterDevice, AuthoritiesKept
<1>3. ASSUME NEW a \in Authorities, NEW key \in Keys, RegisterAuthority(a, key)
      PROVE  TablesInv' /\ NothingIsUndone /\ AuthoritiesKept
  <2>1. AuthoritiesKept
    BY <1>3 DEF RegisterAuthority, WithRow, AuthoritiesKept
  <2> QED BY <1>3, <2>1, RegisterAuthorityStep
<1>4. CASE \E e \in Events :
              SequenceOf[e] >= 1 /\ SignedByDevice(e) /\ InsertVerifiedEvent(e)
  BY <1>4, InsertVerifiedEventStep DEF InsertVerifiedEvent, AuthoritiesKept
<1>5. CASE \E p \in Callers : pc[p] = "create" /\ CreateProposal(Header(p))
  BY <1>5, CreateProposalStep DEF CreateProposal, AuthoritiesKept
<1>6. ASSUME NEW h \in DOMAIN blocks, NEW a \in DOMAIN Members(h),
             InsertBlockSignature(h, a, SignatureOf(h, a))
      PROVE  TablesInv' /\ NothingIsUndone /\ AuthoritiesKept
  <2>1. Verifies(Members(h)[a], SignatureOf(h, a), BlockHash(blocks[h].header))
    BY DEF Verifies, SignatureOf
  <2> QED BY <1>6, <2>1, InsertBlockSignatureStep DEF InsertBlockSignature, AuthoritiesKept
<1> QED
  BY <1>1, <1>2, <1>3, <1>4, <1>5, <1>6, EveryStepIsATransaction DEF Transaction

----------------------------------------------------------------------------
(* What the callers have read. *)

\* Growing tables leave every draft as sound as it was.
LEMMA DraftStaysSound ==
  ASSUME DraftsSound, NothingIsUndone, AuthoritiesKept, NEW p \in Callers,
         pc'[p] = pc[p], draft'[p] = draft[p]
  PROVE  DraftSound(p)'
<1>1. \A k \in FinalizedHeights :
         k \in FinalizedHeights' /\ blocks'[k].header = blocks[k].header
  BY DEF NothingIsUndone, FinalizedHeights
<1>2. DOMAIN events \subseteq DOMAIN events'
  BY DEF NothingIsUndone
<1>3. DraftSound(p)
  BY DEF DraftsSound
<1> QED BY <1>1, <1>2, <1>3 DEF DraftSound, AuthoritiesKept

\* A call that has ended, or only just begun, has read nothing.
LEMMA NothingRead ==
  ASSUME NEW p \in Callers, pc'[p] \notin {"select", "link", "create"}
  PROVE  DraftSound(p)'
BY DEF DraftSound

\* What the callers have read stays sound under every step, theirs or others'.
LEMMA CallersStep ==
  ASSUME LedgerInv, [Next]_vars, NothingIsUndone, AuthoritiesKept
  PROVE  CallersTypeOK' /\ DraftsSound'
<1> USE DEF LedgerInv
<1> DEFINE Steps == {"idle", "snapshot", "select", "link", "create", "sign"}
<1>1. /\ pc \in [Callers -> Steps]
      /\ draft = [p \in Callers |-> [authorities   |-> draft[p].authorities,
                                     event_hashes  |-> draft[p].event_hashes,
                                     height        |-> draft[p].height,
                                     previous_hash |-> draft[p].previous_hash]]
      /\ \A p \in Callers :
            /\ draft[p].authorities \in Snapshots
            /\ draft[p].event_hashes \subseteq Events
            /\ draft[p].height \in Nat
  BY DEF CallersTypeOK
<1>2. ASSUME UNCHANGED <<pc, draft>>
      PROVE  CallersTypeOK' /\ DraftsSound'
  BY <1>2, DraftStaysSound DEF CallersTypeOK, DraftsSound
<1>3. ASSUME NEW p \in Callers, NEW s \in Steps, pc' = [pc EXCEPT ![p] = s],
             NEW row, draft' = [q \in Callers |-> IF q = p THEN row ELSE draft[q]],
             row = [authorities   |-> row.authorities,
                    event_hashes  |-> row.event_hashes,
                    height        |-> row.height,
                    previous_hash |-> row.previous_hash],
             row.authorities \in Snapshots,
             row.event_hashes \subseteq Events,
             row.height \in Nat,
             DraftSound(p)'
      PROVE  CallersTypeOK' /\ DraftsSound'
  <2>1. /\ pc' \in [Callers -> Steps]
        /\ draft' = [q \in Callers |-> [authorities   |-> draft'[q].authorities,
                                        event_hashes  |-> draft'[q].event_hashes,
                                        height        |-> draft'[q].height,
                                        previous_hash |-> draft'[q].previous_hash]]
        /\ \A q \in Callers :
              /\ draft'[q].authorities \in Snapshots
              /\ draft'[q].event_hashes \subseteq Events
              /\ draft'[q].height \in Nat
    BY <1>1, <1>3
  <2>2. \A q \in Callers : q # p => pc'[q] = pc[q] /\ draft'[q] = draft[q]
    BY <1>1, <1>3
  <2>3. \A q \in Callers : DraftSound(q)'
    BY <2>2, <1>3, DraftStaysSound
  <2> QED BY <2>1, <2>3 DEF CallersTypeOK, DraftsSound
<1>4. ASSUME NEW p \in Callers, Return(p)
      PROVE  CallersTypeOK' /\ DraftsSound'
  <2>1. EmptyDraft.authorities \in Snapshots
    <3>1. EmptyDraft.authorities \in [{} -> Keys] /\ {} \in SUBSET Authorities
      BY DEF EmptyDraft
    <3> QED BY <3>1 DEF Snapshots
  <2>2. pc'[p] = "idle"
    BY <1>1, <1>4 DEF Return
  <2>3. DraftSound(p)'
    BY <2>2, NothingRead
  <2>4. draft' = [q \in Callers |-> IF q = p THEN EmptyDraft ELSE draft[q]]
    BY <1>1, <1>4 DEF Return
  <2> QED BY <2>1, <2>3, <2>4, <1>3, <1>4 DEF Return, EmptyDraft
<1>5. CASE UNCHANGED vars
  BY <1>5, <1>2 DEF vars
<1>6. ASSUME NEW p \in Callers, CheckNoOpenBlock(p)
      PROVE  CallersTypeOK' /\ DraftsSound'
  <2>1. pc'[p] = "snapshot"
    BY <1>1, <1>6 DEF CheckNoOpenBlock
  <2>2. DraftSound(p)'
    BY <2>1, NothingRead
  <2> DEFINE row == [authorities   |-> draft[p].authorities,
                     event_hashes  |-> draft[p].event_hashes,
                     height        |-> draft[p].height,
                     previous_hash |-> draft[p].previous_hash]
  <2>3. draft' = [q \in Callers |-> IF q = p THEN row ELSE draft[q]]
    BY <1>1, <1>6 DEF CheckNoOpenBlock
  <2> QED BY <2>2, <2>3, <1>1, <1>3, <1>6 DEF CheckNoOpenBlock
<1>7. ASSUME NEW p \in Callers, TakeSnapshot(p)
      PROVE  CallersTypeOK' /\ DraftsSound'
  <2> DEFINE row == [authorities   |-> authorities,
                     event_hashes  |-> draft[p].event_hashes,
                     height        |-> draft[p].height,
                     previous_hash |-> draft[p].previous_hash]
  <2>0. draft[p] = [authorities   |-> draft[p].authorities,
                    event_hashes  |-> draft[p].event_hashes,
                    height        |-> draft[p].height,
                    previous_hash |-> draft[p].previous_hash]
    BY <1>1
  <2>1. draft' = [q \in Callers |-> IF q = p THEN row ELSE draft[q]]
    BY <2>0, <1>1, <1>7 DEF TakeSnapshot
  <2>2. pc'[p] = "select" /\ draft'[p] = row
    BY <2>1, <1>1, <1>7 DEF TakeSnapshot
  <2>3. authorities' = authorities /\ Cardinality(DOMAIN authorities) >= QuorumOf[p]
    BY <1>7 DEF TakeSnapshot, EnoughAuthorities, tables
  <2>4. DraftSound(p)'
    BY <2>2, <2>3 DEF DraftSound
  <2>5. authorities \in Snapshots
    BY DEF TablesInv, TablesTypeOK
  <2> QED BY <2>1, <2>4, <2>5, <1>1, <1>3, <1>7 DEF TakeSnapshot
<1>8. ASSUME NEW p \in Callers, SelectPending(p)
      PROVE  CallersTypeOK' /\ DraftsSound'
  <2>1. PICK selected \in (SUBSET Pending) \ {{}} :
           draft' = [draft EXCEPT ![p].event_hashes = selected]
    BY <1>8 DEF SelectPending
  <2> DEFINE row == [authorities   |-> draft[p].authorities,
                     event_hashes  |-> selected,
                     height        |-> draft[p].height,
                     previous_hash |-> draft[p].previous_hash]
  <2>2. draft' = [q \in Callers |-> IF q = p THEN row ELSE draft[q]]
    <3>1. draft[p] = [authorities   |-> draft[p].authorities,
                      event_hashes  |-> draft[p].event_hashes,
                      height        |-> draft[p].height,
                      previous_hash |-> draft[p].previous_hash]
      BY <1>1
    <3> QED BY <3>1, <2>1, <1>1
  <2>3. pc'[p] = "link" /\ draft'[p] = row /\ pc[p] = "select"
    BY <2>2, <1>1, <1>8 DEF SelectPending
  <2>4. selected # {} /\ selected \subseteq DOMAIN events /\ selected \subseteq Events
    BY DEF Pending, TablesInv, TablesTypeOK
  <2>5. DraftSound(p)'
    BY <2>3, <2>4, <1>8 DEF DraftSound, DraftsSound, SelectPending, tables
  <2> QED BY <2>2, <2>4, <2>5, <1>1, <1>3, <1>8 DEF SelectPending
<1>9. ASSUME NEW p \in Callers, LinkToPrevious(p)
      PROVE  CallersTypeOK' /\ DraftsSound'
  <2> DEFINE row == [authorities   |-> draft[p].authorities,
                     event_hashes  |-> draft[p].event_hashes,
                     height        |-> NextHeight,
                     previous_hash |-> TipHash]
  <2>0. draft[p] = [authorities   |-> draft[p].authorities,
                    event_hashes  |-> draft[p].event_hashes,
                    height        |-> draft[p].height,
                    previous_hash |-> draft[p].previous_hash]
    BY <1>1
  <2>1. draft' = [q \in Callers |-> IF q = p THEN row ELSE draft[q]]
    <3>1. draft' = [draft EXCEPT ![p].height = NextHeight, ![p].previous_hash = TipHash]
      BY <1>9 DEF LinkToPrevious
    <3>2. DOMAIN draft = Callers
      BY <1>1
    <3>3. draft'[p] = row
      BY <2>0, <3>1, <3>2
    <3>4. \A q \in Callers : q # p => draft'[q] = draft[q]
      BY <3>1, <3>2
    <3>5. draft' = [q \in Callers |-> draft'[q]]
      BY <3>1, <3>2
    <3> QED BY <3>3, <3>4, <3>5
  <2>2. pc'[p] = "create" /\ draft'[p] = row /\ pc[p] = "link"
    BY <2>1, <1>1, <1>9 DEF LinkToPrevious
  <2>3. /\ LastFinalizedHeight \in Nat
        /\ FinalizedHeights = 1 .. LastFinalizedHeight
    BY Tip DEF TablesInv
  <2>4. /\ NextHeight \in Nat /\ NextHeight > 0
        /\ NextHeight = 1 => TipHash = ZeroHash
        /\ NextHeight > 1 =>
              /\ NextHeight - 1 \in FinalizedHeights
              /\ TipHash = BlockHash(blocks[NextHeight - 1].header)
    BY <2>3 DEF NextHeight, TipHash
  <2>5. /\ FinalizedHeights' = FinalizedHeights
        /\ UNCHANGED tables
    BY <1>9 DEF LinkToPrevious, FinalizedHeights, tables
  <2> HIDE DEF NextHeight
  <2>6. DraftSound(p)'
    BY <2>2, <2>4, <2>5 DEF DraftSound, DraftsSound, tables
  <2> QED BY <2>1, <2>4, <2>6, <1>1, <1>3, <1>9 DEF LinkToPrevious
<1>10. ASSUME NEW p \in Callers, Propose(p)
       PROVE  CallersTypeOK' /\ DraftsSound'
  <2>1. pc'[p] = "sign"
    BY <1>1, <1>10 DEF Propose
  <2>2. DraftSound(p)'
    BY <2>1, NothingRead
  <2> DEFINE row == [authorities   |-> draft[p].authorities,
                     event_hashes  |-> draft[p].event_hashes,
                     height        |-> draft[p].height,
                     previous_hash |-> draft[p].previous_hash]
  <2>3. draft' = [q \in Callers |-> IF q = p THEN row ELSE draft[q]]
    BY <1>1, <1>10 DEF Propose
  <2> QED BY <2>2, <2>3, <1>1, <1>3, <1>10 DEF Propose
<1>11. ASSUME NEW p \in Callers, SignOwn(p) \/ Raise(p) \/ Abandon(p)
       PROVE  CallersTypeOK' /\ DraftsSound'
  BY <1>4, <1>11 DEF SignOwn, Raise, Abandon
<1>12. CASE \/ \E d \in Devices : EnrollDevice(d)
            \/ \E a \in Authorities : EnrollAuthority(a)
            \/ \E e \in Events : AcceptEvent(e)
            \/ \E h \in DOMAIN blocks, a \in Authorities, key \in Keys :
                  SignBlock(h, a, key)
            \/ \E h \in DOMAIN blocks, a \in Authorities,
                  signature \in PublishedSignatures : AddExternalSignature(h, a, signature)
  BY <1>2, <1>12 DEF EnrollDevice, EnrollAuthority, AcceptEvent, SignBlock,
                     AddExternalSignature
<1> QED
  BY <1>5, <1>6, <1>7, <1>8, <1>9, <1>10, <1>11, <1>12 DEF Next, CallerStep

----------------------------------------------------------------------------
(* The theorems. *)

\* The invariant that the rest follows from holds of every reachable state,
\* for any devices, authorities, keys, events, callers and thresholds.
THEOREM LedgerInvariant == Spec => []LedgerInv
<1>1. Init => LedgerInv
  BY InitInv
<1>2. LedgerInv /\ [Next]_vars => LedgerInv'
  BY TablesStep, CallersStep DEF LedgerInv
<1> QED BY <1>1, <1>2, PTL DEF Spec

\* Rows and drafts keep their types.
THEOREM TypeCorrect == Spec => []TypeOK
<1>1. LedgerInv => TypeOK
  BY DEF LedgerInv, TablesInv, TypeOK
<1> QED BY <1>1, LedgerInvariant, PTL

\* One unbroken chain of blocks, final up to its last.
THEOREM ChainIsLinked == Spec => []ChainLinked
<1>1. LedgerInv => ChainLinked
  BY DEF LedgerInv, TablesInv
<1> QED BY <1>1, LedgerInvariant, PTL

\* Final means signed by a quorum of the block's own snapshot, and nothing
\* else does.
THEOREM FinalityNeedsQuorum == Spec => []QuorumIsFinality
<1>1. LedgerInv => QuorumIsFinality
  BY DEF LedgerInv, TablesInv
<1> QED BY <1>1, LedgerInvariant, PTL

\* Every proposal can reach its quorum.
THEOREM ProposalsAreFinalizable == Spec => []QuorumReachable
<1>1. LedgerInv => QuorumReachable
  BY DEF LedgerInv, TablesInv
<1> QED BY <1>1, LedgerInvariant, PTL

\* Every event is in at most one block, and the tables agree about which.
THEOREM EventsInOneBlock == Spec => []EventsMatchBlocks
<1>1. LedgerInv => EventsMatchBlocks
  BY DEF LedgerInv, TablesInv
<1> QED BY <1>1, LedgerInvariant, PTL

\* Every device's events form one chain without a gap or a fork.
THEOREM DevicesDoNotFork == Spec => []DeviceChains
<1>1. LedgerInv => DeviceChains
  BY DEF LedgerInv, TablesInv
<1> QED BY <1>1, LedgerInvariant, PTL

\* What a proposer has read may be stale, and is never wrong.
THEOREM DraftsAreSound == Spec => []DraftsSound
<1>1. LedgerInv => DraftsSound
  BY DEF LedgerInv
<1> QED BY <1>1, LedgerInvariant, PTL

\* No step takes back a block, a signature or the sealing of an event.
THEOREM LedgerOnlyGrows == Spec => OnlyGrows
<1>1. LedgerInv /\ [Next]_vars => [NothingIsUndone]_vars
  BY TablesStep
<1> QED BY <1>1, LedgerInvariant, PTL DEF Spec, OnlyGrows

----------------------------------------------------------------------------
(* Ledger implements EventLog, for all values of the constants: the proof   *)
(* that TLC's check of ImplementsEventLog suggests.  The invariant gives    *)
(* what the mapping needs: a device's events are numbered without a gap,    *)
(* so EventAt is well defined, and the finalized blocks are the first       *)
(* LastFinalizedHeight ones.                                               *)

USE DEF Log!Next, Log!logVars

\* The empty database is the empty log.
LEMMA InitRefines == Init => Log!Init
<1> SUFFICES ASSUME Init PROVE Log!Init
  OBVIOUS
<1>1. /\ DOMAIN devices = {} /\ DOMAIN blocks = {}
  BY DEF Init, StoreInit
<1>2. OwnerOf = [d \in {} |-> ZeroHash]
  BY <1>1 DEF OwnerOf
<1>3. LogOf = [d \in Devices |-> << >>]
  BY <1>1 DEF LogOf, LogLength
<1>4. SealedBlocks = << >>
  BY <1>1 DEF SealedBlocks, LastFinalizedHeight, FinalizedHeights
<1> QED BY <1>2, <1>3, <1>4 DEF Log!Init

\* The event at a position of a device's log.
LEMMA LogPositions ==
  ASSUME TablesInv, NEW d \in DOMAIN devices
  PROVE  /\ LogLength(d) \in Nat
         /\ \A e \in Stored(d) : /\ SequenceOf[e] \in 1 .. LogLength(d)
                                 /\ EventAt(d, SequenceOf[e]) = e
         /\ \A i \in 1 .. LogLength(d) : EventAt(d, i) \in Stored(d)
                                        /\ SequenceOf[EventAt(d, i)] = i
<1>1. LogLength(d) = devices[d].last_sequence /\ LogLength(d) \in Nat
  BY DEF LogLength, TablesInv, TablesTypeOK, DeviceRows
<1>2. ASSUME NEW e \in Stored(d)
      PROVE  SequenceOf[e] \in 1 .. LogLength(d) /\ EventAt(d, SequenceOf[e]) = e
  <2>1. \A f \in Stored(d) : SequenceOf[f] = SequenceOf[e] => f = e
    BY DEF TablesInv, DeviceChains
  <2>2. SequenceOf[e] \in 1 .. devices[d].last_sequence
    BY DEF TablesInv, DeviceChains
  <2>3. EventAt(d, SequenceOf[e]) = e
    BY <2>1 DEF EventAt
  <2> QED BY <2>2, <2>3, <1>1
<1>3. ASSUME NEW i \in 1 .. LogLength(d)
      PROVE  EventAt(d, i) \in Stored(d) /\ SequenceOf[EventAt(d, i)] = i
  <2>1. \E e \in Stored(d) : SequenceOf[e] = i
    BY <1>1 DEF TablesInv, DeviceChains
  <2> QED BY <2>1 DEF EventAt
<1> QED BY <1>1, <1>2, <1>3

\* Logs and sealed batches are sequences.
LEMMA LogTypes ==
  ASSUME TablesInv
  PROVE  /\ DOMAIN LogOf = Devices
         /\ \A d \in Devices : /\ Len(LogOf[d]) = LogLength(d)
                               /\ LogLength(d) \in Nat
                               /\ LogOf[d] = [i \in 1 .. LogLength(d) |-> EventAt(d, i)]
         /\ Len(SealedBlocks) = LastFinalizedHeight
         /\ LastFinalizedHeight \in Nat
<1>1. \A d \in Devices : LogLength(d) \in Nat
  BY DEF LogLength, TablesInv, TablesTypeOK, DeviceRows
<1>2. LastFinalizedHeight \in Nat
  BY Tip DEF TablesInv
<1> QED BY <1>1, <1>2 DEF LogOf, SealedBlocks

----------------------------------------------------------------------------
\* Enrolling a device binds its owner, and its log is empty.
LEMMA EnrollRefines ==
  ASSUME TablesInv, NEW d \in Devices, NEW key \in Keys, RegisterDevice(d, key)
  PROVE  Log!Next
<1>1. /\ d \notin DOMAIN devices
      /\ DOMAIN devices' = DOMAIN devices \cup {d}
      /\ devices'[d].public_key = key
      /\ devices'[d].last_sequence = 0
      /\ \A c \in DOMAIN devices : devices'[c] = devices[c]
      /\ UNCHANGED <<events, blocks>>
  BY DEF RegisterDevice, WithRow
<1>2. OwnerOf' = [c \in DOMAIN OwnerOf \cup {d} |-> IF c = d THEN key ELSE OwnerOf[c]]
  BY <1>1 DEF OwnerOf
<1>3. \A c \in Devices : LogLength(c)' = LogLength(c)
  BY <1>1 DEF LogLength
<1>4. \A c \in Devices : Stored(c)' = Stored(c)
  BY <1>1 DEF Stored
<1>5. \A c \in Devices, i \in Nat : EventAt(c, i)' = EventAt(c, i)
  BY <1>4 DEF EventAt
<1>6. LogOf' = LogOf
  <2>1. \A c \in Devices : LogLength(c) \in Nat
    BY LogTypes
  <2>2. \A c \in Devices :
           [i \in 1 .. LogLength(c)' |-> EventAt(c, i)']
             = [i \in 1 .. LogLength(c) |-> EventAt(c, i)]
    BY <2>1, <1>3, <1>5
  <2> QED BY <2>2 DEF LogOf
<1>7. SealedBlocks' = SealedBlocks
  BY <1>1 DEF SealedBlocks, LastFinalizedHeight, FinalizedHeights
<1>8. d \notin DOMAIN OwnerOf
  BY <1>1 DEF OwnerOf
<1> QED BY <1>2, <1>6, <1>7, <1>8 DEF Log!Enroll

\* Accepting an event appends it to its device's log.
LEMMA AcceptRefines ==
  ASSUME TablesInv, TablesInv', NEW e \in Events, SignedByDevice(e), InsertVerifiedEvent(e)
  PROVE  Log!Next
<1> DEFINE d == DeviceOf[e]
<1>1. /\ d \in DOMAIN devices /\ d \in Devices
      /\ e \notin DOMAIN events
      /\ DOMAIN events' = DOMAIN events \cup {e}
      /\ SequenceOf[e] \in Nat
      /\ SequenceOf[e] = devices[d].last_sequence + 1
      /\ PreviousOf[e] = devices[d].last_event_hash
      /\ devices' = [devices EXCEPT ![d].last_sequence = SequenceOf[e],
                                    ![d].last_event_hash = e]
      /\ blocks' = blocks
  BY EventFields DEF InsertVerifiedEvent, NextInSequence, ContinuesChain, WithRow
<1>2. /\ DOMAIN devices' = DOMAIN devices
      /\ devices'[d].last_sequence = SequenceOf[e]
      /\ \A c \in DOMAIN devices :
            /\ devices'[c].public_key = devices[c].public_key
            /\ c # d => devices'[c] = devices[c]
  <2>1. devices \in [DOMAIN devices -> DeviceRows]
    BY DEF TablesInv, TablesTypeOK
  <2> HIDE DEF d
  <2> QED BY <2>1, <1>1 DEF DeviceRows
<1>3. OwnerOf' = OwnerOf /\ SealedBlocks' = SealedBlocks
  BY <1>1, <1>2 DEF OwnerOf, SealedBlocks, LastFinalizedHeight, FinalizedHeights
<1>4. /\ LogLength(d) \in Nat
      /\ LogLength(d)' = LogLength(d) + 1
      /\ SequenceOf[e] = LogLength(d) + 1
      /\ \A c \in Devices : c # d => LogLength(c)' = LogLength(c)
  BY <1>1, <1>2, LogTypes DEF LogLength
<1>5. /\ Stored(d)' = Stored(d) \cup {e}
      /\ \A c \in Devices : c # d => Stored(c)' = Stored(c)
  BY <1>1 DEF Stored
<1>6. \A i \in 1 .. LogLength(d) : EventAt(d, i)' = EventAt(d, i)
  <2> SUFFICES ASSUME NEW i \in 1 .. LogLength(d) PROVE EventAt(d, i)' = EventAt(d, i)
    OBVIOUS
  <2> DEFINE f == EventAt(d, i)
  <2>1. f \in Stored(d) /\ SequenceOf[f] = i
    BY <1>1, LogPositions
  <2>2. f \in Stored(d)'
    BY <2>1, <1>5
  <2>3. \A g \in Stored(d)' : SequenceOf[g] = i => g = f
    BY <2>1, <2>2, <1>1, <1>2 DEF TablesInv, DeviceChains
  <2> HIDE DEF f
  <2>4. (CHOOSE g \in Stored(d)' : SequenceOf[g] = i) = f
    BY <2>1, <2>2, <2>3
  <2> QED BY <2>4 DEF EventAt, f
<1>7. EventAt(d, SequenceOf[e])' = e
  <2>1. e \in Stored(d)' /\ SequenceOf[e] = LogLength(d) + 1
    BY <1>4, <1>5
  <2>2. \A g \in Stored(d)' : SequenceOf[g] = SequenceOf[e] => g = e
    BY <2>1, <1>1, <1>2 DEF TablesInv, DeviceChains
  <2>3. (CHOOSE g \in Stored(d)' : SequenceOf[g] = SequenceOf[e]) = e
    BY <2>1, <2>2
  <2> QED BY <2>3 DEF EventAt
<1>8. LogOf' = [LogOf EXCEPT ![d] = Append(@, e)]
  <2>1. \A c \in Devices : c # d =>
           [i \in 1 .. LogLength(c)' |-> EventAt(c, i)'] = LogOf[c]
    <3>1. \A c \in Devices : c # d => \A i \in Nat : EventAt(c, i)' = EventAt(c, i)
      BY <1>5 DEF EventAt
    <3> QED BY <3>1, <1>4, LogTypes
  <2>2. [i \in 1 .. LogLength(d)' |-> EventAt(d, i)'] = Append(LogOf[d], e)
    <3>1. LogOf[d] = [i \in 1 .. LogLength(d) |-> EventAt(d, i)] /\ Len(LogOf[d]) = LogLength(d)
      BY LogTypes, <1>1
    <3>2. Append(LogOf[d], e)
            = [i \in 1 .. LogLength(d) + 1 |->
                 IF i = LogLength(d) + 1 THEN e ELSE EventAt(d, i)]
      BY <3>1, <1>4
    <3>3. \A i \in 1 .. LogLength(d) + 1 :
             EventAt(d, i)' = IF i = LogLength(d) + 1 THEN e ELSE EventAt(d, i)
      BY <1>4, <1>6, <1>7
    <3> QED BY <3>2, <3>3, <1>4
  <2>3. LogOf' = [c \in Devices |-> [i \in 1 .. LogLength(c)' |-> EventAt(c, i)']]
    BY DEF LogOf
  <2>4. DOMAIN LogOf = Devices
    BY LogTypes
  <2> HIDE DEF d
  <2> QED BY <2>1, <2>2, <2>3, <2>4, <1>1
<1>9. /\ d \in DOMAIN OwnerOf
      /\ SignerOf[e] = OwnerOf[d]
  BY <1>1 DEF OwnerOf, SignedByDevice
<1>10. PreviousOf[e] = IF LogOf[d] = << >> THEN ZeroHash ELSE LogOf[d][Len(LogOf[d])]
  <2>1. LogOf[d] = [i \in 1 .. LogLength(d) |-> EventAt(d, i)] /\ Len(LogOf[d]) = LogLength(d)
    BY LogTypes, <1>1
  <2>2. LogLength(d) = devices[d].last_sequence
    BY <1>1 DEF LogLength
  <2>3. CASE LogLength(d) = 0
    <3>1. PreviousOf[e] = ZeroHash
      BY <2>2, <2>3, <1>1 DEF TablesInv, DeviceChains
    <3>2. LogOf[d] = << >>
      BY <2>1, <2>3
    <3> QED BY <3>1, <3>2
  <2>4. CASE LogLength(d) > 0
    <3>1. PreviousOf[e] \in Stored(d) /\ SequenceOf[PreviousOf[e]] = LogLength(d)
      BY <2>2, <2>4, <1>1 DEF TablesInv, DeviceChains
    <3>2. EventAt(d, LogLength(d)) = PreviousOf[e]
      BY <3>1, <1>1, LogPositions
    <3>3. LogOf[d] # << >> /\ LogOf[d][Len(LogOf[d])] = EventAt(d, LogLength(d))
      BY <2>1, <2>4, <1>4
    <3> QED BY <3>2, <3>3
  <2> QED BY <2>3, <2>4, <1>4
<1>11. Log!Record(d, e)
  <2>1. SequenceOf[e] = Len(LogOf[d]) + 1
    BY LogTypes, <1>1, <1>4
  <2> QED BY <2>1, <1>3, <1>8, <1>9, <1>10 DEF Log!Record
<1> QED BY <1>1, <1>11

\* A step that leaves devices and the set of events alone leaves the logs alone.
LEMMA LogKept ==
  ASSUME TablesInv, devices' = devices, DOMAIN events' = DOMAIN events
  PROVE  OwnerOf' = OwnerOf /\ LogOf' = LogOf
<1>1. \A c \in Devices : LogLength(c)' = LogLength(c) /\ LogLength(c) \in Nat
  BY LogTypes DEF LogLength
<1>2. \A c \in Devices : Stored(c)' = Stored(c)
  BY DEF Stored
<1>3. \A c \in Devices, i \in Nat : EventAt(c, i)' = EventAt(c, i)
  BY <1>2 DEF EventAt
<1>4. \A c \in Devices :
         [i \in 1 .. LogLength(c)' |-> EventAt(c, i)']
           = [i \in 1 .. LogLength(c) |-> EventAt(c, i)]
  BY <1>1, <1>3
<1> QED BY <1>4 DEF LogOf, OwnerOf

\* A step that finalizes nothing leaves the sealed batches alone.
LEMMA SealedKept ==
  ASSUME TablesInv, NothingIsUndone, FinalizedHeights' = FinalizedHeights
  PROVE  SealedBlocks' = SealedBlocks
<1>1. LastFinalizedHeight' = LastFinalizedHeight
  BY DEF LastFinalizedHeight
<1>2. LastFinalizedHeight \in Nat /\ FinalizedHeights = 1 .. LastFinalizedHeight
  BY Tip DEF TablesInv
<1>3. \A k \in FinalizedHeights : blocks'[k].header = blocks[k].header
  BY DEF NothingIsUndone, FinalizedHeights
<1> QED BY <1>1, <1>2, <1>3 DEF SealedBlocks

\* The transaction that makes block h final seals its events.
LEMMA FinalizeRefines ==
  ASSUME TablesInv, TablesInv', NothingIsUndone, UNCHANGED devices,
         DOMAIN events' = DOMAIN events,
         NEW h \in DOMAIN blocks, h \notin FinalizedHeights,
         FinalizedHeights' = FinalizedHeights \cup {h}
  PROVE  Log!Next
<1> DEFINE n == LastFinalizedHeight
           batch == blocks[h].header.event_hashes
<1>1. /\ n \in Nat /\ FinalizedHeights = 1 .. n
      /\ LastFinalizedHeight' \in Nat /\ FinalizedHeights' = 1 .. LastFinalizedHeight'
  <2>1. n \in Nat /\ FinalizedHeights = 1 .. n
    BY Tip DEF TablesInv
  <2>2. /\ Cardinality(FinalizedHeights') = n + 1
        /\ IsFiniteSet(FinalizedHeights')
    <3>1. IsFiniteSet(FinalizedHeights) /\ Cardinality(FinalizedHeights) = n
      BY <2>1, FS_Interval
    <3> QED BY <3>1, FS_AddElement
  <2>3. FinalizedHeights' = 1 .. (n + 1)
    BY <2>2 DEF TablesInv, ChainLinked
  <2>4. LastFinalizedHeight' = n + 1
    <3>1. n + 1 \in FinalizedHeights' /\ \A k \in FinalizedHeights' : n + 1 >= k
      BY <2>1, <2>3
    <3>2. \A k \in FinalizedHeights' : k \in Nat
      BY <2>1, <2>3
    <3>3. (CHOOSE x \in FinalizedHeights' : \A y \in FinalizedHeights' : x >= y) = n + 1
      BY <3>1, <3>2, <2>1
    <3> QED BY <3>1, <3>3 DEF LastFinalizedHeight, Max
  <2> QED BY <2>1, <2>3, <2>4
<1>2. LastFinalizedHeight' = n + 1 /\ h = n + 1
  <2>1. h \in Nat
    BY DEF TablesInv, TablesTypeOK
  <2> DEFINE m == LastFinalizedHeight'
  <2>2. m \in Nat /\ 1 .. m = (1 .. n) \cup {h} /\ h \notin 1 .. n
    BY <1>1
  <2> HIDE DEF m, n
  <2>3. h \in 1 .. m /\ n \in Nat
    BY <2>2, <1>1
  <2>4. m = n + 1
    <3>1. m \in 1 .. m
      BY <2>2, <2>3
    <3>2. m = h \/ m \in 1 .. n
      BY <2>2, <3>1
    <3>3. h >= n + 1
      BY <2>2, <2>3
    <3>4. n + 1 \in 1 .. m
      BY <2>2, <2>3, <3>3
    <3>5. n + 1 = h
      BY <2>2, <2>3, <3>4
    <3> QED BY <3>2, <3>3, <3>5, <2>2, <2>3
  <2> QED BY <2>2, <2>3, <2>4 DEF m
<1>3. \A k \in DOMAIN blocks : blocks'[k].header = blocks[k].header
  BY DEF NothingIsUndone
<1>4. SealedBlocks' = Append(SealedBlocks, batch)
  <2>1. SealedBlocks' = [k \in 1 .. n + 1 |-> blocks'[k].header.event_hashes]
    BY <1>2 DEF SealedBlocks
  <2>2. \A k \in 1 .. n + 1 : blocks'[k].header.event_hashes = blocks[k].header.event_hashes
    <3>1. \A k \in 1 .. n + 1 : k \in DOMAIN blocks
      BY <1>1, <1>2 DEF FinalizedHeights
    <3> QED BY <3>1, <1>3
  <2> DEFINE s == SealedBlocks
  <2>3. s = [k \in 1 .. n |-> blocks[k].header.event_hashes] /\ Len(s) = n
    BY LogTypes DEF SealedBlocks
  <2> HIDE DEF s
  <2>4. Append(s, batch) = [k \in 1 .. n + 1 |-> blocks[k].header.event_hashes]
    BY <2>3, <1>1, <1>2
  <2> QED BY <2>1, <2>2, <2>4 DEF s
<1>5. batch # {}
  BY DEF TablesInv, TablesTypeOK
<1>6. batch \subseteq Log!Logged
  <2> SUFFICES ASSUME NEW e \in batch PROVE e \in Log!Logged
    OBVIOUS
  <2> DEFINE d == DeviceOf[e]
  <2>1. e \in DOMAIN events /\ e \in Events
    BY DEF TablesInv, TablesTypeOK, EventsMatchBlocks
  <2>2. d \in DOMAIN devices /\ d \in Devices /\ e \in Stored(d)
    BY <2>1, EventFields DEF TablesInv, DeviceChains, Stored
  <2>3. SequenceOf[e] \in 1 .. LogLength(d) /\ EventAt(d, SequenceOf[e]) = e
    BY <2>2, LogPositions
  <2>4. SequenceOf[e] \in 1 .. Len(LogOf[d]) /\ LogOf[d][SequenceOf[e]] = e
    BY <2>2, <2>3, LogTypes
  <2> QED BY <2>2, <2>4 DEF Log!Logged
<1>7. batch \cap Log!Sealed = {}
  <2> SUFFICES ASSUME NEW e \in batch, NEW k \in 1 .. Len(SealedBlocks),
                      e \in SealedBlocks[k]
               PROVE  FALSE
    BY DEF Log!Sealed
  <2>1. k \in FinalizedHeights /\ e \in blocks[k].header.event_hashes
    BY LogTypes, <1>1 DEF SealedBlocks
  <2>2. e \in DOMAIN events /\ k \in DOMAIN blocks
    BY <2>1 DEF TablesInv, EventsMatchBlocks, FinalizedHeights
  <2>3. events[e].block_height = k /\ events[e].block_height = h
    BY <2>1, <2>2 DEF TablesInv, EventsMatchBlocks
  <2> QED BY <2>1, <2>3
<1>8. OwnerOf' = OwnerOf /\ LogOf' = LogOf
  BY LogKept
<1>9. Log!Seal(batch)
  BY <1>4, <1>5, <1>6, <1>7, <1>8 DEF Log!Seal
<1>10. batch \in SUBSET (Log!Logged \ Log!Sealed)
  BY <1>6, <1>7
<1> QED BY <1>9, <1>10

----------------------------------------------------------------------------
\* Every step is a step of EventLog or invisible.
LEMMA StepRefines ==
  ASSUME LedgerInv, LedgerInv', [Next]_vars
  PROVE  [Log!Next]_(Log!logVars)
<1> USE DEF LedgerInv
<1>1. NothingIsUndone
  BY TablesStep
<1>2. ASSUME UNCHANGED devices, DOMAIN events' = DOMAIN events,
             FinalizedHeights' = FinalizedHeights
      PROVE  UNCHANGED Log!logVars
  BY <1>1, <1>2, LogKept, SealedKept
<1>3. CASE UNCHANGED tables
  BY <1>3, <1>2 DEF tables, FinalizedHeights
<1>4. CASE \E d \in Devices, key \in Keys : RegisterDevice(d, key)
  BY <1>4, EnrollRefines
<1>5. CASE \E a \in Authorities, key \in Keys : RegisterAuthority(a, key)
  BY <1>5, <1>2 DEF RegisterAuthority, FinalizedHeights
<1>6. CASE \E e \in Events :
              SequenceOf[e] >= 1 /\ SignedByDevice(e) /\ InsertVerifiedEvent(e)
  BY <1>6, AcceptRefines
<1>7. ASSUME NEW p \in Callers, pc[p] = "create", CreateProposal(Header(p))
      PROVE  UNCHANGED Log!logVars
  <2> DEFINE h == Header(p).height
  <2>1. h \notin DOMAIN blocks /\ UNCHANGED devices
    BY <1>7 DEF CreateProposal, Proposable, HeightFree
  <2>2. DOMAIN events' = DOMAIN events
    BY <1>7 DEF CreateProposal, AssignedTo
  <2>3. FinalizedHeights' = FinalizedHeights
    <3>1. /\ DOMAIN blocks' = DOMAIN blocks \cup {h}
          /\ blocks'[h].status = "proposed"
          /\ \A k \in DOMAIN blocks : blocks'[k] = blocks[k]
      BY <2>1, <1>7 DEF CreateProposal, WithRow, ProposedRow
    <3> QED BY <3>1, <2>1 DEF FinalizedHeights
  <2> QED BY <2>1, <2>2, <2>3, <1>2
<1>8. ASSUME NEW h \in DOMAIN blocks, NEW a \in DOMAIN Members(h),
             InsertBlockSignature(h, a, SignatureOf(h, a))
      PROVE  [Log!Next]_(Log!logVars)
  <2>1. UNCHANGED devices /\ DOMAIN events' = DOMAIN events
    BY <1>8 DEF InsertBlockSignature, FinalizedIn
  <2>2. FinalizedHeights' = FinalizedHeights \/ FinalizedHeights' = FinalizedHeights \cup {h}
    <3>1. /\ DOMAIN blocks' = DOMAIN blocks
          /\ \A k \in DOMAIN blocks : k # h => blocks'[k] = blocks[k]
      BY <1>8 DEF InsertBlockSignature
    <3>2. blocks[h].status = "finalized" => blocks'[h].status = "finalized"
      BY <1>1 DEF NothingIsUndone
    <3> QED BY <3>1, <3>2 DEF FinalizedHeights
  <2>3. CASE FinalizedHeights' = FinalizedHeights
    BY <2>1, <2>3, <1>2
  <2>4. CASE FinalizedHeights' = FinalizedHeights \cup {h} /\ h \notin FinalizedHeights
    BY <2>1, <2>4, <1>1, FinalizeRefines
  <2> QED BY <2>2, <2>3, <2>4
<1> QED
  BY <1>3, <1>4, <1>5, <1>6, <1>7, <1>8, EveryStepIsATransaction DEF Transaction

\* However many callers propose, sign, crash and interleave, what a client
\* sees is EventLog: events join the end of their device's log and whole
\* batches the end of one chain.
THEOREM LedgerImplementsEventLog == Spec => ImplementsEventLog
<1>1. Init => Log!Init
  BY InitRefines
<1>2. LedgerInv /\ LedgerInv' /\ [Next]_vars => [Log!Next]_(Log!logVars)
  BY StepRefines
<1> QED BY <1>1, <1>2, LedgerInvariant, PTL DEF Spec, ImplementsEventLog, Log!Spec

HIDE DEF Log!Next, Log!logVars
=============================================================================
