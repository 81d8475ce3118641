--------------------------- MODULE VerifierProofs ---------------------------
(***************************************************************************)
(* Proofs about Verifier: verify_all raises no false alarm, for any devices *)
(* and events, any proposers and authorities, and any interleaving of its   *)
(* queries with the writes of the gateway; and it finds every damage of the *)
(* integrity benchmark, in any row of any database.                        *)
(*                                                                         *)
(* The inductive invariant says of each variable of verify_all in which     *)
(* respect it may be out of date: a block that was read as a proposal may   *)
(* be final now, and events may have been added; everything else it has     *)
(* read is still true.  A second one, for a damaged database, says which    *)
(* comparison will find the damage while that is still ahead.              *)
(***************************************************************************)
EXTENDS Verifier, LedgerProofs, SequenceTheorems, WellFoundedInduction

----------------------------------------------------------------------------
(* The invariant. *)

\* The events that are stored are finitely many, and a header has the fields
\* that its hash is made of.
Complete ==
  /\ IsFiniteSet(DOMAIN events)
  /\ \A h \in DOMAIN blocks :
        blocks[h].header = [height           |-> blocks[h].header.height,
                            previous_hash    |-> blocks[h].header.previous_hash,
                            event_hashes     |-> blocks[h].header.event_hashes,
                            proposer_id      |-> blocks[h].header.proposer_id,
                            authorities      |-> blocks[h].header.authorities,
                            quorum_threshold |-> blocks[h].header.quorum_threshold]

\* The row of a block that is not damaged; its status may be out of date.
TrueRow(h, status) ==
  [height        |-> h,
   previous_hash |-> blocks[h].header.previous_hash,
   merkle_root   |-> SetToSeq(blocks[h].header.event_hashes),
   event_count   |-> Cardinality(blocks[h].header.event_hashes),
   proposer_id   |-> blocks[h].header.proposer_id,
   authority_set |-> blocks[h].header.authorities,
   quorum        |-> blocks[h].header.quorum_threshold,
   status        |-> status,
   block_hash    |-> BlockHash(blocks[h].header)]

TrueRows == {TrueRow(h, status) : h \in DOMAIN blocks, status \in {"proposed", "finalized"}}

HashBelow(h) == IF h = 1 THEN ZeroHash ELSE BlockHash(blocks[h - 1].header)

\* What is left of the snapshot are the blocks from the expected one on; it
\* is behind the tables in one way only.
RowsAreTrue ==
  /\ rows \in Seq(TrueRows) /\ expected \in Nat \ {0}
  /\ check \in {"references", "signatures", "tip"} => rows # << >>
  /\ \A i \in 1 .. Len(rows) :
        /\ rows[i].height = expected + i - 1
        /\ rows[i].status = "finalized" => rows[i].height \in FinalizedHeights
        /\ i < Len(rows) => rows[i].status = "finalized"
  /\ rows # << >> => previous = HashBelow(expected)
  /\ rows # << >> /\ ~ written => DOMAIN blocks = 1 .. (expected + Len(rows) - 1)
  /\ check = "tip" => Head(rows).status # "finalized"

BlockIsTrue ==
  /\ check = "references" => left \subseteq blocks[expected].header.event_hashes
  /\ check = "signatures" => members = Members(expected)

Seen(d) == d \in DOMAIN chain

\* Of each device the events that are left follow the one that was seen last,
\* without a gap; and if nothing was written, no event is forgotten.
ChainIsTrue ==
  /\ chain = [d \in DOMAIN chain |-> chain[d]]
  /\ check # "events" => chain = Nothing
  /\ check = "events" =>
       /\ \A d \in DOMAIN chain : d \in DOMAIN devices /\ chain[d] \in Stored(d)
       /\ \A e \in left :
             /\ Seen(DeviceOf[e]) => SequenceOf[chain[DeviceOf[e]]] < SequenceOf[e]
             /\ SequenceOf[e] > 1 =>
                  \/ PreviousOf[e] \in left
                  \/ Seen(DeviceOf[e]) /\ chain[DeviceOf[e]] = PreviousOf[e]
       /\ ~ written =>
            \A e \in DOMAIN events \ left :
              /\ left # {} => Seen(DeviceOf[e])
              /\ Seen(DeviceOf[e]) => SequenceOf[e] <= SequenceOf[chain[DeviceOf[e]]]

MappingsAreTrue ==
  check = "mappings" =>
    \A pair \in left :
      \E e \in DOMAIN events : /\ pair = <<e, events[e].block_height>>
                               /\ events[e].block_height # 0

Alarms == errors \subseteq StaleAlarms /\ (~ written => errors = {})

\* What verify_all has of a sound database.
Sound == RowsAreTrue /\ BlockIsTrue /\ ChainIsTrue /\ MappingsAreTrue /\ Alarms

ReadingInv ==
  /\ LedgerInv /\ Complete /\ VerifierTypeOK
  /\ check = "events" => left \subseteq DOMAIN events
  /\ damage = Undamaged => Sound

----------------------------------------------------------------------------
(* Numbers, sequences and sets. *)

\* A set of natural numbers has a least element.
LEMMA LeastElement ==
  ASSUME NEW S \in SUBSET Nat, S # {}
  PROVE  \E m \in S : \A x \in S : m <= x
<1> DEFINE R == OpToRel(<, Nat)
<1>1. IsWellFoundedOn(R, Nat)
  BY NatLessThanWellFounded
<1>2. \E m \in S : \A x \in S : ~ (<<x, m>> \in R)
  <2> HIDE DEF R
  <2> QED BY <1>1, WFMin
<1>3. PICK m \in S : \A x \in S : ~ (<<x, m>> \in R)
  BY <1>2
<1>4. \A x \in S : ~ (x < m)
  BY <1>3 DEF OpToRel
<1>5. \A x \in S : m <= x
  BY <1>4
<1> QED BY <1>5

\* SetToSeq lists a finite set, each element once.
LEMMA SetListed ==
  ASSUME NEW S, IsFiniteSet(S)
  PROVE  /\ SetToSeq(S) \in Seq(S)
         /\ Len(SetToSeq(S)) = Cardinality(S)
         /\ IsInjective(SetToSeq(S))
         /\ Range(SetToSeq(S)) = S
<1> DEFINE n == Cardinality(S)
           q == SetToSeq(S)
<1>1. n \in Nat
  BY FS_CardinalityType
<1>2. \E f \in [1 .. n -> S] : IsInjective(f)
  <2>1. ExistsBijection(1 .. n, S)
    BY FS_CardinalityType
  <2>2. PICK f : f \in Bijection(1 .. n, S)
    BY <2>1 DEF ExistsBijection
  <2> QED BY <2>2 DEF Bijection, Injection, IsInjective
<1>3. q \in [1 .. n -> S] /\ IsInjective(q)
  BY <1>2 DEF SetToSeq
<1> HIDE DEF q
<1>4. q \in Seq(S) /\ Len(q) = n
  <2>1. q \in Seq(S)
    <3>1. \A k \in Nat : [1 .. k -> S] \subseteq Seq(S)
      BY SeqDef, Zenon
    <3> QED BY <1>1, <1>3, <3>1, Zenon
  <2>2. Len(q) \in Nat /\ 1 .. Len(q) = 1 .. n
    BY <1>3, <2>1, LenProperties
  <2> QED BY <1>1, <2>1, <2>2
<1>5. q \in Injection(1 .. n, S)
  BY <1>3 DEF Injection, IsInjective
<1>6. Range(q) = S
  <2>1. Cardinality(1 .. n) = n
    BY <1>1, FS_Interval
  <2>2. q \in Surjection(1 .. n, S)
    <3> HIDE DEF n
    <3> QED BY <1>5, <2>1, FS_Injection DEF n
  <2> QED BY <2>2 DEF Surjection, Range
<1> QED BY <1>3, <1>4, <1>6 DEF q

\* The i-th of the heights 1 .. n is i.
LEMMA IthOfInterval ==
  ASSUME NEW n \in Nat, NEW i \in 1 .. n
  PROVE  Ith(1 .. n, i) = i
<1>1. \A h \in 1 .. n : {g \in 1 .. n : g <= h} = 1 .. h
  OBVIOUS
<1>2. \A h \in 1 .. n : Cardinality(1 .. h) = h
  BY FS_Interval
<1>3. \A h \in 1 .. n : Cardinality({g \in 1 .. n : g <= h}) = h
  BY <1>1, <1>2
<1> QED BY <1>3 DEF Ith

\* The highest of the heights 1 .. n is n.
LEMMA MaxOfInterval ==
  ASSUME NEW n \in Nat \ {0}
  PROVE  Max(1 .. n) = n
<1>1. n \in 1 .. n /\ \A y \in 1 .. n : n >= y
  OBVIOUS
<1>2. \A x \in 1 .. n : (\A y \in 1 .. n : x >= y) => x = n
  OBVIOUS
<1> QED BY <1>1, <1>2 DEF Max

----------------------------------------------------------------------------
(* The queries, and the tables they read. *)

\* Of an undamaged database every query returns what is stored.
LEMMA NothingDamaged ==
  ASSUME damage = Undamaged
  PROVE  /\ \A h : BlockEventHashes(h) = SetToSeq(blocks[h].header.event_hashes)
         /\ \A h : BlockRow(h) = TrueRow(h, blocks[h].status)
         /\ StoredHeights = DOMAIN blocks
         /\ StoredEvents = DOMAIN events
         /\ \A e : /\ EventSequence(e) = SequenceOf[e]
                   /\ EventPrevious(e) = PreviousOf[e]
                   /\ EventSigner(e) = SignerOf[e]
                   /\ PayloadAsSigned(e)
                   /\ EventHeight(e) = events[e].block_height
                   /\ EventFinalized(e) = events[e].finalized
         /\ \A h : BlockAuthorities(h) = [a \in DOMAIN Members(h) |-> Members(h)[a]]
         /\ \A h : BlockSignatures(h) = [a \in DOMAIN blocks[h].signatures |->
                                           blocks[h].signatures[a]]
         /\ \A d : DeviceKnown(d) <=> d \in DOMAIN devices
<1>1. damage.kind = "none"
  BY DEF Undamaged
<1>2. \A kind, row, stored, damaged :
        kind # "none" => Read(kind, row, stored, damaged) = stored
  BY <1>1 DEF Read
<1>3. /\ StoredHeights = DOMAIN blocks /\ StoredEvents = DOMAIN events
      /\ \A d : DeviceKnown(d) <=> d \in DOMAIN devices
      /\ \A e : PayloadAsSigned(e)
  BY <1>1 DEF Read, StoredHeights, StoredEvents, DeviceKnown, PayloadAsSigned
<1>8. \A e : /\ EventSequence(e) = SequenceOf[e]
             /\ EventPrevious(e) = PreviousOf[e]
             /\ EventSigner(e) = SignerOf[e]
             /\ EventHeight(e) = events[e].block_height
             /\ EventFinalized(e) = events[e].finalized
  BY <1>1 DEF Read, EventSequence, EventPrevious, EventSigner, EventHeight, EventFinalized
<1>4. \A h : BlockEventHashes(h) = SetToSeq(blocks[h].header.event_hashes)
  BY <1>2 DEF BlockEventHashes
<1>5. \A h : BlockRow(h) = TrueRow(h, blocks[h].status)
  BY <1>1 DEF Read, BlockRow, TrueRow
<1>6. \A h : BlockAuthorities(h) = [a \in DOMAIN Members(h) |-> Members(h)[a]]
  BY <1>2 DEF BlockAuthorities
<1>7. \A h : BlockSignatures(h) = [a \in DOMAIN blocks[h].signatures |->
                                     blocks[h].signatures[a]]
  BY <1>1 DEF Read, BlockSignatures
<1> QED BY <1>3, <1>4, <1>5, <1>6, <1>7, <1>8

\* The heights are 1 .. n, and all blocks but the highest are final.
LEMMA Heights ==
  ASSUME LedgerInv
  PROVE  \E n \in Nat : DOMAIN blocks = 1 .. n /\ 1 .. (n - 1) \subseteq FinalizedHeights
<1> DEFINE m == LastFinalizedHeight
<1>1. m \in Nat /\ FinalizedHeights = 1 .. m
  BY Tip DEF LedgerInv, TablesInv
<1>2. \A h \in DOMAIN blocks : h \in Nat \ {0} /\ h <= m + 1
  BY <1>1 DEF LedgerInv, TablesInv, TablesTypeOK, ChainLinked
<1>3. 1 .. m \subseteq DOMAIN blocks
  BY <1>1 DEF FinalizedHeights
<1> DEFINE D == DOMAIN blocks
<1>4. \A h \in D : h \in 1 .. (m + 1)
  BY <1>1, <1>2
<1>5. 1 .. m \subseteq D
  BY <1>3
<1> HIDE DEF m, D
<1>6. D = 1 .. (m + 1) \/ D = 1 .. m
  <2>1. CASE m + 1 \in D
    <3>1. \A h \in 1 .. (m + 1) : h \in D
      BY <1>1, <1>5, <2>1
    <3> QED BY <1>4, <3>1
  <2>2. CASE m + 1 \notin D
    <3>1. \A h \in D : h \in 1 .. m
      BY <1>1, <1>4, <2>2
    <3> QED BY <1>5, <3>1
  <2> QED BY <2>1, <2>2
<1>7. PICK n \in Nat : D = 1 .. n /\ 1 .. (n - 1) \subseteq 1 .. m
  <2>1. CASE D = 1 .. (m + 1)
    <3>1. m + 1 \in Nat /\ (m + 1) - 1 = m
      BY <1>1
    <3> QED BY <2>1, <3>1
  <2>2. CASE D = 1 .. m
    BY <1>1, <2>2
  <2> QED BY <1>6, <2>1, <2>2
<1> QED BY <1>1, <1>7 DEF D

\* What a block is, as far as verify_all compares it.
LEMMA BlockFacts ==
  ASSUME LedgerInv, Complete, NEW h \in DOMAIN blocks
  PROVE  /\ h \in Nat \ {0}
         /\ blocks[h].header.height = h
         /\ blocks[h].header.previous_hash = HashBelow(h)
         /\ blocks[h].header.event_hashes \subseteq DOMAIN events
         /\ IsFiniteSet(blocks[h].header.event_hashes)
         /\ Members(h) = [a \in DOMAIN Members(h) |-> Members(h)[a]]
         /\ blocks[h].status \in {"proposed", "finalized"}
<1>1. /\ h \in Nat \ {0} /\ blocks[h].status \in {"proposed", "finalized"}
      /\ Members(h) \in Snapshots
  BY DEF LedgerInv, TablesInv, TablesTypeOK, Members
<1>2. blocks[h].header.height = h /\ blocks[h].header.previous_hash = HashBelow(h)
  BY <1>1 DEF LedgerInv, TablesInv, ChainLinked, HashBelow
<1>3. blocks[h].header.event_hashes \subseteq DOMAIN events
  BY DEF LedgerInv, TablesInv, EventsMatchBlocks
<1>4. IsFiniteSet(blocks[h].header.event_hashes)
  BY <1>3, FS_Subset DEF Complete
<1>5. Members(h) = [a \in DOMAIN Members(h) |-> Members(h)[a]]
  BY <1>1, SnapshotType
<1> QED BY <1>1, <1>2, <1>3, <1>4, <1>5

----------------------------------------------------------------------------
(* The queries of verify_all on a sound database, one after the other. *)

\* The rows of the snapshot are read in the order of their heights.
LEMMA SnapshotTaken ==
  ASSUME ReadingInv, damage = Undamaged, Start
  PROVE  Sound'
<1> USE DEF Start, vars
<1>1. LedgerInv /\ Complete
  BY DEF ReadingInv
<1>2. PICK n \in Nat : DOMAIN blocks = 1 .. n /\ 1 .. (n - 1) \subseteq FinalizedHeights
  BY <1>1, Heights
<1>3. Cardinality(1 .. n) = n
  BY <1>2, FS_Interval
<1>4. AllBlocks = [i \in 1 .. n |-> TrueRow(i, blocks[i].status)]
  <2>1. StoredHeights = 1 .. n
    BY <1>2, NothingDamaged
  <2>2. \A i \in 1 .. n : BlockRow(Ith(1 .. n, i)) = TrueRow(i, blocks[i].status)
    BY <1>2, NothingDamaged, IthOfInterval
  <2> QED BY <1>3, <2>1, <2>2 DEF AllBlocks
<1>5. \A i \in 1 .. n : TrueRow(i, blocks[i].status) \in TrueRows
  <2>1. \A i \in 1 .. n : blocks[i].status \in {"proposed", "finalized"}
    BY <1>1, <1>2, BlockFacts
  <2> QED BY <1>2, <2>1 DEF TrueRows
<1>6. rows' \in [1 .. n -> TrueRows]
  BY <1>4, <1>5
<1>7. rows' \in Seq(TrueRows)
  <2>1. [1 .. n -> TrueRows] \subseteq Seq(TrueRows)
    BY <1>2, SeqDef, Zenon
  <2> QED BY <1>6, <2>1
<1>8. Len(rows') = n
  <2>1. Len(rows') \in Nat /\ 1 .. Len(rows') = 1 .. n
    BY <1>6, <1>7, LenProperties
  <2> QED BY <1>2, <2>1
<1>9. TrueRows' = TrueRows
  BY DEF TrueRows, TrueRow
<1>10. ASSUME NEW i \in 1 .. n
       PROVE  /\ rows'[i].height = i
              /\ rows'[i].status = blocks[i].status
              /\ rows'[i].status = "finalized" => i \in FinalizedHeights
              /\ i < n => rows'[i].status = "finalized"
  <2>1. rows'[i] = TrueRow(i, blocks[i].status)
    BY <1>4
  <2>2. rows'[i].height = i /\ rows'[i].status = blocks[i].status
    BY <2>1 DEF TrueRow
  <2>3. i < n => i \in FinalizedHeights
    BY <1>2
  <2> QED BY <1>2, <2>2, <2>3 DEF FinalizedHeights
<1>11. RowsAreTrue'
  <2>1. FinalizedHeights' = FinalizedHeights
    BY DEF FinalizedHeights
  <2>2. \A i \in 1 .. n : rows'[i].height = 1 + i - 1
    BY <1>10
  <2>3. DOMAIN blocks' = 1 .. (1 + n - 1)
    BY <1>2
  <2> QED BY <1>2, <1>7, <1>8, <1>9, <1>10, <2>1, <2>2, <2>3 DEF RowsAreTrue, HashBelow
<1> QED BY <1>11 DEF Sound, BlockIsTrue, ChainIsTrue, MappingsAreTrue, Alarms, Nothing

\* The row in hand is the one of the expected height.
LEMMA RowInHand ==
  ASSUME ReadingInv, RowsAreTrue, rows # << >>
  PROVE  /\ expected \in DOMAIN blocks
         /\ Head(rows).height = expected
         /\ Head(rows).previous_hash = blocks[expected].header.previous_hash
         /\ Head(rows).merkle_root = SetToSeq(blocks[expected].header.event_hashes)
         /\ Head(rows).event_count = Cardinality(blocks[expected].header.event_hashes)
         /\ Head(rows).proposer_id = blocks[expected].header.proposer_id
         /\ Head(rows).authority_set = blocks[expected].header.authorities
         /\ Head(rows).quorum = blocks[expected].header.quorum_threshold
         /\ Head(rows).block_hash = BlockHash(blocks[expected].header)
         /\ Head(rows).status = "finalized" => expected \in FinalizedHeights
         /\ Head(rows).status # "finalized" => Len(rows) = 1
<1>1. rows \in Seq(TrueRows) /\ Len(rows) \in Nat /\ 1 \in 1 .. Len(rows)
  BY EmptySeq, LenProperties DEF RowsAreTrue
<1>2. Head(rows) = rows[1] /\ rows[1] \in TrueRows
  BY <1>1, HeadTailProperties, ElementOfSeq
<1>3. PICK h \in DOMAIN blocks, status \in {"proposed", "finalized"} :
        rows[1] = TrueRow(h, status)
  BY <1>2 DEF TrueRows
<1>4. rows[1].height = h /\ rows[1].status = status
  BY <1>3 DEF TrueRow
<1>5. expected \in Nat /\ rows[1].height = expected
  BY <1>1 DEF RowsAreTrue
<1>6. h = expected /\ rows[1] = TrueRow(expected, status)
  BY <1>3, <1>4, <1>5
<1>7. /\ rows[1].previous_hash = blocks[expected].header.previous_hash
      /\ rows[1].merkle_root = SetToSeq(blocks[expected].header.event_hashes)
      /\ rows[1].event_count = Cardinality(blocks[expected].header.event_hashes)
      /\ rows[1].proposer_id = blocks[expected].header.proposer_id
      /\ rows[1].authority_set = blocks[expected].header.authorities
      /\ rows[1].quorum = blocks[expected].header.quorum_threshold
      /\ rows[1].block_hash = BlockHash(blocks[expected].header)
  BY ONLY <1>6 DEF TrueRow
<1>8. ASSUME rows[1].status # "finalized" PROVE Len(rows) = 1
  <2>1. ~ (1 < Len(rows))
    BY <1>1, <1>8 DEF RowsAreTrue
  <2>2. \A k \in Nat : 1 \in 1 .. k => k = 1 \/ 1 < k
    BY SMT
  <2>3. Len(rows) \in Nat /\ 1 \in 1 .. Len(rows)
    BY <1>1
  <2> QED BY ONLY <2>1, <2>2, <2>3, Zenon
<1>9. rows[1].status = "finalized" => expected \in FinalizedHeights
  BY <1>1, <1>5 DEF RowsAreTrue
<1>10. expected \in DOMAIN blocks
  BY ONLY <1>3, <1>6
<1>11. Head(rows) = rows[1]
  BY <1>2
<1> QED BY ONLY <1>5, <1>7, <1>8, <1>9, <1>10, <1>11

\* As long as no row is taken, the rows stay true.
LEMMA RowsStay ==
  ASSUME RowsAreTrue, UNCHANGED <<blocks, rows, expected, previous, written>>,
         check' \in {"references", "signatures", "tip"} => rows # << >>,
         check' = "tip" => Head(rows).status # "finalized"
  PROVE  RowsAreTrue'
<1>1. TrueRows' = TrueRows
  BY DEF TrueRows, TrueRow
<1>2. FinalizedHeights' = FinalizedHeights /\ HashBelow(expected)' = HashBelow(expected)
  BY DEF FinalizedHeights, HashBelow
<1> QED BY <1>1, <1>2 DEF RowsAreTrue

\* Nor is there anything to be wrong about when no row is left.
LEMMA NoRowIsLeft ==
  ASSUME rows' = << >>, expected' \in Nat \ {0},
         check' \notin {"references", "signatures", "tip"}
  PROVE  RowsAreTrue'
<1>1. rows' \in Seq(TrueRows') /\ Len(rows') = 0
  BY EmptySeq
<1>2. \A i \in 1 .. 0 : FALSE
  OBVIOUS
<1>3. \A i \in 1 .. Len(rows') : FALSE
  BY <1>1, <1>2, Zenon
<1> QED BY <1>1, <1>3 DEF RowsAreTrue

\* The header is compared with the one below and with its own hashes.
LEMMA HeaderChecked ==
  ASSUME ReadingInv, damage = Undamaged, CheckHeader
  PROVE  Sound'
<1> USE DEF CheckHeader, Goto, vars
<1> DEFINE row == Head(rows)
           hashes == BlockEventHashes(row.height)
<1>1. Sound /\ LedgerInv /\ Complete
  BY DEF ReadingInv
<1>2. /\ expected \in DOMAIN blocks
      /\ row.height = expected
  BY <1>1, RowInHand DEF Sound
<1>3. /\ row.previous_hash = blocks[expected].header.previous_hash
      /\ row.merkle_root = SetToSeq(blocks[expected].header.event_hashes)
      /\ row.event_count = Cardinality(blocks[expected].header.event_hashes)
      /\ row.proposer_id = blocks[expected].header.proposer_id
      /\ row.authority_set = blocks[expected].header.authorities
      /\ row.quorum = blocks[expected].header.quorum_threshold
      /\ row.block_hash = BlockHash(blocks[expected].header)
  BY <1>1, RowInHand DEF Sound
<1>4. hashes = SetToSeq(blocks[expected].header.event_hashes)
  BY <1>2, NothingDamaged
<1>5. /\ Len(hashes) = row.event_count
      /\ Range(row.merkle_root) = blocks[expected].header.event_hashes
      /\ Range(hashes) = blocks[expected].header.event_hashes
  BY <1>1, <1>2, <1>3, <1>4, BlockFacts, SetListed
<1>6. row.previous_hash = previous
  BY <1>1, <1>2, <1>3, BlockFacts DEF Sound, RowsAreTrue
<1>7. BlockHash(HeaderFromRow(row)) = row.block_hash
  <2>1. HeaderFromRow(row) = blocks[expected].header
    BY <1>1, <1>2, <1>3, <1>5, BlockFacts DEF HeaderFromRow, Complete
  <2> QED BY <1>3, <2>1
<1>8. RootMatches(row, hashes)
  BY <1>3, <1>4 DEF RootMatches
<1>9. errors' = errors
  <2> HIDE DEF row, hashes
  <2>1. errors' = errors \cup (ErrorIf(row.height # expected, "block height gap")
          \cup ErrorIf(row.previous_hash # previous, "previous hash mismatch")
          \cup ErrorIf(BlockHash(HeaderFromRow(row)) # row.block_hash, "block hash mismatch")
          \cup ErrorIf(Len(hashes) # row.event_count, "event count mismatch")
          \cup ErrorIf(~ RootMatches(row, hashes), "Merkle root mismatch"))
    BY DEF row, hashes, Found
  <2> QED BY <1>2, <1>5, <1>6, <1>7, <1>8, <2>1 DEF ErrorIf
<1>10. left' = blocks[expected].header.event_hashes /\ check' = "references"
  BY <1>5
<1>11. RowsAreTrue'
  BY <1>1, <1>10, RowsStay DEF Sound
<1>12. BlockIsTrue' /\ ChainIsTrue' /\ MappingsAreTrue' /\ Alarms'
  BY <1>1, <1>9, <1>10 DEF Sound, BlockIsTrue, ChainIsTrue, MappingsAreTrue, Alarms
<1> QED BY <1>11, <1>12 DEF Sound

\* When a final block is done with, the next row is the one of the next height;
\* after a proposal there is none.
LEMMA RowTaken ==
  ASSUME ReadingInv, RowsAreTrue, rows # << >>, rows' = Tail(rows),
         UNCHANGED <<blocks, written>>, check' = "block",
         \/ /\ Head(rows).status = "finalized"
            /\ expected' = expected + 1 /\ previous' = Head(rows).block_hash
         \/ Head(rows).status # "finalized" /\ UNCHANGED <<expected, previous>>
  PROVE  RowsAreTrue'
<1>1. rows \in Seq(TrueRows) /\ expected \in Nat \ {0}
  BY DEF RowsAreTrue
<1>2. /\ rows' \in Seq(TrueRows) /\ Len(rows') = Len(rows) - 1 /\ Len(rows) \in Nat \ {0}
      /\ \A i \in 1 .. Len(rows') : rows'[i] = rows[i + 1]
  BY <1>1, HeadTailProperties, EmptySeq
<1>3. Head(rows) = rows[1]
  BY <1>1, HeadTailProperties
<1>4. TrueRows' = TrueRows /\ FinalizedHeights' = FinalizedHeights
  BY DEF TrueRows, TrueRow, FinalizedHeights
<1>5. CASE Head(rows).status = "finalized"
  <2>1. expected' = expected + 1 /\ previous' = Head(rows).block_hash
    BY <1>5
  <2>2. previous' = BlockHash(blocks[expected].header)
    BY <2>1, RowInHand
  <2>3. HashBelow(expected + 1) = BlockHash(blocks[expected].header)
    BY <1>1 DEF HashBelow
  <2>4. HashBelow(expected)' = HashBelow(expected + 1)
    BY <2>1 DEF HashBelow
  <2>5. ASSUME NEW i \in 1 .. Len(rows')
        PROVE  /\ rows'[i].height = expected' + i - 1
               /\ rows'[i].status = "finalized" => rows'[i].height \in FinalizedHeights
               /\ i < Len(rows') => rows'[i].status = "finalized"
    <3>1. i + 1 \in 1 .. Len(rows) /\ rows'[i] = rows[i + 1]
      BY <1>2
    <3>2. rows[i + 1].height = expected + (i + 1) - 1
      BY <3>1 DEF RowsAreTrue
    <3>3. /\ rows[i + 1].status = "finalized" => rows[i + 1].height \in FinalizedHeights
          /\ i + 1 < Len(rows) => rows[i + 1].status = "finalized"
      BY <3>1 DEF RowsAreTrue
    <3> QED BY <1>1, <1>2, <2>1, <3>1, <3>2, <3>3
  <2>6. rows' # << >> /\ ~ written => DOMAIN blocks = 1 .. (expected' + Len(rows') - 1)
    <3>1. expected' + Len(rows') - 1 = expected + Len(rows) - 1
      BY <1>1, <1>2, <2>1
    <3> QED BY <3>1 DEF RowsAreTrue
  <2>7. expected' \in Nat \ {0} /\ check' \notin {"references", "signatures", "tip"}
    BY <1>1, <2>1
  <2>8. previous' = HashBelow(expected)'
    BY <2>2, <2>3, <2>4
  <2> QED BY <1>2, <1>4, <2>5, <2>6, <2>7, <2>8 DEF RowsAreTrue
<1>6. CASE Head(rows).status # "finalized"
  <2>1. Len(rows') = 0
    BY <1>2, <1>6, RowInHand
  <2>2. rows' = << >>
    BY <1>2, <2>1, EmptySeq
  <2>3. expected' \in Nat \ {0}
    <3>1. expected' = expected
      BY <1>6, Zenon
    <3> QED BY <1>1, <3>1
  <2> QED BY <2>2, <2>3, NoRowIsLeft
<1> QED BY <1>5, <1>6

\* An event of a block is where the block says, and final if the block was.
LEMMA ReferenceChecked ==
  ASSUME ReadingInv, damage = Undamaged, CheckReference
  PROVE  Sound'
<1> USE DEF CheckReference, Goto, vars
<1> DEFINE e == CHOOSE e \in left : TRUE
           row == Head(rows)
<1>1. Sound /\ LedgerInv /\ Complete
  BY DEF ReadingInv
<1>2. rows # << >>
  BY <1>1 DEF Sound, RowsAreTrue
<1>3. /\ expected \in DOMAIN blocks /\ row.height = expected
      /\ row.status = "finalized" => expected \in FinalizedHeights
  BY <1>1, <1>2, RowInHand DEF Sound
<1>4. e \in left /\ e \in blocks[expected].header.event_hashes
  BY <1>1 DEF Sound, BlockIsTrue
<1>5. e \in DOMAIN events /\ events[e].block_height = expected
  BY <1>1, <1>3, <1>4 DEF LedgerInv, TablesInv, EventsMatchBlocks
<1>6. row.status = "finalized" => events[e].finalized
  <2> HIDE DEF row, e
  <2>1. \A f \in DOMAIN events :
          events[f].finalized <=> events[f].block_height \in FinalizedHeights
    BY <1>1 DEF LedgerInv, TablesInv, EventsMatchBlocks
  <2> QED BY <1>3, <1>5, <2>1
<1>7. errors' = errors
  <2> HIDE DEF row, e
  <2>1. errors' = errors \cup
          IF e \notin StoredEvents
            THEN {"missing event"}
            ELSE ErrorIf(EventHeight(e) # row.height, "inconsistent block_height")
                   \cup ErrorIf(FlagDiffers(row, e), "event not finalized")
    BY DEF row, e, Found
  <2>2. e \in StoredEvents /\ EventHeight(e) = row.height /\ ~ FlagDiffers(row, e)
    <3>1. /\ StoredEvents = DOMAIN events /\ EventHeight(e) = events[e].block_height
          /\ EventFinalized(e) = events[e].finalized
      BY NothingDamaged
    <3> QED BY <1>3, <1>5, <1>6, <3>1 DEF FlagDiffers
  <2> QED BY <2>1, <2>2 DEF ErrorIf
<1>8. left' \subseteq left /\ check' = "references"
  OBVIOUS
<1>9. RowsAreTrue'
  BY <1>1, <1>2, <1>8, RowsStay DEF Sound
<1>10. BlockIsTrue' /\ ChainIsTrue' /\ MappingsAreTrue' /\ Alarms'
  BY <1>1, <1>7, <1>8 DEF Sound, BlockIsTrue, ChainIsTrue, MappingsAreTrue, Alarms
<1> QED BY <1>9, <1>10 DEF Sound

\* The snapshot of a block is the one its header commits to.
LEMMA AuthoritiesChecked ==
  ASSUME ReadingInv, damage = Undamaged, CheckAuthorities
  PROVE  Sound'
<1> USE DEF CheckAuthorities, Goto, vars
<1>1. Sound /\ LedgerInv /\ Complete
  BY DEF ReadingInv
<1>2. rows # << >>
  BY <1>1 DEF Sound, RowsAreTrue
<1>3. /\ expected \in DOMAIN blocks /\ Head(rows).height = expected
      /\ Head(rows).authority_set = Members(expected)
  BY <1>1, <1>2, RowInHand DEF Sound, Members
<1>4. members' = Members(expected)
  <2>1. BlockAuthorities(expected) = [a \in DOMAIN Members(expected) |-> Members(expected)[a]]
    BY NothingDamaged
  <2> QED BY <1>1, <1>3, <2>1, BlockFacts
<1>5. errors' = errors
  BY <1>3, <1>4 DEF Found, ErrorIf
<1>6. RowsAreTrue'
  BY <1>1, <1>2, RowsStay DEF Sound
<1>7. BlockIsTrue' /\ ChainIsTrue' /\ MappingsAreTrue' /\ Alarms'
  <2>1. members' = Members(expected)'
    BY <1>4 DEF Members
  <2> QED BY <1>1, <1>5, <2>1 DEF Sound, BlockIsTrue, ChainIsTrue, MappingsAreTrue, Alarms
<1> QED BY <1>6, <1>7 DEF Sound

\* All signatures of a block are valid, and a block that was final has enough.
LEMMA SignaturesChecked ==
  ASSUME ReadingInv, damage = Undamaged, CheckSignatures
  PROVE  Sound'
<1> USE DEF Goto, vars
<1> DEFINE row == Head(rows)
           signatures == BlockSignatures(row.height)
           valid == {a \in DOMAIN signatures :
                       /\ a \in DOMAIN members
                       /\ Verifies(members[a], signatures[a], row.block_hash)}
<1>1. Sound /\ LedgerInv /\ Complete /\ check = "signatures"
  BY DEF ReadingInv, CheckSignatures
<1>2. rows # << >>
  BY <1>1 DEF Sound, RowsAreTrue
<1>3. /\ expected \in DOMAIN blocks /\ row.height = expected
      /\ row.quorum = blocks[expected].header.quorum_threshold
      /\ row.block_hash = BlockHash(blocks[expected].header)
      /\ row.status = "finalized" => blocks[expected].status = "finalized"
  BY <1>1, <1>2, RowInHand DEF Sound, FinalizedHeights
<1>4. signatures = [a \in DOMAIN blocks[expected].signatures |->
                       blocks[expected].signatures[a]]
  BY <1>3, NothingDamaged
<1>5. members = Members(expected)
  BY <1>1 DEF Sound, BlockIsTrue
<1>6. valid = DOMAIN signatures /\ DOMAIN signatures = DOMAIN blocks[expected].signatures
  BY <1>1, <1>3, <1>4, <1>5 DEF LedgerInv, TablesInv, QuorumIsFinality, Verifies
<1>7. row.status = "finalized" => ~ (Cardinality(valid) < row.quorum)
  <2> DEFINE n == Cardinality(DOMAIN blocks[expected].signatures)
  <2>1. IsFiniteSet(DOMAIN blocks[expected].signatures)
    BY <1>1, <1>3, FiniteAuthorities, FS_Subset DEF LedgerInv, TablesInv, TablesTypeOK
  <2>2. n \in Nat /\ row.quorum \in Nat
    BY <1>1, <1>3, <2>1, FS_CardinalityType DEF LedgerInv, TablesInv, TablesTypeOK
  <2>3. row.status = "finalized" => n >= row.quorum
    BY <1>1, <1>3 DEF LedgerInv, TablesInv, QuorumIsFinality
  <2> HIDE DEF valid, row, signatures
  <2> QED BY <1>6, <2>2, <2>3
<1>8. /\ errors' = errors
      /\ \/ /\ row.status = "finalized" /\ expected' = expected + 1
            /\ previous' = row.block_hash /\ rows' = Tail(rows) /\ check' = "block"
         \/ /\ row.status # "finalized" /\ check' = "tip"
            /\ UNCHANGED <<rows, expected, previous, members>>
      /\ UNCHANGED <<left, chain, blocks, written>>
  <2>1. /\ \/ /\ row.status = "finalized"
              /\ errors' = errors \cup (ErrorIf(valid # DOMAIN signatures, "invalid signature")
                   \cup ErrorIf(Cardinality(valid) < row.quorum, "finalized without quorum"))
              /\ previous' = row.block_hash
              /\ expected' = expected + 1
              /\ rows' = Tail(rows)
              /\ check' = "block"
           \/ /\ row.status # "finalized"
              /\ errors' = errors \cup ErrorIf(valid # DOMAIN signatures, "invalid signature")
              /\ check' = "tip"
              /\ UNCHANGED <<rows, expected, previous, members>>
        /\ UNCHANGED <<left, chain, blocks, written>>
    BY DEF CheckSignatures, Found, NextBlock
  <2> HIDE DEF valid, row, signatures
  <2> QED BY <1>6, <1>7, <2>1 DEF ErrorIf
<1>9. RowsAreTrue'
  <2>1. RowsAreTrue
    BY <1>1 DEF Sound
  <2>2. CASE check' = "block"
    BY <1>2, <1>8, <2>1, <2>2, RowTaken
  <2>3. CASE check' = "tip"
    BY <1>2, <1>8, <2>1, <2>3, RowsStay
  <2> QED BY <1>8, <2>2, <2>3
<1>10. BlockIsTrue' /\ ChainIsTrue' /\ MappingsAreTrue' /\ Alarms'
  BY <1>1, <1>8 DEF Sound, BlockIsTrue, ChainIsTrue, MappingsAreTrue, Alarms
<1> QED BY <1>9, <1>10 DEF Sound

\* A proposal of the snapshot was the last block, and if nothing was written it
\* still is.
LEMMA TipChecked ==
  ASSUME ReadingInv, damage = Undamaged, CheckTip
  PROVE  Sound'
<1> USE DEF CheckTip, Goto, vars, NextBlock
<1>1. Sound /\ LedgerInv /\ Complete
  BY DEF ReadingInv
<1>2. rows # << >> /\ Head(rows).status # "finalized"
  BY <1>1 DEF Sound, RowsAreTrue
<1>3. errors' \subseteq errors \cup {"non-final block is not last"}
  BY DEF Found, ErrorIf
<1>4. ~ written => errors' = errors
  <2> SUFFICES ASSUME ~ written PROVE errors' = errors
    OBVIOUS
  <2>1. /\ Head(rows).height = expected /\ Len(rows) = 1 /\ expected \in Nat \ {0}
        /\ DOMAIN blocks = 1 .. (expected + Len(rows) - 1)
    <3>1. Len(rows) \in Nat \ {0} /\ expected \in Nat \ {0}
      BY <1>1, <1>2, EmptySeq DEF Sound, RowsAreTrue
    <3>2. Head(rows).height = expected /\ Len(rows) = 1
      BY <1>1, <1>2, RowInHand DEF Sound
    <3>3. DOMAIN blocks = 1 .. (expected + Len(rows) - 1)
      BY <1>1, <1>2 DEF Sound, RowsAreTrue
    <3> QED BY <3>1, <3>2, <3>3
  <2>2. StoredHeights = 1 .. expected
    <3>1. StoredHeights = DOMAIN blocks
      BY NothingDamaged
    <3>2. expected + Len(rows) - 1 = expected
      BY ONLY <2>1
    <3> QED BY ONLY <2>1, <3>1, <3>2
  <2>3. Max(StoredHeights) = expected
    BY ONLY <2>1, <2>2, MaxOfInterval
  <2> QED BY <2>1, <2>3 DEF Found, ErrorIf, LastHeightNow
<1>5. RowsAreTrue'
  BY <1>1, <1>2, RowTaken DEF Sound
<1>6. BlockIsTrue' /\ ChainIsTrue' /\ MappingsAreTrue' /\ Alarms'
  BY <1>1, <1>3, <1>4
  DEF Sound, BlockIsTrue, ChainIsTrue, MappingsAreTrue, Alarms, StaleAlarms
<1> QED BY <1>5, <1>6 DEF Sound

\* The events are read: none was seen, none is forgotten.
LEMMA EventsRead ==
  ASSUME ReadingInv, damage = Undamaged, ReadEvents
  PROVE  Sound'
<1> USE DEF ReadEvents, Goto, vars
<1>1. Sound /\ LedgerInv
  BY DEF ReadingInv
<1>2. RowsAreTrue'
  <2>1. rows' = << >> /\ expected' = 1 /\ check' = "events"
    OBVIOUS
  <2> QED BY <2>1, NoRowIsLeft
<1>3. left' = DOMAIN events
  BY NothingDamaged
<1>4. chain = Nothing /\ chain' = Nothing /\ DOMAIN Nothing = {}
  BY <1>1 DEF Sound, ChainIsTrue, Nothing
<1>5. ChainIsTrue'
  <2>1. ASSUME NEW e \in left', SequenceOf[e] > 1 PROVE PreviousOf[e] \in left'
    <3>1. DeviceOf[e] \in DOMAIN devices /\ e \in Stored(DeviceOf[e])
      BY <1>1, <1>3 DEF LedgerInv, TablesInv, DeviceChains, Stored
    <3>2. PreviousOf[e] \in Stored(DeviceOf[e])
      BY <1>1, <2>1, <3>1 DEF LedgerInv, TablesInv, DeviceChains
    <3> QED BY <1>3, <3>2 DEF Stored
  <2>2. chain' = [d \in DOMAIN chain' |-> chain'[d]]
    BY <1>4 DEF Nothing
  <2>3. DOMAIN chain' = {} /\ DOMAIN events' \ left' = {}
    BY <1>3, <1>4
  <2> QED BY <1>3, <2>1, <2>2, <2>3 DEF ChainIsTrue, Seen
<1>6. BlockIsTrue' /\ MappingsAreTrue' /\ Alarms'
  BY <1>1 DEF Sound, BlockIsTrue, MappingsAreTrue, Alarms
<1> QED BY <1>2, <1>5, <1>6 DEF Sound

\* The event read next is the lowest of its device that is left.
LEMMA NextIsLowest ==
  ASSUME left # {}, left \subseteq Events
  PROVE  /\ NextEvent \in left
         /\ \A f \in left : DeviceOf[f] = DeviceOf[NextEvent]
                              => EventSequence(NextEvent) <= EventSequence(f)
<1> DEFINE d == DeviceOf[CHOOSE e \in left : TRUE]
           L == {e \in left : DeviceOf[e] = d}
           S == {EventSequence(e) : e \in L}
<1>1. L # {}
  OBVIOUS
<1>2. S \in SUBSET Nat /\ S # {}
  <2>1. ASSUME NEW e \in Events PROVE EventSequence(e) \in Nat
    <3>1. SequenceOf[e] \in Nat /\ SequenceOf[e] + 10000 \in Nat
      BY EventFields
    <3>2. EventSequence(e) = SequenceOf[e] + 10000 \/ EventSequence(e) = SequenceOf[e]
      BY DEF EventSequence, Read
    <3> QED BY <3>1, <3>2
  <2> QED BY <1>1, <2>1
<1>3. PICK m \in S : \A x \in S : m <= x
  <2> HIDE DEF S
  <2> QED BY <1>2, LeastElement
<1>4. PICK e \in L : EventSequence(e) = m
  BY <1>3
<1>5. \A f \in L : EventSequence(e) <= EventSequence(f)
  BY <1>3, <1>4
<1>6. \E g \in left : /\ DeviceOf[g] = d
                      /\ \A f \in left : DeviceOf[f] = d => EventSequence(g) <= EventSequence(f)
  BY <1>4, <1>5
<1>7. /\ NextEvent \in left /\ DeviceOf[NextEvent] = d
      /\ \A f \in left : DeviceOf[f] = d => EventSequence(NextEvent) <= EventSequence(f)
  <2> HIDE DEF d
  <2> QED BY <1>6 DEF NextEvent, d
<1> QED BY <1>7

\* It continues the chain of its device where that was left off.
LEMMA EventChecked ==
  ASSUME ReadingInv, damage = Undamaged, CheckEvent
  PROVE  Sound'
<1> USE DEF Goto, vars
<1>1. Sound /\ LedgerInv /\ check = "events" /\ left # {} /\ left \subseteq DOMAIN events
  BY DEF ReadingInv, CheckEvent
<1>2. left \subseteq Events /\ DOMAIN events \subseteq Events
  BY <1>1 DEF LedgerInv, TablesInv, TablesTypeOK
<1>0. PICK e, d : e = NextEvent /\ d = DeviceOf[e]
  OBVIOUS
<1>3. e \in left /\ \A f \in left : DeviceOf[f] = d => SequenceOf[e] <= SequenceOf[f]
  BY <1>0, <1>1, <1>2, NextIsLowest, NothingDamaged
<1>4. d \in DOMAIN devices /\ e \in Stored(d)
  BY <1>0, <1>1, <1>3 DEF LedgerInv, TablesInv, DeviceChains, Stored
<1>5. \A f \in DOMAIN events : SequenceOf[f] \in Nat /\ SequenceOf[f] >= 1
  <2>1. ASSUME NEW f \in DOMAIN events PROVE SequenceOf[f] \in Nat /\ SequenceOf[f] >= 1
    <3>1. DeviceOf[f] \in DOMAIN devices /\ f \in Stored(DeviceOf[f])
      BY <1>1 DEF LedgerInv, TablesInv, DeviceChains, Stored
    <3>2. SequenceOf[f] \in 1 .. devices[DeviceOf[f]].last_sequence
      BY <1>1, <3>1 DEF LedgerInv, TablesInv, DeviceChains
    <3>3. SequenceOf[f] \in Nat
      BY <1>2, EventFields
    <3> QED BY <3>2, <3>3
  <2> QED BY <2>1
<1>6. \A f \in DOMAIN events : SequenceOf[f] > 1 =>
         /\ PreviousOf[f] \in DOMAIN events /\ DeviceOf[PreviousOf[f]] = DeviceOf[f]
         /\ SequenceOf[PreviousOf[f]] = SequenceOf[f] - 1
  <2>1. ASSUME NEW f \in DOMAIN events, SequenceOf[f] > 1
        PROVE  /\ PreviousOf[f] \in DOMAIN events /\ DeviceOf[PreviousOf[f]] = DeviceOf[f]
               /\ SequenceOf[PreviousOf[f]] = SequenceOf[f] - 1
    <3>1. DeviceOf[f] \in DOMAIN devices /\ f \in Stored(DeviceOf[f])
      BY <1>1 DEF LedgerInv, TablesInv, DeviceChains, Stored
    <3>2. /\ PreviousOf[f] \in Stored(DeviceOf[f])
          /\ SequenceOf[PreviousOf[f]] = SequenceOf[f] - 1
      BY <1>1, <2>1, <3>1 DEF LedgerInv, TablesInv, DeviceChains
    <3> QED BY <3>2 DEF Stored
  <2> QED BY <2>1
<1>7. \A f \in DOMAIN events : DeviceOf[f] = d /\ SequenceOf[f] = SequenceOf[e] => f = e
  <2>1. \A f, g \in Stored(d) : SequenceOf[f] = SequenceOf[g] => f = g
    BY <1>1, <1>4 DEF LedgerInv, TablesInv, DeviceChains
  <2> QED BY <1>4, <2>1 DEF Stored
<1>8. /\ left' = left \ {e}
      /\ errors' = errors \cup (ChainErrors(d, e) \cup EventErrors(d, e))
      /\ chain' = WithRow(chain, d, e)
      /\ check' = "events"
      /\ UNCHANGED <<devices, events, blocks, damage, written>>
      /\ UNCHANGED <<rows, expected, previous, members>>
  <2>1. DeviceKnown(d)
    BY <1>4, NothingDamaged
  <2> QED BY <1>0, <2>1 DEF CheckEvent, Found
<1>9. /\ \A c \in DOMAIN chain : chain[c] \in DOMAIN events /\ DeviceOf[chain[c]] = c
      /\ \A f \in left :
            /\ Seen(DeviceOf[f]) => SequenceOf[chain[DeviceOf[f]]] < SequenceOf[f]
            /\ SequenceOf[f] > 1 =>
                 \/ PreviousOf[f] \in left
                 \/ Seen(DeviceOf[f]) /\ chain[DeviceOf[f]] = PreviousOf[f]
  BY <1>1 DEF Sound, ChainIsTrue, Stored
<1>10. DeviceOf[e] = d
  BY <1>0
<1>11. PreviousOf[e] \notin left \/ SequenceOf[e] = 1
  <2> SUFFICES ASSUME PreviousOf[e] \in left, SequenceOf[e] # 1 PROVE FALSE
    OBVIOUS
  <2>1. SequenceOf[e] > 1 /\ SequenceOf[e] \in Nat
    BY <1>1, <1>3, <1>5
  <2>2. DeviceOf[PreviousOf[e]] = d /\ SequenceOf[PreviousOf[e]] = SequenceOf[e] - 1
    BY <1>1, <1>3, <1>6, <1>10, <2>1
  <2>3. SequenceOf[e] <= SequenceOf[e] - 1
    BY <1>3, <1>10, <2>2
  <2> QED BY <2>1, <2>3
<1>12. /\ Seen(d) => /\ chain[d] = PreviousOf[e] /\ SequenceOf[e] = SequenceOf[chain[d]] + 1
       /\ ~ Seen(d) => PreviousOf[e] = ZeroHash /\ SequenceOf[e] = 1
  <2>1. SequenceOf[e] \in Nat /\ SequenceOf[e] >= 1
    BY <1>1, <1>3, <1>5
  <2>2. CASE Seen(d)
    <3>1. chain[d] \in DOMAIN events /\ SequenceOf[chain[d]] < SequenceOf[e]
      BY <1>3, <1>9, <1>10, <2>2 DEF Seen
    <3>2. SequenceOf[chain[d]] \in Nat /\ SequenceOf[chain[d]] >= 1
      BY <1>5, <3>1
    <3>3. SequenceOf[e] > 1 /\ SequenceOf[e] # 1
      BY <2>1, <3>1, <3>2
    <3>4. chain[d] = PreviousOf[e]
      BY <1>3, <1>9, <1>10, <1>11, <3>3
    <3>5. SequenceOf[PreviousOf[e]] = SequenceOf[e] - 1
      BY <1>1, <1>3, <1>6, <3>3
    <3> QED BY <2>1, <2>2, <3>4, <3>5
  <2>3. CASE ~ Seen(d)
    <3>1. SequenceOf[e] = 1
      <4>1. ~ (SequenceOf[e] > 1)
        BY <1>3, <1>9, <1>10, <1>11, <2>1, <2>3
      <4> QED BY <2>1, <4>1
    <3>2. PreviousOf[e] = ZeroHash
      BY <1>1, <1>4, <3>1 DEF LedgerInv, TablesInv, DeviceChains
    <3> QED BY <2>3, <3>1, <3>2
  <2> QED BY <2>2, <2>3
<1>13. errors' = errors
  <2>1. ChainErrors(d, e) = {}
    BY <1>12, NothingDamaged DEF ChainErrors, ErrorIf, Seen
  <2>2. SignerOf[e] = devices[d].public_key
    BY <1>1, <1>4 DEF LedgerInv, TablesInv, DeviceChains
  <2>3. EventErrors(d, e) = {}
    BY <2>2, NothingDamaged DEF EventErrors, ErrorIf
  <2> QED BY <1>8, <2>1, <2>3
<1>14. /\ DOMAIN chain' = DOMAIN chain \cup {d} /\ chain'[d] = e
       /\ \A c \in DOMAIN chain : c # d => chain'[c] = chain[c]
       /\ chain' = [c \in DOMAIN chain' |-> chain'[c]]
  BY <1>8 DEF WithRow
<1>15. ASSUME NEW c \in DOMAIN chain'
       PROVE  c \in DOMAIN devices /\ chain'[c] \in Stored(c)
  BY <1>1, <1>4, <1>14 DEF Sound, ChainIsTrue
<1>16. ASSUME NEW f \in left'
       PROVE  /\ (Seen(DeviceOf[f]))' => SequenceOf[chain'[DeviceOf[f]]] < SequenceOf[f]
              /\ SequenceOf[f] > 1 =>
                   \/ PreviousOf[f] \in left'
                   \/ (Seen(DeviceOf[f]))' /\ chain'[DeviceOf[f]] = PreviousOf[f]
  <2>1. f \in left /\ f # e /\ f \in DOMAIN events /\ e \in DOMAIN events
    BY <1>1, <1>3, <1>8
  <2>2. SequenceOf[f] \in Nat /\ SequenceOf[e] \in Nat
    BY <1>5, <2>1
  <2>3. CASE DeviceOf[f] = d
    <3>1. SequenceOf[e] < SequenceOf[f]
      BY <1>3, <1>7, <2>1, <2>2, <2>3
    <3>2. (Seen(d))' /\ chain'[d] = e
      BY <1>14 DEF Seen
    <3>3. ASSUME SequenceOf[f] > 1
          PROVE  PreviousOf[f] \in left' \/ e = PreviousOf[f]
      <4>1. PreviousOf[f] \in left \/ (Seen(d) /\ chain[d] = PreviousOf[f])
        <5>1. \/ PreviousOf[f] \in left
              \/ Seen(DeviceOf[f]) /\ chain[DeviceOf[f]] = PreviousOf[f]
          BY <1>9, <2>1, <3>3
        <5> QED BY <2>3, <5>1
      <4>2. CASE PreviousOf[f] \in left
        BY <1>8, <4>2
      <4>3. CASE Seen(d) /\ chain[d] = PreviousOf[f]
        <5>1. SequenceOf[PreviousOf[f]] = SequenceOf[f] - 1
          BY <1>6, <2>1, <3>3
        <5>2. SequenceOf[e] = SequenceOf[chain[d]] + 1
          BY <1>12, <4>3
        <5>3. SequenceOf[e] = SequenceOf[f]
          BY <2>2, <4>3, <5>1, <5>2
        <5> QED BY <2>2, <3>1, <5>3
      <4> QED BY <4>1, <4>2, <4>3
    <3> QED BY <2>3, <3>1, <3>2, <3>3
  <2>4. CASE DeviceOf[f] # d
    <3>1. (Seen(DeviceOf[f]))' <=> Seen(DeviceOf[f])
      BY <1>14, <2>4 DEF Seen
    <3>2. Seen(DeviceOf[f]) => chain'[DeviceOf[f]] = chain[DeviceOf[f]]
      BY <1>14, <2>4 DEF Seen
    <3>3. SequenceOf[f] > 1 => PreviousOf[f] # e
      BY <1>6, <1>10, <2>1, <2>4
    <3> QED BY <1>8, <1>9, <2>1, <3>1, <3>2, <3>3
  <2> QED BY <2>3, <2>4
<1>17. ASSUME ~ written, NEW g \in DOMAIN events \ left'
       PROVE  /\ (Seen(DeviceOf[g]))'
              /\ SequenceOf[g] <= SequenceOf[chain'[DeviceOf[g]]]
  <2>1. SequenceOf[g] \in Nat /\ SequenceOf[e] \in Nat
    BY <1>1, <1>3, <1>5
  <2>2. CASE g = e
    BY <1>10, <1>14, <2>1, <2>2 DEF Seen
  <2>3. CASE g # e
    <3>1. g \in DOMAIN events \ left
      BY <1>8, <2>3
    <3>2. Seen(DeviceOf[g]) /\ SequenceOf[g] <= SequenceOf[chain[DeviceOf[g]]]
      BY <1>1, <1>17, <3>1 DEF Sound, ChainIsTrue
    <3>3. CASE DeviceOf[g] = d
      <4>1. SequenceOf[chain[d]] \in Nat
        BY <1>5, <1>9, <3>2, <3>3 DEF Seen
      <4>2. SequenceOf[e] = SequenceOf[chain[d]] + 1
        BY <1>12, <3>2, <3>3
      <4> QED BY <1>14, <2>1, <3>2, <3>3, <4>1, <4>2 DEF Seen
    <3>4. CASE DeviceOf[g] # d
      BY <1>14, <3>2, <3>4 DEF Seen
    <3> QED BY <3>3, <3>4
  <2> QED BY <2>2, <2>3
<1>18. ChainIsTrue'
  <2>1. \A c : Stored(c)' = Stored(c)
    BY <1>8 DEF Stored
  <2> QED BY <1>8, <1>14, <1>15, <1>16, <1>17, <2>1 DEF ChainIsTrue
<1>19. RowsAreTrue'
  BY <1>1, <1>8, RowsStay DEF Sound
<1>20. BlockIsTrue' /\ MappingsAreTrue' /\ Alarms'
  BY <1>1, <1>8, <1>13 DEF Sound, BlockIsTrue, MappingsAreTrue, Alarms
<1> QED BY <1>18, <1>19, <1>20 DEF Sound

\* The checkpoint of a device is its last event, unless more have come since.
LEMMA CheckpointChecked ==
  ASSUME ReadingInv, damage = Undamaged, CheckCheckpoint
  PROVE  Sound'
<1> USE DEF Goto, vars
<1>1. Sound /\ LedgerInv /\ check = "events" /\ left = {} /\ chain # Nothing
  BY DEF ReadingInv, CheckCheckpoint
<1>2. PICK d : d = CHOOSE c \in DOMAIN chain : TRUE
  OBVIOUS
<1>3. d \in DOMAIN chain
  <2>1. DOMAIN chain # {}
    BY <1>1 DEF Sound, ChainIsTrue, Nothing
  <2> QED BY <1>2, <2>1
<1>4. d \in DOMAIN devices /\ chain[d] \in Stored(d)
  BY <1>1, <1>3 DEF Sound, ChainIsTrue
<1>5. /\ errors' = errors \cup CheckpointErrors(d)
      /\ chain' = [c \in DOMAIN chain \ {d} |-> chain[c]]
      /\ left' = {} /\ check' = "events"
      /\ UNCHANGED <<devices, events, blocks, damage, written>>
      /\ UNCHANGED <<rows, expected, previous, members>>
  <2>1. DeviceKnown(d)
    BY <1>4, NothingDamaged
  <2> QED BY <1>1, <1>2, <2>1 DEF CheckCheckpoint, Found
<1>6. CheckpointErrors(d) \subseteq StaleAlarms
  BY DEF CheckpointErrors, ErrorIf, StaleAlarms
<1>7. ASSUME ~ written PROVE CheckpointErrors(d) = {}
  <2> DEFINE n == devices[d].last_sequence
             tip == devices[d].last_event_hash
             c == chain[d]
  <2>1. n \in Nat
    BY <1>1, <1>4 DEF LedgerInv, TablesInv, TablesTypeOK, DeviceRows
  <2>2. SequenceOf[c] \in 1 .. n
    BY <1>1, <1>4 DEF LedgerInv, TablesInv, DeviceChains
  <2>3. tip \in Stored(d) /\ SequenceOf[tip] = n
    <3>1. n > 0
      <4> HIDE DEF n
      <4> QED BY <2>1, <2>2
    <3> QED BY <1>1, <1>4, <3>1 DEF LedgerInv, TablesInv, DeviceChains
  <2>4. SequenceOf[tip] <= SequenceOf[c]
    <3>1. tip \in DOMAIN events \ left /\ DeviceOf[tip] = d
      BY <1>1, <2>3 DEF Stored
    <3> QED BY <1>1, <1>3, <1>7, <3>1 DEF Sound, ChainIsTrue, Seen
  <2>5. SequenceOf[c] = n
    <3> HIDE DEF n, tip, c
    <3> QED BY <2>1, <2>2, <2>3, <2>4
  <2>6. tip = c
    <3>1. \A f, g \in Stored(d) : SequenceOf[f] = SequenceOf[g] => f = g
      BY <1>1, <1>4 DEF LedgerInv, TablesInv, DeviceChains
    <3> QED BY <1>4, <2>3, <2>5, <3>1
  <2>7. EventSequence(c) = SequenceOf[c]
    BY NothingDamaged
  <2> QED BY <2>5, <2>6, <2>7 DEF CheckpointErrors, ErrorIf
<1>8. ChainIsTrue'
  <2>1. \A c : Stored(c)' = Stored(c)
    BY <1>5 DEF Stored
  <2>2. /\ DOMAIN chain' = DOMAIN chain \ {d}
        /\ \A c \in DOMAIN chain' : chain'[c] = chain[c]
        /\ chain' = [c \in DOMAIN chain' |-> chain'[c]]
    BY <1>5
  <2>3. \A c \in DOMAIN chain' : c \in DOMAIN devices' /\ chain'[c] \in Stored(c)'
    BY <1>1, <1>5, <2>1, <2>2 DEF Sound, ChainIsTrue
  <2>4. ASSUME ~ written, NEW e \in DOMAIN events, (Seen(DeviceOf[e]))'
        PROVE  SequenceOf[e] <= SequenceOf[chain'[DeviceOf[e]]]
    <3>1. Seen(DeviceOf[e]) /\ chain'[DeviceOf[e]] = chain[DeviceOf[e]]
      BY <2>2, <2>4 DEF Seen
    <3> QED BY <1>1, <2>4, <3>1 DEF Sound, ChainIsTrue
  <2> QED BY <1>5, <2>2, <2>3, <2>4 DEF ChainIsTrue
<1>9. RowsAreTrue'
  BY <1>1, <1>5, RowsStay DEF Sound
<1>10. BlockIsTrue' /\ MappingsAreTrue'
  BY <1>1, <1>5 DEF Sound, BlockIsTrue, MappingsAreTrue
<1>11. Alarms'
  BY <1>1, <1>5, <1>6, <1>7 DEF Sound, Alarms
<1> QED BY <1>8, <1>9, <1>10, <1>11 DEF Sound

\* The events that are in a block are read, with its height.
LEMMA AssignedRead ==
  ASSUME ReadingInv, damage = Undamaged, ReadAssigned
  PROVE  Sound'
<1> USE DEF ReadAssigned, Goto, vars
<1>1. Sound
  BY DEF ReadingInv
<1>2. \A pair \in left' :
         \E e \in DOMAIN events : /\ pair = <<e, events[e].block_height>>
                                  /\ events[e].block_height # 0
  <2>1. StoredEvents = DOMAIN events /\ \A e : EventHeight(e) = events[e].block_height
    BY NothingDamaged
  <2> QED BY <2>1
<1>3. MappingsAreTrue'
  BY <1>2 DEF MappingsAreTrue
<1>4. RowsAreTrue'
  BY <1>1, RowsStay DEF Sound
<1>5. BlockIsTrue' /\ ChainIsTrue' /\ Alarms'
  BY <1>1 DEF Sound, BlockIsTrue, ChainIsTrue, Alarms
<1> QED BY <1>3, <1>4, <1>5 DEF Sound

\* The block an event names is the one that holds it.
LEMMA MappingChecked ==
  ASSUME ReadingInv, damage = Undamaged, CheckMapping
  PROVE  Sound'
<1> USE DEF Goto, vars
<1>1. Sound /\ LedgerInv /\ check = "mappings" /\ left # {}
  BY DEF ReadingInv, CheckMapping
<1>2. PICK assigned : assigned = CHOOSE pair \in left : TRUE
  OBVIOUS
<1>3. PICK e \in DOMAIN events : /\ assigned = <<e, events[e].block_height>>
                                 /\ events[e].block_height # 0
  BY <1>1, <1>2 DEF Sound, MappingsAreTrue
<1>4. {h \in DOMAIN blocks : assigned[1] \in blocks[h].header.event_hashes} = {assigned[2]}
  <2>1. assigned[1] = e /\ assigned[2] = events[e].block_height
    BY <1>3
  <2>2. /\ events[e].block_height \in DOMAIN blocks
        /\ \A h \in DOMAIN blocks :
              e \in blocks[h].header.event_hashes <=> events[e].block_height = h
    BY <1>1, <1>3 DEF LedgerInv, TablesInv, EventsMatchBlocks
  <2> QED BY <2>1, <2>2
<1>5. /\ errors' = errors
      /\ left' = left \ {assigned} /\ check' = "mappings"
      /\ UNCHANGED <<devices, events, blocks, damage, written>>
      /\ UNCHANGED <<rows, expected, previous, members, chain>>
  BY <1>2, <1>4 DEF CheckMapping, Found, ErrorIf
<1>6. RowsAreTrue'
  BY <1>1, <1>5, RowsStay DEF Sound
<1>7. BlockIsTrue' /\ ChainIsTrue' /\ MappingsAreTrue' /\ Alarms'
  BY <1>1, <1>5 DEF Sound, BlockIsTrue, ChainIsTrue, MappingsAreTrue, Alarms
<1> QED BY <1>6, <1>7 DEF Sound

\* The end changes nothing.
LEMMA ReadingDone ==
  ASSUME ReadingInv, damage = Undamaged, Finish
  PROVE  Sound'
<1> USE DEF Finish, Goto, vars, local
<1>1. Sound
  BY DEF ReadingInv
<1>2. RowsAreTrue'
  BY <1>1, RowsStay DEF Sound
<1>3. BlockIsTrue' /\ ChainIsTrue' /\ MappingsAreTrue' /\ Alarms'
  BY <1>1 DEF Sound, BlockIsTrue, ChainIsTrue, MappingsAreTrue, Alarms
<1> QED BY <1>2, <1>3 DEF Sound

----------------------------------------------------------------------------
(* The gateway writes while verify_all reads. *)

\* Devices and events are only added, one at a time, and every new block has
\* the header that was drafted for it.
LEMMA CompleteStep ==
  ASSUME LedgerInv, Complete, [Next]_vars
  PROVE  Complete' /\ DOMAIN devices \subseteq DOMAIN devices'
<1> DEFINE Shape(header) == [height           |-> header.height,
                             previous_hash    |-> header.previous_hash,
                             event_hashes     |-> header.event_hashes,
                             proposer_id      |-> header.proposer_id,
                             authorities      |-> header.authorities,
                             quorum_threshold |-> header.quorum_threshold]
           Old == \A h \in DOMAIN blocks' : h \in DOMAIN blocks
<1>1. NothingIsUndone /\ Transaction
  BY TablesStep, EveryStepIsATransaction
<1>2. \A h \in DOMAIN blocks : blocks'[h].header = Shape(blocks'[h].header)
  BY <1>1 DEF NothingIsUndone, Complete
<1>3. ASSUME IsFiniteSet(DOMAIN events'), DOMAIN devices \subseteq DOMAIN devices', Old
      PROVE  Complete' /\ DOMAIN devices \subseteq DOMAIN devices'
  BY <1>2, <1>3 DEF Complete
<1>4. CASE UNCHANGED tables
  BY <1>3, <1>4 DEF tables, Complete
<1>5. ASSUME NEW d \in Devices, NEW key \in Keys, RegisterDevice(d, key)
      PROVE  Complete' /\ DOMAIN devices \subseteq DOMAIN devices'
  <2>1. DOMAIN devices \subseteq DOMAIN devices' /\ events' = events /\ blocks' = blocks
    BY <1>5 DEF RegisterDevice, WithRow
  <2> QED BY <1>3, <2>1 DEF Complete
<1>6. ASSUME NEW a \in Authorities, NEW key \in Keys, RegisterAuthority(a, key)
      PROVE  Complete' /\ DOMAIN devices \subseteq DOMAIN devices'
  BY <1>3, <1>6 DEF RegisterAuthority, Complete
<1>7. ASSUME NEW e \in Events, InsertVerifiedEvent(e)
      PROVE  Complete' /\ DOMAIN devices \subseteq DOMAIN devices'
  <2>1. DOMAIN events' = DOMAIN events \cup {e} /\ blocks' = blocks
    BY <1>7 DEF InsertVerifiedEvent, WithRow
  <2>2. IsFiniteSet(DOMAIN events')
    BY <2>1, FS_AddElement DEF Complete
  <2>3. DOMAIN devices \subseteq DOMAIN devices'
    BY <1>7 DEF InsertVerifiedEvent
  <2> QED BY <1>3, <2>1, <2>2, <2>3
<1>8. ASSUME NEW p \in Callers, CreateProposal(Header(p))
      PROVE  Complete' /\ DOMAIN devices \subseteq DOMAIN devices'
  <2>1. DOMAIN events' = DOMAIN events /\ devices' = devices
    BY <1>8 DEF CreateProposal, AssignedTo
  <2>2. /\ DOMAIN blocks' = DOMAIN blocks \cup {Header(p).height}
        /\ blocks'[Header(p).height].header = Header(p)
    BY <1>8 DEF CreateProposal, WithRow, ProposedRow
  <2>3. Header(p) = Shape(Header(p))
    BY DEF Header
  <2> QED BY <1>2, <2>1, <2>2, <2>3 DEF Complete
<1>9. ASSUME NEW h \in DOMAIN blocks, NEW a \in DOMAIN Members(h),
             InsertBlockSignature(h, a, SignatureOf(h, a))
      PROVE  Complete' /\ DOMAIN devices \subseteq DOMAIN devices'
  <2>1. DOMAIN events' = DOMAIN events /\ devices' = devices /\ DOMAIN blocks' = DOMAIN blocks
    BY <1>9 DEF InsertBlockSignature, FinalizedIn
  <2> QED BY <1>3, <2>1 DEF Complete
<1> QED BY <1>1, <1>4, <1>5, <1>6, <1>7, <1>8, <1>9 DEF Transaction

\* What verify_all has of the tables outlives every write.
LEMMA StaysSound ==
  ASSUME ReadingInv, Sound, [Next]_vars, UNCHANGED <<check, local, errors>>,
         written' \/ (~ written /\ UNCHANGED tables),
         written => written'
  PROVE  Sound'
<1> USE DEF local
<1>1. LedgerInv /\ Complete
  BY DEF ReadingInv
<1>2. NothingIsUndone /\ DOMAIN devices \subseteq DOMAIN devices'
  BY <1>1, TablesStep, CompleteStep
<1>3. ~ written' => ~ written /\ UNCHANGED tables
  OBVIOUS
<1>4. \A h \in DOMAIN blocks : h \in DOMAIN blocks' /\ blocks'[h].header = blocks[h].header
  BY <1>2 DEF NothingIsUndone
<1>5. rows # << >> => expected \in DOMAIN blocks
  BY RowInHand DEF Sound
<1>6. RowsAreTrue'
  <2>1. TrueRows \subseteq TrueRows'
    <3>1. ASSUME NEW h \in DOMAIN blocks, NEW status
          PROVE  TrueRow(h, status)' = TrueRow(h, status)
      BY <1>4 DEF TrueRow
    <3> QED BY <1>4, <3>1 DEF TrueRows
  <2>2. FinalizedHeights \subseteq FinalizedHeights'
    BY <1>2 DEF NothingIsUndone, FinalizedHeights
  <2>3. rows' \in Seq(TrueRows')
    <3>1. rows \in [1 .. Len(rows) -> TrueRows] /\ Len(rows) \in Nat
      BY LenProperties DEF Sound, RowsAreTrue
    <3>2. rows \in [1 .. Len(rows) -> TrueRows']
      BY <2>1, <3>1
    <3>3. [1 .. Len(rows) -> TrueRows'] \subseteq Seq(TrueRows')
      BY <3>1, SeqDef, Zenon
    <3> QED BY <3>2, <3>3
  <2>4. rows # << >> => HashBelow(expected)' = HashBelow(expected)
    <3> SUFFICES ASSUME rows # << >> PROVE HashBelow(expected)' = HashBelow(expected)
      OBVIOUS
    <3>1. expected # 1 => expected - 1 \in DOMAIN blocks
      <4>1. expected \in Nat \ {0} /\ expected \in DOMAIN blocks
        BY <1>5 DEF Sound, RowsAreTrue
      <4>2. expected > 1 => expected - 1 \in FinalizedHeights
        BY <1>1, <4>1 DEF LedgerInv, TablesInv, ChainLinked
      <4> QED BY <4>1, <4>2 DEF FinalizedHeights
    <3> QED BY <1>4, <3>1 DEF HashBelow
  <2>5. rows # << >> /\ ~ written' => DOMAIN blocks' = 1 .. (expected + Len(rows) - 1)
    BY <1>3 DEF tables, Sound, RowsAreTrue
  <2>6. UNCHANGED <<rows, expected, previous, check>>
    OBVIOUS
  <2>7. RowsAreTrue
    BY DEF Sound
  <2> QED BY ONLY <2>2, <2>3, <2>4, <2>5, <2>6, <2>7 DEF RowsAreTrue
<1>7. BlockIsTrue'
  <2>1. check \in {"references", "signatures"} => expected \in DOMAIN blocks
    BY <1>5 DEF Sound, RowsAreTrue
  <2> QED BY <1>4, <2>1 DEF Sound, BlockIsTrue, Members
<1>8. ChainIsTrue'
  <2>1. \A c : Stored(c) \subseteq Stored(c)'
    BY <1>2 DEF NothingIsUndone, Stored
  <2>2. UNCHANGED <<check, left, chain>>
    OBVIOUS
  <2>3. ~ written' => ~ written /\ events' = events
    BY <1>3 DEF tables
  <2>4. ChainIsTrue
    BY DEF Sound
  <2> QED BY ONLY <1>2, <2>1, <2>2, <2>3, <2>4 DEF ChainIsTrue, Seen
<1>9. MappingsAreTrue'
  <2>1. \A e \in DOMAIN events :
           e \in DOMAIN events' /\ (events[e].block_height # 0 =>
                                      events'[e].block_height = events[e].block_height)
    BY <1>2 DEF NothingIsUndone
  <2>2. MappingsAreTrue /\ UNCHANGED <<check, left>>
    BY DEF Sound
  <2> QED BY ONLY <2>1, <2>2 DEF MappingsAreTrue
<1>10. Alarms'
  BY <1>3 DEF Sound, Alarms
<1> QED BY <1>6, <1>7, <1>8, <1>9, <1>10 DEF Sound

----------------------------------------------------------------------------
(* The theorems. *)

\* An empty database is sound, and nothing was read of it.
LEMMA NothingReadYet == VerifierInit => ReadingInv
<1> SUFFICES ASSUME VerifierInit PROVE ReadingInv
  OBVIOUS
<1> USE DEF VerifierInit
<1>1. LedgerInv
  BY InitInv
<1>2. DOMAIN events = {} /\ DOMAIN blocks = {}
  BY DEF Init, StoreInit
<1>3. Complete
  BY <1>2, FS_EmptySet DEF Complete
<1>4. VerifierTypeOK
  BY <1>1 DEF VerifierTypeOK, LedgerInv, TablesInv, TypeOK, Nothing
<1>5. RowsAreTrue
  <2>1. rows \in Seq(TrueRows) /\ Len(rows) = 0
    BY EmptySeq
  <2>2. \A i \in 1 .. 0 : FALSE
    OBVIOUS
  <2>3. \A i \in 1 .. Len(rows) : FALSE
    BY <2>1, <2>2, Zenon
  <2> QED BY <2>1, <2>3 DEF RowsAreTrue
<1>6. BlockIsTrue /\ ChainIsTrue /\ MappingsAreTrue /\ Alarms
  BY DEF BlockIsTrue, ChainIsTrue, MappingsAreTrue, Alarms, Nothing
<1> QED BY <1>1, <1>3, <1>4, <1>5, <1>6 DEF ReadingInv, Sound

\* A query leaves the tables alone.
LEMMA QueryChangesNothing ==
  ASSUME VerifyStep
  PROVE  UNCHANGED vars /\ UNCHANGED damage
BY DEF VerifyStep, Start, CheckHeader, CheckReference, CheckAuthorities, CheckSignatures,
       CheckTip, ReadEvents, CheckEvent, CheckCheckpoint, ReadAssigned, CheckMapping,
       Finish, Goto

\* What verify_all keeps has its type, whatever was damaged.
LEMMA QueryTypes ==
  ASSUME ReadingInv, VerifyStep
  PROVE  /\ check' \in {"idle", "block", "references", "signatures", "tip", "events",
                        "mappings", "done"}
         /\ expected' \in Nat /\ written' \in BOOLEAN
         /\ DOMAIN chain' \subseteq Devices
         /\ check' = "events" => left' \subseteq DOMAIN events'
<1>1. /\ DOMAIN devices \subseteq Devices /\ expected \in Nat /\ written \in BOOLEAN
      /\ DOMAIN chain \subseteq Devices
      /\ check = "events" => left \subseteq DOMAIN events
  BY DEF ReadingInv, VerifierTypeOK, TypeOK, TablesTypeOK
<1>2. CASE Start
  BY <1>1, <1>2 DEF Start, Nothing
<1>3. CASE CheckHeader \/ CheckReference \/ CheckAuthorities \/ CheckTip
  BY <1>1, <1>3 DEF CheckHeader, CheckReference, CheckAuthorities, CheckTip, NextBlock, Goto
<1>4. CASE CheckSignatures
  <2>1. /\ expected' \in {expected, expected + 1} /\ check' \in {"block", "tip"}
        /\ written' = written /\ chain' = chain
    BY <1>4, Zenon DEF CheckSignatures, Goto
  <2> QED BY <1>1, <2>1
<1>5. CASE ReadEvents
  BY <1>1, <1>5 DEF ReadEvents, Goto, StoredEvents, vars
<1>6. CASE CheckEvent
  <2>1. DOMAIN chain' \subseteq Devices
    BY <1>1, <1>6 DEF CheckEvent, DeviceKnown, WithRow
  <2> QED BY <1>1, <1>6, <2>1 DEF CheckEvent, Goto, vars
<1>7. CASE CheckCheckpoint
  BY <1>1, <1>7 DEF CheckCheckpoint, Goto, vars
<1>8. CASE ReadAssigned \/ CheckMapping
  BY <1>1, <1>8 DEF ReadAssigned, CheckMapping, Goto
<1>9. CASE Finish
  BY <1>1, <1>9 DEF Finish, Goto, local
<1> QED BY <1>2, <1>3, <1>4, <1>5, <1>6, <1>7, <1>8, <1>9 DEF VerifyStep

\* Every query keeps what verify_all has of a sound database.
LEMMA QueryKeepsSound ==
  ASSUME ReadingInv, damage = Undamaged, VerifyStep
  PROVE  Sound'
BY SnapshotTaken, HeaderChecked, ReferenceChecked, AuthoritiesChecked, SignaturesChecked,
   TipChecked, EventsRead, EventChecked, CheckpointChecked, AssignedRead, MappingChecked,
   ReadingDone
DEF VerifyStep

\* The invariant is inductive: queries, writes and damages keep it.
LEMMA ReadingStep ==
  ASSUME ReadingInv, [VerifierNext]_verifierVars
  PROVE  ReadingInv'
<1>1. LedgerInv /\ Complete /\ VerifierTypeOK
  BY DEF ReadingInv
<1>2. [Next]_vars
  BY QueryChangesNothing DEF VerifierNext, GatewayWrites, Damage, verifierVars, vars
<1>3. LedgerInv' /\ Complete' /\ TypeOK'
  BY <1>1, <1>2, TablesStep, CallersStep, CompleteStep DEF LedgerInv, TablesInv, TypeOK
<1>4. ASSUME UNCHANGED <<damage, check, local, errors>>, written => written',
             written' \in BOOLEAN, written' \/ (~ written /\ UNCHANGED tables)
      PROVE  ReadingInv'
  <2>1. VerifierTypeOK'
    BY <1>1, <1>3, <1>4 DEF VerifierTypeOK, local
  <2>2. check' = "events" => left' \subseteq DOMAIN events'
    <3>1. NothingIsUndone
      BY <1>1, <1>2, TablesStep
    <3> QED BY <1>4, <3>1 DEF ReadingInv, NothingIsUndone, local
  <2>3. damage' = Undamaged => Sound'
    <3> SUFFICES ASSUME damage' = Undamaged PROVE Sound'
      OBVIOUS
    <3>1. Sound
      BY <1>4 DEF ReadingInv
    <3> QED BY <1>2, <1>4, <3>1, StaysSound
  <2> QED BY <1>3, <2>1, <2>2, <2>3 DEF ReadingInv
<1>5. CASE VerifyStep
  <2>1. damage' = damage
    BY <1>5, QueryChangesNothing
  <2>2. VerifierTypeOK'
    BY <1>1, <1>3, <1>5, <2>1, QueryTypes DEF VerifierTypeOK
  <2>3. check' = "events" => left' \subseteq DOMAIN events'
    BY <1>5, QueryTypes
  <2>4. damage' = Undamaged => Sound'
    BY <1>5, <2>1, QueryKeepsSound
  <2> QED BY <1>3, <2>2, <2>3, <2>4 DEF ReadingInv
<1>6. CASE GatewayWrites
  <2>1. written \in BOOLEAN
    BY <1>1 DEF VerifierTypeOK
  <2>2. written' = (written \/ tables' # tables) /\ UNCHANGED <<damage, check, local, errors>>
    BY <1>6 DEF GatewayWrites
  <2> QED BY <1>4, <2>1, <2>2
<1>7. CASE Damage
  <2>1. PICK kind \in DamageKinds : \E row : damage' = [kind |-> kind, row |-> row]
    BY <1>7 DEF Damage
  <2>2. damage'.kind \in DamageKinds /\ damage' # Undamaged
    BY <2>1, VerifierConfig
  <2>3. check' = "idle" /\ UNCHANGED <<local, written>>
    BY <1>7 DEF Damage
  <2>4. VerifierTypeOK'
    BY <1>1, <1>3, <2>2, <2>3 DEF VerifierTypeOK, local
  <2> QED BY <1>3, <2>2, <2>3, <2>4 DEF ReadingInv
<1>8. CASE UNCHANGED verifierVars
  <2>1. /\ UNCHANGED <<damage, check, local, errors>> /\ written' = written
        /\ UNCHANGED tables
    BY <1>8 DEF verifierVars, local, tables
  <2>2. written \in BOOLEAN
    BY <1>1 DEF VerifierTypeOK
  <2> QED BY <1>4, <2>1, <2>2
<1> QED BY <1>5, <1>6, <1>7, <1>8 DEF VerifierNext

\* Of everything verify_all holds in its variables the invariant says in which
\* respect it may be out of date while the gateway writes.
THEOREM ReadingInvariant == VerifierSpec => []ReadingInv
BY NothingReadYet, ReadingStep, PTL DEF VerifierSpec

\* verify_all never calls a sound database damaged: when nothing was written
\* while it ran it reports nothing at all, and when something was, only the
\* comparisons with the tip and with the checkpoints, which it reads a second
\* time, can fail (ledger.py:380-490).
THEOREM NoFalseAlarm == VerifierSpec => []VerifierInv
<1>1. ReadingInv => VerifierInv
  BY DEF ReadingInv, Sound, Alarms, VerifierInv, QuietIsValid, OnlyStaleAlarms
<1> QED BY <1>1, ReadingInvariant, PTL

----------------------------------------------------------------------------
(* The invariant of a damaged database: while nothing was reported, the      *)
(* comparison that will report it is still ahead.                          *)

ReadingBlocks == check \in {"block", "references", "signatures", "tip"}

\* The rows of the snapshot are those of the damaged database.
RowsAsRead ==
  /\ rows \in Seq({BlockRow(h) : h \in DOMAIN blocks})
  /\ check \in {"references", "signatures", "tip"} => rows # << >>
  /\ ~ ReadingBlocks => rows = << >>

\* The block is in the rows to come, or in hand and not past these queries.
BlockAhead(h, queries) ==
  \/ \E i \in 2 .. Len(rows) : rows[i].height = h
  \/ rows # << >> /\ Head(rows).height = h /\ check \in queries

ReferenceAhead(e) ==
  \/ BlockAhead(events[e].block_height, {"block"})
  \/ /\ check = "references"
     /\ Head(rows).height = events[e].block_height /\ e \in left

EventAhead(e) == ReadingBlocks \/ (check = "events" /\ e \in left)

DeviceAhead(d) == ReadingBlocks \/ (check = "events" /\ \E f \in left : DeviceOf[f] = d)

\* The event after a deleted one names it; the checkpoint names the last one.
SuccessorAhead(e) ==
  \/ ReadingBlocks
  \/ check = "events" /\ \E f \in left : PreviousOf[f] = e
  \/ /\ check = "events" /\ DeviceOf[e] \in DOMAIN devices
     /\ devices[DeviceOf[e]].last_event_hash = e
     /\ Seen(DeviceOf[e]) \/ \E f \in left : DeviceOf[f] = DeviceOf[e]

InHeader == {"block_membership_reordered", "merkle_root_corrupted",
             "previous_block_hash_corrupted"}
InReference == {"finalized_flag_cleared", "block_mapping_detached"}
InSignatures == {"block_signature_corrupted", "quorum_signature_deleted"}
InEvent == {"event_payload_modified", "event_signature_corrupted",
            "previous_event_hash_corrupted", "sequence_modified"}

Ahead ==
  \/ damage.kind \in InHeader /\ BlockAhead(damage.row, {"block"})
  \/ damage.kind \in InReference /\ ReferenceAhead(damage.row)
  \/ /\ damage.kind = "authority_snapshot_corrupted"
     /\ BlockAhead(damage.row[1], {"block", "references"})
  \/ /\ damage.kind \in InSignatures
     /\ BlockAhead(damage.row[1], {"block", "references", "signatures"})
  \/ damage.kind \in InEvent /\ EventAhead(damage.row)
  \/ damage.kind = "event_deleted" /\ SuccessorAhead(damage.row)
  \/ damage.kind = "device_row_deleted" /\ DeviceAhead(damage.row)

\* Of the chains only events were seen that are stored.
SeenAreStored ==
  /\ check = "events" => left \subseteq StoredEvents
  /\ \A d \in DOMAIN chain : chain[d] \in StoredEvents

DamageInv ==
  damage # Undamaged =>
    /\ damage.row \in Targets(damage.kind)
    /\ check # "idle" => /\ RowsAsRead /\ SeenAreStored
                         /\ errors # {} \/ Ahead


----------------------------------------------------------------------------
(* The rows of blocks in a damaged database. *)

\* All blocks are in the snapshot, unless a block's row was deleted.
LEMMA SnapshotRead ==
  ASSUME ReadingInv, damage.kind # "block_row_deleted", Start
  PROVE  /\ RowsAsRead'
         /\ \A h \in DOMAIN blocks : \A queries :
               "block" \in queries => BlockAhead(h, queries)'
<1> DEFINE R == {BlockRow(h) : h \in DOMAIN blocks}
<1>1. LedgerInv /\ check' = "block" /\ UNCHANGED <<blocks, damage>>
  BY DEF ReadingInv, Start, vars
<1>2. PICK n \in Nat : DOMAIN blocks = 1 .. n
  BY <1>1, Heights
<1>3. Cardinality(1 .. n) = n
  BY <1>2, FS_Interval
<1>4. rows' = [i \in 1 .. n |-> BlockRow(i)]
  <2>1. StoredHeights = 1 .. n
    BY <1>2 DEF StoredHeights, Read
  <2>2. \A i \in 1 .. n : BlockRow(Ith(1 .. n, i)) = BlockRow(i)
    BY <1>2, IthOfInterval
  <2>3. rows' = AllBlocks
    BY DEF Start
  <2> QED BY <1>3, <2>1, <2>2, <2>3 DEF AllBlocks
<1>5. rows' \in [1 .. n -> R]
  BY <1>2, <1>4
<1>6. rows' \in Seq(R)
  <2>1. [1 .. n -> R] \subseteq Seq(R)
    BY <1>2, SeqDef, Zenon
  <2> QED BY <1>5, <2>1
<1>7. R' = R
  BY <1>1 DEF BlockRow, Read
<1>8. Len(rows') = n
  <2>1. Len(rows') \in Nat /\ 1 .. Len(rows') = 1 .. n
    BY <1>5, <1>6, LenProperties
  <2> QED BY <1>2, <2>1
<1>9. RowsAsRead'
  BY <1>1, <1>6, <1>7 DEF RowsAsRead, ReadingBlocks
<1>10. \A i \in 1 .. n : rows'[i].height = i
  BY <1>4 DEF BlockRow
<1>11. ASSUME NEW h \in DOMAIN blocks, NEW queries, "block" \in queries
       PROVE  BlockAhead(h, queries)'
  <2>1. h \in 1 .. n
    BY <1>2
  <2>2. CASE h = 1
    <3>1. 1 \in 1 .. n /\ Len(rows') # 0
      BY <1>2, <1>8, <2>1, <2>2
    <3>2. rows' # << >> /\ Head(rows') = rows'[1]
      BY <1>6, <3>1, EmptySeq, HeadTailProperties
    <3> QED BY <1>1, <1>10, <1>11, <2>2, <3>1, <3>2 DEF BlockAhead
  <2>3. CASE h # 1
    <3>1. h \in 2 .. n
      BY <1>2, <2>1, <2>3
    <3> QED BY <1>8, <1>10, <2>1, <3>1 DEF BlockAhead
  <2> QED BY <2>2, <2>3
<1> QED BY <1>9, <1>11

\* The row in hand is the one of its block.
LEMMA BlockInHand ==
  ASSUME RowsAsRead, rows # << >>
  PROVE  /\ Head(rows).height \in DOMAIN blocks
         /\ Head(rows) = BlockRow(Head(rows).height)
<1> DEFINE R == {BlockRow(h) : h \in DOMAIN blocks}
<1>1. rows \in Seq(R)
  BY DEF RowsAsRead
<1>2. Head(rows) \in R
  <2> HIDE DEF R
  <2> QED BY <1>1, HeadTailProperties
<1>3. PICK h \in DOMAIN blocks : Head(rows) = BlockRow(h)
  BY <1>2
<1>4. Head(rows).height = h
  BY <1>3 DEF BlockRow
<1> QED BY <1>3, <1>4

\* Each query but the first takes the row in hand away or leaves the rows alone.
LEMMA RowsOfAStep ==
  ASSUME RowsAsRead, VerifyStep, ~ Start
  PROVE  \/ rows # << >> /\ rows' = Tail(rows) /\ check' = "block"
         \/ /\ rows' = rows
            /\ check' \in {"references", "signatures", "tip"} => rows # << >>
            /\ ReadingBlocks' \/ rows = << >>
<1>1. CASE CheckHeader \/ CheckReference \/ CheckAuthorities
  BY <1>1 DEF CheckHeader, CheckReference, CheckAuthorities, Goto, RowsAsRead, ReadingBlocks
<1>2. CASE CheckSignatures
  <2>1. \/ rows' = Tail(rows) /\ check' = "block"
        \/ rows' = rows /\ check' = "tip"
    BY <1>2, Zenon DEF CheckSignatures, NextBlock, Goto
  <2> QED BY <1>2, <2>1 DEF CheckSignatures, RowsAsRead, ReadingBlocks
<1>3. CASE CheckTip
  BY <1>3 DEF CheckTip, NextBlock, Goto, RowsAsRead
<1>4. CASE ReadEvents
  BY <1>4 DEF ReadEvents, Goto
<1>5. CASE CheckEvent \/ CheckCheckpoint \/ ReadAssigned \/ CheckMapping
  <2>1. check \in {"events", "mappings"} /\ rows' = rows /\ check' \in {"events", "mappings"}
    BY <1>5 DEF CheckEvent, CheckCheckpoint, ReadAssigned, CheckMapping, Goto
  <2> QED BY <2>1 DEF RowsAsRead, ReadingBlocks
<1>6. CASE Finish
  BY <1>6 DEF Finish, Goto, local, RowsAsRead, ReadingBlocks
<1> QED BY <1>1, <1>2, <1>3, <1>4, <1>5, <1>6 DEF VerifyStep

\* So they stay those of the damaged database.
LEMMA RowsStayRead ==
  ASSUME RowsAsRead, VerifyStep, ~ Start
  PROVE  RowsAsRead'
<1> DEFINE R == {BlockRow(h) : h \in DOMAIN blocks}
<1>1. R' = R
  BY QueryChangesNothing DEF BlockRow, Read, vars
<1>2. rows \in Seq(R)
  BY DEF RowsAsRead
<1>3. rows # << >> => Tail(rows) \in Seq(R)
  <2> HIDE DEF R
  <2> QED BY <1>2, HeadTailProperties
<1> QED BY <1>1, <1>2, <1>3, RowsOfAStep DEF RowsAsRead, ReadingBlocks

\* A block stays ahead until a query is made of it that is the last to count.
LEMMA BlockStays ==
  ASSUME RowsAsRead, VerifyStep, ~ Start, NEW h, NEW queries, "block" \in queries,
         BlockAhead(h, queries)
  PROVE  \/ BlockAhead(h, queries)'
         \/ /\ rows # << >> /\ Head(rows).height = h
            /\ check \in queries /\ (check' \notin queries \/ rows' # rows)
<1>1. CASE rows' = rows
  BY <1>1 DEF BlockAhead
<1>2. CASE rows # << >> /\ rows' = Tail(rows) /\ check' = "block" /\ rows' # rows
  <2>1. CASE rows # << >> /\ Head(rows).height = h /\ check \in queries
    BY <1>2, <2>1
  <2>2. ASSUME NEW i \in 2 .. Len(rows), rows[i].height = h
        PROVE  BlockAhead(h, queries)'
    <3> DEFINE R == {BlockRow(g) : g \in DOMAIN blocks}
    <3>1. rows \in Seq(R)
      BY DEF RowsAsRead
    <3> HIDE DEF R
    <3>2. /\ Len(rows) \in Nat /\ rows' \in Seq(R) /\ Len(rows') = Len(rows) - 1
          /\ \A j \in 1 .. Len(rows') : rows'[j] = rows[j + 1]
      BY <1>2, <3>1, HeadTailProperties, LenProperties
    <3>3. i - 1 \in 1 .. Len(rows') /\ (i - 1) + 1 = i
      BY <2>2, <3>2
    <3>4. rows'[i - 1].height = h
      BY <2>2, <3>2, <3>3
    <3>5. CASE i = 2
      <4>1. rows'[1].height = h /\ Len(rows') # 0
        BY <3>2, <3>3, <3>4, <3>5
      <4>2. rows' # << >> /\ Head(rows') = rows'[1]
        BY <3>2, <4>1, EmptySeq, HeadTailProperties
      <4> QED BY <1>2, <4>1, <4>2 DEF BlockAhead
    <3>6. CASE i # 2
      <4>1. i - 1 \in 2 .. Len(rows')
        BY <2>2, <3>2, <3>3, <3>6
      <4> QED BY <3>4, <4>1 DEF BlockAhead
    <3> QED BY <3>5, <3>6
  <2> QED BY <2>1, <2>2 DEF BlockAhead
<1> QED BY <1>1, <1>2, RowsOfAStep

\* Alarms are only added.
LEMMA AlarmsStay ==
  ASSUME VerifyStep, ~ Start
  PROVE  errors \subseteq errors'
<1>1. CASE CheckSignatures
  <2>1. \E alarms : errors' = errors \cup alarms
    BY <1>1, Zenon DEF CheckSignatures, Found
  <2> QED BY <2>1
<1>2. CASE CheckEvent
  <2>1. \E alarms : errors' = errors \cup alarms
    BY <1>2, Zenon DEF CheckEvent, Found
  <2> QED BY <2>1
<1>3. CASE CheckHeader \/ CheckReference \/ CheckAuthorities \/ CheckTip
  <2>1. \E alarms : errors' = errors \cup alarms
    BY <1>3, Zenon DEF CheckHeader, CheckReference, CheckAuthorities, CheckTip, Found
  <2> QED BY <2>1
<1>4. CASE CheckCheckpoint \/ CheckMapping
  <2>1. \E alarms : errors' = errors \cup alarms
    BY <1>4, Zenon DEF CheckCheckpoint, CheckMapping, Found
  <2> QED BY <2>1
<1>5. CASE ReadEvents \/ ReadAssigned \/ Finish
  BY <1>5 DEF ReadEvents, ReadAssigned, Finish
<1> QED BY <1>1, <1>2, <1>3, <1>4, <1>5 DEF VerifyStep

\* The query that is made in each state.
LEMMA WhichQuery ==
  ASSUME VerifyStep, ~ Start
  PROVE  /\ check \notin {"idle", "done"}
         /\ check = "block" /\ rows # << >> => CheckHeader
         /\ check = "block" /\ rows = << >> => ReadEvents
         /\ check = "references" => CheckReference \/ CheckAuthorities
         /\ check = "signatures" => CheckSignatures
         /\ check = "tip" => CheckTip
         /\ check = "events" => CheckEvent \/ CheckCheckpoint \/ ReadAssigned
         /\ check = "mappings" => CheckMapping \/ Finish
<1>1. CASE CheckHeader
  BY <1>1 DEF CheckHeader
<1>2. CASE CheckReference \/ CheckAuthorities
  BY <1>2 DEF CheckReference, CheckAuthorities
<1>3. CASE CheckSignatures \/ CheckTip
  BY <1>3 DEF CheckSignatures, CheckTip
<1>4. CASE ReadEvents
  BY <1>4 DEF ReadEvents
<1>5. CASE CheckEvent \/ CheckCheckpoint \/ ReadAssigned
  BY <1>5 DEF CheckEvent, CheckCheckpoint, ReadAssigned
<1>6. CASE CheckMapping \/ Finish
  BY <1>6 DEF CheckMapping, Finish
<1> QED BY <1>1, <1>2, <1>3, <1>4, <1>5, <1>6 DEF VerifyStep

\* A list of two hashes or more is not its own reverse.
LEMMA ReverseDiffers ==
  ASSUME NEW S, IsFiniteSet(S), Cardinality(S) >= 2
  PROVE  Reverse(SetToSeq(S)) # SetToSeq(S)
<1> DEFINE q == SetToSeq(S)
           n == Cardinality(S)
<1>1. n \in Nat /\ n >= 2
  BY FS_CardinalityType
<1>2. q \in Seq(S) /\ Len(q) = n /\ IsInjective(q)
  BY SetListed
<1> HIDE DEF q, n
<1>3. DOMAIN q = 1 .. n
  BY <1>2, LenProperties
<1>4. Reverse(q)[1] = q[n]
  BY <1>1, <1>2 DEF Reverse
<1>5. q[n] # q[1]
  <2>1. 1 \in 1 .. n /\ n \in 1 .. n /\ n # 1
    BY <1>1
  <2> QED BY <1>2, <1>3, <2>1 DEF IsInjective
<1> QED BY <1>4, <1>5 DEF q

\* The header's own hashes show a damage to it.
LEMMA HeaderAlarm ==
  ASSUME ReadingInv, RowsAsRead, damage.kind \in InHeader,
         damage.row \in Targets(damage.kind), Head(rows).height = damage.row, CheckHeader
  PROVE  errors' # {}
<1> DEFINE h == damage.row
           row == Head(rows)
           hashes == BlockEventHashes(h)
           stored == blocks[h].header.event_hashes
<1>1. LedgerInv /\ Complete /\ rows # << >>
  BY DEF ReadingInv, CheckHeader
<1>2. h \in DOMAIN blocks /\ row = BlockRow(h) /\ row.height = h
  BY <1>1, BlockInHand
<1>3. /\ IsFiniteSet(stored) /\ stored # {}
      /\ blocks[h].header.previous_hash = HashBelow(h)
  BY <1>1, <1>2, BlockFacts DEF LedgerInv, TablesInv, TablesTypeOK
<1>4. /\ BlockHash(HeaderFromRow(row)) # row.block_hash => errors' # {}
      /\ ~ RootMatches(row, hashes) => errors' # {}
  <2> HIDE DEF row, h, hashes
  <2>1. errors' = errors \cup (ErrorIf(row.height # expected, "block height gap")
          \cup ErrorIf(row.previous_hash # previous, "previous hash mismatch")
          \cup ErrorIf(BlockHash(HeaderFromRow(row)) # row.block_hash, "block hash mismatch")
          \cup ErrorIf(Len(hashes) # row.event_count, "event count mismatch")
          \cup ErrorIf(~ RootMatches(row, hashes), "Merkle root mismatch"))
    BY DEF row, h, hashes, CheckHeader, Found
  <2> QED BY <2>1 DEF ErrorIf
<1>5. CASE damage.kind = "block_membership_reordered"
  <2>1. Cardinality(stored) >= 2
    BY <1>5 DEF Targets
  <2>2. hashes = Reverse(SetToSeq(stored)) /\ row.merkle_root = SetToSeq(stored)
    BY <1>2, <1>5 DEF BlockEventHashes, BlockRow, Read
  <2>3. hashes # row.merkle_root
    BY <1>3, <2>1, <2>2, ReverseDiffers
  <2> QED BY <1>4, <2>3 DEF RootMatches
<1>6. CASE damage.kind = "merkle_root_corrupted"
  <2>1. hashes = SetToSeq(stored) /\ row.merkle_root = << >>
    BY <1>2, <1>6 DEF BlockEventHashes, BlockRow, Read
  <2>2. SetToSeq(stored) # << >>
    <3>1. Len(SetToSeq(stored)) = Cardinality(stored) /\ Cardinality(stored) # 0
      BY <1>3, SetListed, FS_EmptySet
    <3> QED BY <3>1, EmptySeq
  <2> QED BY <1>4, <2>1, <2>2 DEF RootMatches
<1>7. CASE damage.kind = "previous_block_hash_corrupted"
  <2>1. row.previous_hash = Corrupt /\ row.block_hash = BlockHash(blocks[h].header)
    BY <1>2, <1>7 DEF BlockRow, Read
  <2>2. HeaderFromRow(row).previous_hash = Corrupt
    BY <2>1 DEF HeaderFromRow
  <2>3. HashBelow(h) # Corrupt
    BY VerifierConfig DEF HashBelow, BlockHash, Corrupt
  <2>4. HeaderFromRow(row) # blocks[h].header
    BY <1>3, <2>2, <2>3
  <2> QED BY <1>4, <2>1, <2>4 DEF BlockHash
<1> QED BY <1>5, <1>6, <1>7 DEF InHeader

\* So a damaged header stays ahead until it is reported.
LEMMA HeaderStays ==
  ASSUME ReadingInv, RowsAsRead, damage.kind \in InHeader,
         damage.row \in Targets(damage.kind), VerifyStep, ~ Start, errors' = {},
         NEW h, h = damage.row, BlockAhead(h, {"block"})
  PROVE  BlockAhead(h, {"block"})'
BY BlockStays, WhichQuery, HeaderAlarm

\* A damage to the row of an event in a block is reported with the block's references.
LEMMA ReferenceStays ==
  ASSUME ReadingInv, RowsAsRead, damage.kind \in InReference,
         damage.row \in Targets(damage.kind), VerifyStep, ~ Start, errors' = {},
         NEW e, e = damage.row, ReferenceAhead(e)
  PROVE  ReferenceAhead(e)'
<1>1. LedgerInv /\ Complete /\ events' = events
  BY QueryChangesNothing DEF ReadingInv, vars
<1>2. PICK h : h = events[e].block_height
  OBVIOUS
<1>3. /\ e \in DOMAIN events /\ h \in DOMAIN blocks
      /\ damage.kind = "finalized_flag_cleared" => blocks[h].status = "finalized"
  <2>1. \A f \in DOMAIN events :
          /\ events[f].block_height # 0 => events[f].block_height \in DOMAIN blocks
          /\ events[f].finalized <=> events[f].block_height \in FinalizedHeights
    BY <1>1 DEF LedgerInv, TablesInv, EventsMatchBlocks
  <2>2. CASE damage.kind = "finalized_flag_cleared"
    <3>1. e \in DOMAIN events /\ events[e].finalized
      BY <2>2 DEF Targets
    <3> QED BY <1>2, <2>1, <3>1 DEF FinalizedHeights
  <2>3. CASE damage.kind = "block_mapping_detached"
    <3>1. e \in DOMAIN events /\ events[e].block_height # 0
      BY <2>3 DEF Targets, Assigned
    <3> QED BY <1>2, <2>1, <2>3, <3>1
  <2> QED BY <2>2, <2>3 DEF InReference
<1>4. e \in blocks[h].header.event_hashes /\ h \in Nat \ {0}
  BY <1>1, <1>2, <1>3, BlockFacts DEF LedgerInv, TablesInv, EventsMatchBlocks
<1>5. ASSUME rows # << >>, Head(rows).height = h, CheckHeader
      PROVE  ReferenceAhead(e)'
  <2>1. left' = Range(BlockEventHashes(h)) /\ rows' = rows /\ check' = "references"
    BY <1>5 DEF CheckHeader, Goto
  <2>2. BlockEventHashes(h) = SetToSeq(blocks[h].header.event_hashes)
    BY DEF BlockEventHashes, Read, InReference
  <2>3. e \in left'
    BY <1>1, <1>3, <1>4, <2>1, <2>2, BlockFacts, SetListed
  <2> QED BY <1>1, <1>2, <1>5, <2>1, <2>3 DEF ReferenceAhead
<1>6. ASSUME rows # << >>, Head(rows).height = h, e \in left, CheckReference
      PROVE  ReferenceAhead(e)'
  <2>1. PICK x : x = CHOOSE f \in left : TRUE
    OBVIOUS
  <2>2. left' = left \ {x} /\ rows' = rows /\ check' = "references"
    BY <1>6, <2>1 DEF CheckReference, Goto
  <2>3. x # e
    <3> SUFFICES ASSUME x = e PROVE FALSE
      OBVIOUS
    <3>1. errors' = errors \cup
            (IF e \notin StoredEvents
               THEN {"missing event"}
               ELSE ErrorIf(EventHeight(e) # h, "inconsistent block_height")
                      \cup ErrorIf(FlagDiffers(Head(rows), e), "event not finalized"))
      BY <1>6, <2>1 DEF CheckReference, Found
    <3>2. CASE damage.kind = "finalized_flag_cleared"
      <4>1. Head(rows).status = "finalized"
        BY <1>3, <1>6, <3>2, BlockInHand DEF BlockRow
      <4>2. EventFinalized(e) = FALSE
        BY <3>2 DEF EventFinalized, Read
      <4> QED BY <3>1, <4>1, <4>2 DEF FlagDiffers, ErrorIf
    <3>3. CASE damage.kind = "block_mapping_detached"
      <4>1. EventHeight(e) = 0 /\ h # 0
        BY <1>4, <3>3 DEF EventHeight, Read
      <4> QED BY <3>1, <4>1 DEF ErrorIf
    <3> QED BY <3>2, <3>3 DEF InReference
  <2> QED BY <1>1, <1>2, <1>6, <2>2, <2>3 DEF ReferenceAhead
<1>7. CASE BlockAhead(h, {"block"})
  <2>1. BlockAhead(h, {"block"})' => ReferenceAhead(e)'
    BY <1>1, <1>2 DEF ReferenceAhead
  <2> QED BY <1>5, <1>7, <2>1, BlockStays, WhichQuery
<1>8. CASE check = "references" /\ Head(rows).height = h /\ e \in left
  <2>1. rows # << >>
    BY <1>8 DEF RowsAsRead
  <2>2. ~ CheckAuthorities
    BY <1>8 DEF CheckAuthorities
  <2> QED BY <1>6, <1>8, <2>1, <2>2, WhichQuery
<1> QED BY <1>2, <1>7, <1>8 DEF ReferenceAhead

\* A damaged key of a snapshot is reported when the snapshot is read.
LEMMA SnapshotStays ==
  ASSUME ReadingInv, RowsAsRead, damage.kind = "authority_snapshot_corrupted",
         damage.row \in Targets(damage.kind), VerifyStep, ~ Start, errors' = {},
         NEW h, h = damage.row[1], BlockAhead(h, {"block", "references"})
  PROVE  BlockAhead(h, {"block", "references"})'
<1>1. \E g \in DOMAIN blocks : \E a \in DOMAIN Members(g) : damage.row = <<g, a>>
  BY DEF Targets, MemberRows
<1>2. PICK g \in DOMAIN blocks : \E a \in DOMAIN Members(g) : damage.row = <<g, a>>
  BY <1>1
<1>3. PICK a \in DOMAIN Members(g) : damage.row = <<g, a>>
  BY <1>2
<1>4. g = h /\ LedgerInv
  BY <1>3 DEF ReadingInv
<1>5. Members(h)[a] \in Keys
  BY <1>3, <1>4, SnapshotType DEF LedgerInv, TablesInv, TablesTypeOK, Members
<1>6. ASSUME rows # << >>, Head(rows).height = h, CheckAuthorities
      PROVE  FALSE
  <2>1. Head(rows).authority_set = Members(h)
    BY <1>6, BlockInHand DEF BlockRow, Members
  <2>2. BlockAuthorities(h)[a] = Corrupt
    BY <1>3, <1>4 DEF BlockAuthorities, Read
  <2>3. members' = BlockAuthorities(h) /\ members'[a] # Members(h)[a]
    BY <1>5, <1>6, <2>2, VerifierConfig DEF CheckAuthorities
  <2> QED BY <1>6, <2>1, <2>3 DEF CheckAuthorities, Found, ErrorIf
<1>7. CheckHeader \/ CheckReference => check' = "references" /\ rows' = rows
  BY DEF CheckHeader, CheckReference, Goto
<1> QED BY <1>6, <1>7, BlockStays, WhichQuery

\* A signature that was damaged or deleted is reported with the signatures.
LEMMA SignatureStays ==
  ASSUME ReadingInv, RowsAsRead, damage.kind \in InSignatures,
         damage.row \in Targets(damage.kind), VerifyStep, ~ Start, errors' = {},
         NEW h, h = damage.row[1], BlockAhead(h, {"block", "references", "signatures"})
  PROVE  BlockAhead(h, {"block", "references", "signatures"})'
<1> DEFINE S == blocks[h].signatures
<1>1. \E a : /\ damage.row = <<h, a>> /\ h \in DOMAIN blocks /\ a \in DOMAIN S
             /\ damage.kind = "quorum_signature_deleted" => h \in JustEnough
  <2>1. CASE damage.kind = "block_signature_corrupted"
    <3>1. \E g \in DOMAIN blocks : \E a \in DOMAIN blocks[g].signatures :
             damage.row = <<g, a>>
      BY <2>1 DEF Targets, SignatureRows
    <3> QED BY <2>1, <3>1
  <2>2. CASE damage.kind = "quorum_signature_deleted"
    <3>1. \E g \in JustEnough : \E a \in DOMAIN blocks[g].signatures :
             damage.row = <<g, a>>
      BY <2>2 DEF Targets, SignatureRows
    <3>2. JustEnough \subseteq DOMAIN blocks
      BY DEF JustEnough, FinalizedHeights
    <3> QED BY <2>2, <3>1, <3>2
  <2> QED BY <2>1, <2>2 DEF InSignatures
<1>2. PICK a : /\ damage.row = <<h, a>> /\ h \in DOMAIN blocks /\ a \in DOMAIN S
               /\ damage.kind = "quorum_signature_deleted" => h \in JustEnough
  BY <1>1
<1>3. LedgerInv
  BY DEF ReadingInv
<1>4. ASSUME rows # << >>, Head(rows).height = h, CheckSignatures
      PROVE  FALSE
  <2> DEFINE row == Head(rows)
             signatures == BlockSignatures(h)
             valid == {b \in DOMAIN signatures :
                         /\ b \in DOMAIN members
                         /\ Verifies(members[b], signatures[b], row.block_hash)}
  <2>1. /\ row.block_hash = BlockHash(blocks[h].header)
        /\ row.quorum = blocks[h].header.quorum_threshold
        /\ row.status = blocks[h].status
    BY <1>4, BlockInHand DEF BlockRow
  <2>2. /\ valid # DOMAIN signatures => errors' # {}
        /\ row.status = "finalized" /\ Cardinality(valid) < row.quorum => errors' # {}
    <3>1. \/ /\ row.status = "finalized"
             /\ errors' = errors \cup (ErrorIf(valid # DOMAIN signatures, "invalid signature")
                   \cup ErrorIf(Cardinality(valid) < row.quorum, "finalized without quorum"))
          \/ /\ row.status # "finalized"
             /\ errors' = errors \cup ErrorIf(valid # DOMAIN signatures, "invalid signature")
      BY <1>4 DEF CheckSignatures, Found
    <3> HIDE DEF valid, row, signatures
    <3> QED BY <3>1 DEF ErrorIf
  <2>3. CASE damage.kind = "block_signature_corrupted"
    <3>1. a \in DOMAIN signatures /\ signatures[a] = Signature(Corrupt, Corrupt)
      BY <1>2, <2>3 DEF BlockSignatures, Read
    <3>2. \A key : ~ Verifies(key, Signature(Corrupt, Corrupt), BlockHash(blocks[h].header))
      BY DEF Verifies, Signature, BlockHash, Corrupt
    <3>3. a \notin valid
      BY <2>1, <3>1, <3>2
    <3> QED BY <2>2, <3>1, <3>3
  <2>4. CASE damage.kind = "quorum_signature_deleted"
    <3>1. /\ row.status = "finalized" /\ row.quorum \in Nat
          /\ Cardinality(DOMAIN S) = row.quorum
      BY <1>2, <1>3, <2>1, <2>4
      DEF JustEnough, FinalizedHeights, LedgerInv, TablesInv, TablesTypeOK
    <3>2. IsFiniteSet(DOMAIN S)
      BY <1>2, <1>3, FiniteAuthorities, FS_Subset DEF LedgerInv, TablesInv, TablesTypeOK
    <3>3. valid \subseteq DOMAIN S \ {a}
      BY <1>2, <2>4 DEF BlockSignatures, Read
    <3> HIDE DEF valid, row, S
    <3>4. /\ IsFiniteSet(DOMAIN S \ {a})
          /\ Cardinality(DOMAIN S \ {a}) = Cardinality(DOMAIN S) - 1
      BY <1>2, <3>2, FS_RemoveElement
    <3>5. /\ Cardinality(valid) \in Nat
          /\ Cardinality(valid) <= Cardinality(DOMAIN S \ {a})
      BY <3>3, <3>4, FS_Subset, FS_CardinalityType
    <3>6. Cardinality(valid) < row.quorum
      BY <3>1, <3>4, <3>5
    <3> QED BY <2>2, <3>1, <3>6
  <2> QED BY <2>3, <2>4 DEF InSignatures
<1>5. CheckHeader \/ CheckReference \/ CheckAuthorities
        => check' \in {"references", "signatures"} /\ rows' = rows
  BY DEF CheckHeader, CheckReference, CheckAuthorities, Goto
<1> QED BY <1>4, <1>5, BlockStays, WhichQuery

----------------------------------------------------------------------------
(* The rows of events and devices in a damaged database. *)

\* What is left and what was seen of the events is stored.
LEMMA SeenStays ==
  ASSUME ReadingInv, SeenAreStored, VerifyStep
  PROVE  SeenAreStored'
<1>1. StoredEvents' = StoredEvents
  BY QueryChangesNothing DEF StoredEvents, Read, vars
<1>2. check = "events" => left \subseteq StoredEvents
  BY DEF SeenAreStored
<1>3. \A d \in DOMAIN chain : chain[d] \in StoredEvents
  BY DEF SeenAreStored
<1>4. CASE Start
  BY <1>4 DEF Start, Nothing, SeenAreStored
<1>5. CASE CheckSignatures
  <2>1. chain' = chain /\ check' # "events"
    BY <1>5 DEF CheckSignatures, Goto
  <2> QED BY <1>1, <1>3, <2>1 DEF SeenAreStored
<1>6. CASE \/ CheckHeader \/ CheckReference \/ CheckAuthorities \/ CheckTip
           \/ ReadAssigned \/ CheckMapping
  <2>1. chain' = chain /\ check' # "events"
    BY <1>6 DEF CheckHeader, CheckReference, CheckAuthorities, CheckTip, ReadAssigned,
                CheckMapping, Goto
  <2> QED BY <1>1, <1>3, <2>1 DEF SeenAreStored
<1>7. CASE ReadEvents
  BY <1>1, <1>3, <1>7 DEF ReadEvents, SeenAreStored
<1>8. CASE CheckEvent
  <2>1. check = "events" /\ left # {} /\ left \subseteq DOMAIN events
    BY <1>8 DEF CheckEvent, ReadingInv
  <2>2. left \subseteq Events
    BY <2>1 DEF ReadingInv, VerifierTypeOK, TypeOK, TablesTypeOK
  <2>3. NextEvent \in StoredEvents
    BY <1>2, <2>1, <2>2, NextIsLowest
  <2>4. left' \subseteq left
    BY <1>8 DEF CheckEvent
  <2>5. chain' = chain \/ chain' = WithRow(chain, DeviceOf[NextEvent], NextEvent)
    BY <1>8, Zenon DEF CheckEvent
  <2>6. \A d \in DOMAIN chain' : chain'[d] \in StoredEvents
    BY <1>3, <2>3, <2>5 DEF WithRow
  <2> QED BY <1>1, <1>2, <2>1, <2>4, <2>6 DEF SeenAreStored
<1>9. CASE CheckCheckpoint
  <2>1. /\ left' = left /\ check = "events"
        /\ \A d \in DOMAIN chain' : d \in DOMAIN chain /\ chain'[d] = chain[d]
    BY <1>9 DEF CheckCheckpoint
  <2> QED BY <1>1, <1>2, <1>3, <2>1 DEF SeenAreStored
<1>10. CASE Finish
  BY <1>1, <1>3, <1>10 DEF Finish, Goto, local, SeenAreStored
<1> QED BY <1>4, <1>5, <1>6, <1>7, <1>8, <1>9, <1>10 DEF VerifyStep

\* While blocks are read, the next step reads blocks too, or else the events.
LEMMA BlocksThenEvents ==
  ASSUME VerifyStep, ReadingBlocks
  PROVE  ReadingBlocks' \/ ReadEvents
<1>1. CASE Start \/ CheckHeader \/ CheckReference \/ CheckAuthorities \/ CheckTip
  BY <1>1 DEF Start, CheckHeader, CheckReference, CheckAuthorities, CheckTip, Goto,
              ReadingBlocks
<1>2. CASE CheckSignatures
  <2>1. check' \in {"block", "tip"}
    BY <1>2, Zenon DEF CheckSignatures, Goto
  <2> QED BY <2>1 DEF ReadingBlocks
<1>3. CASE ReadEvents
  BY <1>3
<1>4. CASE \/ CheckEvent \/ CheckCheckpoint \/ ReadAssigned \/ CheckMapping \/ Finish
  <2>1. check \in {"events", "mappings"}
    BY <1>4 DEF CheckEvent, CheckCheckpoint, ReadAssigned, CheckMapping, Finish
  <2> QED BY <2>1 DEF ReadingBlocks
<1> QED BY <1>1, <1>2, <1>3, <1>4 DEF VerifyStep

\* The event checked now: what it leaves, and its alarms.
LEMMA EventStep ==
  ASSUME CheckEvent
  PROVE  /\ left' = left \ {NextEvent} /\ check' = "events"
         /\ \/ /\ ~ DeviceKnown(DeviceOf[NextEvent])
               /\ errors' # {}
            \/ /\ chain' = WithRow(chain, DeviceOf[NextEvent], NextEvent)
               /\ errors' = errors \cup (ChainErrors(DeviceOf[NextEvent], NextEvent)
                              \cup EventErrors(DeviceOf[NextEvent], NextEvent))
<1>1. left' = left \ {NextEvent} /\ check' = "events"
  BY DEF CheckEvent, Goto
<1>2. \/ /\ ~ DeviceKnown(DeviceOf[NextEvent])
         /\ errors' = errors \cup {"unknown device"}
      \/ /\ chain' = WithRow(chain, DeviceOf[NextEvent], NextEvent)
         /\ errors' = errors \cup (ChainErrors(DeviceOf[NextEvent], NextEvent)
                        \cup EventErrors(DeviceOf[NextEvent], NextEvent))
  BY DEF CheckEvent, Found
<1> QED BY <1>1, <1>2

\* An event whose row was changed is reported when it is read.
LEMMA EventStays ==
  ASSUME ReadingInv, SeenAreStored, damage.kind \in InEvent,
         damage.row \in Targets(damage.kind), VerifyStep, ~ Start, errors' = {},
         NEW e, e = damage.row, EventAhead(e)
  PROVE  EventAhead(e)'
<1>1. /\ LedgerInv /\ DOMAIN events \subseteq Events
  BY DEF ReadingInv, LedgerInv, TablesInv, TablesTypeOK
<1>2. e \in DOMAIN events /\ e \in Events
  <2>1. damage.kind = "previous_event_hash_corrupted" => e \in Interior
    BY DEF Targets
  <2>2. damage.kind # "previous_event_hash_corrupted" => e \in DOMAIN events
    BY DEF Targets, InEvent
  <2> QED BY <1>1, <2>1, <2>2 DEF Interior
<1>3. CASE ReadingBlocks
  <2>1. CASE ReadEvents
    <3>1. StoredEvents = DOMAIN events
      BY DEF StoredEvents, Read, InEvent
    <3> QED BY <1>2, <2>1, <3>1 DEF ReadEvents, Goto, EventAhead
  <2> QED BY <1>3, <2>1, BlocksThenEvents DEF EventAhead
<1>4. CASE check = "events" /\ e \in left
  <2>1. CheckEvent
    <3>1. ~ CheckCheckpoint /\ ~ ReadAssigned
      BY <1>4 DEF CheckCheckpoint, ReadAssigned
    <3> QED BY <1>4, <3>1, WhichQuery
  <2>2. NextEvent # e
    <3> SUFFICES ASSUME NextEvent = e PROVE FALSE
      OBVIOUS
    <3>1. PICK d : d = DeviceOf[e]
      OBVIOUS
    <3>2. ChainErrors(d, e) = {} /\ EventErrors(d, e) = {}
      BY <2>1, <3>1, EventStep
    <3>3. EventSequence(e) = SequenceOf[e] /\ PayloadAsSigned(e) /\ EventSigner(e) = SignerOf[e]
      <4>1. /\ ErrorIf(EventSequence(e) # SequenceOf[e], "sequence mismatch") = {}
            /\ ErrorIf(~ PayloadAsSigned(e), "payload mismatch") = {}
            /\ ErrorIf(EventSigner(e) # SignerOf[e], "event hash mismatch") = {}
        BY <3>2, Zenon DEF EventErrors
      <4> QED BY <4>1 DEF ErrorIf
    <3>4. EventPrevious(e) \in Events \cup {ZeroHash}
      <4>1. EventPrevious(e) = IF d \in DOMAIN chain THEN chain[d] ELSE ZeroHash
        BY <3>2 DEF ChainErrors, ErrorIf
      <4>2. d \in DOMAIN chain => chain[d] \in Events
        BY <1>1 DEF SeenAreStored, StoredEvents
      <4> QED BY <4>1, <4>2
    <3>5. CASE damage.kind = "event_payload_modified"
      BY <3>3, <3>5 DEF PayloadAsSigned, Read
    <3>6. CASE damage.kind = "event_signature_corrupted"
      BY <1>2, <3>3, <3>6, EventFields, VerifierConfig DEF EventSigner, Read
    <3>7. CASE damage.kind = "previous_event_hash_corrupted"
      BY <3>4, <3>7, VerifierConfig DEF EventPrevious, Read
    <3>8. CASE damage.kind = "sequence_modified"
      <4>1. SequenceOf[e] \in Nat /\ EventSequence(e) = SequenceOf[e] + 10000
        BY <1>2, <3>8, EventFields DEF EventSequence, Read
      <4> QED BY <3>3, <4>1
    <3> QED BY <3>5, <3>6, <3>7, <3>8 DEF InEvent
  <2> QED BY <1>4, <2>1, <2>2, EventStep DEF EventAhead
<1> QED BY <1>3, <1>4 DEF EventAhead

\* The loss of a device's row is reported with the first of its events.
LEMMA DeviceStays ==
  ASSUME ReadingInv, damage.kind = "device_row_deleted",
         damage.row \in Targets(damage.kind), VerifyStep, ~ Start, errors' = {},
         NEW d, d = damage.row, DeviceAhead(d)
  PROVE  DeviceAhead(d)'
<1>1. CASE ReadingBlocks
  <2>1. CASE ReadEvents
    <3>1. StoredEvents = DOMAIN events
      BY DEF StoredEvents, Read
    <3>2. Stored(d) # {}
      BY DEF Targets
    <3> QED BY <2>1, <3>1, <3>2 DEF ReadEvents, Goto, DeviceAhead, Stored
  <2> QED BY <1>1, <2>1, BlocksThenEvents DEF DeviceAhead
<1>2. ASSUME check = "events", NEW f \in left, DeviceOf[f] = d
      PROVE  DeviceAhead(d)'
  <2>1. CheckEvent
    <3>1. ~ CheckCheckpoint /\ ~ ReadAssigned
      BY <1>2 DEF CheckCheckpoint, ReadAssigned
    <3> QED BY <1>2, <3>1, WhichQuery
  <2>2. ~ DeviceKnown(d)
    BY DEF DeviceKnown, Read
  <2>3. NextEvent # f
    <3>1. DeviceKnown(DeviceOf[NextEvent])
      BY <2>1 DEF CheckEvent, Found
    <3> QED BY <1>2, <2>2, <3>1
  <2> QED BY <1>2, <2>1, <2>3, EventStep DEF DeviceAhead
<1> QED BY <1>1, <1>2 DEF DeviceAhead

\* A deleted event is missed by the one after it, or else by the checkpoint.
LEMMA SuccessorStays ==
  ASSUME ReadingInv, SeenAreStored, damage.kind = "event_deleted",
         damage.row \in Targets(damage.kind), VerifyStep, ~ Start, errors' = {},
         NEW e, e = damage.row, SuccessorAhead(e)
  PROVE  SuccessorAhead(e)'
<1>1. /\ LedgerInv /\ DOMAIN events \subseteq Events /\ e \in Interior
      /\ UNCHANGED <<devices, events>>
  BY QueryChangesNothing DEF ReadingInv, LedgerInv, TablesInv, TablesTypeOK, Targets, vars
<1>2. PICK d : d = DeviceOf[e]
  OBVIOUS
<1>3. e \in DOMAIN events /\ e \in Events /\ SequenceOf[e] > 1 /\ SequenceOf[e] \in Nat
  BY <1>1, EventFields DEF Interior
<1>4. d \in DOMAIN devices /\ e \in Stored(d)
  BY <1>1, <1>2, <1>3 DEF LedgerInv, TablesInv, DeviceChains, Stored
<1>5. StoredEvents = DOMAIN events \ {e}
  BY DEF StoredEvents, Read
<1>6. \A c : DeviceKnown(c) <=> c \in DOMAIN devices
  BY DEF DeviceKnown, Read
<1>7. CASE ReadingBlocks
  <2>1. CASE ReadEvents
    <3> DEFINE n == devices[d].last_sequence
               tip == devices[d].last_event_hash
    <3>1. n \in Nat /\ SequenceOf[e] \in 1 .. n /\ n > 0
      <4>1. n \in Nat
        BY <1>1, <1>4 DEF LedgerInv, TablesInv, TablesTypeOK, DeviceRows
      <4>2. SequenceOf[e] \in 1 .. n
        BY <1>1, <1>4 DEF LedgerInv, TablesInv, DeviceChains
      <4> HIDE DEF n
      <4> QED BY <4>1, <4>2
    <3>2. /\ \A f, g \in Stored(d) : SequenceOf[f] = SequenceOf[g] => f = g
          /\ \A i \in 1 .. n : \E f \in Stored(d) : SequenceOf[f] = i
      BY <1>1, <1>4 DEF LedgerInv, TablesInv, DeviceChains
    <3>3. tip \in Stored(d) /\ SequenceOf[tip] = n
      BY <1>1, <1>4, <3>1 DEF LedgerInv, TablesInv, DeviceChains
    <3>4. \A f \in Stored(d) : SequenceOf[f] > 1 =>
             PreviousOf[f] \in Stored(d) /\ SequenceOf[PreviousOf[f]] = SequenceOf[f] - 1
      BY <1>1, <1>4 DEF LedgerInv, TablesInv, DeviceChains
    <3> HIDE DEF n, tip
    <3>5. check' = "events" /\ left' = DOMAIN events \ {e}
      BY <1>5, <2>1 DEF ReadEvents, Goto
    <3>6. CASE SequenceOf[e] = n
      <4>1. tip = e
        BY <1>4, <3>2, <3>3, <3>6
      <4>2. PreviousOf[e] \in Stored(d) /\ SequenceOf[PreviousOf[e]] = SequenceOf[e] - 1
        BY <1>3, <1>4, <3>4
      <4>3. PreviousOf[e] # e
        BY <1>3, <4>2
      <4>4. PreviousOf[e] \in left' /\ DeviceOf[PreviousOf[e]] = d
        BY <3>5, <4>2, <4>3 DEF Stored
      <4> QED BY <1>1, <1>2, <1>4, <3>5, <4>1, <4>4 DEF SuccessorAhead, tip
    <3>7. CASE SequenceOf[e] # n
      <4>1. SequenceOf[e] + 1 \in 1 .. n
        BY <3>1, <3>7
      <4>2. PICK f \in Stored(d) : SequenceOf[f] = SequenceOf[e] + 1
        BY <3>2, <4>1
      <4>3. SequenceOf[f] > 1 /\ SequenceOf[f] - 1 = SequenceOf[e] /\ f # e
        BY <1>3, <4>2
      <4>4. PreviousOf[f] = e
        BY <1>4, <3>2, <3>4, <4>3
      <4>5. f \in left'
        BY <3>5, <4>3 DEF Stored
      <4> QED BY <3>5, <4>4, <4>5 DEF SuccessorAhead
    <3> QED BY <3>6, <3>7
  <2> QED BY <1>7, <2>1, BlocksThenEvents DEF SuccessorAhead
<1>8. ASSUME check = "events", NEW f \in left, PreviousOf[f] = e
      PROVE  SuccessorAhead(e)'
  <2>1. CheckEvent
    <3>1. ~ CheckCheckpoint /\ ~ ReadAssigned
      BY <1>8 DEF CheckCheckpoint, ReadAssigned
    <3> QED BY <1>8, <3>1, WhichQuery
  <2>2. NextEvent # f
    <3> SUFFICES ASSUME NextEvent = f PROVE FALSE
      OBVIOUS
    <3>1. PICK c : c = DeviceOf[f]
      OBVIOUS
    <3>2. ChainErrors(c, f) = {}
      BY <2>1, <3>1, EventStep
    <3>3. EventPrevious(f) = e
      BY <1>8 DEF EventPrevious, Read
    <3>4. e = IF c \in DOMAIN chain THEN chain[c] ELSE ZeroHash
      BY <3>2, <3>3 DEF ChainErrors, ErrorIf
    <3>5. c \in DOMAIN chain => chain[c] # e
      BY <1>5 DEF SeenAreStored
    <3> QED BY <1>3, <3>4, <3>5, ZeroHashIsNoEvent
  <2> QED BY <1>8, <2>1, <2>2, EventStep DEF SuccessorAhead
<1>9. ASSUME check = "events", devices[d].last_event_hash = e,
             Seen(d) \/ \E f \in left : DeviceOf[f] = d
      PROVE  SuccessorAhead(e)'
  <2>1. ASSUME check' = "events", d \in DOMAIN chain' \/ \E f \in left' : DeviceOf[f] = d
        PROVE  SuccessorAhead(e)'
    BY <1>1, <1>2, <1>4, <1>9, <2>1 DEF SuccessorAhead, Seen
  <2>2. CASE CheckEvent
    <3>1. PICK x : x = NextEvent
      OBVIOUS
    <3>2. /\ left' = left \ {x} /\ check' = "events"
          /\ chain' = WithRow(chain, DeviceOf[x], x)
      <4>1. DeviceKnown(DeviceOf[x])
        <5>1. left # {} /\ left \subseteq DOMAIN events
          BY <1>9, <2>2 DEF CheckEvent, ReadingInv
        <5>2. x \in DOMAIN events
          BY <1>1, <3>1, <5>1, NextIsLowest
        <5> QED BY <1>1, <1>6, <5>2 DEF LedgerInv, TablesInv, DeviceChains
      <4> QED BY <2>2, <3>1, <4>1, EventStep
    <3>3. DOMAIN chain' = DOMAIN chain \cup {DeviceOf[x]}
      BY <3>2 DEF WithRow
    <3> QED BY <1>9, <2>1, <3>2, <3>3 DEF Seen
  <2>3. CASE CheckCheckpoint
    <3>1. PICK c : c = CHOOSE x \in DOMAIN chain : TRUE
      OBVIOUS
    <3>2. /\ left = {} /\ check' = "events" /\ DOMAIN chain' = DOMAIN chain \ {c}
          /\ errors' = errors \cup IF DeviceKnown(c) THEN CheckpointErrors(c) ELSE {}
      BY <2>3, <3>1 DEF CheckCheckpoint, Found, Goto
    <3>3. d \in DOMAIN chain
      BY <1>9, <3>2 DEF Seen
    <3>4. c # d
      <4> SUFFICES ASSUME c = d PROVE FALSE
        OBVIOUS
      <4>1. CheckpointErrors(d) = {}
        BY <1>4, <1>6, <3>2
      <4>2. chain[d] # e
        BY <1>5, <3>3 DEF SeenAreStored
      <4> QED BY <1>9, <4>1, <4>2 DEF CheckpointErrors, ErrorIf
    <3> QED BY <2>1, <3>2, <3>3, <3>4
  <2>4. ~ ReadAssigned
    BY <1>9 DEF ReadAssigned, Seen, Nothing
  <2> QED BY <1>9, <2>2, <2>3, <2>4, WhichQuery
<1> QED BY <1>2, <1>7, <1>8, <1>9 DEF SuccessorAhead

----------------------------------------------------------------------------
(* The theorem about damages. *)

\* Right after the snapshot was read everything is ahead.
LEMMA AllIsAhead ==
  ASSUME ReadingInv, damage.kind \in TamperCases, damage.row \in Targets(damage.kind), Start
  PROVE  RowsAsRead' /\ SeenAreStored' /\ Ahead'
<1>1. PICK kind, row : kind = damage.kind /\ row = damage.row
  OBVIOUS
<1>2. /\ damage'.kind = kind /\ damage'.row = row /\ check' = "block" /\ events' = events
      /\ LedgerInv
  BY <1>1 DEF Start, ReadingInv, vars
<1>3. RowsAsRead' /\ \A h \in DOMAIN blocks : \A queries :
                        "block" \in queries => BlockAhead(h, queries)'
  BY SnapshotRead DEF TamperCases
<1>4. SeenAreStored'
  BY DEF Start, SeenAreStored, Nothing
<1> SUFFICES Ahead'
  BY <1>3, <1>4
<1>5. damage'.kind = kind /\ damage'.row = row
  BY <1>2
<1>6. CASE kind \in InHeader
  <2>1. row \in DOMAIN blocks
    BY <1>1, <1>6 DEF Targets, InHeader
  <2>2. BlockAhead(row, {"block"})'
    BY <1>3, <2>1
  <2> QED BY <1>5, <1>6, <2>2 DEF Ahead
<1>7. CASE kind \in InReference
  <2>1. PICK h : h = events[row].block_height
    OBVIOUS
  <2>2. h \in DOMAIN blocks
    <3>1. \A f \in DOMAIN events :
            /\ events[f].block_height # 0 => events[f].block_height \in DOMAIN blocks
            /\ events[f].finalized <=> events[f].block_height \in FinalizedHeights
      BY <1>2 DEF LedgerInv, TablesInv, EventsMatchBlocks
    <3>2. row \in DOMAIN events /\ (events[row].block_height # 0 \/ events[row].finalized)
      BY <1>1, <1>7 DEF Targets, InReference, Assigned
    <3> QED BY <2>1, <3>1, <3>2 DEF FinalizedHeights
  <2>3. BlockAhead(h, {"block"})'
    BY <1>3, <2>2
  <2>4. ReferenceAhead(row)'
    BY <1>2, <2>1, <2>3 DEF ReferenceAhead
  <2> QED BY <1>5, <1>7, <2>4 DEF Ahead
<1>8. CASE kind = "authority_snapshot_corrupted"
  <2>1. row[1] \in DOMAIN blocks
    BY <1>1, <1>8 DEF Targets, MemberRows
  <2>2. BlockAhead(row[1], {"block", "references"})'
    BY <1>3, <2>1
  <2> QED BY <1>5, <1>8, <2>2 DEF Ahead
<1>9. CASE kind \in InSignatures
  <2>1. row[1] \in DOMAIN blocks
    BY <1>1, <1>9 DEF Targets, SignatureRows, JustEnough, FinalizedHeights, InSignatures
  <2>2. BlockAhead(row[1], {"block", "references", "signatures"})'
    BY <1>3, <2>1
  <2> QED BY <1>5, <1>9, <2>2 DEF Ahead
<1>10. CASE kind \in InEvent \cup {"event_deleted", "device_row_deleted"}
  <2>1. EventAhead(row)' /\ SuccessorAhead(row)' /\ DeviceAhead(row)'
    BY <1>2 DEF EventAhead, SuccessorAhead, DeviceAhead, ReadingBlocks
  <2> QED BY <1>5, <1>10, <2>1 DEF Ahead
<1> QED BY <1>1, <1>6, <1>7, <1>8, <1>9, <1>10
        DEF TamperCases, InHeader, InReference, InSignatures, InEvent

\* What is ahead stays ahead or is reported.
LEMMA AheadStays ==
  ASSUME ReadingInv, RowsAsRead, SeenAreStored, damage.row \in Targets(damage.kind),
         Ahead, VerifyStep, ~ Start, errors' = {}
  PROVE  Ahead'
<1>1. PICK kind, row : kind = damage.kind /\ row = damage.row
  OBVIOUS
<1>2. damage'.kind = kind /\ damage'.row = row
  BY <1>1, QueryChangesNothing
<1>3. CASE kind \in InHeader /\ BlockAhead(row, {"block"})
  <2>1. BlockAhead(row, {"block"})'
    BY <1>1, <1>3, HeaderStays
  <2> QED BY <1>2, <1>3, <2>1 DEF Ahead
<1>4. CASE kind \in InReference /\ ReferenceAhead(row)
  <2>1. ReferenceAhead(row)'
    BY <1>1, <1>4, ReferenceStays
  <2> QED BY <1>2, <1>4, <2>1 DEF Ahead
<1>5. CASE kind = "authority_snapshot_corrupted" /\ BlockAhead(row[1], {"block", "references"})
  <2>1. BlockAhead(row[1], {"block", "references"})'
    BY <1>1, <1>5, SnapshotStays
  <2> QED BY <1>2, <1>5, <2>1 DEF Ahead
<1>6. CASE kind \in InSignatures /\ BlockAhead(row[1], {"block", "references", "signatures"})
  <2>1. BlockAhead(row[1], {"block", "references", "signatures"})'
    BY <1>1, <1>6, SignatureStays
  <2> QED BY <1>2, <1>6, <2>1 DEF Ahead
<1>7. CASE kind \in InEvent /\ EventAhead(row)
  <2>1. EventAhead(row)'
    BY <1>1, <1>7, EventStays
  <2> QED BY <1>2, <1>7, <2>1 DEF Ahead
<1>8. CASE kind = "event_deleted" /\ SuccessorAhead(row)
  <2>1. SuccessorAhead(row)'
    BY <1>1, <1>8, SuccessorStays
  <2> QED BY <1>2, <1>8, <2>1 DEF Ahead
<1>9. CASE kind = "device_row_deleted" /\ DeviceAhead(row)
  <2>1. DeviceAhead(row)'
    BY <1>1, <1>9, DeviceStays
  <2> QED BY <1>2, <1>9, <2>1 DEF Ahead
<1> QED BY <1>1, <1>3, <1>4, <1>5, <1>6, <1>7, <1>8, <1>9 DEF Ahead

\* The invariant of a damaged database is inductive for the cases that were tried.
LEMMA DamageStep ==
  ASSUME DamageKinds \subseteq TamperCases, ReadingInv, DamageInv,
         [VerifierNext]_verifierVars
  PROVE  DamageInv'
<1> SUFFICES ASSUME damage' # Undamaged, NEW kind, NEW row,
                    kind = damage'.kind, row = damage'.row
             PROVE  /\ row \in Targets(kind)'
                    /\ check' # "idle" => /\ RowsAsRead' /\ SeenAreStored'
                                          /\ errors' # {} \/ Ahead'
  BY DEF DamageInv
<1>1. ASSUME UNCHANGED <<devices, events, blocks>>
      PROVE  Targets(kind)' = Targets(kind)
  BY <1>1 DEF Targets, Interior, Assigned, MemberRows, SignatureRows, JustEnough,
              FinalizedHeights, Members, Stored
<1>2. CASE VerifyStep
  <2>1. UNCHANGED <<damage, devices, events, blocks>>
    BY <1>2, QueryChangesNothing DEF vars
  <2>2. damage.kind \in TamperCases /\ damage.row \in Targets(damage.kind)
    BY <2>1 DEF ReadingInv, VerifierTypeOK, DamageInv
  <2>3. CASE Start
    BY <1>1, <2>1, <2>2, <2>3, AllIsAhead
  <2>4. CASE ~ Start
    <3>1. RowsAsRead /\ SeenAreStored /\ (errors # {} \/ Ahead)
      BY <1>2, <2>1, <2>4, WhichQuery DEF DamageInv
    <3>2. RowsAsRead' /\ SeenAreStored'
      BY <1>2, <2>4, <3>1, RowsStayRead, SeenStays
    <3>3. errors' # {} \/ Ahead'
      BY <1>2, <2>2, <2>4, <3>1, AlarmsStay, AheadStays
    <3> QED BY <1>1, <2>1, <2>2, <3>2, <3>3
  <2> QED BY <2>3, <2>4
<1>3. CASE Damage
  <2>1. row \in Targets(kind) /\ check' = "idle" /\ UNCHANGED <<devices, events, blocks>>
    BY <1>3 DEF Damage, vars
  <2> QED BY <1>1, <2>1
<1>4. CASE GatewayWrites
  BY <1>4 DEF GatewayWrites
<1>5. CASE UNCHANGED verifierVars
  <2>1. UNCHANGED <<damage, devices, events, blocks, rows, check, left, chain, errors>>
    BY <1>5 DEF verifierVars
  <2>2. /\ damage.row \in Targets(damage.kind)
        /\ check # "idle" => /\ RowsAsRead /\ SeenAreStored
                             /\ errors # {} \/ Ahead
    BY <2>1 DEF DamageInv
  <2>3. RowsAsRead' = RowsAsRead
    BY <2>1 DEF RowsAsRead, ReadingBlocks, BlockRow, Read
  <2>4. SeenAreStored' = SeenAreStored
    BY <2>1 DEF SeenAreStored, StoredEvents, Read
  <2>5. Ahead' = Ahead
    BY <2>1 DEF Ahead, BlockAhead, ReferenceAhead, EventAhead, DeviceAhead, SuccessorAhead,
                ReadingBlocks, Seen
  <2> QED BY <1>1, <2>1, <2>2, <2>3, <2>4, <2>5
<1> QED BY <1>2, <1>3, <1>4, <1>5 DEF VerifierNext

\* verify_all lets none of the damages pass that were tried, to whatever row of
\* whatever database the gateway can leave behind (TAMPER_CASES in
\* benchmarks/integrity_detection.py): until it is reported, the comparison
\* that will report it is still ahead, and at the end nothing is ahead.
THEOREM EveryDamageIsFound ==
  ASSUME DamageKinds \subseteq TamperCases
  PROVE  VerifierSpec => []DamageIsFound
<1>1. VerifierInit => DamageInv
  BY DEF VerifierInit, DamageInv
<1>2. ReadingInv /\ DamageInv /\ [VerifierNext]_verifierVars => DamageInv'
  BY DamageStep
<1>3. DamageInv => DamageIsFound
  BY DEF DamageInv, DamageIsFound, Ahead, RowsAsRead, BlockAhead, ReferenceAhead, EventAhead,
         DeviceAhead, SuccessorAhead, ReadingBlocks
<1> QED BY <1>1, <1>2, <1>3, ReadingInvariant, PTL DEF VerifierSpec
=============================================================================
