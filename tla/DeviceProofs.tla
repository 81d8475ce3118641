---------------------------- MODULE DeviceProofs ----------------------------
(***************************************************************************)
(* Proofs about Device, for any set of events and any number of crashes and *)
(* failed requests: the device and the gateway stay in step, a restarted    *)
(* device resumes at the end of its chain, and the device implements        *)
(* Stream.                                                                 *)
(*                                                                         *)
(* The inductive invariant says that there is one chain of which every      *)
(* piece of state is a part: the gateway has a beginning of it, the outbox  *)
(* (the file, and the copy in memory) is an end of it, and every position   *)
(* that is kept anywhere is a position in it.                              *)
(***************************************************************************)
EXTENDS Device, SequenceTheorems, WellFoundedInduction, TLAPS

----------------------------------------------------------------------------
(* The invariant. *)

\* The hash chains an event_hash can belong to, from the first event on.
Chains ==
  {P \in Seq(Events) :
     \A i \in 1 .. Len(P) :
       /\ SequenceOf[P[i]] = i
       /\ PreviousOf[P[i]] = IF i = 1 THEN ZeroHash ELSE P[i - 1]}

\* The position after the first n events of P.
Place(P, n) ==
  [sequence |-> n, previous_event_hash |-> IF n = 0 THEN ZeroHash ELSE P[n]]

IsPlace(position, P) ==
  position.sequence <= Len(P) /\ position = Place(P, position.sequence)

IsEnd(c, P) ==
  Len(c) <= Len(P) /\ \A i \in 1 .. Len(c) : c[i] = P[Len(P) - Len(c) + i]

\* state.json may be one event behind outbox.json, which then is not empty.
FilesOf(P) ==
  /\ IsEnd(outbox_json, P)
  /\ IsPlace(state_json, P)
  /\ state_json.sequence = Len(P) \/ outbox_json # << >>

GatewayOf(P) ==
  /\ Len(received) <= Len(P)
  /\ \A i \in 1 .. Len(received) : received[i] = P[i]
  /\ \A e \in posted : SequenceOf[e] <= Len(P) /\ e = P[SequenceOf[e]]

ProcessOf(P) ==
  /\ IsEnd(items, P)
  /\ client = Place(P, Len(P))
  /\ pc # "save" => local_state = client /\ state_json = client
  /\ pc \in {"reconcile", "adopt"} => IsPlace(checkpoint, P)
  /\ pc = "adopt" => checkpoint.sequence = Len(P)

\* Nothing that the gateway lacks has left the outbox, and nothing has left
\* the device that its two files do not both know of.
Delivery(P) ==
  /\ Len(P) - Len(outbox_json) <= Len(received)
  /\ Len(received) <= state_json.sequence
  /\ \A e \in posted : /\ SequenceOf[e] <= state_json.sequence
                       /\ SequenceOf[e] <= Len(received) + 1
  /\ pc # "off" => Len(P) - Len(items) <= Len(received)
  /\ pc = "reconcile" => /\ Len(P) - Len(items) <= checkpoint.sequence
                         /\ checkpoint.sequence <= Len(received)
  /\ pc = "acknowledge" => SequenceOf[Head(items)] <= Len(received)

OneChain(P) ==
  /\ FilesOf(P)
  /\ GatewayOf(P)
  /\ pc # "off" => ProcessOf(P)
  /\ lost = {} => Delivery(P)

\* What is true even of a device that has forgotten its chain.
Buffers ==
  /\ Contiguous(outbox_json) /\ Contiguous(items)
  /\ outbox_json # << >> => state_json.sequence <= SequenceOf[Last(outbox_json)]
  /\ pc # "off" =>
       /\ state_json.sequence <= client.sequence
       /\ outbox_json # << >> => client.sequence = SequenceOf[Last(outbox_json)]
       /\ items # << >> => client.sequence = SequenceOf[Last(items)]
       /\ pc # "save" => local_state.sequence = client.sequence
       /\ pc = "adopt" => checkpoint.sequence = client.sequence
       /\ pc \in {"await", "acknowledge"} => items # << >>

\* A device that has lost state.json when its outbox was empty: at every
\* start it finds the gateway ahead, and stops.
Orphaned ==
  /\ state_json = Origin /\ outbox_json = << >> /\ received # << >>
  /\ pc \in {"off", "connect", "reconcile"}
  /\ pc # "off" => local_state = Origin /\ client = Origin /\ items = << >>
  /\ pc = "reconcile" => checkpoint.sequence > 0

DeviceIInv ==
  /\ TypeOK
  /\ Buffers
  /\ \/ \E P \in Chains : OneChain(P)
     \/ "device" \in lost /\ (continuous \/ Orphaned)

----------------------------------------------------------------------------
(* Sequences, and the filter of the outbox. *)

\* Induction over the natural numbers, for a set instead of a predicate.
LEMMA SetInduction ==
  ASSUME NEW S \in SUBSET Nat, 0 \in S, \A n \in S : n + 1 \in S
  PROVE  S = Nat
<1> DEFINE R == OpToRel(<, Nat)
           T == Nat \ S
<1>1. SUFFICES ASSUME T # {} PROVE FALSE
  OBVIOUS
<1>2. IsWellFoundedOn(R, Nat)
  BY NatLessThanWellFounded
<1>3. \E x \in T : \A y \in T : ~ (<<y, x>> \in R)
  <2> HIDE DEF R
  <2> T \subseteq Nat OBVIOUS
  <2> HIDE DEF T
  <2> QED BY <1>1, <1>2, WFMin
<1>4. PICK x \in T : \A y \in T : ~ (<<y, x>> \in R)
  BY <1>3
<1>5. x \in Nat /\ x # 0 /\ x - 1 \in Nat /\ x - 1 < x
  OBVIOUS
<1>6. x - 1 \in T
  BY <1>5
<1>7. <<x - 1, x>> \in R
  BY <1>5 DEF OpToRel
<1> QED BY <1>4, <1>6, <1>7

\* The numbers of a contiguous chain go up by one.
LEMMA ContiguousNumbers ==
  ASSUME NEW c \in Seq(Events), Contiguous(c)
  PROVE  \A i, j \in 1 .. Len(c) : SequenceOf[c[j]] = SequenceOf[c[i]] + (j - i)
<1> USE DeviceConfig
<1>1. \A i \in 1 .. Len(c) : c[i] \in Events /\ SequenceOf[c[i]] \in Nat
  BY ElementOfSeq
<1>2. Len(c) \in Nat
  BY LenProperties
<1> DEFINE S == {d \in Nat : \A i \in 1 .. Len(c) : i + d \in 1 .. Len(c) =>
                                  SequenceOf[c[i + d]] = SequenceOf[c[i]] + d}
<1>3. 0 \in S
  BY <1>1, <1>2
<1>4. ASSUME NEW d \in S PROVE d + 1 \in S
  <2>1. ASSUME NEW i \in 1 .. Len(c), i + (d + 1) \in 1 .. Len(c)
        PROVE  SequenceOf[c[i + (d + 1)]] = SequenceOf[c[i]] + (d + 1)
    <3>1. i + d \in 1 .. Len(c) /\ i + (d + 1) \in 2 .. Len(c)
      BY <1>2, <2>1
    <3>2. SequenceOf[c[i + d]] = SequenceOf[c[i]] + d
      BY <3>1
    <3>3. SequenceOf[c[i + (d + 1)]] = SequenceOf[c[(i + (d + 1)) - 1]] + 1
      BY <3>1 DEF Contiguous
    <3>4. (i + (d + 1)) - 1 = i + d
      OBVIOUS
    <3>5. SequenceOf[c[i + (d + 1)]] = (SequenceOf[c[i]] + d) + 1
      BY ONLY <3>2, <3>3, <3>4
    <3>6. ASSUME NEW n \in Nat PROVE (n + d) + 1 = n + (d + 1)
      OBVIOUS
    <3>7. (SequenceOf[c[i]] + d) + 1 = SequenceOf[c[i]] + (d + 1)
      BY ONLY <1>1, <3>6
    <3> QED BY ONLY <3>5, <3>7
  <2> QED BY <2>1
<1>5. S = Nat
  <2> HIDE DEF S
  <2> S \in SUBSET Nat BY DEF S
  <2> QED BY <1>3, <1>4, SetInduction
<1>6. ASSUME NEW i \in 1 .. Len(c), NEW j \in i .. Len(c)
      PROVE  SequenceOf[c[j]] = SequenceOf[c[i]] + (j - i)
  <2>1. j - i \in Nat /\ i + (j - i) = j /\ j \in 1 .. Len(c)
    BY <1>2
  <2>2. j - i \in S
    <3> HIDE DEF S
    <3> QED BY <1>5, <2>1
  <2> QED BY <2>1, <2>2
<1> HIDE DEF S
<1>7. ASSUME NEW i \in 1 .. Len(c), NEW j \in 1 .. Len(c)
      PROVE  SequenceOf[c[j]] = SequenceOf[c[i]] + (j - i)
  <2>1. CASE i <= j
    <3>1. j \in i .. Len(c)
      BY <1>2, <2>1
    <3> QED BY <1>6, <3>1
  <2>2. CASE j <= i
    <3>1. i \in j .. Len(c)
      BY <1>2, <2>2
    <3>2. SequenceOf[c[i]] = SequenceOf[c[j]] + (i - j)
      BY <1>6, <3>1
    <3> QED BY <1>1, <3>2
  <2> QED BY <1>2, <2>1, <2>2
<1> QED BY <1>7

\* What a filter by number leaves of a contiguous chain is its end.
LEMMA NewerIsTheEnd ==
  ASSUME NEW c \in Seq(Events), Contiguous(c), NEW n \in Nat
  PROVE  \E t \in 0 .. Len(c) :
           /\ Newer(c, n) = SubSeq(c, t + 1, Len(c))
           /\ \A i \in 1 .. Len(c) : SequenceOf[c[i]] > n <=> i > t
<1> USE DeviceConfig
<1>1. \A i \in 1 .. Len(c) : c[i] \in Events /\ SequenceOf[c[i]] \in Nat
  BY ElementOfSeq
<1>2. Len(c) \in Nat
  BY LenProperties
<1>3. PICK t \in 0 .. Len(c) : \A i \in 1 .. Len(c) : SequenceOf[c[i]] > n <=> i > t
  <2>1. CASE Len(c) = 0
    BY <2>1
  <2>2. CASE Len(c) # 0
    <3> DEFINE a == SequenceOf[c[1]]
    <3>1. 1 \in 1 .. Len(c) /\ a \in Nat
      BY <1>1, <1>2, <2>2
    <3>2. \A i \in 1 .. Len(c) : SequenceOf[c[i]] = a + (i - 1)
      BY <3>1, ContiguousNumbers
    <3> HIDE DEF a
    <3>3. CASE a > n
      <4>1. \A i \in 1 .. Len(c) : SequenceOf[c[i]] > n <=> i > 0
        BY <1>2, <3>1, <3>2, <3>3
      <4> QED BY <1>2, <4>1
    <3>4. CASE a <= n /\ (n - a) + 1 <= Len(c)
      <4>1. (n - a) + 1 \in 0 .. Len(c)
        BY <1>2, <3>1, <3>4
      <4>2. \A i \in 1 .. Len(c) : SequenceOf[c[i]] > n <=> i > (n - a) + 1
        BY <1>2, <3>1, <3>2, <3>4
      <4> QED BY <4>1, <4>2
    <3>5. CASE a <= n /\ (n - a) + 1 > Len(c)
      <4>1. \A i \in 1 .. Len(c) : SequenceOf[c[i]] > n <=> i > Len(c)
        BY <1>2, <3>1, <3>2, <3>5
      <4>2. Len(c) \in 0 .. Len(c)
        BY <1>2
      <4> QED BY <4>1, <4>2
    <3> QED BY <1>2, <3>1, <3>3, <3>4, <3>5
  <2> QED BY <2>1, <2>2
<1> DEFINE Extend(f, i) == IF i = 0 THEN << >>
                         ELSE IF SequenceOf[c[i]] > n THEN Append(f[i - 1], c[i])
                                                      ELSE f[i - 1]
           G == [i \in 0 .. Len(c) |-> SubSeq(c, t + 1, i)]
           F == CHOOSE f : f = [i \in 0 .. Len(c) |-> Extend(f, i)]
<1>4. G = [i \in 0 .. Len(c) |-> Extend(G, i)]
  <2>1. ASSUME NEW i \in 0 .. Len(c), i <= t
        PROVE  G[i] = << >>
    BY <1>2, <2>1, SubSeqEmpty
  <2>2. ASSUME NEW i \in 0 .. Len(c)
        PROVE  G[i] = Extend(G, i)
    <3>1. CASE i = 0
      BY <2>1, <3>1
    <3>2. CASE i # 0 /\ i <= t
      <4>1. i - 1 \in 0 .. Len(c) /\ i - 1 <= t /\ i \in 1 .. Len(c)
        BY <1>2, <3>2
      <4>2. ~ SequenceOf[c[i]] > n
        BY <1>3, <3>2, <4>1
      <4> QED BY <2>1, <3>2, <4>1, <4>2
    <3>3. CASE i > t
      <4>1. i - 1 \in 0 .. Len(c) /\ i \in 1 .. Len(c) /\ i # 0
        BY <1>2, <3>3
      <4>2. SequenceOf[c[i]] > n
        BY <1>3, <3>3, <4>1
      <4>3. t + 1 \in 1 .. Len(c) /\ i \in (t + 1) .. Len(c)
        BY <1>2, <3>3
      <4>4. SubSeq(c, t + 1, i) = SubSeq(c, t + 1, i - 1) \o << c[i] >>
        BY <4>3, SubSeqRecursiveSecond
      <4>5. SubSeq(c, t + 1, i - 1) \in Seq(Events)
        <5>1. \A k \in (t + 1) .. (i - 1) : c[k] \in Events
          BY <1>1, <1>2, <4>1
        <5>2. t + 1 \in Int /\ i - 1 \in Int
          OBVIOUS
        <5> QED BY <5>1, <5>2, SubSeqProperties
      <4>6. SubSeq(c, t + 1, i) = Append(SubSeq(c, t + 1, i - 1), c[i])
        BY <1>1, <4>1, <4>4, <4>5, AppendIsConcat
      <4> QED BY <4>1, <4>2, <4>6
    <3> HIDE DEF G, Extend
    <3> QED BY <1>2, <3>1, <3>2, <3>3
  <2> HIDE DEF G, Extend
  <2>3. G = [i \in 0 .. Len(c) |-> G[i]]
    BY DEF G
  <2> QED BY <2>2, <2>3
<1>5. F = [i \in 0 .. Len(c) |-> Extend(F, i)]
  <2> HIDE DEF G
  <2> DEFINE Q(f) == f = [i \in 0 .. Len(c) |-> Extend(f, i)]
  <2>1. Q(G)
    BY <1>4
  <2> HIDE DEF Q
  <2>2. Q(CHOOSE f : Q(f))
    BY <2>1
  <2> QED BY <2>2 DEF Q
<1>6. \A i \in 0 .. Len(c) : F[i] = G[i]
  <2> DEFINE S == {i \in Nat : i <= Len(c) => F[i] = G[i]}
  <2>1. ASSUME NEW i \in 0 .. Len(c) PROVE F[i] = Extend(F, i) /\ G[i] = Extend(G, i)
    <3> HIDE DEF F, G, Extend
    <3> QED BY <1>4, <1>5
  <2> HIDE DEF F, G
  <2>2. 0 \in S
    BY <1>2, <2>1
  <2>3. ASSUME NEW i \in S PROVE i + 1 \in S
    <3>1. SUFFICES ASSUME i + 1 <= Len(c) PROVE F[i + 1] = G[i + 1]
      OBVIOUS
    <3>2. i + 1 \in 0 .. Len(c) /\ (i + 1) - 1 = i /\ F[i] = G[i]
      BY <1>2, <3>1
    <3>3. /\ F[i + 1] = Extend(F, i + 1) /\ F[i] = Extend(F, i)
          /\ G[i + 1] = Extend(G, i + 1) /\ G[i] = Extend(G, i)
      <4> i \in 0 .. Len(c)
        BY <1>2, <3>1
      <4> HIDE DEF Extend
      <4> QED BY <2>1, <3>2
    <3> QED BY <3>2, <3>3
  <2>4. S = Nat
    <3> HIDE DEF S
    <3> S \in SUBSET Nat BY DEF S
    <3> QED BY <2>2, <2>3, SetInduction
  <2> QED BY <1>2, <2>4
<1>7. Newer(c, n) = F[Len(c)]
  BY DEF Newer
<1>8. Newer(c, n) = SubSeq(c, t + 1, Len(c))
  <2> HIDE DEF F
  <2> QED BY <1>2, <1>6, <1>7
<1> QED BY <1>3, <1>8

\* The same, element by element.
LEMMA LeftOfAnOutbox ==
  ASSUME NEW c \in Seq(Events), Contiguous(c), NEW n \in Nat,
         NEW r, r = Newer(c, n)
  PROVE  /\ r \in Seq(Events) /\ Contiguous(r)
         /\ Len(r) <= Len(c)
         /\ \A i \in 1 .. Len(r) : r[i] = c[Len(c) - Len(r) + i]
         /\ \A i \in 1 .. Len(c) : SequenceOf[c[i]] > n <=> i > Len(c) - Len(r)
         /\ r # << >> => c # << >> /\ Last(r) = Last(c)
<1>1. Len(c) \in Nat /\ \A i \in 1 .. Len(c) : c[i] \in Events
  BY LenProperties, ElementOfSeq
<1>2. PICK t \in 0 .. Len(c) : /\ r = SubSeq(c, t + 1, Len(c))
                              /\ \A i \in 1 .. Len(c) : SequenceOf[c[i]] > n <=> i > t
  BY NewerIsTheEnd
<1>3. /\ r \in Seq(Events) /\ Len(r) = Len(c) - t
      /\ \A i \in 1 .. Len(c) - t : r[i] = c[t + i]
  <2>1. /\ t + 1 \in Int /\ Len(c) \in Int
        /\ \A i \in (t + 1) .. Len(c) : c[i] \in Events
    BY <1>1
  <2>2. /\ r \in Seq(Events)
        /\ Len(r) = IF t + 1 <= Len(c) THEN Len(c) - (t + 1) + 1 ELSE 0
        /\ \A i \in 1 .. Len(c) - (t + 1) + 1 : r[i] = c[(t + 1) + i - 1]
    BY <1>2, <2>1, SubSeqProperties
  <2>3. Len(c) - (t + 1) + 1 = Len(c) - t /\ \A i \in Nat : (t + 1) + i - 1 = t + i
    BY <1>1
  <2>4. Len(r) = Len(c) - t
    BY <1>1, <2>2
  <2>5. ASSUME NEW i \in 1 .. Len(c) - t PROVE r[i] = c[t + i]
    <3>1. i \in Nat
      OBVIOUS
    <3> QED BY <2>2, <2>3, <3>1
  <2> QED BY <2>2, <2>4, <2>5
<1>4. t = Len(c) - Len(r) /\ Len(r) \in Nat
  BY <1>1, <1>3
<1>5. Contiguous(r)
  <2>1. ASSUME NEW i \in 2 .. Len(r)
        PROVE  SequenceOf[r[i]] = SequenceOf[r[i - 1]] + 1
    <3>1. /\ t + i \in 2 .. Len(c) /\ i \in 1 .. Len(c) - t /\ i - 1 \in 1 .. Len(c) - t
          /\ t + (i - 1) = (t + i) - 1
      BY <1>1, <1>4
    <3> QED BY <1>3, <3>1 DEF Contiguous
  <2> QED BY <2>1 DEF Contiguous
<1>6. r # << >> => c # << >> /\ Last(r) = Last(c)
  <2>1. SUFFICES ASSUME r # << >> PROVE c # << >> /\ Last(r) = Last(c)
    OBVIOUS
  <2>2. Len(r) > 0 /\ Len(r) \in 1 .. Len(c) - t /\ t + Len(r) = Len(c) /\ Len(c) > 0
    BY <1>1, <1>3, <1>4, <2>1, EmptySeq
  <2>3. c # << >>
    BY <2>2, EmptySeq
  <2> QED BY <1>3, <2>2, <2>3 DEF Last
<1>7. Len(r) = Len(c) - t /\ Len(r) <= Len(c)
  BY <1>1, <1>3
<1>8. \A i \in 1 .. Len(r) : r[i] = c[Len(c) - Len(r) + i]
  BY <1>3, <1>4, <1>7
<1>9. \A i \in 1 .. Len(c) : SequenceOf[c[i]] > n <=> i > Len(c) - Len(r)
  BY <1>2, <1>4
<1> QED BY <1>3, <1>5, <1>6, <1>7, <1>8, <1>9

\* The last event of a buffer, and the position it stands for.
LEMMA LastOfABuffer ==
  ASSUME NEW c \in Seq(Events)
  PROVE  /\ EndOf(c) \in Positions /\ Origin \in Positions
         /\ c = << >> => EndOf(c) = Origin
         /\ c # << >> => /\ Last(c) \in Events /\ Head(c) \in Events
                        /\ EndOf(c) = PositionOf(Last(c))
                        /\ Len(c) \in Nat \ {0} /\ Last(c) = c[Len(c)] /\ Head(c) = c[1]
<1> USE DeviceConfig
<1>1. ASSUME c # << >>
      PROVE  /\ Len(c) \in Nat \ {0} /\ Last(c) = c[Len(c)]
             /\ Last(c) \in Events /\ Head(c) \in Events /\ Head(c) = c[1]
  <2>1. Len(c) \in Nat \ {0} /\ Last(c) = c[Len(c)]
    BY <1>1, EmptySeq DEF Last
  <2> QED BY <1>1, <2>1, ElementOfSeq, HeadTailProperties
<1>2. \A e \in Events : PositionOf(e) \in Positions
  BY DEF PositionOf, Positions
<1> QED BY <1>1, <1>2 DEF EndOf, Origin, Positions

\* A buffer that the next event is put into stays contiguous.
LEMMA AppendedBuffer ==
  ASSUME NEW c \in Seq(Events), Contiguous(c), NEW e \in Events,
         c # << >> => SequenceOf[e] = SequenceOf[Last(c)] + 1
  PROVE  /\ Append(c, e) \in Seq(Events) /\ Append(c, e) # << >>
         /\ Contiguous(Append(c, e)) /\ Last(Append(c, e)) = e
<1>1. /\ Append(c, e) \in Seq(Events) /\ Append(c, e) # << >>
      /\ Len(Append(c, e)) = Len(c) + 1
      /\ \A i \in 1 .. Len(c) : Append(c, e)[i] = c[i]
      /\ Append(c, e)[Len(c) + 1] = e
  BY AppendProperties
<1>2. Len(c) \in Nat
  BY LenProperties
<1>3. ASSUME NEW i \in 2 .. Len(c) + 1
      PROVE  SequenceOf[Append(c, e)[i]] = SequenceOf[Append(c, e)[i - 1]] + 1
  <2>1. CASE i <= Len(c)
    <3>1. i \in 2 .. Len(c) /\ i \in 1 .. Len(c) /\ i - 1 \in 1 .. Len(c)
      BY <1>2, <2>1
    <3> QED BY <1>1, <3>1 DEF Contiguous
  <2>2. CASE i = Len(c) + 1
    <3>1. c # << >> /\ i - 1 = Len(c) /\ Len(c) \in 1 .. Len(c)
      BY <1>2, <2>2, EmptySeq
    <3> QED BY <1>1, <2>2, <3>1 DEF Last
  <2> QED BY <1>2, <2>1, <2>2
<1> QED BY <1>1, <1>2, <1>3 DEF Contiguous, Last

----------------------------------------------------------------------------
(* Types and buffers: what every step keeps, whatever has been lost. *)

\* The variables that a step of the process may count up, or the gateway move.
OutsideTypes ==
  /\ posted' \subseteq Events /\ received' \in Seq(Events)
  /\ crashes' \in 0 .. MaxCrashes /\ faults' \in 0 .. MaxFaults /\ lost' \subseteq Lossy
  /\ continuous' \in BOOLEAN

\* A step that only moves the process on keeps them.
LEMMA MovingKeeps ==
  ASSUME TypeOK, Buffers, OutsideTypes, pc \notin {"off", "save"},
         UNCHANGED <<files, items, local_state, client, limit>>,
         pc' \in {"connect", "reconcile", "flush", "await", "acknowledge", "loop", "sample"},
         site' \in {"boot", "top", "event"}, checkpoint' \in Positions,
         pc' \in {"await", "acknowledge"} => items # << >>
  PROVE  TypeOK' /\ Buffers'
<1>1. TypeOK'
  BY DEF TypeOK, OutsideTypes, Positions, files
<1>2. Buffers'
  BY DEF Buffers, Contiguous, Last, files
<1> QED BY <1>1, <1>2

\* A process that ends leaves its files as they are, or a shorter outbox.
LEMMA EndingKeeps ==
  ASSUME TypeOK, Buffers, OutsideTypes, Exit, state_json' = state_json,
         outbox_json' \in Seq(Events), Contiguous(outbox_json'),
         outbox_json' # << >> =>
           state_json.sequence <= SequenceOf[Last(outbox_json')]
  PROVE  TypeOK' /\ Buffers'
<1>1. << >> \in Seq(Events) /\ Origin \in Positions
  BY LastOfABuffer, EmptySeq
<1>2. TypeOK'
  BY <1>1 DEF TypeOK, OutsideTypes, Exit, ForgetMemory, Positions
<1>3. Contiguous(<< >>)
  BY DEF Contiguous
<1>4. Buffers'
  BY <1>3 DEF Buffers, Exit, ForgetMemory, Contiguous, Last
<1> QED BY <1>2, <1>4

\* An exception out of a synchronization is one or the other.
LEMMA RaisingKeeps ==
  ASSUME TypeOK, Buffers, OutsideTypes, SyncRaises, UNCHANGED files,
         pc \notin {"off", "save"}
  PROVE  TypeOK' /\ Buffers'
<1>1. CASE AfterSync /\ UNCHANGED <<items, local_state, client, limit>>
  <2>1. Origin \in Positions
    BY LastOfABuffer, EmptySeq
  <2>2. /\ pc' \in {"sample", "loop"} /\ site' = "boot" /\ checkpoint' = Origin
        /\ UNCHANGED <<files, items, local_state, client, limit>>
    BY <1>1 DEF AfterSync
  <2> QED BY <2>1, <2>2, MovingKeeps
<1>2. CASE Exit
  BY <1>2, EndingKeeps DEF TypeOK, Buffers, files
<1> QED BY <1>1, <1>2 DEF SyncRaises

\* What is left of the outbox still ends where the device is.
LEMMA LeftInTheBuffer ==
  ASSUME TypeOK, Buffers, NEW n \in Nat
  PROVE  /\ After(n) \in Seq(Events) /\ Contiguous(After(n))
         /\ After(n) # << >> => items # << >> /\ Last(After(n)) = Last(items)
BY LeftOfAnOutbox DEF After, TypeOK, Buffers

\* The numbers that After is asked for.
LEMMA Thresholds ==
  ASSUME TypeOK
  PROVE  /\ checkpoint.sequence \in Nat
         /\ items # << >> => SequenceOf[Head(items)] \in Nat
<1>1. items # << >> => Head(items) \in Events
  BY LastOfABuffer DEF TypeOK
<1> QED BY <1>1, DeviceConfig DEF TypeOK, Positions

\* A start reads the two files.
LEMMA StartKeeps ==
  ASSUME TypeOK, Buffers, OutsideTypes, Start
  PROVE  TypeOK' /\ Buffers'
<1>1. Recovered \in Positions /\ (outbox_json # << >> => Recovered.sequence = SequenceOf[Last(outbox_json)])
  <2>1. outbox_json # << >> => /\ EndOf(outbox_json) = PositionOf(Last(outbox_json))
                               /\ EndOf(outbox_json) \in Positions
                               /\ SequenceOf[Last(outbox_json)] \in Nat
    BY LastOfABuffer, DeviceConfig DEF TypeOK
  <2> QED BY <2>1 DEF Recovered, TypeOK, Buffers, PositionOf, Positions
<1>2. /\ items' = outbox_json /\ outbox_json' = outbox_json /\ pc' = "connect" /\ site' = "boot"
      /\ local_state' = Recovered /\ client' = Recovered /\ state_json' = Recovered
      /\ limit' \in Limits /\ UNCHANGED checkpoint
  BY DEF Start
<1>3. TypeOK'
  BY <1>1, <1>2 DEF TypeOK, OutsideTypes
<1>4. Recovered.sequence \in Nat
  BY <1>1 DEF Positions
<1>5. Buffers'
  BY <1>1, <1>2, <1>4 DEF Buffers, Contiguous, Last
<1> QED BY <1>3, <1>5

\* A synchronization, from its first request to its last.
LEMMA SyncKeeps ==
  ASSUME TypeOK, Buffers, OutsideTypes,
         \/ Connect \/ ConnectFails \/ Reconcile \/ ReconcileRaises \/ Adopt \/ Flush
         \/ Answered \/ Rejected \/ Unanswered \/ TimedOut \/ Acknowledge \/ WriteFails
  PROVE  TypeOK' /\ Buffers'
<1>a. Origin \in Positions /\ EndOf(received) \in Positions
  BY LastOfABuffer DEF TypeOK
<1>1. CASE Connect
  BY <1>1, <1>a, MovingKeeps DEF Connect, TypeOK, files
<1>2. CASE ConnectFails
  BY <1>2, RaisingKeeps DEF ConnectFails
<1>3. CASE Reconcile
  <2> DEFINE left == After(checkpoint.sequence)
  <2>1. /\ left \in Seq(Events) /\ Contiguous(left)
        /\ left # << >> => items # << >> /\ Last(left) = Last(items)
    BY LeftInTheBuffer, Thresholds
  <2>2. /\ pc = "reconcile" /\ items' = left /\ outbox_json' = left
        /\ UNCHANGED <<state_json, site, local_state, client, checkpoint, limit>>
        /\ pc' \in {"adopt", "flush"}
        /\ pc' = "adopt" => local_state.sequence = checkpoint.sequence
    BY <1>3 DEF Reconcile
  <2> HIDE DEF left
  <2>3. TypeOK'
    BY <2>1, <2>2 DEF TypeOK, OutsideTypes
  <2>4. Buffers'
    BY <2>1, <2>2 DEF Buffers, Contiguous, Last
  <2> QED BY <2>3, <2>4
<1>4. CASE ReconcileRaises
  <2> DEFINE left == After(checkpoint.sequence)
  <2>1. /\ left \in Seq(Events) /\ Contiguous(left)
        /\ left # << >> => items # << >> /\ Last(left) = Last(items)
    BY LeftInTheBuffer, Thresholds
  <2>2. pc = "reconcile" /\ UNCHANGED state_json
    BY <1>4 DEF ReconcileRaises
  <2>3. CASE GatewayAhead /\ SyncRaises /\ UNCHANGED outbox_json
    BY <2>2, <2>3, RaisingKeeps DEF files
  <2>4. CASE outbox_json' = left /\ AfterSync /\ items' = left /\ UNCHANGED <<local_state, client, limit>>
    <3>1. /\ pc' \in {"sample", "loop"} /\ site' = "boot" /\ checkpoint' = Origin
      BY <2>4 DEF AfterSync
    <3> HIDE DEF left
    <3>2. TypeOK'
      BY <1>a, <2>1, <2>2, <2>4, <3>1 DEF TypeOK, OutsideTypes
    <3>3. Buffers'
      BY <2>1, <2>2, <2>4, <3>1 DEF Buffers, Contiguous, Last
    <3> QED BY <3>2, <3>3
  <2>5. CASE outbox_json' = left /\ Exit
    <3>1. left # << >> => state_json.sequence <= SequenceOf[Last(left)]
      BY <2>1, <2>2 DEF Buffers
    <3> HIDE DEF left
    <3> QED BY <2>1, <2>2, <2>5, <3>1, EndingKeeps
  <2> QED BY <1>4, <2>3, <2>4, <2>5 DEF ReconcileRaises
<1>5. CASE Adopt
  <2>1. /\ pc = "adopt" /\ pc' = "flush" /\ UNCHANGED <<outbox_json, site, items, checkpoint, limit>>
        /\ local_state' = checkpoint /\ state_json' = checkpoint /\ client' = checkpoint
    BY <1>5 DEF Adopt
  <2>2. TypeOK'
    BY <2>1 DEF TypeOK, OutsideTypes
  <2>3. Buffers'
    BY <2>1, Thresholds DEF Buffers, Contiguous, Last
  <2> QED BY <2>2, <2>3
<1>6. CASE Flush
  <2>1. pc = "flush" /\ UNCHANGED <<files, items, local_state, client, limit>>
    BY <1>6 DEF Flush, memory
  <2>2. \/ pc' = "await" /\ items # << >> /\ site' = site /\ checkpoint' = checkpoint
        \/ pc' \in {"sample", "loop"} /\ site' = "boot" /\ checkpoint' = Origin
    BY <1>6 DEF Flush, memory, AfterSync
  <2>3. site \in {"boot", "top", "event"} /\ checkpoint \in Positions
    BY DEF TypeOK
  <2> QED BY <1>a, <2>1, <2>2, <2>3, MovingKeeps
<1>7. CASE Answered
  <2>1. pc = "await" /\ pc' = "acknowledge" /\ UNCHANGED <<files, memory>>
    BY <1>7 DEF Answered
  <2>2. items # << >> /\ site \in {"boot", "top", "event"} /\ checkpoint \in Positions
    BY <2>1 DEF TypeOK, Buffers
  <2> QED BY <2>1, <2>2, MovingKeeps DEF memory
<1>8. CASE Rejected
  BY <1>8, RaisingKeeps DEF Rejected
<1>9. CASE Unanswered \/ TimedOut
  <2>1. /\ pc = "await" /\ UNCHANGED files
        /\ (pc' = "flush" /\ UNCHANGED memory) \/ SyncRaises
    BY <1>9 DEF Unanswered, TimedOut
  <2>2. site \in {"boot", "top", "event"} /\ checkpoint \in Positions
    BY DEF TypeOK
  <2> QED BY <2>1, <2>2, MovingKeeps, RaisingKeeps DEF memory
<1>10. CASE Acknowledge
  <2> DEFINE left == After(SequenceOf[Head(items)])
  <2>1. /\ pc = "acknowledge" /\ items' = left /\ outbox_json' = left /\ pc' = "flush"
        /\ UNCHANGED <<state_json, site, local_state, client, checkpoint, limit>>
    BY <1>10 DEF Acknowledge
  <2>2. /\ left \in Seq(Events) /\ Contiguous(left)
        /\ left # << >> => items # << >> /\ Last(left) = Last(items)
    BY <2>1, LeftInTheBuffer, Thresholds DEF Buffers
  <2> HIDE DEF left
  <2>3. TypeOK'
    BY <2>1, <2>2 DEF TypeOK, OutsideTypes
  <2>4. Buffers'
    BY <2>1, <2>2 DEF Buffers, Contiguous, Last
  <2> QED BY <2>3, <2>4
<1>11. CASE WriteFails
  <2>1. /\ pc' \in {"sample", "loop"} /\ site' = "boot" /\ checkpoint' = Origin
        /\ UNCHANGED <<files, client, limit>> /\ pc \in {"reconcile", "adopt", "acknowledge"}
    BY <1>11 DEF WriteFails, AfterSync
  <2>2. /\ items' \in Seq(Events) /\ Contiguous(items')
        /\ items' # << >> => items # << >> /\ Last(items') = Last(items)
    <3>1. CASE pc = "reconcile"
      BY <1>11, <3>1, LeftInTheBuffer, Thresholds DEF WriteFails
    <3>2. CASE pc = "acknowledge"
      BY <1>11, <3>2, LeftInTheBuffer, Thresholds DEF WriteFails, Buffers
    <3>3. CASE pc = "adopt"
      <4>1. items' = items
        BY <1>11, <3>3 DEF WriteFails
      <4> QED BY <4>1 DEF TypeOK, Buffers
    <3> QED BY <2>1, <3>1, <3>2, <3>3
  <2>3. local_state' \in Positions /\ local_state'.sequence = client.sequence
    BY <1>11 DEF WriteFails, TypeOK, Buffers
  <2>4. TypeOK'
    BY <1>a, <2>1, <2>2, <2>3 DEF TypeOK, OutsideTypes, files
  <2>5. Buffers'
    BY <2>1, <2>2, <2>3 DEF Buffers, Contiguous, Last, files
  <2> QED BY <2>4, <2>5
<1> QED BY <1>1, <1>2, <1>3, <1>4, <1>5, <1>6, <1>7, <1>8, <1>9, <1>10, <1>11

\* A reading, from the loop to the saved position.
LEMMA ReadingKeeps ==
  ASSUME TypeOK, Buffers, OutsideTypes,
         \/ Loop \/ Waits \/ Pause \/ Save
         \/ \E e \in Events : Sample(e)
  PROVE  TypeOK' /\ Buffers'
<1>1. CASE Loop
  <2>1. /\ pc = "loop" /\ pc' \in {"sample", "connect"} /\ site' \in {site, "top"}
        /\ UNCHANGED <<files, items, local_state, client, limit, checkpoint>>
    BY <1>1 DEF Loop
  <2>2. site' \in {"boot", "top", "event"} /\ checkpoint' \in Positions
    BY <2>1 DEF TypeOK
  <2> QED BY <2>1, <2>2, MovingKeeps
<1>2. CASE Waits \/ Pause
  <2>1. pc = "sample" /\ pc' = "loop" /\ UNCHANGED <<files, memory>>
    BY <1>2 DEF Waits, Pause
  <2>2. site' \in {"boot", "top", "event"} /\ checkpoint' \in Positions
    BY <2>1 DEF TypeOK, memory
  <2> QED BY <2>1, <2>2, MovingKeeps DEF memory
<1>3. CASE Save
  <2>1. /\ pc = "save" /\ pc' = "connect" /\ site' = "event"
        /\ local_state' = client /\ state_json' = client
        /\ UNCHANGED <<outbox_json, items, client, checkpoint, limit>>
    BY <1>3 DEF Save
  <2>2. TypeOK'
    BY <2>1 DEF TypeOK, OutsideTypes
  <2>3. Buffers'
    BY <2>1 DEF Buffers, Contiguous, Last, TypeOK, Positions
  <2> QED BY <2>2, <2>3
<1>4. ASSUME NEW e \in Events, Sample(e)
      PROVE  TypeOK' /\ Buffers'
  <2>1. /\ pc = "sample" /\ pc' = "save" /\ client' = PositionOf(e)
        /\ items' = Append(items, e) /\ outbox_json' = Append(items, e)
        /\ UNCHANGED <<state_json, site, local_state, checkpoint, limit>>
        /\ SequenceOf[e] = client.sequence + 1
    BY <1>4 DEF Sample, Signs
  <2>2. items # << >> => SequenceOf[e] = SequenceOf[Last(items)] + 1
    BY <2>1 DEF Buffers
  <2>3. /\ items' \in Seq(Events) /\ Contiguous(items') /\ Last(items') = e
    BY <2>1, <2>2, AppendedBuffer DEF TypeOK, Buffers
  <2>4. PositionOf(e) \in Positions /\ PositionOf(e).sequence = SequenceOf[e]
    BY DeviceConfig DEF PositionOf, Positions
  <2>5. TypeOK'
    BY <2>1, <2>3, <2>4 DEF TypeOK, OutsideTypes
  <2>6. state_json.sequence <= SequenceOf[e]
    BY <2>1, DeviceConfig DEF TypeOK, Buffers, Positions
  <2>7. Buffers'
    BY <2>1, <2>3, <2>4, <2>6 DEF Buffers
  <2> QED BY <2>5, <2>7
<1> QED BY <1>1, <1>2, <1>3, <1>4

\* Steps outside the process: the gateway, a crash, a loss.
LEMMA OutsideKeeps ==
  ASSUME TypeOK, Buffers, OutsideTypes,
         \/ Finish \/ Crash \/ LoseFile \/ RestoreOlder
         \/ \E e \in Events : Arrive(e)
         \/ UNCHANGED deviceVars
  PROVE  TypeOK' /\ Buffers'
<1>1. CASE Finish \/ Crash
  BY <1>1, EndingKeeps DEF Finish, Crash, files, TypeOK, Buffers
<1>2. CASE LoseFile
  <2>1. /\ pc = "off" /\ UNCHANGED <<pc, memory>>
        /\ \/ state_json' = Origin /\ UNCHANGED outbox_json
           \/ outbox_json' = << >> /\ UNCHANGED state_json
    BY <1>2 DEF LoseFile
  <2>2. /\ Origin \in Positions /\ Origin.sequence = 0
        /\ << >> \in Seq(Events) /\ Contiguous(<< >>)
    <3>1. << >> \in Seq(Events) /\ Origin \in Positions
      BY LastOfABuffer, EmptySeq
    <3>2. Origin.sequence = 0 /\ Contiguous(<< >>)
      BY DEF Origin, Contiguous
    <3> QED BY <3>1, <3>2
  <2>3. TypeOK'
    BY <2>1, <2>2 DEF TypeOK, OutsideTypes, memory
  <2>4. outbox_json # << >> => SequenceOf[Last(outbox_json)] \in Nat
    BY LastOfABuffer, DeviceConfig DEF TypeOK
  <2>5. Buffers'
    BY <2>1, <2>2, <2>4 DEF Buffers, memory, Contiguous, Last
  <2> QED BY <2>3, <2>5
<1>3. CASE RestoreOlder \/ (\E e \in Events : Arrive(e)) \/ UNCHANGED deviceVars
  <2>1. UNCHANGED <<files, pc, memory>>
    BY <1>3 DEF RestoreOlder, Arrive, deviceVars
  <2>2. TypeOK'
    BY <2>1 DEF TypeOK, OutsideTypes, files, memory
  <2>3. Buffers'
    BY <2>1 DEF Buffers, files, memory, Contiguous, Last
  <2> QED BY <2>2, <2>3
<1> QED BY <1>1, <1>2, <1>3

\* The types of what is outside the process.
LEMMA OutsideTyped ==
  ASSUME TypeOK, Buffers, [Next]_allVars
  PROVE  OutsideTypes
<1> USE DEF TypeOK, OutsideTypes
<1>1. continuous' \in BOOLEAN
  BY DEF Next, allVars
<1>2. CASE UNCHANGED deviceVars
  BY <1>1, <1>2 DEF deviceVars, gateway, counters
<1>3. CASE UNCHANGED <<gateway, counters>>
  BY <1>1, <1>3 DEF gateway, counters
<1>4. CASE Flush
  <2>1. items # << >> => Head(items) \in Events
    BY LastOfABuffer
  <2> QED BY <1>1, <1>4, <2>1 DEF Flush, counters
<1>5. CASE UNCHANGED gateway /\ Fault
  BY <1>1, <1>5, DeviceConfig DEF gateway, Fault
<1>6. ASSUME NEW e \in Events, Arrive(e) PROVE OutsideTypes
  <2>1. received' = received \/ received' = Append(received, e)
    BY ONLY <1>6 DEF Arrive
  <2>2. Append(received, e) \in Seq(Events)
    BY AppendProperties
  <2>3. received' \in Seq(Events)
    BY <2>1, <2>2
  <2> QED BY <1>1, <1>6, <2>3 DEF Arrive, counters
<1>7. CASE Crash
  BY <1>1, <1>7, DeviceConfig DEF Crash, gateway
<1>8. CASE LoseFile
  BY <1>1, <1>8 DEF LoseFile, gateway
<1>9. CASE RestoreOlder
  <2>1. PICK n \in 0 .. Len(received) - 1 : received' = SubSeq(received, 1, n)
    BY <1>9 DEF RestoreOlder
  <2>2. received' \in Seq(Events)
    <3>1. Len(received) \in Nat /\ 1 \in Int /\ n \in Int
      BY LenProperties
    <3>2. \A i \in 1 .. n : received[i] \in Events
      BY <3>1, ElementOfSeq
    <3> QED BY <2>1, <3>1, <3>2, SubSeqProperties
  <2> QED BY <1>1, <1>9, <2>2 DEF RestoreOlder
<1>10. CASE Start \/ Loop \/ Finish \/ Connect \/ Reconcile \/ ReconcileRaises \/ Adopt \/ Answered
         \/ TimedOut \/ Acknowledge \/ Waits \/ (\E e \in Events : Sample(e)) \/ Pause \/ Save
  BY <1>3, <1>10 DEF Start, Loop, Finish, Connect, Reconcile, ReconcileRaises, Adopt, Answered,
       TimedOut, Acknowledge, Waits, Sample, Pause, Save
<1>11. CASE Rejected \/ ConnectFails \/ Unanswered \/ WriteFails
  BY <1>3, <1>5, <1>11 DEF Rejected, ConnectFails, Unanswered, WriteFails, counters, Fault
<1> QED BY <1>2, <1>4, <1>6, <1>7, <1>8, <1>9, <1>10, <1>11 DEF Next, Step, ProcessStep, allVars

\* So every step keeps the types and the buffers.
LEMMA BuffersStep ==
  ASSUME TypeOK, Buffers, [Next]_allVars
  PROVE  TypeOK' /\ Buffers'
<1>1. OutsideTypes
  BY OutsideTyped
<1> QED
  BY <1>1, StartKeeps, SyncKeeps, ReadingKeeps, OutsideKeeps DEF Next, Step, ProcessStep, allVars

----------------------------------------------------------------------------
(* Chains. *)

\* An end of a chain is contiguous, and ends where the chain does.
LEMMA EndOfAChain ==
  ASSUME NEW P \in Chains, NEW c \in Seq(Events), IsEnd(c, P)
  PROVE  /\ Len(P) \in Nat /\ Len(c) \in Nat
         /\ c = << >> <=> Len(c) = 0
         /\ Contiguous(c)
         /\ \A i \in 1 .. Len(c) : SequenceOf[c[i]] = Len(P) - Len(c) + i
         /\ c # << >> => /\ EndOf(c) = Place(P, Len(P))
                        /\ SequenceOf[Last(c)] = Len(P)
                        /\ SequenceOf[Head(c)] = Len(P) - Len(c) + 1
                        /\ Head(c) = P[Len(P) - Len(c) + 1]
<1>1. /\ Len(P) \in Nat /\ Len(c) \in Nat
      /\ c = << >> <=> Len(c) = 0
  BY LenProperties, EmptySeq DEF Chains
<1>2. \A i \in 1 .. Len(c) : /\ Len(P) - Len(c) + i \in 1 .. Len(P)
                             /\ c[i] = P[Len(P) - Len(c) + i]
  BY <1>1 DEF IsEnd
<1>3. \A i \in 1 .. Len(c) : SequenceOf[c[i]] = Len(P) - Len(c) + i
  BY <1>1, <1>2 DEF Chains
<1>4. Contiguous(c)
  <2>1. ASSUME NEW i \in 2 .. Len(c)
        PROVE  SequenceOf[c[i]] = SequenceOf[c[i - 1]] + 1
    <3>1. i \in 1 .. Len(c) /\ i - 1 \in 1 .. Len(c)
      BY <1>1
    <3>2. SequenceOf[c[i]] = Len(P) - Len(c) + i /\ SequenceOf[c[i - 1]] = Len(P) - Len(c) + (i - 1)
      BY <1>3, <3>1
    <3> QED BY <1>1, <3>1, <3>2
  <2> QED BY <2>1 DEF Contiguous
<1>5. ASSUME c # << >>
      PROVE  /\ EndOf(c) = Place(P, Len(P))
             /\ SequenceOf[Last(c)] = Len(P)
             /\ SequenceOf[Head(c)] = Len(P) - Len(c) + 1
             /\ Head(c) = P[Len(P) - Len(c) + 1]
  <2>1. /\ Last(c) = c[Len(c)] /\ Head(c) = c[1] /\ EndOf(c) = PositionOf(Last(c))
        /\ Len(c) \in 1 .. Len(c) /\ 1 \in 1 .. Len(c) /\ Len(P) # 0
    BY <1>1, <1>2, <1>5, LastOfABuffer
  <2>2. Last(c) = P[Len(P)] /\ SequenceOf[Last(c)] = Len(P)
    BY <1>1, <1>2, <1>3, <2>1
  <2> QED BY <1>2, <1>3, <2>1, <2>2 DEF PositionOf, Place
<1> QED BY <1>1, <1>3, <1>4, <1>5

\* So is what a filter by number leaves of it.
LEMMA LeftOfAnEnd ==
  ASSUME NEW P \in Chains, NEW c \in Seq(Events), IsEnd(c, P), NEW n \in Nat,
         NEW r, r = Newer(c, n)
  PROVE  /\ r \in Seq(Events) /\ Len(r) \in Nat /\ IsEnd(r, P)
         /\ n <= Len(P) - Len(c) => Len(r) = Len(c)
         /\ Len(P) - Len(c) <= n /\ n <= Len(P) => Len(P) - Len(r) = n
         /\ Len(P) <= n => Len(r) = 0
<1>1. /\ Len(P) \in Nat /\ Len(c) \in Nat /\ Contiguous(c) /\ Len(c) <= Len(P)
      /\ \A i \in 1 .. Len(c) : SequenceOf[c[i]] = Len(P) - Len(c) + i
  BY EndOfAChain DEF IsEnd
<1>2. /\ r \in Seq(Events) /\ Len(r) <= Len(c)
      /\ \A i \in 1 .. Len(r) : r[i] = c[Len(c) - Len(r) + i]
      /\ \A i \in 1 .. Len(c) : SequenceOf[c[i]] > n <=> i > Len(c) - Len(r)
  BY <1>1, LeftOfAnOutbox
<1>3. Len(r) \in Nat
  BY <1>2, LenProperties
<1>4. IsEnd(r, P)
  <2>1. ASSUME NEW i \in 1 .. Len(r)
        PROVE  r[i] = P[Len(P) - Len(r) + i]
    <3>1. /\ Len(c) - Len(r) + i \in 1 .. Len(c)
          /\ Len(P) - Len(c) + (Len(c) - Len(r) + i) = Len(P) - Len(r) + i
      BY <1>1, <1>2, <1>3
    <3> QED BY <1>2, <3>1 DEF IsEnd
  <2> QED BY <1>1, <1>2, <1>3, <2>1 DEF IsEnd
<1>5. \A i \in 1 .. Len(c) : Len(P) - Len(c) + i > n <=> i > Len(c) - Len(r)
  BY <1>1, <1>2
<1>6. ASSUME n <= Len(P) - Len(c) PROVE Len(r) = Len(c)
  <2>1. CASE Len(c) = 0
    BY <1>2, <1>3, <2>1
  <2>2. CASE Len(c) # 0
    <3>1. 1 \in 1 .. Len(c) /\ Len(P) - Len(c) + 1 > n
      BY <1>1, <1>6, <2>2
    <3>2. 1 > Len(c) - Len(r)
      BY <1>5, <3>1
    <3> QED BY <1>1, <1>2, <1>3, <3>2
  <2> QED BY <2>1, <2>2
<1>7. ASSUME Len(P) - Len(c) <= n, n <= Len(P) PROVE Len(P) - Len(r) = n
  <2> DEFINE t == n - (Len(P) - Len(c))
  <2>1. t \in 0 .. Len(c)
    BY <1>1, <1>7
  <2>2. t > 0 => t \in 1 .. Len(c) /\ ~ (Len(P) - Len(c) + t > n)
    BY <1>1, <2>1
  <2>3. t < Len(c) => t + 1 \in 1 .. Len(c) /\ Len(P) - Len(c) + (t + 1) > n
    BY <1>1, <2>1
  <2>4. t > 0 => ~ (t > Len(c) - Len(r))
    BY <1>5, <2>2
  <2>5. t < Len(c) => t + 1 > Len(c) - Len(r)
    BY <1>5, <2>3
  <2>6. t = Len(c) - Len(r)
    <3> HIDE DEF t
    <3> QED BY <1>1, <1>2, <1>3, <2>1, <2>4, <2>5
  <2> QED BY <1>1, <1>3, <2>6
<1>8. ASSUME Len(P) <= n PROVE Len(r) = 0
  <2>1. CASE Len(c) = 0
    BY <1>2, <1>3, <2>1
  <2>2. CASE Len(c) # 0
    <3>1. Len(c) \in 1 .. Len(c) /\ ~ (Len(P) - Len(c) + Len(c) > n)
      BY <1>1, <1>8, <2>2
    <3>2. ~ (Len(c) > Len(c) - Len(r))
      BY <1>5, <3>1
    <3> QED BY <1>1, <1>2, <1>3, <3>2
  <2> QED BY <2>1, <2>2
<1> QED BY <1>2, <1>3, <1>4, <1>6, <1>7, <1>8

\* A chain and its next event are a chain.
LEMMA ChainGrows ==
  ASSUME NEW P \in Chains, NEW e \in Events, NEW Q, Q = Append(P, e),
         SequenceOf[e] = Len(P) + 1,
         PreviousOf[e] = Place(P, Len(P)).previous_event_hash
  PROVE  /\ Q \in Chains
         /\ Len(P) \in Nat /\ Len(Q) = Len(P) + 1 /\ Q[Len(Q)] = e
         /\ \A i \in 1 .. Len(P) : Q[i] = P[i]
         /\ Place(Q, Len(Q)) = PositionOf(e)
         /\ \A n \in 0 .. Len(P) : Place(Q, n) = Place(P, n)
<1>1. /\ Q \in Seq(Events) /\ Len(Q) = Len(P) + 1 /\ Len(P) \in Nat
      /\ \A i \in 1 .. Len(P) : Q[i] = P[i]
      /\ Q[Len(P) + 1] = e
  BY AppendProperties, LenProperties DEF Chains
<1>2. ASSUME NEW i \in 1 .. Len(Q)
      PROVE  /\ SequenceOf[Q[i]] = i
             /\ PreviousOf[Q[i]] = IF i = 1 THEN ZeroHash ELSE Q[i - 1]
  <2>1. CASE i <= Len(P)
    <3>1. i \in 1 .. Len(P) /\ (i # 1 => i - 1 \in 1 .. Len(P))
      BY <1>1, <2>1
    <3> QED BY <1>1, <3>1 DEF Chains
  <2>2. CASE i = Len(P) + 1
    <3>1. /\ i = 1 <=> Len(P) = 0
          /\ i # 1 => i - 1 = Len(P) /\ i - 1 \in 1 .. Len(P)
      BY <1>1, <2>2
    <3>2. /\ SequenceOf[Q[i]] = i
          /\ PreviousOf[Q[i]] = Place(P, Len(P)).previous_event_hash
      BY <1>1, <2>2
    <3>3. Place(P, Len(P)).previous_event_hash = IF Len(P) = 0 THEN ZeroHash ELSE P[Len(P)]
      BY DEF Place
    <3> QED BY <1>1, <3>1, <3>2, <3>3
  <2>3. i <= Len(P) \/ i = Len(P) + 1
    BY <1>1
  <2> QED BY <2>1, <2>2, <2>3
<1>3. \A n \in 0 .. Len(P) : Place(Q, n) = Place(P, n)
  BY <1>1 DEF Place
<1>4. Place(Q, Len(Q)) = PositionOf(e)
  BY <1>1 DEF Place, PositionOf
<1> QED BY <1>1, <1>2, <1>3, <1>4 DEF Chains

\* An end of a chain grows with it.
LEMMA EndGrows ==
  ASSUME NEW P \in Seq(Events), NEW Q, NEW e, Len(P) \in Nat,
         Len(Q) = Len(P) + 1, Q[Len(P) + 1] = e, \A i \in 1 .. Len(P) : Q[i] = P[i],
         NEW c \in Seq(Events), IsEnd(c, P), NEW d, d = Append(c, e), e \in Events
  PROVE  IsEnd(d, Q)
<1>1. /\ Len(d) = Len(c) + 1 /\ Len(c) \in Nat
      /\ \A i \in 1 .. Len(c) : d[i] = c[i]
      /\ d[Len(c) + 1] = e
  BY AppendProperties, LenProperties
<1>2. ASSUME NEW i \in 1 .. Len(d)
      PROVE  d[i] = Q[Len(Q) - Len(d) + i]
  <2>1. CASE i <= Len(c)
    <3>1. /\ i \in 1 .. Len(c) /\ Len(P) - Len(c) + i \in 1 .. Len(P)
          /\ Len(Q) - Len(d) + i = Len(P) - Len(c) + i
      BY <1>1, <2>1 DEF IsEnd
    <3> QED BY <1>1, <2>1, <3>1 DEF IsEnd
  <2>2. CASE i = Len(c) + 1
    <3>1. Len(Q) - Len(d) + i = Len(P) + 1
      BY <1>1, <2>2
    <3> QED BY <1>1, <2>2, <3>1
  <2>3. i <= Len(c) \/ i = Len(c) + 1
    BY <1>1
  <2> QED BY <2>1, <2>2, <2>3
<1>3. Len(d) <= Len(Q)
  BY <1>1 DEF IsEnd
<1> QED BY <1>2, <1>3 DEF IsEnd

\* A beginning of a chain is a chain.
LEMMA ChainCut ==
  ASSUME NEW P \in Chains, NEW n \in 0 .. Len(P), NEW Q, Q = SubSeq(P, 1, n)
  PROVE  /\ Q \in Chains /\ Len(Q) = n
         /\ \A i \in 1 .. n : Q[i] = P[i]
         /\ \A m \in 0 .. n : Place(Q, m) = Place(P, m)
<1>1. /\ Len(P) \in Nat
      /\ \A i \in 1 .. n : P[i] \in Events
  BY LenProperties, ElementOfSeq DEF Chains
<1>2. /\ Q \in Seq(Events) /\ Len(Q) = IF 1 <= n THEN n - 1 + 1 ELSE 0
      /\ \A i \in 1 .. n - 1 + 1 : Q[i] = P[1 + i - 1]
  BY <1>1, SubSeqProperties
<1>3. Len(Q) = n /\ n - 1 + 1 = n
  BY <1>1, <1>2
<1>4. \A i \in 1 .. n : Q[i] = P[i]
  <2>1. \A i \in 1 .. n : 1 + i - 1 = i
    OBVIOUS
  <2> QED BY <1>2, <1>3, <2>1
<1>5. ASSUME NEW i \in 1 .. n
      PROVE  /\ SequenceOf[Q[i]] = i
             /\ PreviousOf[Q[i]] = IF i = 1 THEN ZeroHash ELSE Q[i - 1]
  <2>1. i \in 1 .. Len(P) /\ (i # 1 => i - 1 \in 1 .. n)
    BY <1>1
  <2> QED BY <1>4, <2>1 DEF Chains
<1>6. \A m \in 0 .. n : Place(Q, m) = Place(P, m)
  BY <1>4 DEF Place
<1> QED BY <1>2, <1>3, <1>4, <1>5, <1>6 DEF Chains

----------------------------------------------------------------------------
(* Every step but a loss keeps the device and the gateway on one chain. *)

\* A step that only moves the process on.
LEMMA MovesOnChain ==
  ASSUME NEW P \in Chains, OneChain(P), pc \notin {"off", "save"},
         UNCHANGED <<files, items, local_state, client, gateway, lost>>,
         pc' \in {"connect", "flush", "await", "loop", "sample"}
  PROVE  OneChain(P)'
BY DEF OneChain, FilesOf, GatewayOf, ProcessOf, Delivery, IsEnd, IsPlace, Place, files, gateway

\* The end of the process: the outbox may be shorter by what has arrived.
LEMMA EndsOnChain ==
  ASSUME NEW P \in Chains, OneChain(P), Exit, UNCHANGED <<state_json, gateway, lost>>,
         IsEnd(outbox_json', P),
         state_json.sequence = Len(P) \/ outbox_json' # << >>,
         lost = {} => Len(P) - Len(outbox_json') <= Len(received)
  PROVE  OneChain(P)'
BY DEF OneChain, FilesOf, GatewayOf, Delivery, IsEnd, IsPlace, Place, gateway, Exit

\* An exception out of a synchronization, with the files as they are.
LEMMA RaisesOnChain ==
  ASSUME NEW P \in Chains, OneChain(P), pc \notin {"off", "save"}, SyncRaises,
         UNCHANGED <<files, gateway, lost>>
  PROVE  OneChain(P)'
<1>1. CASE AfterSync /\ UNCHANGED <<items, local_state, client, limit>>
  <2>1. pc' \in {"loop", "sample"}
    BY <1>1 DEF AfterSync
  <2> QED BY <1>1, <2>1, MovesOnChain
<1>2. CASE Exit
  <2>1. /\ IsEnd(outbox_json', P)
        /\ state_json.sequence = Len(P) \/ outbox_json' # << >>
        /\ lost = {} => Len(P) - Len(outbox_json') <= Len(received)
        /\ UNCHANGED <<state_json, gateway, lost>>
    BY <1>2 DEF files, OneChain, FilesOf, Delivery, IsEnd
  <2> QED BY <1>2, <2>1, EndsOnChain
<1> QED BY <1>1, <1>2 DEF SyncRaises

\* A start goes on from the end of the chain, be it in one file or the other.
LEMMA StartOnChain ==
  ASSUME TypeOK, NEW P \in Chains, OneChain(P), Start
  PROVE  OneChain(P)'
<1>1. /\ IsEnd(outbox_json, P) /\ IsPlace(state_json, P) /\ Len(P) \in Nat
      /\ state_json.sequence \in Nat
      /\ state_json.sequence = Len(P) \/ outbox_json # << >>
  BY LenProperties DEF OneChain, FilesOf, Chains, TypeOK, Positions
<1>2. outbox_json # << >> => /\ EndOf(outbox_json) = Place(P, Len(P))
                             /\ SequenceOf[Last(outbox_json)] = Len(P)
  BY <1>1, EndOfAChain DEF TypeOK
<1>3. Recovered = Place(P, Len(P))
  BY <1>1, <1>2 DEF Recovered, IsPlace
<1>4. /\ pc = "off" /\ pc' = "connect" /\ items' = outbox_json /\ outbox_json' = outbox_json
      /\ local_state' = Place(P, Len(P)) /\ client' = Place(P, Len(P))
      /\ state_json' = Place(P, Len(P)) /\ UNCHANGED <<posted, received, lost>>
  BY <1>3 DEF Start, gateway, counters
<1>5. Place(P, Len(P)).sequence = Len(P) /\ IsPlace(Place(P, Len(P)), P)
  BY <1>1 DEF Place, IsPlace
<1>6. FilesOf(P)'
  BY <1>1, <1>4, <1>5 DEF FilesOf, IsEnd, IsPlace, Place
<1>7. GatewayOf(P)'
  BY <1>4 DEF OneChain, GatewayOf
<1>8. ProcessOf(P)'
  BY <1>1, <1>4 DEF ProcessOf, IsEnd, Place
<1>9. ASSUME lost' = {} PROVE Delivery(P)'
  <2>1. lost = {} /\ Delivery(P) /\ Len(received) <= Len(P)
    BY <1>4, <1>9 DEF OneChain, GatewayOf
  <2>2. \A e \in posted' : SequenceOf[e] <= state_json'.sequence /\ SequenceOf[e] <= Len(received) + 1
    BY <1>4, <1>5, <2>1 DEF OneChain, GatewayOf, Delivery
  <2> QED BY <1>4, <1>5, <2>1, <2>2 DEF Delivery
<1> QED BY <1>4, <1>6, <1>7, <1>8, <1>9 DEF OneChain

\* The buffer, the file or both after the events up to number n are dropped.
LEMMA LeftOnChain ==
  ASSUME TypeOK, NEW P \in Chains, OneChain(P), pc # "off", NEW n \in Nat
  PROVE  /\ After(n) \in Seq(Events) /\ IsEnd(After(n), P)
         /\ Len(After(n)) \in Nat /\ Len(items) \in Nat /\ Len(P) \in Nat /\ Len(items) <= Len(P)
         /\ n <= Len(P) - Len(items) => Len(After(n)) = Len(items)
         /\ Len(P) - Len(items) <= n /\ n <= Len(P) => Len(P) - Len(After(n)) = n
         /\ Len(P) <= n => Len(After(n)) = 0
<1>1. IsEnd(items, P) /\ items \in Seq(Events)
  BY DEF OneChain, ProcessOf, TypeOK
<1>2. Len(items) \in Nat /\ Len(P) \in Nat /\ Len(items) <= Len(P)
  BY <1>1, LenProperties DEF Chains, IsEnd
<1> QED BY <1>1, <1>2, LeftOfAnEnd DEF After

\* So the buffer still is an end of the chain, without a gap to the gateway.
LEMMA DropsOnChain ==
  ASSUME TypeOK, NEW P \in Chains, OneChain(P), pc \notin {"off", "save"}, NEW n \in Nat,
         items' = After(n), outbox_json' \in {outbox_json, items'},
         UNCHANGED <<state_json, client, gateway, lost>>, local_state' = client,
         lost = {} => Len(P) - Len(items) <= n /\ n <= Len(received),
         pc' \in {"adopt", "flush", "loop", "sample"},
         pc' = "adopt" => checkpoint' = checkpoint /\ IsPlace(checkpoint, P)
                          /\ checkpoint.sequence = Len(P)
  PROVE  OneChain(P)'
<1>1. /\ IsEnd(items', P) /\ Len(items') \in Nat /\ Len(items) \in Nat /\ Len(P) \in Nat
      /\ Len(P) - Len(items) <= n /\ n <= Len(P) => Len(P) - Len(items') = n
  BY LeftOnChain
<1>2. /\ FilesOf(P) /\ GatewayOf(P) /\ ProcessOf(P)
      /\ state_json = client /\ client = Place(P, Len(P)) /\ state_json.sequence = Len(P)
  BY DEF OneChain, ProcessOf, Place
<1>3. FilesOf(P)'
  BY <1>1, <1>2 DEF FilesOf, IsEnd, IsPlace, Place
<1>4. GatewayOf(P)'
  BY <1>2 DEF GatewayOf, gateway
<1>5. ProcessOf(P)'
  BY <1>1, <1>2 DEF ProcessOf, IsEnd, IsPlace, Place
<1>6. ASSUME lost' = {} PROVE Delivery(P)'
  <2>1. /\ Delivery(P) /\ Len(P) - Len(items) <= n /\ n <= Len(received)
        /\ Len(received) <= Len(P) /\ Len(received) \in Nat
    BY <1>2, <1>6, LenProperties DEF OneChain, GatewayOf, TypeOK
  <2>2. Len(P) - Len(items') <= Len(received)
    BY <1>1, <2>1
  <2>3. Len(P) - Len(outbox_json') <= Len(received)
    BY <2>1, <2>2 DEF Delivery
  <2> QED BY <2>1, <2>2, <2>3 DEF Delivery, gateway
<1> QED BY <1>3, <1>4, <1>5, <1>6 DEF OneChain

\* What the gateway has is a beginning of the chain.
LEMMA ReceivedOnChain ==
  ASSUME TypeOK, NEW P \in Chains, OneChain(P)
  PROVE  /\ Len(P) \in Nat /\ Len(received) \in Nat /\ Len(received) <= Len(P)
         /\ EndOf(received) = Place(P, Len(received))
         /\ \A e \in ToSet(received) : SequenceOf[e] \in 1 .. Len(received) /\ e = P[SequenceOf[e]]
         /\ \A i \in 1 .. Len(received) : P[i] \in ToSet(received)
<1>1. /\ Len(P) \in Nat /\ Len(received) \in Nat /\ Len(received) <= Len(P)
      /\ \A i \in 1 .. Len(received) : received[i] = P[i] /\ SequenceOf[P[i]] = i
  BY LenProperties DEF OneChain, GatewayOf, TypeOK, Chains
<1>2. EndOf(received) = Place(P, Len(received))
  <2>1. CASE received = << >>
    BY <2>1, LastOfABuffer, EmptySeq DEF TypeOK, Origin, Place
  <2>2. CASE received # << >>
    <3>1. /\ EndOf(received) = PositionOf(Last(received)) /\ Last(received) = received[Len(received)]
          /\ Len(received) # 0
      BY <2>2, LastOfABuffer DEF TypeOK
    <3>2. Last(received) = P[Len(received)] /\ SequenceOf[P[Len(received)]] = Len(received)
      BY <1>1, <3>1
    <3> QED BY <3>1, <3>2 DEF PositionOf, Place
  <2> QED BY <2>1, <2>2
<1>3. DOMAIN received = 1 .. Len(received)
  BY LenProperties DEF TypeOK
<1> QED BY <1>1, <1>2, <1>3 DEF ToSet

\* The first event of the buffer is the next one for the gateway at most.
LEMMA HeadOnChain ==
  ASSUME TypeOK, Buffers, NEW P \in Chains, OneChain(P), pc # "off", items # << >>
  PROVE  /\ Head(items) \in Events /\ SequenceOf[Head(items)] \in Nat
         /\ Head(items) = P[SequenceOf[Head(items)]]
         /\ SequenceOf[Head(items)] <= Len(P)
         /\ Len(P) - Len(items) <= SequenceOf[Head(items)]
         /\ lost = {} => SequenceOf[Head(items)] <= Len(received) + 1
<1>1. /\ IsEnd(items, P) /\ items \in Seq(Events) /\ Head(items) \in Events
      /\ Len(items) \in Nat \ {0} /\ Len(items) <= Len(P)
  BY LastOfABuffer DEF OneChain, ProcessOf, TypeOK, IsEnd
<1>2. /\ SequenceOf[Head(items)] = Len(P) - Len(items) + 1
      /\ Head(items) = P[Len(P) - Len(items) + 1] /\ Len(P) \in Nat
  BY <1>1, EndOfAChain
<1>3. SequenceOf[Head(items)] \in Nat /\ Len(received) \in Nat
  BY <1>1, ReceivedOnChain, DeviceConfig
<1>4. lost = {} => Len(P) - Len(items) <= Len(received)
  BY DEF OneChain, Delivery
<1> QED BY <1>1, <1>2, <1>3, <1>4

\* The steps of a synchronization.
LEMMA SyncOnChain ==
  ASSUME TypeOK, Buffers, NEW P \in Chains, OneChain(P),
         Connect \/ ConnectFails \/ Reconcile \/ ReconcileRaises \/ Adopt \/ Flush \/ Answered
           \/ Rejected \/ Unanswered \/ TimedOut \/ Acknowledge \/ WriteFails
  PROVE  OneChain(P)'
<1> /\ FilesOf(P) /\ GatewayOf(P) /\ Len(P) \in Nat /\ Len(received) \in Nat
  BY ReceivedOnChain DEF OneChain
<1>1. CASE Connect
  <2>1. /\ pc = "connect" /\ pc' = "reconcile" /\ checkpoint' = Place(P, Len(received))
        /\ UNCHANGED <<files, items, local_state, client, gateway, lost>>
        /\ Len(received) <= Len(P)
    BY <1>1, ReceivedOnChain DEF Connect, counters
  <2>2. FilesOf(P)' /\ GatewayOf(P)'
    BY <2>1 DEF FilesOf, GatewayOf, IsEnd, IsPlace, Place, files, gateway
  <2>3. ProcessOf(P)'
    BY <2>1 DEF OneChain, ProcessOf, IsEnd, IsPlace, Place, files
  <2>4. lost' = {} => Delivery(P)'
    BY <2>1 DEF OneChain, Delivery, Place, files, gateway
  <2> QED BY <2>2, <2>3, <2>4 DEF OneChain
<1>2. CASE ConnectFails \/ Rejected
  BY <1>2, RaisesOnChain DEF ConnectFails, Rejected, Fault, counters
<1>3. CASE Unanswered \/ TimedOut
  <2>1. CASE SyncRaises
    BY <1>3, <2>1, RaisesOnChain DEF Unanswered, TimedOut, Fault, counters
  <2>2. CASE pc' = "flush" /\ UNCHANGED memory
    BY <1>3, <2>2, MovesOnChain DEF Unanswered, TimedOut, Fault, counters, memory
  <2> QED BY <1>3, <2>1, <2>2 DEF Unanswered, TimedOut
<1>4. ASSUME pc = "reconcile"
      PROVE  /\ checkpoint.sequence \in Nat /\ IsPlace(checkpoint, P)
             /\ local_state = client /\ client.sequence = Len(P)
             /\ lost = {} => /\ Len(P) - Len(items) <= checkpoint.sequence
                             /\ checkpoint.sequence <= Len(received)
  BY <1>4 DEF TypeOK, Positions, OneChain, ProcessOf, Delivery, Place
<1>5. CASE Reconcile
  <2>1. /\ pc = "reconcile" /\ items' = After(checkpoint.sequence) /\ outbox_json' = items'
        /\ UNCHANGED <<state_json, local_state, client, checkpoint, gateway, lost>>
        /\ pc' \in {"adopt", "flush"}
        /\ pc' = "adopt" => local_state.sequence = checkpoint.sequence
    BY <1>5 DEF Reconcile, counters
  <2>2. /\ outbox_json' \in {outbox_json, items'} /\ local_state' = client
        /\ pc' = "adopt" => checkpoint.sequence = Len(P)
    BY <1>4, <2>1
  <2> QED BY <1>4, <2>1, <2>2, DropsOnChain
<1>6. CASE ReconcileRaises
  <2>1. /\ pc = "reconcile" /\ UNCHANGED <<state_json, gateway, lost>>
        /\ checkpoint.sequence \in Nat /\ client.sequence = Len(P) /\ local_state = client
    BY <1>4, <1>6 DEF ReconcileRaises, counters
  <2>2. CASE SyncRaises /\ UNCHANGED outbox_json
    BY <2>1, <2>2, RaisesOnChain DEF files
  <2>3. CASE /\ outbox_json' = After(checkpoint.sequence)
             /\ AfterSync /\ items' = outbox_json' /\ UNCHANGED <<local_state, client, limit>>
    <3>1. pc' \in {"loop", "sample"} /\ outbox_json' \in {outbox_json, items'} /\ local_state' = client
      BY <2>1, <2>3 DEF AfterSync
    <3> QED BY <1>4, <2>1, <2>3, <3>1, DropsOnChain
  <2>4. CASE outbox_json' = After(checkpoint.sequence) /\ Exit
    <3>1. /\ IsEnd(After(checkpoint.sequence), P) /\ checkpoint.sequence <= Len(P)
          /\ Len(P) - Len(items) <= checkpoint.sequence =>
               Len(P) - Len(After(checkpoint.sequence)) = checkpoint.sequence
      BY <1>4, <2>1, LeftOnChain DEF IsPlace
    <3>2. state_json.sequence = Len(P)
      BY <2>1 DEF OneChain, ProcessOf, Place
    <3>3. lost = {} => Len(P) - Len(outbox_json') <= Len(received)
      BY <1>4, <2>1, <2>4, <3>1
    <3>4. IsEnd(outbox_json', P)
      BY <2>4, <3>1 DEF IsEnd
    <3> QED BY <2>1, <2>4, <3>2, <3>3, <3>4, EndsOnChain
  <2> QED BY <1>6, <2>2, <2>3, <2>4 DEF ReconcileRaises
<1>7. CASE Adopt
  <2>1. checkpoint = client /\ client = Place(P, Len(P)) /\ pc = "adopt" /\ state_json = client
    BY <1>7 DEF Adopt, OneChain, ProcessOf, IsPlace
  <2> QED BY <1>7, <2>1, MovesOnChain DEF Adopt, OneChain, ProcessOf, files, counters
<1>8. CASE Flush
  <2>1. CASE items = << >>
    BY <1>8, <2>1, MovesOnChain DEF Flush, AfterSync, gateway, counters
  <2>2. CASE items # << >>
    <3>1. /\ pc = "flush" /\ pc' = "await" /\ posted' = posted \cup {Head(items)}
          /\ UNCHANGED <<files, memory, received, lost>>
      BY <1>8, <2>2 DEF Flush, counters
    <3>2. /\ SequenceOf[Head(items)] \in Nat /\ Head(items) = P[SequenceOf[Head(items)]]
          /\ SequenceOf[Head(items)] <= Len(P)
          /\ lost = {} => SequenceOf[Head(items)] <= Len(received) + 1
      BY <2>2, <3>1, HeadOnChain
    <3>3. FilesOf(P)' /\ GatewayOf(P)'
      BY <3>1, <3>2 DEF FilesOf, GatewayOf, IsEnd, IsPlace, Place, files
    <3>4. ProcessOf(P)'
      BY <3>1 DEF OneChain, ProcessOf, IsEnd, Place, files, memory
    <3>5. state_json.sequence = Len(P)
      BY <3>1 DEF OneChain, ProcessOf, Place
    <3>6. lost' = {} => Delivery(P)'
      BY <3>1, <3>2, <3>5 DEF OneChain, Delivery, files, memory
    <3> QED BY <3>3, <3>4, <3>6 DEF OneChain
  <2> QED BY <2>1, <2>2
<1>9. CASE Answered
  <2>1. /\ pc = "await" /\ pc' = "acknowledge" /\ UNCHANGED <<files, memory, gateway, lost>>
        /\ Head(items) \in ToSet(received)
    BY <1>9 DEF Answered, Has, counters
  <2>2. SequenceOf[Head(items)] <= Len(received)
    BY <2>1, ReceivedOnChain
  <2>3. FilesOf(P)' /\ GatewayOf(P)' /\ ProcessOf(P)'
    BY <2>1 DEF OneChain, FilesOf, GatewayOf, ProcessOf, IsEnd, IsPlace, Place, files, memory, gateway
  <2>4. lost' = {} => Delivery(P)'
    BY <2>1, <2>2 DEF OneChain, Delivery, files, memory, gateway
  <2> QED BY <2>3, <2>4 DEF OneChain
<1>10. ASSUME pc = "acknowledge"
       PROVE  /\ SequenceOf[Head(items)] \in Nat
              /\ Len(P) - Len(items) <= SequenceOf[Head(items)]
              /\ lost = {} => SequenceOf[Head(items)] <= Len(received)
              /\ local_state = client
  <2>1. items # << >> /\ pc # "off"
    BY <1>10 DEF Buffers
  <2>2. lost = {} => SequenceOf[Head(items)] <= Len(received)
    BY <1>10 DEF OneChain, Delivery
  <2>3. local_state = client
    BY <1>10 DEF OneChain, ProcessOf
  <2> QED BY <2>1, <2>2, <2>3, HeadOnChain
<1>11. CASE Acknowledge
  <2>1. /\ pc = "acknowledge" /\ items' = After(SequenceOf[Head(items)]) /\ outbox_json' = items'
        /\ UNCHANGED <<state_json, local_state, client, gateway, lost>> /\ pc' = "flush"
    BY <1>11 DEF Acknowledge, counters
  <2>2. outbox_json' \in {outbox_json, items'} /\ local_state' = client
    BY <1>10, <2>1
  <2> QED BY <1>10, <2>1, <2>2, DropsOnChain
<1>12. CASE WriteFails
  <2>1. /\ pc' = "loop" /\ UNCHANGED <<files, client, gateway, lost>>
    BY <1>12 DEF WriteFails, AfterSync, Fault
  <2>2. CASE pc = "reconcile" /\ items' = After(checkpoint.sequence) /\ UNCHANGED local_state
    <3>1. outbox_json' \in {outbox_json, items'} /\ local_state' = client /\ UNCHANGED state_json
      BY <1>4, <2>1, <2>2 DEF files
    <3> QED BY <1>4, <2>1, <2>2, <3>1, DropsOnChain
  <2>3. CASE pc = "acknowledge" /\ items' = After(SequenceOf[Head(items)]) /\ UNCHANGED local_state
    <3>1. outbox_json' \in {outbox_json, items'} /\ local_state' = client /\ UNCHANGED state_json
      BY <1>10, <2>1, <2>3 DEF files
    <3> QED BY <1>10, <2>1, <2>3, <3>1, DropsOnChain
  <2>4. CASE pc = "adopt" /\ local_state' = checkpoint /\ UNCHANGED items
    <3>1. checkpoint = client /\ local_state = client
      BY <2>4 DEF OneChain, ProcessOf, IsPlace
    <3> QED BY <2>1, <2>4, <3>1, MovesOnChain
  <2> QED BY <1>12, <2>2, <2>3, <2>4 DEF WriteFails
<1> QED BY <1>1, <1>2, <1>3, <1>5, <1>6, <1>7, <1>8, <1>9, <1>11, <1>12

\* The steps of the loop, all but the reading itself, and the end of the process.
LEMMA LoopOnChain ==
  ASSUME TypeOK, Buffers, NEW P \in Chains, OneChain(P),
         Loop \/ Finish \/ Waits \/ Pause \/ Save \/ Crash
  PROVE  OneChain(P)'
<1> /\ FilesOf(P) /\ GatewayOf(P) /\ Len(P) \in Nat /\ Len(received) \in Nat
    /\ Len(received) <= Len(P)
  BY ReceivedOnChain DEF OneChain
<1>1. CASE Loop \/ Waits \/ Pause
  BY <1>1, MovesOnChain DEF Loop, Waits, Pause, files, memory, gateway, counters
<1>2. CASE Finish \/ Crash
  <2>1. Exit /\ UNCHANGED <<files, gateway, lost>>
    BY <1>2 DEF Finish, Crash, counters
  <2>2. /\ IsEnd(outbox_json', P)
        /\ state_json.sequence = Len(P) \/ outbox_json' # << >>
        /\ lost = {} => Len(P) - Len(outbox_json') <= Len(received)
    BY <2>1 DEF files, OneChain, FilesOf, Delivery, IsEnd
  <2> QED BY <2>1, <2>2, EndsOnChain DEF files, OneChain, FilesOf, IsEnd
<1>3. CASE Save
  <2>1. /\ client = Place(P, Len(P)) /\ pc' = "connect"
        /\ local_state' = client /\ state_json' = client
        /\ UNCHANGED <<outbox_json, items, client, gateway, lost>>
    BY <1>3 DEF Save, OneChain, ProcessOf, counters
  <2>2. IsPlace(client, P) /\ client.sequence = Len(P)
    BY <2>1 DEF IsPlace, Place
  <2>3. FilesOf(P)' /\ GatewayOf(P)'
    BY <2>1, <2>2 DEF FilesOf, GatewayOf, IsEnd, IsPlace, Place, gateway
  <2>4. ProcessOf(P)'
    BY <1>3, <2>1 DEF Save, OneChain, ProcessOf, IsEnd, Place
  <2>5. lost' = {} => Delivery(P)'
    BY <1>3, <2>1, <2>2 DEF Save, OneChain, GatewayOf, Delivery, gateway
  <2> QED BY <2>3, <2>4, <2>5 DEF OneChain
<1> QED BY <1>1, <1>2, <1>3

\* A request that arrives is a duplicate or the gateway's next event.
LEMMA ArrivesOnChain ==
  ASSUME TypeOK, Buffers, NEW P \in Chains, OneChain(P), NEW e \in Events, Arrive(e)
  PROVE  OneChain(P)'
<1>1. /\ UNCHANGED <<files, pc, memory, lost>> /\ posted' = posted \ {e}
      /\ e \in posted /\ SequenceOf[e] <= Len(P) /\ e = P[SequenceOf[e]]
      /\ Len(P) \in Nat /\ Len(received) \in Nat
      /\ FilesOf(P) /\ GatewayOf(P)
  BY ReceivedOnChain DEF Arrive, counters, OneChain, GatewayOf
<1>2. /\ received' = received
      \/ /\ SequenceOf[e] = Len(received) + 1 /\ Len(received') = Len(received) + 1
         /\ received'[Len(received) + 1] = e
         /\ \A i \in 1 .. Len(received) : received'[i] = received[i]
  BY AppendProperties DEF Arrive, Acceptable, TypeOK
<1>3. GatewayOf(P)'
  <2>1. CASE received' = received
    BY <1>1, <2>1 DEF GatewayOf
  <2>2. CASE /\ SequenceOf[e] = Len(received) + 1 /\ Len(received') = Len(received) + 1
             /\ received'[Len(received) + 1] = e
             /\ \A i \in 1 .. Len(received) : received'[i] = received[i]
    <3>1. ASSUME NEW i \in 1 .. Len(received') PROVE received'[i] = P[i]
      <4>1. i \in 1 .. Len(received) \/ i = Len(received) + 1
        BY <1>1, <2>2
      <4> QED BY <1>1, <2>2, <4>1 DEF GatewayOf
    <3> QED BY <1>1, <2>2, <3>1 DEF GatewayOf
  <2> QED BY <1>2, <2>1, <2>2
<1>4. FilesOf(P)' /\ (pc' # "off" => ProcessOf(P)')
  BY <1>1 DEF OneChain, FilesOf, ProcessOf, IsEnd, IsPlace, Place, files, memory
<1>5. ASSUME lost' = {} PROVE Delivery(P)'
  <2>1. Delivery(P)
    BY <1>1, <1>5 DEF OneChain
  <2>2. /\ Len(received') \in Nat /\ Len(received) <= Len(received')
        /\ Len(received') <= state_json.sequence
    BY <1>1, <1>2, <2>1 DEF Delivery
  <2>3. Len(outbox_json) \in Nat /\ Len(items) \in Nat
    BY LenProperties DEF TypeOK
  <2>4. checkpoint.sequence \in Nat
    BY DEF TypeOK, Positions
  <2>5. pc = "acknowledge" => SequenceOf[Head(items)] \in Nat
    <3>1. pc = "acknowledge" => Head(items) \in Events
      BY LastOfABuffer DEF Buffers, TypeOK
    <3> QED BY <3>1, DeviceConfig
  <2>6. \A f \in posted' : SequenceOf[f] \in Nat
    BY <1>1, DeviceConfig DEF TypeOK
  <2>7. \A f \in posted' : SequenceOf[f] <= state_json.sequence /\ SequenceOf[f] <= Len(received') + 1
    BY <1>1, <2>1, <2>2, <2>6 DEF Delivery
  <2>8. pc = "acknowledge" => SequenceOf[Head(items)] <= Len(received')
    BY <1>1, <2>1, <2>2, <2>5 DEF Delivery
  <2>9. /\ Len(P) - Len(outbox_json) <= Len(received')
        /\ pc # "off" => Len(P) - Len(items) <= Len(received')
        /\ pc = "reconcile" => /\ Len(P) - Len(items) <= checkpoint.sequence
                               /\ checkpoint.sequence <= Len(received')
    BY <1>1, <2>1, <2>2, <2>3, <2>4 DEF Delivery
  <2> QED BY <1>1, <2>2, <2>7, <2>8, <2>9 DEF Delivery, files, memory
<1> QED BY <1>1, <1>3, <1>4, <1>5 DEF OneChain

\* A reading makes the chain longer.
LEMMA SamplesOnChain ==
  ASSUME TypeOK, NEW P \in Chains, OneChain(P), NEW e \in Events, Sample(e)
  PROVE  Append(P, e) \in Chains /\ OneChain(Append(P, e))'
<1>0. PICK Q : Q = Append(P, e)
  OBVIOUS
<1>1. /\ pc = "sample" /\ pc' = "save" /\ client' = PositionOf(e)
      /\ items' = Append(items, e) /\ outbox_json' = items'
      /\ SequenceOf[e] = client.sequence + 1 /\ PreviousOf[e] = client.previous_event_hash
      /\ UNCHANGED <<state_json, gateway, lost>>
  BY DEF Sample, Signs, counters
<1>2. /\ client = Place(P, Len(P)) /\ state_json = client /\ IsEnd(items, P)
      /\ FilesOf(P) /\ GatewayOf(P) /\ Len(P) \in Nat /\ Len(received) \in Nat
  BY <1>1, ReceivedOnChain DEF OneChain, ProcessOf
<1>3. SequenceOf[e] = Len(P) + 1 /\ PreviousOf[e] = Place(P, Len(P)).previous_event_hash
  BY <1>1, <1>2 DEF Place
<1>4. /\ Q \in Chains /\ Len(Q) = Len(P) + 1
      /\ \A i \in 1 .. Len(P) : Q[i] = P[i]
      /\ Place(Q, Len(Q)) = PositionOf(e) /\ Place(Q, Len(P)) = Place(P, Len(P))
      /\ IsEnd(Append(items, e), Q)
  <2>1. /\ Q \in Chains
        /\ Len(P) \in Nat /\ Len(Q) = Len(P) + 1 /\ Q[Len(Q)] = e
        /\ \A i \in 1 .. Len(P) : Q[i] = P[i]
        /\ Place(Q, Len(Q)) = PositionOf(e)
        /\ \A n \in 0 .. Len(P) : Place(Q, n) = Place(P, n)
    <3>1. Q \in Chains
      BY <1>0, <1>3, ChainGrows
    <3>2. Len(P) \in Nat
      BY <1>0, <1>3, ChainGrows
    <3>3. Len(Q) = Len(P) + 1
      BY <1>0, <1>3, ChainGrows
    <3>4. Q[Len(Q)] = e
      BY <1>0, <1>3, ChainGrows
    <3>5. \A i \in 1 .. Len(P) : Q[i] = P[i]
      BY <1>0, <1>3, ChainGrows
    <3>6. Place(Q, Len(Q)) = PositionOf(e)
      BY <1>0, <1>3, ChainGrows
    <3>7. \A n \in 0 .. Len(P) : Place(Q, n) = Place(P, n)
      BY <1>0, <1>3, ChainGrows
    <3> QED BY <3>1, <3>2, <3>3, <3>4, <3>5, <3>6, <3>7
  <2>2. IsEnd(Append(items, e), Q)
    <3>1. /\ P \in Seq(Events) /\ items \in Seq(Events) /\ IsEnd(items, P)
          /\ Q[Len(P) + 1] = e
      BY <1>2, <2>1 DEF TypeOK, Chains
    <3>2. PICK d : d = Append(items, e)
      OBVIOUS
    <3>3. IsEnd(d, Q)
      BY <2>1, <3>1, <3>2, EndGrows
    <3> QED BY <3>2, <3>3
  <2>3. Place(Q, Len(P)) = Place(P, Len(P))
    BY <2>1
  <2> QED BY <2>1, <2>2, <2>3
<1>5. items' # << >> /\ Len(items') = Len(items) + 1 /\ Len(items) \in Nat
  <2>1. items \in Seq(Events) /\ e \in Events /\ items' = Append(items, e)
    BY <1>1 DEF TypeOK
  <2>2. Append(items, e) # << >> /\ Len(Append(items, e)) = Len(items) + 1 /\ Len(items) \in Nat
    BY <2>1, AppendProperties, LenProperties
  <2> QED BY ONLY <2>1, <2>2
<1>6. FilesOf(Q)'
  <2>1. IsPlace(state_json, Q)
    BY <1>2, <1>4 DEF IsPlace, Place
  <2> QED BY <1>1, <1>4, <1>5, <2>1 DEF FilesOf, IsEnd, IsPlace, Place
<1>7. GatewayOf(Q)'
  <2>1. \A f \in posted : SequenceOf[f] \in 1 .. Len(P) /\ f = P[SequenceOf[f]]
    BY <1>2, DeviceConfig DEF GatewayOf, TypeOK
  <2> QED BY <1>1, <1>2, <1>4, <2>1 DEF GatewayOf, gateway
<1>8. ProcessOf(Q)'
  BY <1>1, <1>4 DEF ProcessOf, IsEnd, IsPlace, Place
<1>9. ASSUME lost' = {} PROVE Delivery(Q)'
  <2>1. Delivery(P) /\ Len(P) - Len(items) <= Len(received)
    BY <1>1, <1>9 DEF OneChain, Delivery
  <2> QED BY <1>1, <1>2, <1>4, <1>5, <2>1 DEF Delivery, gateway
<1>10. OneChain(Q)'
  BY <1>1, <1>6, <1>7, <1>8, <1>9 DEF OneChain
<1> QED BY <1>0, <1>4, <1>10

\* An older copy leaves the gateway a shorter beginning of the chain.
LEMMA RestoreOnChain ==
  ASSUME TypeOK, NEW P \in Chains, OneChain(P), RestoreOlder
  PROVE  OneChain(P)'
<1>1. PICK n \in 0 .. Len(received) - 1 : received' = SubSeq(received, 1, n)
  BY DEF RestoreOlder
<1>2. /\ Len(P) \in Nat /\ Len(received) \in Nat /\ GatewayOf(P) /\ FilesOf(P)
      /\ UNCHANGED <<files, pc, memory, posted>> /\ lost' # {}
  BY ReceivedOnChain DEF OneChain, RestoreOlder
<1>3. Len(received') = n /\ \A i \in 1 .. n : received'[i] = received[i]
  <2>1. 1 \in Int /\ n \in Int /\ \A i \in 1 .. n : received[i] \in Events
    BY <1>2, ElementOfSeq DEF TypeOK
  <2>2. /\ Len(received') = IF 1 <= n THEN n - 1 + 1 ELSE 0
        /\ \A i \in 1 .. n - 1 + 1 : received'[i] = received[1 + i - 1]
    BY <1>1, <2>1, SubSeqProperties
  <2>3. n - 1 + 1 = n /\ \A i \in 1 .. n : 1 + i - 1 = i
    OBVIOUS
  <2> QED BY <2>2, <2>3
<1>4. GatewayOf(P)'
  BY <1>2, <1>3 DEF GatewayOf
<1>5. FilesOf(P)' /\ (pc' # "off" => ProcessOf(P)')
  BY <1>2 DEF OneChain, FilesOf, ProcessOf, IsEnd, IsPlace, Place, files, memory
<1> QED BY <1>2, <1>4, <1>5 DEF OneChain

\* The loss of a file leaves a shorter chain, or an orphan.
LEMMA LosesOnChain ==
  ASSUME TypeOK, NEW P \in Chains, OneChain(P), LoseFile
  PROVE  (\E Q \in Chains : OneChain(Q)') \/ Orphaned'
<1>1. /\ pc = "off" /\ lost = {} /\ lost' = {"device"} /\ UNCHANGED <<pc, memory, gateway>>
      /\ FilesOf(P) /\ GatewayOf(P) /\ Delivery(P)
      /\ Len(P) \in Nat /\ Len(received) \in Nat /\ state_json.sequence \in Nat
      /\ outbox_json = << >> => Len(outbox_json) = 0
  BY ReceivedOnChain, EmptySeq DEF LoseFile, OneChain, TypeOK, Positions
<1>2. CASE state_json' = Origin /\ UNCHANGED outbox_json
  <2>1. CASE outbox_json # << >> \/ Len(P) = 0
    <3>1. IsPlace(Origin, P) /\ Origin.sequence = 0
      BY <1>1 DEF IsPlace, Place, Origin
    <3>2. FilesOf(P)'
      BY <1>1, <1>2, <2>1, <3>1 DEF FilesOf, IsEnd, IsPlace, Place
    <3>3. GatewayOf(P)'
      BY <1>1 DEF GatewayOf, gateway
    <3>4. OneChain(P)'
      BY <1>1, <3>2, <3>3 DEF OneChain
    <3> QED BY <3>4
  <2>2. CASE outbox_json = << >> /\ Len(P) # 0
    <3>1. Len(received) # 0
      BY <1>1, <2>2 DEF Delivery
    <3>2. received # << >>
      BY <3>1, EmptySeq
    <3> QED BY <1>1, <1>2, <2>2, <3>2 DEF Orphaned, gateway
  <2> QED BY <2>1, <2>2
<1>3. CASE outbox_json' = << >> /\ UNCHANGED state_json
  <2>1. PICK n \in 0 .. Len(P) : n = state_json.sequence
    BY <1>1 DEF FilesOf, IsPlace
  <2>2. PICK Q : Q = SubSeq(P, 1, n)
    OBVIOUS
  <2>3. /\ Q \in Chains /\ Len(Q) = n
        /\ \A i \in 1 .. n : Q[i] = P[i]
        /\ Place(Q, n) = Place(P, n)
    <3>1. n \in 0 .. n
      BY <1>1
    <3> QED BY <2>2, <3>1, ChainCut
  <2>4. FilesOf(Q)'
    <3>1. IsPlace(state_json, Q)
      BY <1>1, <2>1, <2>3 DEF FilesOf, IsPlace
    <3>2. IsEnd(<< >>, Q)
      BY <1>1, <2>3 DEF IsEnd
    <3> QED BY <1>3, <2>1, <2>3, <3>1, <3>2 DEF FilesOf, IsPlace, Place, IsEnd
  <2>5. GatewayOf(Q)'
    <3>1. \A e \in posted : SequenceOf[e] \in 1 .. n
      BY <1>1, <2>1, DeviceConfig DEF Delivery, TypeOK
    <3>2. Len(received) <= n
      BY <1>1, <2>1 DEF Delivery
    <3> QED BY <1>1, <2>3, <3>1, <3>2 DEF GatewayOf, gateway
  <2>6. OneChain(Q)'
    BY <1>1, <2>4, <2>5 DEF OneChain
  <2> QED BY <2>3, <2>6
<1> QED BY <1>2, <1>3 DEF LoseFile

\* The orphan starts, finds the gateway ahead, and stops.
LEMMA OrphanStays ==
  ASSUME TypeOK, Orphaned, ~ continuous, "device" \in lost, [Next]_allVars
  PROVE  Orphaned'
<1>1. /\ state_json = Origin /\ outbox_json = << >> /\ received # << >>
      /\ pc \in {"off", "connect", "reconcile"}
      /\ pc # "off" => local_state = Origin /\ client = Origin /\ items = << >>
      /\ pc = "reconcile" => checkpoint.sequence > 0
  BY DEF Orphaned
<1>2. CASE UNCHANGED deviceVars
  BY <1>1, <1>2 DEF Orphaned, deviceVars, files, memory, gateway
<1>3. CASE Start
  <2>1. Recovered = Origin
    BY <1>1 DEF Recovered
  <2> QED BY <1>1, <1>3, <2>1 DEF Start, Orphaned, gateway
<1>4. CASE Connect
  <2>1. EndOf(received).sequence > 0
    <3>1. EndOf(received) = PositionOf(Last(received)) /\ Last(received) \in Events
      BY <1>1, LastOfABuffer DEF TypeOK
    <3> QED BY <3>1, DeviceConfig DEF PositionOf
  <2> QED BY <1>1, <1>4, <2>1 DEF Connect, Orphaned, files, gateway
<1>5. CASE ConnectFails
  BY <1>1, <1>5 DEF ConnectFails, SyncRaises, Exit, Orphaned, files, gateway
<1>6. CASE ReconcileRaises
  <2>1. GatewayAhead
    BY <1>1, <1>6 DEF ReconcileRaises, GatewayAhead, Origin
  <2> QED BY <1>1, <1>6, <2>1 DEF ReconcileRaises, SyncRaises, Exit, Orphaned, gateway
<1>7. ASSUME NEW e \in Events, Arrive(e) PROVE Orphaned'
  <2>1. received' # << >>
    <3>1. CASE received' = received
      BY <1>1, <3>1
    <3>2. CASE received' = Append(received, e)
      BY <3>2, AppendProperties, EmptySeq, LenProperties DEF TypeOK
    <3> QED BY <1>7, <3>1, <3>2 DEF Arrive
  <2> QED BY <1>1, <1>7, <2>1 DEF Arrive, Orphaned, files, memory
<1>8. CASE Crash
  BY <1>1, <1>8 DEF Crash, Exit, Orphaned, files, gateway
<1>9. ~ Reconcile
  BY <1>1 DEF Reconcile, GatewayAhead, Origin
<1>10. ~ WriteFails /\ ~ LoseFile /\ ~ RestoreOlder
  BY DEF WriteFails, LoseFile, RestoreOlder
<1>11. /\ ~ Loop /\ ~ Finish /\ ~ Adopt /\ ~ Flush /\ ~ Answered /\ ~ Rejected /\ ~ TimedOut
       /\ ~ Acknowledge /\ ~ Waits /\ ~ Pause /\ ~ Save /\ ~ Unanswered
       /\ \A e \in Events : ~ Sample(e)
  BY <1>1 DEF Loop, Finish, Adopt, Flush, Answered, Rejected, TimedOut, Acknowledge, Waits,
              Pause, Save, Unanswered, Sample
<1> QED BY <1>2, <1>3, <1>4, <1>5, <1>6, <1>7, <1>8, <1>9, <1>10, <1>11
        DEF Next, Step, ProcessStep, allVars

\* Every step of a device on a chain: only a reading makes the chain longer,
\* and only a loss makes it shorter.
LEMMA StepOnChain ==
  ASSUME TypeOK, Buffers, NEW P \in Chains, OneChain(P), [Next]_allVars
  PROVE  \/ OneChain(P)'
         \/ \E e \in Events : Sample(e) /\ Append(P, e) \in Chains /\ OneChain(Append(P, e))'
         \/ LoseFile /\ ((\E Q \in Chains : OneChain(Q)') \/ Orphaned')
<1>1. CASE UNCHANGED deviceVars
  BY <1>1 DEF OneChain, FilesOf, GatewayOf, ProcessOf, Delivery, IsEnd, IsPlace, Place,
              deviceVars, files, memory, gateway, counters
<1>2. CASE Start
  BY <1>2, StartOnChain
<1>3. CASE Connect \/ ConnectFails \/ Reconcile \/ ReconcileRaises \/ Adopt \/ Flush \/ Answered
             \/ Rejected \/ Unanswered \/ TimedOut \/ Acknowledge \/ WriteFails
  BY <1>3, SyncOnChain
<1>4. CASE Loop \/ Finish \/ Waits \/ Pause \/ Save \/ Crash
  BY <1>4, LoopOnChain
<1>5. CASE \E e \in Events : Arrive(e)
  BY <1>5, ArrivesOnChain
<1>6. CASE \E e \in Events : Sample(e)
  BY <1>6, SamplesOnChain
<1>7. CASE RestoreOlder
  BY <1>7, RestoreOnChain
<1>8. CASE LoseFile
  BY <1>8, LosesOnChain
<1> QED BY <1>1, <1>2, <1>3, <1>4, <1>5, <1>6, <1>7, <1>8 DEF Next, Step, ProcessStep, allVars

----------------------------------------------------------------------------
(* The invariant is inductive. *)

\* The chain of a new device is empty.
LEMMA InitDeviceIInv == Init => DeviceIInv
<1> SUFFICES ASSUME Init PROVE DeviceIInv
  OBVIOUS
<1> USE DEF Init
<1>1. << >> \in Seq(Events) /\ Len(<< >>) = 0
  BY EmptySeq
<1>2. << >> \in Chains
  BY <1>1 DEF Chains
<1>3. TypeOK
  BY <1>1, DeviceConfig DEF TypeOK, Origin, Positions
<1>4. Buffers
  BY <1>1 DEF Buffers, Contiguous
<1>5. OneChain(<< >>)
  BY <1>1 DEF OneChain, FilesOf, GatewayOf, Delivery, IsEnd, IsPlace, Place, Origin
<1> QED BY <1>2, <1>3, <1>4, <1>5 DEF DeviceIInv

\* A loss cannot be undone, and a device keeps its mode.
LEMMA LossIsForGood ==
  ASSUME [Next]_allVars
  PROVE  continuous' = continuous /\ (lost' = lost \/ (lost = {} /\ lost' # {}))
BY DEF Next, allVars, deviceVars, Step, ProcessStep, Start, Loop, Connect, Reconcile, ReconcileRaises,
       Adopt, Flush, Answered, Rejected, TimedOut, Acknowledge, Waits, Sample, Pause, Save, Finish,
       Arrive, ConnectFails, Unanswered, WriteFails, Crash, LoseFile, RestoreOlder, Fault, counters

\* Every step keeps the invariant.
LEMMA NextKeepsDeviceIInv == DeviceIInv /\ [Next]_allVars => DeviceIInv'
<1> SUFFICES ASSUME DeviceIInv, [Next]_allVars PROVE DeviceIInv'
  OBVIOUS
<1>1. TypeOK /\ Buffers
  BY DEF DeviceIInv
<1>2. TypeOK' /\ Buffers'
  BY <1>1, BuffersStep
<1>3. continuous' = continuous /\ (lost' = lost \/ (lost = {} /\ lost' # {}))
  BY LossIsForGood
<1>4. ASSUME NEW P \in Chains, OneChain(P)
      PROVE  (\E Q \in Chains : OneChain(Q)') \/ ("device" \in lost' /\ Orphaned')
  <2>1. LoseFile => "device" \in lost'
    BY DEF LoseFile
  <2> QED BY <1>1, <1>4, <2>1, StepOnChain
<1>5. ASSUME "device" \in lost, ~ continuous, Orphaned
      PROVE  Orphaned'
  BY <1>1, <1>5, OrphanStays
<1>6. \/ \E Q \in Chains : OneChain(Q)'
      \/ "device" \in lost' /\ (continuous' \/ Orphaned')
  BY <1>3, <1>4, <1>5 DEF DeviceIInv
<1>7. (\E P \in Chains : OneChain(P))' \/ ("device" \in lost /\ (continuous \/ Orphaned))'
  BY <1>6
<1> QED BY <1>2, <1>7 DEF DeviceIInv

\* The invariant of the device and of what it exchanges with the gateway.
THEOREM DeviceInvariant == Spec => []DeviceIInv
<1>1. QED BY InitDeviceIInv, NextKeepsDeviceIInv, PTL DEF Spec

----------------------------------------------------------------------------
(* What follows from it. *)

\* As long as nothing is lost, there is a chain.
LEMMA Unlost ==
  ASSUME DeviceIInv, lost = {}
  PROVE  \E P \in Chains : OneChain(P) /\ Delivery(P)
BY DEF DeviceIInv, OneChain

\* What the gateway has and what it lacks of the outbox make the whole chain.
LEMMA WholeChain ==
  ASSUME NEW P \in Chains, NEW o \in Seq(Events), NEW r \in Seq(Events), IsEnd(o, P),
         Len(r) <= Len(P), \A i \in 1 .. Len(r) : r[i] = P[i], Len(P) - Len(o) <= Len(r)
  PROVE  r \o Newer(o, Len(r)) = P
<1>1. PICK u : u = Newer(o, Len(r))
  OBVIOUS
<1>2. Len(r) \in Nat /\ Len(P) \in Nat /\ P \in Seq(Events)
  BY LenProperties DEF Chains
<1>3. u \in Seq(Events) /\ Len(u) \in Nat /\ IsEnd(u, P) /\ Len(P) - Len(u) = Len(r)
  BY <1>1, <1>2, LeftOfAnEnd
<1>4. PICK w : w = r \o u
  OBVIOUS
<1>5. /\ w \in Seq(Events) /\ Len(w) = Len(r) + Len(u)
      /\ \A i \in 1 .. Len(r) + Len(u) : w[i] = IF i <= Len(r) THEN r[i] ELSE u[i - Len(r)]
  BY <1>3, <1>4, ConcatProperties
<1>6. Len(w) = Len(P)
  BY <1>2, <1>3, <1>5
<1>7. ASSUME NEW i \in 1 .. Len(w) PROVE w[i] = P[i]
  <2>1. CASE i <= Len(r)
    BY <1>2, <1>3, <1>5, <2>1
  <2>2. CASE i > Len(r)
    <3>1. PICK k \in 1 .. Len(u) : k = i - Len(r)
      BY <1>2, <1>3, <1>5, <2>2
    <3>2. Len(P) - Len(u) + k = i /\ ~ i <= Len(r) /\ i \in 1 .. Len(r) + Len(u)
      <4>1. i \in 1 .. Len(r) + Len(u) /\ Len(u) \in Nat /\ Len(P) - Len(u) = Len(r)
        BY <1>3, <1>5
      <4> QED BY <1>2, <2>2, <3>1, <4>1
    <3>3. w[i] = u[k]
      BY <1>5, <3>1, <3>2
    <3>4. u[k] = P[Len(P) - Len(u) + k]
      BY <1>3 DEF IsEnd
    <3> QED BY <3>2, <3>3, <3>4
  <2> QED BY <1>2, <2>1, <2>2
<1>8. w = P
  BY <1>2, <1>5, <1>6, <1>7, SeqEqual
<1> QED BY <1>1, <1>4, <1>8

\* So Produced is the chain.
LEMMA ProducedIsTheChain ==
  ASSUME TypeOK, NEW P \in Chains, OneChain(P), Delivery(P)
  PROVE  Produced = P
<1>1. /\ IsEnd(outbox_json, P) /\ Len(received) <= Len(P)
      /\ \A i \in 1 .. Len(received) : received[i] = P[i]
      /\ Len(P) - Len(outbox_json) <= Len(received)
      /\ outbox_json \in Seq(Events) /\ received \in Seq(Events)
  BY DEF OneChain, FilesOf, GatewayOf, Delivery, TypeOK
<1> QED BY <1>1, WholeChain DEF Produced, Undelivered

\* None of the errors that only an operator can clear is ever met
\* (device_node.py:144-160, 307).
THEOREM DeviceInStep == Spec => []DeviceInv
<1>1. ASSUME DeviceIInv PROVE NeverOutOfStep
  <2>1. SUFFICES ASSUME lost = {}, pc = "reconcile"
                 PROVE  ~ GatewayAhead /\ ~ OutOfStep(After(checkpoint.sequence))
    BY DEF NeverOutOfStep
  <2>2. PICK P \in Chains : OneChain(P) /\ Delivery(P)
    BY <1>1, <2>1, Unlost
  <2>3. /\ TypeOK /\ checkpoint.sequence \in Nat /\ local_state.sequence = Len(P)
        /\ checkpoint.sequence <= Len(P) /\ Len(P) - Len(items) <= checkpoint.sequence
    BY <1>1, <2>1, <2>2 DEF DeviceIInv, TypeOK, Positions, OneChain, ProcessOf, Place, IsPlace, Delivery
  <2>4. PICK left : left = After(checkpoint.sequence)
    OBVIOUS
  <2>5. /\ left \in Seq(Events) /\ IsEnd(left, P) /\ Len(left) \in Nat /\ Len(P) \in Nat
        /\ Len(P) - Len(left) = checkpoint.sequence
    BY <2>1, <2>2, <2>3, <2>4, LeftOnChain
  <2>6. left # << >> => SequenceOf[Head(left)] = checkpoint.sequence + 1
    BY <2>5, EndOfAChain
  <2>7. left = << >> => local_state.sequence = checkpoint.sequence
    BY <2>3, <2>5, EmptySeq
  <2> QED BY <2>3, <2>4, <2>5, <2>6, <2>7 DEF GatewayAhead, OutOfStep
<1>2. ASSUME DeviceIInv PROVE NeverRefused
  <2>1. SUFFICES ASSUME lost = {}, NEW e \in posted PROVE Has(e) \/ Acceptable(e)
    BY DEF NeverRefused
  <2>2. PICK P \in Chains : OneChain(P) /\ Delivery(P)
    BY <1>2, <2>1, Unlost
  <2>3. /\ SequenceOf[e] <= Len(P) /\ e = P[SequenceOf[e]] /\ SequenceOf[e] <= Len(received) + 1
        /\ TypeOK /\ SequenceOf[e] \in Nat \ {0}
    BY <1>2, <2>2, DeviceConfig DEF DeviceIInv, TypeOK, OneChain, GatewayOf, Delivery
  <2>4. /\ Len(P) \in Nat /\ Len(received) \in Nat
        /\ EndOf(received) = Place(P, Len(received))
        /\ \A i \in 1 .. Len(received) : P[i] \in ToSet(received)
    BY <2>2, <2>3, ReceivedOnChain
  <2>5. CASE SequenceOf[e] <= Len(received)
    <3>1. SequenceOf[e] \in 1 .. Len(received)
      BY <2>3, <2>4, <2>5
    <3> QED BY <2>3, <2>4, <3>1 DEF Has
  <2>6. CASE SequenceOf[e] = Len(received) + 1
    <3>1. SequenceOf[e] \in 1 .. Len(P)
      BY <2>3, <2>4
    <3>2. PreviousOf[e] = IF SequenceOf[e] = 1 THEN ZeroHash ELSE P[SequenceOf[e] - 1]
      BY <2>3, <3>1 DEF Chains
    <3>3. SequenceOf[e] - 1 = Len(received) /\ (SequenceOf[e] = 1 <=> Len(received) = 0)
      BY <2>4, <2>6
    <3> QED BY <2>4, <2>6, <3>2, <3>3 DEF Acceptable, Place
  <2> QED BY <2>3, <2>4, <2>5, <2>6
<1>3. ASSUME DeviceIInv PROVE AppendNeverRefuses
  <2>1. SUFFICES ASSUME pc = "sample", ~ BufferFull, NEW e \in Events, Signs(e)
                 PROVE  ~ AppendRefuses(e)
    BY DEF AppendNeverRefuses
  <2>2. items # << >> => SequenceOf[e] = SequenceOf[Last(items)] + 1
    BY <1>3, <2>1 DEF DeviceIInv, Buffers, Signs
  <2> QED BY <2>1, <2>2 DEF AppendRefuses, BufferFull
<1>4. DeviceIInv => DeviceInv
  BY <1>1, <1>2, <1>3 DEF DeviceInv, DeviceIInv
<1> QED BY <1>4, DeviceInvariant, PTL

\* A restart finds the end of the chain in the two files together
\* (device_node.py:232-239).
THEOREM RestartsAtTheEnd == Spec => []ResumesAtTheEnd
<1>1. ASSUME DeviceIInv PROVE ResumesAtTheEnd
  <2>1. SUFFICES ASSUME lost = {}
                 PROVE  Contiguous(outbox_json) /\ Recovered = EndOf(Produced)
    BY DEF ResumesAtTheEnd
  <2>2. PICK P \in Chains : OneChain(P) /\ Delivery(P)
    BY <1>1, <2>1, Unlost
  <2>3. /\ TypeOK /\ FilesOf(P) /\ Produced = P /\ P \in Seq(Events) /\ Len(P) \in Nat
        /\ outbox_json \in Seq(Events) /\ IsEnd(outbox_json, P)
    BY <1>1, <2>2, ProducedIsTheChain, LenProperties
       DEF DeviceIInv, OneChain, Chains, FilesOf, TypeOK
  <2>4. /\ Contiguous(outbox_json)
        /\ outbox_json # << >> => /\ EndOf(outbox_json) = Place(P, Len(P))
                                  /\ SequenceOf[Last(outbox_json)] = Len(P)
    BY <2>3, EndOfAChain
  <2>5. Recovered = Place(P, Len(P))
    <3>1. state_json.sequence \in Nat
      BY <2>3 DEF TypeOK, Positions
    <3> QED BY <2>3, <2>4, <3>1 DEF Recovered, FilesOf, IsPlace
  <2>6. EndOf(P) = Place(P, Len(P))
    <3>1. IsEnd(P, P)
      BY <2>3 DEF IsEnd
    <3>2. P = << >> => EndOf(P) = Origin /\ Len(P) = 0
      BY <2>3, LastOfABuffer, EmptySeq
    <3>3. P # << >> => EndOf(P) = Place(P, Len(P))
      BY <2>3, <3>1, EndOfAChain
    <3> QED BY <3>2, <3>3 DEF Origin, Place
  <2> QED BY <2>3, <2>4, <2>5, <2>6
<1>2. DeviceIInv => ResumesAtTheEnd
  BY <1>1
<1> QED BY <1>2, DeviceInvariant, PTL

\* Only the loop of a continuous device that has lost a file re-anchors it
\* (device_node.py:144-160, 271-278).
THEOREM OnlyTheLoopReanchors == Spec => []ReanchorsOnlyInTheLoop
<1>1. ASSUME NEW P \in Chains, OneChain(P) PROVE NeverReanchored
  BY <1>1 DEF NeverReanchored, OneChain, ProcessOf, IsPlace
<1>2. Orphaned => NeverReanchored
  BY DEF Orphaned, NeverReanchored
<1>3. DeviceIInv => ReanchorsOnlyInTheLoop
  BY <1>1, <1>2 DEF DeviceIInv, ReanchorsOnlyInTheLoop
<1> QED BY <1>3, DeviceInvariant, PTL

\* A number is signed once, whatever the gateway has forgotten
\* (device_node.py:144-160, 232-239).
THEOREM NoNumberIsUsedTwice == Spec => []NumbersUsedOnce
<1>1. ASSUME DeviceIInv PROVE NumbersUsedOnce
  <2>1. SUFFICES ASSUME pc = "sample", "device" \notin lost,
                        NEW e \in posted \cup ToSet(received) \cup ToSet(outbox_json)
                 PROVE  SequenceOf[e] <= client.sequence
    BY DEF NumbersUsedOnce
  <2>2. PICK P \in Chains : OneChain(P)
    BY <1>1, <2>1 DEF DeviceIInv
  <2>3. /\ TypeOK /\ client.sequence = Len(P) /\ IsEnd(outbox_json, P)
        /\ outbox_json \in Seq(Events) /\ \A f \in posted : SequenceOf[f] <= Len(P)
    BY <1>1, <2>1, <2>2 DEF DeviceIInv, TypeOK, OneChain, FilesOf, GatewayOf, ProcessOf, Place
  <2>4. /\ Len(P) \in Nat /\ Len(received) \in Nat /\ Len(received) <= Len(P)
        /\ \A f \in ToSet(received) : SequenceOf[f] \in 1 .. Len(received)
    BY <2>2, <2>3, ReceivedOnChain
  <2>5. ASSUME NEW f \in ToSet(outbox_json) PROVE SequenceOf[f] <= Len(P)
    <3>1. PICK i \in 1 .. Len(outbox_json) : f = outbox_json[i]
      BY <2>3, <2>5, LenProperties DEF ToSet
    <3>2. SequenceOf[f] = Len(P) - Len(outbox_json) + i /\ Len(outbox_json) \in Nat
      BY <2>3, <3>1, EndOfAChain
    <3> QED BY <2>4, <3>2
  <2> QED BY <2>3, <2>4, <2>5
<1>2. DeviceIInv => NumbersUsedOnce
  BY <1>1
<1> QED BY <1>2, DeviceInvariant, PTL

----------------------------------------------------------------------------
(* The device implements Stream. *)

\* A step that loses nothing is a step of Stream, or none.
LEMMA StepRefines ==
  ASSUME DeviceIInv, DeviceIInv', [Next]_allVars, lost' = {}
  PROVE  Promise!Next \/ UNCHANGED <<Produced, received>>
<1>1. lost = {}
  BY LossIsForGood
<1>2. PICK P \in Chains : OneChain(P) /\ Delivery(P)
  BY <1>1, Unlost
<1>3. TypeOK /\ Buffers /\ TypeOK'
  BY DEF DeviceIInv
<1>4. Produced = P
  BY <1>2, <1>3, ProducedIsTheChain
<1>5. ASSUME NEW Q \in Chains, OneChain(Q)'
      PROVE  Produced' = Q
  <2>1. /\ IsEnd(outbox_json', Q) /\ Len(received') <= Len(Q)
        /\ \A i \in 1 .. Len(received') : received'[i] = Q[i]
        /\ Len(Q) - Len(outbox_json') <= Len(received')
        /\ outbox_json' \in Seq(Events) /\ received' \in Seq(Events)
    BY <1>3, <1>5 DEF OneChain, FilesOf, GatewayOf, Delivery, TypeOK, IsEnd
  <2> QED BY <2>1, WholeChain DEF Produced, Undelivered
<1>6. CASE \E e \in Events : Sample(e) /\ Append(P, e) \in Chains /\ OneChain(Append(P, e))'
  <2>1. PICK e \in Events : Sample(e) /\ Append(P, e) \in Chains /\ OneChain(Append(P, e))'
    BY <1>6
  <2>2. Produced' = Append(P, e)
    BY <1>5, <2>1
  <2>3. /\ SequenceOf[e] = Len(P) + 1
        /\ PreviousOf[e] = IF Len(P) = 0 THEN ZeroHash ELSE P[Len(P)]
        /\ UNCHANGED received
    BY <1>2, <2>1 DEF Sample, Signs, OneChain, ProcessOf, Place, gateway
  <2>4. P = << >> <=> Len(P) = 0
    BY EmptySeq DEF Chains
  <2>5. Promise!Produce(e)
    BY <1>4, <2>2, <2>3, <2>4 DEF Promise!Produce, Promise!Tip
  <2> QED BY <2>5 DEF Promise!Next
<1>7. CASE OneChain(P)'
  <2>1. Produced' = P
    BY <1>5, <1>7
  <2>2. UNCHANGED received \/ \E e \in Events : Arrive(e)
    BY <1>1 DEF Next, allVars, deviceVars, Step, ProcessStep, Start, Loop, Connect, Reconcile,
         ReconcileRaises, Adopt, Flush, Answered, Rejected, TimedOut, Acknowledge, Waits, Sample,
         Pause, Save, Finish, ConnectFails, Unanswered, WriteFails, Crash, LoseFile, RestoreOlder,
         gateway
  <2>3. ASSUME NEW e \in Events, Arrive(e), received' # received PROVE Promise!Deliver
    <3>1. /\ received' = Append(received, e) /\ e \in posted
          /\ SequenceOf[e] = Len(received) + 1
      BY <2>3 DEF Arrive, Acceptable
    <3>2. SequenceOf[e] <= Len(P) /\ e = P[SequenceOf[e]] /\ Len(received) \in Nat /\ Len(P) \in Nat
      BY <1>2, <1>3, <3>1, ReceivedOnChain DEF OneChain, GatewayOf
    <3> QED BY <1>4, <2>1, <3>1, <3>2 DEF Promise!Deliver
  <2> QED BY <1>4, <2>1, <2>2, <2>3 DEF Promise!Next
<1>8. ~ LoseFile
  BY DEF LoseFile
<1> QED BY <1>2, <1>3, <1>6, <1>7, <1>8, StepOnChain

\* What the gateway has and what it lacks of the outbox are one chain that only
\* grows, and the gateway receives it in order and once (README, "Durable
\* offline operation").
THEOREM DeviceImplementsStream == Spec => ImplementsStream
<1>1. Init => Promise!Init
  <2> SUFFICES ASSUME Init PROVE Promise!Init
    OBVIOUS
  <2>1. /\ DeviceIInv /\ lost = {} /\ outbox_json = << >> /\ received = << >>
    BY InitDeviceIInv DEF Init
  <2>2. << >> \in Seq(Events) /\ Len(<< >>) = 0
    BY EmptySeq
  <2>3. Contiguous(<< >>)
    BY <2>2 DEF Contiguous
  <2>4. PICK u : u = Newer(<< >>, 0)
    OBVIOUS
  <2>5. u \in Seq(Events) /\ Len(u) <= 0
    BY <2>2, <2>3, <2>4, LeftOfAnOutbox
  <2>6. u = << >>
    BY <2>5, EmptySeq, LenProperties
  <2>7. Produced = << >>
    BY <2>1, <2>2, <2>4, <2>6, ConcatEmptySeq DEF Produced, Undelivered
  <2> QED BY <2>1, <2>7 DEF Promise!Init
<1>2. DeviceIInv /\ DeviceIInv' /\ [Next]_allVars =>
        [lost' = {} => Promise!Next \/ UNCHANGED <<Produced, received>>]_allVars
  BY StepRefines
<1> QED BY <1>1, <1>2, DeviceInvariant, PTL DEF Spec, ImplementsStream

=============================================================================
