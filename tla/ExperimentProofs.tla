-------------------------- MODULE ExperimentProofs -------------------------
(***************************************************************************)
(* Proofs about what comes before the runs of an experiment and after them, *)
(* for all values of the constants: Plan and Merge.                         *)
(*                                                                         *)
(* The runs that are executed are those that the plan asks for, whatever    *)
(* the random generator yields and however many machines share them.  The   *)
(* merge of several result directories never loses or takes back a result   *)
(* that was there when it began, and takes from a directory what its runner *)
(* would resume from.                                                      *)
(***************************************************************************)
EXTENDS Plan, Merge, FiniteSetTheorems, SequenceTheorems, WellFoundedInduction, TLAPS

----------------------------------------------------------------------------
(* What a directory's lines make of what is known. *)

\* Induction over the natural numbers, for a set instead of a predicate.
LEMMA InductionOnNat ==
  ASSUME NEW S \in SUBSET Nat, 0 \in S, \A n \in S : n + 1 \in S
  PROVE  S = Nat
<1> DEFINE R == OpToRel(<, Nat)
           T == Nat \ S
<1>1. SUFFICES ASSUME T # {} PROVE FALSE
  OBVIOUS
<1>2. IsWellFoundedOn(R, Nat)
  BY NatLessThanWellFounded
<1>3. \E x \in T : \A y \in T : ~ (<<y, x>> \in R)
  <2> HIDE DEF R
  <2> T \subseteq Nat OBVIOUS
  <2> HIDE DEF T
  <2> QED BY <1>1, <1>2, WFMin
<1>4. PICK x \in T : \A y \in T : ~ (<<y, x>> \in R)
  BY <1>3
<1>5. x \in Nat /\ x # 0 /\ x - 1 \in Nat /\ x - 1 < x
  OBVIOUS
<1>6. x - 1 \in T
  BY <1>5
<1>7. <<x - 1, x>> \in R
  BY <1>5 DEF OpToRel
<1> QED BY <1>4, <1>6, <1>7

\* What the merge knows after each line.
Gathered(known, items, acc) ==
  acc = [i \in 0 .. Len(items) |->
               IF i = 0 THEN known ELSE Taken(acc[i - 1], items[i])]

LEMMA CombineIsLast ==
  ASSUME NEW known, NEW items, Len(items) \in Nat
  PROVE  \E acc : Gathered(known, items, acc) /\ Combine(known, items) = acc[Len(items)]
<1> DEFINE Extend(f, i) == IF i = 0 THEN known ELSE Taken(f[i - 1], items[i])
           Rec(f, n) == f = [i \in 0 .. n |-> Extend(f, i)]
<1>2. \A n \in Nat : \E f : Rec(f, n)
  <2> DEFINE E == {n \in Nat : \E f : Rec(f, n)}
  <2>1. 0 \in E
    <3> DEFINE h == [i \in 0 .. 0 |-> Extend(<< >>, 0)]
    <3>1. Rec(h, 0)
      OBVIOUS
    <3> HIDE DEF Rec, h
    <3> QED BY <3>1
  <2>2. ASSUME NEW n \in E PROVE n + 1 \in E
    <3>1. PICK g : Rec(g, n)
      OBVIOUS
    <3>2. \A i \in 0 .. n : g[i] = Extend(g, i)
      <4> HIDE DEF Extend
      <4> QED BY <3>1
    <3> DEFINE h == [i \in 0 .. (n + 1) |-> IF i <= n THEN g[i] ELSE Extend(g, n + 1)]
    <3>3. ASSUME NEW i \in 0 .. (n + 1)
          PROVE  h[i] = Extend(h, i)
      <4>1. CASE i = 0
        BY <3>2, <4>1
      <4>2. CASE i # 0
        <5>1. i - 1 \in 0 .. n
          BY <4>2
        <5>2. h[i - 1] = g[i - 1]
          BY <5>1
        <5>3. Extend(h, i) = Extend(g, i)
          <6> HIDE DEF h
          <6> QED BY <5>2
        <5>4. CASE i <= n
          <6>1. h[i] = g[i] /\ i \in 0 .. n
            BY <5>4
          <6> HIDE DEF h, Extend
          <6> QED BY <3>2, <5>3, <6>1
        <5>5. CASE i = n + 1
          <6>1. h[i] = Extend(g, n + 1)
            <7> HIDE DEF Extend
            <7> QED BY <5>5
          <6> HIDE DEF h, Extend
          <6> QED BY <5>3, <5>5, <6>1
        <5> QED BY <5>4, <5>5
      <4> QED BY <4>1, <4>2
    <3>4. h = [i \in 0 .. (n + 1) |-> h[i]]
      <4> HIDE DEF Extend
      <4> QED OBVIOUS
    <3>5. Rec(h, n + 1)
      <4> HIDE DEF h, Extend
      <4> QED BY <3>3, <3>4
    <3> HIDE DEF h, Rec
    <3> QED BY <3>5
  <2>3. E = Nat
    <3> HIDE DEF E
    <3> E \in SUBSET Nat BY DEF E
    <3> QED BY <2>1, <2>2, InductionOnNat
  <2> QED BY <2>3
<1> DEFINE F == CHOOSE f : Rec(f, Len(items))
<1>3. Rec(F, Len(items))
  <2> HIDE DEF Rec
  <2> QED BY <1>2
<1>4. Combine(known, items) = F[Len(items)]
  BY DEF Combine
<1>5. Gathered(known, items, F)
  <2> HIDE DEF F
  <2> QED BY <1>3 DEF Gathered
<1> QED BY <1>4, <1>5

Table(t) == t \in [Run -> Line \cup {None}] /\ \A r \in Run : t[r] # None => t[r].run = r

Filled(t) == {r \in Run : t[r] # None}

UpTo(t, old) == t[old.run] # None /\ t[old.run].completed_at >= old.completed_at

\* One more line.
LEMMA TakenFacts ==
  ASSUME NEW t, Table(t), NEW item \in Line
  PROVE  /\ Table(Taken(t, item)) /\ UpTo(Taken(t, item), item)
         /\ \A old \in Line : UpTo(t, old) => UpTo(Taken(t, item), old)
         /\ Filled(Taken(t, item)) \subseteq Filled(t) \cup {item.run}
<1>1. item.run \in Run /\ item.completed_at \in Nat /\ item # None
  BY MergeConfig DEF Line
<1>2. \A l \in Line : l.completed_at \in Nat /\ l.run \in Run
  BY DEF Line
<1>3. \A r \in Run : t[r] # None => t[r] \in Line
  BY DEF Table
<1>4. CASE Supersedes(item, t[item.run])
  <2>1. Taken(t, item) = [t EXCEPT ![item.run] = item]
    BY <1>4 DEF Taken
  <2>2. Table(Taken(t, item))
    BY <1>1, <2>1 DEF Table
  <2>3. /\ Taken(t, item)[item.run] = item
        /\ \A r \in Run : r # item.run => Taken(t, item)[r] = t[r]
    BY <1>1, <2>1 DEF Table
  <2>4. UpTo(Taken(t, item), item)
    BY <1>1, <2>3 DEF UpTo
  <2>5. ASSUME NEW old \in Line, UpTo(t, old) PROVE UpTo(Taken(t, item), old)
    <3>1. CASE old.run = item.run
      <4>1. item.completed_at >= t[item.run].completed_at
        BY <1>4, <2>5, <3>1 DEF Supersedes, UpTo
      <4>2. t[item.run].completed_at >= old.completed_at /\ t[item.run] \in Line
        BY <1>1, <1>3, <2>5, <3>1 DEF UpTo
      <4>3. item.completed_at >= old.completed_at
        BY <1>1, <1>2, <4>1, <4>2
      <4> QED BY <1>1, <2>3, <3>1, <4>3 DEF UpTo
    <3>2. CASE old.run # item.run
      BY <1>2, <2>3, <2>5, <3>2 DEF UpTo
    <3> QED BY <3>1, <3>2
  <2>6. Filled(Taken(t, item)) \subseteq Filled(t) \cup {item.run}
    BY <2>3 DEF Filled
  <2> QED BY <2>2, <2>4, <2>5, <2>6
<1>5. CASE ~ Supersedes(item, t[item.run])
  <2>1. Taken(t, item) = t
    BY <1>5 DEF Taken
  <2>2. t[item.run] # None /\ ~ item.completed_at >= t[item.run].completed_at
    BY <1>5 DEF Supersedes
  <2>3. t[item.run].completed_at \in Nat
    BY <1>1, <1>2, <1>3, <2>2
  <2>4. UpTo(t, item)
    BY <1>1, <2>2, <2>3 DEF UpTo
  <2> QED BY <2>1, <2>4
<1> QED BY <1>4, <1>5

\* All lines of a directory: no run is lost, none goes back, each is as new as
\* every line read, and there are no more runs than lines.
LEMMA CombineFacts ==
  ASSUME NEW known, Table(known), NEW items \in Seq(Line)
  PROVE  /\ Table(Combine(known, items))
         /\ \A old \in Line : UpTo(known, old) => UpTo(Combine(known, items), old)
         /\ \A i \in 1 .. Len(items) : UpTo(Combine(known, items), items[i])
         /\ Cardinality(Filled(Combine(known, items))) <= Cardinality(Filled(known)) + Len(items)
<1>1. Len(items) \in Nat /\ \A i \in 1 .. Len(items) : items[i] \in Line
  BY ElementOfSeq, LenProperties
<1> DEFINE n == Len(items)
<1>2. PICK acc : Gathered(known, items, acc) /\ Combine(known, items) = acc[n]
  BY <1>1, CombineIsLast
<1>3. acc[0] = known /\ \A i \in 1 .. n : acc[i] = Taken(acc[i - 1], items[i])
  <2>1. \A i \in 0 .. n : acc[i] = IF i = 0 THEN known ELSE Taken(acc[i - 1], items[i])
    BY <1>2 DEF Gathered
  <2>2. 0 \in 0 .. n /\ \A i \in 1 .. n : i \in 0 .. n /\ i # 0
    BY <1>1
  <2> HIDE DEF n
  <2> QED BY <2>1, <2>2
<1>4. \A t : IsFiniteSet(Filled(t)) /\ Cardinality(Filled(t)) \in Nat
  <2> TAKE t
  <2>1. Filled(t) \in SUBSET Run
    BY DEF Filled
  <2> QED BY <2>1, MergeConfig, FS_Subset, FS_CardinalityType
<1> DEFINE Good(k) == /\ Table(acc[k])
                      /\ \A old \in Line : UpTo(known, old) => UpTo(acc[k], old)
                      /\ \A i \in 1 .. k : UpTo(acc[k], items[i])
                      /\ Cardinality(Filled(acc[k])) <= Cardinality(Filled(known)) + k
           E == {k \in Nat : k <= n => Good(k)}
<1> HIDE DEF n
<1>5. 0 \in E
  <2>1. Good(0)
    BY <1>3, <1>4
  <2> HIDE DEF Good
  <2> QED BY <2>1
<1>6. ASSUME NEW k \in E PROVE k + 1 \in E
  <2> HIDE DEF Good
  <2>1. SUFFICES ASSUME k + 1 <= n PROVE Good(k + 1)
    OBVIOUS
  <2>2. k \in Nat /\ k <= n /\ k + 1 \in 1 .. n /\ (k + 1) - 1 = k
    BY <1>1, <2>1 DEF n
  <2>3. Good(k)
    BY <2>2
  <2> DEFINE a == acc[k]
             b == acc[k + 1]
             item == items[k + 1]
  <2>4. b = Taken(a, item) /\ item \in Line
    BY <1>1, <1>3, <2>2 DEF n
  <2>5. /\ Table(a) /\ \A old \in Line : UpTo(known, old) => UpTo(a, old)
        /\ \A i \in 1 .. k : UpTo(a, items[i])
        /\ Cardinality(Filled(a)) <= Cardinality(Filled(known)) + k
    BY <2>3 DEF Good
  <2> HIDE DEF a, b
  <2>6. /\ Table(b) /\ UpTo(b, item)
        /\ \A old \in Line : UpTo(a, old) => UpTo(b, old)
        /\ Filled(b) \subseteq Filled(a) \cup {item.run}
    <3> HIDE DEF item
    <3> QED BY <2>4, <2>5, TakenFacts
  <2>7. \A i \in 1 .. (k + 1) : UpTo(b, items[i])
    <3>1. \A i \in 1 .. (k + 1) : i \in 1 .. k \/ i = k + 1
      BY <2>2
    <3>2. \A i \in 1 .. k : items[i] \in Line
      BY <1>1, <2>2 DEF n
    <3> QED BY <2>5, <2>6, <3>1, <3>2
  <2>8. Cardinality(Filled(b)) <= Cardinality(Filled(known)) + (k + 1)
    <3> DEFINE S == Filled(a) \cup {item.run}
    <3>1. IsFiniteSet(S) /\ Cardinality(S) \in {Cardinality(Filled(a)), Cardinality(Filled(a)) + 1}
      BY <1>4, FS_AddElement
    <3>2. Cardinality(Filled(b)) <= Cardinality(S)
      <4>1. Filled(b) \in SUBSET S
        BY <2>6
      <4> HIDE DEF S
      <4> QED BY <3>1, <4>1, FS_Subset
    <3> HIDE DEF S
    <3> DEFINE x == Cardinality(Filled(a))
               y == Cardinality(Filled(b))
               z == Cardinality(Filled(known))
               s == Cardinality(S)
    <3>3. x \in Nat /\ y \in Nat /\ z \in Nat /\ s \in {x, x + 1} /\ y <= s /\ x <= z + k
      BY <1>4, <2>5, <3>1, <3>2
    <3> HIDE DEF x, y, z, s
    <3>4. y <= z + (k + 1)
      BY <2>2, <3>3
    <3> QED BY <3>4 DEF y, z
  <2>9. \A old \in Line : UpTo(known, old) => UpTo(b, old)
    BY <2>5, <2>6
  <2> QED BY <2>6, <2>7, <2>8, <2>9 DEF b, Good
<1>7. E = Nat
  <2> HIDE DEF E
  <2> E \in SUBSET Nat BY DEF E
  <2> QED BY <1>5, <1>6, InductionOnNat
<1>8. Good(n)
  <2> HIDE DEF Good
  <2>1. n \in Nat /\ n <= n
    BY <1>1 DEF n
  <2> QED BY <1>7, <2>1
<1> QED BY <1>2, <1>8 DEF n

\* Of lines that are in order, the last one of a run is taken.
LEMMA CombineLast ==
  ASSUME NEW items \in Seq(Line), InOrder(items), NEW r \in Run
  PROVE  Combine(NoLines, items)[r] = LastOf(items, r)
<1>1. Len(items) \in Nat /\ DOMAIN items = 1 .. Len(items) /\ \A i \in 1 .. Len(items) : items[i] \in Line
  BY ElementOfSeq, LenProperties
<1> DEFINE n == Len(items)
<1>2. PICK acc : Gathered(NoLines, items, acc) /\ Combine(NoLines, items) = acc[n]
  BY <1>1, CombineIsLast
<1>3. acc[0] = NoLines /\ \A i \in 1 .. n : acc[i] = Taken(acc[i - 1], items[i])
  <2>1. \A i \in 0 .. n : acc[i] = IF i = 0 THEN NoLines ELSE Taken(acc[i - 1], items[i])
    BY <1>2 DEF Gathered
  <2>2. 0 \in 0 .. n /\ \A i \in 1 .. n : i \in 0 .. n /\ i # 0
    BY <1>1
  <2> HIDE DEF n
  <2> QED BY <2>1, <2>2
<1> DEFINE Absent(k) == acc[k][r] = None /\ \A i \in 1 .. k : items[i].run # r
           Found(k, j) == /\ items[j].run = r /\ acc[k][r] = items[j]
                          /\ \A i \in 1 .. k : items[i].run = r => i <= j
           Good(k) == Table(acc[k]) /\ (Absent(k) \/ \E j \in 1 .. k : Found(k, j))
           E == {k \in Nat : k <= n => Good(k)}
<1> HIDE DEF n
<1>4. 0 \in E
  <2>1. Table(acc[0]) /\ acc[0][r] = None
    BY <1>3 DEF Table, NoLines
  <2>2. Good(0)
    BY <2>1
  <2> HIDE DEF Good
  <2> QED BY <2>2
<1>5. ASSUME NEW k \in E PROVE k + 1 \in E
  <2> HIDE DEF Good, Absent, Found
  <2>1. SUFFICES ASSUME k + 1 <= n PROVE Good(k + 1)
    OBVIOUS
  <2>2. k \in Nat /\ k <= n /\ k + 1 \in 1 .. n /\ (k + 1) - 1 = k
    BY <1>1, <2>1 DEF n
  <2>3. Good(k)
    BY <2>2
  <2> DEFINE item == items[k + 1]
  <2>4. acc[k + 1] = Taken(acc[k], item) /\ item \in Line
    BY <1>1, <1>3, <2>2 DEF n
  <2>5. Table(acc[k])
    BY <2>3 DEF Good
  <2>6. Table(acc[k + 1])
    <3> HIDE DEF item
    <3> QED BY <2>4, <2>5, TakenFacts
  <2>7. \A i \in 1 .. (k + 1) : i \in 1 .. k \/ i = k + 1
    BY <2>2
  <2>8. CASE item.run # r
    <3>1. acc[k + 1][r] = acc[k][r]
      BY <2>4, <2>5, <2>8 DEF Taken, Table
    <3>2. CASE Absent(k)
      <4>1. Absent(k + 1)
        BY <2>7, <2>8, <3>1, <3>2 DEF Absent
      <4> QED BY <2>6, <4>1 DEF Good
    <3>3. ASSUME NEW j \in 1 .. k, Found(k, j) PROVE Good(k + 1)
      <4>1. Found(k + 1, j)
        BY <2>7, <2>8, <3>1, <3>3 DEF Found
      <4>2. j \in 1 .. (k + 1)
        BY <2>2
      <4> QED BY <2>6, <4>1, <4>2 DEF Good
    <3> QED BY <2>3, <3>2, <3>3 DEF Good
  <2>9. CASE item.run = r
    <3>1. acc[k + 1][r] = item
      <4>1. Supersedes(item, acc[k][r])
        <5>1. CASE Absent(k)
          BY <5>1 DEF Absent, Supersedes
        <5>2. ASSUME NEW j \in 1 .. k, Found(k, j) PROVE Supersedes(item, acc[k][r])
          <6>1. j \in 1 .. n /\ j < k + 1
            BY <1>1, <2>2 DEF n
          <6>2. acc[k][r] = items[j] /\ items[j].run = r
            BY <5>2 DEF Found
          <6>3. items[j].completed_at <= item.completed_at
            BY <1>1, <2>2, <2>9, <6>1, <6>2 DEF n, InOrder
          <6>4. items[j].completed_at \in Nat /\ item.completed_at \in Nat
            BY <1>1, <2>4, <6>1 DEF n, Line
          <6> HIDE DEF item
          <6> QED BY <6>2, <6>3, <6>4 DEF Supersedes
        <5> QED BY <2>3, <5>1, <5>2 DEF Good
      <4> HIDE DEF item
      <4> QED BY <2>4, <2>5, <2>9, <4>1 DEF Taken, Table
    <3>2. Found(k + 1, k + 1)
      <4>1. \A i \in 1 .. (k + 1) : i <= k + 1
        BY <2>2
      <4> QED BY <2>9, <3>1, <4>1 DEF Found
    <3>3. k + 1 \in 1 .. (k + 1)
      BY <2>2
    <3> QED BY <2>6, <3>2, <3>3 DEF Good
  <2> QED BY <2>8, <2>9
<1>6. E = Nat
  <2> HIDE DEF E
  <2> E \in SUBSET Nat BY DEF E
  <2> QED BY <1>4, <1>5, InductionOnNat
<1>7. Good(n)
  <2> HIDE DEF Good
  <2>1. n \in Nat /\ n <= n
    BY <1>1 DEF n
  <2> QED BY <1>6, <2>1
<1> DEFINE at == {i \in DOMAIN items : items[i].run = r}
<1>8. CASE Absent(n)
  <2>1. at = {}
    BY <1>1, <1>8 DEF n
  <2> QED BY <1>2, <1>8, <2>1 DEF LastOf
<1>9. ASSUME NEW j \in 1 .. n, Found(n, j) PROVE acc[n][r] = LastOf(items, r)
  <2>1. j \in at /\ at \subseteq Nat /\ \A i \in at : i <= j
    BY <1>1, <1>9 DEF n
  <2> HIDE DEF at
  <2>2. Max(at) = j
    <3>1. j \in Nat /\ \A i \in at : i \in Nat /\ j >= i
      BY <2>1
    <3>2. \A m \in at : (\A i \in at : m >= i) => m = j
      BY <2>1, <3>1
    <3> QED BY <2>1, <3>1, <3>2 DEF Max
  <2>3. LastOf(items, r) = items[j]
    BY <2>1, <2>2 DEF LastOf, at
  <2> QED BY <1>9, <2>3
<1> QED BY <1>2, <1>7, <1>8, <1>9

----------------------------------------------------------------------------
(* The journals, which the runners append to, and the merge. *)

\* A journal is in the order of the clock, and the line that is being written
\* is newer than all of it.
JournalsInOrder ==
  /\ clock \in 1 .. MaxClock
  /\ journal \in [Dir -> Seq(Line) \cup {None}]
  /\ line \in [Dir -> Line \cup {None}] /\ part \in [Dir -> BOOLEAN]
  /\ \A d \in Dir :
       /\ part[d] => line[d] # None
       /\ line[d] # None => journal[d] # None /\ line[d].completed_at <= clock
       /\ journal[d] # None =>
            /\ InOrder(journal[d])
            /\ \A i \in 1 .. Len(journal[d]) :
                 journal[d][i].completed_at <= IF line[d] # None THEN line[d].completed_at ELSE clock

MergingTypes ==
  /\ pc \in {"idle", "reading", "done", "failed"} /\ next \in 1 .. Len(Dirs) + 1
  /\ pc = "idle" \/ next = 1 => latest = NoLines
  /\ pc = "idle" => next = 1
  /\ Table(latest)
  /\ pc # "done" => report = NoLines
  /\ pc = "done" => report = Canonical(latest) /\ next = Len(Dirs) + 1
  /\ source_count \in Nat /\ Cardinality(Filled(latest)) <= source_count
  /\ at_start \in [Dir -> Seq(Line)]

\* A directory still has the lines it had when the merge began, or its results
\* are hidden by a new journal.
LinesRemain ==
  pc # "idle" =>
    \A d \in Dir :
      /\ journal[d] = None => at_start[d] = Lines(d)
      /\ journal[d] # None => Hidden(d) \/ ToSet(at_start[d]) \subseteq ToSet(journal[d])

\* What is known is as new as every line that the directories read so far had
\* when the merge began.
ReadSoFar ==
  \A i \in 1 .. next - 1 :
    ~ Hidden(Dirs[i]) => \A old \in ToSet(at_start[Dirs[i]]) : UpTo(latest, old)

MergeIInv == JournalsInOrder /\ MergingTypes /\ LinesRemain /\ ReadSoFar

\* Lines that are there, whoever wrote them.
LEMMA LinesFacts ==
  ASSUME JournalsInOrder, NEW d \in Dir
  PROVE  Lines(d) \in Seq(Line) /\ InOrder(Lines(d))
<1>1. << >> \in Seq(Line) /\ InOrder(<< >>)
  BY DEF InOrder
<1>2. CASE journal[d] # None
  BY <1>2 DEF JournalsInOrder, Lines
<1>3. CASE journal[d] = None
  BY <1>1, <1>3, MergeConfig DEF Lines
<1> QED BY <1>2, <1>3

LEMMA DirsFacts ==
  /\ Len(Dirs) \in Nat /\ DOMAIN Dirs = 1 .. Len(Dirs)
  /\ \A i \in 1 .. Len(Dirs) : Dirs[i] \in Dir
  /\ \A d \in Dir : \E i \in 1 .. Len(Dirs) : d = Dirs[i]
<1>1. Len(Dirs) \in Nat /\ DOMAIN Dirs = 1 .. Len(Dirs)
  BY MergeConfig, LenProperties
<1> QED BY <1>1 DEF Dir, ToSet

LEMMA SeqToSet ==
  ASSUME NEW S, NEW s \in Seq(S)
  PROVE  ToSet(s) = {s[i] : i \in 1 .. Len(s)} /\ ToSet(s) \subseteq S
<1>1. DOMAIN s = 1 .. Len(s) /\ \A i \in 1 .. Len(s) : s[i] \in S
  BY LenProperties, ElementOfSeq
<1> QED BY <1>1 DEF ToSet

LEMMA EmptyTable == Table(NoLines) /\ Filled(NoLines) = {}
BY DEF Table, Filled, NoLines

LEMMA MergeInitially == MergeInit => MergeIInv
<1> SUFFICES ASSUME MergeInit PROVE MergeIInv
  OBVIOUS
<1> USE DEF MergeInit
<1>1. JournalsInOrder
  BY MergeConfig DEF JournalsInOrder
<1>2. MergingTypes
  <2>1. Cardinality(Filled(latest)) = 0
    BY EmptyTable, FS_EmptySet
  <2>2. 1 \in 1 .. Len(Dirs) + 1
    BY DirsFacts
  <2>3. << >> \in Seq(Line)
    OBVIOUS
  <2> QED BY <2>1, <2>2, <2>3, EmptyTable DEF MergingTypes
<1>3. LinesRemain /\ ReadSoFar
  BY DEF LinesRemain, ReadSoFar
<1> QED BY <1>1, <1>2, <1>3 DEF MergeIInv

----------------------------------------------------------------------------
(* What each action keeps. *)

LEMMA TickKeeps == MergeIInv /\ Tick => MergeIInv'
<1> SUFFICES ASSUME MergeIInv, Tick PROVE MergeIInv'
  OBVIOUS
<1> USE DEF Tick, journals, merging
<1>1. JournalsInOrder'
  <2>1. clock \in Nat /\ clock' \in 1 .. MaxClock /\ clock' = clock + 1
    BY MergeConfig DEF MergeIInv, JournalsInOrder
  <2>2. \A l \in Line : l.completed_at \in Nat
    BY DEF Line
  <2>3. ASSUME NEW d \in Dir, journal[d] # None, NEW i \in 1 .. Len(journal[d])
        PROVE  journal[d][i].completed_at \in Nat
    <3>1. journal[d] \in Seq(Line)
      BY <2>3 DEF MergeIInv, JournalsInOrder
    <3> QED BY <2>2, <3>1, ElementOfSeq
  <2>4. ASSUME NEW d \in Dir, line[d] # None
        PROVE  line[d].completed_at <= clock + 1
    <3>1. line[d] \in Line /\ line[d].completed_at <= clock
      BY <2>4 DEF MergeIInv, JournalsInOrder
    <3> QED BY <2>1, <2>2, <3>1
  <2>5. ASSUME NEW d \in Dir, journal[d] # None, line[d] = None, NEW i \in 1 .. Len(journal[d])
        PROVE  journal[d][i].completed_at <= clock + 1
    <3>1. journal[d][i].completed_at <= clock
      BY <2>5 DEF MergeIInv, JournalsInOrder
    <3> QED BY <2>1, <2>3, <2>5, <3>1
  <2> QED BY <2>1, <2>4, <2>5 DEF MergeIInv, JournalsInOrder
<1>2. MergingTypes'
  BY DEF MergeIInv, MergingTypes, Table, Filled, Canonical
<1>3. LinesRemain' /\ ReadSoFar'
  BY DEF MergeIInv, LinesRemain, ReadSoFar, Lines, Hidden, UpTo
<1> QED BY <1>1, <1>2, <1>3 DEF MergeIInv

\* A runner may only create a journal, or add to it.
LEMMA RunnerKeeps ==
  ASSUME MergeIInv, UNCHANGED merging, NEW d \in Dir, JournalsInOrder',
         \A x \in Dir \ {d} : journal'[x] = journal[x],
         journal'[d] # None,
         journal[d] # None => ToSet(journal[d]) \subseteq ToSet(journal'[d])
  PROVE  MergeIInv'
<1> USE DEF merging
<1>1. MergingTypes'
  BY DEF MergeIInv, MergingTypes, Table, Filled, Canonical
<1>2. LinesRemain'
  <2> SUFFICES ASSUME pc # "idle", NEW x \in Dir
               PROVE  /\ journal'[x] = None => at_start[x] = Lines(x)'
                      /\ journal'[x] # None =>
                           Hidden(x)' \/ ToSet(at_start[x]) \subseteq ToSet(journal'[x])
    BY DEF LinesRemain
  <2>1. CASE x # d
    BY <2>1 DEF MergeIInv, LinesRemain, Lines, Hidden
  <2>2. CASE x = d /\ journal[d] # None
    BY <2>2 DEF MergeIInv, LinesRemain, Hidden
  <2>3. CASE x = d /\ journal[d] = None
    <3>1. at_start[d] = IF Results[d] # None THEN Results[d] ELSE << >>
      BY <2>3 DEF MergeIInv, LinesRemain, Lines
    <3>2. CASE Results[d] # None
      BY <2>3, <3>1, <3>2 DEF Hidden
    <3>3. CASE Results[d] = None
      <4>1. ToSet(at_start[d]) = {}
        BY <3>1, <3>3 DEF ToSet
      <4> QED BY <2>3, <4>1
    <3> QED BY <3>2, <3>3
  <2> QED BY <2>1, <2>2, <2>3
<1>3. ReadSoFar'
  <2> SUFFICES ASSUME NEW i \in 1 .. next - 1, ~ Hidden(Dirs[i])', NEW old \in ToSet(at_start[Dirs[i]])
               PROVE  UpTo(latest, old)
    BY DEF ReadSoFar, UpTo
  <2>1. Dirs[i] \in Dir
    BY DirsFacts DEF MergeIInv, MergingTypes
  <2>2. ~ Hidden(Dirs[i])
    BY <2>1 DEF Hidden
  <2> QED BY <2>2 DEF MergeIInv, ReadSoFar
<1> QED BY <1>1, <1>2, <1>3 DEF MergeIInv

LEMMA OpenKeeps == \A d \in Dir : MergeIInv /\ Open(d) => MergeIInv'
<1> SUFFICES ASSUME NEW d \in Dir, MergeIInv, Open(d) PROVE MergeIInv'
  OBVIOUS
<1>1. PICK r \in Run, s \in Statuses :
        line' = [line EXCEPT ![d] = [run |-> r, status |-> s, completed_at |-> clock]]
  BY DEF Open
<1> DEFINE l == [run |-> r, status |-> s, completed_at |-> clock]
<1>2. /\ journal' = [journal EXCEPT ![d] = IF journal[d] = None THEN << >> ELSE journal[d]]
      /\ part' = part /\ clock' = clock /\ UNCHANGED merging /\ ~ part[d]
  BY DEF Open
<1>3. l \in Line /\ l # None /\ l.completed_at = clock /\ clock \in Nat
  BY MergeConfig DEF MergeIInv, JournalsInOrder, Line
<1>4. line' = [line EXCEPT ![d] = l]
  BY <1>1
<1> HIDE DEF l
<1>5. << >> \in Seq(Line) /\ << >> # None /\ Len(<< >>) = 0 /\ InOrder(<< >>)
  <2>1. << >> \in Seq(Line) /\ Len(<< >>) = 0
    OBVIOUS
  <2>2. << >> # None
    BY <2>1, MergeConfig
  <2>3. InOrder(<< >>)
    BY DEF InOrder
  <2> QED BY <2>1, <2>2, <2>3
<1>6. /\ journal'[d] # None /\ line'[d] = l /\ journal' \in [Dir -> Seq(Line) \cup {None}]
      /\ journal'[d] = IF journal[d] = None THEN << >> ELSE journal[d]
      /\ line' \in [Dir -> Line \cup {None}]
      /\ \A x \in Dir \ {d} : journal'[x] = journal[x] /\ line'[x] = line[x]
  BY <1>2, <1>3, <1>4, <1>5 DEF MergeIInv, JournalsInOrder
<1>7. ASSUME NEW i \in 1 .. Len(journal'[d])
      PROVE  (journal'[d])[i].completed_at <= clock
  <2>1. journal[d] # None /\ journal'[d] = journal[d]
    BY <1>5, <1>6, <1>7
  <2>2. journal[d] \in Seq(Line)
    BY <2>1 DEF MergeIInv, JournalsInOrder
  <2>3. journal[d][i] \in Line
    BY <1>7, <2>1, <2>2, ElementOfSeq
  <2>4. journal[d][i].completed_at \in Nat
    BY <2>3 DEF Line
  <2>5. journal[d][i].completed_at <= IF line[d] # None THEN line[d].completed_at ELSE clock
    BY <1>7, <2>1 DEF MergeIInv, JournalsInOrder
  <2>6. CASE line[d] # None
    <3>1. line[d] \in Line /\ line[d].completed_at <= clock
      BY <2>6 DEF MergeIInv, JournalsInOrder
    <3>2. line[d].completed_at \in Nat
      BY <3>1 DEF Line
    <3> QED BY <1>3, <2>1, <2>4, <2>5, <2>6, <3>1, <3>2
  <2> QED BY <2>1, <2>5, <2>6
<1>8. InOrder(journal'[d])
  <2>1. CASE journal[d] = None
    BY <1>5, <1>6, <2>1
  <2>2. CASE journal[d] # None
    BY <1>6, <2>2 DEF MergeIInv, JournalsInOrder
  <2> QED BY <2>1, <2>2
<1>9. JournalsInOrder'
  <2> SUFFICES ASSUME NEW x \in Dir
               PROVE  /\ part'[x] => line'[x] # None
                      /\ line'[x] # None => journal'[x] # None /\ line'[x].completed_at <= clock
                      /\ journal'[x] # None =>
                           /\ InOrder(journal'[x])
                           /\ \A i \in 1 .. Len(journal'[x]) :
                                (journal'[x])[i].completed_at
                                  <= IF line'[x] # None THEN line'[x].completed_at ELSE clock
    BY <1>2, <1>6 DEF MergeIInv, JournalsInOrder
  <2>1. CASE x = d
    BY <1>2, <1>3, <1>6, <1>7, <1>8, <2>1
  <2>2. CASE x # d
    BY <1>2, <1>6, <2>2 DEF MergeIInv, JournalsInOrder
  <2> QED BY <2>1, <2>2
<1> QED BY <1>2, <1>6, <1>9, RunnerKeeps

LEMMA WritePartKeeps == \A d \in Dir : MergeIInv /\ WritePart(d) => MergeIInv'
<1> SUFFICES ASSUME NEW d \in Dir, MergeIInv, WritePart(d) PROVE MergeIInv'
  OBVIOUS
<1>1. /\ journal' = journal /\ line' = line /\ clock' = clock /\ UNCHANGED merging
      /\ part' = [part EXCEPT ![d] = TRUE] /\ line[d] # None
  BY DEF WritePart
<1>2. JournalsInOrder'
  BY <1>1 DEF MergeIInv, JournalsInOrder
<1>3. journal'[d] # None
  BY <1>1 DEF MergeIInv, JournalsInOrder
<1> QED BY <1>1, <1>2, <1>3, RunnerKeeps

LEMMA WriteRestKeeps == \A d \in Dir : MergeIInv /\ WriteRest(d) => MergeIInv'
<1> SUFFICES ASSUME NEW d \in Dir, MergeIInv, WriteRest(d) PROVE MergeIInv'
  OBVIOUS
<1> DEFINE s == journal[d]
           l == line[d]
           t == Append(s, l)
           n == Len(s)
<1>1. /\ journal' = [journal EXCEPT ![d] = t] /\ line' = [line EXCEPT ![d] = None]
      /\ part' = [part EXCEPT ![d] = FALSE] /\ clock' = clock /\ UNCHANGED merging /\ part[d]
  BY DEF WriteRest
<1>2. /\ l \in Line /\ l.completed_at <= clock /\ s \in Seq(Line) /\ s # None /\ InOrder(s)
      /\ \A i \in 1 .. n : s[i].completed_at <= l.completed_at
  BY <1>1 DEF MergeIInv, JournalsInOrder
<1>3. /\ t \in Seq(Line) /\ n \in Nat /\ Len(t) = n + 1 /\ t[n + 1] = l
      /\ \A i \in 1 .. n : t[i] = s[i] /\ s[i] \in Line
  <2> HIDE DEF s, l
  <2> QED BY <1>2, AppendProperties, LenProperties, ElementOfSeq
<1>4. t # None
  BY <1>3, MergeConfig
<1>5. /\ journal \in [Dir -> Seq(Line) \cup {None}] /\ line \in [Dir -> Line \cup {None}]
      /\ part \in [Dir -> BOOLEAN] /\ clock \in 1 .. MaxClock /\ clock \in Nat
  BY MergeConfig DEF MergeIInv, JournalsInOrder
<1> HIDE DEF s, l, t, n
<1>6. \A i \in 1 .. Len(t) : t[i].completed_at <= l.completed_at /\ t[i].completed_at <= clock
  <2> TAKE i \in 1 .. Len(t)
  <2>1. l.completed_at \in Nat
    BY <1>2 DEF Line
  <2>2. CASE i = n + 1
    BY <1>2, <1>3, <2>1, <2>2
  <2>3. CASE i # n + 1
    <3>1. i \in 1 .. n
      BY <1>3, <2>3
    <3>2. t[i] = s[i] /\ s[i].completed_at \in Nat /\ s[i].completed_at <= l.completed_at
      BY <1>2, <1>3, <3>1 DEF Line
    <3>3. s[i].completed_at <= clock
      BY <1>2, <1>5, <2>1, <3>2
    <3> QED BY <3>2, <3>3
  <2> QED BY <2>2, <2>3
<1>7. InOrder(t)
  <2> SUFFICES ASSUME NEW i \in 1 .. Len(t), NEW j \in 1 .. Len(t), i < j, t[i].run = t[j].run
               PROVE  t[i].completed_at <= t[j].completed_at
    BY <1>3, LenProperties DEF InOrder
  <2>1. CASE j = n + 1
    BY <1>3, <1>6, <2>1
  <2>2. CASE j # n + 1
    <3>1. i \in 1 .. n /\ j \in 1 .. n
      BY <1>3, <2>2
    <3>2. DOMAIN s = 1 .. n
      BY <1>2, LenProperties DEF n
    <3> QED BY <1>2, <1>3, <3>1, <3>2 DEF InOrder
  <2> QED BY <2>1, <2>2
<1>8. /\ journal'[d] = t /\ line'[d] = None /\ part'[d] = FALSE
      /\ journal' \in [Dir -> Seq(Line) \cup {None}] /\ line' \in [Dir -> Line \cup {None}]
      /\ part' \in [Dir -> BOOLEAN]
      /\ \A x \in Dir \ {d} : journal'[x] = journal[x] /\ line'[x] = line[x] /\ part'[x] = part[x]
  BY <1>1, <1>3, <1>5
<1>9. JournalsInOrder'
  <2> SUFFICES ASSUME NEW x \in Dir
               PROVE  /\ part'[x] => line'[x] # None
                      /\ line'[x] # None => journal'[x] # None /\ line'[x].completed_at <= clock
                      /\ journal'[x] # None =>
                           /\ InOrder(journal'[x])
                           /\ \A i \in 1 .. Len(journal'[x]) :
                                (journal'[x])[i].completed_at
                                  <= IF line'[x] # None THEN line'[x].completed_at ELSE clock
    BY <1>1, <1>5, <1>8 DEF JournalsInOrder
  <2>1. CASE x = d
    BY <1>6, <1>7, <1>8, <2>1
  <2>2. CASE x # d
    BY <1>8, <2>2 DEF MergeIInv, JournalsInOrder
  <2> QED BY <2>1, <2>2
<1>10. ToSet(s) \subseteq ToSet(t)
  <2>1. ToSet(s) = {s[i] : i \in 1 .. n} /\ ToSet(t) = {t[i] : i \in 1 .. Len(t)}
    BY <1>2, <1>3, SeqToSet DEF n
  <2>2. \A i \in 1 .. n : i \in 1 .. Len(t) /\ t[i] = s[i]
    BY <1>3
  <2> QED BY <2>1, <2>2
<1> QED BY <1>1, <1>4, <1>8, <1>9, <1>10, RunnerKeeps DEF s

LEMMA StartKeeps == MergeIInv /\ Start => MergeIInv'
<1> SUFFICES ASSUME MergeIInv, Start PROVE MergeIInv'
  OBVIOUS
<1> USE DEF Start, journals
<1>1. JournalsInOrder'
  BY DEF MergeIInv, JournalsInOrder
<1>2. next = 1
  BY DEF MergeIInv, MergingTypes
<1>3. MergingTypes'
  <2>1. at_start' \in [Dir -> Seq(Line)]
    BY LinesFacts DEF MergeIInv
  <2> QED BY <2>1 DEF MergeIInv, MergingTypes, Table, Filled
<1>4. LinesRemain'
  <2>1. \A d \in Dir : at_start'[d] = Lines(d) /\ Lines(d)' = Lines(d)
    BY DEF Lines
  <2> QED BY <2>1 DEF LinesRemain, Lines
<1>5. ReadSoFar'
  BY <1>2 DEF ReadSoFar
<1> QED BY <1>1, <1>3, <1>4, <1>5 DEF MergeIInv

LEMMA ReadKeeps == MergeIInv /\ Read => MergeIInv'
<1> SUFFICES ASSUME MergeIInv, Read PROVE MergeIInv'
  OBVIOUS
<1> DEFINE d == Dirs[next]
<1>1. pc = "reading" /\ next \in 1 .. Len(Dirs) /\ d \in Dir /\ Len(Dirs) \in Nat
  BY DirsFacts DEF Read
<1>2. /\ clock' = clock /\ journal' = journal /\ line' = line /\ part' = part
      /\ report' = report /\ at_start' = at_start
  BY DEF Read, journals
<1>3. JournalsInOrder'
  BY <1>2 DEF MergeIInv, JournalsInOrder
<1>4. CASE pc' = "failed" /\ UNCHANGED <<next, latest, source_count>>
  <2>1. MergingTypes'
    BY <1>1, <1>2, <1>4 DEF MergeIInv, MergingTypes, Table, Filled
  <2>2. LinesRemain' /\ ReadSoFar'
    BY <1>1, <1>2, <1>4 DEF MergeIInv, LinesRemain, ReadSoFar, Lines, Hidden, UpTo
  <2> QED BY <1>3, <2>1, <2>2 DEF MergeIInv
<1>5. CASE /\ latest' = Combine(latest, Lines(d))
           /\ source_count' = source_count + Len(Lines(d))
           /\ next' = next + 1 /\ pc' = pc
  <2>1. Table(latest) /\ Lines(d) \in Seq(Line) /\ Len(Lines(d)) \in Nat
    BY <1>1, LinesFacts, LenProperties DEF MergeIInv, MergingTypes
  <2>2. /\ Table(latest')
        /\ \A old \in Line : UpTo(latest, old) => UpTo(latest', old)
        /\ \A i \in 1 .. Len(Lines(d)) : UpTo(latest', Lines(d)[i])
        /\ Cardinality(Filled(latest')) <= Cardinality(Filled(latest)) + Len(Lines(d))
    BY <1>5, <2>1, CombineFacts
  <2>3. next' \in 1 .. Len(Dirs) + 1 /\ next' # 1 /\ next' - 1 = next
    BY <1>1, <1>5
  <2>4. source_count' \in Nat /\ Cardinality(Filled(latest')) <= source_count'
    <3> DEFINE x == Cardinality(Filled(latest))
               y == Cardinality(Filled(latest'))
               m == Len(Lines(d))
    <3>1. \A t : Cardinality(Filled(t)) \in Nat
      <4> TAKE t
      <4>1. Filled(t) \in SUBSET Run
        BY DEF Filled
      <4> QED BY <4>1, MergeConfig, FS_Subset, FS_CardinalityType
    <3>2. x \in Nat /\ y \in Nat /\ m \in Nat /\ y <= x + m /\ x <= source_count
          /\ source_count \in Nat /\ source_count' = source_count + m
      BY <1>5, <2>1, <2>2, <3>1 DEF MergeIInv, MergingTypes
    <3> HIDE DEF x, y, m
    <3>3. source_count' \in Nat /\ y <= source_count'
      BY <3>2
    <3> QED BY <3>3 DEF y
  <2>5. MergingTypes'
    <3>1. Table(latest)' /\ Filled(latest)' = Filled(latest')
      BY <2>2 DEF Table, Filled
    <3> QED BY <1>1, <1>2, <1>5, <2>3, <2>4, <3>1 DEF MergeIInv, MergingTypes
  <2>6. LinesRemain'
    BY <1>1, <1>2, <1>5 DEF MergeIInv, LinesRemain, Lines, Hidden
  <2>7. ReadSoFar'
    <3> SUFFICES ASSUME NEW i \in 1 .. next, ~ Hidden(Dirs[i]), NEW old \in ToSet(at_start[Dirs[i]])
                 PROVE  UpTo(latest', old)
      BY <1>2, <2>3 DEF ReadSoFar, UpTo, Hidden
    <3>1. Dirs[i] \in Dir
      BY <1>1, DirsFacts
    <3>2. old \in Line
      <4>1. at_start[Dirs[i]] \in Seq(Line)
        BY <3>1 DEF MergeIInv, MergingTypes
      <4> QED BY <4>1, SeqToSet
    <3>3. CASE i # next
      <4>1. i \in 1 .. next - 1
        BY <1>1, <3>3
      <4> QED BY <2>2, <3>2, <4>1 DEF MergeIInv, ReadSoFar
    <3>4. CASE i = next
      <4>1. old \in ToSet(Lines(d))
        BY <1>1, <3>1, <3>4 DEF MergeIInv, LinesRemain, Lines
      <4>2. ToSet(Lines(d)) = {Lines(d)[j] : j \in 1 .. Len(Lines(d))}
        BY <2>1, SeqToSet
      <4> QED BY <2>2, <4>1, <4>2
    <3> QED BY <3>3, <3>4
  <2> QED BY <1>3, <2>5, <2>6, <2>7 DEF MergeIInv
<1> QED BY <1>4, <1>5 DEF Read

LEMMA ReportKeeps == MergeIInv /\ Report => MergeIInv'
<1> SUFFICES ASSUME MergeIInv, Report PROVE MergeIInv'
  OBVIOUS
<1> USE DEF Report, journals
<1>1. JournalsInOrder'
  BY DEF MergeIInv, JournalsInOrder
<1>2. next = Len(Dirs) + 1
  BY DirsFacts DEF MergeIInv, MergingTypes
<1>3. MergingTypes'
  BY <1>2 DEF MergeIInv, MergingTypes, Table, Filled, Canonical
<1>4. LinesRemain' /\ ReadSoFar'
  BY DEF MergeIInv, LinesRemain, ReadSoFar, Lines, Hidden, UpTo
<1> QED BY <1>1, <1>3, <1>4 DEF MergeIInv

LEMMA MergeStill == MergeIInv /\ UNCHANGED mergeVars => MergeIInv'
<1> SUFFICES ASSUME MergeIInv, UNCHANGED mergeVars PROVE MergeIInv'
  OBVIOUS
<1> USE DEF mergeVars, journals, merging
<1>1. JournalsInOrder'
  BY DEF MergeIInv, JournalsInOrder
<1>2. MergingTypes'
  BY DEF MergeIInv, MergingTypes, Table, Filled, Canonical
<1>3. LinesRemain' /\ ReadSoFar'
  BY DEF MergeIInv, LinesRemain, ReadSoFar, Lines, Hidden, UpTo
<1> QED BY <1>1, <1>2, <1>3 DEF MergeIInv

LEMMA MergeAlways == MergeSpec => []MergeIInv
<1>1. MergeIInv /\ [MergeNext]_mergeVars => MergeIInv'
  BY TickKeeps, OpenKeeps, WritePartKeeps, WriteRestKeeps, StartKeeps, ReadKeeps, ReportKeeps,
     MergeStill DEF MergeNext
<1> QED BY <1>1, MergeInitially, PTL DEF MergeSpec

----------------------------------------------------------------------------
(* What the invariant means. *)

LEMMA MergeMeans == MergeIInv => MergeInv
<1> SUFFICES ASSUME MergeIInv PROVE MergeInv
  OBVIOUS
<1>1. MergeTypeOK
  <2>1. \A d \in Dir : journal[d] # None => ToSet(journal[d]) \subseteq Line
    BY SeqToSet DEF MergeIInv, JournalsInOrder
  <2>2. \A r \in Run : latest[r] \in {l \in Line : l.run = r} \cup {None}
    BY DEF MergeIInv, MergingTypes, Table
  <2>3. \A r \in Run : report[r] \in {latest[r], None}
    BY DEF MergeIInv, MergingTypes, Canonical, NoLines
  <2> QED BY <2>1, <2>2, <2>3 DEF MergeTypeOK, MergeIInv, JournalsInOrder, MergingTypes
<1>2. NeverBehind
  <2> SUFFICES ASSUME pc = "done", NEW d \in Dir, ~ Hidden(d), NEW old \in ToSet(at_start[d]),
                      old.run \in Planned
               PROVE  report[old.run] # None /\ report[old.run].completed_at >= old.completed_at
    BY DEF NeverBehind
  <2>1. report[old.run] = latest[old.run]
    BY MergeConfig DEF MergeIInv, MergingTypes, Canonical
  <2>2. PICK i \in 1 .. Len(Dirs) : d = Dirs[i]
    BY DirsFacts
  <2>3. i \in 1 .. next - 1
    BY DirsFacts DEF MergeIInv, MergingTypes
  <2>4. UpTo(latest, old)
    BY <2>2, <2>3 DEF MergeIInv, ReadSoFar
  <2> QED BY <2>1, <2>4 DEF UpTo
<1>3. CoverageIsOfThePlan
  <2> SUFFICES ASSUME pc = "done"
               PROVE  /\ \A r \in Run : report[r] # None => r \in Planned
                      /\ passed_runs <= completed_runs
                      /\ remaining_runs = Cardinality({r \in Planned : report[r] = None})
                      /\ source_count >= completed_runs
    BY DEF CoverageIsOfThePlan
  <2>1. report = Canonical(latest)
    BY DEF MergeIInv, MergingTypes
  <2>2. \A r \in Run : report[r] # None => r \in Planned /\ report[r] = latest[r]
    BY <2>1 DEF Canonical
  <2> DEFINE C == {r \in Run : report[r] # None}
             P == {r \in Run : report[r] # None /\ report[r].status = "PASS"}
             R == {r \in Planned : report[r] = None}
  <2>3. IsFiniteSet(C) /\ IsFiniteSet(Planned) /\ IsFiniteSet(Filled(latest))
    <3>1. C \in SUBSET Run /\ Planned \in SUBSET Run /\ Filled(latest) \in SUBSET Run
      BY MergeConfig DEF Filled
    <3> QED BY <3>1, MergeConfig, FS_Subset
  <2>4. passed_runs <= completed_runs
    <3>1. P \in SUBSET C
      OBVIOUS
    <3>2. Cardinality(P) <= Cardinality(C)
      <4> HIDE DEF P, C
      <4> QED BY <2>3, <3>1, FS_Subset
    <3> QED BY <3>2 DEF passed_runs, completed_runs
  <2>5. remaining_runs = Cardinality(R)
    <3>1. C \subseteq Planned /\ R = Planned \ C
      BY <2>2, MergeConfig
    <3>2. Planned \cap C = C
      BY <3>1
    <3> HIDE DEF C, R
    <3>3. Cardinality(R) = Cardinality(Planned) - Cardinality(C)
      BY <2>3, <3>1, <3>2, FS_Difference
    <3> QED BY <3>3 DEF remaining_runs, completed_runs, C
  <2>6. source_count >= completed_runs
    <3>1. C \in SUBSET Filled(latest)
      BY <2>2 DEF Filled
    <3>2. Cardinality(C) <= Cardinality(Filled(latest))
      <4> HIDE DEF C
      <4> QED BY <2>3, <3>1, FS_Subset
    <3> DEFINE x == Cardinality(C)
               y == Cardinality(Filled(latest))
    <3>3. x \in Nat /\ y \in Nat /\ x <= y /\ y <= source_count /\ source_count \in Nat
      BY <2>3, <3>2, FS_CardinalityType DEF MergeIInv, MergingTypes
    <3> HIDE DEF x, y
    <3>4. source_count >= x
      BY <3>3
    <3> QED BY <3>4 DEF completed_runs, x
  <2> QED BY <2>2, <2>4, <2>5, <2>6
<1> QED BY <1>1, <1>2, <1>3 DEF MergeInv

\* For any number of directories, runs and lines: a merged report is about the
\* plan, and for each run of it no older than anything a directory held when
\* the merge began (merge.py:45-54, report.py:269-330).
THEOREM ReportIsUpToDate == MergeSpec => []MergeInv
BY MergeAlways, MergeMeans, PTL

\* The merge takes over from a directory what its runner would resume from
\* (merge.py:12-26 against runner.py:176-180).
THEOREM MergeAgreesWithRunner == MergeSpec => AgreesWithRunner
<1>1. ASSUME MergeIInv, [MergeNext]_mergeVars, next = 1, next' = 2, journal[Dirs[1]] # << >>,
             NEW r \in Run
      PROVE  latest'[r] = LastOf(Resumed(Dirs[1]), r)
  <2> DEFINE d == Dirs[1]
  <2>1. Read
    BY <1>1 DEF MergeNext, Tick, Open, WritePart, WriteRest, Start, Report, mergeVars, merging
  <2>2. latest' = Combine(latest, Lines(d)) /\ d \in Dir
    BY <1>1, <2>1, DirsFacts DEF Read
  <2>3. latest = NoLines
    BY <1>1 DEF MergeIInv, MergingTypes
  <2>4. Lines(d) \in Seq(Line) /\ InOrder(Lines(d))
    BY <1>1, <2>2, LinesFacts DEF MergeIInv
  <2>5. Resumed(d) = Lines(d)
    BY <1>1 DEF Resumed, Lines
  <2> QED BY <2>2, <2>3, <2>4, <2>5, CombineLast
<1>2. MergeIInv /\ [MergeNext]_mergeVars =>
        (next = 1 /\ next' = 2 /\ journal[Dirs[1]] # << >> =>
           \A r \in Run : latest'[r] = LastOf(Resumed(Dirs[1]), r))
  BY <1>1
<1> QED BY <1>2, MergeAlways, PTL DEF MergeSpec, AgreesWithRunner

----------------------------------------------------------------------------
(* Blocks of one size. *)

LEMMA TimesNat == \A m, n \in Nat : m * n \in Nat
  OBVIOUS

\* Dividing by a positive number.
LEMMA Division ==
  ASSUME NEW n \in Nat, NEW d \in Nat \ {0}
  PROVE  n \div d \in Nat /\ n % d \in 0 .. d - 1 /\ n = d * (n \div d) + (n % d)
<1>1. n % d \in 0 .. d - 1
  OBVIOUS
<1>2. n \div d \in Nat
  OBVIOUS
<1>3. n = d * (n \div d) + (n % d)
  OBVIOUS
<1> QED BY <1>1, <1>2, <1>3

LEMMA Monotone ==
  ASSUME NEW d \in Nat, NEW x \in Nat, NEW y \in Nat, x < y
  PROVE  d * x + d <= d * y
<1>1. PICK z \in Nat : y = x + 1 + z
  <2>1. y - x - 1 \in Nat /\ y = x + 1 + (y - x - 1)
    OBVIOUS
  <2> QED BY <2>1
<1>2. d * y = d * x + d + d * z
  BY <1>1
<1>3. d * z \in Nat /\ d * x \in Nat
  BY TimesNat
<1> QED BY <1>2, <1>3

\* The quotient and the remainder are determined.
LEMMA Quotient ==
  ASSUME NEW d \in Nat \ {0}, NEW p \in Nat, NEW q \in Nat, NEW r \in 0 .. d - 1, NEW s \in 0 .. d - 1,
         d * p + r = d * q + s
  PROVE  p = q /\ r = s
<1>2. d * p \in Nat /\ d * q \in Nat
  BY TimesNat
<1>3. ~ p < q
  <2>1. SUFFICES ASSUME p < q PROVE FALSE
    OBVIOUS
  <2>2. d * p + d <= d * q
    BY <2>1, Monotone
  <2> QED BY <1>2, <2>2
<1>4. ~ q < p
  <2>1. SUFFICES ASSUME q < p PROVE FALSE
    OBVIOUS
  <2>2. d * q + d <= d * p
    BY <2>1, Monotone
  <2> QED BY <1>2, <2>2
<1>5. p = q
  BY <1>3, <1>4
<1> QED BY <1>2, <1>5

\* Every number is in one block at one place, and every place of every block
\* has one number.
LEMMA BlockOf ==
  ASSUME NEW n \in Nat \ {0}, NEW d \in Nat \ {0}
  PROVE  /\ Block(n, d) \in Nat \ {0} /\ Within(n, d) \in 1 .. d
         /\ n = d * (Block(n, d) - 1) + Within(n, d)
         /\ Block(n, d) <= n
<1>1. n - 1 \in Nat
  OBVIOUS
<1> DEFINE q == (n - 1) \div d
           r == (n - 1) % d
<1>2. q \in Nat /\ r \in 0 .. d - 1 /\ n - 1 = d * q + r
  BY <1>1, Division
<1>3. Block(n, d) = q + 1 /\ Within(n, d) = r + 1
  BY DEF Block, Within
<1> HIDE DEF q, r
<1>4. d * q >= q
  <2>1. d - 1 \in Nat /\ d = (d - 1) + 1
    OBVIOUS
  <2>2. (d - 1) * q \in Nat
    BY <1>2, <2>1, TimesNat
  <2>3. d * q = (d - 1) * q + q
    BY <1>2, <2>1
  <2> QED BY <1>2, <2>2, <2>3
<1>5. d * q \in Nat
  BY <1>2, TimesNat
<1> QED BY <1>2, <1>3, <1>4, <1>5

LEMMA PlaceOf ==
  ASSUME NEW d \in Nat \ {0}, NEW q \in Nat \ {0}, NEW j \in 1 .. d
  PROVE  /\ d * (q - 1) + j \in Nat \ {0}
         /\ Block(d * (q - 1) + j, d) = q /\ Within(d * (q - 1) + j, d) = j
<1> DEFINE n == d * (q - 1) + j
<1>1. q - 1 \in Nat /\ j - 1 \in 0 .. d - 1
  OBVIOUS
<1>2. d * (q - 1) \in Nat
  BY <1>1, TimesNat
<1>3. n \in Nat \ {0} /\ n - 1 = d * (q - 1) + (j - 1)
  BY <1>2
<1>4. n = d * (Block(n, d) - 1) + Within(n, d) /\ Block(n, d) \in Nat \ {0} /\ Within(n, d) \in 1 .. d
  BY <1>3, BlockOf
<1> HIDE DEF n
<1> DEFINE b == Block(n, d)
           w == Within(n, d)
<1>5. b - 1 \in Nat /\ w - 1 \in 0 .. d - 1 /\ d * (b - 1) \in Nat
  BY <1>4, TimesNat
<1>6. d * (b - 1) + (w - 1) = d * (q - 1) + (j - 1)
  <2>1. n - 1 = d * (b - 1) + (w - 1)
    BY <1>4, <1>5
  <2> QED BY <1>3, <2>1
<1>7. b - 1 = q - 1 /\ w - 1 = j - 1
  BY <1>1, <1>5, <1>6, Quotient
<1>8. b = q /\ w = j
  <2>1. b \in Int /\ w \in Int /\ q \in Int /\ j \in Int
    BY <1>4
  <2> HIDE DEF b, w
  <2> QED BY ONLY <1>7, <2>1
<1>9. n \in Nat \ {0} /\ Block(n, d) = q /\ Within(n, d) = j
  <2>1. n \in Nat \ {0}
    BY ONLY <1>3
  <2>2. Block(n, d) = q /\ Within(n, d) = j
    BY ONLY <1>8
  <2> QED BY ONLY <2>1, <2>2
<1> QED BY ONLY <1>9 DEF n

\* m blocks of d.
LEMMA Blocks ==
  ASSUME NEW m \in Nat, NEW d \in Nat
  PROVE  /\ \A n \in 1 .. m * d : Block(n, d) \in 1 .. m /\ Within(n, d) \in 1 .. d
         /\ \A q \in 1 .. m, j \in 1 .. d :
              d * (q - 1) + j \in 1 .. m * d
<1>1. m * d \in Nat
  BY TimesNat
<1>2. ASSUME NEW n \in 1 .. m * d PROVE Block(n, d) \in 1 .. m /\ Within(n, d) \in 1 .. d
  <2>1. d # 0
    BY <1>2
  <2>2. n \in Nat \ {0}
    BY <1>1
  <2> DEFINE q == Block(n, d)
             j == Within(n, d)
  <2>3. q \in Nat \ {0} /\ j \in 1 .. d /\ n = d * (q - 1) + j
    BY <2>1, <2>2, BlockOf
  <2> HIDE DEF q, j
  <2>4. ~ m <= q - 1
    <3>1. SUFFICES ASSUME m <= q - 1 PROVE FALSE
      OBVIOUS
    <3>2. (q - 1) - m \in Nat /\ q - 1 = m + ((q - 1) - m)
      BY <2>3, <3>1
    <3> DEFINE z == (q - 1) - m
    <3> HIDE DEF z
    <3>3. z \in Nat /\ q - 1 = m + z
      BY <3>2 DEF z
    <3>4. d * (q - 1) = m * d + d * z /\ d * z \in Nat
      BY <3>3, TimesNat
    <3>5. n <= m * d
      BY <1>1
    <3> QED BY <1>1, <2>3, <3>4, <3>5
  <2> QED BY <2>3, <2>4 DEF q, j
<1>3. ASSUME NEW q \in 1 .. m, NEW j \in 1 .. d PROVE d * (q - 1) + j \in 1 .. m * d
  <2> DEFINE z == m - q
             p == q - 1
  <2>1. z \in Nat /\ p \in Nat /\ m = p + 1 + z
    OBVIOUS
  <2> HIDE DEF z, p
  <2>2. m * d = d * p + d + d * z /\ d * z \in Nat /\ d * p \in Nat
    BY <2>1, TimesNat
  <2>3. d * p + j \in 1 .. m * d
    BY <1>1, <2>2
  <2> QED BY <2>3 DEF p
<1> QED BY <1>2, <1>3

\* How many are in these blocks at these places.
InBlocks(S, m, d, A, B) ==
  \A n : n \in S <=> n \in 1 .. m * d /\ Block(n, d) \in A /\ Within(n, d) \in B

LEMMA CountBlocks ==
  ASSUME NEW m \in Nat, NEW d \in Nat, NEW A \in SUBSET (1 .. m), NEW B \in SUBSET (1 .. d),
         NEW S, InBlocks(S, m, d, A, B)
  PROVE  Cardinality(S) = Cardinality(A) * Cardinality(B)
<1> DEFINE f == [ab \in A \X B |-> d * (ab[1] - 1) + ab[2]]
<1>in. \A n : n \in S <=> n \in 1 .. m * d /\ Block(n, d) \in A /\ Within(n, d) \in B
  BY DEF InBlocks
<1>1. IsFiniteSet(A) /\ IsFiniteSet(B)
  <2>1. IsFiniteSet(1 .. m) /\ IsFiniteSet(1 .. d)
    BY FS_Interval
  <2> QED BY <2>1, FS_Subset
<1>2. IsFiniteSet(A \X B) /\ Cardinality(A \X B) = Cardinality(A) * Cardinality(B)
  BY <1>1, FS_Product
<1>3. \A a \in A, b \in B :
        /\ d * (a - 1) + b \in 1 .. m * d
        /\ Block(d * (a - 1) + b, d) = a /\ Within(d * (a - 1) + b, d) = b
  <2> TAKE a \in A, b \in B
  <2>1. a \in 1 .. m /\ b \in 1 .. d /\ a \in Nat \ {0} /\ d \in Nat \ {0}
    OBVIOUS
  <2> QED BY <2>1, PlaceOf, Blocks
<1>4. \A n \in S : n = d * (Block(n, d) - 1) + Within(n, d)
  <2> TAKE n \in S
  <2>1. n \in Nat \ {0} /\ d \in Nat \ {0}
    <3>1. m * d \in Nat
      BY TimesNat
    <3> QED BY <1>in, <3>1
  <2> QED BY <2>1, BlockOf
<1>5. f \in Bijection(A \X B, S)
  <2>1. f \in [A \X B -> S]
    BY <1>in, <1>3
  <2>2. \A x, y \in A \X B : f[x] = f[y] => x = y
    <3> TAKE x \in A \X B, y \in A \X B
    <3>1. x[1] \in A /\ x[2] \in B /\ y[1] \in A /\ y[2] \in B /\ x = <<x[1], x[2]>> /\ y = <<y[1], y[2]>>
      OBVIOUS
    <3> QED BY <1>3, <3>1
  <2>3. \A n \in S : \E x \in A \X B : f[x] = n
    <3> TAKE n \in S
    <3>1. <<Block(n, d), Within(n, d)>> \in A \X B
      BY <1>in
    <3> QED BY <1>4, <3>1
  <2> HIDE DEF f
  <2> QED BY <2>1, <2>2, <2>3 DEF Bijection, Injection, Surjection, IsInjective
<1>6. Cardinality(S) = Cardinality(A \X B)
  <2>1. ExistsBijection(A \X B, S)
    BY <1>5 DEF ExistsBijection
  <2> QED BY <1>2, <2>1, FS_Bijection
<1> QED BY <1>2, <1>6

----------------------------------------------------------------------------
(* Things dealt out in turn: the k-th of the i-th is k - 1 whole rounds and  *)
(* i more.  So every thing goes to one, and none gets two more than another. *)

LEMMA Dealt ==
  ASSUME NEW n \in Nat, NEW count \in Nat \ {0}, NEW o \in Nat, NEW len, DOMAIN len = o .. count - 1 + o,
         \A i \in DOMAIN len :
           /\ len[i] \in Nat
           /\ \A k \in Nat \ {0} : k <= len[i] <=> count * (k - 1) + (i - o + 1) <= n
  PROVE  /\ Total(len) = n
         /\ \A i, j \in DOMAIN len : len[i] <= len[j] + 1
<1> DEFINE T == UNION {{i} \X (1 .. len[i]) : i \in DOMAIN len}
           f == [x \in 1 .. n |-> <<Within(x, count) - 1 + o, Block(x, count)>>]
<1>1. \A x \in 1 .. n :
        /\ Block(x, count) \in Nat \ {0} /\ Within(x, count) \in 1 .. count
        /\ x = count * (Block(x, count) - 1) + Within(x, count)
  <2> TAKE x \in 1 .. n
  <2>1. x \in Nat \ {0}
    OBVIOUS
  <2> QED BY <2>1, BlockOf
<1>2. \A i \in DOMAIN len : i - o + 1 \in 1 .. count
  OBVIOUS
<1>3. ASSUME NEW x \in 1 .. n PROVE f[x] \in T
  <2> DEFINE i == Within(x, count) - 1 + o
             k == Block(x, count)
  <2>1. i \in DOMAIN len /\ i - o + 1 = Within(x, count) /\ k \in Nat \ {0}
    <3> DEFINE w == Within(x, count)
    <3>1. w \in 1 .. count /\ k \in Nat \ {0}
      BY <1>1
    <3> HIDE DEF w, k
    <3>2. w - 1 + o \in o .. count - 1 + o /\ (w - 1 + o) - o + 1 = w
      BY <3>1
    <3> QED BY <3>1, <3>2 DEF w
  <2>2. count * (k - 1) + (i - o + 1) <= n
    <3>1. count * (k - 1) + (i - o + 1) = x
      BY <1>1, <2>1
    <3> QED BY <3>1
  <2>3. k \in 1 .. len[i]
    <3> HIDE DEF i, k
    <3>1. k <= len[i] /\ len[i] \in Nat
      BY <2>1, <2>2
    <3> QED BY <2>1, <3>1
  <2> QED BY <2>1, <2>3
<1>4. ASSUME NEW x \in 1 .. n, NEW y \in 1 .. n, f[x] = f[y] PROVE x = y
  <2>1. Block(x, count) = Block(y, count) /\ Within(x, count) - 1 + o = Within(y, count) - 1 + o
    <3>1. /\ f[x] = <<Within(x, count) - 1 + o, Block(x, count)>>
          /\ f[y] = <<Within(y, count) - 1 + o, Block(y, count)>>
      OBVIOUS
    <3> HIDE DEF f
    <3>2. <<Within(x, count) - 1 + o, Block(x, count)>> = <<Within(y, count) - 1 + o, Block(y, count)>>
      BY ONLY <1>4, <3>1
    <3> QED BY ONLY <3>2
  <2>2. Within(x, count) = Within(y, count)
    <3> DEFINE v == Within(x, count)
               w == Within(y, count)
    <3>1. v \in 1 .. count /\ w \in 1 .. count
      BY <1>1
    <3>2. v - 1 + o = w - 1 + o
      BY ONLY <2>1
    <3> HIDE DEF v, w
    <3>3. v \in Nat /\ w \in Nat
      BY <3>1
    <3>4. v = w
      BY ONLY <3>2, <3>3, o \in Nat
    <3> QED BY ONLY <3>4 DEF v, w
  <2>3. x = count * (Block(x, count) - 1) + Within(x, count)
    BY <1>1
  <2>4. y = count * (Block(y, count) - 1) + Within(y, count)
    BY <1>1
  <2> QED BY <2>1, <2>2, <2>3, <2>4
<1>5. ASSUME NEW t \in T PROVE \E x \in 1 .. n : f[x] = t
  <2>1. PICK i \in DOMAIN len : t \in {i} \X (1 .. len[i])
    OBVIOUS
  <2>2. PICK k \in 1 .. len[i] : t = <<i, k>>
    BY <2>1
  <2>3. k \in Nat \ {0} /\ i - o + 1 \in 1 .. count /\ k <= len[i]
    BY <1>2
  <2> DEFINE x == count * (k - 1) + (i - o + 1)
  <2>4. x \in Nat \ {0} /\ Block(x, count) = k /\ Within(x, count) = i - o + 1
    BY <2>3, PlaceOf
  <2>5. x <= n
    BY <2>3
  <2> HIDE DEF x
  <2>6. x \in 1 .. n /\ Within(x, count) - 1 + o = i
    BY <2>4, <2>5
  <2> QED BY <2>2, <2>4, <2>6
<1>6. Total(len) = n
  <2>1. f \in Bijection(1 .. n, T)
    <3>1. f \in [1 .. n -> T]
      BY <1>3
    <3> HIDE DEF f, T
    <3> QED BY <1>4, <1>5, <3>1 DEF Bijection, Injection, Surjection, IsInjective
  <2>2. ExistsBijection(1 .. n, T)
    <3> HIDE DEF T
    <3> QED BY <2>1 DEF ExistsBijection
  <2>3. IsFiniteSet(1 .. n) /\ Cardinality(1 .. n) = n
    BY FS_Interval
  <2>4. Cardinality(T) = n
    <3> HIDE DEF T
    <3> QED BY <2>2, <2>3, FS_Bijection
  <2> QED BY <2>4 DEF Total
<1>7. ASSUME NEW i \in DOMAIN len, NEW j \in DOMAIN len PROVE len[i] <= len[j] + 1
  <2>1. SUFFICES ASSUME len[i] > len[j] + 1 PROVE FALSE
    OBVIOUS
  <2> DEFINE k == len[i]
             l == len[j]
             a == i - o + 1
             b == j - o + 1
  <2>2. k \in Nat /\ l \in Nat /\ k > l + 1 /\ a \in 1 .. count /\ b \in 1 .. count
    BY <1>2, <2>1
  <2>3. k \in Nat \ {0} => (k <= k <=> count * (k - 1) + a <= n)
    OBVIOUS
  <2>4. \A m \in Nat \ {0} : m <= l <=> count * (m - 1) + b <= n
    OBVIOUS
  <2> HIDE DEF k, l, a, b
  <2> DEFINE m == k - 1
             p == k - 2
  <2>5. m \in Nat \ {0} /\ p \in Nat /\ m - 1 = p /\ p < m /\ ~ m <= l /\ k \in Nat \ {0} /\ k <= k
    BY <2>2
  <2>6. count * m + a <= n
    BY <2>3, <2>5
  <2>7. ~ count * p + b <= n
    BY <2>4, <2>5
  <2> HIDE DEF m, p
  <2>8. count * p + count <= count * m
    BY <2>5, Monotone
  <2>9. count * m \in Nat /\ count * p \in Nat
    BY <2>5, TimesNat
  <2> QED BY <2>2, <2>6, <2>7, <2>8, <2>9
<1> QED BY <1>6, <1>7

\* How many rounds begin before the x-th thing is dealt.
LEMMA Rounds ==
  ASSUME NEW x \in Nat \ {0}, NEW d \in Nat \ {0}, NEW k \in Nat \ {0}
  PROVE  k <= Block(x, d) <=> d * (k - 1) + 1 <= x
<1> DEFINE b == Block(x, d)
           w == Within(x, d)
<1>1. b \in Nat \ {0} /\ w \in 1 .. d /\ x = d * (b - 1) + w
  BY BlockOf
<1> HIDE DEF b, w
<1>2. d * (b - 1) \in Nat /\ d * (k - 1) \in Nat /\ b - 1 \in Nat /\ k - 1 \in Nat
  BY <1>1, TimesNat
<1>3. CASE k = b
  BY <1>1, <1>2, <1>3 DEF b
<1>4. CASE k < b
  <2>1. d * (k - 1) + d <= d * (b - 1)
    <3>1. k - 1 < b - 1
      BY <1>1, <1>4
    <3> QED BY <1>2, <3>1, Monotone
  <2>2. k <= b
    BY <1>1, <1>4
  <2>3. d * (k - 1) + 1 <= x
    BY <1>1, <1>2, <2>1
  <2> QED BY <2>2, <2>3 DEF b
<1>5. CASE b < k
  <2>1. d * (b - 1) + d <= d * (k - 1)
    <3>1. b - 1 < k - 1
      BY <1>1, <1>5
    <3> QED BY <1>2, <3>1, Monotone
  <2>2. ~ k <= b
    BY <1>1, <1>5
  <2>3. ~ d * (k - 1) + 1 <= x
    BY <1>1, <1>2, <2>1
  <2> QED BY <2>2, <2>3 DEF b
<1> QED BY <1>1, <1>3, <1>4, <1>5

\* The events of a run, dealt to its devices.
LEMMA DevicesShare ==
  ASSUME NEW total \in Nat, NEW devices \in Nat \ {0}
  PROVE  Total(EventsPerDevice(total, devices)) = total
<1> DEFINE q == total \div devices
           r == total % devices
           len == EventsPerDevice(total, devices)
<1>1. q \in Nat /\ r \in 0 .. devices - 1 /\ total = devices * q + r
  BY Division
<1>2. len = [i \in 1 .. devices |-> q + IF i - 1 < r THEN 1 ELSE 0]
  BY DEF EventsPerDevice
<1> HIDE DEF len, q, r
<1>3. DOMAIN len = 1 .. devices - 1 + 1
  BY <1>2
<1>4. ASSUME NEW i \in DOMAIN len PROVE len[i] \in Nat
  BY <1>1, <1>2
<1>5. ASSUME NEW i \in DOMAIN len, NEW k \in Nat \ {0}
      PROVE  k <= len[i] <=> devices * (k - 1) + (i - 1 + 1) <= total
  <2>1. i \in 1 .. devices /\ len[i] = q + (IF i - 1 < r THEN 1 ELSE 0) /\ i - 1 + 1 = i
    BY <1>2, <1>3
  <2>2. k - 1 \in Nat /\ devices * (k - 1) \in Nat /\ devices * q \in Nat
    BY <1>1, TimesNat
  <2>3. CASE k - 1 = q
    BY <1>1, <2>1, <2>2, <2>3
  <2>4. CASE k - 1 < q
    <3>1. devices * (k - 1) + devices <= devices * q
      BY <1>1, <2>2, <2>4, Monotone
    <3>2. k <= len[i]
      BY <1>1, <2>1, <2>4
    <3>3. devices * (k - 1) + i <= total
      BY <1>1, <2>1, <2>2, <3>1
    <3> QED BY <2>1, <3>2, <3>3
  <2>5. CASE q < k - 1
    <3>1. devices * q + devices <= devices * (k - 1)
      BY <1>1, <2>2, <2>5, Monotone
    <3>2. ~ k <= len[i]
      BY <1>1, <2>1, <2>5
    <3>3. ~ devices * (k - 1) + i <= total
      BY <1>1, <2>1, <2>2, <3>1
    <3> QED BY <2>1, <3>2, <3>3
  <2> QED BY <1>1, <2>2, <2>3, <2>4, <2>5
<1>6. Total(len) = total
  BY <1>3, <1>4, <1>5, Dealt
<1> QED BY <1>6 DEF len

\* The places of a shard, and how many there are.
PlacesOf(n, index, count) == {i \in 1 .. n : (i - 1) % count = index}

LEMMA ShardSize ==
  ASSUME NEW n \in Nat, NEW count \in Nat \ {0}, NEW index \in 0 .. count - 1
  PROVE  /\ Cardinality(PlacesOf(n, index, count)) \in Nat
         /\ \A k \in Nat \ {0} :
              k <= Cardinality(PlacesOf(n, index, count)) <=> count * (k - 1) + (index + 1) <= n
<1> DEFINE m == IF index < n THEN Block(n - index, count) ELSE 0
           S == PlacesOf(n, index, count)
           f == [k \in 1 .. m |-> count * (k - 1) + (index + 1)]
<1>1. ASSUME NEW k \in Nat \ {0} PROVE k <= m <=> count * (k - 1) + (index + 1) <= n
  <2>1. count * (k - 1) \in Nat
    <3>1. k - 1 \in Nat
      OBVIOUS
    <3> QED BY <3>1, TimesNat
  <2>2. CASE index < n
    <3>1. n - index \in Nat \ {0}
      BY <2>2
    <3>2. k <= Block(n - index, count) <=> count * (k - 1) + 1 <= n - index
      BY <3>1, Rounds
    <3>3. count * (k - 1) + 1 <= n - index <=> count * (k - 1) + (index + 1) <= n
      BY <2>1
    <3> QED BY <2>2, <3>2, <3>3
  <2>3. CASE ~ index < n
    BY <2>1, <2>3
  <2> QED BY <2>2, <2>3
<1>2. m \in Nat
  <2>1. CASE index < n
    <3>1. n - index \in Nat \ {0}
      BY <2>1
    <3>2. Block(n - index, count) \in Nat
      BY <3>1, BlockOf
    <3> QED BY <3>2
  <2>2. CASE ~ index < n
    BY <2>2
  <2> QED BY <2>1, <2>2
<1> HIDE DEF m
<1>3. ASSUME NEW k \in 1 .. m
      PROVE  /\ f[k] \in Nat \ {0} /\ f[k] <= n
             /\ Block(f[k], count) = k /\ Within(f[k], count) = index + 1
  <2>1. k \in Nat \ {0} /\ k <= m /\ index + 1 \in 1 .. count
    BY <1>2
  <2>2. f[k] = count * (k - 1) + (index + 1)
    OBVIOUS
  <2>3. count * (k - 1) + (index + 1) <= n
    BY <1>1, <2>1
  <2> HIDE DEF f
  <2> DEFINE p == index + 1
  <2>4. p \in 1 .. count /\ f[k] = count * (k - 1) + p
    BY <2>1, <2>2
  <2>5. /\ count * (k - 1) + p \in Nat \ {0}
        /\ Block(count * (k - 1) + p, count) = k /\ Within(count * (k - 1) + p, count) = p
    <3> HIDE DEF p
    <3> QED BY <2>1, <2>4, PlaceOf
  <2>6. f[k] \in Nat \ {0} /\ Block(f[k], count) = k /\ Within(f[k], count) = p
    <3> HIDE DEF p
    <3> QED BY <2>4, <2>5
  <2> QED BY <2>2, <2>3, <2>6
<1>4. ASSUME NEW x \in S
      PROVE  \E k \in 1 .. m : f[k] = x
  <2>1. x \in Nat \ {0} /\ x <= n /\ (x - 1) % count = index
    BY DEF PlacesOf
  <2>2. Within(x, count) = index + 1
    BY <2>1 DEF Within
  <2>3. Block(x, count) \in Nat \ {0} /\ x = count * (Block(x, count) - 1) + (index + 1)
    BY <2>1, <2>2, BlockOf
  <2>4. Block(x, count) <= m
    BY <1>1, <2>1, <2>3
  <2>5. Block(x, count) \in 1 .. m
    BY <1>2, <2>3, <2>4
  <2> QED BY <2>3, <2>5
<1>5. ASSUME NEW k \in 1 .. m PROVE f[k] \in S
  <2>1. f[k] \in 1 .. n /\ Within(f[k], count) = index + 1
    BY <1>3
  <2>2. (f[k] - 1) % count = index
    <3> DEFINE x == f[k]
    <3>1. x \in Nat \ {0} /\ Within(x, count) = index + 1
      BY <1>3
    <3> HIDE DEF x
    <3>2. x - 1 \in Nat
      BY <3>1
    <3>3. (x - 1) % count \in 0 .. count - 1
      BY <3>2, Division
    <3>4. ((x - 1) % count) + 1 = index + 1
      BY <3>1 DEF Within
    <3>5. (x - 1) % count = index
      BY <3>3, <3>4
    <3> QED BY <3>5 DEF x
  <2> HIDE DEF f
  <2> QED BY <2>1, <2>2 DEF PlacesOf
<1>6. ASSUME NEW k \in 1 .. m, NEW l \in 1 .. m, f[k] = f[l] PROVE k = l
  <2> HIDE DEF f
  <2> QED BY <1>3, <1>6
<1>7. f \in [1 .. m -> S]
  BY <1>5
<1>8. f \in Bijection(1 .. m, S)
  <2> HIDE DEF f
  <2> QED BY <1>4, <1>6, <1>7 DEF Bijection, Injection, Surjection, IsInjective
<1>9. ExistsBijection(1 .. m, S)
  <2> HIDE DEF f
  <2> QED BY <1>8 DEF ExistsBijection
<1>10. IsFiniteSet(1 .. m) /\ Cardinality(1 .. m) = m
  BY <1>2, FS_Interval
<1>11. Cardinality(S) = m
  <2> HIDE DEF S
  <2> QED BY <1>9, <1>10, FS_Bijection
<1> QED BY <1>1, <1>2, <1>11

\* The cases of the plan, dealt to the shards.
LEMMA MachinesShare ==
  ASSUME NEW n \in Nat, Cases = [x \in 1 .. n |-> Cases[x]], NEW count \in Nat \ {0}
  PROVE  LET shards == [i \in 0 .. count - 1 |-> Shard(i, count)]
         IN  /\ UNION {ToSet(shards[i]) : i \in 0 .. count - 1} = ToSet(Cases)
             /\ Total([i \in 0 .. count - 1 |-> Len(shards[i])]) = Len(Cases)
             /\ \A i, j \in 0 .. count - 1 : Len(shards[i]) <= Len(shards[j]) + 1
<1> DEFINE m == [i \in 0 .. count - 1 |-> Cardinality(PlacesOf(n, i, count))]
<1>1. DOMAIN Cases = 1 .. n /\ Len(Cases) = n
  <2> DEFINE c == Cases
  <2>1. c = [x \in 1 .. n |-> c[x]]
    OBVIOUS
  <2> HIDE DEF c
  <2>2. DOMAIN c = 1 .. n /\ Len(c) = n
    BY <2>1
  <2> QED BY <2>2 DEF c
<1>2. ASSUME NEW i \in 0 .. count - 1
      PROVE  /\ m[i] \in Nat
             /\ \A k \in Nat \ {0} : k <= m[i] <=> count * (k - 1) + (i + 1) <= n
             /\ Shard(i, count) = [j \in 1 .. m[i] |-> Cases[(j - 1) * count + i + 1]]
  <2>1. m[i] = Cardinality(PlacesOf(n, i, count))
    OBVIOUS
  <2>2. Shard(i, count) = [j \in 1 .. m[i] |-> Cases[(j - 1) * count + i + 1]]
    BY <1>1, <2>1 DEF Shard, PlacesOf
  <2> HIDE DEF m
  <2> QED BY <2>1, <2>2, ShardSize
<1>3. DOMAIN m = 0 .. count - 1
  OBVIOUS
<1> HIDE DEF m
<1>4. ASSUME NEW i \in 0 .. count - 1 PROVE Len(Shard(i, count)) = m[i]
  <2> DEFINE s == Shard(i, count)
  <2>1. s = [j \in 1 .. m[i] |-> Cases[(j - 1) * count + i + 1]] /\ m[i] \in Nat
    BY <1>2
  <2> HIDE DEF s
  <2>2. Len(s) = m[i]
    BY <2>1
  <2> QED BY <2>2 DEF s
<1>5. Total(m) = n /\ \A i, j \in 0 .. count - 1 : m[i] <= m[j] + 1
  <2>1. ASSUME NEW i \in DOMAIN m
        PROVE  m[i] \in Nat /\ \A k \in Nat \ {0} : k <= m[i] <=> count * (k - 1) + (i - 0 + 1) <= n
    <3>1. i - 0 + 1 = i + 1
      BY <1>3
    <3> QED BY <1>2, <1>3, <3>1
  <2>2. 0 .. count - 1 = 0 .. count - 1 + 0
    OBVIOUS
  <2> QED BY <1>3, <2>1, <2>2, Dealt
<1>6. m = [i \in 0 .. count - 1 |-> Len(Shard(i, count))]
  <2>1. \A i \in 0 .. count - 1 : Cardinality(PlacesOf(n, i, count)) = Len(Shard(i, count))
    BY <1>4 DEF m
  <2> QED BY <2>1 DEF m
<1>7. ASSUME NEW i \in 0 .. count - 1, NEW x \in ToSet(Shard(i, count)) PROVE x \in ToSet(Cases)
  <2>1. PICK j \in 1 .. m[i] : x = Cases[(j - 1) * count + i + 1]
    <3> DEFINE s == Shard(i, count)
    <3>1. s = [j \in 1 .. m[i] |-> Cases[(j - 1) * count + i + 1]]
      BY <1>2
    <3>2. PICK j \in DOMAIN s : x = s[j]
      BY DEF ToSet
    <3> HIDE DEF s
    <3> QED BY <3>1, <3>2
  <2>2. j \in Nat \ {0} /\ j <= m[i] /\ j - 1 \in Nat
    BY <1>2
  <2>3. count * (j - 1) + (i + 1) <= n /\ count * (j - 1) \in Nat
    BY <1>2, <2>2, TimesNat
  <2>4. (j - 1) * count + i + 1 = count * (j - 1) + (i + 1)
    BY <2>2
  <2>5. (j - 1) * count + i + 1 \in 1 .. n
    BY <2>3, <2>4
  <2> QED BY <1>1, <2>1, <2>5 DEF ToSet
<1>8. ASSUME NEW x \in ToSet(Cases) PROVE \E i \in 0 .. count - 1 : x \in ToSet(Shard(i, count))
  <2>1. PICK y \in 1 .. n : x = Cases[y]
    BY <1>1 DEF ToSet
  <2>2. y \in Nat \ {0}
    OBVIOUS
  <2> DEFINE j == Block(y, count)
             i == Within(y, count) - 1
  <2>3. /\ j \in Nat \ {0} /\ i \in 0 .. count - 1 /\ y = count * (j - 1) + (i + 1)
    <3>1. j \in Nat \ {0} /\ Within(y, count) \in 1 .. count /\ y = count * (j - 1) + Within(y, count)
      BY <2>2, BlockOf
    <3>2. i \in 0 .. count - 1 /\ i + 1 = Within(y, count)
      BY <3>1
    <3> QED BY <3>1, <3>2
  <2> HIDE DEF i, j
  <2>4. j <= m[i] /\ m[i] \in Nat
    BY <1>2, <2>3
  <2>5. j \in 1 .. m[i]
    BY <2>3, <2>4
  <2>6. (j - 1) * count + i + 1 = y
    BY <2>3
  <2>7. Shard(i, count)[j] = x /\ j \in DOMAIN Shard(i, count)
    BY <1>2, <2>1, <2>3, <2>5, <2>6
  <2> QED BY <2>3, <2>7 DEF ToSet
<1> DEFINE shards == [i \in 0 .. count - 1 |-> Shard(i, count)]
<1>9. \A i \in 0 .. count - 1 : shards[i] = Shard(i, count)
  OBVIOUS
<1> HIDE DEF shards
<1>10. UNION {ToSet(shards[i]) : i \in 0 .. count - 1} = ToSet(Cases)
  <2>1. \A i \in 0 .. count - 1 : ToSet(shards[i]) \subseteq ToSet(Cases)
    BY <1>7, <1>9
  <2>2. \A x \in ToSet(Cases) : \E i \in 0 .. count - 1 : x \in ToSet(shards[i])
    BY <1>8, <1>9
  <2> QED BY <2>1, <2>2
<1>11. Total([i \in 0 .. count - 1 |-> Len(shards[i])]) = Len(Cases)
  <2>1. [i \in 0 .. count - 1 |-> Len(shards[i])] = m
    BY <1>6, <1>9
  <2> QED BY <1>1, <1>5, <2>1
<1>12. \A i, j \in 0 .. count - 1 : Len(shards[i]) <= Len(shards[j]) + 1
  BY <1>4, <1>5, <1>9
<1> QED BY <1>10, <1>11, <1>12 DEF shards

LEMMA CardUpTo == \A n \in Nat : IsFiniteSet(1 .. n) /\ Cardinality(1 .. n) = n
<1> TAKE n \in Nat
<1>1. IsFiniteSet(1 .. n) /\ Cardinality(1 .. n) = IF 1 > n THEN 0 ELSE n - 1 + 1
  BY FS_Interval
<1> QED BY <1>1

----------------------------------------------------------------------------
(* The full factorial. *)

LevelsGiven == plan.levels \in [Axis -> Seq(Nat)]

Combination(S) == {r \in [S -> Nat] : \A a \in S : r[a] \in Level(a)}

\* A design over these factors: a sequence of combinations of their levels
\* that has every one of them, each once if no level is listed twice, and
\* with each level of a factor in the same number of rows for each listing.
Design(rows, S) ==
  /\ Len(rows) \in Nat /\ rows = [n \in 1 .. Len(rows) |-> rows[n]]
  /\ \A n \in 1 .. Len(rows) : rows[n] \in Combination(S)
  /\ \A r \in Combination(S) : \E n \in 1 .. Len(rows) : rows[n] = r
  /\ (\A a \in S : IsInjective(plan.levels[a])) =>
       \A x, y \in 1 .. Len(rows) : rows[x] = rows[y] => x = y
  /\ \A a \in S : \E c \in Nat : \A v \in Level(a) :
       Cardinality({n \in 1 .. Len(rows) : rows[n][a] = v}) = c * Listed(a, v)

LEMMA ListedNat ==
  ASSUME LevelsGiven, NEW a \in Axis, NEW v
  PROVE  /\ plan.levels[a] \in Seq(Nat) /\ Len(plan.levels[a]) \in Nat
         /\ DOMAIN plan.levels[a] = 1 .. Len(plan.levels[a])
         /\ \A j \in 1 .. Len(plan.levels[a]) : plan.levels[a][j] \in Level(a) /\ plan.levels[a][j] \in Nat
         /\ \A w \in Level(a) : w \in Nat /\ \E j \in 1 .. Len(plan.levels[a]) : plan.levels[a][j] = w
         /\ Listed(a, v) \in Nat
<1> DEFINE l == plan.levels[a]
<1>1. l \in Seq(Nat)
  BY DEF LevelsGiven
<1> HIDE DEF l
<1>2. Len(l) \in Nat /\ DOMAIN l = 1 .. Len(l) /\ \A j \in 1 .. Len(l) : l[j] \in Nat
  BY <1>1
<1>3. Level(a) = {l[j] : j \in DOMAIN l}
  BY DEF Level, ToSet, l
<1>4. Listed(a, v) = Cardinality({j \in DOMAIN l : l[j] = v})
  BY DEF Listed, l
<1>5. Listed(a, v) \in Nat
  <2> DEFINE J == {j \in DOMAIN l : l[j] = v}
  <2>1. J \in SUBSET (1 .. Len(l)) /\ IsFiniteSet(1 .. Len(l))
    BY <1>2, FS_Interval
  <2> HIDE DEF J
  <2>2. IsFiniteSet(J)
    BY <2>1, FS_Subset
  <2>3. Cardinality(J) \in Nat
    BY <2>2, FS_CardinalityType
  <2> QED BY <1>4, <2>3 DEF J
<1> QED BY <1>1, <1>2, <1>3, <1>5 DEF l

LEMMA ExtendedDesign ==
  ASSUME LevelsGiven, NEW S \in SUBSET Axis, NEW a \in Axis, a \notin S, NEW rows, Design(rows, S)
  PROVE  Design(Extended(rows, a), S \cup {a})
<1> DEFINE m == Len(rows)
           l == plan.levels[a]
           d == Len(l)
           new == Extended(rows, a)
           T == S \cup {a}
<1>1. m \in Nat /\ d \in Nat /\ m * d \in Nat /\ l \in Seq(Nat) /\ DOMAIN l = 1 .. d
  BY ListedNat, TimesNat DEF Design
<1>2. new = [n \in 1 .. m * d |->
               [x \in DOMAIN rows[Block(n, d)] \cup {a} |->
                  IF x = a THEN l[Within(n, d)] ELSE rows[Block(n, d)][x]]]
  BY DEF Extended
<1>3. \A n \in 1 .. m : rows[n] \in Combination(S) /\ DOMAIN rows[n] = S
  BY DEF Design, Combination
<1>4. \A n \in 1 .. m * d : Block(n, d) \in 1 .. m /\ Within(n, d) \in 1 .. d
  BY <1>1, Blocks
<1>5. \A w \in Level(a) : w \in Nat /\ \E j \in 1 .. d : l[j] = w
  BY ListedNat
<1>6. \A j \in 1 .. d : l[j] \in Level(a) /\ l[j] \in Nat
  BY ListedNat
<1>len. Len(new) = m * d
  <2> HIDE DEF l, m, d
  <2> DEFINE g(n) == [x \in DOMAIN rows[Block(n, d)] \cup {a} |->
                        IF x = a THEN l[Within(n, d)] ELSE rows[Block(n, d)][x]]
  <2>1. new = [n \in 1 .. m * d |-> g(n)]
    BY <1>2
  <2> HIDE DEF g, new
  <2>2. Len([n \in 1 .. m * d |-> g(n)]) = m * d
    BY <1>1
  <2> QED BY <2>1, <2>2
<1> HIDE DEF new
<1>7. /\ Len(new) = m * d /\ DOMAIN new = 1 .. m * d /\ new = [n \in 1 .. m * d |-> new[n]]
      /\ \A n \in 1 .. m * d :
           /\ DOMAIN new[n] = T /\ new[n][a] = l[Within(n, d)]
           /\ new[n] = [x \in T |-> new[n][x]]
           /\ \A x \in S : new[n][x] = rows[Block(n, d)][x]
  <2>1. DOMAIN new = 1 .. m * d /\ new = [n \in 1 .. m * d |-> new[n]]
    BY <1>2
  <2>2. ASSUME NEW n \in 1 .. m * d
        PROVE  /\ DOMAIN new[n] = T /\ new[n][a] = l[Within(n, d)]
               /\ new[n] = [x \in T |-> new[n][x]]
               /\ \A x \in S : new[n][x] = rows[Block(n, d)][x]
    <3>1. new[n] = [x \in T |-> IF x = a THEN l[Within(n, d)] ELSE rows[Block(n, d)][x]]
      BY <1>2, <1>3, <1>4
    <3> DEFINE t == new[n]
               w == l[Within(n, d)]
               row == rows[Block(n, d)]
    <3>2. t = [x \in T |-> IF x = a THEN w ELSE row[x]]
      BY <3>1
    <3> HIDE DEF t, w, row
    <3>3. DOMAIN t = T /\ t[a] = w /\ t = [x \in T |-> t[x]] /\ \A x \in S : t[x] = row[x]
      BY <3>2
    <3> QED BY <3>3 DEF t, w, row
  <2> QED BY <1>len, <2>1, <2>2
<1>8. ASSUME NEW n \in 1 .. m * d PROVE new[n] \in Combination(T)
  <2>1. \A x \in S : rows[Block(n, d)][x] \in Nat /\ rows[Block(n, d)][x] \in Level(x)
    <3> DEFINE row == rows[Block(n, d)]
    <3>1. row \in Combination(S)
      BY <1>3, <1>4
    <3> HIDE DEF row
    <3>2. \A x \in S : row[x] \in Nat /\ row[x] \in Level(x)
      BY ONLY <3>1 DEF Combination
    <3> QED BY <3>2 DEF row
  <2>2. \A x \in T : new[n][x] \in Nat /\ new[n][x] \in Level(x)
    BY <1>4, <1>6, <1>7, <2>1
  <2> QED BY <1>7, <2>2 DEF Combination
<1>9. ASSUME NEW r \in Combination(T) PROVE \E n \in 1 .. m * d : new[n] = r
  <2>1. r = [x \in T |-> r[x]] /\ \A x \in T : r[x] \in Nat /\ r[x] \in Level(x)
    BY DEF Combination
  <2> DEFINE s == [x \in S |-> r[x]]
  <2>2. s \in Combination(S)
    BY <2>1 DEF Combination
  <2>3. PICK q \in 1 .. m : rows[q] = s
    BY <2>2 DEF Design
  <2>4. PICK j \in 1 .. d : l[j] = r[a]
    BY <1>5, <2>1
  <2> DEFINE n == d * (q - 1) + j
  <2>5. n \in 1 .. m * d /\ Block(n, d) = q /\ Within(n, d) = j
    <3>1. d \in Nat \ {0} /\ q \in Nat \ {0}
      BY <1>1
    <3> HIDE DEF d, m
    <3> QED BY <1>1, <3>1, PlaceOf, Blocks
  <2> HIDE DEF n
  <2>6. \A x \in T : new[n][x] = r[x]
    BY <1>7, <2>3, <2>4, <2>5
  <2>7. new[n] = r
    <3>1. new[n] = [x \in T |-> new[n][x]]
      BY <1>7, <2>5
    <3> DEFINE t == new[n]
    <3> HIDE DEF t
    <3>2. t = [x \in T |-> t[x]] /\ \A x \in T : t[x] = r[x]
      BY <2>6, <3>1 DEF t
    <3>3. t = r
      BY <2>1, <3>2
    <3> QED BY <3>3 DEF t
  <2> QED BY <2>5, <2>7
<1>10. ASSUME \A x \in T : IsInjective(plan.levels[x]), NEW x \in 1 .. m * d, NEW y \in 1 .. m * d,
              new[x] = new[y]
       PROVE  x = y
  <2>1. Within(x, d) = Within(y, d)
    <3>1. l[Within(x, d)] = l[Within(y, d)]
      BY <1>7, <1>10
    <3> QED BY <1>1, <1>4, <1>10, <3>1 DEF IsInjective
  <2>2. Block(x, d) = Block(y, d)
    <3> DEFINE p == rows[Block(x, d)]
               q == rows[Block(y, d)]
    <3>1. ASSUME NEW z \in S PROVE p[z] = q[z]
      <4>1. new[x][z] = p[z]
        BY <1>7
      <4>2. new[y][z] = q[z]
        BY <1>7
      <4> QED BY <1>10, <4>1, <4>2
    <3>2. p \in [S -> Nat] /\ q \in [S -> Nat]
      BY <1>3, <1>4 DEF Combination
    <3>3. p = q
      <4> HIDE DEF p, q
      <4> QED BY <3>1, <3>2
    <3> QED BY <1>4, <1>10, <3>3 DEF Design
  <2>3. x = d * (Block(x, d) - 1) + Within(x, d) /\ y = d * (Block(y, d) - 1) + Within(y, d)
    <3>1. x \in Nat \ {0} /\ y \in Nat \ {0} /\ d \in Nat \ {0}
      BY <1>1, <1>4
    <3> HIDE DEF d
    <3> QED BY <3>1, BlockOf
  <2> QED BY <2>1, <2>2, <2>3
<1>11. ASSUME NEW b \in T
       PROVE  \E c \in Nat : \A v \in Level(b) :
                Cardinality({n \in 1 .. m * d : new[n][b] = v}) = c * Listed(b, v)
  <2>1. CASE b = a
    <3>1. ASSUME NEW v \in Level(a)
          PROVE  Cardinality({n \in 1 .. m * d : new[n][a] = v}) = m * Listed(a, v)
      <4> DEFINE A == 1 .. m
                 B == {j \in 1 .. d : l[j] = v}
      <4> DEFINE U == {n \in 1 .. m * d : new[n][a] = v}
      <4>1. InBlocks(U, m, d, A, B)
        BY <1>4, <1>7 DEF InBlocks
      <4>2. Cardinality(U) = Cardinality(A) * Cardinality(B)
        <5>1. m \in Nat /\ d \in Nat
          BY <1>1
        <5>2. A \in SUBSET (1 .. m) /\ B \in SUBSET (1 .. d) /\ InBlocks(U, m, d, A, B)
          BY <4>1
        <5> HIDE DEF A, B, m, d, U
        <5> QED BY ONLY <5>1, <5>2, CountBlocks
      <4>3. Cardinality(A) = m
        BY <1>1, CardUpTo
      <4>4. Cardinality(B) = Listed(a, v)
        BY <1>1 DEF Listed
      <4> QED BY <4>2, <4>3, <4>4
    <3> QED BY <1>1, <2>1, <3>1
  <2>2. CASE b \in S
    <3>1. PICK c \in Nat : \A v \in Level(b) :
            Cardinality({n \in 1 .. m : rows[n][b] = v}) = c * Listed(b, v)
      BY <2>2 DEF Design
    <3>2. ASSUME NEW v \in Level(b)
          PROVE  Cardinality({n \in 1 .. m * d : new[n][b] = v}) = (c * d) * Listed(b, v)
      <4> DEFINE A == {n \in 1 .. m : rows[n][b] = v}
                 B == 1 .. d
      <4> DEFINE U == {n \in 1 .. m * d : new[n][b] = v}
      <4>1. InBlocks(U, m, d, A, B)
        BY <1>4, <1>7, <2>2 DEF InBlocks
      <4>2. Cardinality(U) = Cardinality(A) * Cardinality(B)
        <5>1. m \in Nat /\ d \in Nat
          BY <1>1
        <5>2. A \in SUBSET (1 .. m) /\ B \in SUBSET (1 .. d) /\ InBlocks(U, m, d, A, B)
          BY <4>1
        <5> HIDE DEF A, B, m, d, U
        <5> QED BY ONLY <5>1, <5>2, CountBlocks
      <4>3. Cardinality(B) = d
        BY <1>1, CardUpTo
      <4>4. Cardinality(A) = c * Listed(b, v)
        BY <3>1
      <4>5. (c * Listed(b, v)) * d = (c * d) * Listed(b, v)
        <5> DEFINE k == Listed(b, v)
        <5> k \in Nat
          BY <2>2, ListedNat
        <5> HIDE DEF k, d
        <5> d \in Nat
          BY <1>1
        <5>1. (c * k) * d = (c * d) * k
          OBVIOUS
        <5> QED BY <5>1 DEF k
      <4> QED BY <4>2, <4>3, <4>4, <4>5
    <3>3. c * d \in Nat
      BY <1>1, TimesNat
    <3> QED BY <3>2, <3>3
  <2> QED BY <2>1, <2>2
<1> HIDE DEF T, m, d
<1>12. Len(new) = m * d /\ m * d \in Nat
  BY <1>1, <1>7
<1>13. new = [n \in 1 .. Len(new) |-> new[n]]
  BY <1>7
<1>14. \A n \in 1 .. Len(new) : new[n] \in Combination(T)
  BY <1>8, <1>12
<1>15. \A r \in Combination(T) : \E n \in 1 .. Len(new) : new[n] = r
  BY <1>9, <1>12
<1>16. (\A x \in T : IsInjective(plan.levels[x])) =>
         \A x, y \in 1 .. Len(new) : new[x] = new[y] => x = y
  BY <1>10, <1>12
<1>17. \A b \in T : \E c \in Nat : \A v \in Level(b) :
         Cardinality({n \in 1 .. Len(new) : new[n][b] = v}) = c * Listed(b, v)
  BY <1>11, <1>12
<1>18. Design(new, T)
  BY <1>12, <1>13, <1>14, <1>15, <1>16, <1>17 DEF Design
<1> QED BY <1>18 DEF new, T

LEMMA AxesFacts ==
  /\ Len(Axes) = 6
  /\ Axis = {"devices", "events", "block_size", "authority_threshold",
             "packet_loss_percent", "outage_seconds"}
  /\ Axes[1] = "devices" /\ Axes[2] = "events" /\ Axes[3] = "block_size"
  /\ Axes[4] = "authority_threshold" /\ Axes[5] = "packet_loss_percent"
  /\ Axes[6] = "outage_seconds"
<1>1. Len(Axes) = 6 /\ DOMAIN Axes = 1 .. 6
  BY DEF Axes
<1>2. /\ Axes[1] = "devices" /\ Axes[2] = "events" /\ Axes[3] = "block_size"
      /\ Axes[4] = "authority_threshold" /\ Axes[5] = "packet_loss_percent"
      /\ Axes[6] = "outage_seconds"
  BY DEF Axes
<1>3. 1 .. 6 = {1, 2, 3, 4, 5, 6}
  OBVIOUS
<1>4. Axis = {Axes[i] : i \in {1, 2, 3, 4, 5, 6}}
  BY <1>1, <1>3 DEF Axis, ToSet
<1> QED BY <1>1, <1>2, <1>4

NoFactor == << [x \in {} |-> 0] >>

LEMMA EmptyDesign == Design(NoFactor, {})
<1> DEFINE e == [x \in {} |-> 0]
<1>1. Len(NoFactor) = 1 /\ NoFactor[1] = e /\ NoFactor = [n \in 1 .. 1 |-> NoFactor[n]]
  BY DEF NoFactor
<1>2. \A n \in 1 .. 1 : n = 1
  OBVIOUS
<1>3. \A r \in [{} -> Nat] : r = e
  OBVIOUS
<1>4. e \in [{} -> Nat]
  OBVIOUS
<1>5. Combination({}) = [{} -> Nat]
  BY DEF Combination
<1> HIDE DEF e
<1>6. \A n \in 1 .. Len(NoFactor) : NoFactor[n] \in Combination({})
  BY <1>1, <1>2, <1>4, <1>5
<1>7. \A r \in Combination({}) : \E n \in 1 .. Len(NoFactor) : NoFactor[n] = r
  <2>1. 1 \in 1 .. 1
    OBVIOUS
  <2> QED BY <1>1, <1>3, <1>5, <2>1
<1>8. \A x, y \in 1 .. Len(NoFactor) : NoFactor[x] = NoFactor[y] => x = y
  BY <1>1, <1>2
<1>9. Len(NoFactor) \in Nat /\ NoFactor = [n \in 1 .. Len(NoFactor) |-> NoFactor[n]]
  BY <1>1
<1> QED BY <1>6, <1>7, <1>8, <1>9 DEF Design

\* What the product is, factor by factor.
LEMMA ProductSteps ==
  \E r0, r1, r2, r3, r4, r5 :
    /\ r0 = NoFactor
    /\ r1 = Extended(r0, Axes[1]) /\ r2 = Extended(r1, Axes[2]) /\ r3 = Extended(r2, Axes[3])
    /\ r4 = Extended(r3, Axes[4]) /\ r5 = Extended(r4, Axes[5])
    /\ Product = Extended(r5, Axes[6])
<1> DEFINE r0 == NoFactor
           r1 == Extended(r0, Axes[1])
           r2 == Extended(r1, Axes[2])
           r3 == Extended(r2, Axes[3])
           r4 == Extended(r3, Axes[4])
           r5 == Extended(r4, Axes[5])
           r6 == Extended(r5, Axes[6])
           Rec(f) == f = [k \in 0 .. Len(Axes) |->
                            IF k = 0 THEN << [x \in {} |-> 0] >> ELSE Extended(f[k - 1], Axes[k])]
           g == [k \in 0 .. 6 |-> IF k = 0 THEN r0 ELSE IF k = 1 THEN r1 ELSE IF k = 2 THEN r2
                                  ELSE IF k = 3 THEN r3 ELSE IF k = 4 THEN r4 ELSE IF k = 5 THEN r5
                                  ELSE r6]
           rows == CHOOSE f : Rec(f)
<1>1. 0 .. Len(Axes) = 0 .. 6
  BY AxesFacts
<1>2. g[0] = r0 /\ g[1] = r1 /\ g[2] = r2 /\ g[3] = r3 /\ g[4] = r4 /\ g[5] = r5 /\ g[6] = r6
  <2> HIDE DEF r0, r1, r2, r3, r4, r5, r6
  <2> QED OBVIOUS
<1>3. DOMAIN g = 0 .. 6 /\ g = [k \in 0 .. 6 |-> g[k]]
  <2> HIDE DEF r0, r1, r2, r3, r4, r5, r6
  <2> QED OBVIOUS
<1>4. ASSUME NEW k \in 0 .. 6
      PROVE  g[k] = IF k = 0 THEN << [x \in {} |-> 0] >> ELSE Extended(g[k - 1], Axes[k])
  <2>1. \/ k = 0
        \/ k = 1 /\ k - 1 = 0
        \/ k = 2 /\ k - 1 = 1
        \/ k = 3 /\ k - 1 = 2
        \/ k = 4 /\ k - 1 = 3
        \/ k = 5 /\ k - 1 = 4
        \/ k = 6 /\ k - 1 = 5
    <3>1. k = 0 \/ k = 1 \/ k = 2 \/ k = 3 \/ k = 4 \/ k = 5 \/ k = 6
      OBVIOUS
    <3> QED BY <3>1
  <2>2. r0 = << [x \in {} |-> 0] >>
    BY DEF NoFactor
  <2>3. /\ r1 = Extended(r0, Axes[1]) /\ r2 = Extended(r1, Axes[2]) /\ r3 = Extended(r2, Axes[3])
        /\ r4 = Extended(r3, Axes[4]) /\ r5 = Extended(r4, Axes[5]) /\ r6 = Extended(r5, Axes[6])
    OBVIOUS
  <2> HIDE DEF g, r0, r1, r2, r3, r4, r5, r6
  <2>4. k # 0 => g[k] = Extended(g[k - 1], Axes[k])
    <3> HIDE DEF g
    <3>1. CASE k = 1 /\ k - 1 = 0 BY <1>2, <2>3, <3>1
    <3>2. CASE k = 2 /\ k - 1 = 1 BY <1>2, <2>3, <3>2
    <3>3. CASE k = 3 /\ k - 1 = 2 BY <1>2, <2>3, <3>3
    <3>4. CASE k = 4 /\ k - 1 = 3 BY <1>2, <2>3, <3>4
    <3>5. CASE k = 5 /\ k - 1 = 4 BY <1>2, <2>3, <3>5
    <3>6. CASE k = 6 /\ k - 1 = 5 BY <1>2, <2>3, <3>6
    <3> QED BY <2>1, <3>1, <3>2, <3>3, <3>4, <3>5, <3>6
  <2>5. g[0] = << [x \in {} |-> 0] >>
    BY <1>2, <2>2
  <2> QED BY <2>4, <2>5
<1>5. Rec(g)
  <2> HIDE DEF g
  <2>1. g = [k \in 0 .. 6 |->
               IF k = 0 THEN << [x \in {} |-> 0] >> ELSE Extended(g[k - 1], Axes[k])]
    BY <1>3, <1>4
  <2> QED BY <1>1, <2>1
<1>6. Rec(rows)
  <2> HIDE DEF Rec, g
  <2> QED BY <1>5
<1>7. Product = rows[6]
  BY AxesFacts DEF Product
<1> HIDE DEF rows, g, r0, r1, r2, r3, r4, r5, r6
<1>8. \A k \in 0 .. 6 :
        rows[k] = IF k = 0 THEN << [x \in {} |-> 0] >> ELSE Extended(rows[k - 1], Axes[k])
  BY <1>1, <1>6
<1>9. rows[0] = NoFactor
  BY <1>8 DEF NoFactor
<1>10. /\ rows[1] = Extended(rows[0], Axes[1]) /\ rows[2] = Extended(rows[1], Axes[2])
       /\ rows[3] = Extended(rows[2], Axes[3]) /\ rows[4] = Extended(rows[3], Axes[4])
       /\ rows[5] = Extended(rows[4], Axes[5]) /\ rows[6] = Extended(rows[5], Axes[6])
  <2>1. \A k \in 1 .. 6 : rows[k] = Extended(rows[k - 1], Axes[k])
    BY <1>8
  <2>2. 1 - 1 = 0 /\ 2 - 1 = 1 /\ 3 - 1 = 2 /\ 4 - 1 = 3 /\ 5 - 1 = 4 /\ 6 - 1 = 5
    OBVIOUS
  <2>3. 1 \in 1 .. 6 /\ 2 \in 1 .. 6 /\ 3 \in 1 .. 6 /\ 4 \in 1 .. 6 /\ 5 \in 1 .. 6 /\ 6 \in 1 .. 6
    OBVIOUS
  <2> QED BY <2>1, <2>2, <2>3
<1> QED BY <1>7, <1>9, <1>10

LEMMA ProductDesign ==
  ASSUME LevelsGiven PROVE Design(Product, Axis)
<1>1. PICK r0, r1, r2, r3, r4, r5 :
        /\ r0 = NoFactor
        /\ r1 = Extended(r0, Axes[1]) /\ r2 = Extended(r1, Axes[2]) /\ r3 = Extended(r2, Axes[3])
        /\ r4 = Extended(r3, Axes[4]) /\ r5 = Extended(r4, Axes[5])
        /\ Product = Extended(r5, Axes[6])
  BY ProductSteps
<1> DEFINE s1 == {} \cup {"devices"}
           s2 == s1 \cup {"events"}
           s3 == s2 \cup {"block_size"}
           s4 == s3 \cup {"authority_threshold"}
           s5 == s4 \cup {"packet_loss_percent"}
           s6 == s5 \cup {"outage_seconds"}
<1>2. /\ {} \subseteq Axis /\ "devices" \in Axis \ {}
      /\ s1 \subseteq Axis /\ "events" \in Axis \ s1
      /\ s2 \subseteq Axis /\ "block_size" \in Axis \ s2
      /\ s3 \subseteq Axis /\ "authority_threshold" \in Axis \ s3
      /\ s4 \subseteq Axis /\ "packet_loss_percent" \in Axis \ s4
      /\ s5 \subseteq Axis /\ "outage_seconds" \in Axis \ s5
      /\ s6 = Axis
  BY AxesFacts
<1> HIDE DEF s1, s2, s3, s4, s5, s6
<1>3. Design(r1, s1)
  BY <1>1, <1>2, AxesFacts, EmptyDesign, ExtendedDesign DEF s1
<1>4. Design(r2, s2)
  BY <1>1, <1>2, <1>3, AxesFacts, ExtendedDesign DEF s2
<1>5. Design(r3, s3)
  BY <1>1, <1>2, <1>4, AxesFacts, ExtendedDesign DEF s3
<1>6. Design(r4, s4)
  BY <1>1, <1>2, <1>5, AxesFacts, ExtendedDesign DEF s4
<1>7. Design(r5, s5)
  BY <1>1, <1>2, <1>6, AxesFacts, ExtendedDesign DEF s5
<1>8. Design(Product, s6)
  BY <1>1, <1>2, <1>7, AxesFacts, ExtendedDesign DEF s6
<1> QED BY <1>2, <1>8

----------------------------------------------------------------------------
(* The order of the rows: each is at the place its rank gives. *)

LEMMA SortKeyFacts ==
  /\ DOMAIN SortKey = 1 .. 6
  /\ SortKey[1] = "outage_seconds" /\ SortKey[2] = "events" /\ SortKey[3] = "devices"
  /\ SortKey[4] = "block_size" /\ SortKey[5] = "packet_loss_percent"
  /\ SortKey[6] = "authority_threshold"
  /\ \A i \in 1 .. 6 : SortKey[i] \in Axis
  /\ \A a \in Axis : \E i \in 1 .. 6 : SortKey[i] = a
<1>1. /\ DOMAIN SortKey = 1 .. 6
      /\ SortKey[1] = "outage_seconds" /\ SortKey[2] = "events" /\ SortKey[3] = "devices"
      /\ SortKey[4] = "block_size" /\ SortKey[5] = "packet_loss_percent"
      /\ SortKey[6] = "authority_threshold"
  BY DEF SortKey
<1>2. ASSUME NEW i \in 1 .. 6 PROVE SortKey[i] \in Axis
  <2>1. i = 1 \/ i = 2 \/ i = 3 \/ i = 4 \/ i = 5 \/ i = 6
    OBVIOUS
  <2> QED BY <1>1, <2>1, AxesFacts
<1>3. ASSUME NEW a \in Axis PROVE \E i \in 1 .. 6 : SortKey[i] = a
  <2>1. /\ 1 \in 1 .. 6 /\ 2 \in 1 .. 6 /\ 3 \in 1 .. 6
        /\ 4 \in 1 .. 6 /\ 5 \in 1 .. 6 /\ 6 \in 1 .. 6
    OBVIOUS
  <2> QED BY <1>1, <2>1, AxesFacts
<1> QED BY <1>1, <1>2, <1>3

Agree(x, y, n) == \A j \in 1 .. n - 1 : x[SortKey[j]] = y[SortKey[j]]

LEMMA BeforeAt ==
  ASSUME NEW x, NEW y
  PROVE  Before(x, y) <=>
           \E i \in 1 .. 6 : x[SortKey[i]] < y[SortKey[i]] /\ Agree(x, y, i)
  BY SortKeyFacts DEF Before, Agree

\* A strict order in which of two different rows one comes first.
LEMMA BeforeOrders ==
  ASSUME NEW x \in [Axis -> Nat], NEW y \in [Axis -> Nat]
  PROVE  /\ ~ Before(x, x)
         /\ x # y => Before(x, y) \/ Before(y, x)
         /\ \A z \in [Axis -> Nat] : Before(x, y) /\ Before(y, z) => Before(x, z)
<1>1. \A i \in 1 .. 6 : x[SortKey[i]] \in Nat /\ y[SortKey[i]] \in Nat
  BY SortKeyFacts
<1>2. ~ Before(x, x)
  BY <1>1, BeforeAt
<1>3. ASSUME x # y PROVE Before(x, y) \/ Before(y, x)
  <2> DEFINE D == {i \in 1 .. 6 : x[SortKey[i]] # y[SortKey[i]]}
  <2>1. \E i \in 1 .. 6 : i \in D
    <3>1. PICK a \in Axis : x[a] # y[a]
      BY <1>3
    <3> QED BY <3>1, SortKeyFacts
  <2>2. PICK i \in D : \A j \in D : i <= j
    <3>1. \/ 1 \in D
          \/ 1 \notin D /\ 2 \in D
          \/ 1 \notin D /\ 2 \notin D /\ 3 \in D
          \/ 1 \notin D /\ 2 \notin D /\ 3 \notin D /\ 4 \in D
          \/ 1 \notin D /\ 2 \notin D /\ 3 \notin D /\ 4 \notin D /\ 5 \in D
          \/ 1 \notin D /\ 2 \notin D /\ 3 \notin D /\ 4 \notin D /\ 5 \notin D /\ 6 \in D
      <4> HIDE DEF D
      <4>1. PICK i \in 1 .. 6 : i \in D
        BY <2>1
      <4>2. i = 1 \/ i = 2 \/ i = 3 \/ i = 4 \/ i = 5 \/ i = 6
        OBVIOUS
      <4> QED BY <4>1, <4>2
    <3>2. \A j \in D : j = 1 \/ j = 2 \/ j = 3 \/ j = 4 \/ j = 5 \/ j = 6
      OBVIOUS
    <3> HIDE DEF D
    <3> QED BY <3>1, <3>2
  <2>3. i \in 1 .. 6 /\ x[SortKey[i]] # y[SortKey[i]]
    OBVIOUS
  <2>4. \A j \in 1 .. i - 1 : x[SortKey[j]] = y[SortKey[j]]
    <3> TAKE j \in 1 .. i - 1
    <3>1. j \in 1 .. 6 /\ ~ i <= j
      BY <2>3
    <3> QED BY <2>2, <3>1
  <2>5. Agree(x, y, i) /\ Agree(y, x, i)
    BY <2>4 DEF Agree
  <2>6. x[SortKey[i]] < y[SortKey[i]] \/ y[SortKey[i]] < x[SortKey[i]]
    BY <1>1, <2>3
  <2> QED BY <2>3, <2>5, <2>6, BeforeAt
<1>4. ASSUME NEW z \in [Axis -> Nat], Before(x, y), Before(y, z) PROVE Before(x, z)
  <2>1. \A i \in 1 .. 6 : z[SortKey[i]] \in Nat
    BY SortKeyFacts
  <2>2. PICK i \in 1 .. 6 : x[SortKey[i]] < y[SortKey[i]] /\ Agree(x, y, i)
    BY <1>4, BeforeAt
  <2>3. PICK j \in 1 .. 6 : y[SortKey[j]] < z[SortKey[j]] /\ Agree(y, z, j)
    BY <1>4, BeforeAt
  <2>4. CASE i <= j
    <3>1. y[SortKey[i]] <= z[SortKey[i]]
      <4>1. CASE i = j
        BY <1>1, <2>1, <2>3, <4>1
      <4>2. CASE i < j
        <5>1. i \in 1 .. j - 1
          BY <4>2
        <5>2. y[SortKey[i]] = z[SortKey[i]]
          BY <2>3, <5>1 DEF Agree
        <5> QED BY <1>1, <2>1, <5>2
      <4> QED BY <2>4, <4>1, <4>2
    <3>2. Agree(x, z, i)
      <4>1. \A k \in 1 .. i - 1 : k \in 1 .. j - 1
        BY <2>4
      <4> QED BY <2>2, <2>3, <4>1 DEF Agree
    <3>3. x[SortKey[i]] < z[SortKey[i]]
      BY <1>1, <2>1, <2>2, <3>1
    <3> QED BY <3>2, <3>3, BeforeAt
  <2>5. CASE j < i
    <3>1. x[SortKey[j]] = y[SortKey[j]]
      <4>1. j \in 1 .. i - 1
        BY <2>5
      <4> QED BY <2>2, <4>1 DEF Agree
    <3>2. Agree(x, z, j)
      <4>1. \A k \in 1 .. j - 1 : k \in 1 .. i - 1
        BY <2>5
      <4> QED BY <2>2, <2>3, <4>1 DEF Agree
    <3>3. x[SortKey[j]] < z[SortKey[j]]
      BY <2>3, <3>1
    <3> QED BY <3>2, <3>3, BeforeAt
  <2> QED BY <2>4, <2>5
<1> QED BY <1>2, <1>3, <1>4

LEMMA SortedOnce ==
  ASSUME NEW S \in SUBSET [Axis -> Nat], IsFiniteSet(S)
  PROVE  /\ Cardinality(S) \in Nat /\ Len(Sorted(S)) = Cardinality(S)
         /\ Sorted(S) \in Bijection(1 .. Cardinality(S), S)
<1> DEFINE N == Cardinality(S)
           below(x) == {y \in S : Before(y, x)}
           rank == [x \in S |-> Cardinality(below(x))]
           s == Sorted(S)
<1>1. N \in Nat
  BY FS_CardinalityType
<1>2. ASSUME NEW x \in S
      PROVE  below(x) \in SUBSET S /\ IsFiniteSet(below(x)) /\ x \notin below(x)
  <2>1. below(x) \in SUBSET S /\ IsFiniteSet(below(x))
    BY FS_Subset
  <2>2. ~ Before(x, x)
    BY BeforeOrders
  <2> QED BY <2>1, <2>2
<1>3. ASSUME NEW x \in S PROVE rank[x] \in 0 .. N - 1
  <2> DEFINE B == below(x)
  <2>1. B \in SUBSET S /\ IsFiniteSet(B) /\ B # S /\ rank[x] = Cardinality(B)
    BY <1>2
  <2> HIDE DEF B, rank
  <2>2. Cardinality(B) \in Nat /\ Cardinality(B) <= N /\ Cardinality(B) # N
    BY <2>1, FS_Subset, FS_CardinalityType
  <2> HIDE DEF N
  <2>3. rank[x] <= N - 1 /\ rank[x] \in Nat
    BY <1>1, <2>1, <2>2
  <2> QED BY <1>1, <2>3
<1>4. ASSUME NEW x \in S, NEW y \in S, Before(x, y) PROVE rank[x] < rank[y]
  <2> DEFINE A == below(x)
             B == below(y)
  <2>1. A \in SUBSET B
    <3> SUFFICES ASSUME NEW z \in A PROVE z \in B
      OBVIOUS
    <3>1. z \in S /\ Before(z, x)
      OBVIOUS
    <3>2. Before(z, y)
      BY <1>4, <3>1, BeforeOrders
    <3> QED BY <3>1, <3>2
  <2>2. x \in B /\ x \notin A
    BY <1>2, <1>4
  <2>3. IsFiniteSet(B) /\ IsFiniteSet(A)
    BY <1>2
  <2>4. rank[x] = Cardinality(A) /\ rank[y] = Cardinality(B)
    OBVIOUS
  <2> HIDE DEF A, B, rank
  <2>5. Cardinality(A) \in Nat /\ Cardinality(B) \in Nat
    BY <2>3, FS_CardinalityType
  <2>6. Cardinality(A) <= Cardinality(B) /\ Cardinality(A) # Cardinality(B)
    BY <2>1, <2>2, <2>3, FS_Subset
  <2> QED BY <2>4, <2>5, <2>6
<1>5. ASSUME NEW x \in S, NEW y \in S, rank[x] = rank[y] PROVE x = y
  <2>1. rank[x] \in Nat /\ rank[y] \in Nat
    BY <1>1, <1>3
  <2>2. ~ Before(x, y) /\ ~ Before(y, x)
    <3> HIDE DEF rank
    <3> QED BY <1>4, <1>5, <2>1
  <2> QED BY <2>2, BeforeOrders
<1>6. \A k \in 0 .. N - 1 : \E x \in S : rank[x] = k
  <2>1. rank \in Injection(S, 0 .. N - 1)
    <3>1. rank \in [S -> 0 .. N - 1]
      <4>1. rank = [x \in S |-> rank[x]]
        OBVIOUS
      <4> HIDE DEF rank, N
      <4> QED BY <1>3, <4>1
    <3> HIDE DEF rank
    <3> QED BY <1>5, <3>1 DEF Injection, IsInjective
  <2>2. IsFiniteSet(0 .. N - 1) /\ Cardinality(0 .. N - 1) = N
    <3> HIDE DEF N
    <3>1. 0 \in Int /\ N - 1 \in Int
      BY <1>1
    <3>2. /\ IsFiniteSet(0 .. N - 1)
          /\ Cardinality(0 .. N - 1) = IF 0 > N - 1 THEN 0 ELSE (N - 1) - 0 + 1
      BY <3>1, FS_Interval
    <3> QED BY <1>1, <3>2
  <2>3. rank \in Surjection(S, 0 .. N - 1)
    <3> HIDE DEF rank
    <3> QED BY <2>1, <2>2, FS_Injection
  <2> HIDE DEF rank
  <2> QED BY <2>3 DEF Surjection
<1>7. s = [n \in 1 .. N |-> CHOOSE x \in S : Cardinality(below(x)) = n - 1]
  BY DEF Sorted
<1>8. ASSUME NEW n \in 1 .. N PROVE s[n] \in S /\ rank[s[n]] = n - 1
  <2>1. n - 1 \in 0 .. N - 1
    BY <1>1
  <2>2. \E x \in S : Cardinality(below(x)) = n - 1
    BY <1>6, <2>1
  <2>3. s[n] = CHOOSE x \in S : Cardinality(below(x)) = n - 1
    BY <1>7
  <2>4. s[n] \in S /\ Cardinality(below(s[n])) = n - 1
    <3> HIDE DEF below, s
    <3> QED BY <2>2, <2>3
  <2> HIDE DEF s
  <2> QED BY <2>4
<1>9. DOMAIN s = 1 .. N /\ s = [n \in 1 .. N |-> s[n]] /\ Len(s) = N
  <2>1. DOMAIN s = 1 .. N /\ s = [n \in 1 .. N |-> s[n]]
    BY <1>7
  <2> HIDE DEF s, N
  <2>2. Len([n \in 1 .. N |-> s[n]]) = N
    BY <1>1
  <2> QED BY <2>1, <2>2
<1> HIDE DEF s, N, rank
<1>10. \A x, y \in 1 .. N : s[x] = s[y] => x = y
  <2> TAKE x \in 1 .. N, y \in 1 .. N
  <2> HAVE s[x] = s[y]
  <2>1. x - 1 = y - 1
    BY <1>8
  <2> QED BY <1>1, <2>1
<1>11. \A r \in S : \E n \in 1 .. N : s[n] = r
  <2> TAKE r \in S
  <2> DEFINE n == rank[r] + 1
  <2>1. n \in 1 .. N /\ n - 1 = rank[r]
    BY <1>1, <1>3
  <2> HIDE DEF n
  <2>2. s[n] \in S /\ rank[s[n]] = rank[r]
    BY <1>8, <2>1
  <2> QED BY <1>5, <2>1, <2>2
<1>12. s \in [1 .. N -> S]
  BY <1>8, <1>9
<1>13. s \in Bijection(1 .. N, S)
  BY <1>9, <1>10, <1>11, <1>12 DEF Bijection, Injection, Surjection, IsInjective
<1> QED BY <1>1, <1>9, <1>13 DEF s, N

----------------------------------------------------------------------------
(* The search for a balanced design *)

\* As many rows as asked for, all different, with each level of a factor in
\* the same number of them for each listing.
Balanced(S) ==
  /\ S \in SUBSET Combination(Axis) /\ IsFiniteSet(S) /\ Cardinality(S) = plan.samples
  /\ \A a \in Axis : \E c \in Nat : \A v \in Level(a) :
       Cardinality({row \in S : row[a] = v}) = c * Listed(a, v)

\* In a bijection as many have a mark as their images.
Marks(f, A, P, Q) == \A x \in A : x \in P <=> f[x] \in Q

LEMMA SameCount ==
  ASSUME NEW A, NEW S, IsFiniteSet(A), NEW f \in Bijection(A, S),
         NEW P \in SUBSET A, NEW Q \in SUBSET S, Marks(f, A, P, Q)
  PROVE  Cardinality(P) = Cardinality(Q)
<1> DEFINE g == [x \in P |-> f[x]]
<1>1. f \in [A -> S] /\ (\A x, y \in A : f[x] = f[y] => x = y) /\ \A s \in S : \E x \in A : f[x] = s
  BY DEF Bijection, Injection, Surjection, IsInjective
<1>2. g \in [P -> Q]
  BY <1>1 DEF Marks
<1>3. \A x, y \in P : g[x] = g[y] => x = y
  BY <1>1
<1>4. \A s \in Q : \E x \in P : g[x] = s
  BY <1>1 DEF Marks
<1> HIDE DEF g
<1>5. g \in Bijection(P, Q)
  BY <1>2, <1>3, <1>4 DEF Bijection, Injection, Surjection, IsInjective
<1>6. IsFiniteSet(P)
  BY FS_Subset
<1> QED BY <1>5, <1>6, FS_Bijection DEF ExistsBijection

\* The rows made of these columns, and the set of them.
MadeOf(f, g) ==
  /\ f \in [1 .. plan.samples -> [Axis -> Nat]]
  /\ \A a \in Axis : g[a] \in Column(a)
  /\ \A i \in 1 .. plan.samples : \A a \in Axis : f[i][a] = g[a][i]

RowsOf(f) == {f[i] : i \in 1 .. plan.samples}

LEMMA ColumnsBalance ==
  ASSUME LevelsGiven, plan.samples \in Nat, \A a \in Axis : plan.levels[a] # << >>,
         NEW f, NEW g, MadeOf(f, g), Unique(RowsOf(f))
  PROVE  Balanced(RowsOf(f))
<1> DEFINE N == plan.samples
           rows == RowsOf(f)
<1>f. /\ f \in [1 .. N -> [Axis -> Nat]]
      /\ \A a \in Axis : g[a] \in Column(a)
      /\ \A i \in 1 .. N : \A a \in Axis : f[i][a] = g[a][i]
  BY DEF MadeOf
<1>r. rows = {f[i] : i \in 1 .. N} /\ Cardinality(rows) = N
  BY DEF RowsOf, Unique
<1> HIDE DEF rows
<1>1. IsFiniteSet(1 .. N) /\ Cardinality(1 .. N) = N
  BY CardUpTo
<1>2. f \in Surjection(1 .. N, rows)
  <2>1. f \in [1 .. N -> rows]
    BY <1>f, <1>r
  <2> QED BY <1>r, <2>1 DEF Surjection
<1>3. f \in Bijection(1 .. N, rows) /\ IsFiniteSet(rows)
  BY <1>1, <1>2, <1>r, FS_Surjection DEF Bijection
<1>4. \A i \in 1 .. N : f[i] \in Combination(Axis)
  <2> TAKE i \in 1 .. N
  <2>1. \A a \in Axis : g[a][i] \in Level(a)
    BY <1>f DEF Column
  <2> QED BY <1>f, <2>1 DEF Combination
<1>5. ASSUME NEW a \in Axis
      PROVE  \E c \in Nat : \A v \in Level(a) :
               Cardinality({row \in rows : row[a] = v}) = c * Listed(a, v)
  <2> DEFINE c == N \div Len(plan.levels[a])
             l == Len(plan.levels[a])
  <2>1. l \in Nat \ {0}
    <3> DEFINE s == plan.levels[a]
    <3>1. s \in Seq(Nat) /\ s # << >>
      BY DEF LevelsGiven
    <3> HIDE DEF s
    <3>2. Len(s) \in Nat \ {0}
      BY <3>1
    <3> QED BY <3>2 DEF s
  <2>2. N \div l \in Nat
    <3> HIDE DEF l, N
    <3> N \in Nat BY DEF N
    <3> QED BY <2>1, Division
  <2>3. ASSUME NEW v \in Level(a)
        PROVE  Cardinality({row \in rows : row[a] = v}) = c * Listed(a, v)
    <3> DEFINE P == {i \in 1 .. N : g[a][i] = v}
               Q == {row \in rows : row[a] = v}
    <3>1. Marks(f, 1 .. N, P, Q)
      BY <1>f, <1>r DEF Marks
    <3>2. P \in SUBSET (1 .. N) /\ Q \in SUBSET rows
      OBVIOUS
    <3>3. Cardinality(P) = c * Listed(a, v)
      BY <1>f DEF Column
    <3> HIDE DEF P, Q
    <3>4. Cardinality(P) = Cardinality(Q)
      <4> DEFINE A == 1 .. N
      <4>1. IsFiniteSet(A) /\ f \in Bijection(A, rows) /\ P \in SUBSET A /\ Q \in SUBSET rows /\ Marks(f, A, P, Q)
        BY <1>1, <1>3, <3>1, <3>2
      <4> HIDE DEF A
      <4> QED BY ONLY <4>1, SameCount
    <3> QED BY <3>3, <3>4 DEF Q
  <2> QED BY <2>2, <2>3
<1>6. rows \in SUBSET Combination(Axis)
  BY <1>4, <1>r
<1>7. Balanced(rows)
  BY <1>3, <1>5, <1>6, <1>r DEF Balanced
<1> QED BY <1>7 DEF rows

\* What an attempt has found and keeps is balanced, whatever the shuffles.
LEMMA AttemptBalances ==
  ASSUME LevelsGiven, plan.samples \in Nat, \A a \in Axis : plan.levels[a] # << >>, Attempt
  PROVE  \/ best_rows' = best_rows /\ phase' = phase
         \/ Balanced(best_rows') /\ phase' \in {"ready", "search"}
<1> DEFINE N == plan.samples
           Row(d, e, b, q, l, o, i) ==
             [devices |-> d[i], events |-> e[i], block_size |-> b[i],
              authority_threshold |-> q[i], packet_loss_percent |-> l[i], outage_seconds |-> o[i]]
<1>1. PICK d \in Column("devices"), e \in Column("events"), b \in Column("block_size"),
           q \in Column("authority_threshold"), l \in Column("packet_loss_percent"),
           o \in Column("outage_seconds") :
        LET rows == {Row(d, e, b, q, l, o, i) : i \in 1 .. N}
        IN  IF Unique(rows) /\ Better(rows)
              THEN best_rows' = rows /\ phase' = IF Score(rows) = 0 THEN "ready" ELSE "search"
              ELSE UNCHANGED <<best_rows, phase>>
  BY DEF Attempt
<1> DEFINE f == [i \in 1 .. N |-> Row(d, e, b, q, l, o, i)]
           g == [a \in Axis |-> IF a = "devices" THEN d ELSE IF a = "events" THEN e
                                ELSE IF a = "block_size" THEN b
                                ELSE IF a = "authority_threshold" THEN q
                                ELSE IF a = "packet_loss_percent" THEN l ELSE o]
           rows == {Row(d, e, b, q, l, o, i) : i \in 1 .. N}
<1>2. /\ g["devices"] = d /\ g["events"] = e /\ g["block_size"] = b
      /\ g["authority_threshold"] = q /\ g["packet_loss_percent"] = l /\ g["outage_seconds"] = o
  BY AxesFacts
<1>3. \A a \in Axis : g[a] \in Column(a)
  <2> HIDE DEF g
  <2> QED BY <1>2, AxesFacts
<1>4. ASSUME NEW i \in 1 .. N
      PROVE  f[i] \in [Axis -> Nat] /\ \A a \in Axis : f[i][a] = g[a][i]
  <2> DEFINE r == f[i]
  <2>1. r = Row(d, e, b, q, l, o, i)
    OBVIOUS
  <2>2. DOMAIN r = Axis /\ r = [a \in Axis |-> r[a]]
    BY <2>1, AxesFacts
  <2>3. /\ r["devices"] = d[i] /\ r["events"] = e[i] /\ r["block_size"] = b[i]
        /\ r["authority_threshold"] = q[i] /\ r["packet_loss_percent"] = l[i]
        /\ r["outage_seconds"] = o[i]
    BY <2>1
  <2> HIDE DEF f, g, r
  <2>4. \A a \in Axis : r[a] = g[a][i]
    BY <1>2, <2>3, AxesFacts
  <2>5. \A a \in Axis : g[a][i] \in Nat
    <3> TAKE a \in Axis
    <3>1. g[a][i] \in Level(a)
      BY <1>3 DEF Column
    <3> QED BY <3>1, ListedNat
  <2>6. r \in [Axis -> Nat]
    BY <2>2, <2>4, <2>5
  <2> QED BY <2>4, <2>6 DEF r
<1>5. RowsOf(f) = rows
  BY DEF RowsOf
<1>6. f = [i \in 1 .. N |-> f[i]]
  OBVIOUS
<1> HIDE DEF f, g, rows
<1>7. MadeOf(f, g)
  <2>1. f \in [1 .. N -> [Axis -> Nat]]
    BY <1>4, <1>6
  <2> QED BY <1>3, <1>4, <2>1 DEF MadeOf
<1>8. IF Unique(rows) /\ Better(rows)
        THEN best_rows' = rows /\ phase' = IF Score(rows) = 0 THEN "ready" ELSE "search"
        ELSE best_rows' = best_rows /\ phase' = phase
  BY <1>1 DEF rows
<1>9. Unique(rows) => Balanced(rows)
  BY <1>5, <1>7, ColumnsBalance
<1> QED BY <1>8, <1>9

\* What the validation of a plan makes sure of here.
Passed ==
  /\ plan.repetitions \in Nat \ {0} /\ \A a \in Axis : plan.levels[a] # << >>
  /\ \A n \in Level("devices") : n \in Nat \ {0}
  /\ plan.type = "balanced_screening" => plan.samples \in Nat \ {0}

\* What is kept of the search is balanced, and a plan that is ready passed
\* the validation and, if it asks for a balanced design, has one.
PlanIInv ==
  /\ plan \in Plans /\ attempt \in 0 .. MaxAttempts
  /\ phase \in {"load", "search", "ready", "refused"}
  /\ phase \in {"search", "ready"} => Passed
  /\ phase = "search" => plan.type = "balanced_screening"
  /\ best_rows # {} => plan.type = "balanced_screening" /\ Balanced(best_rows)
  /\ phase = "load" => best_rows = {}
  /\ phase = "ready" /\ plan.type = "balanced_screening" => best_rows # {}

LEMMA PlanFacts ==
  ASSUME plan \in Plans
  PROVE  /\ LevelsGiven /\ plan.samples \in Nat /\ plan.repetitions \in Nat
         /\ plan.type \in {"full_factorial", "balanced_screening"}
  BY PlanConfig DEF LevelsGiven

LEMMA ValidFacts ==
  ASSUME plan \in Plans, Valid
  PROVE  Passed
<1>1. "devices" \in Axis
  BY AxesFacts
<1>2. \A n \in Level("devices") : n \in Nat
  BY <1>1, PlanFacts, ListedNat
<1>3. \A n \in Level("devices") : n >= 1
  BY DEF Valid
<1>4. plan.repetitions >= 1 /\ (plan.type = "balanced_screening" => plan.samples >= 1)
  BY DEF Valid
<1>5. \A a \in Axis : plan.levels[a] # << >>
  BY DEF Valid
<1> QED BY <1>2, <1>3, <1>4, <1>5, PlanFacts DEF Passed

\* What is said of a plan stays true of it.
LEMMA SamePlan ==
  ASSUME plan' = plan
  PROVE  /\ Passed' <=> Passed
         /\ Balanced(best_rows)' <=> Balanced(best_rows')
<1>1. \A a : Level(a)' = Level(a)
  BY DEF Level
<1>2. \A a, v : Listed(a, v)' = Listed(a, v)
  BY DEF Listed
<1>4. Passed' <=> Passed
  BY <1>1 DEF Passed
<1>5. Combination(Axis)' = Combination(Axis)
  BY <1>1 DEF Combination
<1>6. Balanced(best_rows)' <=> Balanced(best_rows')
  BY <1>1, <1>2, <1>5 DEF Balanced
<1> QED BY <1>4, <1>6

LEMMA PlanInitially == PlanInit => PlanIInv
  BY PlanConfig DEF PlanInit, PlanIInv

LEMMA ValidateKeeps == PlanIInv /\ Validate => PlanIInv'
<1> SUFFICES ASSUME PlanIInv, Validate PROVE PlanIInv'
  OBVIOUS
<1>1. plan' = plan /\ attempt' = attempt /\ best_rows' = best_rows /\ best_rows = {}
  BY DEF PlanIInv, Validate
<1>2. plan.type \in {"full_factorial", "balanced_screening"}
  BY PlanFacts DEF PlanIInv
<1>3. \/ phase' = "refused"
      \/ Valid /\ phase' = "ready" /\ plan.type = "full_factorial"
      \/ Valid /\ phase' = "search" /\ plan.type = "balanced_screening"
  BY <1>2 DEF Validate
<1>4. (Passed' <=> Passed) /\ (Valid => Passed)
  BY <1>1, SamePlan, ValidFacts DEF PlanIInv
<1> QED BY <1>1, <1>3, <1>4 DEF PlanIInv

LEMMA AttemptKeeps == PlanIInv /\ Attempt => PlanIInv'
<1> SUFFICES ASSUME PlanIInv, Attempt PROVE PlanIInv'
  OBVIOUS
<1>1. /\ plan' = plan /\ plan \in Plans /\ phase = "search"
      /\ attempt < MaxAttempts /\ attempt' = attempt + 1 /\ attempt \in 0 .. MaxAttempts
  BY DEF PlanIInv, Attempt
<1>2. attempt' \in 0 .. MaxAttempts
  BY <1>1, PlanConfig
<1>3. Passed /\ plan.type = "balanced_screening"
  BY <1>1 DEF PlanIInv
<1>4. \/ best_rows' = best_rows /\ phase' = phase
      \/ Balanced(best_rows') /\ phase' \in {"ready", "search"}
  BY <1>1, <1>3, PlanFacts, AttemptBalances DEF Passed
<1>5. ASSUME Balanced(best_rows') PROVE best_rows' # {}
  <2>1. Cardinality(best_rows') \in Nat \ {0}
    BY <1>1, <1>3, <1>5 DEF Balanced, Passed
  <2> QED BY <2>1, FS_EmptySet
<1>6. (Passed' <=> Passed) /\ (Balanced(best_rows)' <=> Balanced(best_rows'))
  BY <1>1, SamePlan
<1>7. CASE best_rows' = best_rows /\ phase' = phase
  BY <1>1, <1>2, <1>3, <1>6, <1>7 DEF PlanIInv
<1>8. CASE Balanced(best_rows') /\ phase' \in {"ready", "search"}
  BY <1>1, <1>2, <1>3, <1>5, <1>6, <1>8 DEF PlanIInv
<1> QED BY <1>4, <1>7, <1>8

LEMMA GiveUpKeeps == PlanIInv /\ GiveUp => PlanIInv'
<1> SUFFICES ASSUME PlanIInv, GiveUp PROVE PlanIInv'
  OBVIOUS
<1>1. /\ plan' = plan /\ attempt' = attempt /\ best_rows' = best_rows /\ phase = "search"
      /\ phase' = IF best_rows = {} THEN "refused" ELSE "ready"
  BY DEF GiveUp
<1>2. (Passed' <=> Passed) /\ (Balanced(best_rows)' <=> Balanced(best_rows'))
  BY <1>1, SamePlan
<1> QED BY <1>1, <1>2 DEF PlanIInv

LEMMA PlanStill == PlanIInv /\ UNCHANGED planVars => PlanIInv'
<1> SUFFICES ASSUME PlanIInv, UNCHANGED planVars PROVE PlanIInv'
  OBVIOUS
<1>1. plan' = plan /\ attempt' = attempt /\ best_rows' = best_rows /\ phase' = phase
  BY DEF planVars
<1>2. (Passed' <=> Passed) /\ (Balanced(best_rows)' <=> Balanced(best_rows'))
  BY <1>1, SamePlan
<1> QED BY <1>1, <1>2 DEF PlanIInv

LEMMA PlanAlways == PlanSpec => []PlanIInv
<1>1. PlanInit => PlanIInv
  BY PlanInitially
<1>2. PlanIInv /\ [PlanNext]_planVars => PlanIInv'
  BY ValidateKeeps, AttemptKeeps, GiveUpKeeps, PlanStill DEF PlanNext
<1> QED BY <1>1, <1>2, PTL DEF PlanSpec

----------------------------------------------------------------------------
(* The runs of a plan that is ready *)

\* The configurations: combinations of the levels, each level of a factor as
\* often for each listing, and all different unless a full factorial lists a
\* level twice.
Configured(s) ==
  /\ Len(s) \in Nat /\ DOMAIN s = 1 .. Len(s)
  /\ \A n \in 1 .. Len(s) : s[n] \in Combination(Axis)
  /\ \A a \in Axis : \E c \in Nat : \A v \in Level(a) :
       Cardinality({n \in 1 .. Len(s) : s[n][a] = v}) = c * Listed(a, v)
  /\ plan.type = "balanced_screening" \/ LevelsDiffer =>
       \A x, y \in 1 .. Len(s) : s[x] = s[y] => x = y

LEMMA ProductConfigured ==
  ASSUME LevelsGiven, plan.type = "full_factorial" PROVE Configured(Product)
<1> DEFINE s == Product
<1>1. Design(s, Axis)
  BY ProductDesign
<1> HIDE DEF s
<1>2. /\ Len(s) \in Nat /\ s = [n \in 1 .. Len(s) |-> s[n]]
      /\ \A n \in 1 .. Len(s) : s[n] \in Combination(Axis)
      /\ \A a \in Axis : \E c \in Nat : \A v \in Level(a) :
           Cardinality({n \in 1 .. Len(s) : s[n][a] = v}) = c * Listed(a, v)
      /\ (\A a \in Axis : IsInjective(plan.levels[a])) =>
           \A x, y \in 1 .. Len(s) : s[x] = s[y] => x = y
  BY <1>1 DEF Design
<1>3. DOMAIN s = 1 .. Len(s)
  BY <1>2
<1>4. plan.type = "balanced_screening" \/ LevelsDiffer =>
        \A x, y \in 1 .. Len(s) : s[x] = s[y] => x = y
  BY <1>2 DEF LevelsDiffer
<1>5. Configured(s)
  BY <1>2, <1>3, <1>4 DEF Configured
<1> QED BY <1>5 DEF s

LEMMA SortedConfigured ==
  ASSUME NEW S, Balanced(S) PROVE Configured(Sorted(S))
<1> DEFINE s == Sorted(S)
           N == Cardinality(S)
<1>1. S \in SUBSET [Axis -> Nat] /\ IsFiniteSet(S) /\ S \in SUBSET Combination(Axis)
  BY DEF Balanced, Combination
<1>2. N \in Nat /\ Len(s) = N /\ s \in Bijection(1 .. N, S)
  BY <1>1, SortedOnce
<1> HIDE DEF s, N
<1>3. DOMAIN s = 1 .. N /\ \A n \in 1 .. N : s[n] \in Combination(Axis)
  BY <1>1, <1>2 DEF Bijection, Injection
<1>4. \A x, y \in 1 .. N : s[x] = s[y] => x = y
  BY <1>2 DEF Bijection, Injection, IsInjective
<1>5. ASSUME NEW a \in Axis
      PROVE  \E c \in Nat : \A v \in Level(a) :
               Cardinality({n \in 1 .. N : s[n][a] = v}) = c * Listed(a, v)
  <2>1. PICK c \in Nat : \A v \in Level(a) :
          Cardinality({row \in S : row[a] = v}) = c * Listed(a, v)
    BY DEF Balanced
  <2>2. ASSUME NEW v \in Level(a)
        PROVE  Cardinality({n \in 1 .. N : s[n][a] = v}) = c * Listed(a, v)
    <3> DEFINE A == 1 .. N
               P == {n \in A : s[n][a] = v}
               Q == {row \in S : row[a] = v}
    <3>1. Marks(s, A, P, Q)
      BY <1>2 DEF Marks, Bijection, Injection
    <3>2. P \in SUBSET A /\ Q \in SUBSET S /\ IsFiniteSet(A) /\ s \in Bijection(A, S)
      BY <1>2, CardUpTo
    <3>3. Cardinality(Q) = c * Listed(a, v)
      BY <2>1
    <3> HIDE DEF A, P, Q
    <3>4. Cardinality(P) = Cardinality(Q)
      BY ONLY <3>1, <3>2, SameCount
    <3> QED BY <3>3, <3>4 DEF A, P
  <2> QED BY <2>2
<1>6. Configured(s)
  BY <1>2, <1>3, <1>4, <1>5 DEF Configured
<1> QED BY <1>6 DEF s

LEMMA ReadyConfigured ==
  ASSUME PlanIInv, phase = "ready" PROVE Configured(selected_configurations)
<1>1. CASE plan.type = "full_factorial"
  BY <1>1, PlanFacts, ProductConfigured DEF PlanIInv, selected_configurations
<1>2. CASE plan.type = "balanced_screening"
  <2>1. Balanced(best_rows)
    BY <1>2 DEF PlanIInv
  <2> QED BY <1>2, <2>1, SortedConfigured DEF selected_configurations
<1> QED BY <1>1, <1>2, PlanFacts DEF PlanIInv

LEMMA MarginsAreExact ==
  ASSUME PlanIInv, phase = "ready", NEW a \in Axis,
         NEW i \in DOMAIN plan.levels[a], NEW j \in DOMAIN plan.levels[a]
  PROVE  LET With(k) == Cardinality({n \in DOMAIN selected_configurations :
                                       selected_configurations[n][a] = plan.levels[a][k]})
         IN  With(i) * Listed(a, plan.levels[a][j]) = With(j) * Listed(a, plan.levels[a][i])
<1> DEFINE s == selected_configurations
           v == plan.levels[a][i]
           w == plan.levels[a][j]
           p == Listed(a, v)
           q == Listed(a, w)
<1>1. v \in Level(a) /\ w \in Level(a) /\ p \in Nat /\ q \in Nat
  <2>1. LevelsGiven
    BY PlanFacts DEF PlanIInv
  <2> QED BY <2>1, ListedNat
<1>2. Configured(s)
  BY ReadyConfigured
<1> HIDE DEF s, v, w
<1>3. PICK c \in Nat : \A u \in Level(a) :
        Cardinality({n \in 1 .. Len(s) : s[n][a] = u}) = c * Listed(a, u)
  BY <1>2 DEF Configured
<1>4. DOMAIN s = 1 .. Len(s)
  BY <1>2 DEF Configured
<1>5. /\ Cardinality({n \in DOMAIN s : s[n][a] = v}) = c * p
      /\ Cardinality({n \in DOMAIN s : s[n][a] = w}) = c * q
  BY <1>1, <1>3, <1>4
<1>6. (c * p) * q = (c * q) * p
  <2> HIDE DEF p, q
  <2> QED BY <1>1
<1>7. Cardinality({n \in DOMAIN s : s[n][a] = v}) * q = Cardinality({n \in DOMAIN s : s[n][a] = w}) * p
  BY <1>5, <1>6
<1> QED BY <1>7 DEF s, v, w

\* The cases: every configuration as often as there are repetitions.
LEMMA CasesFacts ==
  ASSUME PlanIInv, phase = "ready"
  PROVE  \E n \in Nat :
           /\ n = Len(selected_configurations) * plan.repetitions
           /\ Len(selected_configurations) \in Nat /\ plan.repetitions \in Nat \ {0}
           /\ Cases = [x \in 1 .. n |-> Cases[x]] /\ DOMAIN Cases = 1 .. n
           /\ \A x \in 1 .. n :
                /\ Cases[x].row = selected_configurations[Block(x, plan.repetitions)]
                /\ Cases[x].repetition = Within(x, plan.repetitions)
<1> DEFINE s == selected_configurations
           r == plan.repetitions
           n == Len(s) * r
           c == Cases
<1>1. Len(s) \in Nat /\ r \in Nat \ {0}
  BY ReadyConfigured DEF Configured, PlanIInv, Passed
<1>2. c = [x \in 1 .. n |-> [row |-> s[Block(x, r)], repetition |-> Within(x, r)]]
  BY DEF Cases
<1> HIDE DEF s, r, c
<1>3. n \in Nat
  BY <1>1, TimesNat
<1>4. /\ c = [x \in 1 .. n |-> c[x]] /\ DOMAIN c = 1 .. n
      /\ \A x \in 1 .. n : c[x].row = s[Block(x, r)] /\ c[x].repetition = Within(x, r)
  BY <1>2
<1> QED BY <1>1, <1>3, <1>4 DEF s, r, c

LEMMA CasesOnce ==
  ASSUME PlanIInv, phase = "ready", plan.type = "balanced_screening" \/ LevelsDiffer
  PROVE  IsInjective(Cases)
<1> DEFINE s == selected_configurations
           r == plan.repetitions
           c == Cases
           m == Len(s)
<1>1. PICK n \in Nat :
        /\ n = m * r /\ m \in Nat /\ r \in Nat \ {0}
        /\ DOMAIN c = 1 .. n
        /\ \A x \in 1 .. n : c[x].row = s[Block(x, r)] /\ c[x].repetition = Within(x, r)
  BY CasesFacts
<1>2. \A x, y \in 1 .. m : s[x] = s[y] => x = y
  BY ReadyConfigured DEF Configured
<1> HIDE DEF s, r, c, m
<1>3. ASSUME NEW x \in 1 .. n, NEW y \in 1 .. n, c[x] = c[y] PROVE x = y
  <2>1. s[Block(x, r)] = s[Block(y, r)] /\ Within(x, r) = Within(y, r)
    BY <1>1, <1>3
  <2>2. Block(x, r) \in 1 .. m /\ Block(y, r) \in 1 .. m
    BY <1>1, Blocks
  <2>3. Block(x, r) = Block(y, r)
    BY <1>2, <2>1, <2>2
  <2>4. x = r * (Block(x, r) - 1) + Within(x, r) /\ y = r * (Block(y, r) - 1) + Within(y, r)
    <3>1. x \in Nat \ {0} /\ y \in Nat \ {0}
      BY <1>1
    <3> QED BY <1>1, <3>1, BlockOf
  <2> QED BY <2>1, <2>3, <2>4
<1>4. IsInjective(c)
  BY <1>1, <1>3 DEF IsInjective
<1> QED BY <1>4 DEF c

LEMMA EventsShared ==
  ASSUME PlanIInv, phase = "ready", NEW row \in ToSet(selected_configurations)
  PROVE  Total(EventsPerDevice(row.events, row.devices)) = row.events
<1> DEFINE s == selected_configurations
<1>1. Configured(s)
  BY ReadyConfigured
<1>2. PICK n \in DOMAIN s : row = s[n]
  BY DEF ToSet
<1>3. row \in Combination(Axis)
  <2> HIDE DEF s
  <2> QED BY <1>1, <1>2 DEF Configured
<1>4. row.events \in Nat /\ row.devices \in Nat \ {0}
  <2>1. row["events"] \in Nat /\ row["devices"] \in Level("devices")
    BY <1>3, AxesFacts DEF Combination
  <2>2. row["devices"] \in Nat \ {0}
    BY <2>1 DEF PlanIInv, Passed
  <2> QED BY <2>1, <2>2
<1> QED BY <1>4, DevicesShare

LEMMA PlanMeans == PlanIInv => PlanInv
<1> SUFFICES ASSUME PlanIInv PROVE PlanInv
  OBVIOUS
<1>1. PlanTypeOK
  <2>1. ASSUME best_rows # {}
        PROVE  /\ plan.type = "balanced_screening" /\ Cardinality(best_rows) = plan.samples
               /\ best_rows \subseteq ToSet(Product)
    <3>1. plan.type = "balanced_screening" /\ Balanced(best_rows)
      BY <2>1 DEF PlanIInv
    <3>2. Design(Product, Axis)
      BY PlanFacts, ProductDesign DEF PlanIInv
    <3>3. ASSUME NEW row \in best_rows PROVE row \in ToSet(Product)
      <4> DEFINE s == Product
      <4>1. PICK n \in 1 .. Len(s) : s[n] = row
        BY <3>1, <3>2 DEF Balanced, Design
      <4>2. DOMAIN s = 1 .. Len(s)
        <5>1. s = [k \in 1 .. Len(s) |-> s[k]]
          BY <3>2 DEF Design
        <5> HIDE DEF s
        <5> QED BY <5>1
      <4> HIDE DEF s
      <4>3. row \in ToSet(s)
        BY <4>1, <4>2 DEF ToSet
      <4> QED BY <4>3 DEF s
    <3> QED BY <3>1, <3>3 DEF Balanced
  <2> QED BY <2>1 DEF PlanIInv, PlanTypeOK
<1>2. ExactMargins
  BY MarginsAreExact DEF ExactMargins
<1>3. RunIdsUnique
  BY CasesOnce DEF RunIdsUnique
<1>4. ShardsShare
  <2> SUFFICES ASSUME phase = "ready", NEW count \in 1 .. MaxShards
               PROVE  LET shards == [i \in 0 .. count - 1 |-> Shard(i, count)]
                      IN  /\ UNION {ToSet(shards[i]) : i \in 0 .. count - 1} = ToSet(Cases)
                          /\ Total([i \in 0 .. count - 1 |-> Len(shards[i])]) = Len(Cases)
                          /\ \A i, j \in 0 .. count - 1 : Len(shards[i]) <= Len(shards[j]) + 1
    BY DEF ShardsShare
  <2>1. PICK n \in Nat : Cases = [x \in 1 .. n |-> Cases[x]]
    BY CasesFacts
  <2>2. count \in Nat \ {0}
    BY PlanConfig
  <2> QED BY <2>1, <2>2, MachinesShare
<1>5. EventsAreShared
  BY EventsShared DEF EventsAreShared
<1> QED BY <1>1, <1>2, <1>3, <1>4, <1>5 DEF PlanInv

\* Whatever the random generator yields, the runs that are executed are those
\* that the plan asks for: each level as often for each listing, no run
\* twice, dealt evenly to however many machines, with all of their events
\* (model.py:183-277, runner.py:86-94, docker_runtime.py:148-151).
THEOREM RunsAreThePlans == PlanSpec => []PlanInv
  BY PlanAlways, PlanMeans, PTL
=============================================================================
