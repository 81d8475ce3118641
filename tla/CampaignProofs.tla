--------------------------- MODULE CampaignProofs ---------------------------
(***************************************************************************)
(* Proofs about Campaign, for any number of runs, devices and runners, of   *)
(* starts, kills, interrupts and errors: an attempt starts clean, PASS      *)
(* means delivered and in blocks of which only the last, a full one, may    *)
(* not be final, a run that passed is left alone and leaves nothing behind, *)
(* and exit code 0 means that all have passed.                              *)
(*                                                                         *)
(* Beside the types the inductive invariant has four parts.  Turns: only    *)
(* the holder of the campaign lock is past it.  Memory: what the holder has *)
(* read of the journal is what the journal says, and what it still has to   *)
(* run is what has not passed.  Attempt: from one step of a run to the      *)
(* next, what the daemon has of the run is what the runner holds a handle   *)
(* of.  LeftClean: of the runs that passed it has nothing.                  *)
(***************************************************************************)
EXTENDS Campaign, FiniteSetTheorems, SequenceTheorems, WellFoundedInduction, TLAPS

----------------------------------------------------------------------------
(* The invariant. *)

Line == [run : Run, status : Statuses]

\* The ranges of what the daemon has, of where the runners are ...
DaemonTyped ==
  /\ exists \subseteq Run \X Kind
  /\ running \subseteq Run \X Container /\ running \subseteq exists
  /\ joined \subseteq Runner \X Run
  /\ passed \subseteq Run \X Worker /\ passed \subseteq exists
  /\ stored \in [Run -> SUBSET Worker]
  /\ pending \in [Run -> Nat] /\ proposed \in [Run -> 0 .. BlockSize]

RunnersTyped ==
  /\ case \in [Runner -> Run \cup {None}]
  /\ step \in [Runner -> TrySteps \cup FinalSteps \cup {"idle", "done"}]
  /\ made \in [Runner -> SUBSET (Kind \cup {"attached"})]
  /\ outcome \in [Runner -> Statuses \cup {None}]

\* ... and of what a Campaign keeps.
Typed ==
  /\ DaemonTyped /\ RunnersTyped /\ faults \in 0 .. MaxFaults
  /\ starts \in 0 .. MaxStarts /\ stops \in 0 .. MaxStops
  /\ lock \in Runner \cup {None} /\ alive \subseteq Runner
  /\ journal \in Seq(Line)
  /\ torn \in BOOLEAN
  /\ results \in [Run -> Statuses \cup {None}]
  /\ known \in [Runner -> [Run -> Statuses \cup {None}]]
  /\ to_run \in [Runner -> Seq(Run)]
  /\ executed \in [Runner -> Nat] /\ failures \in [Runner -> Nat]
  /\ exit \in [Runner -> {None, 0, 1, 130}]
  /\ pc \in [Runner -> {"off", "lock", "load", "docker", "loop", "run", "report"}]

\* Where a runner has read the journal.
Loaded == {"docker", "loop", "run", "report"}

\* The steps of a run, and those that follow its outcome.
Stages == TrySteps \cup FinalSteps \cup {"done"}
Ending == FinalSteps \cup {"done"}

\* A runner past the lock holds it, and it has a run in hand in one place of
\* its loop only.
Turn(p) ==
  /\ pc[p] \in Loaded \cup {"load"} => lock = p
  /\ pc[p] = "run" <=> step[p] # "idle"
  /\ step[p] = "idle" => case[p] = None /\ made[p] = {} /\ outcome[p] = None
  /\ step[p] \in Ending <=> outcome[p] # None

Turns == \A p \in Runner : Turn(p)

Passed(c) == LatestStatus(journal)[c] = "PASS"

\* What a runner knows is what the journal says; it has counted what it has
\* executed, and what it still has to run has not passed.
Remembers(p) ==
  /\ pc[p] \in Loaded =>
       /\ known[p] = LatestStatus(journal)
       /\ ToSet(to_run[p]) \subseteq ToSet(Selected)
       /\ IsInjective(to_run[p])
       /\ executed[p] + Len(to_run[p]) <= Len(Selected)
       /\ Resume => \A c \in ToSet(to_run[p]) : ~ Passed(c)
       /\ Resume /\ RerunFailed /\ failures[p] = 0 =>
            \A c \in ToSet(Selected) : Passed(c) \/ c \in ToSet(to_run[p])
  /\ pc[p] \notin Loaded =>
       known[p] = NoResults /\ to_run[p] = << >> /\ executed[p] = 0 /\ failures[p] = 0
  /\ failures[p] <= executed[p]
  /\ pc[p] = "run" => to_run[p] # << >> /\ case[p] = Head(to_run[p])

\* The report has nothing that the journal has not.
Memory ==
  /\ journal = << >> => results = NoResults
  /\ PassedOnce
  /\ \A p \in Runner : Remembers(p)

\* What the daemon has of a run.
Of(c) == {k \in Kind : <<c, k>> \in exists}
Attached(c) == {q \in Runner : <<q, c>> \in joined}
Clean(c) == Of(c) = {} /\ Attached(c) = {}
\* A block that is not final is one that the gateway has proposed by itself.
WholeBlocks(c) == proposed[c] \in {0, BlockSize}
Sealed(c) == stored[c] = Worker /\ pending[c] = 0 /\ WholeBlocks(c)

Provisioning == {"network", "volume", "connect", "gateway", "health", "workers"}
Executing == {"restart", "wait", "collect", "seal", "verify"}

\* Before the gateway runs there is no ledger, and what there is was made by
\* this attempt ...
Provisioned(p) ==
  LET c == case[p]
  IN  /\ step[p] \in {"stale networks", "stale volumes"} => Of(c) \cap Container = {}
      /\ step[p] = "stale volumes" => "network" \notin Of(c)
      /\ step[p] \in {"stale volumes"} \cup Provisioning \cup Executing =>
           Attached(c) \subseteq {p}
      /\ step[p] \in Provisioning \cup Executing => Of(c) \subseteq made[p]
      /\ step[p] \in {"stale containers", "stale networks", "stale volumes", "network"} =>
           made[p] = {}
      /\ step[p] = "volume" => made[p] \subseteq {"network"}
      /\ step[p] = "connect" => made[p] \subseteq {"network", "volume"}
      /\ step[p] = "gateway" => made[p] \subseteq {"network", "volume", "attached"}
      /\ step[p] \in {"health", "workers", "restart"} => "gateway" \in Of(c)
      /\ step[p] \in {"network", "volume", "connect", "gateway"} =>
           stored[c] = {} /\ pending[c] = 0 /\ proposed[c] = 0

\* ... a device that passed has its event stored, and one after the other all
\* have passed, are stored, and are sealed ...
Delivered(p) ==
  LET c == case[p]
  IN  /\ step[p] \in Provisioning \cup Executing =>
           WholeBlocks(c) /\ \A w \in Worker : <<c, w>> \in passed => w \in stored[c]
      /\ step[p] \in {"seal", "verify"} => {c} \X Worker \subseteq passed
      /\ step[p] = "verify" => pending[c] = 0
      /\ step[p] = "write result" /\ outcome[p] = "PASS" => Sealed(c)

\* ... and unless an error is met they are removed one kind after the other.
Removed(p) ==
  LET c == case[p]
  IN  outcome[p] = "PASS" /\ faults = 0 /\ Cleanup =>
        /\ step[p] \in FinalSteps => Of(c) \subseteq made[p] /\ Attached(c) \subseteq {p}
        /\ step[p] \in {"remove gateway", "disconnect", "remove network", "remove volume"} =>
             Of(c) \cap Worker = {}
        /\ step[p] \in {"disconnect", "remove network", "remove volume"} =>
             "gateway" \notin Of(c)
        /\ step[p] \in {"remove network", "remove volume"} => Attached(c) = {}
        /\ step[p] = "remove volume" => "network" \notin Of(c)
        /\ step[p] = "done" => Clean(c)

Attempt(p) == case[p] # None => Provisioned(p) /\ Delivered(p) /\ Removed(p)

\* A run that passed, in this campaign or an earlier one, has left nothing.
LeftClean ==
  Resume /\ Cleanup /\ faults = 0 => \A c \in Run : Passed(c) => Clean(c)

CampaignIInv ==
  /\ Typed
  /\ Turns
  /\ Memory
  /\ \A p \in Runner : Attempt(p)
  /\ LeftClean

----------------------------------------------------------------------------
(* Numbers and sequences. *)

\* A set of natural numbers has a least element.
LEMMA LeastElement ==
  ASSUME NEW S \in SUBSET Nat, S # {}
  PROVE  \E m \in S : \A x \in S : m <= x
<1> DEFINE R == OpToRel(<, Nat)
<1>1. IsWellFoundedOn(R, Nat)
  BY NatLessThanWellFounded
<1>2. PICK m \in S : \A x \in S : ~ (<<x, m>> \in R)
  <2> HIDE DEF R
  <2> QED BY <1>1, WFMin
<1>3. \A x \in S : ~ (x < m)
  BY <1>2 DEF OpToRel
<1> QED BY <1>3

\* Induction over the natural numbers, for a set instead of a predicate.
LEMMA InductionOverNat ==
  ASSUME NEW S \in SUBSET Nat, 0 \in S, \A n \in S : n + 1 \in S
  PROVE  S = Nat
<1>1. SUFFICES ASSUME Nat \ S # {} PROVE FALSE
  OBVIOUS
<1>2. PICK m \in Nat \ S : \A x \in Nat \ S : m <= x
  BY <1>1, LeastElement
<1>3. m - 1 \in Nat /\ ~ (m <= m - 1) /\ m = (m - 1) + 1
  BY <1>2
<1>4. m - 1 \in S
  BY <1>2, <1>3
<1> QED BY <1>2, <1>3, <1>4

\* A set of numbers up to n has a greatest element, and Max is it.
LEMMA Greatest ==
  ASSUME NEW n \in Nat, NEW S \in SUBSET (1 .. n), S # {}
  PROVE  Max(S) \in S /\ \A x \in S : Max(S) >= x
<1> DEFINE U == {u \in Nat : \A x \in S : x <= u}
<1>1. n \in U
  OBVIOUS
<1>2. PICK m \in U : \A u \in U : m <= u
  BY <1>1, LeastElement
<1>3. m \in S
  <2>1. SUFFICES ASSUME m \notin S PROVE FALSE
    OBVIOUS
  <2>2. m \in Nat /\ \A x \in S : x <= m /\ x \in 1 .. n
    OBVIOUS
  <2>3. m > 0 /\ m - 1 \in Nat
    <3>1. PICK x \in S : TRUE
      OBVIOUS
    <3> QED BY <2>2, <3>1
  <2>4. \A x \in S : x <= m - 1
    BY <2>1, <2>2
  <2>5. m - 1 \in U
    BY <2>3, <2>4
  <2> QED BY <1>2, <2>2, <2>5
<1>4. \A x \in S : m >= x
  BY <1>2
<1> HIDE DEF U
<1> QED BY <1>3, <1>4 DEF Max

\* One element more at the end.
LEMMA Appended ==
  ASSUME NEW T, NEW r \in Seq(T), NEW e \in T, NEW q, q = Append(r, e)
  PROVE  /\ q \in Seq(T) /\ Len(q) = Len(r) + 1 /\ Len(r) \in Nat
         /\ DOMAIN q = 1 .. Len(r) + 1 /\ DOMAIN r = 1 .. Len(r)
         /\ \A i \in 1 .. Len(r) : q[i] = r[i]
         /\ q[Len(r) + 1] = e
  BY AppendProperties, LenProperties

\* A new element at the end repeats none.
LEMMA AppendedInjective ==
  ASSUME NEW T, NEW r \in Seq(T), NEW e \in T, NEW q, q = Append(r, e),
         IsInjective(r), e \notin ToSet(r)
  PROVE  IsInjective(q)
<1>1. /\ Len(r) \in Nat /\ DOMAIN q = 1 .. Len(r) + 1 /\ DOMAIN r = 1 .. Len(r)
      /\ \A i \in 1 .. Len(r) : q[i] = r[i]
      /\ q[Len(r) + 1] = e
  BY AppendProperties, LenProperties
<1>2. ASSUME NEW i \in 1 .. Len(r) + 1, NEW j \in 1 .. Len(r) + 1, q[i] = q[j]
      PROVE  i = j
  <2>1. \A k \in 1 .. Len(r) : r[k] # e
    BY <1>1 DEF ToSet
  <2>2. CASE i \in 1 .. Len(r) /\ j \in 1 .. Len(r)
    BY <1>1, <1>2, <2>2 DEF IsInjective
  <2>3. CASE i = Len(r) + 1 \/ j = Len(r) + 1
    BY <1>1, <1>2, <2>1, <2>3
  <2> QED BY <1>1, <2>2, <2>3
<1> QED BY <1>1, <1>2 DEF IsInjective

\* What is left without the first element: the sequence ...
LEMMA TailFacts ==
  ASSUME NEW T, NEW s \in Seq(T), s # << >>, NEW q, q = Tail(s)
  PROVE  q \in Seq(T) /\ Len(q) + 1 = Len(s) /\ Head(s) \in T
<1>1. /\ q \in Seq(T) /\ Len(q) = Len(s) - 1 /\ Head(s) \in T
      /\ \A i \in 1 .. Len(q) : q[i] = s[i + 1]
  BY HeadTailProperties
<1>2. /\ Len(s) \in Nat /\ DOMAIN s = 1 .. Len(s) /\ Len(q) \in Nat
      /\ DOMAIN q = 1 .. Len(q) /\ Len(s) # 0 /\ Head(s) = s[1]
  BY <1>1, LenProperties, EmptySeq
<1> QED BY <1>1, <1>2

\* ... and its elements.
LEMMA TailElements ==
  ASSUME NEW T, NEW s \in Seq(T), s # << >>, NEW q, q = Tail(s), NEW x
  PROVE  x \in ToSet(s) <=> x \in ToSet(q) \/ x = Head(s)
<1>1. /\ q \in Seq(T) /\ Len(q) = Len(s) - 1 /\ Head(s) \in T
      /\ \A i \in 1 .. Len(q) : q[i] = s[i + 1]
  BY HeadTailProperties
<1>2. /\ Len(s) \in Nat /\ DOMAIN s = 1 .. Len(s) /\ Len(q) \in Nat
      /\ DOMAIN q = 1 .. Len(q) /\ Len(s) # 0 /\ Head(s) = s[1]
  BY <1>1, LenProperties, EmptySeq
<1>3. ToSet(s) = ToSet(q) \cup {Head(s)}
  <2>1. \A i \in 1 .. Len(s) : i = 1 \/ (i - 1 \in 1 .. Len(q) /\ q[i - 1] = s[i])
    BY <1>1, <1>2
  <2>2. \A i \in 1 .. Len(q) : i + 1 \in 1 .. Len(s)
    BY <1>1, <1>2
  <2>3. ASSUME NEW i \in 1 .. Len(s) PROVE s[i] \in ToSet(q) \cup {Head(s)}
    BY <1>2, <2>1 DEF ToSet
  <2>4. ASSUME NEW i \in 1 .. Len(q) PROVE q[i] \in ToSet(s)
    BY <1>1, <1>2, <2>2 DEF ToSet
  <2>5. Head(s) \in ToSet(s)
    <3>1. 1 \in 1 .. Len(s)
      BY <1>2
    <3> QED BY <1>2, <3>1 DEF ToSet
  <2> QED BY <1>2, <2>3, <2>4, <2>5 DEF ToSet
<1> QED BY <1>3

\* Without the first element, which is not repeated, none is.
LEMMA TailInjective ==
  ASSUME NEW T, NEW s \in Seq(T), s # << >>, NEW q, q = Tail(s), IsInjective(s)
  PROVE  IsInjective(q) /\ Head(s) \notin ToSet(q)
<1>1. /\ q \in Seq(T) /\ Len(q) = Len(s) - 1 /\ Head(s) \in T
      /\ \A i \in 1 .. Len(q) : q[i] = s[i + 1]
  BY HeadTailProperties
<1>2. /\ Len(s) \in Nat /\ DOMAIN s = 1 .. Len(s) /\ Len(q) \in Nat
      /\ DOMAIN q = 1 .. Len(q) /\ Len(s) # 0 /\ Head(s) = s[1]
  BY <1>1, LenProperties, EmptySeq
<1>3. \A i \in 1 .. Len(q) : i + 1 \in 1 .. Len(s) /\ i + 1 # 1 /\ 1 \in 1 .. Len(s)
  BY <1>1, <1>2
<1>4. Head(s) \notin ToSet(q)
  BY <1>1, <1>2, <1>3 DEF IsInjective, ToSet
<1>5. ASSUME NEW i \in 1 .. Len(q), NEW j \in 1 .. Len(q), q[i] = q[j]
      PROVE  i = j
  <2>1. s[i + 1] = s[j + 1] /\ i + 1 \in 1 .. Len(s) /\ j + 1 \in 1 .. Len(s)
    BY <1>1, <1>3, <1>5
  <2>2. i + 1 = j + 1
    BY <1>2, <2>1 DEF IsInjective
  <2> QED BY <2>2
<1> QED BY <1>2, <1>4, <1>5 DEF IsInjective

\* Those(s, S) has the items of s that are in S, and no item twice that s has
\* only once.
LEMMA ThoseFacts ==
  ASSUME NEW T, NEW s \in Seq(T), NEW S, NEW r, r = Those(s, S)
  PROVE  /\ r \in Seq(T) /\ Len(r) <= Len(s)
         /\ ToSet(r) = ToSet(s) \cap S
         /\ IsInjective(s) => IsInjective(r)
<1> DEFINE Extend(f, i) == IF i = 0 THEN << >>
                           ELSE IF s[i] \in S THEN Append(f[i - 1], s[i]) ELSE f[i - 1]
           Rec(f, n) == f = [i \in 0 .. n |-> Extend(f, i)]
           F == CHOOSE f : Rec(f, Len(s))
<1>1. Len(s) \in Nat /\ DOMAIN s = 1 .. Len(s) /\ \A i \in 1 .. Len(s) : s[i] \in T
  BY LenProperties, ElementOfSeq
<1>2. \A n \in Nat : \E f : Rec(f, n)
  <2> DEFINE E == {n \in Nat : \E f : Rec(f, n)}
  <2>1. 0 \in E
    <3>1. Rec([i \in 0 .. 0 |-> << >>], 0)
      OBVIOUS
    <3> HIDE DEF Rec
    <3> QED BY <3>1
  <2>2. ASSUME NEW n \in E PROVE n + 1 \in E
    <3>1. PICK g : Rec(g, n)
      OBVIOUS
    <3>2. \A i \in 0 .. n : g[i] = Extend(g, i)
      <4> HIDE DEF Extend
      <4> QED BY <3>1
    <3> DEFINE h == [i \in 0 .. (n + 1) |-> IF i <= n THEN g[i] ELSE Extend(g, n + 1)]
    <3>3. ASSUME NEW i \in 0 .. (n + 1)
          PROVE  h[i] = Extend(h, i)
      <4>1. CASE i = 0
        BY <3>2, <4>1
      <4>2. CASE i # 0
        <5>1. i - 1 \in 0 .. n
          BY <4>2
        <5>2. h[i - 1] = g[i - 1]
          BY <5>1
        <5>3. Extend(h, i) = Extend(g, i)
          <6> HIDE DEF h
          <6> QED BY <5>2
        <5>4. CASE i <= n
          <6>1. h[i] = g[i] /\ i \in 0 .. n
            BY <5>4
          <6> HIDE DEF h, Extend
          <6> QED BY <3>2, <5>3, <6>1
        <5>5. CASE i = n + 1
          <6>1. h[i] = Extend(g, n + 1)
            <7> HIDE DEF Extend
            <7> QED BY <5>5
          <6> HIDE DEF h, Extend
          <6> QED BY <5>3, <5>5, <6>1
        <5> QED BY <5>4, <5>5
      <4> QED BY <4>1, <4>2
    <3>4. h = [i \in 0 .. (n + 1) |-> h[i]]
      <4> HIDE DEF Extend
      <4> QED OBVIOUS
    <3>5. Rec(h, n + 1)
      <4> HIDE DEF h, Extend
      <4> QED BY <3>3, <3>4
    <3> HIDE DEF h, Rec
    <3> QED BY <3>5
  <2>3. E = Nat
    <3> HIDE DEF E
    <3> E \in SUBSET Nat BY DEF E
    <3> QED BY <2>1, <2>2, InductionOverNat
  <2> QED BY <2>3
<1>3. Rec(F, Len(s))
  <2> HIDE DEF Rec
  <2> QED BY <1>1, <1>2
<1>4. \A i \in 0 .. Len(s) : F[i] = Extend(F, i)
  <2> HIDE DEF F, Extend
  <2> QED BY <1>3
<1>5. r = F[Len(s)]
  BY DEF Those
<1> HIDE DEF F
<1> DEFINE Upto(n) == {s[i] : i \in 1 .. n}
           Good(n) == /\ F[n] \in Seq(T) /\ Len(F[n]) <= n
                      /\ ToSet(F[n]) = Upto(n) \cap S
                      /\ IsInjective(s) => IsInjective(F[n])
           G == {n \in Nat : n <= Len(s) => Good(n)}
<1>6. 0 \in G
  <2>1. F[0] = << >>
    BY <1>1, <1>4
  <2>2. /\ << >> \in Seq(T) /\ Len(<< >>) = 0 /\ DOMAIN << >> = {}
    OBVIOUS
  <2>3. ToSet(<< >>) = {} /\ IsInjective(<< >>)
    BY <2>2 DEF ToSet, IsInjective
  <2>4. Upto(0) = {}
    OBVIOUS
  <2>5. Good(0)
    <3> HIDE DEF Upto
    <3> QED BY <2>1, <2>2, <2>3, <2>4
  <2> HIDE DEF Good
  <2> QED BY <2>5
<1>7. ASSUME NEW n \in G PROVE n + 1 \in G
  <2>1. SUFFICES ASSUME n + 1 <= Len(s) PROVE Good(n + 1)
    OBVIOUS
  <2>2. n + 1 \in 1 .. Len(s) /\ n + 1 \in 0 .. Len(s) /\ (n + 1) - 1 = n /\ n + 1 # 0
    BY <1>1, <2>1
  <2>3. Good(n)
    BY <1>1, <2>1
  <2>4. Upto(n + 1) = Upto(n) \cup {s[n + 1]}
    BY <2>2
  <2>5. F[n + 1] = IF s[n + 1] \in S THEN Append(F[n], s[n + 1]) ELSE F[n]
    BY <1>4, <2>2
  <2>6. CASE s[n + 1] \notin S
    <3>1. F[n + 1] = F[n]
      BY <2>5, <2>6
    <3>2. Len(F[n]) \in Nat
      BY <2>3, LenProperties
    <3> HIDE DEF Upto
    <3> QED BY <2>3, <2>4, <2>6, <3>1, <3>2
  <2>7. CASE s[n + 1] \in S
    <3>1. F[n + 1] = Append(F[n], s[n + 1]) /\ s[n + 1] \in T /\ F[n] \in Seq(T)
      BY <1>1, <2>2, <2>3, <2>5, <2>7
    <3>2. /\ F[n + 1] \in Seq(T) /\ Len(F[n + 1]) = Len(F[n]) + 1
          /\ ToSet(F[n + 1]) = ToSet(F[n]) \cup {s[n + 1]}
          /\ IsInjective(F[n]) /\ s[n + 1] \notin ToSet(F[n]) => IsInjective(F[n + 1])
      <4>1. PICK q, f, e : q = F[n + 1] /\ f = F[n] /\ e = s[n + 1]
        OBVIOUS
      <4>2. f \in Seq(T) /\ e \in T /\ q = Append(f, e)
        BY <3>1, <4>1
      <4>3. q \in Seq(T) /\ Len(q) = Len(f) + 1
        BY <4>2, AppendProperties
      <4>4. ToSet(q) = ToSet(f) \cup {e}
        <5>1. /\ Len(f) \in Nat /\ DOMAIN q = 1 .. Len(f) + 1 /\ DOMAIN f = 1 .. Len(f)
              /\ \A i \in 1 .. Len(f) : q[i] = f[i]
              /\ q[Len(f) + 1] = e
          BY <4>2, AppendProperties, LenProperties
        <5> QED BY <5>1 DEF ToSet
      <4>5. IsInjective(f) /\ e \notin ToSet(f) => IsInjective(q)
        <5>1. ASSUME IsInjective(f), e \notin ToSet(f) PROVE IsInjective(q)
          BY <4>2, <5>1, AppendedInjective
        <5> QED BY <5>1
      <4>6. F[n + 1] \in Seq(T) /\ Len(F[n + 1]) = Len(F[n]) + 1
        BY <4>1, <4>3
      <4>7. ToSet(F[n + 1]) = ToSet(F[n]) \cup {s[n + 1]}
        BY <4>1, <4>4
      <4>8. IsInjective(F[n]) /\ s[n + 1] \notin ToSet(F[n]) => IsInjective(F[n + 1])
        BY <4>1, <4>5
      <4> QED BY <4>6, <4>7, <4>8
    <3>3. Len(F[n + 1]) <= n + 1
      BY <2>3, <3>2, LenProperties
    <3>4. IsInjective(s) => s[n + 1] \notin Upto(n)
      BY <1>1, <2>2 DEF IsInjective
    <3>5. ToSet(F[n + 1]) = Upto(n + 1) \cap S
      <4> HIDE DEF Upto
      <4> QED BY <2>3, <2>4, <2>7, <3>2
    <3>6. IsInjective(s) => IsInjective(F[n + 1])
      <4> HIDE DEF Upto
      <4> QED BY <2>3, <3>2, <3>4
    <3> QED BY <3>2, <3>3, <3>5, <3>6
  <2> QED BY <2>6, <2>7
<1>8. G = Nat
  <2> HIDE DEF G
  <2> G \in SUBSET Nat BY DEF G
  <2> QED BY <1>6, <1>7, InductionOverNat
<1>9. Good(Len(s))
  <2>1. Len(s) \in G
    BY <1>1, <1>8
  <2> QED BY <1>1, <2>1
<1>10. Upto(Len(s)) = ToSet(s)
  BY <1>1 DEF ToSet
<1> QED BY <1>5, <1>9, <1>10

----------------------------------------------------------------------------
(* What the journal says. *)

\* A line of the journal.
LEMMA LineFacts ==
  ASSUME NEW j \in Seq(Line), NEW i \in 1 .. Len(j)
  PROVE  j[i].run \in Run /\ j[i].status \in Statuses
<1>1. j[i] \in Line
  BY ElementOfSeq
<1> QED BY <1>1 DEF Line

\* The latest result of a run is its last line.
LEMMA LatestIs ==
  ASSUME NEW j \in Seq(Line), NEW c \in Run, NEW m \in 1 .. Len(j), j[m].run = c,
         \A i \in 1 .. Len(j) : j[i].run = c => i <= m
  PROVE  LatestStatus(j)[c] = j[m].status
<1> DEFINE at == {i \in DOMAIN j : j[i].run = c}
<1>1. Len(j) \in Nat /\ DOMAIN j = 1 .. Len(j)
  BY LenProperties
<1>2. at \in SUBSET (1 .. Len(j)) /\ m \in at /\ at # {}
  BY <1>1
<1>3. Max(at) \in at /\ \A x \in at : Max(at) >= x
  <2> HIDE DEF at
  <2> QED BY <1>1, <1>2, Greatest
<1>4. PICK t : t = Max(at)
  OBVIOUS
<1>5. t = m
  <2>1. t \in at /\ t >= m
    <3> HIDE DEF at
    <3> QED BY <1>2, <1>3, <1>4
  <2> QED BY <1>1, <2>1
<1>6. LatestStatus(j)[c] = IF at = {} THEN None ELSE j[Max(at)].status
  BY DEF LatestStatus
<1> HIDE DEF at
<1> QED BY <1>2, <1>4, <1>5, <1>6

\* A run that is in no line has no result.
LEMMA LatestNone ==
  ASSUME NEW j \in Seq(Line), NEW c \in Run,
         \A i \in 1 .. Len(j) : j[i].run # c
  PROVE  LatestStatus(j)[c] = None
<1> DEFINE at == {i \in DOMAIN j : j[i].run = c}
<1>1. DOMAIN j = 1 .. Len(j)
  BY LenProperties
<1>2. at = {}
  BY <1>1
<1>3. LatestStatus(j)[c] = IF at = {} THEN None ELSE j[Max(at)].status
  BY DEF LatestStatus
<1> HIDE DEF at
<1> QED BY <1>2, <1>3

\* One of the two is the case.
LEMMA LatestCases ==
  ASSUME NEW j \in Seq(Line), NEW c \in Run
  PROVE  \/ \A i \in 1 .. Len(j) : j[i].run # c
         \/ \E m \in 1 .. Len(j) :
              j[m].run = c /\ \A i \in 1 .. Len(j) : j[i].run = c => i <= m
<1> DEFINE at == {i \in 1 .. Len(j) : j[i].run = c}
<1>1. Len(j) \in Nat
  BY LenProperties
<1>2. CASE at = {}
  BY <1>2
<1>3. CASE at # {}
  <2>1. Max(at) \in at /\ \A x \in at : Max(at) >= x
    <3>1. at \in SUBSET (1 .. Len(j))
      OBVIOUS
    <3> HIDE DEF at
    <3> QED BY <1>1, <1>3, <3>1, Greatest
  <2>2. PICK t : t = Max(at)
    OBVIOUS
  <2>3. t \in at /\ \A x \in at : t >= x
    <3> HIDE DEF at
    <3> QED BY <2>1, <2>2
  <2> QED BY <2>3
<1> QED BY <1>2, <1>3

\* The results have their range.
LEMMA LatestRange ==
  ASSUME NEW j \in Seq(Line)
  PROVE  LatestStatus(j) \in [Run -> Statuses \cup {None}]
<1>1. ASSUME NEW c \in Run PROVE LatestStatus(j)[c] \in Statuses \cup {None}
  <2>1. CASE \A i \in 1 .. Len(j) : j[i].run # c
    BY <2>1, LatestNone
  <2>2. CASE \E m \in 1 .. Len(j) :
              j[m].run = c /\ \A i \in 1 .. Len(j) : j[i].run = c => i <= m
    BY <2>2, LatestIs, LineFacts
  <2> QED BY <2>1, <2>2, LatestCases
<1>2. LatestStatus(j) = [c \in Run |-> LatestStatus(j)[c]]
  BY DEF LatestStatus
<1> QED BY <1>1, <1>2

\* An empty journal has no result.
LEMMA LatestEmpty ==
  LatestStatus(<< >>) = NoResults
<1>1. << >> \in Seq(Line) /\ Len(<< >>) = 0
  OBVIOUS
<1>2. \A c \in Run : LatestStatus(<< >>)[c] = None
  <2>1. PICK j : j = << >>
    OBVIOUS
  <2>2. j \in Seq(Line) /\ \A i \in 1 .. Len(j) : FALSE
    BY <1>1, <2>1
  <2>3. \A c \in Run : LatestStatus(j)[c] = None
    BY <2>2, LatestNone
  <2> QED BY <2>1, <2>3
<1>3. LatestStatus(<< >>) = [c \in Run |-> LatestStatus(<< >>)[c]]
  BY DEF LatestStatus
<1> QED BY <1>2, <1>3 DEF NoResults

\* A line more sets the result of its run, and of no other.
LEMMA LatestAppended ==
  ASSUME NEW j \in Seq(Line), NEW l \in Line, NEW q, q = Append(j, l)
  PROVE  LatestStatus(q) = [LatestStatus(j) EXCEPT ![l.run] = l.status]
<1>1. /\ q \in Seq(Line) /\ Len(q) = Len(j) + 1 /\ Len(j) \in Nat
      /\ \A i \in 1 .. Len(j) : q[i] = j[i]
      /\ q[Len(j) + 1] = l
  BY Appended
<1>2. \A i \in 1 .. Len(q) : i \in 1 .. Len(j) \/ i = Len(j) + 1
  BY <1>1
<1>3. \A i \in 1 .. Len(j) : i \in 1 .. Len(q) /\ i <= Len(j) + 1
  BY <1>1
<1>4. Len(j) + 1 \in 1 .. Len(q)
  BY <1>1
<1>5. l.run \in Run
  BY DEF Line
<1>6. LatestStatus(q)[l.run] = l.status
  <2>1. \A i \in 1 .. Len(q) : q[i].run = l.run => i <= Len(j) + 1
    BY <1>1
  <2> QED BY <1>1, <1>4, <1>5, <2>1, LatestIs
<1>7. ASSUME NEW c \in Run, c # l.run PROVE LatestStatus(q)[c] = LatestStatus(j)[c]
  <2>1. CASE \A i \in 1 .. Len(j) : j[i].run # c
    <3>1. \A i \in 1 .. Len(q) : q[i].run # c
      BY <1>1, <1>2, <1>7, <2>1
    <3>2. LatestStatus(q)[c] = None
      BY <1>1, <3>1, LatestNone
    <3>3. LatestStatus(j)[c] = None
      BY <2>1, LatestNone
    <3> QED BY <3>2, <3>3
  <2>2. ASSUME NEW m \in 1 .. Len(j), j[m].run = c,
               \A i \in 1 .. Len(j) : j[i].run = c => i <= m
        PROVE  LatestStatus(q)[c] = LatestStatus(j)[c]
    <3>1. \A i \in 1 .. Len(q) : q[i].run = c => i <= m
      BY <1>1, <1>2, <1>7, <2>2
    <3>2. m \in 1 .. Len(q) /\ q[m] = j[m]
      BY <1>1, <1>3
    <3>3. LatestStatus(q)[c] = q[m].status
      BY <1>1, <2>2, <3>1, <3>2, LatestIs
    <3>4. LatestStatus(j)[c] = j[m].status
      BY <2>2, LatestIs
    <3> QED BY <3>2, <3>3, <3>4
  <2> QED BY <2>1, <2>2, LatestCases
<1>8. /\ LatestStatus(q) = [c \in Run |-> LatestStatus(q)[c]]
      /\ LatestStatus(j) = [c \in Run |-> LatestStatus(j)[c]]
  BY DEF LatestStatus
<1>9. PICK f, g : f = LatestStatus(q) /\ g = LatestStatus(j)
  OBVIOUS
<1>10. f = [g EXCEPT ![l.run] = l.status]
  <2>1. \A c \in Run : f[c] = IF c = l.run THEN l.status ELSE g[c]
    BY <1>5, <1>6, <1>7, <1>9
  <2>2. f = [c \in Run |-> f[c]] /\ g = [c \in Run |-> g[c]]
    BY <1>8, <1>9
  <2> QED BY <2>1, <2>2
<1> QED BY <1>9, <1>10

\* As nothing follows a PASS, it is the latest result of its run.
LEMMA PassIsLatest ==
  ASSUME journal \in Seq(Line), PassedOnce, Resume,
         NEW i \in 1 .. Len(journal), journal[i].status = "PASS"
  PROVE  Passed(journal[i].run)
<1>1. Len(journal) \in Nat /\ DOMAIN journal = 1 .. Len(journal)
  BY LenProperties
<1>2. \A j \in 1 .. Len(journal) : journal[j].run = journal[i].run => j <= i
  BY <1>1 DEF PassedOnce
<1>3. journal[i].run \in Run
  BY LineFacts
<1> QED BY <1>2, <1>3, LatestIs DEF Passed

----------------------------------------------------------------------------
(* What a step of a run touches. *)

\* Of all the runners only p gets to another step or result, ...
Advances(p) ==
  /\ step' \in [Runner -> TrySteps \cup FinalSteps \cup {"idle", "done"}]
  /\ outcome' \in [Runner -> Statuses \cup {None}]
  /\ \A q \in Runner \ {p} : step'[q] = step[q] /\ outcome'[q] = outcome[q]
  /\ step'[p] \in Stages
  /\ step'[p] \in Ending <=> outcome'[p] # None

\* ... or a handle,
Holds(p) ==
  /\ case' = case
  /\ made' \in [Runner -> SUBSET (Kind \cup {"attached"})]
  /\ \A q \in Runner \ {p} : made'[q] = made[q]

\* ... and only what the daemon has of its run changes.
Touches(c) ==
  /\ DaemonTyped'
  /\ \A d \in Run \ {c} : /\ \A k \in Kind : <<d, k>> \in exists' <=> <<d, k>> \in exists
                          /\ \A q \in Runner : <<q, d>> \in joined' <=> <<q, d>> \in joined

Moves(p) ==
  Advances(p) /\ Holds(p) /\ Touches(case[p]) /\ faults' \in faults .. MaxFaults

\* To another step, with the result as it is.
LEMMA Goes ==
  ASSUME RunnersTyped, NEW p \in Runner, NEW s \in Stages,
         s \in Ending <=> outcome[p] # None, step' = [step EXCEPT ![p] = s], outcome' = outcome
  PROVE  Advances(p) /\ step'[p] = s /\ outcome'[p] = outcome[p]
  BY DEF RunnersTyped, Advances, Stages

\* To the finally block, with a result.
LEMMA Concludes ==
  ASSUME RunnersTyped, NEW p \in Runner, NEW o \in Statuses, Conclude(p, o)
  PROVE  Advances(p) /\ step'[p] = "write result" /\ outcome'[p] = o
<1> o # None
  BY CampaignConfig DEF Statuses
<1> "write result" \in FinalSteps
  BY DEF FinalSteps
<1> QED BY DEF RunnersTyped, Advances, Stages, Ending, Conclude

\* In a loop of a step.
LEMMA Stays ==
  ASSUME RunnersTyped, NEW p \in Runner, step[p] \in Stages,
         step[p] \in Ending <=> outcome[p] # None, UNCHANGED <<step, outcome>>
  PROVE  Advances(p) /\ step'[p] = step[p] /\ outcome'[p] = outcome[p]
  BY DEF RunnersTyped, Advances

\* With one handle more.
LEMMA HoldsOne ==
  ASSUME RunnersTyped, NEW p \in Runner, NEW k \in Kind \cup {"attached"}, Hold(p, k)
  PROVE  Holds(p) /\ made'[p] = made[p] \cup {k}
  BY DEF RunnersTyped, Holds, Hold

\* With the handles it has.
LEMMA HoldsSame ==
  ASSUME RunnersTyped, NEW p \in Runner, UNCHANGED attempt
  PROVE  Holds(p) /\ made'[p] = made[p]
  BY DEF RunnersTyped, Holds, attempt

\* What leaves the daemon alone touches no run.
LEMMA Untouched ==
  ASSUME DaemonTyped, NEW c \in Run, UNCHANGED <<resources, ledger>>
  PROVE  Touches(c)
  BY DEF DaemonTyped, Touches, resources, ledger

\* A container is removed from its run, ...
LEMMA ContainerGone ==
  ASSUME DaemonTyped, NEW p \in Runner, case[p] \in Run, NEW k \in Container, RemoveContainer(p, k)
  PROVE  Touches(case[p])
  BY DEF DaemonTyped, Touches, RemoveContainer, ledger, Name

\* ... a network, with those attached to it, ...
LEMMA NetworkGone ==
  ASSUME DaemonTyped, NEW p \in Runner, case[p] \in Run, RemoveNetwork(p)
  PROVE  Touches(case[p])
  BY CaseConfig DEF DaemonTyped, Touches, RemoveNetwork, ledger, Name, Container

\* ... a volume, with the ledger in it.
LEMMA VolumeGone ==
  ASSUME DaemonTyped, NEW p \in Runner, case[p] \in Run, RemoveVolume(p)
  PROVE  Touches(case[p])
  BY CaseConfig DEF DaemonTyped, Touches, RemoveVolume, ledger, Name, Container

\* What is created is created in its run, and may be started.
LEMMA Created ==
  ASSUME DaemonTyped, NEW p \in Runner, case[p] \in Run, NEW k \in Kind,
         exists' = exists \cup {Name(p, k)}, 
         \/ running' = running
         \/ k \in Container /\ running' = running \cup {Name(p, k)},
         UNCHANGED <<joined, passed, ledger>>
  PROVE  Touches(case[p])
  BY DEF DaemonTyped, Touches, ledger, Name

\* The runner is attached to the network of its run.
LEMMA NetworkJoined ==
  ASSUME DaemonTyped, NEW p \in Runner, case[p] \in Run,
         joined' = joined \cup {<<p, case[p]>>}, UNCHANGED <<exists, running, passed, ledger>>
  PROVE  Touches(case[p])
<1>1. joined' \subseteq Runner \X Run
  BY DEF DaemonTyped
<1> QED BY <1>1 DEF DaemonTyped, Touches, ledger

\* After an outage the gateway of the run is started again.
LEMMA GatewayStarted ==
  ASSUME DaemonTyped, NEW p \in Runner, case[p] \in Run, Name(p, "gateway") \in exists,
         running' = running \cup {Name(p, "gateway")}, UNCHANGED <<exists, joined, passed, ledger>>
  PROVE  Touches(case[p])
  BY DEF DaemonTyped, Touches, ledger, Name, Container

\* The smaller of two numbers.
LEMMA SmallerOfTwo ==
  ASSUME NEW a \in Nat, NEW b \in Nat
  PROVE  Min({a, b}) = IF a <= b THEN a ELSE b
<1>1. \E x \in {a, b} : \A y \in {a, b} : x <= y
  BY SMT
<1>2. Min({a, b}) \in {a, b} /\ Min({a, b}) <= a /\ Min({a, b}) <= b
  BY <1>1 DEF Min
<1> QED BY <1>2

\* A block takes no more events than are pending.
LEMMA BlockTaken ==
  ASSUME DaemonTyped, NEW c \in Run
  PROVE  NextBlock(c) \in 0 .. BlockSize /\ pending[c] - NextBlock(c) \in Nat
<1>1. pending[c] \in Nat /\ BlockSize \in Nat
  BY CaseConfig DEF DaemonTyped
<1>2. PICK m : m = NextBlock(c)
  OBVIOUS
<1>3. m = IF BlockSize <= pending[c] THEN BlockSize ELSE pending[c]
  BY <1>1, <1>2, SmallerOfTwo DEF NextBlock
<1> QED BY <1>1, <1>2, <1>3

\* It is taken from those that are pending, and is final or only proposed.
LEMMA BlockSealed ==
  ASSUME DaemonTyped, NEW c \in Run, pending[c] > 0,
         pending' = [pending EXCEPT ![c] = @ - NextBlock(c)],
         \/ proposed' = proposed
         \/ proposed' = [proposed EXCEPT ![c] = NextBlock(c)],
         UNCHANGED <<resources, stored>>
  PROVE  Touches(c)
<1>1. PICK m, n : m = NextBlock(c) /\ n = pending[c] - NextBlock(c)
  OBVIOUS
<1>2. m \in 0 .. BlockSize /\ n \in Nat
  BY <1>1, BlockTaken
<1>3. pending' = [pending EXCEPT ![c] = n]
  BY <1>1
<1>4. pending' \in [Run -> Nat] /\ proposed' \in [Run -> 0 .. BlockSize]
  BY <1>1, <1>2, <1>3 DEF DaemonTyped
<1> QED BY <1>4 DEF DaemonTyped, Touches, resources

\* Every step of a run moves its runner only, and touches its run only.
LEMMA RunStepMoves ==
  ASSUME DaemonTyped, RunnersTyped, faults \in 0 .. MaxFaults, NEW p \in Runner, case[p] \in Run,
         step[p] \in Ending <=> outcome[p] # None, RunStep(p),
         step[p] = "restart" => Name(p, "gateway") \in exists
  PROVE  Moves(p)
<1>0. /\ MaxFaults \in Nat /\ faults \in faults .. MaxFaults
      /\ Fault => faults' \in faults .. MaxFaults
      /\ {"PASS", "FAIL"} = Statuses
      /\ {"network", "volume", "gateway"} \subseteq Kind /\ Worker \subseteq Kind
      /\ "gateway" \in Container
      /\ Worker \subseteq Container /\ Container \subseteq Kind
  BY CaseConfig DEF Fault, Statuses, Kind, Container
<1>s. /\ \A s \in TrySteps : s \in Stages /\ s \notin Ending
      /\ \A s \in FinalSteps \cup {"done"} : s \in Stages /\ s \in Ending
  BY DEF Stages, Ending, TrySteps, FinalSteps
<1>n. /\ {"stale containers", "stale networks", "stale volumes", "network", "volume",
             "connect", "gateway", "health", "workers", "restart", "wait", "collect",
             "seal", "verify"} = TrySteps
      /\ {"write result", "remove workers", "remove gateway", "disconnect",
               "remove network", "remove volume"} = FinalSteps
  BY DEF TrySteps, FinalSteps
<1> USE <1>0, <1>s, <1>n
<1>1. CASE StaleContainers(p)
  <2>1. Advances(p)
    BY <1>1, Goes, Stays DEF StaleContainers, Goto, At
  <2>2. Holds(p)
    BY <1>1, HoldsSame DEF StaleContainers
  <2>3. Touches(case[p])
    BY <1>1, ContainerGone, Untouched DEF StaleContainers, At, resources, ledger
  <2>4. faults' \in faults .. MaxFaults
    BY <1>1 DEF StaleContainers
  <2> QED BY <2>1, <2>2, <2>3, <2>4 DEF Moves
<1>2. CASE StaleNetworks(p)
  <2>1. Advances(p)
    BY <1>2, Goes, Concludes DEF StaleNetworks, Goto, Raise, At
  <2>2. Holds(p)
    BY <1>2, HoldsSame DEF StaleNetworks
  <2>3. Touches(case[p])
    <3>1. CASE NetworkBusy(p, {p})
      BY <1>2, <3>1 DEF StaleNetworks, DaemonTyped, Touches, ledger
    <3>2. CASE ~ NetworkBusy(p, {p})
      BY <1>2, <3>2, NetworkGone DEF StaleNetworks
    <3> QED BY <3>1, <3>2
  <2>4. faults' \in faults .. MaxFaults
    BY <1>2 DEF StaleNetworks
  <2> QED BY <2>1, <2>2, <2>3, <2>4 DEF Moves
<1>3. CASE StaleVolumes(p)
  <2>1. Advances(p)
    BY <1>3, Goes, Concludes DEF StaleVolumes, Goto, Raise, At
  <2>2. Holds(p)
    BY <1>3, HoldsSame DEF StaleVolumes
  <2>3. Touches(case[p])
    BY <1>3, VolumeGone, Untouched DEF StaleVolumes, At, resources, ledger
  <2>4. faults' \in faults .. MaxFaults
    BY <1>3 DEF StaleVolumes
  <2> QED BY <2>1, <2>2, <2>3, <2>4 DEF Moves
<1>4. CASE CreateNetwork(p)
  <2>1. Advances(p)
    BY <1>4, Goes, Concludes DEF CreateNetwork, Goto, Raise, At
  <2>2. Holds(p)
    BY <1>4, HoldsOne, HoldsSame DEF CreateNetwork
  <2>3. Touches(case[p])
    <3>1. CASE Name(p, "network") \in exists
      BY <1>4, <3>1, Untouched DEF CreateNetwork, resources
    <3>2. CASE Name(p, "network") \notin exists
      <4>1. /\ exists' = exists \cup {Name(p, "network")} /\ running' = running
            /\ UNCHANGED <<joined, passed, ledger>>
        BY <1>4, <3>2 DEF CreateNetwork
      <4> QED BY <4>1, Created
    <3> QED BY <3>1, <3>2
  <2>4. faults' \in faults .. MaxFaults
    BY <1>4 DEF CreateNetwork
  <2> QED BY <2>1, <2>2, <2>3, <2>4 DEF Moves
<1>5. CASE CreateVolume(p)
  <2>1. Advances(p)
    BY <1>5, Goes DEF CreateVolume, Goto, At
  <2>2. Holds(p)
    BY <1>5, HoldsOne DEF CreateVolume
  <2>3. Touches(case[p])
    <3>1. /\ exists' = exists \cup {Name(p, "volume")} /\ running' = running
          /\ UNCHANGED <<joined, passed, ledger>>
      BY <1>5 DEF CreateVolume
    <3> QED BY <3>1, Created
  <2>4. faults' \in faults .. MaxFaults
    BY <1>5 DEF CreateVolume
  <2> QED BY <2>1, <2>2, <2>3, <2>4 DEF Moves
<1>6. CASE Connect(p)
  <2>1. Advances(p)
    BY <1>6, Goes DEF Connect, Goto, At
  <2>2. Holds(p)
    BY <1>6, HoldsOne DEF Connect
  <2>3. Touches(case[p])
    BY <1>6, NetworkJoined DEF Connect
  <2>4. faults' \in faults .. MaxFaults
    BY <1>6 DEF Connect
  <2> QED BY <2>1, <2>2, <2>3, <2>4 DEF Moves
<1>7. CASE RunGateway(p)
  <2>1. Advances(p)
    BY <1>7, Goes, Concludes DEF RunGateway, RunContainer, Goto, Raise, At
  <2>2. Holds(p)
    BY <1>7, HoldsOne, HoldsSame DEF RunGateway, RunContainer
  <2>3. Touches(case[p])
    BY <1>7, Created, Untouched DEF RunGateway, RunContainer, At, resources, ledger
  <2>4. faults' \in faults .. MaxFaults
    BY <1>7 DEF RunGateway, RunContainer
  <2> QED BY <2>1, <2>2, <2>3, <2>4 DEF Moves
<1>8. CASE Healthy(p)
  <2>1. Advances(p)
    BY <1>8, Goes DEF Healthy, Goto, At
  <2>2. Holds(p)
    BY <1>8, HoldsSame DEF Healthy
  <2>3. Touches(case[p])
    BY <1>8 DEF Healthy, DaemonTyped, Touches, Name, resources, ledger
  <2>4. faults' \in faults .. MaxFaults
    BY <1>8 DEF Healthy
  <2> QED BY <2>1, <2>2, <2>3, <2>4 DEF Moves
<1>9. CASE RunWorkers(p)
  <2>1. Advances(p)
    BY <1>9, Goes, Concludes DEF RunWorkers, RunContainer, Goto, Raise, At
  <2>2. Holds(p)
    BY <1>9, HoldsOne, HoldsSame DEF RunWorkers, RunContainer
  <2>3. Touches(case[p])
    BY <1>9, Created, Untouched DEF RunWorkers, RunContainer, At, resources, ledger
  <2>4. faults' \in faults .. MaxFaults
    BY <1>9 DEF RunWorkers, RunContainer
  <2> QED BY <2>1, <2>2, <2>3, <2>4 DEF Moves
<1>10. CASE Restart(p)
  <2>1. Advances(p)
    BY <1>10, Goes DEF Restart, Goto, At
  <2>2. Holds(p)
    BY <1>10, HoldsSame DEF Restart
  <2>3. Touches(case[p])
    BY <1>10, GatewayStarted DEF Restart, At
  <2>4. faults' \in faults .. MaxFaults
    BY <1>10 DEF Restart
  <2> QED BY <2>1, <2>2, <2>3, <2>4 DEF Moves
<1>11. CASE Wait(p)
  <2>1. Advances(p)
    BY <1>11, Goes, Concludes DEF Wait, Goto, Raise, At
  <2>2. Holds(p)
    BY <1>11, HoldsSame DEF Wait
  <2>3. Touches(case[p])
    BY <1>11, Untouched DEF Wait, At, resources, ledger
  <2>4. faults' \in faults .. MaxFaults
    BY <1>11 DEF Wait
  <2> QED BY <2>1, <2>2, <2>3, <2>4 DEF Moves
<1>12. CASE Collect(p)
  <2>1. Advances(p)
    BY <1>12, Goes, Concludes DEF Collect, Goto, Raise, At
  <2>2. Holds(p)
    BY <1>12, HoldsSame DEF Collect
  <2>3. Touches(case[p])
    BY <1>12, Untouched DEF Collect, At, resources, ledger
  <2>4. faults' \in faults .. MaxFaults
    BY <1>12 DEF Collect
  <2> QED BY <2>1, <2>2, <2>3, <2>4 DEF Moves
<1>13. CASE Seal(p)
  <2>1. Advances(p)
    BY <1>13, Goes, Stays, Concludes DEF Seal, Goto, Raise, At
  <2>2. Holds(p)
    BY <1>13, HoldsSame DEF Seal
  <2>3. Touches(case[p])
    <3>1. CASE UNCHANGED pending
      BY <1>13, <3>1, Untouched DEF Seal, ledger
    <3>2. CASE /\ pending[case[p]] > 0
               /\ pending' = [pending EXCEPT ![case[p]] = @ - NextBlock(case[p])]
      BY <1>13, <3>2, BlockSealed DEF Seal
    <3> QED BY <1>13, <3>1, <3>2 DEF Seal
  <2>4. faults' \in faults .. MaxFaults
    BY <1>13 DEF Seal
  <2> QED BY <2>1, <2>2, <2>3, <2>4 DEF Moves
<1>22. CASE SealFails(p)
  <2>1. Advances(p)
    BY <1>22, Concludes DEF SealFails, Raise
  <2>2. Holds(p)
    BY <1>22, HoldsSame DEF SealFails
  <2>3. Touches(case[p])
    BY <1>22, BlockSealed DEF SealFails
  <2>4. faults' \in faults .. MaxFaults
    BY <1>22 DEF SealFails
  <2> QED BY <2>1, <2>2, <2>3, <2>4 DEF Moves
<1>14. CASE Verify(p)
  <2>1. Advances(p)
    BY <1>14, Concludes DEF Verify, At
  <2>2. Holds(p)
    BY <1>14, HoldsSame DEF Verify
  <2>3. Touches(case[p])
    BY <1>14, Untouched DEF Verify, At, resources, ledger
  <2>4. faults' \in faults .. MaxFaults
    BY <1>14 DEF Verify
  <2> QED BY <2>1, <2>2, <2>3, <2>4 DEF Moves
<1>15. CASE TryFault(p)
  <2>1. Advances(p)
    BY <1>15, Concludes DEF TryFault, Raise, At
  <2>2. Holds(p)
    BY <1>15, HoldsSame DEF TryFault
  <2>3. Touches(case[p])
    <3>1. CASE UNCHANGED exists
      BY <1>15, <3>1, Untouched DEF TryFault, resources
    <3>2. ASSUME NEW k \in Starting(p), exists' = exists \cup {Name(p, k)}
          PROVE  Touches(case[p])
      <4>1. k \in Kind
        BY DEF Starting
      <4>2. running' = running /\ UNCHANGED <<joined, passed, ledger>>
        BY <1>15 DEF TryFault
      <4> QED BY <3>2, <4>1, <4>2, Created
    <3> QED BY <1>15, <3>1, <3>2 DEF TryFault
  <2>4. faults' \in faults .. MaxFaults
    BY <1>15 DEF TryFault, Fault
  <2> QED BY <2>1, <2>2, <2>3, <2>4 DEF Moves
<1>16. CASE WriteResult(p)
  <2>1. Advances(p)
    BY <1>16, Goes DEF WriteResult, Goto, At
  <2>2. Holds(p)
    BY <1>16, HoldsSame DEF WriteResult
  <2>3. Touches(case[p])
    BY <1>16, Untouched DEF WriteResult, At, resources, ledger
  <2>4. faults' \in faults .. MaxFaults
    BY <1>16 DEF WriteResult
  <2> QED BY <2>1, <2>2, <2>3, <2>4 DEF Moves
<1>17. CASE RemoveWorkers(p)
  <2>1. Advances(p)
    BY <1>17, Goes, Stays DEF RemoveWorkers, Ignored, At
  <2>2. Holds(p)
    BY <1>17, HoldsSame DEF RemoveWorkers
  <2>3. Touches(case[p])
    BY <1>17, ContainerGone, Untouched DEF RemoveWorkers, Ignored, At, resources, ledger
  <2>4. faults' \in faults .. MaxFaults
    BY <1>17 DEF RemoveWorkers, Ignored, Fault
  <2> QED BY <2>1, <2>2, <2>3, <2>4 DEF Moves
<1>18. CASE RemoveGateway(p)
  <2>1. Advances(p)
    BY <1>18, Goes DEF RemoveGateway, Ignored, Goto, At
  <2>2. Holds(p)
    BY <1>18, HoldsSame DEF RemoveGateway
  <2>3. Touches(case[p])
    BY <1>18, ContainerGone, Untouched DEF RemoveGateway, Ignored, At, resources, ledger
  <2>4. faults' \in faults .. MaxFaults
    BY <1>18 DEF RemoveGateway, Ignored, Fault
  <2> QED BY <2>1, <2>2, <2>3, <2>4 DEF Moves
<1>19. CASE Disconnect(p)
  <2>1. Advances(p)
    BY <1>19, Goes DEF Disconnect, Ignored, Goto, At
  <2>2. Holds(p)
    BY <1>19, HoldsSame DEF Disconnect
  <2>3. Touches(case[p])
    BY <1>19 DEF Disconnect, DaemonTyped, Touches, Name, resources, ledger, Ignored
  <2>4. faults' \in faults .. MaxFaults
    BY <1>19 DEF Disconnect, Ignored, Fault
  <2> QED BY <2>1, <2>2, <2>3, <2>4 DEF Moves
<1>20. CASE RemoveTheNetwork(p)
  <2>1. Advances(p)
    BY <1>20, Goes DEF RemoveTheNetwork, Ignored, Goto, At
  <2>2. Holds(p)
    BY <1>20, HoldsSame DEF RemoveTheNetwork
  <2>3. Touches(case[p])
    BY <1>20, NetworkGone, Untouched DEF RemoveTheNetwork, Ignored, At, resources, ledger
  <2>4. faults' \in faults .. MaxFaults
    BY <1>20 DEF RemoveTheNetwork, Ignored, Fault
  <2> QED BY <2>1, <2>2, <2>3, <2>4 DEF Moves
<1>21. CASE RemoveTheVolume(p)
  <2>1. Advances(p)
    BY <1>21, Goes DEF RemoveTheVolume, Ignored, Goto, At
  <2>2. Holds(p)
    BY <1>21, HoldsSame DEF RemoveTheVolume
  <2>3. Touches(case[p])
    BY <1>21, VolumeGone, Untouched DEF RemoveTheVolume, Ignored, At, resources, ledger
  <2>4. faults' \in faults .. MaxFaults
    BY <1>21 DEF RemoveTheVolume, Ignored, Fault
  <2> QED BY <2>1, <2>2, <2>3, <2>4 DEF Moves
<1> QED BY <1>1, <1>2, <1>3, <1>4, <1>5, <1>6, <1>7, <1>8, <1>9, <1>10, <1>11, <1>12,
           <1>13, <1>14, <1>15, <1>16, <1>17, <1>18, <1>19, <1>20, <1>21, <1>22 DEF RunStep

----------------------------------------------------------------------------
(* What a step of a run makes of the attempt. *)

\* Nothing is asked of an attempt that has failed, ...
LEMMA Failed ==
  ASSUME NEW p \in Runner, step'[p] = "write result", outcome'[p] = "FAIL"
  PROVE  Attempt(p)'
  BY DEF Attempt, Provisioned, Delivered, Removed, Provisioning, Executing

\* ... of one whose result is written only what is left of its removal, ...
LEMMA InFinally ==
  ASSUME NEW p \in Runner, step'[p] \in Ending \ {"write result"}, Removed(p)'
  PROVE  Attempt(p)'
  BY DEF Attempt, Provisioned, Delivered, Provisioning, Executing, Ending, FinalSteps

\* ... and of one that has no result nothing about its removal.
LEMMA InTry ==
  ASSUME NEW p \in Runner, outcome'[p] = None, Provisioned(p)', Delivered(p)'
  PROVE  Attempt(p)'
  BY CampaignConfig DEF Attempt, Removed

\* When no container is left of the attempts before, the next is the network.
LEMMA StaleContainersAttempt ==
  ASSUME DaemonTyped, RunnersTyped, NEW p \in Runner, case[p] \in Run, outcome[p] = None,
         Attempt(p), StaleContainers(p)
  PROVE  Attempt(p)'
<1>1. made[p] = {} /\ made'[p] = {} /\ outcome'[p] = None /\ case'[p] = case[p]
  <2>1. made[p] = {}
   BY CaseConfig DEF StaleContainers, At, Attempt, Provisioned
  <2>2. outcome' = outcome
   BY DEF StaleContainers, Goto
  <2> QED BY <2>1, <2>2 DEF StaleContainers, attempt
<1>2. CASE step' = step
  <2>1. step'[p] = "stale containers"
    BY <1>2 DEF StaleContainers, At
  <2>2. Provisioned(p)'
    BY <1>1, <2>1 DEF Provisioned, Provisioning, Executing
  <2>3. Delivered(p)'
    BY <2>1 DEF Delivered, Provisioning, Executing
  <2> QED BY <1>1, <2>2, <2>3, InTry
<1>3. CASE exists \cap Containers(p) = {} /\ Goto(p, "stale networks") /\ UNCHANGED resources
  <2>1. step'[p] = "stale networks"
    BY <1>3 DEF Goto, RunnersTyped
  <2>2. Of(case[p])' \cap Container = {}
    <3>1. \A k \in Container : <<case[p], k>> \notin exists
      <4>1. \A k \in Container : <<case[p], k>> \in Containers(p)
        BY DEF Containers
      <4> HIDE DEF Containers
      <4> QED BY <1>3, <4>1
    <3> QED BY <1>1, <1>3, <3>1 DEF Of, resources
  <2>4. Provisioned(p)'
    BY <1>1, <2>1, <2>2 DEF Provisioned, Provisioning, Executing
  <2>3. Delivered(p)'
    BY <2>1 DEF Delivered, Provisioning, Executing
  <2> QED BY <1>1, <2>3, <2>4, InTry
<1> QED BY <1>2, <1>3 DEF StaleContainers

\* A network that is free is removed, and everybody's attachment with it.
LEMMA StaleNetworksAttempt ==
  ASSUME DaemonTyped, RunnersTyped, NEW p \in Runner, case[p] \in Run, outcome[p] = None,
         Attempt(p), StaleNetworks(p)
  PROVE  Attempt(p)'
<1>1. CASE NetworkBusy(p, {p})
  <2>1. Raise(p)
    BY <1>1 DEF StaleNetworks
  <2>2. step'[p] = "write result" /\ outcome'[p] = "FAIL"
    BY <2>1, Concludes DEF Raise, Statuses
  <2> QED BY <2>2, Failed
<1>2. CASE ~ NetworkBusy(p, {p})
  <2>1. Goto(p, "stale volumes") /\ RemoveNetwork(p)
    BY <1>2 DEF StaleNetworks
  <2>2. step'[p] = "stale volumes" /\ outcome'[p] = None
    BY <2>1 DEF Goto, RunnersTyped
  <2>3. made[p] = {} /\ Of(case[p]) \cap Container = {}
    BY CaseConfig DEF StaleNetworks, At, Attempt, Provisioned
  <2>4. made'[p] = {} /\ case'[p] = case[p]
    BY <2>3 DEF StaleNetworks, attempt
  <2>5. Provisioned(p)'
    <3>1. /\ Of(case[p])' \cap Container = {} /\ "network" \notin Of(case[p])'
          /\ Attached(case[p])' = {}
      BY <2>1, <2>3, <2>4 DEF RemoveNetwork, Of, Attached, Name, Container
    <3> QED BY <2>2, <2>4, <3>1 DEF Provisioned, Provisioning, Executing
  <2>6. Delivered(p)'
    BY <2>2 DEF Delivered, Provisioning, Executing
  <2> QED BY <2>2, <2>5, <2>6, InTry
<1> QED BY <1>1, <1>2

\* With the volume the ledger goes, and the last of what was there.
LEMMA StaleVolumesAttempt ==
  ASSUME DaemonTyped, RunnersTyped, NEW p \in Runner, case[p] \in Run, outcome[p] = None,
         Attempt(p), StaleVolumes(p)
  PROVE  Attempt(p)'
<1>1. CASE VolumeBusy(p)
  <2>1. Raise(p)
    BY <1>1 DEF StaleVolumes
  <2>2. step'[p] = "write result" /\ outcome'[p] = "FAIL"
    BY <2>1, Concludes DEF Raise, Statuses
  <2> QED BY <2>2, Failed
<1>2. CASE ~ VolumeBusy(p)
  <2>1. Goto(p, "network") /\ RemoveVolume(p)
    BY <1>2 DEF StaleVolumes
  <2>2. step'[p] = "network" /\ outcome'[p] = None
    BY <2>1 DEF Goto, RunnersTyped
  <2>3. /\ made[p] = {} /\ Of(case[p]) \cap Container = {} /\ "network" \notin Of(case[p])
        /\ Attached(case[p]) \subseteq {p}
    BY CaseConfig DEF StaleVolumes, At, Attempt, Provisioned
  <2>4. made'[p] = {} /\ case'[p] = case[p]
    BY <2>3 DEF StaleVolumes, attempt
  <2>5. Of(case[p])' = {} 
    BY <2>1, <2>3, <2>4 DEF RemoveVolume, Of, Name, Container, Kind
  <2>6. Attached(case[p])' \subseteq {p}
    BY <2>1, <2>3, <2>4 DEF RemoveVolume, Attached
  <2>7. stored'[case'[p]] = {} /\ pending'[case'[p]] = 0 /\ proposed'[case'[p]] = 0
    BY <2>1, <2>4 DEF RemoveVolume, DaemonTyped
  <2>8. Provisioned(p)'
    BY <2>2, <2>4, <2>5, <2>6, <2>7 DEF Provisioned, Provisioning, Executing
  <2>9. Delivered(p)'
    <3>1. \A w \in Worker : <<case[p], w>> \notin passed
      BY <2>3 DEF Of, DaemonTyped, Container, Kind
    <3> QED BY <2>1, <2>2, <2>4, <2>7, <3>1 DEF Delivered, WholeBlocks, RemoveVolume
  <2> QED BY <2>2, <2>8, <2>9, InTry
<1> QED BY <1>1, <1>2

\* What there is now of the run, this attempt has made.
LEMMA CreateNetworkAttempt ==
  ASSUME DaemonTyped, RunnersTyped, NEW p \in Runner, case[p] \in Run, outcome[p] = None,
         Attempt(p), CreateNetwork(p)
  PROVE  Attempt(p)'
<1>1. CASE Name(p, "network") \in exists
  <2>1. Raise(p)
    BY <1>1 DEF CreateNetwork
  <2>2. step'[p] = "write result" /\ outcome'[p] = "FAIL"
    BY <2>1, Concludes DEF Raise, Statuses
  <2> QED BY <2>2, Failed
<1>2. CASE Name(p, "network") \notin exists
  <2>1. /\ Goto(p, "volume") /\ Hold(p, "network") /\ exists' = exists \cup {Name(p, "network")}
        /\ UNCHANGED <<joined, passed, stored, pending, proposed>>
    BY <1>2 DEF CreateNetwork, ledger
  <2>2. step'[p] = "volume" /\ outcome'[p] = None
    BY <2>1 DEF Goto, RunnersTyped
  <2>3. /\ made[p] = {} /\ Of(case[p]) \subseteq made[p]
        /\ Attached(case[p]) \subseteq {p} /\ stored[case[p]] = {} /\ pending[case[p]] = 0 /\ proposed[case[p]] = 0
    BY CaseConfig DEF CreateNetwork, At, Attempt, Provisioned, Provisioning
  <2>4. made'[p] = {"network"} /\ case'[p] = case[p]
    BY <2>1, <2>3 DEF Hold, RunnersTyped
  <2>5. Of(case[p])' \subseteq {"network"}
    BY <2>1, <2>3, <2>4 DEF Of, Name
  <2>6. Attached(case[p])' \subseteq {p}
    BY <2>1, <2>3, <2>4 DEF Attached
  <2>7. Provisioned(p)'
    BY <2>1, <2>2, <2>3, <2>4, <2>5, <2>6 DEF Provisioned
  <2>8. Delivered(p)'
    <3>1. \A w \in Worker : <<case[p], w>> \notin passed
      BY <2>3 DEF Of, DaemonTyped, Container, Kind
    <3> QED BY <2>1, <2>2, <2>3, <2>4, <3>1 DEF Delivered, WholeBlocks
  <2> QED BY <2>2, <2>7, <2>8, InTry
<1> QED BY <1>1, <1>2

\* The volume is new, so it is empty.
LEMMA CreateVolumeAttempt ==
  ASSUME DaemonTyped, RunnersTyped, NEW p \in Runner, case[p] \in Run, outcome[p] = None,
         Attempt(p), CreateVolume(p)
  PROVE  Attempt(p)'
<1>1. /\ Goto(p, "connect") /\ Hold(p, "volume") /\ exists' = exists \cup {Name(p, "volume")}
      /\ UNCHANGED <<joined, passed, stored, pending, proposed>>
  BY DEF CreateVolume, ledger
<1>2. step'[p] = "connect" /\ outcome'[p] = None
  BY <1>1 DEF Goto, RunnersTyped
<1>3. /\ made[p] \subseteq {"network"} /\ Of(case[p]) \subseteq made[p]
      /\ Attached(case[p]) \subseteq {p} /\ stored[case[p]] = {} /\ pending[case[p]] = 0 /\ proposed[case[p]] = 0
  BY CaseConfig DEF CreateVolume, At, Attempt, Provisioned, Provisioning
<1>4. made'[p] = made[p] \cup {"volume"} /\ case'[p] = case[p]
  BY <1>1, <1>3 DEF Hold, RunnersTyped
<1>5. Of(case[p])' \subseteq made[p] \cup {"volume"}
  BY <1>1, <1>3, <1>4 DEF Of, Name
<1>6. Attached(case[p])' \subseteq {p}
  BY <1>1, <1>3, <1>4 DEF Attached
<1>7. Provisioned(p)'
  BY <1>1, <1>2, <1>3, <1>4, <1>5, <1>6 DEF Provisioned
<1>8. Delivered(p)'
  <2>1. \A w \in Worker : <<case[p], w>> \notin passed
    BY CaseConfig, <1>3 DEF Of, DaemonTyped, Container, Kind
  <2> QED BY <1>1, <1>2, <1>3, <1>4, <2>1 DEF Delivered, WholeBlocks
<1> QED BY <1>2, <1>7, <1>8, InTry

\* Only this runner is attached.
LEMMA ConnectAttempt ==
  ASSUME DaemonTyped, RunnersTyped, NEW p \in Runner, case[p] \in Run, outcome[p] = None,
         Attempt(p), Connect(p)
  PROVE  Attempt(p)'
<1>1. /\ Goto(p, "gateway") /\ Hold(p, "attached") /\ joined' = joined \cup {<<p, case[p]>>}
      /\ UNCHANGED <<exists, passed, stored, pending, proposed>>
  BY DEF Connect, ledger
<1>2. step'[p] = "gateway" /\ outcome'[p] = None
  BY <1>1 DEF Goto, RunnersTyped
<1>3. /\ made[p] \subseteq {"network", "volume"} /\ Of(case[p]) \subseteq made[p]
      /\ Attached(case[p]) \subseteq {p} /\ stored[case[p]] = {} /\ pending[case[p]] = 0 /\ proposed[case[p]] = 0
  BY CaseConfig DEF Connect, At, Attempt, Provisioned, Provisioning
<1>4. made'[p] = made[p] \cup {"attached"} /\ case'[p] = case[p]
  BY <1>1, <1>3 DEF Hold, RunnersTyped
<1>5. Of(case[p])' \subseteq made[p]
  BY <1>1, <1>3, <1>4 DEF Of
<1>6. Attached(case[p])' \subseteq {p}
  BY <1>1, <1>3, <1>4 DEF Attached
<1>7. Provisioned(p)'
  BY <1>1, <1>2, <1>3, <1>4, <1>5, <1>6 DEF Provisioned
<1>8. Delivered(p)'
  <2>1. \A w \in Worker : <<case[p], w>> \notin passed
    BY CaseConfig, <1>3 DEF Of, DaemonTyped, Container, Kind
  <2> QED BY <1>1, <1>2, <1>3, <1>4, <2>1 DEF Delivered, WholeBlocks
<1> QED BY <1>2, <1>7, <1>8, InTry

\* From here on the ledger fills.
LEMMA RunGatewayAttempt ==
  ASSUME DaemonTyped, RunnersTyped, NEW p \in Runner, case[p] \in Run, outcome[p] = None,
         Attempt(p), RunGateway(p)
  PROVE  Attempt(p)'
<1>1. CASE Name(p, "gateway") \in exists
  <2>1. Raise(p)
    BY <1>1 DEF RunGateway, RunContainer
  <2>2. step'[p] = "write result" /\ outcome'[p] = "FAIL"
    BY <2>1, Concludes DEF Raise, Statuses
  <2> QED BY <2>2, Failed
<1>2. CASE Name(p, "gateway") \notin exists
  <2>1. /\ Goto(p, "health") /\ Hold(p, "gateway") /\ exists' = exists \cup {Name(p, "gateway")}
        /\ UNCHANGED <<joined, passed, stored, pending, proposed>>
    BY <1>2 DEF RunGateway, RunContainer, ledger
  <2>2. step'[p] = "health" /\ outcome'[p] = None
    BY <2>1 DEF Goto, RunnersTyped
  <2>3. /\ Of(case[p]) \subseteq made[p] /\ Attached(case[p]) \subseteq {p}
        /\ \A w \in Worker : <<case[p], w>> \in passed => w \in stored[case[p]]
        /\ WholeBlocks(case[p])
    BY CaseConfig DEF RunGateway, At, Attempt, Provisioned, Delivered, Provisioning
  <2>4. made'[p] = made[p] \cup {"gateway"} /\ case'[p] = case[p]
    BY <2>1 DEF Hold, RunnersTyped
  <2>5. Of(case[p])' \subseteq made'[p] /\ "gateway" \in Of(case[p])'
    BY <2>1, <2>3, <2>4 DEF Of, Name, Kind, Container
  <2>6. Attached(case[p])' \subseteq {p}
    BY <2>1, <2>3, <2>4 DEF Attached
  <2>7. Provisioned(p)'
    BY <2>1, <2>2, <2>3, <2>4, <2>5, <2>6 DEF Provisioned
  <2>8. Delivered(p)'
    BY <2>1, <2>2, <2>3, <2>4 DEF Delivered, WholeBlocks
  <2> QED BY <2>2, <2>7, <2>8, InTry
<1> QED BY <1>1, <1>2

Later == {"health", "workers"} \cup Executing

\* A step that only goes on, and creates and removes nothing.
LEMMA Continues ==
  ASSUME NEW p \in Runner, Attempt(p), case[p] # None, step[p] \in Later, step'[p] \in Later,
         outcome'[p] = None, case'[p] = case[p], made'[p] = made[p],
         UNCHANGED <<exists, joined, passed, stored, proposed>>,
         step'[p] \in {"health", "workers", "restart"} => "gateway" \in Of(case[p]),
         step'[p] \in {"seal", "verify"} => {case[p]} \X Worker \subseteq passed,
         step'[p] = "verify" => pending'[case[p]] = 0
  PROVE  Attempt(p)'
<1>1. /\ Of(case[p]) \subseteq made[p] /\ Attached(case[p]) \subseteq {p}
      /\ \A w \in Worker : <<case[p], w>> \in passed => w \in stored[case[p]]
      /\ WholeBlocks(case[p])
  BY DEF Attempt, Provisioned, Delivered, Provisioning, Executing, Later
<1>2. Of(case[p])' = Of(case[p]) /\ Attached(case[p])' = Attached(case[p])
  BY DEF Of, Attached
<1>3. Provisioned(p)'
  BY <1>1, <1>2 DEF Provisioned, Later, Executing
<1>4. Delivered(p)'
  BY <1>1 DEF Delivered, WholeBlocks, Later, Executing
<1> QED BY <1>3, <1>4, InTry

\* The gateway answers, or is stopped for its outage: it exists in both cases.
LEMMA HealthyAttempt ==
  ASSUME DaemonTyped, RunnersTyped, NEW p \in Runner, case[p] \in Run, outcome[p] = None,
         Attempt(p), Healthy(p)
  PROVE  Attempt(p)'
<1>1. /\ step[p] = "health" /\ Goto(p, "workers")
      /\ UNCHANGED <<exists, joined, passed, stored, proposed, case, made>>
  BY DEF Healthy, At, ledger, attempt
<1>2. step'[p] = "workers" /\ outcome'[p] = None /\ case'[p] = case[p] /\ made'[p] = made[p]
  BY <1>1 DEF Goto, RunnersTyped
<1>3. "gateway" \in Of(case[p]) /\ case[p] # None
  BY CaseConfig, <1>1 DEF Attempt, Provisioned
<1> QED BY <1>1, <1>2, <1>3, Continues DEF Later

\* The outage is over.
LEMMA RestartAttempt ==
  ASSUME DaemonTyped, RunnersTyped, NEW p \in Runner, case[p] \in Run, outcome[p] = None,
         Attempt(p), Restart(p)
  PROVE  Attempt(p)'
<1>1. /\ step[p] = "restart" /\ Goto(p, "wait")
      /\ UNCHANGED <<exists, joined, passed, stored, proposed, case, made>>
  BY DEF Restart, At, ledger, attempt
<1>2. step'[p] = "wait" /\ outcome'[p] = None /\ case'[p] = case[p] /\ made'[p] = made[p]
  BY <1>1 DEF Goto, RunnersTyped
<1> QED BY CaseConfig, <1>1, <1>2, Continues DEF Later, Executing

\* The devices have exited, or the attempt has failed.
LEMMA WaitAttempt ==
  ASSUME DaemonTyped, RunnersTyped, NEW p \in Runner, case[p] \in Run, outcome[p] = None,
         Attempt(p), Wait(p)
  PROVE  Attempt(p)'
<1>1. CASE Raise(p)
  <2>1. step'[p] = "write result" /\ outcome'[p] = "FAIL"
    BY <1>1, Concludes DEF Raise, Statuses
  <2> QED BY <2>1, Failed
<1>2. CASE Goto(p, "collect")
  <2>1. step[p] = "wait" /\ UNCHANGED <<exists, joined, passed, stored, proposed, case, made>>
    BY DEF Wait, At, ledger, attempt, resources
  <2>2. step'[p] = "collect" /\ outcome'[p] = None /\ case'[p] = case[p] /\ made'[p] = made[p]
    BY <1>2, <2>1 DEF Goto, RunnersTyped
  <2> QED BY CaseConfig, <2>1, <2>2, Continues DEF Later, Executing
<1> QED BY <1>1, <1>2 DEF Wait

\* Past this step all devices have passed.
LEMMA CollectAttempt ==
  ASSUME DaemonTyped, RunnersTyped, NEW p \in Runner, case[p] \in Run, outcome[p] = None,
         Attempt(p), Collect(p)
  PROVE  Attempt(p)'
<1>1. CASE Raise(p)
  <2>1. step'[p] = "write result" /\ outcome'[p] = "FAIL"
    BY <1>1, Concludes DEF Raise, Statuses
  <2> QED BY <2>1, Failed
<1>2. CASE Goto(p, "seal") /\ Devices(p) \subseteq passed
  <2>1. step[p] = "collect" /\ UNCHANGED <<exists, joined, passed, stored, proposed, case, made>>
    BY DEF Collect, At, ledger, attempt, resources
  <2>2. step'[p] = "seal" /\ outcome'[p] = None /\ case'[p] = case[p] /\ made'[p] = made[p]
    BY <1>2, <2>1 DEF Goto, RunnersTyped
  <2>3. {case[p]} \X Worker \subseteq passed
    BY <1>2 DEF Devices
  <2> QED BY CaseConfig, <2>1, <2>2, <2>3, Continues DEF Later, Executing
<1> QED BY <1>1, <1>2 DEF Collect

\* Past this step nothing is pending.
LEMMA SealAttempt ==
  ASSUME DaemonTyped, RunnersTyped, NEW p \in Runner, case[p] \in Run, outcome[p] = None,
         Attempt(p), Seal(p)
  PROVE  Attempt(p)'
<1>1. step[p] = "seal" /\ UNCHANGED <<exists, joined, passed, stored, proposed, case, made>>
  BY DEF Seal, At, attempt, resources
<1>2. {case[p]} \X Worker \subseteq passed
  BY CaseConfig, <1>1 DEF Attempt, Delivered
<1>3. CASE pending[case[p]] = 0 /\ Goto(p, "verify") /\ UNCHANGED pending
  <2>1. step'[p] = "verify" /\ outcome'[p] = None /\ case'[p] = case[p] /\ made'[p] = made[p]
    BY <1>1, <1>3 DEF Goto, RunnersTyped
  <2>2. pending'[case[p]] = 0
    BY <1>3
  <2> QED BY CaseConfig, <1>1, <1>2, <2>1, <2>2, Continues DEF Later, Executing
<1>4. CASE UNCHANGED <<step, outcome>>
  <2>1. step'[p] = "seal" /\ outcome'[p] = None /\ case'[p] = case[p] /\ made'[p] = made[p]
    BY <1>1, <1>4
  <2> QED BY CaseConfig, <1>1, <1>2, <2>1, Continues DEF Later, Executing
<1>5. CASE Raise(p)
  <2>1. step'[p] = "write result" /\ outcome'[p] = "FAIL"
    BY <1>5, Concludes DEF Raise, Statuses
  <2> QED BY <2>1, Failed
<1> QED BY <1>3, <1>4, <1>5 DEF Seal

\* A block that could not be signed fails the attempt.
LEMMA SealFailsAttempt ==
  ASSUME RunnersTyped, NEW p \in Runner, SealFails(p)
  PROVE  Attempt(p)'
<1>1. step'[p] = "write result" /\ outcome'[p] = "FAIL"
  BY Concludes DEF SealFails, Raise, Statuses
<1> QED BY <1>1, Failed

\* Each device that is started is one handle more.
LEMMA RunWorkersAttempt ==
  ASSUME DaemonTyped, RunnersTyped, NEW p \in Runner, case[p] \in Run, outcome[p] = None,
         Attempt(p), RunWorkers(p)
  PROVE  Attempt(p)'
<1>1. step[p] = "workers"
  BY DEF RunWorkers, At
<1>2. /\ Of(case[p]) \subseteq made[p] /\ Attached(case[p]) \subseteq {p}
      /\ "gateway" \in Of(case[p])
      /\ \A w \in Worker : <<case[p], w>> \in passed => w \in stored[case[p]]
      /\ WholeBlocks(case[p])
  BY CaseConfig, <1>1 DEF Attempt, Provisioned, Delivered, Provisioning
<1>3. ASSUME NEW w \in Worker \ made[p], RunContainer(p, w, "workers")
      PROVE  Attempt(p)'
  <2>1. CASE Name(p, w) \in exists
    <3>1. Raise(p)
      BY <1>3, <2>1 DEF RunContainer
    <3>2. step'[p] = "write result" /\ outcome'[p] = "FAIL"
      BY <3>1, Concludes DEF Raise, Statuses
    <3> QED BY <3>2, Failed
  <2>2. CASE Name(p, w) \notin exists
    <3>1. /\ Goto(p, "workers") /\ Hold(p, w) /\ exists' = exists \cup {Name(p, w)}
          /\ UNCHANGED <<joined, passed, stored, pending, proposed>>
      BY <1>3, <2>2 DEF RunContainer, ledger
    <3>2. step'[p] = "workers" /\ outcome'[p] = None
      BY <3>1 DEF Goto, RunnersTyped
    <3>3. made'[p] = made[p] \cup {w} /\ case'[p] = case[p]
      BY <3>1 DEF Hold, RunnersTyped
    <3>4. Of(case[p])' \subseteq made'[p] /\ "gateway" \in Of(case[p])'
      BY <1>2, <3>1, <3>3 DEF Of, Name, Kind, Container
    <3>5. Attached(case[p])' \subseteq {p}
      BY <1>2, <3>1, <3>3 DEF Attached
    <3>6. Provisioned(p)'
      BY <3>2, <3>3, <3>4, <3>5 DEF Provisioned
    <3>7. Delivered(p)'
      BY <1>2, <3>1, <3>2, <3>3 DEF Delivered, WholeBlocks
    <3> QED BY <3>2, <3>6, <3>7, InTry
  <2> QED BY <2>1, <2>2
<1>4. ASSUME Goto(p, IF case[p] \in Outage THEN "restart" ELSE "wait"),
             UNCHANGED <<resources, ledger, attempt>>
      PROVE  Attempt(p)'
  <2>1. step'[p] \in {"restart", "wait"} /\ outcome'[p] = None
    BY <1>4 DEF Goto, RunnersTyped
  <2>2. case'[p] = case[p] /\ made'[p] = made[p] /\ UNCHANGED <<exists, joined, passed, stored, proposed>>
    BY <1>4 DEF resources, ledger, attempt
  <2> QED BY CaseConfig, <1>1, <1>2, <2>1, <2>2, Continues DEF Later, Executing
<1> QED BY <1>3, <1>4 DEF RunWorkers

\* An error concludes the attempt.
LEMMA TryFaultAttempt ==
  ASSUME RunnersTyped, NEW p \in Runner, TryFault(p)
  PROVE  Attempt(p)'
<1>1. step'[p] = "write result" /\ outcome'[p] = "FAIL"
  BY Concludes DEF TryFault, Raise, Statuses
<1> QED BY <1>1, Failed

\* As all devices have passed, and who passed is stored, all are stored.
LEMMA VerifyAttempt ==
  ASSUME DaemonTyped, RunnersTyped, NEW p \in Runner, case[p] \in Run, outcome[p] = None,
         Attempt(p), Verify(p)
  PROVE  Attempt(p)'
<1>1. step[p] = "verify" /\ UNCHANGED <<exists, joined, passed, stored, pending, proposed, case, made>>
  BY DEF Verify, At, attempt, resources, ledger
<1>2. /\ Of(case[p]) \subseteq made[p] /\ Attached(case[p]) \subseteq {p}
      /\ \A w \in Worker : <<case[p], w>> \in passed => w \in stored[case[p]]
      /\ WholeBlocks(case[p])
      /\ {case[p]} \X Worker \subseteq passed /\ pending[case[p]] = 0
  BY CaseConfig, <1>1 DEF Attempt, Provisioned, Delivered, Executing
<1>3. Sealed(case[p])
  <2>1. stored[case[p]] \subseteq Worker
    BY DEF DaemonTyped
  <2>2. \A w \in Worker : w \in stored[case[p]]
    BY <1>2
  <2> QED BY <1>2, <2>1, <2>2 DEF Sealed
<1>4. PICK o \in Statuses : step'[p] = "write result" /\ outcome'[p] = o
  BY Concludes DEF Verify, Statuses
<1>5. /\ Of(case[p])' = Of(case[p]) /\ Attached(case[p])' = Attached(case[p])
      /\ case'[p] = case[p] /\ made'[p] = made[p] /\ (Sealed(case[p]))'
  BY <1>1, <1>3 DEF Of, Attached, Sealed, WholeBlocks
<1>6. Provisioned(p)'
  BY <1>4 DEF Provisioned, Provisioning, Executing
<1>7. Delivered(p)'
  BY <1>4, <1>5 DEF Delivered, Provisioning, Executing
<1>8. Removed(p)'
  BY <1>2, <1>4, <1>5 DEF Removed
<1> QED BY <1>6, <1>7, <1>8 DEF Attempt

\* what is there of the run of p, when the result is PASS and no error was met
LEMMA WhatIsLeft ==
  ASSUME NEW p \in Runner, case[p] \in Run, Attempt(p),
         outcome[p] = "PASS", faults = 0, Cleanup, step[p] \in FinalSteps
  PROVE  Of(case[p]) \subseteq made[p] /\ Attached(case[p]) \subseteq {p}
  BY CaseConfig DEF Attempt, Removed

\* What passed is removed, if it is to be cleaned up.
LEMMA WriteResultAttempt ==
  ASSUME DaemonTyped, RunnersTyped, faults \in 0 .. MaxFaults, alive \subseteq Runner,
         NEW p \in Runner, case[p] \in Run, Attempt(p), WriteResult(p)
  PROVE  Attempt(p)'
<1>1. step[p] = "write result" /\ UNCHANGED <<exists, joined, case, made, outcome, faults>>
  BY DEF WriteResult, Goto, At, attempt, resources
<1>2. step'[p] = IF Kept(outcome[p]) THEN "done" ELSE "remove workers"
  BY DEF WriteResult, Goto, RunnersTyped
<1>3. ASSUME outcome'[p] = "PASS", faults' = 0, Cleanup
      PROVE  /\ step'[p] = "remove workers" /\ Of(case[p])' \subseteq made'[p]
             /\ Attached(case[p])' \subseteq {p}
  <2>1. step'[p] = "remove workers"
    BY <1>1, <1>2, <1>3 DEF Kept
  <2>2. Of(case[p]) \subseteq made[p] /\ Attached(case[p]) \subseteq {p}
    <3>1. step[p] \in FinalSteps
      BY <1>1 DEF FinalSteps
    <3> QED BY <1>1, <1>3, <3>1, WhatIsLeft
  <2> QED BY <1>1, <2>1, <2>2 DEF Of, Attached
<1>4. Removed(p)'
  BY <1>1, <1>3 DEF Removed
<1>5. step'[p] \in Ending \ {"write result"}
  BY <1>2 DEF Ending, FinalSteps
<1> QED BY <1>4, <1>5, InFinally

\* When no device is left that it has made, none is left at all.
LEMMA RemoveWorkersAttempt ==
  ASSUME DaemonTyped, RunnersTyped, faults \in 0 .. MaxFaults, alive \subseteq Runner,
         NEW p \in Runner, case[p] \in Run, Attempt(p), RemoveWorkers(p)
  PROVE  Attempt(p)'
<1>1. step[p] = "remove workers" /\ UNCHANGED <<case, made, outcome>>
  BY DEF RemoveWorkers, At, attempt
<1>2. step[p] \in FinalSteps
  BY <1>1 DEF FinalSteps
<1>3. ASSUME NEW w \in made[p] \cap Worker, RemoveContainer(p, w), UNCHANGED <<step, faults>>
      PROVE  Attempt(p)'
  <2>1. step'[p] = "remove workers"
    BY <1>1, <1>3
  <2>2. ASSUME outcome'[p] = "PASS", faults' = 0, Cleanup
        PROVE  Of(case[p])' \subseteq made'[p] /\ Attached(case[p])' \subseteq {p}
    <3>1. Of(case[p]) \subseteq made[p] /\ Attached(case[p]) \subseteq {p}
      BY <1>1, <1>2, <1>3, <2>2, WhatIsLeft
    <3>2. exists' \subseteq exists /\ joined' = joined
      BY <1>3 DEF RemoveContainer
    <3> QED BY <1>1, <3>1, <3>2 DEF Of, Attached
  <2>3. Removed(p)'
    BY <1>1, <2>1, <2>2 DEF Removed
  <2>4. step'[p] \in Ending \ {"write result"}
    BY <2>1 DEF Ending, FinalSteps
  <2> QED BY <2>3, <2>4, InFinally
<1>4. ASSUME step' = [step EXCEPT ![p] = "remove gateway"],
             \/ /\ exists \cap ({case[p]} \X (made[p] \cap Worker)) = {}
                /\ UNCHANGED <<resources, ledger, faults>>
             \/ Ignored
      PROVE  Attempt(p)'
  <2>1. step'[p] = "remove gateway"
    BY <1>4 DEF RunnersTyped
  <2>2. ASSUME outcome'[p] = "PASS", faults' = 0, Cleanup
        PROVE  /\ Of(case[p])' \subseteq made'[p] /\ Attached(case[p])' \subseteq {p}
               /\ Of(case[p])' \cap Worker = {}
    <3>0. ~ Ignored
      BY <2>2 DEF Ignored, Fault
    <3>1. UNCHANGED <<exists, joined, faults>>
      BY <1>4, <3>0 DEF resources
    <3>2. Of(case[p]) \subseteq made[p] /\ Attached(case[p]) \subseteq {p}
      BY <1>1, <1>2, <2>2, <3>1, WhatIsLeft
    <3>3. \A w \in Worker : w \in made[p] => <<case[p], w>> \notin exists
      <4>1. exists \cap ({case[p]} \X (made[p] \cap Worker)) = {}
        BY <1>4, <3>0
      <4> QED BY <4>1
    <3>4. Of(case[p]) \cap Worker = {}
      BY <3>2, <3>3 DEF Of
    <3> QED BY <1>1, <3>1, <3>2, <3>4 DEF Of, Attached
  <2>3. Removed(p)'
    BY <1>1, <2>1, <2>2 DEF Removed
  <2>4. step'[p] \in Ending \ {"write result"}
    BY <2>1 DEF Ending, FinalSteps
  <2> QED BY <2>3, <2>4, InFinally
<1> QED BY <1>3, <1>4 DEF RemoveWorkers

\* A gateway that exists is one that it has made.
LEMMA RemoveGatewayAttempt ==
  ASSUME DaemonTyped, RunnersTyped, faults \in 0 .. MaxFaults, alive \subseteq Runner,
         NEW p \in Runner, case[p] \in Run, Attempt(p), RemoveGateway(p)
  PROVE  Attempt(p)'
<1>1. step[p] = "remove gateway" /\ Goto(p, "disconnect") /\ UNCHANGED <<case, made, outcome>>
  BY DEF RemoveGateway, At, attempt, Goto
<1>2. step[p] \in FinalSteps
  BY <1>1 DEF FinalSteps
<1>3. step'[p] = "disconnect"
  BY <1>1 DEF Goto, RunnersTyped
<1>4. ASSUME outcome'[p] = "PASS", faults' = 0, Cleanup
      PROVE  /\ Of(case[p])' \subseteq made'[p] /\ Attached(case[p])' \subseteq {p}
             /\ Of(case[p])' \cap Worker = {} /\ "gateway" \notin Of(case[p])'
  <2>1. ~ Ignored
    BY <1>4 DEF Ignored, Fault
  <2>2. faults = 0 /\ joined' = joined
    BY <1>4, <2>1 DEF RemoveGateway, RemoveContainer, resources
  <2>3. Of(case[p]) \subseteq made[p] /\ Attached(case[p]) \subseteq {p}
    BY <1>1, <1>2, <1>4, <2>2, WhatIsLeft
  <2>4. Of(case[p]) \cap Worker = {}
    BY <1>1, <1>4, <2>2, CaseConfig DEF Attempt, Removed
  <2>5. exists' \subseteq exists
    BY <2>1 DEF RemoveGateway, RemoveContainer, resources
  <2>6. "gateway" \in made[p] => <<case[p], "gateway">> \notin exists'
    BY <2>1 DEF RemoveGateway, RemoveContainer, Name
  <2> QED BY <1>1, <2>2, <2>3, <2>4, <2>5, <2>6 DEF Of, Attached
<1>5. Removed(p)'
  BY <1>1, <1>3, <1>4 DEF Removed
<1>6. step'[p] \in Ending \ {"write result"}
  BY <1>3 DEF Ending, FinalSteps
<1> QED BY <1>5, <1>6, InFinally

\* Nobody else was attached.
LEMMA DisconnectAttempt ==
  ASSUME DaemonTyped, RunnersTyped, faults \in 0 .. MaxFaults, alive \subseteq Runner,
         NEW p \in Runner, case[p] \in Run, Attempt(p), Disconnect(p)
  PROVE  Attempt(p)'
<1>1. step[p] = "disconnect" /\ Goto(p, "remove network") /\ UNCHANGED <<case, made, outcome>>
  BY DEF Disconnect, At, attempt, Goto
<1>2. step[p] \in FinalSteps
  BY <1>1 DEF FinalSteps
<1>3. step'[p] = "remove network"
  BY <1>1 DEF Goto, RunnersTyped
<1>4. ASSUME outcome'[p] = "PASS", faults' = 0, Cleanup
      PROVE  /\ Of(case[p])' \subseteq made'[p] /\ Attached(case[p])' = {}
             /\ Of(case[p])' \cap Worker = {} /\ "gateway" \notin Of(case[p])'
  <2>1. ~ Ignored
    BY <1>4 DEF Ignored, Fault
  <2>2. faults = 0 /\ joined' = joined \ {<<p, case[p]>>} /\ exists' = exists
    BY <1>4, <2>1 DEF Disconnect
  <2>3. Of(case[p]) \subseteq made[p] /\ Attached(case[p]) \subseteq {p}
    BY <1>1, <1>2, <1>4, <2>2, WhatIsLeft
  <2>4. Of(case[p]) \cap Worker = {} /\ "gateway" \notin Of(case[p])
    BY <1>1, <1>4, <2>2, CaseConfig DEF Attempt, Removed
  <2>5. Of(case[p])' = Of(case[p])
    BY <1>1, <2>2 DEF Of
  <2>6. Attached(case[p])' = {}
    BY <1>1, <2>2, <2>3 DEF Attached
  <2> QED BY <1>1, <2>3, <2>4, <2>5, <2>6
<1>5. Removed(p)'
  BY <1>1, <1>3, <1>4 DEF Removed
<1>6. step'[p] \in Ending \ {"write result"}
  BY <1>3 DEF Ending, FinalSteps
<1> QED BY <1>5, <1>6, InFinally

\* With nothing running and nobody attached, the network is not busy.
LEMMA RemoveTheNetworkAttempt ==
  ASSUME DaemonTyped, RunnersTyped, faults \in 0 .. MaxFaults, alive \subseteq Runner,
         NEW p \in Runner, case[p] \in Run, Attempt(p), RemoveTheNetwork(p)
  PROVE  Attempt(p)'
<1>1. step[p] = "remove network" /\ Goto(p, "remove volume") /\ UNCHANGED <<case, made, outcome>>
  BY DEF RemoveTheNetwork, At, attempt, Goto
<1>2. step[p] \in FinalSteps
  BY <1>1 DEF FinalSteps
<1>3. step'[p] = "remove volume"
  BY <1>1 DEF Goto, RunnersTyped
<1>4. ASSUME outcome'[p] = "PASS", faults' = 0, Cleanup
      PROVE  /\ Of(case[p])' \subseteq made'[p] /\ Attached(case[p])' = {}
             /\ Of(case[p])' \cap Worker = {} /\ "gateway" \notin Of(case[p])'
             /\ "network" \notin Of(case[p])'
  <2>1. ~ Ignored
    BY <1>4 DEF Ignored, Fault
  <2>2. faults = 0 /\ joined' \subseteq joined /\ exists' \subseteq exists
    BY <1>4, <2>1 DEF RemoveTheNetwork, RemoveNetwork, resources
  <2>3. Of(case[p]) \subseteq made[p]
    BY <1>1, <1>2, <1>4, <2>2, WhatIsLeft
  <2>4. Of(case[p]) \cap Worker = {} /\ "gateway" \notin Of(case[p]) /\ Attached(case[p]) = {}
    BY <1>1, <1>4, <2>2, CaseConfig DEF Attempt, Removed
  <2>5. ~ NetworkBusy(p, {})
    <3>1. \A k \in Container : <<case[p], k>> \notin exists
      BY <2>4 DEF Of, Container, Kind
    <3>2. Containers(p) \cap running = {}
      BY <3>1 DEF Containers, DaemonTyped
    <3>3. ((alive \ {}) \X {case[p]}) \cap joined = {}
      BY <2>4 DEF Attached
    <3> QED BY <3>2, <3>3 DEF NetworkBusy
  <2>6. "network" \in made[p] => <<case[p], "network">> \notin exists'
    BY <2>1, <2>5 DEF RemoveTheNetwork, RemoveNetwork, Name
  <2>7. Of(case[p])' \subseteq Of(case[p]) /\ Attached(case[p])' \subseteq Attached(case[p])
    BY <1>1, <2>2 DEF Of, Attached
  <2>8. "network" \notin Of(case[p])'
    BY <1>1, <2>3, <2>6, <2>7 DEF Of
  <2> QED BY <1>1, <2>3, <2>4, <2>7, <2>8
<1>5. Removed(p)'
  BY <1>1, <1>3, <1>4 DEF Removed
<1>6. step'[p] \in Ending \ {"write result"}
  BY <1>3 DEF Ending, FinalSteps
<1> QED BY <1>5, <1>6, InFinally

\* Without a gateway the volume is not busy, and nothing is left.
LEMMA RemoveTheVolumeAttempt ==
  ASSUME DaemonTyped, RunnersTyped, faults \in 0 .. MaxFaults, alive \subseteq Runner,
         NEW p \in Runner, case[p] \in Run, Attempt(p), RemoveTheVolume(p)
  PROVE  Attempt(p)'
<1>1. step[p] = "remove volume" /\ Goto(p, "done") /\ UNCHANGED <<case, made, outcome>>
  BY DEF RemoveTheVolume, At, attempt, Goto
<1>2. step[p] \in FinalSteps
  BY <1>1 DEF FinalSteps
<1>3. step'[p] = "done"
  BY <1>1 DEF Goto, RunnersTyped
<1>4. ASSUME outcome'[p] = "PASS", faults' = 0, Cleanup
      PROVE  Clean(case[p])'
  <2>1. ~ Ignored
    BY <1>4 DEF Ignored, Fault
  <2>2. faults = 0 /\ joined' = joined /\ exists' \subseteq exists
    BY <1>4, <2>1 DEF RemoveTheVolume, RemoveVolume, resources
  <2>3. Of(case[p]) \subseteq made[p]
    BY <1>1, <1>2, <1>4, <2>2, WhatIsLeft
  <2>4. /\ Of(case[p]) \cap Worker = {} /\ "gateway" \notin Of(case[p]) /\ Attached(case[p]) = {}
        /\ "network" \notin Of(case[p])
    BY <1>1, <1>4, <2>2, CaseConfig DEF Attempt, Removed
  <2>5. ~ VolumeBusy(p)
    BY <2>4 DEF VolumeBusy, Name, Of, Kind, Container
  <2>6. "volume" \in made[p] => <<case[p], "volume">> \notin exists'
    BY <2>1, <2>5 DEF RemoveTheVolume, RemoveVolume, Name
  <2>7. Of(case[p])' \subseteq Of(case[p]) /\ Attached(case[p])' = Attached(case[p])
    BY <1>1, <2>2 DEF Of, Attached
  <2>8. "volume" \notin Of(case[p])'
    BY <1>1, <2>3, <2>6, <2>7 DEF Of
  <2>9. Of(case[p])' = {}
    BY <2>4, <2>7, <2>8 DEF Of, Kind, Container
  <2> QED BY <1>1, <2>4, <2>7, <2>9 DEF Clean
<1>5. Removed(p)'
  <2>1. ASSUME outcome'[p] = "PASS", faults' = 0, Cleanup
        PROVE  Of(case[p])' = {} /\ Attached(case[p])' = {}
    BY <1>1, <1>4, <2>1 DEF Clean
  <2> QED BY <1>1, <1>3, <2>1 DEF Removed, FinalSteps, Clean
<1>6. step'[p] \in Ending \ {"write result"}
  BY <1>3 DEF Ending, FinalSteps
<1> QED BY <1>5, <1>6, InFinally

\* A step of the run that p has in hand keeps the attempt's part of the invariant.
LEMMA RunStepAttempt ==
  ASSUME Typed, Turns, NEW p \in Runner, case[p] \in Run, Attempt(p), RunStep(p)
  PROVE  Attempt(p)'
<1>1. DaemonTyped /\ RunnersTyped /\ faults \in 0 .. MaxFaults /\ alive \subseteq Runner
  BY DEF Typed
<1>2. step[p] \in TrySteps => outcome[p] = None
  <2>1. TrySteps \cap Ending = {}
    BY DEF TrySteps, Ending, FinalSteps
  <2> QED BY <2>1 DEF Turns, Turn
<1>3. {"stale containers", "stale networks", "stale volumes", "network", "volume",
       "connect", "gateway", "health", "workers", "restart", "wait", "collect",
       "seal", "verify"} = TrySteps
  BY DEF TrySteps
<1>4. CASE \/ StaleContainers(p) \/ StaleNetworks(p) \/ StaleVolumes(p)
           \/ CreateNetwork(p) \/ CreateVolume(p) \/ Connect(p) \/ RunGateway(p)
  <2>1. outcome[p] = None
    BY <1>2, <1>3, <1>4 DEF At, StaleContainers, StaleNetworks, StaleVolumes, CreateNetwork,
       CreateVolume, Connect, RunGateway
  <2> QED BY <1>1, <1>4, <2>1, StaleContainersAttempt, StaleNetworksAttempt,
             StaleVolumesAttempt,
       CreateNetworkAttempt, CreateVolumeAttempt, ConnectAttempt, RunGatewayAttempt
<1>5. CASE \/ Healthy(p) \/ RunWorkers(p) \/ Restart(p)
           \/ Wait(p) \/ Collect(p) \/ Seal(p) \/ Verify(p)
  <2>1. outcome[p] = None
    BY <1>2, <1>3, <1>5 DEF At, Healthy, RunWorkers, Restart, Wait, Collect, Seal, Verify
  <2> QED BY <1>1, <1>5, <2>1, HealthyAttempt, RunWorkersAttempt, RestartAttempt,
       WaitAttempt, CollectAttempt, SealAttempt, VerifyAttempt
<1>6. CASE TryFault(p) \/ SealFails(p)
  BY <1>1, <1>6, TryFaultAttempt, SealFailsAttempt
<1>7. CASE \/ WriteResult(p) \/ RemoveWorkers(p) \/ RemoveGateway(p) \/ Disconnect(p)
           \/ RemoveTheNetwork(p) \/ RemoveTheVolume(p)
  BY <1>1, <1>7, WriteResultAttempt, RemoveWorkersAttempt, RemoveGatewayAttempt,
     DisconnectAttempt, RemoveTheNetworkAttempt, RemoveTheVolumeAttempt
<1> QED BY <1>4, <1>5, <1>6, <1>7 DEF RunStep

----------------------------------------------------------------------------
(* What the steps of the campaign keep. *)

\* An attempt whose run nobody touches stays as it is, and one error more only
\* weakens what is said of it.
LEMMA AttemptKept ==
  ASSUME NEW p \in Runner, Attempt(p), case'[p] = case[p], step'[p] = step[p],
         made'[p] = made[p], outcome'[p] = outcome[p], UNCHANGED <<resources, ledger>>,
         faults' = 0 => faults = 0
  PROVE  Attempt(p)'
<1>1. CASE case[p] = None
  BY <1>1 DEF Attempt
<1>2. CASE case[p] # None
  <2>1. Of(case[p])' = Of(case[p]) /\ Attached(case[p])' = Attached(case[p])
    BY DEF Of, Attached, resources
  <2>2. UNCHANGED <<passed, stored, pending, proposed>>
    BY DEF resources, ledger
  <2>3. Provisioned(p)'
    BY <1>2, <2>1, <2>2 DEF Attempt, Provisioned
  <2>4. Delivered(p)'
    BY <1>2, <2>1, <2>2 DEF Attempt, Delivered, Sealed, WholeBlocks
  <2>5. Removed(p)'
    BY <1>2, <2>1, <2>2 DEF Attempt, Removed, Clean
  <2> QED BY <2>3, <2>4, <2>5 DEF Attempt
<1> QED BY <1>1, <1>2

\* What passed runs have left does not change with what they do not see.
LEMMA LeftCleanKept ==
  ASSUME LeftClean, UNCHANGED <<exists, joined, journal>>, faults' = 0 => faults = 0
  PROVE  LeftClean'
<1>1. ASSUME NEW c \in Run PROVE Clean(c)' = Clean(c) /\ Passed(c)' = Passed(c)
  BY DEF Clean, Of, Attached, Passed
<1> QED BY <1>1 DEF LeftClean

\* Nor does what a runner remembers.
LEMMA MemoryKept ==
  ASSUME Memory, UNCHANGED <<journal, results, pc, memory, case>>
  PROVE  Memory'
<1>1. PassedOnce' = PassedOnce
  BY DEF PassedOnce
<1>2. ASSUME NEW p \in Runner PROVE Remembers(p)'
  <2>1. Remembers(p)
    BY DEF Memory
  <2> QED BY <2>1 DEF Remembers, Passed, memory
<1> QED BY <1>1, <1>2 DEF Memory

\* As there is one holder of the lock, the others have nothing in hand.
LEMMA OthersAreIdle ==
  ASSUME Turns, NEW p \in Runner, pc[p] \in Loaded \cup {"load"}, NEW q \in Runner, q # p
  PROVE  /\ pc[q] \notin Loaded \cup {"load"} /\ step[q] = "idle" /\ case[q] = None
         /\ made[q] = {} /\ outcome[q] = None
<1>1. pc[q] \notin Loaded \cup {"load"}
  BY DEF Turns, Turn
<1>2. step[q] = "idle"
  BY <1>1 DEF Turns, Turn, Loaded
<1> QED BY <1>1, <1>2 DEF Turns, Turn

\* A runner that is in a run is in the first of those it has to run.
LEMMA InHand ==
  ASSUME Typed, Memory, NEW p \in Runner, pc[p] = "run"
  PROVE  /\ case[p] \in Run /\ to_run[p] # << >> /\ case[p] = Head(to_run[p])
         /\ case[p] \in ToSet(to_run[p])
<1>1. to_run[p] # << >> /\ case[p] = Head(to_run[p])
  BY DEF Memory, Remembers
<1>2. PICK s : s = to_run[p]
  OBVIOUS
<1>3. s \in Seq(Run) /\ s # << >>
  BY <1>1, <1>2 DEF Typed
<1>4. Head(s) \in Run
  BY <1>3, HeadTailProperties
<1>5. Head(s) \in ToSet(s)
  <2>1. 1 \in DOMAIN s /\ Head(s) = s[1]
    BY <1>3, LenProperties, EmptySeq
  <2> QED BY <2>1 DEF ToSet
<1> QED BY <1>1, <1>2, <1>4, <1>5

\* A step of a run keeps the invariant.
LEMMA ProceedKeepsIInv ==
  ASSUME CampaignIInv, NEW p \in Runner, Proceed(p)
  PROVE  CampaignIInv'
<1>1. /\ pc[p] = "run" /\ RunStep(p) /\ Typed /\ Turns /\ Memory /\ LeftClean
      /\ \A q \in Runner : Attempt(q)
      /\ UNCHANGED <<alive, lock, files, pc, memory, exit, counts>>
  BY DEF Proceed, CampaignIInv
<1>2. case[p] \in Run /\ case[p] \in ToSet(to_run[p])
  BY <1>1, InHand
<1>3. Moves(p)
  <2>1. step[p] = "restart" => Name(p, "gateway") \in exists
    BY CaseConfig, <1>1, <1>2 DEF Attempt, Provisioned, Of, Name
  <2> QED BY <1>1, <1>2, <2>1, RunStepMoves DEF Typed, Turns, Turn
<1>4. Typed'
  <2>1. DaemonTyped'
    BY <1>3 DEF Moves, Touches
  <2>2. RunnersTyped'
    BY <1>1, <1>3 DEF Moves, Advances, Holds, Typed, RunnersTyped
  <2>3. faults' \in 0 .. MaxFaults
    BY <1>1, <1>3, CaseConfig DEF Moves, Typed
  <2> QED BY <1>1, <2>1, <2>2, <2>3 DEF Typed, files, memory, counts
<1>5. Turns'
  <2>1. ASSUME NEW q \in Runner PROVE Turn(q)'
    <3>1. Turn(q) /\ pc' = pc /\ lock' = lock
      BY <1>1 DEF Turns
    <3>2. CASE q = p
      <4>1. step[p] # "idle" /\ "idle" \notin Stages
        BY <1>1 DEF Turns, Turn, Stages, TrySteps, FinalSteps
      <4>2. step'[p] # "idle" /\ (step'[p] \in Ending <=> outcome'[p] # None)
        BY <1>3, <4>1 DEF Moves, Advances
      <4> QED BY <1>1, <3>1, <3>2, <4>1, <4>2 DEF Turn
    <3>3. CASE q # p
      <4>1. step'[q] = step[q] /\ outcome'[q] = outcome[q] /\ made'[q] = made[q] /\ case' = case
        BY <1>3, <3>3 DEF Moves, Advances, Holds
      <4> QED BY <3>1, <4>1 DEF Turn
    <3> QED BY <3>2, <3>3
  <2> QED BY <2>1 DEF Turns
<1>6. Memory'
  <2>1. case' = case
    BY <1>3 DEF Moves, Holds
  <2> QED BY <1>1, <2>1, MemoryKept DEF files
<1>7. ASSUME NEW q \in Runner PROVE Attempt(q)'
  <2>1. CASE q = p
    BY <1>1, <1>2, <2>1, RunStepAttempt
  <2>2. CASE q # p
    <3>1. case[q] = None
      BY <1>1, <2>2, OthersAreIdle DEF Loaded
    <3>2. case'[q] = None
      BY <1>3, <3>1 DEF Moves, Holds
    <3> QED BY <3>2 DEF Attempt
  <2> QED BY <2>1, <2>2
<1>8. LeftClean'
  <2>1. SUFFICES ASSUME Resume, Cleanup, faults' = 0, NEW c \in Run, Passed(c)'
                 PROVE  Clean(c)'
    BY DEF LeftClean
  <2>2. faults = 0
    BY <1>1, <1>3, <2>1 DEF Moves, Typed
  <2>3. Passed(c)
    BY <1>1, <2>1 DEF Passed, files
  <2>4. Clean(c)
    BY <1>1, <2>1, <2>2, <2>3 DEF LeftClean
  <2>5. c # case[p]
    BY <1>1, <1>2, <2>1, <2>3 DEF Memory, Remembers, Loaded
  <2>6. /\ \A k \in Kind : <<c, k>> \in exists' <=> <<c, k>> \in exists
        /\ \A q \in Runner : <<q, c>> \in joined' <=> <<q, c>> \in joined
    BY <1>3, <2>5 DEF Moves, Touches
  <2> QED BY <2>4, <2>6 DEF Clean, Of, Attached
<1> QED BY <1>4, <1>5, <1>6, <1>7, <1>8 DEF CampaignIInv

\* A device delivers only to a gateway that exists: no ledger that has to be
\* empty, and none that is sealed, is written to.
LEMMA DeliverKeeps ==
  ASSUME Typed, NEW c \in Run, NEW w \in Worker, Deliver(c, w)
  PROVE  DaemonTyped' /\ \A p \in Runner : Attempt(p) => Attempt(p)'
<1>1. /\ <<c, w>> \in running /\ <<c, "gateway">> \in running /\ w \notin stored[c]
      /\ stored' = [stored EXCEPT ![c] = @ \cup {w}]
      /\ pending' = [pending EXCEPT ![c] = @ + 1]
      /\ UNCHANGED <<proposed, exists, running, joined, passed, case, made, step, outcome, faults>>
  BY DEF Deliver, resources, attempt
<1>2. <<c, "gateway">> \in exists /\ DaemonTyped
  BY <1>1 DEF Typed, DaemonTyped
<1>3. DaemonTyped'
  <2>1. stored' \in [Run -> SUBSET Worker]
    BY <1>1, <1>2 DEF DaemonTyped
  <2>2. pending' \in [Run -> Nat]
    BY <1>1, <1>2 DEF DaemonTyped
  <2> QED BY <1>1, <1>2, <2>1, <2>2 DEF DaemonTyped
<1>4. ASSUME NEW p \in Runner, Attempt(p), case[p] # None PROVE Attempt(p)'
  <2>1. Of(case[p])' = Of(case[p]) /\ Attached(case[p])' = Attached(case[p])
    BY <1>1 DEF Of, Attached
  <2>2. CASE c # case[p]
    <3>1. stored'[case[p]] = stored[case[p]] /\ pending'[case[p]] = pending[case[p]]
      BY <1>1, <1>2, <1>4, <2>2 DEF DaemonTyped, Typed, RunnersTyped
    <3>2. Provisioned(p)'
      BY <1>1, <1>4, <2>1, <3>1 DEF Attempt, Provisioned
    <3>3. Delivered(p)'
      BY <1>1, <1>4, <3>1 DEF Attempt, Delivered, Sealed, WholeBlocks
    <3>4. Removed(p)'
      BY <1>1, <1>4, <2>1 DEF Attempt, Removed, Clean
    <3> QED BY <3>2, <3>3, <3>4 DEF Attempt
  <2>3. CASE c = case[p]
    <3>1. "gateway" \in Of(c)
      BY <1>2 DEF Of, Kind, Container
    <3>2. step[p] \notin {"network", "volume", "connect", "gateway"}
      BY <1>4, <2>3, <3>1 DEF Attempt, Provisioned, Provisioning
    <3>3. step[p] # "verify"
      BY <1>1, <1>4, <2>3 DEF Attempt, Delivered, Provisioning, Executing
    <3>4. ~ (step[p] = "write result" /\ outcome[p] = "PASS")
      BY <1>1, <1>4, <2>3 DEF Attempt, Delivered, Sealed
    <3>5. Provisioned(p)'
      BY <1>1, <1>4, <2>1, <3>2 DEF Attempt, Provisioned
    <3>6. stored[c] \subseteq stored'[c]
      BY <1>1, <1>2 DEF DaemonTyped
    <3>7. Delivered(p)'
      BY <1>1, <1>4, <2>3, <3>3, <3>4, <3>6 DEF Attempt, Delivered, WholeBlocks
    <3>8. Removed(p)'
      BY <1>1, <1>4, <2>1 DEF Attempt, Removed, Clean
    <3> QED BY <3>5, <3>7, <3>8 DEF Attempt
  <2> QED BY <2>2, <2>3
<1>5. ASSUME NEW p \in Runner, case[p] = None PROVE Attempt(p)'
  BY <1>1, <1>5 DEF Attempt
<1> QED BY <1>3, <1>4, <1>5

\* Only the blocks of a run change: a block that the gateway seals by itself is
\* whole, and there is none before the gateway runs.
LEMMA BlocksKeep ==
  ASSUME Typed, NEW c \in Run, <<c, "gateway">> \in running,
         NEW n \in Nat, pending' = [pending EXCEPT ![c] = n], pending[c] = 0 => n = 0,
         NEW m \in {0, BlockSize}, proposed' = [proposed EXCEPT ![c] = m],
         UNCHANGED <<stored, resources, attempt, step, outcome, faults>>
  PROVE  DaemonTyped' /\ \A p \in Runner : Attempt(p) => Attempt(p)'
<1>1. <<c, "gateway">> \in exists /\ DaemonTyped
  BY DEF Typed, DaemonTyped
<1>2. UNCHANGED <<exists, running, joined, passed, stored, case, made, step, outcome, faults>>
  BY DEF resources, attempt
<1>3. DaemonTyped'
  <2>1. m \in 0 .. BlockSize
    BY CaseConfig
  <2>2. pending' \in [Run -> Nat] /\ proposed' \in [Run -> 0 .. BlockSize]
    BY <1>1, <2>1 DEF DaemonTyped
  <2> QED BY <1>1, <1>2, <2>2 DEF DaemonTyped
<1>4. ASSUME NEW p \in Runner, Attempt(p), case[p] # None PROVE Attempt(p)'
  <2>1. Of(case[p])' = Of(case[p]) /\ Attached(case[p])' = Attached(case[p])
    BY <1>2 DEF Of, Attached
  <2>2. case[p] \in Run
    BY <1>4 DEF Typed, RunnersTyped
  <2>3. /\ WholeBlocks(case[p]) => WholeBlocks(case[p])'
        /\ pending[case[p]] = 0 => pending'[case[p]] = 0
    BY <1>1, <1>2, <2>2 DEF DaemonTyped, WholeBlocks
  <2>4. Provisioned(p)'
    <3>1. CASE c # case[p]
      <4>1. pending'[case[p]] = pending[case[p]] /\ proposed'[case[p]] = proposed[case[p]]
        BY <1>1, <2>2, <3>1 DEF DaemonTyped
      <4> QED BY <1>2, <1>4, <2>1, <4>1 DEF Attempt, Provisioned
    <3>2. CASE c = case[p]
      <4>1. "gateway" \in Of(c)
        BY <1>1 DEF Of, Kind, Container
      <4>2. step[p] \notin {"network", "volume", "connect", "gateway"}
        BY <1>4, <3>2, <4>1 DEF Attempt, Provisioned, Provisioning
      <4> QED BY <1>2, <1>4, <2>1, <4>2 DEF Attempt, Provisioned
    <3> QED BY <3>1, <3>2
  <2>5. Delivered(p)'
    BY <1>2, <1>4, <2>3 DEF Attempt, Delivered, Sealed
  <2>6. Removed(p)'
    BY <1>2, <1>4, <2>1 DEF Attempt, Removed, Clean
  <2> QED BY <2>4, <2>5, <2>6 DEF Attempt
<1>5. ASSUME NEW p \in Runner, case[p] = None PROVE Attempt(p)'
  BY <1>2, <1>5 DEF Attempt
<1> QED BY <1>3, <1>4, <1>5

\* The gateway proposes a full block, ...
LEMMA AutoProposeKeeps ==
  ASSUME Typed, NEW c \in Run, AutoPropose(c)
  PROVE  DaemonTyped' /\ \A p \in Runner : Attempt(p) => Attempt(p)'
<1>1. pending[c] \in Nat /\ BlockSize \in Nat \ {0}
  BY CaseConfig DEF Typed, DaemonTyped
<1>2. PICK n : n = pending[c] - BlockSize
  OBVIOUS
<1>3. pending[c] >= BlockSize
  BY DEF AutoPropose
<1>4. n \in Nat /\ pending[c] # 0
  BY <1>1, <1>2, <1>3
<1>5. /\ <<c, "gateway">> \in running
      /\ pending' = [pending EXCEPT ![c] = n] /\ proposed' = [proposed EXCEPT ![c] = BlockSize]
      /\ UNCHANGED <<stored, resources, attempt, step, outcome, faults>>
  BY <1>2 DEF AutoPropose
<1> QED BY <1>4, <1>5, BlocksKeep

\* ... and what it has proposed becomes final.
LEMMA FinalizeKeeps ==
  ASSUME Typed, NEW c \in Run, Finalize(c)
  PROVE  DaemonTyped' /\ \A p \in Runner : Attempt(p) => Attempt(p)'
<1>1. pending[c] \in Nat /\ pending' = [pending EXCEPT ![c] = pending[c]]
  BY DEF Typed, DaemonTyped, Finalize
<1>2. /\ <<c, "gateway">> \in running /\ proposed' = [proposed EXCEPT ![c] = 0]
      /\ UNCHANGED <<stored, resources, attempt, step, outcome, faults>>
  BY DEF Finalize
<1> QED BY <1>1, <1>2, BlocksKeep

\* A device that passes has its event stored.
LEMMA ExitKeeps ==
  ASSUME Typed, NEW c \in Run, NEW w \in Worker, Exit(c, w)
  PROVE  DaemonTyped' /\ \A p \in Runner : Attempt(p) => Attempt(p)'
<1>1. /\ <<c, w>> \in running /\ running' = running \ {<<c, w>>}
      /\ UNCHANGED <<exists, joined, stored, pending, proposed, case, made, step, outcome, faults>>
  BY DEF Exit, ledger, attempt
<1>2. /\ passed \subseteq passed' /\ passed' \subseteq passed \cup {<<c, w>>}
      /\ <<c, w>> \in passed' => <<c, w>> \in passed \/ w \in stored[c]
  BY DEF Exit
<1>3. DaemonTyped'
  <2>1. DaemonTyped
    BY DEF Typed
  <2>2. <<c, w>> \in Run \X Worker /\ <<c, w>> \in exists
    BY <1>1, <2>1 DEF DaemonTyped
  <2>3. passed' \subseteq Run \X Worker /\ passed' \subseteq exists'
    BY <1>1, <1>2, <2>1, <2>2 DEF DaemonTyped
  <2>4. running' \subseteq Run \X Container /\ running' \subseteq exists'
    BY <1>1, <2>1 DEF DaemonTyped
  <2> QED BY <1>1, <2>1, <2>3, <2>4 DEF DaemonTyped
<1>4. ASSUME NEW p \in Runner, Attempt(p), case[p] # None PROVE Attempt(p)'
  <2>1. Of(case[p])' = Of(case[p]) /\ Attached(case[p])' = Attached(case[p])
    BY <1>1 DEF Of, Attached
  <2>2. Provisioned(p)'
    BY <1>1, <1>4, <2>1 DEF Attempt, Provisioned
  <2>3. Delivered(p)'
    <3>1. \A d : <<case[p], d>> \in passed' => <<case[p], d>> \in passed \/ d \in stored[case[p]]
      BY <1>2
    <3> QED BY <1>1, <1>2, <1>4, <3>1 DEF Attempt, Delivered, Sealed, WholeBlocks
  <2>4. Removed(p)'
    BY <1>1, <1>4, <2>1 DEF Attempt, Removed, Clean
  <2> QED BY <2>2, <2>3, <2>4 DEF Attempt
<1>5. ASSUME NEW p \in Runner, case[p] = None PROVE Attempt(p)'
  BY <1>1, <1>5 DEF Attempt
<1> QED BY <1>3, <1>4, <1>5

\* What goes on without a runner keeps the invariant.
LEMMA EnvironmentKeepsIInv ==
  ASSUME CampaignIInv, Environment
  PROVE  CampaignIInv'
<1>1. PICK c \in Run : \/ AutoPropose(c) \/ Finalize(c)
                       \/ \E w \in Worker : Deliver(c, w) \/ Exit(c, w)
  BY DEF Environment, DockerStep
<1>2. /\ UNCHANGED <<exists, joined, case, made, step, outcome, faults>>
      /\ UNCHANGED <<alive, lock, files, pc, memory, exit, counts>>
  BY <1>1 DEF Environment, AutoPropose, Finalize, Deliver, Exit, resources, attempt
<1>3. Typed /\ Turns /\ Memory /\ LeftClean /\ \A p \in Runner : Attempt(p)
  BY DEF CampaignIInv
<1>4. DaemonTyped' /\ \A p \in Runner : Attempt(p)'
  BY <1>1, <1>3, AutoProposeKeeps, FinalizeKeeps, DeliverKeeps, ExitKeeps
<1>5. Typed'
  <2>1. RunnersTyped'
    BY <1>2, <1>3 DEF Typed, RunnersTyped
  <2> QED BY <1>2, <1>3, <1>4, <2>1 DEF Typed, files, memory, counts
<1>6. Turns'
  BY <1>2, <1>3 DEF Turns, Turn
<1>7. Memory'
  BY <1>2, <1>3, MemoryKept DEF files
<1>8. LeftClean'
  BY <1>2, <1>3, LeftCleanKept DEF files
<1> QED BY <1>4, <1>5, <1>6, <1>7, <1>8 DEF CampaignIInv

\* A step of the campaign that leaves every run where it is.
LEMMA CaseKept ==
  ASSUME CampaignIInv, UNCHANGED <<resources, ledger, attempt, step, outcome, faults>>
  PROVE  /\ DaemonTyped' /\ RunnersTyped' /\ faults' \in 0 .. MaxFaults
         /\ \A q \in Runner : Attempt(q)'
<1>1. DaemonTyped' /\ RunnersTyped' /\ faults' \in 0 .. MaxFaults
  BY DEF CampaignIInv, Typed, DaemonTyped, RunnersTyped, resources, ledger, attempt
<1>2. ASSUME NEW q \in Runner PROVE Attempt(q)'
  <2>1. /\ Attempt(q) /\ case'[q] = case[q] /\ step'[q] = step[q]
        /\ made'[q] = made[q] /\ outcome'[q] = outcome[q] /\ faults' = faults
    BY DEF CampaignIInv, attempt
  <2> QED BY <2>1, AttemptKept
<1> QED BY <1>1, <1>2

\* A runner that is nowhere in the loop, and does not get there, remembers nothing before or after.
LEMMA NothingToRemember ==
  ASSUME Memory, NEW q \in Runner, pc[q] \notin Loaded, pc'[q] \notin Loaded,
         known'[q] = known[q], to_run'[q] = to_run[q],
         executed'[q] = executed[q], failures'[q] = failures[q]
  PROVE  Remembers(q)'
  BY DEF Memory, Remembers, Loaded

\* So does the start of a process, ...
LEMMA StartKeepsIInv ==
  ASSUME CampaignIInv, NEW p \in Runner, Start(p)
  PROVE  CampaignIInv'
<1>1. /\ pc[p] = "off" /\ starts < MaxStarts /\ starts' = starts + 1
      /\ alive' = alive \cup {p}
      /\ exit' = [exit EXCEPT ![p] = None] /\ pc' = [pc EXCEPT ![p] = "lock"]
      /\ UNCHANGED <<resources, ledger, attempt, step, outcome, faults>>
      /\ UNCHANGED <<lock, files, memory, stops>>
  BY DEF Start, Move
<1>2. Typed /\ Turns /\ Memory /\ LeftClean
  BY DEF CampaignIInv
<1>3. DaemonTyped' /\ RunnersTyped' /\ faults' \in 0 .. MaxFaults /\ \A q \in Runner : Attempt(q)'
  BY <1>1, CaseKept
<1>4. Typed'
  <2>1. starts' \in 0 .. MaxStarts
    BY <1>1, <1>2, CampaignConfig DEF Typed
  <2>2. exit' \in [Runner -> {None, 0, 1, 130}]
    BY <1>1, <1>2 DEF Typed
  <2>3. pc' \in [Runner -> {"off", "lock", "load", "docker", "loop", "run", "report"}]
    BY <1>1, <1>2 DEF Typed
  <2> QED BY <1>1, <1>2, <1>3, <2>1, <2>2, <2>3 DEF Typed, files, memory
<1>5. \A q \in Runner : \/ pc'[q] = pc[q]
                        \/ pc[q] \notin Loaded \cup {"load"} /\ pc'[q] \notin Loaded \cup {"load"}
  BY <1>1, <1>2 DEF Typed, Loaded
<1>6. Turns'
  BY <1>1, <1>2, <1>5 DEF Turns, Turn, attempt, Loaded
<1>7. Memory'
  <2>1. ASSUME NEW q \in Runner PROVE Remembers(q)'
    <3>1. CASE pc'[q] = pc[q]
      <4>1. Remembers(q)
        BY <1>2 DEF Memory
      <4> QED BY <1>1, <3>1, <4>1 DEF Remembers, Passed, files, memory, attempt
    <3>2. CASE pc[q] \notin Loaded \cup {"load"} /\ pc'[q] \notin Loaded \cup {"load"}
      BY <1>1, <1>2, <3>2, NothingToRemember DEF memory
    <3> QED BY <1>5, <3>1, <3>2
  <2>2. journal' = journal /\ results' = results
    BY <1>1 DEF files
  <2>3. PassedOnce'
    BY <1>2, <2>2 DEF Memory, PassedOnce
  <2> QED BY <1>2, <2>1, <2>2, <2>3 DEF Memory
<1>8. LeftClean'
  BY <1>1, <1>2, LeftCleanKept DEF resources, files
<1> QED BY <1>3, <1>4, <1>6, <1>7, <1>8 DEF CampaignIInv

\* The end of a process, by itself or not: nobody else notices, and nothing of
\* what it has made is removed.
LEMMA GoneKeepsIInv ==
  ASSUME CampaignIInv, NEW p \in Runner, NEW code \in {None, 0, 1, 130}, Gone(p, code),
         journal' = journal, torn' \in BOOLEAN,
         results' = results \/ (pc[p] \in Loaded /\ results' = known[p]),
         starts' = starts, stops' \in 0 .. MaxStops,
         faults' \in faults .. MaxFaults
  PROVE  CampaignIInv'
<1>1. /\ pc' = [pc EXCEPT ![p] = "off"] /\ exit' = [exit EXCEPT ![p] = code]
      /\ lock' = (IF lock = p THEN None ELSE lock) /\ alive' = alive \ {p}
      /\ case' = [case EXCEPT ![p] = None] /\ step' = [step EXCEPT ![p] = "idle"]
      /\ made' = [made EXCEPT ![p] = {}] /\ outcome' = [outcome EXCEPT ![p] = None]
      /\ known' = [known EXCEPT ![p] = NoResults] /\ to_run' = [to_run EXCEPT ![p] = << >>]
      /\ executed' = [executed EXCEPT ![p] = 0] /\ failures' = [failures EXCEPT ![p] = 0]
      /\ UNCHANGED <<resources, ledger>>
  BY DEF Gone, Move, NoCase, Forget
<1>2. Typed /\ Turns /\ Memory /\ LeftClean /\ \A q \in Runner : Attempt(q)
  BY DEF CampaignIInv
<1>3. /\ pc'[p] = "off" /\ case'[p] = None /\ step'[p] = "idle" /\ made'[p] = {}
      /\ outcome'[p] = None
      /\ known'[p] = NoResults /\ to_run'[p] = << >> /\ executed'[p] = 0 /\ failures'[p] = 0
  BY <1>1, <1>2 DEF Typed, RunnersTyped
<1>4. ASSUME NEW q \in Runner, q # p
      PROVE  /\ pc'[q] = pc[q] /\ case'[q] = case[q] /\ step'[q] = step[q]
             /\ made'[q] = made[q] /\ outcome'[q] = outcome[q]
             /\ known'[q] = known[q] /\ to_run'[q] = to_run[q]
             /\ executed'[q] = executed[q] /\ failures'[q] = failures[q]
  BY <1>1, <1>2, <1>4 DEF Typed, RunnersTyped
<1>5. Typed'
  <2>1. DaemonTyped'
    BY <1>1, <1>2 DEF Typed, DaemonTyped, resources, ledger
  <2>2. RunnersTyped'
    BY <1>1, <1>2 DEF Typed, RunnersTyped
  <2>3. faults' \in 0 .. MaxFaults /\ starts' \in 0 .. MaxStarts
    BY <1>2, CaseConfig DEF Typed
  <2>4. lock' \in Runner \cup {None} /\ alive' \subseteq Runner
    BY <1>1, <1>2 DEF Typed
  <2>5. journal' \in Seq(Line)
    BY <1>2 DEF Typed
  <2>6. results' \in [Run -> Statuses \cup {None}]
    BY <1>2 DEF Typed
  <2>7. known' \in [Runner -> [Run -> Statuses \cup {None}]]
    <3>1. NoResults \in [Run -> Statuses \cup {None}]
      BY DEF NoResults
    <3> QED BY <1>1, <1>2, <3>1 DEF Typed
  <2>8. to_run' \in [Runner -> Seq(Run)]
    BY <1>1, <1>2 DEF Typed
  <2>9. executed' \in [Runner -> Nat] /\ failures' \in [Runner -> Nat]
    BY <1>1, <1>2 DEF Typed
  <2>10. exit' \in [Runner -> {None, 0, 1, 130}]
    BY <1>1, <1>2 DEF Typed
  <2>11. pc' \in [Runner -> {"off", "lock", "load", "docker", "loop", "run", "report"}]
    BY <1>1, <1>2 DEF Typed
  <2> QED BY <2>1, <2>2, <2>3, <2>4, <2>5, <2>6, <2>7, <2>8, <2>9, <2>10, <2>11 DEF Typed
<1>6. Turns'
  <2>1. ASSUME NEW q \in Runner PROVE Turn(q)'
    <3>1. CASE q = p
      <4>1. "idle" \notin Ending /\ "off" \notin Loaded \cup {"load", "run"}
        BY DEF Ending, FinalSteps, Loaded
      <4> QED BY <1>3, <3>1, <4>1 DEF Turn
    <3>2. CASE q # p
      <4>1. Turn(q)
        BY <1>2 DEF Turns
      <4>2. lock = q => lock' = q
        BY <1>1, <3>2
      <4> QED BY <1>4, <3>2, <4>1, <4>2 DEF Turn
    <3> QED BY <3>1, <3>2
  <2> QED BY <2>1 DEF Turns
<1>7. Memory'
  <2>1. journal' = << >> => results' = NoResults
    <3>1. CASE results' = results
      BY <1>2, <3>1 DEF Memory
    <3>2. CASE pc[p] \in Loaded /\ results' = known[p]
      BY <1>2, <3>2, LatestEmpty DEF Memory, Remembers
    <3> QED BY <3>1, <3>2
  <2>2. PassedOnce'
    BY <1>2 DEF Memory, PassedOnce
  <2>3. ASSUME NEW q \in Runner PROVE Remembers(q)'
    <3>1. CASE q = p
      <4>1. "off" \notin Loaded
        BY DEF Loaded
      <4> QED BY <1>3, <3>1, <4>1 DEF Remembers
    <3>2. CASE q # p
      <4>1. Remembers(q)
        BY <1>2 DEF Memory
      <4> QED BY <1>4, <3>2, <4>1 DEF Remembers, Passed
    <3> QED BY <3>1, <3>2
  <2> QED BY <2>1, <2>2, <2>3 DEF Memory
<1>8. faults' = 0 => faults = 0
  BY <1>2 DEF Typed
<1>9. ASSUME NEW q \in Runner PROVE Attempt(q)'
  <2>1. CASE q = p
    BY <1>3, <2>1 DEF Attempt
  <2>2. CASE q # p
    BY <1>1, <1>2, <1>4, <1>8, <2>2, AttemptKept
  <2> QED BY <2>1, <2>2
<1>10. LeftClean'
  BY <1>1, <1>2, <1>8, LeftCleanKept DEF resources
<1> QED BY <1>5, <1>6, <1>7, <1>9, <1>10 DEF CampaignIInv

\* ... the lock, which only one of them gets, ...
LEMMA LockKeepsIInv ==
  ASSUME CampaignIInv, NEW p \in Runner, Lock(p)
  PROVE  CampaignIInv'
<1>1. CASE Gone(p, 1) /\ UNCHANGED faults
  <2>1. /\ UNCHANGED <<journal, results, starts, stops>> /\ torn' \in BOOLEAN
        /\ stops' \in 0 .. MaxStops /\ faults' \in faults .. MaxFaults
    BY <1>1, CaseConfig DEF Lock, files, counts, CampaignIInv, Typed
  <2> QED BY <1>1, <2>1, GoneKeepsIInv
<1>2. CASE lock = None /\ lock' = p /\ Move(p, "load") /\ UNCHANGED <<caseVars, memory, exit>>
  <2>1. /\ pc[p] = "lock" /\ lock = None /\ lock' = p /\ pc' = [pc EXCEPT ![p] = "load"]
        /\ UNCHANGED <<resources, ledger, attempt, step, outcome, faults, alive>>
        /\ UNCHANGED <<files, memory, exit, counts>>
    BY <1>2 DEF Lock, Move, caseVars
  <2>2. Typed /\ Turns /\ Memory /\ LeftClean
    BY DEF CampaignIInv
  <2>3. DaemonTyped' /\ RunnersTyped' /\ faults' \in 0 .. MaxFaults /\ \A q \in Runner : Attempt(q)'
    BY <2>1, CaseKept
  <2>4. Typed'
    <3>1. pc' \in [Runner -> {"off", "lock", "load", "docker", "loop", "run", "report"}]
      BY <2>1, <2>2 DEF Typed
    <3> QED BY <2>1, <2>2, <2>3, <3>1 DEF Typed, files, memory, counts
  <2>5. pc'[p] = "load" /\ \A q \in Runner \ {p} : pc'[q] = pc[q]
    BY <2>1, <2>2 DEF Typed
  <2>6. \A q \in Runner : pc[q] \notin Loaded \cup {"load"}
    <3>1. \A q \in Runner : lock # q
      BY <2>1, CaseConfig
    <3> QED BY <2>2, <3>1 DEF Turns, Turn
  <2>7. \A q \in Runner : pc'[q] \notin Loaded /\ (q # p => pc'[q] # "load")
    BY <2>5, <2>6 DEF Loaded
  <2>8. Turns'
    BY <2>1, <2>2, <2>5, <2>6, <2>7 DEF Turns, Turn, attempt, Loaded
  <2>9. Memory'
    <3>1. \A q \in Runner : Remembers(q)'
      BY <2>1, <2>2, <2>6, <2>7, NothingToRemember DEF memory
    <3>2. journal' = journal /\ results' = results
      BY <2>1 DEF files
    <3>3. PassedOnce'
      BY <2>2, <3>2 DEF Memory, PassedOnce
    <3> QED BY <2>2, <3>1, <3>2, <3>3 DEF Memory
  <2>10. LeftClean'
    BY <2>1, <2>2, LeftCleanKept DEF resources, files
  <2> QED BY <2>3, <2>4, <2>8, <2>9, <2>10 DEF CampaignIInv
<1> QED BY <1>1, <1>2 DEF Lock

\* What a campaign reads at its start is what the journal says, ...
LEMMA PreviousIsLatest ==
  ASSUME Memory
  PROVE  Previous = LatestStatus(journal)
  BY LatestEmpty DEF Memory, Previous

\* ... and what it finds left to run has not passed, and is all that has not.
LEMMA LeftFacts ==
  ASSUME NEW latest, NEW r, r = Left(latest)
  PROVE  /\ r \in Seq(Run) /\ Len(r) <= Len(Selected)
         /\ ToSet(r) \subseteq ToSet(Selected)
         /\ IsInjective(r)
         /\ Resume => \A c \in ToSet(r) : latest[c] # "PASS"
         /\ Resume /\ RerunFailed =>
              \A c \in ToSet(Selected) : latest[c] = "PASS" \/ c \in ToSet(r)
<1> DEFINE S == {c \in Run : \/ ~ Resume
                             \/ latest[c] = None
                             \/ RerunFailed /\ latest[c] # "PASS"}
<1>1. r = Those(Selected, S)
  BY DEF Left
<1>2. Selected \in Seq(Run) /\ IsInjective(Selected)
  BY CampaignConfig
<1>3. /\ r \in Seq(Run) /\ Len(r) <= Len(Selected)
      /\ ToSet(r) = ToSet(Selected) \cap S
      /\ IsInjective(r)
  <2> HIDE DEF S
  <2>1. r \in Seq(Run) /\ Len(r) <= Len(Selected)
    BY <1>1, <1>2, ThoseFacts
  <2>2. ToSet(r) = ToSet(Selected) \cap S
    BY <1>1, <1>2, ThoseFacts
  <2>3. IsInjective(r)
    BY <1>1, <1>2, ThoseFacts
  <2> QED BY <2>1, <2>2, <2>3
<1>4. Resume => \A c \in S : latest[c] # "PASS"
  BY CampaignConfig
<1>5. ToSet(Selected) \subseteq Run
  <2>1. \A i \in DOMAIN Selected : Selected[i] \in Run
    BY <1>2, LenProperties, ElementOfSeq
  <2> QED BY <2>1 DEF ToSet
<1>6. Resume /\ RerunFailed => \A c \in ToSet(Selected) : latest[c] = "PASS" \/ c \in S
  BY <1>5
<1> HIDE DEF S
<1> QED BY <1>3, <1>4, <1>6

\* ... reading the journal, ...
LEMMA LoadKeepsIInv ==
  ASSUME CampaignIInv, NEW p \in Runner, Load(p)
  PROVE  CampaignIInv'
<1>1. CASE Gone(p, 1) /\ UNCHANGED <<faults, files>>
  <2>1. /\ UNCHANGED <<journal, results, starts, stops>> /\ torn' \in BOOLEAN
        /\ stops' \in 0 .. MaxStops /\ faults' \in faults .. MaxFaults
    BY <1>1, CaseConfig DEF Load, files, counts, CampaignIInv, Typed
  <2> QED BY <1>1, <2>1, GoneKeepsIInv
<1>2. CASE /\ known' = [known EXCEPT ![p] = Previous]
           /\ results' = Previous
           /\ to_run' = [to_run EXCEPT ![p] = Left(Previous)]
           /\ Move(p, "docker")
           /\ UNCHANGED <<caseVars, lock, journal, torn, executed, failures, exit>>
  <2>1. Typed /\ Turns /\ Memory /\ LeftClean
    BY DEF CampaignIInv
  <2>2. PICK latest, r : latest = Previous /\ r = Left(latest)
    OBVIOUS
  <2>3. latest = LatestStatus(journal)
    BY <2>1, <2>2, PreviousIsLatest
  <2>4. latest \in [Run -> Statuses \cup {None}]
    BY <2>1, <2>3, LatestRange DEF Typed
  <2>5. /\ pc[p] = "load" /\ pc' = [pc EXCEPT ![p] = "docker"]
        /\ known' = [known EXCEPT ![p] = latest] /\ results' = latest
        /\ to_run' = [to_run EXCEPT ![p] = r]
        /\ UNCHANGED <<resources, ledger, attempt, step, outcome, faults, alive>>
        /\ UNCHANGED <<lock, journal, torn, executed, failures, exit, counts>>
    BY <1>2, <2>2 DEF Load, Move, caseVars
  <2>6. /\ r \in Seq(Run) /\ Len(r) <= Len(Selected)
        /\ ToSet(r) \subseteq ToSet(Selected) /\ IsInjective(r)
    BY <2>2, LeftFacts
  <2>7. /\ Resume => \A c \in ToSet(r) : latest[c] # "PASS"
        /\ Resume /\ RerunFailed => \A c \in ToSet(Selected) : latest[c] = "PASS" \/ c \in ToSet(r)
    BY <2>2, LeftFacts
  <2>8. DaemonTyped' /\ RunnersTyped' /\ faults' \in 0 .. MaxFaults /\ \A q \in Runner : Attempt(q)'
    BY <2>5, CaseKept
  <2>9. Typed'
    <3>1. pc' \in [Runner -> {"off", "lock", "load", "docker", "loop", "run", "report"}]
      BY <2>1, <2>5 DEF Typed
    <3>2. known' \in [Runner -> [Run -> Statuses \cup {None}]] /\ to_run' \in [Runner -> Seq(Run)]
      BY <2>1, <2>4, <2>5, <2>6 DEF Typed
    <3>3. results' \in [Run -> Statuses \cup {None}]
      BY <2>4, <2>5
    <3> QED BY <2>1, <2>5, <2>8, <3>1, <3>2, <3>3 DEF Typed, counts
  <2>10. /\ pc'[p] = "docker" /\ known'[p] = latest /\ to_run'[p] = r
         /\ executed'[p] = 0 /\ failures'[p] = 0
    BY <2>1, <2>5 DEF Typed, Memory, Remembers, Loaded
  <2>11. ASSUME NEW q \in Runner, q # p
         PROVE  /\ pc'[q] = pc[q] /\ known'[q] = known[q] /\ to_run'[q] = to_run[q]
                /\ pc[q] \notin Loaded
    BY <2>1, <2>5, <2>11, OthersAreIdle DEF Typed
  <2>12. Turns'
    <3>1. ASSUME NEW q \in Runner PROVE Turn(q)'
      <4>1. Turn(q) /\ Turn(p)
        BY <2>1 DEF Turns
      <4>2. CASE q = p
        BY <2>5, <2>10, <4>1, <4>2 DEF Turn, attempt
      <4>3. CASE q # p
        BY <2>5, <2>11, <4>1, <4>3 DEF Turn, attempt
      <4> QED BY <4>2, <4>3
    <3> QED BY <3>1 DEF Turns
  <2>13. Memory'
    <3>1. journal' = << >> => results' = NoResults
      BY <2>3, <2>5, LatestEmpty
    <3>2. PassedOnce'
      BY <2>1, <2>5 DEF Memory, PassedOnce
    <3>3. Remembers(p)'
      <4>1. executed'[p] + Len(to_run'[p]) <= Len(Selected)
        <5>1. Len(r) \in Nat
          BY <2>6, LenProperties
        <5> QED BY <2>6, <2>10, <5>1
      <4>2. Resume => \A c \in ToSet(to_run'[p]) : ~ Passed(c)'
        BY <2>3, <2>5, <2>7, <2>10 DEF Passed
      <4>3. Resume /\ RerunFailed =>
              \A c \in ToSet(Selected) : Passed(c)' \/ c \in ToSet(to_run'[p])
        BY <2>3, <2>5, <2>7, <2>10 DEF Passed
      <4>4. known'[p] = LatestStatus(journal)'
        BY <2>3, <2>5, <2>10
      <4> QED BY <2>6, <2>10, <4>1, <4>2, <4>3, <4>4 DEF Remembers, Loaded
    <3>4. ASSUME NEW q \in Runner PROVE Remembers(q)'
      <4>1. CASE q # p
        BY <2>1, <2>5, <2>11, <4>1, NothingToRemember
      <4> QED BY <3>3, <4>1
    <3> QED BY <3>1, <3>2, <3>4 DEF Memory
  <2>14. LeftClean'
    BY <2>1, <2>5, LeftCleanKept DEF resources
  <2> QED BY <2>8, <2>9, <2>12, <2>13, <2>14 DEF CampaignIInv
<1> QED BY <1>1, <1>2 DEF Load

\* From one place of the loop to another, between two runs.
LEMMA LoopKeepsIInv ==
  ASSUME CampaignIInv, NEW p \in Runner, pc[p] \in {"docker", "report"}, Move(p, "loop"),
         results' = results \/ results' = known[p],
         UNCHANGED <<caseVars, lock, journal, torn, memory, exit, counts>>
  PROVE  CampaignIInv'
<1>1. Typed /\ Turns /\ Memory /\ LeftClean
  BY DEF CampaignIInv
<1>2. /\ pc' = [pc EXCEPT ![p] = "loop"]
      /\ UNCHANGED <<resources, ledger, attempt, step, outcome, faults, alive>>
      /\ UNCHANGED <<lock, journal, torn, memory, exit, counts>>
  BY DEF Move, caseVars
<1>3. DaemonTyped' /\ RunnersTyped' /\ faults' \in 0 .. MaxFaults /\ \A q \in Runner : Attempt(q)'
  BY <1>2, CaseKept
<1>4. Typed'
  <2>1. pc' \in [Runner -> {"off", "lock", "load", "docker", "loop", "run", "report"}]
    BY <1>1, <1>2 DEF Typed
  <2>2. results' \in [Run -> Statuses \cup {None}]
    BY <1>1 DEF Typed
  <2> QED BY <1>1, <1>2, <1>3, <2>1, <2>2 DEF Typed, memory, counts
<1>5. pc'[p] = "loop" /\ \A q \in Runner \ {p} : pc'[q] = pc[q]
  BY <1>1, <1>2 DEF Typed
<1>6. Turns'
  <2>1. ASSUME NEW q \in Runner PROVE Turn(q)'
    <3>1. Turn(q) /\ Turn(p)
      BY <1>1 DEF Turns
    <3>2. CASE q = p
      BY <1>2, <1>5, <3>1, <3>2 DEF Turn, attempt, Loaded
    <3>3. CASE q # p
      BY <1>2, <1>5, <3>1, <3>3 DEF Turn, attempt
    <3> QED BY <3>2, <3>3
  <2> QED BY <2>1 DEF Turns
<1>7. Memory'
  <2>1. ASSUME NEW q \in Runner PROVE Remembers(q)'
    <3>1. /\ Remembers(q) /\ (pc'[q] \in Loaded <=> pc[q] \in Loaded)
          /\ (pc'[q] = "run" => pc[q] = "run")
      BY <1>1, <1>5 DEF Memory, Loaded
    <3> QED BY <1>2, <3>1 DEF Remembers, Passed, memory, attempt
  <2>2. journal' = << >> => results' = NoResults
    <3>1. known[p] = LatestStatus(journal)
      BY <1>1 DEF Memory, Remembers, Loaded
    <3> QED BY <1>1, <1>2, <3>1, LatestEmpty DEF Memory
  <2>3. PassedOnce'
    BY <1>1, <1>2 DEF Memory, PassedOnce
  <2> QED BY <2>1, <2>2, <2>3 DEF Memory
<1>8. LeftClean'
  BY <1>1, <1>2, LeftCleanKept DEF resources
<1> QED BY <1>3, <1>4, <1>6, <1>7, <1>8 DEF CampaignIInv

\* ... the first step of a run, ...
LEMMA BeginKeepsIInv ==
  ASSUME CampaignIInv, NEW p \in Runner, Begin(p)
  PROVE  CampaignIInv'
<1>1. Typed /\ Turns /\ Memory /\ LeftClean /\ \A q \in Runner : Attempt(q)
  BY DEF CampaignIInv
<1>2. PICK c : c = Head(to_run[p])
  OBVIOUS
<1>3. c \in Run
  <2>1. PICK s : s = to_run[p]
    OBVIOUS
  <2>2. s \in Seq(Run) /\ s # << >>
    BY <1>1, <2>1 DEF Begin, Typed
  <2>3. Head(s) \in Run
    BY <2>2, HeadTailProperties
  <2> QED BY <1>2, <2>1, <2>3
<1>4. /\ pc[p] = "loop" /\ to_run[p] # << >>
      /\ case' = [case EXCEPT ![p] = c] /\ step' = [step EXCEPT ![p] = "stale containers"]
      /\ pc' = [pc EXCEPT ![p] = "run"]
      /\ UNCHANGED <<resources, ledger, made, outcome, faults, alive>>
      /\ UNCHANGED <<lock, files, memory, exit, counts>>
  BY <1>2 DEF Begin, Move
<1>5. made[p] = {} /\ outcome[p] = None
  BY <1>1, <1>4 DEF Turns, Turn
<1>6. /\ pc'[p] = "run" /\ case'[p] = c /\ step'[p] = "stale containers"
      /\ made'[p] = {} /\ outcome'[p] = None
  BY <1>1, <1>4, <1>5 DEF Typed, RunnersTyped
<1>7. ASSUME NEW q \in Runner, q # p
      PROVE  pc'[q] = pc[q] /\ case'[q] = case[q] /\ step'[q] = step[q]
  <2>1. pc'[q] = pc[q]
    BY <1>1, <1>4, <1>7 DEF Typed
  <2>2. case'[q] = case[q]
    BY <1>1, <1>4, <1>7 DEF Typed, RunnersTyped
  <2>3. step'[q] = step[q]
    BY <1>1, <1>4, <1>7 DEF Typed, RunnersTyped
  <2> QED BY <2>1, <2>2, <2>3
<1>8. Typed'
  <2>1. pc' \in [Runner -> {"off", "lock", "load", "docker", "loop", "run", "report"}]
    BY <1>1, <1>4 DEF Typed
  <2>2. DaemonTyped'
    BY <1>1, <1>4 DEF Typed, DaemonTyped, resources, ledger
  <2>3. step' \in [Runner -> TrySteps \cup FinalSteps \cup {"idle", "done"}]
    <3>1. "stale containers" \in TrySteps
      BY DEF TrySteps
    <3> QED BY <1>1, <1>4, <3>1 DEF Typed, RunnersTyped
  <2>4. RunnersTyped'
    BY <1>1, <1>3, <1>4, <2>3 DEF Typed, RunnersTyped
  <2> QED BY <1>1, <1>4, <2>1, <2>2, <2>4 DEF Typed, files, memory, counts
<1>9. Turns'
  <2>1. ASSUME NEW q \in Runner PROVE Turn(q)'
    <3>1. Turn(q) /\ Turn(p)
      BY <1>1 DEF Turns
    <3>2. CASE q = p
      <4>1. "stale containers" \notin Ending
        BY DEF Ending, FinalSteps
      <4> QED BY <1>4, <1>6, <3>1, <3>2, <4>1 DEF Turn, Loaded
    <3>3. CASE q # p
      BY <1>4, <1>7, <3>1, <3>3 DEF Turn
    <3> QED BY <3>2, <3>3
  <2> QED BY <2>1 DEF Turns
<1>10. Memory'
  <2>1. ASSUME NEW q \in Runner PROVE Remembers(q)'
    <3>1. Remembers(q)
      BY <1>1 DEF Memory
    <3>2. CASE q = p
      BY <1>2, <1>4, <1>6, <3>1, <3>2 DEF Remembers, Passed, memory, files, Loaded
    <3>3. CASE q # p
      BY <1>4, <1>7, <3>1, <3>3 DEF Remembers, Passed, memory, files
    <3> QED BY <3>2, <3>3
  <2>2. journal' = journal /\ results' = results
    BY <1>4 DEF files
  <2>3. PassedOnce'
    BY <1>1, <2>2 DEF Memory, PassedOnce
  <2> QED BY <1>1, <2>1, <2>2, <2>3 DEF Memory
<1>11. ASSUME NEW q \in Runner PROVE Attempt(q)'
  <2>1. CASE q = p
    <3>1. Provisioned(p)'
      BY <1>6 DEF Provisioned, Provisioning, Executing
    <3>2. Delivered(p)'
      BY <1>6 DEF Delivered, Provisioning, Executing
    <3> QED BY <1>6, <2>1, <3>1, <3>2, InTry
  <2>2. CASE q # p
    BY <1>1, <1>4, <1>7, <2>2, AttemptKept
  <2> QED BY <2>1, <2>2
<1>12. LeftClean'
  BY <1>1, <1>4, LeftCleanKept DEF resources, files
<1> QED BY <1>8, <1>9, <1>10, <1>11, <1>12 DEF CampaignIInv

\* ... its last, which adds its result to the journal: it was not a passed run, so
\* nothing follows a PASS; if it has passed now, it has left nothing, ...
LEMMA AppendResultKeepsIInv ==
  ASSUME CampaignIInv, NEW p \in Runner, AppendResult(p)
  PROVE  CampaignIInv'
<1>1. Typed /\ Turns /\ Memory /\ LeftClean /\ \A q \in Runner : Attempt(q)
  BY DEF CampaignIInv
<1>2. PICK c, o, l, s, r : /\ c = case[p] /\ o = outcome[p] /\ l = [run |-> c, status |-> o]
                           /\ s = to_run[p] /\ r = Tail(s)
  OBVIOUS
<1>3. /\ pc[p] = "run" /\ step[p] = "done"
      /\ journal' = Append(journal, l)
      /\ known' = [known EXCEPT ![p][c] = o]
      /\ to_run' = [to_run EXCEPT ![p] = r]
      /\ executed' = [executed EXCEPT ![p] = @ + 1]
      /\ failures' = [failures EXCEPT ![p] = @ + IF o = "PASS" THEN 0 ELSE 1]
      /\ case' = [case EXCEPT ![p] = None] /\ step' = [step EXCEPT ![p] = "idle"]
      /\ made' = [made EXCEPT ![p] = {}] /\ outcome' = [outcome EXCEPT ![p] = None]
      /\ pc' = [pc EXCEPT ![p] = "report"]
      /\ UNCHANGED <<resources, ledger, faults, alive, lock, torn, results, exit, counts>>
  BY <1>2 DEF AppendResult, NoCase, Move
<1>4. c \in Run /\ s # << >> /\ c = Head(s) /\ s \in Seq(Run)
  BY <1>1, <1>2, <1>3, InHand DEF Typed
<1>5. o \in Statuses
  <2>1. o # None
    BY <1>1, <1>2, <1>3 DEF Turns, Turn, Ending
  <2> QED BY <1>1, <1>2, <2>1 DEF Typed, RunnersTyped
<1>6. l \in Line /\ l.run = c /\ l.status = o
  BY <1>2, <1>4, <1>5 DEF Line
<1>7. /\ r \in Seq(Run) /\ Len(r) + 1 = Len(s)
      /\ ToSet(s) = ToSet(r) \cup {c}
      /\ IsInjective(s) => IsInjective(r) /\ c \notin ToSet(r)
  <2>1. r \in Seq(Run) /\ Len(r) + 1 = Len(s)
    BY <1>2, <1>4, TailFacts
  <2>2. \A x : x \in ToSet(s) <=> x \in ToSet(r) \/ x = c
    BY <1>2, <1>4, TailElements
  <2>3. ASSUME IsInjective(s) PROVE IsInjective(r) /\ c \notin ToSet(r)
    BY <1>2, <1>4, <2>3, TailInjective
  <2> QED BY <2>1, <2>2, <2>3
<1>8. PICK before, after : before = LatestStatus(journal) /\ after = LatestStatus(journal')
  OBVIOUS
<1>9. after = [before EXCEPT ![c] = o] /\ before \in [Run -> Statuses \cup {None}]
  BY <1>1, <1>3, <1>6, <1>8, LatestAppended, LatestRange DEF Typed
<1>10. journal \in Seq(Line) /\ journal' \in Seq(Line) /\ journal' # << >>
  <2>1. journal \in Seq(Line)
    BY <1>1 DEF Typed
  <2>2. journal' \in Seq(Line) /\ Len(journal') = Len(journal) + 1 /\ Len(journal) \in Nat
    BY <1>3, <1>6, <2>1, Appended
  <2>3. Len(journal') # 0
    BY <2>2
  <2> QED BY <2>1, <2>2, <2>3, EmptySeq
<1>11. /\ pc'[p] = "report" /\ case'[p] = None /\ step'[p] = "idle" /\ made'[p] = {}
       /\ outcome'[p] = None /\ to_run'[p] = r /\ executed'[p] = executed[p] + 1
       /\ known'[p] = [known[p] EXCEPT ![c] = o]
       /\ failures'[p] = failures[p] + IF o = "PASS" THEN 0 ELSE 1
  BY <1>1, <1>3 DEF Typed, RunnersTyped
<1>12. ASSUME NEW q \in Runner, q # p
       PROVE  /\ pc'[q] = pc[q] /\ case'[q] = case[q] /\ step'[q] = step[q]
              /\ made'[q] = made[q] /\ outcome'[q] = outcome[q]
              /\ known'[q] = known[q] /\ to_run'[q] = to_run[q]
              /\ executed'[q] = executed[q] /\ failures'[q] = failures[q]
              /\ pc[q] \notin Loaded
  <2>1. pc[q] \notin Loaded
    BY <1>1, <1>3, <1>12, OthersAreIdle DEF Loaded
  <2> QED BY <1>1, <1>3, <1>12, <2>1 DEF Typed, RunnersTyped
<1>13. Typed'
  <2>1. DaemonTyped'
    BY <1>1, <1>3 DEF Typed, DaemonTyped, resources, ledger
  <2>2. RunnersTyped'
    BY <1>1, <1>3 DEF Typed, RunnersTyped
  <2>3. known' \in [Runner -> [Run -> Statuses \cup {None}]]
    BY <1>1, <1>3, <1>4, <1>5 DEF Typed
  <2>4. to_run' \in [Runner -> Seq(Run)]
    BY <1>1, <1>3, <1>7 DEF Typed
  <2>5. executed' \in [Runner -> Nat]
    BY <1>1, <1>3 DEF Typed
  <2>6. failures' \in [Runner -> Nat]
    <3>1. PICK d \in Nat : d = IF o = "PASS" THEN 0 ELSE 1
      OBVIOUS
    <3>2. failures' = [failures EXCEPT ![p] = @ + d]
      BY <1>3, <3>1
    <3> QED BY <1>1, <3>2 DEF Typed
  <2>7. pc' \in [Runner -> {"off", "lock", "load", "docker", "loop", "run", "report"}]
    BY <1>1, <1>3 DEF Typed
  <2> QED BY <1>1, <1>3, <1>10, <2>1, <2>2, <2>3, <2>4, <2>5, <2>6, <2>7 DEF Typed, counts
<1>14. Turns'
  <2>1. ASSUME NEW q \in Runner PROVE Turn(q)'
    <3>1. Turn(q) /\ Turn(p) /\ lock' = lock
      BY <1>1, <1>3 DEF Turns
    <3>2. CASE q = p
      <4>1. "idle" \notin Ending
        BY DEF Ending, FinalSteps
      <4> QED BY <1>3, <1>11, <3>1, <3>2, <4>1 DEF Turn, Loaded
    <3>3. CASE q # p
      BY <1>12, <3>1, <3>3 DEF Turn
    <3> QED BY <3>2, <3>3
  <2> QED BY <2>1 DEF Turns
<1>15. /\ known[p] = before /\ ToSet(s) \subseteq ToSet(Selected) /\ IsInjective(s)
       /\ executed[p] + Len(s) <= Len(Selected)
       /\ Resume => \A d \in ToSet(s) : before[d] # "PASS"
       /\ Resume /\ RerunFailed /\ failures[p] = 0 =>
            \A d \in ToSet(Selected) : before[d] = "PASS" \/ d \in ToSet(s)
       /\ failures[p] <= executed[p]
  BY <1>1, <1>2, <1>3, <1>8 DEF Memory, Remembers, Loaded, Passed
<1>16. PassedOnce'
  <2>1. SUFFICES ASSUME Resume, NEW i \in DOMAIN journal', NEW j \in DOMAIN journal',
                        i < j, journal'[i].status = "PASS", journal'[i].run = journal'[j].run
                 PROVE  FALSE
    BY DEF PassedOnce
  <2>2. /\ Len(journal) \in Nat /\ DOMAIN journal' = 1 .. Len(journal) + 1
        /\ DOMAIN journal = 1 .. Len(journal)
        /\ \A k \in 1 .. Len(journal) : journal'[k] = journal[k]
        /\ journal'[Len(journal) + 1] = l
    BY <1>3, <1>6, <1>10, Appended
  <2>3. i \in 1 .. Len(journal) /\ journal'[i] = journal[i]
    BY <2>1, <2>2
  <2>4. PassedOnce
    BY <1>1 DEF Memory
  <2>5. CASE j \in 1 .. Len(journal)
    BY <2>1, <2>2, <2>3, <2>4, <2>5 DEF PassedOnce
  <2>6. CASE j = Len(journal) + 1
    <3>1. journal[i].run = c /\ journal[i].status = "PASS"
      BY <1>6, <2>1, <2>2, <2>3, <2>6
    <3>2. before[c] = "PASS"
      BY <1>8, <1>10, <2>1, <2>3, <2>4, <3>1, PassIsLatest DEF Passed
    <3> QED BY <1>7, <1>15, <2>1, <3>2
  <2> QED BY <2>2, <2>5, <2>6
<1>17. Remembers(p)'
  <2>1. known'[p] = after
    BY <1>9, <1>11, <1>15
  <2>2. ToSet(r) \subseteq ToSet(Selected) /\ IsInjective(r) /\ c \notin ToSet(r)
    BY <1>7, <1>15
  <2>3. executed'[p] + Len(r) <= Len(Selected)
    <3>1. executed[p] \in Nat /\ Len(r) \in Nat /\ Len(Selected) \in Nat
      BY <1>1, <1>7, CampaignConfig, LenProperties DEF Typed
    <3> QED BY <1>7, <1>11, <1>15, <3>1
  <2>4. ToSet(r) \subseteq Run /\ ToSet(Selected) \subseteq Run
    <3>1. \A i \in DOMAIN Selected : Selected[i] \in Run
      BY CampaignConfig, LenProperties, ElementOfSeq
    <3>2. ToSet(Selected) \subseteq Run
      BY <3>1 DEF ToSet
    <3> QED BY <2>2, <3>2
  <2>5. Resume => \A d \in ToSet(r) : after[d] # "PASS"
    BY <1>7, <1>9, <1>15, <2>2, <2>4
  <2>6. failures'[p] <= executed'[p] /\ (failures'[p] = 0 => failures[p] = 0 /\ o = "PASS")
    <3>1. executed[p] \in Nat /\ failures[p] \in Nat
      BY <1>1 DEF Typed
    <3> QED BY <1>11, <1>15, <3>1
  <2>7. Resume /\ RerunFailed /\ failures'[p] = 0 =>
          \A d \in ToSet(Selected) : after[d] = "PASS" \/ d \in ToSet(r)
    BY <1>4, <1>7, <1>9, <1>15, <2>4, <2>6
  <2> QED BY <1>8, <1>11, <2>1, <2>2, <2>3, <2>5, <2>6, <2>7 DEF Remembers, Loaded, Passed
<1>18. Memory'
  <2>1. ASSUME NEW q \in Runner PROVE Remembers(q)'
    <3>1. CASE q # p
      BY <1>1, <1>12, <3>1, NothingToRemember
    <3> QED BY <1>17, <3>1
  <2> QED BY <1>10, <1>16, <2>1 DEF Memory
<1>19. ASSUME NEW q \in Runner PROVE Attempt(q)'
  <2>1. CASE q = p
    BY <1>11, <2>1 DEF Attempt
  <2>2. CASE q # p
    BY <1>1, <1>3, <1>12, <2>2, AttemptKept
  <2> QED BY <2>1, <2>2
<1>20. LeftClean'
  <2>1. SUFFICES ASSUME Resume, Cleanup, faults = 0, NEW d \in Run, after[d] = "PASS"
                 PROVE  Clean(d)'
    BY <1>3, <1>8 DEF LeftClean, Passed
  <2>2. Clean(d)
    <3>1. CASE d = c
      <4>1. o = "PASS" /\ c # None
        BY <1>4, <1>9, <2>1, <3>1, CaseConfig
      <4> QED BY <1>1, <1>2, <1>3, <2>1, <3>1, <4>1 DEF Attempt, Removed
    <3>2. CASE d # c
      <4>1. before[d] = "PASS"
        BY <1>9, <2>1, <3>2
      <4> QED BY <1>1, <1>8, <2>1, <4>1 DEF LeftClean, Passed
    <3> QED BY <3>1, <3>2
  <2> QED BY <1>3, <2>2 DEF Clean, Of, Attached, resources
<1> QED BY <1>13, <1>14, <1>18, <1>19, <1>20 DEF CampaignIInv

\* Where a runner is, when its campaign ends in its finally block.
LEMMA LeaveKeepsIInv ==
  ASSUME CampaignIInv, NEW p \in Runner, NEW status, NEW code \in {None, 0, 1, 130},
         Leave(p, status, code), pc[p] \in Loaded,
         starts' = starts, stops' \in 0 .. MaxStops, faults' \in faults .. MaxFaults
  PROVE  CampaignIInv'
<1>1. Gone(p, code) /\ journal' = journal /\ torn' = torn /\ results' = known[p]
  BY DEF Leave
<1>2. torn' \in BOOLEAN
  BY <1>1 DEF CampaignIInv, Typed
<1> QED BY <1>1, <1>2, GoneKeepsIInv

\* ... and every way to end: the last run, ...
LEMMA FinishKeepsIInv ==
  ASSUME CampaignIInv, NEW p \in Runner, Finish(p)
  PROVE  CampaignIInv'
<1>1. /\ pc[p] \in Loaded /\ Leave(p, "completed_shard", ExitCode(p))
      /\ ExitCode(p) \in {None, 0, 1, 130}
  BY DEF Finish, ExitCode, Loaded
<1>2. starts' = starts /\ stops' \in 0 .. MaxStops /\ faults' \in faults .. MaxFaults
  BY CaseConfig DEF Finish, counts, CampaignIInv, Typed
<1> QED BY <1>1, <1>2, LeaveKeepsIInv

\* ... an exception, ...
LEMMA FatalKeepsIInv ==
  ASSUME CampaignIInv, NEW p \in Runner, Fatal(p)
  PROVE  CampaignIInv'
<1>1. pc[p] \in Loaded
  <2>1. step[p] \in {"write result", "done"} => pc[p] = "run"
    BY DEF CampaignIInv, Turns, Turn
  <2> QED BY <2>1 DEF Fatal, Loaded
<1>2. Leave(p, "failed", 1)
  BY DEF Fatal
<1>3. starts' = starts /\ stops' \in 0 .. MaxStops /\ faults' \in faults .. MaxFaults
  <2>1. Typed /\ MaxFaults \in Nat
    BY CaseConfig DEF CampaignIInv
  <2>2. starts' = starts /\ stops' = stops
    BY DEF Fatal, counts
  <2>3. faults < MaxFaults /\ faults' = faults + 1
    BY DEF Fatal, Fault
  <2> QED BY <2>1, <2>2, <2>3 DEF Typed
<1> QED BY <1>1, <1>2, <1>3, LeaveKeepsIInv

\* ... an interrupt, ...
LEMMA InterruptKeepsIInv ==
  ASSUME CampaignIInv, NEW p \in Runner, Interrupt(p)
  PROVE  CampaignIInv'
<1>1. pc[p] \in Loaded /\ (Leave(p, "failed", 1) \/ Leave(p, "interrupted", 130))
  BY DEF Interrupt, Loaded
<1>2. starts' = starts /\ stops' \in 0 .. MaxStops /\ faults' \in faults .. MaxFaults
  BY CaseConfig, CampaignConfig DEF Interrupt, Stop, CampaignIInv, Typed
<1> QED BY <1>1, <1>2, LeaveKeepsIInv

\* ... and a kill.
LEMMA KillKeepsIInv ==
  ASSUME CampaignIInv, NEW p \in Runner, Kill(p)
  PROVE  CampaignIInv'
<1>1. Gone(p, None) /\ journal' = journal /\ results' = results
  BY DEF Kill
<1>2. torn' \in BOOLEAN
  BY DEF Kill, CampaignIInv, Typed
<1>3. starts' = starts /\ stops' \in 0 .. MaxStops /\ faults' \in faults .. MaxFaults
  BY CaseConfig, CampaignConfig DEF Kill, Stop, CampaignIInv, Typed
<1> QED BY <1>1, <1>2, <1>3, GoneKeepsIInv

\* Nothing has been started, nothing is there.
LEMMA InitCampaignIInv == CampaignInit => CampaignIInv
<1> SUFFICES ASSUME CampaignInit PROVE CampaignIInv
  OBVIOUS
<1> USE CaseConfig, CampaignConfig
<1>1. DaemonTyped
  BY DEF CampaignInit, CaseInit, DaemonTyped
<1>2. RunnersTyped
  BY DEF CampaignInit, CaseInit, RunnersTyped
<1>3. Typed
  <2>1. /\ known \in [Runner -> [Run -> Statuses \cup {None}]]
        /\ results \in [Run -> Statuses \cup {None}]
    BY DEF CampaignInit, NoResults
  <2>2. journal \in Seq(Line) /\ to_run \in [Runner -> Seq(Run)]
    BY DEF CampaignInit
  <2>3. /\ faults \in 0 .. MaxFaults /\ starts \in 0 .. MaxStarts /\ stops \in 0 .. MaxStops
        /\ lock \in Runner \cup {None} /\ alive \subseteq Runner
    BY DEF CampaignInit, CaseInit
  <2>5. torn \in BOOLEAN
    BY DEF CampaignInit
  <2>4. /\ executed \in [Runner -> Nat] /\ failures \in [Runner -> Nat]
        /\ exit \in [Runner -> {None, 0, 1, 130}]
        /\ pc \in [Runner -> {"off", "lock", "load", "docker", "loop", "run", "report"}]
    BY DEF CampaignInit
  <2> QED BY <1>1, <1>2, <2>1, <2>2, <2>3, <2>4, <2>5 DEF Typed
<1>4. Turns
  <2>1. "off" \notin Loaded \cup {"load", "run"} /\ "idle" \notin Ending
    BY DEF Loaded, Ending, FinalSteps
  <2> QED BY <2>1 DEF CampaignInit, CaseInit, Turns, Turn
<1>5. Memory
  <2>1. "off" \notin Loaded \cup {"run"}
    BY DEF Loaded
  <2>2. PassedOnce
    BY DEF CampaignInit, PassedOnce
  <2>3. ASSUME NEW p \in Runner PROVE Remembers(p)
    BY <2>1 DEF CampaignInit, Remembers
  <2> QED BY <2>2, <2>3 DEF CampaignInit, Memory
<1>6. \A p \in Runner : Attempt(p)
  BY DEF CampaignInit, CaseInit, Attempt
<1>7. LeftClean
  BY DEF CampaignInit, CaseInit, LeftClean, Clean, Of, Attached
<1> QED BY <1>3, <1>4, <1>5, <1>6, <1>7 DEF CampaignIInv

\* Every step keeps the invariant.
LEMMA NextKeepsIInv == CampaignIInv /\ [Next]_campaignVars => CampaignIInv'
<1> SUFFICES ASSUME CampaignIInv, [Next]_campaignVars PROVE CampaignIInv'
  OBVIOUS
<1>1. CASE Environment
  BY <1>1, EnvironmentKeepsIInv
<1>2. ASSUME NEW p \in Runner, CampaignStep(p) \/ Start(p) \/ Interrupt(p) \/ Kill(p)
      PROVE  CampaignIInv'
  <2>1. CASE Start(p)
    BY <2>1, StartKeepsIInv
  <2>2. CASE Lock(p)
    BY <2>2, LockKeepsIInv
  <2>3. CASE Load(p)
    BY <2>3, LoadKeepsIInv
  <2>4. CASE Docker(p)
    BY <2>4, LoopKeepsIInv DEF Docker
  <2>5. CASE Begin(p)
    BY <2>5, BeginKeepsIInv
  <2>6. CASE Proceed(p)
    BY <2>6, ProceedKeepsIInv
  <2>7. CASE AppendResult(p)
    BY <2>7, AppendResultKeepsIInv
  <2>8. CASE Report(p)
    BY <2>8, LoopKeepsIInv DEF Report
  <2>9. CASE Finish(p)
    BY <2>9, FinishKeepsIInv
  <2>10. CASE Fatal(p)
    BY <2>10, FatalKeepsIInv
  <2>11. CASE Interrupt(p)
    BY <2>11, InterruptKeepsIInv
  <2>12. CASE Kill(p)
    BY <2>12, KillKeepsIInv
  <2> QED BY <1>2, <2>1, <2>2, <2>3, <2>4, <2>5, <2>6, <2>7, <2>8, <2>9, <2>10, <2>11,
             <2>12 DEF CampaignStep
<1>3. CASE UNCHANGED campaignVars
  <2>1. /\ UNCHANGED <<resources, ledger, attempt, step, outcome, faults, alive>>
        /\ UNCHANGED <<lock, files, pc, memory, exit, counts>>
    BY <1>3 DEF campaignVars, caseVars
  <2>2. Typed /\ Turns /\ Memory /\ LeftClean
    BY DEF CampaignIInv
  <2>3. DaemonTyped' /\ RunnersTyped' /\ faults' \in 0 .. MaxFaults /\ \A q \in Runner : Attempt(q)'
    BY <2>1, CaseKept
  <2>4. Typed'
    BY <2>1, <2>2, <2>3 DEF Typed, files, memory, counts
  <2>5. Turns'
    BY <2>1, <2>2 DEF Turns, Turn, attempt
  <2>6. Memory'
    BY <2>1, <2>2, MemoryKept DEF files, attempt
  <2>7. LeftClean'
    BY <2>1, <2>2, LeftCleanKept DEF files, resources
  <2> QED BY <2>3, <2>4, <2>5, <2>6, <2>7 DEF CampaignIInv
<1> QED BY <1>1, <1>2, <1>3 DEF Next

----------------------------------------------------------------------------
(* The theorems. *)

\* The inductive invariant of the campaign.
THEOREM CampaignInvariant == Spec => []CampaignIInv
<1>1. QED BY InitCampaignIInv, NextKeepsIInv, PTL DEF Spec

\* What a runner has in hand, and what the invariant says of it.
LEMMA HasARun ==
  ASSUME CampaignIInv, NEW p \in Runner, step[p] # "idle"
  PROVE  case[p] \in Run /\ Provisioned(p) /\ Delivered(p)
<1>1. pc[p] = "run"
  BY DEF CampaignIInv, Turns, Turn
<1>2. case[p] \in Run
  BY <1>1, InHand DEF CampaignIInv
<1> QED BY <1>2, CaseConfig DEF CampaignIInv, Attempt

\* An attempt starts clean: no create call meets its own name, and no gateway
\* finds the ledger of an attempt before it (docker_runtime.py:164-203).
THEOREM AttemptsStartClean == Spec => []CampaignInv
<1>1. ASSUME CampaignIInv PROVE CampaignTypeOK
  <2>1. Typed /\ Turns /\ Memory
    BY <1>1 DEF CampaignIInv
  <2>2. ASSUME NEW p \in Runner, step[p] \in FinalSteps \cup {"done"}
        PROVE  outcome[p] \in Statuses
    BY <2>1, <2>2 DEF Typed, RunnersTyped, Turns, Turn, Ending
  <2>3. ASSUME NEW i \in DOMAIN journal PROVE journal[i] \in [run : Run, status : Statuses]
    <3>1. journal \in Seq(Line) /\ DOMAIN journal = 1 .. Len(journal)
      BY <2>1, LenProperties DEF Typed
    <3>2. journal[i] \in Line
      BY <3>1, ElementOfSeq
    <3> QED BY <3>2 DEF Line
  <2>4. ASSUME NEW p \in Runner
        PROVE  /\ ToSet(to_run[p]) \subseteq ToSet(Selected)
               /\ failures[p] <= executed[p] /\ executed[p] <= Len(Selected)
    <3>1. Remembers(p) /\ Len(Selected) \in Nat /\ executed[p] \in Nat
      BY <2>1, CampaignConfig, LenProperties DEF Memory, Typed
    <3>2. CASE pc[p] \in Loaded
      <4>1. PICK n \in Nat : n = Len(to_run[p])
        BY <2>1, LenProperties DEF Typed
      <4>2. executed[p] + n <= Len(Selected)
        BY <3>1, <3>2, <4>1 DEF Remembers
      <4>3. executed[p] <= Len(Selected)
        BY <3>1, <4>2
      <4> QED BY <3>1, <3>2, <4>3 DEF Remembers
    <3>3. CASE pc[p] \notin Loaded
      <4>1. to_run[p] = << >> /\ executed[p] = 0 /\ failures[p] <= executed[p]
        BY <3>1, <3>3 DEF Remembers
      <4>2. ToSet(<< >>) = {}
        BY DEF ToSet
      <4> QED BY <3>1, <4>1, <4>2
    <3> QED BY <3>2, <3>3
  <2>5. \A p \in Runner : /\ known[p] \in [Run -> Statuses \cup {None}]
                          /\ exit[p] \in {None, 0, 1, 130}
                          /\ pc[p] \in {"off", "lock", "load", "docker", "loop", "run", "report"}
    BY <2>1 DEF Typed
  <2> QED BY <2>1, <2>2, <2>3, <2>4, <2>5 DEF Typed, DaemonTyped, RunnersTyped,
             CampaignTypeOK
<1>2. ASSUME CampaignIInv PROVE NoNameConflict
  <2>1. ASSUME NEW p \in Runner, step[p] \in {"network", "volume", "gateway"}
        PROVE  Name(p, step[p]) \notin exists
    <3>1. case[p] \in Run /\ Provisioned(p)
      BY <1>2, <2>1, HasARun
    <3>2. step[p] \notin made[p] /\ Of(case[p]) \subseteq made[p]
      BY <2>1, <3>1 DEF Provisioned, Provisioning
    <3> QED BY <2>1, <3>2 DEF Of, Name, Kind, Container
  <2>2. ASSUME NEW p \in Runner, step[p] = "workers", NEW w \in Worker \ made[p]
        PROVE  Name(p, w) \notin exists
    <3>1. Provisioned(p)
      BY <1>2, <2>2, HasARun
    <3>2. Of(case[p]) \subseteq made[p]
      BY <2>2, <3>1 DEF Provisioned, Provisioning
    <3> QED BY <2>2, <3>2 DEF Of, Name, Kind, Container
  <2> QED BY <2>1, <2>2 DEF NoNameConflict
<1>3. ASSUME CampaignIInv PROVE FreshLedger
  <2>1. ASSUME NEW p \in Runner, step[p] = "gateway"
        PROVE  stored[case[p]] = {} /\ pending[case[p]] = 0 /\ proposed[case[p]] = 0
    BY <1>3, <2>1, HasARun DEF Provisioned
  <2> QED BY <2>1 DEF FreshLedger
<1>4. CampaignIInv => CampaignInv
  BY <1>1, <1>2, <1>3 DEF CampaignInv
<1> QED BY <1>4, CampaignInvariant, PTL

\* A run that has passed is not executed again (runner.py:176-190).
THEOREM NoPassIsRepeated == Spec => []PassedOnce
<1>1. CampaignIInv => PassedOnce
  BY DEF CampaignIInv, Memory
<1> QED BY <1>1, CampaignInvariant, PTL

\* A run that passed leaves nothing behind, as long as no error is met
\* (docker_runtime.py:488-514).
THEOREM PassedRunsAreRemoved == Spec => []PassLeavesNothing
<1>1. ASSUME CampaignIInv, Resume, Cleanup, faults = 0, NEW c \in Run,
             LatestStatus(journal)[c] = "PASS"
      PROVE  (\A k \in Kind : <<c, k>> \notin exists) /\ Runner \X {c} \cap joined = {}
  <2>1. Clean(c)
    BY <1>1 DEF CampaignIInv, LeftClean, Passed
  <2>2. \A q \in Runner : <<q, c>> \notin joined
    BY <2>1 DEF Clean, Attached
  <2>3. \A k \in Kind : <<c, k>> \notin exists
    BY <2>1 DEF Clean, Of
  <2> QED BY <2>2, <2>3
<1>2. CampaignIInv => PassLeavesNothing
  BY <1>1 DEF PassLeavesNothing
<1> QED BY <1>2, CampaignInvariant, PTL

\* PASS means that the event of every device is in a block, and that a block
\* that is not final is a full one, sealed by the gateway itself
\* (docker_runtime.py:366-411).
THEOREM PassesAreDelivered == Spec => []PassIsDelivered
<1>1. ASSUME CampaignIInv, NEW p \in Runner, step[p] = "write result", outcome[p] = "PASS"
      PROVE  /\ stored[case[p]] = Worker /\ pending[case[p]] = 0
             /\ proposed[case[p]] \in {0, BlockSize}
  <2>1. Delivered(p)
    BY <1>1, HasARun
  <2> QED BY <1>1, <2>1 DEF Delivered, Sealed, WholeBlocks
<1>2. CampaignIInv => PassIsDelivered
  BY <1>1 DEF PassIsDelivered
<1> QED BY <1>2, CampaignInvariant, PTL

\* Only a campaign that comes to its end exits with 0.
LEMMA ZeroIsFinish ==
  ASSUME CampaignIInv, [Next]_campaignVars, NEW p \in Runner, exit[p] # 0, exit'[p] = 0
  PROVE  Finish(p) /\ failures[p] = 0
<1>1. Typed
  BY DEF CampaignIInv
<1>2. exit' # exit
  OBVIOUS
<1>3. exit \in [Runner -> {None, 0, 1, 130}] /\ None # 0
  BY <1>1, CampaignConfig DEF Typed
<1>4. PICK q \in Runner : CampaignStep(q) \/ Start(q) \/ Interrupt(q) \/ Kill(q)
  BY <1>2 DEF Next, Environment, campaignVars
<1>5. ASSUME NEW code, exit' = [exit EXCEPT ![q] = code] PROVE q = p /\ code = 0
  BY <1>3, <1>5
<1>6. ~ Gone(q, 1) /\ ~ Gone(q, None) /\ ~ Gone(q, 130)
  BY <1>3, <1>5 DEF Gone
<1>7. ~ Start(q) /\ ~ Interrupt(q) /\ ~ Kill(q) /\ ~ Fatal(q) /\ ~ Lock(q) /\ ~ Load(q)
  <2>1. ~ Start(q)
    BY <1>3, <1>5 DEF Start
  <2>2. ~ Interrupt(q) /\ ~ Kill(q) /\ ~ Fatal(q)
    BY <1>6 DEF Interrupt, Kill, Fatal, Leave
  <2>3. ~ Lock(q) /\ ~ Load(q)
    BY <1>2, <1>6 DEF Lock, Load
  <2> QED BY <2>1, <2>2, <2>3
<1>8. ~ Docker(q) /\ ~ Begin(q) /\ ~ Proceed(q) /\ ~ AppendResult(q) /\ ~ Report(q)
  BY <1>2 DEF Docker, Begin, Proceed, AppendResult, Report
<1>9. Finish(q)
  BY <1>4, <1>7, <1>8 DEF CampaignStep
<1>10. q = p /\ ExitCode(q) = 0
  BY <1>5, <1>9 DEF Finish, Leave, Gone
<1>11. failures[p] \in Nat
  BY <1>1 DEF Typed
<1> QED BY <1>9, <1>10, <1>11 DEF ExitCode

\* Exit code 0 says that every selected run has passed, and that the report
\* shows it (runner.py:262-279).
THEOREM ZeroIsHonest == Spec => ZeroMeansPassed
<1>1. ASSUME CampaignIInv, [Next]_campaignVars, Resume, RerunFailed,
             NEW p \in Runner, exit[p] # 0, exit'[p] = 0, NEW i \in DOMAIN Selected
      PROVE  results'[Selected[i]] = "PASS"
  <2>1. Finish(p) /\ failures[p] = 0
    BY <1>1, ZeroIsFinish
  <2>2. pc[p] = "loop" /\ to_run[p] = << >> /\ results' = known[p]
    BY <2>1 DEF Finish, Leave
  <2>3. /\ known[p] = LatestStatus(journal)
        /\ \A c \in ToSet(Selected) : Passed(c) \/ c \in ToSet(to_run[p])
    BY <1>1, <2>1, <2>2 DEF CampaignIInv, Memory, Remembers, Loaded
  <2>4. ToSet(<< >>) = {}
    BY DEF ToSet
  <2>5. Selected[i] \in ToSet(Selected)
    BY DEF ToSet
  <2> QED BY <2>2, <2>3, <2>4, <2>5 DEF Passed
<1>2. CampaignIInv /\ [Next]_campaignVars =>
        [Resume /\ RerunFailed =>
           \A p \in Runner :
             exit[p] # 0 /\ exit'[p] = 0 =>
               \A i \in DOMAIN Selected : results'[Selected[i]] = "PASS"]_campaignVars
  BY <1>1
<1> QED BY <1>2, CampaignInvariant, PTL DEF Spec, ZeroMeansPassed

=============================================================================
