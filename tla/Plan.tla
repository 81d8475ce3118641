-------------------------------- MODULE Plan --------------------------------
(***************************************************************************)
(* The expansion of an experiment matrix into runs (ExperimentPlan in       *)
(* edgechaindb/experiments/model.py), their division among shards           *)
(* (_selected_cases in runner.py) and that of a run's events among its      *)
(* devices (docker_runtime.py).                                            *)
(*                                                                         *)
(* The search for a balanced design is the state machine: every attempt     *)
(* shuffles the columns, and any shuffle may come out of the random         *)
(* generator.  Levels are numbers; an authority threshold is its rank.      *)
(* Reading the YAML file and the settings that are not levels are left out. *)
(***************************************************************************)
EXTENDS Naturals, FiniteSets, FiniteSetsExt, Sequences, SequencesExt

CONSTANTS
  Plans,         \* the plans that may be loaded
  MaxAttempts,   \* attempts
  MaxShards      \* bound: machines that share a plan

Axes == <<"devices", "events", "block_size", "authority_threshold",
          "packet_loss_percent", "outage_seconds">>
Axis == ToSet(Axes)

ASSUME PlanConfig ==
  /\ MaxAttempts \in Nat /\ MaxShards \in Nat
  /\ \A p \in Plans : /\ p.type \in {"full_factorial", "balanced_screening"}
                      /\ p.levels \in [Axis -> Seq(Nat)]
                      /\ p.samples \in Nat /\ p.repetitions \in Nat

VARIABLES
  plan,          \* [type, levels, samples, repetitions]
  phase,         \* "load", "search", "ready" or "refused"
  attempt,
  best_rows      \* the best rows found, {} if there are none

planVars == <<plan, phase, attempt, best_rows>>

Level(a) == ToSet(plan.levels[a])

full_factorial_count == FoldLeft(LAMBDA n, a : n * Len(plan.levels[a]), 1, Axes)

PlanInit ==
  /\ plan \in Plans
  /\ phase = "load" /\ attempt = 0 /\ best_rows = {}

----------------------------------------------------------------------------
(* validate *)

Divisible == \A a \in Axis : plan.samples % Len(plan.levels[a]) = 0

Valid ==
  /\ plan.repetitions >= 1
  /\ \A a \in Axis : plan.levels[a] # << >>
  /\ \A n \in Level("devices") \cup Level("events") \cup Level("block_size") : n >= 1
  /\ plan.type = "balanced_screening" =>
       plan.samples >= 1 /\ plan.samples <= full_factorial_count /\ Divisible

Validate ==
  /\ phase = "load"
  /\ phase' = IF ~ Valid THEN "refused"
              ELSE IF plan.type = "full_factorial" THEN "ready" ELSE "search"
  /\ UNCHANGED <<plan, attempt, best_rows>>

----------------------------------------------------------------------------
(* selected_configurations: the balanced design *)

\* How often a level is listed.
Listed(a, v) == Cardinality({j \in DOMAIN plan.levels[a] : plan.levels[a][j] = v})

\* The shuffles of list(values) * repeats.
Column(a) ==
  LET repeats == plan.samples \div Len(plan.levels[a])
  IN  {c \in [1 .. plan.samples -> Level(a)] :
         \A v \in Level(a) :
           Cardinality({i \in 1 .. plan.samples : c[i] = v}) = repeats * Listed(a, v)}

Pairs == {ab \in Axis \X Axis :
            \E i, j \in DOMAIN Axes : i < j /\ Axes[i] = ab[1] /\ Axes[j] = ab[2]}

Square(m, n) == IF m >= n THEN (m - n) * (m - n) ELSE (n - m) * (n - m)

\* score, times full_factorial_count squared, which makes it a number.
Score(rows) ==
  LET full == full_factorial_count
      Ideal(a, b) == plan.samples * (full \div (Len(plan.levels[a]) * Len(plan.levels[b])))
      Count(a, b, v, w) == Cardinality({row \in rows : row[a] = v /\ row[b] = w})
      Off(a, b) == MapThenSumSet(LAMBDA vw : Square(Count(a, b, vw[1], vw[2]) * full, Ideal(a, b)),
                                 Level(a) \X Level(b))
  IN  MapThenSumSet(LAMBDA ab : Off(ab[1], ab[2]), Pairs)

Better(rows) == best_rows = {} \/ Score(rows) < Score(best_rows)

Unique(rows) == Cardinality(rows) = plan.samples

\* One turn of the loop; rows that are not unique are skipped.
Attempt ==
  /\ phase = "search" /\ attempt < MaxAttempts
  /\ attempt' = attempt + 1
  /\ \E d \in Column("devices"), e \in Column("events"), b \in Column("block_size"),
        q \in Column("authority_threshold"), l \in Column("packet_loss_percent"),
        o \in Column("outage_seconds") :
       LET Row(i) == [devices |-> d[i], events |-> e[i], block_size |-> b[i],
                      authority_threshold |-> q[i], packet_loss_percent |-> l[i],
                      outage_seconds |-> o[i]]
           rows == {Row(i) : i \in 1 .. plan.samples}
       IN  IF Unique(rows) /\ Better(rows)
             THEN best_rows' = rows /\ phase' = IF Score(rows) = 0 THEN "ready" ELSE "search"
             ELSE UNCHANGED <<best_rows, phase>>
  /\ UNCHANGED plan

\* RuntimeError if no attempt had unique rows.
GiveUp ==
  /\ phase = "search" /\ attempt = MaxAttempts
  /\ phase' = IF best_rows = {} THEN "refused" ELSE "ready"
  /\ UNCHANGED <<plan, attempt, best_rows>>

PlanNext == Validate \/ Attempt \/ GiveUp

PlanSpec == PlanInit /\ [][PlanNext]_planVars

----------------------------------------------------------------------------
(* The runs of a plan *)

\* The n-th of several blocks of one size is in this block, at this place.
Block(n, size) == (n - 1) \div size + 1
Within(n, size) == ((n - 1) % size) + 1

\* itertools.product
Extended(rows, a) ==
  LET size == Len(plan.levels[a])
  IN  [n \in 1 .. Len(rows) * size |->
         LET row == rows[Block(n, size)]
         IN  [x \in DOMAIN row \cup {a} |->
                IF x = a THEN plan.levels[a][Within(n, size)] ELSE row[x]]]

Product ==
  LET rows[k \in 0 .. Len(Axes)] ==
        IF k = 0 THEN << [x \in {} |-> 0] >> ELSE Extended(rows[k - 1], Axes[k])
  IN  rows[Len(Axes)]

SortKey == <<"outage_seconds", "events", "devices", "block_size", "packet_loss_percent",
             "authority_threshold">>

Before(row, other) ==
  \E i \in DOMAIN SortKey :
    /\ row[SortKey[i]] < other[SortKey[i]]
    /\ \A j \in 1 .. i - 1 : row[SortKey[j]] = other[SortKey[j]]

\* Each row is at the place that the number of rows before it gives.
Sorted(rows) ==
  [n \in 1 .. Cardinality(rows) |->
     CHOOSE row \in rows : Cardinality({other \in rows : Before(other, row)}) = n - 1]

selected_configurations ==
  IF plan.type = "full_factorial" THEN Product ELSE Sorted(best_rows)

\* iter_cases: the run id of a case says all that is in it.
Cases ==
  [n \in 1 .. Len(selected_configurations) * plan.repetitions |->
     [row |-> selected_configurations[Block(n, plan.repetitions)],
      repetition |-> Within(n, plan.repetitions)]]

\* Mutant of Shard: shards of consecutive runs, without the last ones.
ShardOfNeighbours(index, count) ==
  LET size == Len(Cases) \div count
  IN  [j \in 1 .. size |-> Cases[index * size + j]]

\* _selected_cases, without --max-runs: every run whose place is index
\* modulo count.
Shard(index, count) ==
  LET places == {i \in DOMAIN Cases : (i - 1) % count = index}
  IN  [j \in 1 .. Cardinality(places) |-> Cases[(j - 1) * count + index + 1]]

EventsPerDevice(total, devices) ==
  [i \in 1 .. devices |-> total \div devices + IF i - 1 < total % devices THEN 1 ELSE 0]

----------------------------------------------------------------------------
(* Properties *)

PlanTypeOK ==
  /\ plan \in Plans /\ phase \in {"load", "search", "ready", "refused"}
  /\ attempt \in 0 .. MaxAttempts
  /\ best_rows # {} => /\ plan.type = "balanced_screening"
                       /\ Cardinality(best_rows) = plan.samples
                       /\ best_rows \subseteq ToSet(Product)

\* "exact marginal coverage of every device, event, block-size, quorum,
\* packet-loss, and outage level" (README.md:624): whatever the generator
\* yields and whichever attempt is kept, each level of a factor is in the
\* same number of runs of each repetition (model.py:158-163, 203-208).
ExactMargins ==
  phase = "ready" =>
    \A a \in Axis : \A i, j \in DOMAIN plan.levels[a] :
      LET With(k) == Cardinality({n \in DOMAIN selected_configurations :
                                    selected_configurations[n][a] = plan.levels[a][k]})
      IN  With(i) * Listed(a, plan.levels[a][j]) = With(j) * Listed(a, plan.levels[a][i])

\* No two runs of a plan share a run id, from which the names of their
\* containers and their journal entries are made; but validate does not
\* refuse a level that is listed twice, and then a full factorial has them
\* (model.py:115-163, 197-199).
LevelsDiffer == \A a \in Axis : IsInjective(plan.levels[a])

RunIdsUnique ==
  phase = "ready" /\ (plan.type = "balanced_screening" \/ LevelsDiffer) =>
    IsInjective(Cases)

\* How many there are when the i-th has that many.
Total(lengths) == Cardinality(UNION {{i} \X (1 .. lengths[i]) : i \in DOMAIN lengths})

\* However many machines the plan is divided among, together they execute
\* it, no run twice, and none gets more than one run in excess of another
\* (runner.py:86-94).
ShardsShare ==
  phase = "ready" =>
    \A count \in 1 .. MaxShards :
      LET shards == [i \in 0 .. count - 1 |-> Shard(i, count)]
      IN  /\ UNION {ToSet(shards[i]) : i \in 0 .. count - 1} = ToSet(Cases)
          /\ Total([i \in 0 .. count - 1 |-> Len(shards[i])]) = Len(Cases)
          /\ \A i, j \in 0 .. count - 1 : Len(shards[i]) <= Len(shards[j]) + 1

\* The devices of a run generate all of its events between them
\* (docker_runtime.py:149-151).
EventsAreShared ==
  phase = "ready" =>
    \A row \in ToSet(selected_configurations) :
      Total(EventsPerDevice(row.events, row.devices)) = row.events

\* Whatever the generator yields, the runs that are executed are those that
\* the plan asks for: balanced, each once, with all of their events
\* (model.py:183-277, runner.py:86-94, docker_runtime.py:148-151).
PlanInv == PlanTypeOK /\ ExactMargins /\ RunIdsUnique /\ ShardsShare /\ EventsAreShared
=============================================================================
