-------------------------------- MODULE Merge --------------------------------
(***************************************************************************)
(* The merge of the result directories of several shards (main in           *)
(* edgechaindb/experiments/merge.py) and the results it reports             *)
(* (write_result_artifacts in report.py), while the runners of the shards   *)
(* may still append to their journals.                                     *)
(*                                                                         *)
(* A run may have results in several directories, because the number of     *)
(* shards was changed, and several in one, because it failed and was        *)
(* retried.  completed_at is the time of one clock, and a line is complete  *)
(* when all of it has been written.  The shard's own results.jsonl counts   *)
(* only where there is no journal: a directory from before journals, or one *)
(* that is itself the outcome of a merge.                                   *)
(***************************************************************************)
EXTENDS Naturals, FiniteSets, FiniteSetsExt, Sequences, SequencesExt

CONSTANTS
  Dirs,          \* the directories, in sorted order
  Run,           \* run ids in the directories
  Planned,       \* those of the plan
  Results,       \* results.jsonl of each directory at first, or None
  MaxClock,      \* bound: the clock
  MaxLines,      \* bound: lines of all journals
  None

Dir == ToSet(Dirs)
Statuses == {"PASS", "FAIL"}
Line == [run : Run, status : Statuses, completed_at : 0 .. MaxClock]

\* Of one run, a later line is not older.
InOrder(lines) ==
  \A i, j \in DOMAIN lines :
    i < j /\ lines[i].run = lines[j].run => lines[i].completed_at <= lines[j].completed_at

ASSUME MergeConfig ==
  /\ Dirs \in Seq(Dir) /\ IsInjective(Dirs)
  /\ IsFiniteSet(Run) /\ Planned \subseteq Run
  /\ MaxClock \in Nat \ {0} /\ MaxLines \in Nat
  /\ None \notin Line /\ None \notin Seq(Line)
  /\ \A d \in Dir : Results[d] = None \/ (Results[d] \in Seq(Line) /\ InOrder(Results[d]))

VARIABLES
  clock,
  journal,       \* journal.jsonl of each directory, or None
  line,          \* the line that is being appended to it, or None
  part,          \* some of that line is in the file
  pc,            \* "idle", "reading", "report", "done" or "failed"
  next,          \* the place of the next directory
  latest,        \* run -> line, or None
  source_count,  \* lines read so far
  report,        \* results.jsonl of the output: run -> line, or None
  at_start       \* history: what the directories held when the merge began

journals == <<journal, line, part>>
merging == <<pc, next, latest, source_count, report, at_start>>
mergeVars == <<clock, journals, merging>>

NoLines == [r \in Run |-> None]

MergeInit ==
  /\ clock = 1
  /\ journal = [d \in Dir |-> None] /\ line = [d \in Dir |-> None]
  /\ part = [d \in Dir |-> FALSE]
  /\ pc = "idle" /\ next = 1 /\ latest = NoLines /\ source_count = 0
  /\ report = NoLines /\ at_start = [d \in Dir |-> << >>]

Tick ==
  /\ clock < MaxClock
  /\ clock' = clock + 1
  /\ UNCHANGED <<journals, merging>>

----------------------------------------------------------------------------
(* _append_result of the runner of a directory; it may die at any point *)

Written == MapThenSumSet(LAMBDA d : IF journal[d] = None THEN 0 ELSE Len(journal[d]), Dir)

\* The file is opened, and created if it is not there.
Open(d) ==
  /\ ~ part[d]
  /\ journal' = [journal EXCEPT ![d] = IF @ = None THEN << >> ELSE @]
  /\ Written + Cardinality({x \in Dir \ {d} : line[x] # None}) < MaxLines
  /\ \E r \in Run, s \in Statuses :
       line' = [line EXCEPT ![d] = [run |-> r, status |-> s, completed_at |-> clock]]
  /\ UNCHANGED <<clock, part, merging>>

WritePart(d) ==
  /\ line[d] # None /\ ~ part[d]
  /\ part' = [part EXCEPT ![d] = TRUE]
  /\ UNCHANGED <<clock, journal, line, merging>>

WriteRest(d) ==
  /\ part[d]
  /\ journal' = [journal EXCEPT ![d] = Append(@, line[d])]
  /\ line' = [line EXCEPT ![d] = None]
  /\ part' = [part EXCEPT ![d] = FALSE]
  /\ UNCHANGED <<clock, merging>>

----------------------------------------------------------------------------
(* main *)

\* Mutant of Lines: results.jsonl comes first.
LinesOfResults(d) ==
  IF Results[d] # None THEN Results[d] ELSE IF journal[d] # None THEN journal[d] ELSE << >>

\* _read_directory: the first file that exists.
Lines(d) ==
  IF journal[d] # None THEN journal[d] ELSE IF Results[d] # None THEN Results[d] ELSE << >>

Start ==
  /\ pc = "idle"
  /\ pc' = "reading"
  /\ at_start' = [d \in Dir |-> Lines(d)]
  /\ UNCHANGED <<clock, journals, next, latest, source_count, report>>

\* Mutant of Supersedes: whatever is read last.
SupersedesAlways(item, previous) == TRUE

Supersedes(item, previous) ==
  previous = None \/ item.completed_at >= previous.completed_at

Taken(acc, item) ==
  IF Supersedes(item, acc[item.run]) THEN [acc EXCEPT ![item.run] = item] ELSE acc

Combine(known, items) ==
  LET acc[i \in 0 .. Len(items)] == IF i = 0 THEN known ELSE Taken(acc[i - 1], items[i])
  IN  acc[Len(items)]

\* A line that is not complete raises.
Read ==
  /\ pc = "reading" /\ next \in DOMAIN Dirs
  /\ LET d == Dirs[next] IN
     \/ part[d] /\ pc' = "failed" /\ UNCHANGED <<next, latest, source_count>>
     \/ /\ ~ part[d]
        /\ latest' = Combine(latest, Lines(d))
        /\ source_count' = source_count + Len(Lines(d))
        /\ next' = next + 1
        /\ UNCHANGED pc
  /\ UNCHANGED <<clock, journals, report, at_start>>

\* write_result_artifacts: those of the plan.
Canonical(results) == [r \in Run |-> IF r \in Planned THEN results[r] ELSE None]

Report ==
  /\ pc = "reading" /\ next \notin DOMAIN Dirs
  /\ report' = Canonical(latest)
  /\ pc' = "done"
  /\ UNCHANGED <<clock, journals, next, latest, source_count, at_start>>

completed_runs == Cardinality({r \in Run : report[r] # None})
passed_runs == Cardinality({r \in Run : report[r] # None /\ report[r].status = "PASS"})
remaining_runs == Cardinality(Planned) - completed_runs

MergeNext ==
  \/ Tick
  \/ \E d \in Dir : Open(d) \/ WritePart(d) \/ WriteRest(d)
  \/ Start \/ Read \/ Report

MergeSpec == MergeInit /\ [][MergeNext]_mergeVars

----------------------------------------------------------------------------
(* Properties *)

MergeTypeOK ==
  /\ clock \in 1 .. MaxClock /\ next \in 1 .. Len(Dirs) + 1
  /\ pc \in {"idle", "reading", "done", "failed"}
  /\ \A d \in Dir : /\ line[d] \in Line \cup {None} /\ part[d] \in BOOLEAN
                    /\ part[d] => line[d] # None
                    /\ journal[d] # None => ToSet(journal[d]) \subseteq Line
  /\ \A r \in Run : latest[r] \in {l \in Line : l.run = r} \cup {None}
  /\ \A r \in Run : report[r] \in {latest[r], None}

\* The merged report is never behind what was on disk when the merge began:
\* for each run of the plan it has the newest result any directory held, or
\* one that is newer still, whatever the order of the directories
\* (merge.py:45-54).  Left aside is a directory whose runner begins its first
\* journal meanwhile: from then on its results.jsonl does not count.
Hidden(d) == journal[d] # None /\ at_start[d] = Results[d]

NeverBehind ==
  pc = "done" =>
    \A d \in Dir : ~ Hidden(d) =>
      \A old \in ToSet(at_start[d]) : old.run \in Planned =>
        report[old.run] # None /\ report[old.run].completed_at >= old.completed_at

\* The statistics are about the plan and nothing else: no result of another
\* plan that is left in a journal counts, no run counts twice, and a run
\* without a result is one that remains (report.py:269-330).
CoverageIsOfThePlan ==
  pc = "done" =>
    /\ \A r \in Run : report[r] # None => r \in Planned
    /\ passed_runs <= completed_runs
    /\ remaining_runs = Cardinality({r \in Planned : report[r] = None})
    /\ source_count >= completed_runs

\* A merged report is about the plan, and up to date.
MergeInv == MergeTypeOK /\ NeverBehind /\ CoverageIsOfThePlan

\* Of one directory the merge takes over what the runner of that directory would
\* resume from (runner.py:176-180), unless the runner was killed between
\* creating its journal and writing to it: the runner then looks into
\* results.jsonl, and the merge finds no results.
LastOf(lines, r) ==
  LET at == {i \in DOMAIN lines : lines[i].run = r}
  IN  IF at = {} THEN None ELSE lines[Max(at)]

Resumed(d) ==
  IF journal[d] \notin {None, << >>} THEN journal[d]
  ELSE IF Results[d] # None THEN Results[d] ELSE << >>

AgreesWithRunner ==
  [][next = 1 /\ next' = 2 /\ journal[Dirs[1]] # << >> =>
       \A r \in Run : latest'[r] = LastOf(Resumed(Dirs[1]), r)]_mergeVars
=============================================================================
