------------------------------ MODULE Campaign ------------------------------
(***************************************************************************)
(* The campaign of a matrix of runs (main and _run_campaign in             *)
(* edgechaindb/experiments/runner.py): a lock on the result directory, the  *)
(* journal of results that --resume reads, the loop over the runs that are  *)
(* left, the report, and the exit code.                                    *)
(*                                                                         *)
(* Two compose aliases start the same command on the same directory, so     *)
(* there may be several runners; any of them is killed at any moment, or    *)
(* interrupted, and started again.  Each run is a Case.  The clock of the   *)
(* host is taken to be monotone: the latest result of a run is the last one *)
(* in the journal.                                                         *)
(***************************************************************************)
EXTENDS Case, Sequences, SequencesExt

CONSTANTS
  Selected,      \* the runs of this shard, in order
  Resume,        \* --resume
  RerunFailed,   \* --rerun-failed
  ReportEvery,   \* --report-every
  MaxStarts,     \* bound: starts of a runner
  MaxStops       \* bound: kills and interrupts

ASSUME CampaignConfig ==
  /\ Selected \in Seq(Run) /\ IsInjective(Selected)
  /\ Resume \in BOOLEAN /\ RerunFailed \in BOOLEAN
  /\ ReportEvery \in Nat \ {0}
  /\ MaxStarts \in Nat /\ MaxStops \in Nat
  /\ None \notin {"PASS", "FAIL"} /\ None # 0

VARIABLES
  lock,          \* the runner that holds .campaign.lock, or None
  journal,       \* journal.jsonl
  torn,          \* its last line is not complete
  results,       \* results.jsonl: run -> status, or None
  progress,      \* the status in progress.json
  pc,            \* where each runner is
  known,         \* its latest_by_run, with what it executed since
  to_run, executed, failures,
  exit,          \* its last exit code, or None
  starts, stops

files == <<journal, torn, results, progress>>
memory == <<known, to_run, executed, failures>>
counts == <<starts, stops>>
campaignVars == <<caseVars, lock, files, pc, memory, exit, counts>>

Statuses == {"PASS", "FAIL"}

NoResults == [c \in Run |-> None]

CampaignInit ==
  /\ CaseInit
  /\ lock = None
  /\ journal = << >> /\ torn = FALSE /\ progress = None /\ results = NoResults
  /\ pc = [p \in Runner |-> "off"] /\ exit = [p \in Runner |-> None]
  /\ known = [p \in Runner |-> NoResults] /\ to_run = [p \in Runner |-> << >>]
  /\ executed = [p \in Runner |-> 0] /\ failures = [p \in Runner |-> 0]
  /\ starts = 0 /\ stops = 0

----------------------------------------------------------------------------
(* Helpers *)

Move(p, to) == pc' = [pc EXCEPT ![p] = to]

\* No run is going on: what the daemon has stays as it is.
NoCase(p) ==
  /\ case' = [case EXCEPT ![p] = None] /\ step' = [step EXCEPT ![p] = "idle"]
  /\ made' = [made EXCEPT ![p] = {}] /\ outcome' = [outcome EXCEPT ![p] = None]

Forget(p) ==
  /\ known' = [known EXCEPT ![p] = NoResults] /\ to_run' = [to_run EXCEPT ![p] = << >>]
  /\ executed' = [executed EXCEPT ![p] = 0] /\ failures' = [failures EXCEPT ![p] = 0]

\* The process ends, by itself or not, and the lock goes with it.
Gone(p, code) ==
  /\ Move(p, "off")
  /\ exit' = [exit EXCEPT ![p] = code]
  /\ lock' = IF lock = p THEN None ELSE lock
  /\ alive' = alive \ {p}
  /\ NoCase(p) /\ Forget(p)
  /\ UNCHANGED <<resources, ledger>>

\* The report and the progress that a campaign leaves behind.
Leave(p, status, code) ==
  /\ results' = known[p]
  /\ progress' = status
  /\ Gone(p, code)
  /\ UNCHANGED <<journal, torn>>

LatestStatus(lines) ==
  [c \in Run |->
     LET at == {i \in DOMAIN lines : lines[i].run = c}
     IN  IF at = {} THEN None ELSE lines[Max(at)].status]

----------------------------------------------------------------------------
(* main *)

Start(p) ==
  /\ pc[p] = "off" /\ starts < MaxStarts
  /\ starts' = starts + 1
  /\ alive' = alive \cup {p}
  /\ exit' = [exit EXCEPT ![p] = None]
  /\ Move(p, "lock")
  /\ UNCHANGED <<resources, ledger, attempt, step, outcome, faults, lock, files, memory, stops>>

\* Mutant of Lock: the lock is shared.
LockShared(p) ==
  /\ pc[p] = "lock"
  /\ lock' = p /\ Move(p, "load")
  /\ UNCHANGED <<caseVars, files, memory, exit, counts>>

Lock(p) ==
  /\ pc[p] = "lock"
  /\ \/ /\ lock = None
        /\ lock' = p /\ Move(p, "load")
        /\ UNCHANGED <<caseVars, memory, exit>>
     \/ lock # None /\ Gone(p, 1) /\ UNCHANGED faults
  /\ UNCHANGED <<files, counts>>

----------------------------------------------------------------------------
(* _run_campaign *)

Previous == IF journal = << >> THEN results ELSE LatestStatus(journal)

\* The items of a sequence that are in a set, in their order.
Those(sequence, S) ==
  LET kept[i \in 0 .. Len(sequence)] ==
        IF i = 0 THEN << >>
        ELSE IF sequence[i] \in S THEN Append(kept[i - 1], sequence[i]) ELSE kept[i - 1]
  IN  kept[Len(sequence)]

\* Mutant of Left: a recorded failure is not looked at.
LeftOver(latest) == Those(Selected, {c \in Run : ~ Resume \/ latest[c] = None})

Left(latest) ==
  Those(Selected, {c \in Run : \/ ~ Resume
                               \/ latest[c] = None
                               \/ RerunFailed /\ latest[c] # "PASS"})

\* A line that is not JSON raises, outside of any handler.
Load(p) ==
  /\ pc[p] = "load"
  /\ \/ torn /\ Gone(p, 1) /\ UNCHANGED <<faults, files>>
     \/ /\ ~ torn
        /\ known' = [known EXCEPT ![p] = Previous]
        /\ results' = Previous
        /\ to_run' = [to_run EXCEPT ![p] = Left(Previous)]
        /\ progress' = "initializing_docker"
        /\ Move(p, "docker")
        /\ UNCHANGED <<caseVars, lock, journal, torn, executed, failures, exit>>
  /\ UNCHANGED counts

\* DynamicDockerExperiment finds the daemon, and its own container.
Docker(p) ==
  /\ pc[p] = "docker"
  /\ progress' = "running"
  /\ Move(p, "loop")
  /\ UNCHANGED <<caseVars, lock, journal, torn, results, memory, exit, counts>>

Begin(p) ==
  /\ pc[p] = "loop" /\ to_run[p] # << >>
  /\ case' = [case EXCEPT ![p] = Head(to_run[p])]
  /\ step' = [step EXCEPT ![p] = "stale containers"]
  /\ Move(p, "run")
  /\ UNCHANGED <<resources, ledger, made, outcome, faults, alive, lock, files, memory, exit, counts>>

Proceed(p) ==
  /\ pc[p] = "run"
  /\ RunStep(p)
  /\ UNCHANGED <<alive, lock, files, pc, memory, exit, counts>>

\* run() has returned: its result is written, and counted.
AppendResult(p) ==
  /\ pc[p] = "run" /\ step[p] = "done"
  /\ journal' = Append(journal, [run |-> case[p], status |-> outcome[p]])
  /\ known' = [known EXCEPT ![p][case[p]] = outcome[p]]
  /\ to_run' = [to_run EXCEPT ![p] = Tail(@)]
  /\ executed' = [executed EXCEPT ![p] = @ + 1]
  /\ failures' = [failures EXCEPT ![p] = @ + IF outcome[p] = "PASS" THEN 0 ELSE 1]
  /\ NoCase(p)
  /\ Move(p, "report")
  /\ UNCHANGED <<resources, ledger, faults, alive, lock, torn, results, progress, exit, counts>>

Report(p) ==
  /\ pc[p] = "report"
  /\ progress' = "running"
  /\ results' = IF executed[p] % ReportEvery = 0 THEN known[p] ELSE results
  /\ Move(p, "loop")
  /\ UNCHANGED <<caseVars, lock, journal, torn, memory, exit, counts>>

ExitCode(p) == IF failures[p] > 0 THEN 1 ELSE 0

Finish(p) ==
  /\ pc[p] = "loop" /\ to_run[p] = << >>
  /\ Leave(p, "completed_shard", ExitCode(p))
  /\ UNCHANGED <<faults, counts>>

\* An exception of the loop itself, or one that escapes run() where it has
\* no handler: in its finally block.
Fatal(p) ==
  /\ \/ pc[p] \in {"docker", "loop", "report"}
     \/ step[p] \in {"write result", "done"}
  /\ Fault
  /\ Leave(p, "failed", 1)
  /\ UNCHANGED counts

----------------------------------------------------------------------------
(* Interrupts and kills *)

Stop == stops < MaxStops /\ stops' = stops + 1 /\ UNCHANGED starts

\* KeyboardInterrupt.  Within the try block of run() no result is bound yet:
\* the finally block, which writes it, raises in its turn, and what reaches
\* the campaign is an exception like any other.
Interrupt(p) ==
  /\ Stop
  /\ \/ pc[p] = "run" /\ step[p] \in TrySteps /\ Leave(p, "failed", 1)
     \/ pc[p] = "run" /\ step[p] \in FinalSteps /\ Leave(p, "interrupted", 130)
     \/ pc[p] \in {"docker", "loop", "report"} /\ Leave(p, "interrupted", 130)
  /\ UNCHANGED faults

\* SIGKILL, or the end of the host: a line that is being written may be cut.
Kill(p) ==
  /\ Stop
  /\ pc[p] # "off"
  /\ Gone(p, None)
  /\ torn' \in {torn, torn \/ step[p] = "done"}
  /\ UNCHANGED <<faults, journal, results, progress>>

----------------------------------------------------------------------------

CampaignStep(p) ==
  \/ Lock(p) \/ Load(p) \/ Docker(p) \/ Begin(p) \/ Proceed(p)
  \/ AppendResult(p) \/ Report(p) \/ Finish(p) \/ Fatal(p)

Environment ==
  DockerStep /\ UNCHANGED <<alive, lock, files, pc, memory, exit, counts>>

Next ==
  \/ Environment
  \/ \E p \in Runner : CampaignStep(p) \/ Start(p) \/ Interrupt(p) \/ Kill(p)

Spec == CampaignInit /\ [][Next]_campaignVars

\* Fairness: a runner that has not been stopped goes on.  Nothing is asked
\* of the devices, nor of whoever starts the command again.
FairSpec == Spec /\ \A p \in Runner : WF_campaignVars(CampaignStep(p))

----------------------------------------------------------------------------
(* Properties *)

CampaignTypeOK ==
  /\ exists \subseteq Run \X Kind
  /\ running \subseteq Run \X Container /\ running \subseteq exists
  /\ joined \subseteq Runner \X Run /\ passed \subseteq Run \X Worker
  /\ stored \in [Run -> SUBSET Worker]
  /\ pending \in [Run -> Nat] /\ proposed \in [Run -> 0 .. BlockSize]
  /\ case \in [Runner -> Run \cup {None}]
  /\ step \in [Runner -> TrySteps \cup FinalSteps \cup {"idle", "done"}]
  /\ made \in [Runner -> SUBSET (Kind \cup {"attached"})]
  /\ outcome \in [Runner -> Statuses \cup {None}]
  /\ \A p \in Runner : step[p] \in FinalSteps \cup {"done"} => outcome[p] \in Statuses
  /\ faults \in 0 .. MaxFaults /\ starts \in 0 .. MaxStarts /\ stops \in 0 .. MaxStops
  /\ lock \in Runner \cup {None} /\ alive \subseteq Runner
  /\ \A i \in DOMAIN journal : journal[i] \in [run : Run, status : Statuses]
  /\ torn \in BOOLEAN
  /\ results \in [Run -> Statuses \cup {None}]
  /\ \A p \in Runner : /\ known[p] \in [Run -> Statuses \cup {None}]
                       /\ ToSet(to_run[p]) \subseteq ToSet(Selected)
                       /\ failures[p] <= executed[p] /\ executed[p] <= Len(Selected)
                       /\ exit[p] \in {None, 0, 1, 130}
                       /\ pc[p] \in {"off", "lock", "load", "docker", "loop", "run", "report"}

\* "... so --resume --rerun-failed does not fail on Docker name conflicts"
\* (README.md:610): no create call of a run meets its own name, whatever
\* attempt was killed or interrupted at whatever point, whatever removal
\* failed, and with as many aliases started as one likes
\* (_cleanup_stale_case_resources, docker_runtime.py:164-203).
NoNameConflict ==
  \A p \in Runner :
    /\ step[p] \in {"network", "volume", "gateway"} => Name(p, step[p]) \notin exists
    /\ step[p] = "workers" => \A w \in Worker \ made[p] : Name(p, w) \notin exists

\* A run begins on an empty ledger: the gateway of a retry never finds the
\* devices and events of the attempt before it, or a proposal it left open,
\* which Docker would hand it without a word under the volume's name.
FreshLedger ==
  \A p \in Runner :
    step[p] = "gateway" =>
      stored[case[p]] = {} /\ pending[case[p]] = 0 /\ proposed[case[p]] = 0

\* An attempt starts clean: it meets nothing of the attempts before it,
\* neither their names nor their ledger (docker_runtime.py:164-203).
CampaignInv == CampaignTypeOK /\ NoNameConflict /\ FreshLedger

\* A run that has passed is not executed again: nothing follows its PASS in
\* the journal, however many runners were started, stopped and restarted
\* (runner.py:176-190).
PassedOnce ==
  Resume => \A i, j \in DOMAIN journal :
              i < j /\ journal[i].status = "PASS" => journal[i].run # journal[j].run

\* What a run that passed has created is gone, unless an error was met on
\* the way (docker_runtime.py:488-514).  Without --resume a run that passed
\* is begun again, and may be killed.
PassLeavesNothing ==
  Resume /\ Cleanup /\ faults = 0 =>
    \A c \in Run :
      LatestStatus(journal)[c] = "PASS" /\ (\A p \in Runner : case[p] # c) =>
        /\ \A k \in Kind : <<c, k>> \notin exists
        /\ Runner \X {c} \cap joined = {}

\* Exit code 0 says that every selected run has passed, in this campaign or
\* an earlier one, and that the report shows it (runner.py:262-279).
ZeroMeansPassed ==
  [][Resume /\ RerunFailed =>
       \A p \in Runner :
         exit[p] # 0 /\ exit'[p] = 0 => \A i \in DOMAIN Selected : results'[Selected[i]] = "PASS"]_campaignVars

\* Every campaign that is started comes to an end, even if its devices or its
\* gateway hang for ever: as starts are bounded, no runner is left running.
CampaignEnds == []<>(\A p \in Runner : pc[p] = "off")

\* "Re-running the command resumes passed runs and retries failed runs"
\* (README.md:599): a campaign that has the lock can read its journal.
RerunResumes == \A p \in Runner : pc[p] = "load" => ~ torn
=============================================================================
