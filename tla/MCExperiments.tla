---------------------------- MODULE MCExperiments ---------------------------
(***************************************************************************)
(* One instance for TLC of three parts of an experiment that share no      *)
(* state: Plan, which comes before the runs, Case, which is one of them, and*)
(* Merge, which comes after them.  A behaviour is one of a part, with the   *)
(* others at rest.                                                         *)
(*                                                                         *)
(* Plan: full factorials and balanced designs over three factors of one to *)
(* three levels, some of them listed twice, plans that validate refuses,    *)
(* and one whose designs differ in their balance.  Merge: two directories,  *)
(* one of which has results from before it had a journal, and a run of      *)
(* another plan.  Case: one attempt of a run of two or three devices, with  *)
(* blocks of two events, so that its gateway may seal a full one by itself, *)
(* and a rest is left or not.                                              *)
(***************************************************************************)
EXTENDS Plan, Merge

CONSTANTS d1, d2, r1, r2, runner, w1, w2, w3

MCLevels(devices, events, thresholds, outages) ==
  [devices |-> devices, events |-> events, block_size |-> <<1>>,
   authority_threshold |-> thresholds, packet_loss_percent |-> <<0>>,
   outage_seconds |-> outages]

MCSkewed ==
  [type |-> "balanced_screening",
   levels |-> MCLevels(<<1, 2>>, <<5, 3>>, <<1, 2>>, <<0, 30>>),
   samples |-> 4, repetitions |-> 2]

MCPlans ==
  {[type |-> t, levels |-> MCLevels(d, e, <<1>>, o), samples |-> s, repetitions |-> r] :
     t \in {"full_factorial", "balanced_screening"},
     d \in {<<2, 1>>, <<3, 3>>, <<1, 2, 3>>, << >>},
     e \in {<<1, 5>>, <<4>>},
     o \in {<<0, 30>>, <<5, 5>>},
     s \in {2, 3, 4},
     r \in {0, 1, 3}} \cup {MCSkewed}

MCDirs == <<d1, d2>>

MCResults ==
  (d1 :> <<[run |-> r1, status |-> "PASS", completed_at |-> 0]>>) @@ (d2 :> None)

VARIABLES
  exists, running, joined, stored, pending, proposed, passed,
  case, step, made, outcome, faults, alive,
  stage   \* the part of this behaviour

daemonVars == <<exists, running, joined, stored, pending, proposed, passed>>
caseVars == <<daemonVars, case, step, made, outcome, faults, alive>>

OneCase(devices) == INSTANCE Case
  WITH Runner <- {runner}, Run <- {r1}, Worker <- devices, Outage <- {r1},
       BlockSize <- 2, Retain <- FALSE, Cleanup <- TRUE, MaxFaults <- 1

\* A run whose events fill a block, and one that leaves a rest.
Two == {w1, w2}
Three == {w1, w2, w3}

\* The only runner begins the only run.
MCBegin ==
  /\ alive = {} /\ alive' = {runner}
  /\ case' = [case EXCEPT ![runner] = r1]
  /\ step' = [step EXCEPT ![runner] = "stale containers"]
  /\ UNCHANGED <<daemonVars, made, outcome, faults>>

MCStep(devices) ==
  \/ MCBegin
  \/ OneCase(devices)!RunStep(runner) /\ UNCHANGED alive
  \/ OneCase(devices)!DockerStep /\ UNCHANGED alive

\* PassIsDelivered of Case: which events are in which block at PASS.
PassIsDelivered ==
  /\ stage = "two devices" => OneCase(Two)!PassIsDelivered
  /\ stage = "three devices" => OneCase(Three)!PassIsDelivered

MCInit ==
  /\ PlanInit /\ MergeInit /\ OneCase(Two)!CaseInit
  /\ stage \in {"plan", "two devices", "three devices", "merge"}
  /\ stage # "plan" => plan = MCSkewed

MCNext ==
  /\ \/ stage = "plan" /\ PlanNext /\ UNCHANGED <<caseVars, mergeVars>>
     \/ stage = "two devices" /\ MCStep(Two) /\ UNCHANGED <<planVars, mergeVars>>
     \/ stage = "three devices" /\ MCStep(Three) /\ UNCHANGED <<planVars, mergeVars>>
     \/ stage = "merge" /\ MergeNext /\ UNCHANGED <<planVars, caseVars>>
  /\ UNCHANGED stage

MCSpec == MCInit /\ [][MCNext]_<<planVars, caseVars, mergeVars, stage>>
=============================================================================
