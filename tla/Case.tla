-------------------------------- MODULE Case --------------------------------
(***************************************************************************)
(* One run of the experiment matrix on the Docker daemon                   *)
(* (DynamicDockerExperiment in edgechaindb/experiments/docker_runtime.py):  *)
(* stale resources of the run are removed, a network, a volume, a gateway   *)
(* and the devices are created, the gateway has its outage, the devices     *)
(* are waited for, the rest is sealed and the ledger verified, and what was *)
(* created is removed again.                                               *)
(*                                                                         *)
(* The daemon, the gateway and the devices are external.  A resource is its *)
(* run and its kind, which is what its deterministic name says; a device    *)
(* has one event; the runner is itself a container, as compose starts it.   *)
(* Logs, samples and metrics are left out.  The actions are the steps of a  *)
(* runner p; Campaign joins them to the loop that calls them.               *)
(***************************************************************************)
EXTENDS Naturals, FiniteSets, FiniteSetsExt

CONSTANTS
  Runner,      \* processes that execute a campaign
  Run,         \* run ids
  Worker,      \* the devices of a run
  Outage,      \* the runs with outage_seconds > 0
  BlockSize,   \* block_size
  Retain,      \* retain_failed_containers
  Cleanup,     \* cleanup_successful_runs
  MaxFaults,   \* bound: errors of the daemon, the disk or the gateway
  None

ASSUME CaseConfig ==
  /\ Outage \subseteq Run
  /\ IsFiniteSet(Worker) /\ Worker # {}
  /\ Worker \cap {"network", "volume", "gateway", "attached"} = {}
  /\ BlockSize \in Nat \ {0}
  /\ Retain \in BOOLEAN /\ Cleanup \in BOOLEAN
  /\ MaxFaults \in Nat
  /\ None \notin Run /\ None \notin Runner

VARIABLES
  exists,      \* <<run, kind>>: the daemon's networks, volumes, containers
  running,     \* <<run, kind>>: the containers that run
  joined,      \* <<runner, run>>: whose network the runner is attached to
  stored,      \* of each run, the devices whose event its volume holds
  pending,     \* of each run, how many of them are in no block
  proposed,    \* of each run, how many are in a block that is not final
  passed,      \* <<run, worker>>: devices that exited with PASS
  case,        \* what each runner is running, or None
  step,        \* where in run() it is
  made,        \* the kinds it holds a handle of
  outcome,     \* result["status"], or None while result is unbound
  faults,      \* errors so far
  alive        \* the runners whose container runs

resources == <<exists, running, joined, passed>>
ledger == <<stored, pending, proposed>>
attempt == <<case, made>>
caseVars == <<resources, ledger, attempt, step, outcome, faults, alive>>

Container == {"gateway"} \cup Worker
Kind == {"network", "volume"} \cup Container

TrySteps == {"stale containers", "stale networks", "stale volumes", "network", "volume",
             "connect", "gateway", "health", "workers", "restart", "wait", "collect",
             "seal", "verify"}
FinalSteps == {"write result", "remove workers", "remove gateway", "disconnect",
               "remove network", "remove volume"}

CaseInit ==
  /\ exists = {} /\ running = {} /\ joined = {} /\ passed = {}
  /\ stored = [c \in Run |-> {}]
  /\ pending = [c \in Run |-> 0] /\ proposed = [c \in Run |-> 0]
  /\ case = [p \in Runner |-> None] /\ step = [p \in Runner |-> "idle"]
  /\ made = [p \in Runner |-> {}] /\ outcome = [p \in Runner |-> None]
  /\ faults = 0
  /\ alive = {}

----------------------------------------------------------------------------
(* The daemon. *)

Name(p, kind) == <<case[p], kind>>
Containers(p) == {case[p]} \X Container

\* It does not remove a network that has endpoints, nor a volume of a
\* container that exists, running or not.  A runner's container that stops
\* keeps its attachment, and has its endpoint back when it is started again.
NetworkBusy(p, others) ==
  \/ Containers(p) \cap running # {}
  \/ ((alive \ others) \X {case[p]}) \cap joined # {}

VolumeBusy(p) == Name(p, "gateway") \in exists

RemoveContainer(p, kind) ==
  /\ exists' = exists \ {Name(p, kind)}
  /\ running' = running \ {Name(p, kind)}
  /\ passed' = passed \ {Name(p, kind)}
  /\ UNCHANGED <<joined, ledger>>

RemoveNetwork(p) ==
  /\ exists' = exists \ {Name(p, "network")}
  /\ joined' = joined \ (Runner \X {case[p]})
  /\ UNCHANGED <<running, passed, ledger>>

RemoveVolume(p) ==
  /\ exists' = exists \ {Name(p, "volume")}
  /\ stored' = [stored EXCEPT ![case[p]] = {}]
  /\ pending' = [pending EXCEPT ![case[p]] = 0]
  /\ proposed' = [proposed EXCEPT ![case[p]] = 0]
  /\ UNCHANGED <<running, joined, passed>>

\* A device delivers its event.
Deliver(c, w) ==
  /\ {<<c, w>>, <<c, "gateway">>} \subseteq running
  /\ w \notin stored[c]
  /\ stored' = [stored EXCEPT ![c] = @ \cup {w}]
  /\ pending' = [pending EXCEPT ![c] = @ + 1]
  /\ UNCHANGED <<proposed, resources, attempt, step, outcome, faults>>

\* The gateway seals full blocks by itself, as part of a device's request.
\* The proposal and its signatures are several transactions: an error between
\* them is answered with 400, to a request that the device repeats and finds
\* to be a duplicate, and the block stays as it is.
AutoPropose(c) ==
  /\ <<c, "gateway">> \in running
  /\ proposed[c] = 0 /\ pending[c] >= BlockSize
  /\ pending' = [pending EXCEPT ![c] = @ - BlockSize]
  /\ proposed' = [proposed EXCEPT ![c] = BlockSize]
  /\ UNCHANGED <<stored, resources, attempt, step, outcome, faults>>

\* If there is no error, the signatures reach the quorum.
Finalize(c) ==
  /\ <<c, "gateway">> \in running
  /\ proposed[c] > 0
  /\ proposed' = [proposed EXCEPT ![c] = 0]
  /\ UNCHANGED <<stored, pending, resources, attempt, step, outcome, faults>>

\* A device exits, with PASS only when it has delivered (Worker).
Exit(c, w) ==
  /\ <<c, w>> \in running
  /\ running' = running \ {<<c, w>>}
  /\ \/ w \in stored[c] /\ passed' = passed \cup {<<c, w>>}
     \/ UNCHANGED passed
  /\ UNCHANGED <<exists, joined, ledger, attempt, step, outcome, faults>>

----------------------------------------------------------------------------
(* Moves of run(). *)

At(p, s) == step[p] = s

Goto(p, s) == step' = [step EXCEPT ![p] = s] /\ UNCHANGED outcome

\* result is bound, and the finally block entered.
Conclude(p, status) ==
  /\ outcome' = [outcome EXCEPT ![p] = status]
  /\ step' = [step EXCEPT ![p] = "write result"]

Raise(p) == Conclude(p, "FAIL")

Hold(p, kind) == made' = [made EXCEPT ![p] = @ \cup {kind}] /\ UNCHANGED case

Fault == faults < MaxFaults /\ faults' = faults + 1

----------------------------------------------------------------------------
(* _cleanup_stale_case_resources *)

StaleContainers(p) ==
  /\ At(p, "stale containers")
  /\ \/ \E k \in Container :
          Name(p, k) \in exists /\ RemoveContainer(p, k) /\ UNCHANGED <<step, outcome>>
     \/ /\ exists \cap Containers(p) = {}
        /\ Goto(p, "stale networks")
        /\ UNCHANGED <<resources, ledger>>
  /\ UNCHANGED <<attempt, faults>>

StaleNetworks(p) ==
  /\ At(p, "stale networks")
  /\ IF NetworkBusy(p, {p})
       THEN Raise(p) /\ joined' = joined \ {<<p, case[p]>>} /\ UNCHANGED <<exists, running, passed, ledger>>
       ELSE RemoveNetwork(p) /\ Goto(p, "stale volumes")
  /\ UNCHANGED <<attempt, faults>>

\* Mutant of StaleVolumes: volumes are not looked for.
NoStaleVolumes(p) ==
  /\ At(p, "stale volumes")
  /\ Goto(p, "network")
  /\ UNCHANGED <<resources, ledger, attempt, faults>>

StaleVolumes(p) ==
  /\ At(p, "stale volumes")
  /\ IF VolumeBusy(p) THEN Raise(p) /\ UNCHANGED <<resources, ledger>>
                      ELSE RemoveVolume(p) /\ Goto(p, "network")
  /\ UNCHANGED <<attempt, faults>>

----------------------------------------------------------------------------
(* run: provisioning *)

CreateNetwork(p) ==
  /\ At(p, "network")
  /\ IF Name(p, "network") \in exists
       THEN Raise(p) /\ UNCHANGED <<exists, attempt>>
       ELSE exists' = exists \cup {Name(p, "network")} /\ Hold(p, "network") /\ Goto(p, "volume")
  /\ UNCHANGED <<running, joined, passed, ledger, faults>>

\* The daemon answers a name that is taken with the volume there is.
CreateVolume(p) ==
  /\ At(p, "volume")
  /\ exists' = exists \cup {Name(p, "volume")}
  /\ Hold(p, "volume")
  /\ Goto(p, "connect")
  /\ UNCHANGED <<running, joined, passed, ledger, faults>>

Connect(p) ==
  /\ At(p, "connect")
  /\ joined' = joined \cup {<<p, case[p]>>}
  /\ Hold(p, "attached")
  /\ Goto(p, "gateway")
  /\ UNCHANGED <<exists, running, passed, ledger, faults>>

\* containers.run: create and start.
RunContainer(p, kind, next) ==
  /\ IF Name(p, kind) \in exists
       THEN Raise(p) /\ UNCHANGED <<exists, running, attempt>>
       ELSE /\ exists' = exists \cup {Name(p, kind)}
            /\ running' = running \cup {Name(p, kind)}
            /\ Hold(p, kind)
            /\ Goto(p, next)
  /\ UNCHANGED <<joined, passed, ledger, faults>>

RunGateway(p) == At(p, "gateway") /\ RunContainer(p, "gateway", "health")

\* The gateway answers; an outage begins by stopping it.
Healthy(p) ==
  /\ At(p, "health")
  /\ Name(p, "gateway") \in running
  /\ running' = IF case[p] \in Outage THEN running \ {Name(p, "gateway")} ELSE running
  /\ Goto(p, "workers")
  /\ UNCHANGED <<exists, joined, passed, ledger, attempt, faults>>

RunWorkers(p) ==
  /\ At(p, "workers")
  /\ \/ \E w \in Worker \ made[p] : RunContainer(p, w, "workers")
     \/ /\ Worker \subseteq made[p]
        /\ Goto(p, IF case[p] \in Outage THEN "restart" ELSE "wait")
        /\ UNCHANGED <<resources, ledger, attempt, faults>>

Restart(p) ==
  /\ At(p, "restart")
  /\ running' = running \cup {Name(p, "gateway")}
  /\ Goto(p, "wait")
  /\ UNCHANGED <<exists, joined, passed, ledger, attempt, faults>>

----------------------------------------------------------------------------
(* run: execution and verdict *)

Devices(p) == {case[p]} \X Worker

\* Mutant of Wait: without a deadline.
WaitForEver(p) ==
  /\ At(p, "wait")
  /\ Devices(p) \cap running = {}
  /\ Goto(p, "collect")
  /\ UNCHANGED <<resources, ledger, attempt, faults>>

\* All have exited, or run_timeout_seconds are over.
Wait(p) ==
  /\ At(p, "wait")
  /\ \/ Devices(p) \cap running = {} /\ Goto(p, "collect")
     \/ Devices(p) \cap running # {} /\ Raise(p)
  /\ UNCHANGED <<resources, ledger, attempt, faults>>

Collect(p) ==
  /\ At(p, "collect")
  /\ IF Devices(p) \subseteq passed THEN Goto(p, "seal") ELSE Raise(p)
  /\ UNCHANGED <<resources, ledger, attempt, faults>>

NextBlock(c) == Min({BlockSize, pending[c]})

\* Mutant of Seal: the answer to POST /blocks/seal is not looked at.
SealUnchecked(p) ==
  /\ At(p, "seal")
  /\ \/ /\ pending[case[p]] = 0 \/ proposed[case[p]] > 0
        /\ Goto(p, "verify")
        /\ UNCHANGED pending
     \/ /\ pending[case[p]] > 0 /\ proposed[case[p]] = 0
        /\ pending' = [pending EXCEPT ![case[p]] = @ - NextBlock(case[p])]
        /\ UNCHANGED <<step, outcome>>
  /\ UNCHANGED <<resources, stored, proposed, attempt, faults>>

\* One turn of the loop that seals what is left.  It looks at the events in
\* no block; a proposal that is open makes the gateway refuse to seal them,
\* or keeps it busy until the request is given up.
Seal(p) ==
  /\ At(p, "seal")
  /\ \/ pending[case[p]] = 0 /\ Goto(p, "verify") /\ UNCHANGED pending
     \/ pending[case[p]] > 0 /\ proposed[case[p]] > 0 /\ Raise(p) /\ UNCHANGED pending
     \/ /\ pending[case[p]] > 0 /\ proposed[case[p]] = 0
        /\ pending' = [pending EXCEPT ![case[p]] = @ - NextBlock(case[p])]
        /\ UNCHANGED <<step, outcome>>
  /\ UNCHANGED <<resources, stored, proposed, attempt, faults>>

\* The gateway has proposed the block and could not sign it.
SealFails(p) ==
  /\ At(p, "seal")
  /\ pending[case[p]] > 0 /\ proposed[case[p]] = 0
  /\ Fault
  /\ Raise(p)
  /\ pending' = [pending EXCEPT ![case[p]] = @ - NextBlock(case[p])]
  /\ proposed' = [proposed EXCEPT ![case[p]] = NextBlock(case[p])]
  /\ UNCHANGED <<resources, stored, attempt>>

Complete(p) ==
  /\ Devices(p) \subseteq passed
  /\ Cardinality(stored[case[p]]) = Cardinality(Worker)

Verify(p) ==
  /\ At(p, "verify")
  /\ Conclude(p, IF Complete(p) THEN "PASS" ELSE "FAIL")
  /\ UNCHANGED <<resources, ledger, attempt, faults>>

Starting(p) == CASE At(p, "gateway") -> {"gateway"}
                 [] At(p, "workers") -> Worker \ made[p]
                 [] OTHER -> {}

\* Any call of the try block raises; a container may have been created that
\* does not start, and then run() holds no handle of it.
TryFault(p) ==
  /\ step[p] \in TrySteps
  /\ Fault
  /\ Raise(p)
  /\ \/ UNCHANGED exists
     \/ \E k \in Starting(p) : exists' = exists \cup {Name(p, k)}
  /\ UNCHANGED <<running, joined, passed, ledger, attempt>>

----------------------------------------------------------------------------
(* run: the finally block *)

Kept(status) == IF status = "PASS" THEN ~ Cleanup ELSE Retain

WriteResult(p) ==
  /\ At(p, "write result")
  /\ Goto(p, IF Kept(outcome[p]) THEN "done" ELSE "remove workers")
  /\ UNCHANGED <<resources, ledger, attempt, faults>>

\* An error of a removal is ignored: what it would have removed stays.
Ignored == Fault /\ UNCHANGED <<resources, ledger>>

RemoveWorkers(p) ==
  /\ At(p, "remove workers")
  /\ \/ \E w \in made[p] \cap Worker :
          /\ Name(p, w) \in exists /\ RemoveContainer(p, w)
          /\ UNCHANGED <<step, faults>>
     \/ /\ exists \cap ({case[p]} \X (made[p] \cap Worker)) = {}
        /\ UNCHANGED <<resources, ledger, faults>>
        /\ step' = [step EXCEPT ![p] = "remove gateway"]
     \/ Ignored /\ step' = [step EXCEPT ![p] = "remove gateway"]
  /\ UNCHANGED <<attempt, outcome>>

RemoveGateway(p) ==
  /\ At(p, "remove gateway")
  /\ \/ "gateway" \in made[p] /\ RemoveContainer(p, "gateway") /\ UNCHANGED faults
     \/ "gateway" \notin made[p] /\ UNCHANGED <<resources, ledger, faults>>
     \/ Ignored
  /\ Goto(p, "disconnect")
  /\ UNCHANGED attempt

\* Mutant of Disconnect: the runner stays attached.
StayAttached(p) ==
  /\ At(p, "disconnect")
  /\ Goto(p, "remove network")
  /\ UNCHANGED <<resources, ledger, attempt, faults>>

Disconnect(p) ==
  /\ At(p, "disconnect")
  /\ \/ joined' = joined \ {<<p, case[p]>>} /\ UNCHANGED <<exists, running, passed, ledger, faults>>
     \/ Ignored
  /\ Goto(p, "remove network")
  /\ UNCHANGED attempt

RemoveTheNetwork(p) ==
  /\ At(p, "remove network")
  /\ \/ "network" \in made[p] /\ ~ NetworkBusy(p, {}) /\ RemoveNetwork(p) /\ UNCHANGED faults
     \/ ("network" \notin made[p] \/ NetworkBusy(p, {})) /\ UNCHANGED <<resources, ledger, faults>>
     \/ Ignored
  /\ Goto(p, "remove volume")
  /\ UNCHANGED attempt

RemoveTheVolume(p) ==
  /\ At(p, "remove volume")
  /\ \/ "volume" \in made[p] /\ ~ VolumeBusy(p) /\ RemoveVolume(p) /\ UNCHANGED faults
     \/ ("volume" \notin made[p] \/ VolumeBusy(p)) /\ UNCHANGED <<resources, ledger, faults>>
     \/ Ignored
  /\ Goto(p, "done")
  /\ UNCHANGED attempt

RunStep(p) ==
  \/ StaleContainers(p) \/ StaleNetworks(p) \/ StaleVolumes(p)
  \/ CreateNetwork(p) \/ CreateVolume(p) \/ Connect(p) \/ RunGateway(p) \/ Healthy(p)
  \/ RunWorkers(p) \/ Restart(p)
  \/ Wait(p) \/ Collect(p) \/ Seal(p) \/ SealFails(p) \/ Verify(p) \/ TryFault(p)
  \/ WriteResult(p) \/ RemoveWorkers(p) \/ RemoveGateway(p) \/ Disconnect(p)
  \/ RemoveTheNetwork(p) \/ RemoveTheVolume(p)

\* What goes on without a runner.
DockerStep ==
  \E c \in Run : \/ AutoPropose(c) \/ Finalize(c)
                 \/ \E w \in Worker : Deliver(c, w) \/ Exit(c, w)

----------------------------------------------------------------------------
(* Property *)

\* A run that is about to be reported as PASS has the event of every device
\* in a block (docker_runtime.py:366-411).  The blocks are final but perhaps
\* the last one: run() looks at what is in no block and at /verify, which
\* accepts an open proposal at the end of the chain.  But what may not be
\* final is one full block, the last that the gateway has sealed by itself: a
\* seal of run() that did not come to its end is never a PASS, nor is a rest
\* that the open proposal keeps from being sealed.
PassIsDelivered ==
  \A p \in Runner :
    step[p] = "write result" /\ outcome[p] = "PASS" =>
      /\ stored[case[p]] = Worker
      /\ pending[case[p]] = 0
      /\ proposed[case[p]] \in {0, BlockSize}
=============================================================================
