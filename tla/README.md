# A formal model of EdgeChainDB

TLA+ modules, TLC configurations and TLAPS proofs for EdgeChainDB (version
0.8.3). The reference is the code in `src/edgechaindb/`; `PROJECT.json` maps
every definition to the lines it models.

Contents: [the system](#1-the-system), [what is hard](#2-what-is-hard-in-it),
[the modules](#3-the-modules), [what the runs show](#4-what-the-runs-show),
[what is proved](#5-what-is-proved), [disagreements](#6-disagreements-with-the-documentation),
[abstractions](#7-abstractions-and-what-they-leave-out),
[what is not modelled](#8-what-is-not-modelled-and-why).

## 1. The system

| Component | State it keeps | Operations | Must be true of it |
|---|---|---|---|
| Store, `store.py` | the SQLite tables devices, authorities, events, blocks with block_events, block_authorities, block_signatures | one transaction per write method; reads on connections of their own | rows agree with each other after every commit |
| Ledger, `ledger.py`, `models.py` | none of its own | enrol, `accept_event`, `propose_block`, `sign_block`, `add_external_signature` | one unbroken chain per device; one chain of blocks; an event in one block; final only by quorum; nothing undone |
| Gateway, write side, `api.py` | `seal_lock`, the handlers in progress | start; POST /devices, /events, /blocks/seal, /blocks/h/signatures | sealing is serialized; a full batch gets sealed; only an interruption leaves a proposal behind |
| Device, `device_node.py`, `device.py`, `outbox.py` | `outbox.json`, `state.json`, and their copies in memory | start, synchronize, flush, sample | every buffered reading arrives, once and in order; no number is signed twice |
| Verification, `ledger.py` | none | `event_proof`, `verify_event_proof`, `verify_all` | no false alarm, no miss |
| Merkle tree, `merkle.py`; encoding, `canonical.py`; keys, `crypto.py` | key files | pure functions; `load_or_create` | a proof exists for members only; a key survives |
| Cluster control, `cluster_control.py` | a metrics cache under a lock | state with metrics; start, stop, restart of devices | an action is visible in the next state, or within seconds |
| Gateway server, `gateway_server.py` | two listeners | serve, shut down together | neither survives the other |
| Experiment worker, `experiments/worker.py` | an SQLite outbox, counters shared by two threads | generate, send, join | it ends; PASS means that everything generated is stored |
| Containers of a run, `experiments/docker_runtime.py` | what exists on the Docker daemon | clean up stale resources, provision, outage, wait, seal, verify, remove | an attempt never meets the names or the ledger of the one before |
| Campaign, `experiments/runner.py` | lock file, journal, report | start, resume, run, report, exit | every selected run passes once; exit code 0 means that all have |
| Plan and merge, `experiments/model.py`, `merge.py`, `report.py` | none | expand and select cases, shard, merge directories | exact margins, distinct run ids, nothing lost between shards |
| Benchmarks, system tests, simulator, CLI, dashboard, logging, deployment | files they write | straight-line scripts | - |

A device and its gateway talk over HTTP: the device enrols, reads its
checkpoint, and posts one event at a time. The gateway's threads call the one
ledger object; every ledger call is one or more visits to the database, and
other processes (a second gateway, a script) may open the same file. Authorities
outside post signatures for open blocks. A campaign calls `run` of the Docker runtime for
each case; its devices are workers, each with two threads that share counters
and an outbox, and its gateway is the program above. Shards of a campaign share
nothing but the plan, until their directories are merged.

## 2. What is hard in it

`PROJECT.json` lists every hazard with its line. In short: `propose_block` acts
on five reads that are each stale as soon as they return; the quorum may be
different in each process that shares a database; a proposal is never withdrawn,
so one that cannot be completed stops the chain; the gateway looks at its
backlog before it has the lock and again when it has it; a device replaces two
files one after the other, and gets answers late, twice or never; a
continuous device swallows every error of a synchronization; `verify_all` reads
a database that is being written, some of it twice; a key file is empty for a
moment; a sender decides on a flag and a count it read one after the other; an
experiment attempt that was killed leaves containers, a network, a volume and
perhaps half a line in the journal to the next one; and the metrics cache is
reset without the lock under which it is filled.

## 3. The modules

| Module | Models |
|---|---|
| `Store` | the tables, the reads that writes depend on, the write transactions |
| `Ledger` | `EdgeChainLedger` used by any number of callers without a lock (extends `Store`) |
| `EventLog` | what a ledger promises: logs and a chain of sealed batches, with no database |
| `LedgerRefinement` | the mapping under which `Ledger` implements `EventLog` |
| `LedgerProofs` | the theorems about both |
| `Gateway` | the handlers of one gateway process over `Ledger`: threads, `seal_lock`, crashes, database errors (extends `Ledger`) |
| `GatewayProofs` | that a gateway implements `Ledger`, that `seal_lock` keeps proposals fresh, that no proposal is stranded and no full batch left behind |
| `Stream` | what a device promises: one sequence of readings that is delivered from its front |
| `Device` | `run_device` with its two files and the network, implementing `Stream` |
| `DeviceProofs` | that it does, and that device and gateway stay in step |
| `Verifier` | `verify_all` query by query, beside `Ledger` or on a damaged database (extends `Ledger`) |
| `VerifierProofs` | that `verify_all` raises no false alarm and finds every damage |
| `Merkle` | root, proof and verification of a block's tree |
| `Launch` | a gateway process: key file, registration, two listeners, its end |
| `ClusterControl` | the metrics cache between dashboard requests and control |
| `ServiceProofs` | that a node has one identity, that the dashboard is behind in one race only, and that proofs of inclusion are sound (extends `Launch`, `ClusterControl`, `Merkle`) |
| `Worker` | one device of an experiment: generator, sender and main thread |
| `WorkerProofs` | the safety of `Worker` |
| `Case` | one run on the Docker daemon, as the steps of a runner |
| `Campaign` | the runners over lock, journal and report (extends `Case`) |
| `CampaignProofs` | the safety of `Campaign` and `Case` |
| `Plan` | from the plan to the cases: validation, balanced design, shards |
| `Merge` | the merge of shard directories while runners append |
| `ExperimentProofs` | that the runs are those of the plan, and that a merged report is up to date (extends `Plan`, `Merge`) |
| `MC...` | instances for TLC |

How they fit together: `Gateway` adds to `Ledger` which thread may take which
step, so that `ImplementsLedger`, a theorem, carries every theorem about `Ledger` over
to the gateway. `Device` knows the
gateway only through `Acceptable`, `Has` and `Arrive`, which say of one device
what `AcceptEvent` and `Duplicate` say of all. `EventLog` and `Stream` meet in
the log of one device. `Verifier` adds to `Ledger` one more client, which only
reads. `Launch` is what surrounds a `Gateway`: how its process comes to
`Startup` and how it ends. `Campaign` extends `Case`, whose actions are those of a
runner p; a device in `Case` is a `Worker` reduced to what `PassIsComplete` says of it
(it exits with PASS only when it has delivered), and its gateway is reduced to
events stored, events in no block, and events in a block that is not final; it seals
full blocks by itself, in two steps, and the second one may never come, as in `Gateway`.

*State.* A function of `Store` is a table, from primary key to row. `pc[p]`
and `draft[p]` of `Ledger` are the position and the local variables of caller
p's `propose_block`. `stage[t]` of `Gateway` is the position of thread t's
handler, `round` the local variables of the signing loop. In `Device`,
`state_json` and `outbox_json` survive a crash, `items`, `local_state` and
`client` are `DurableOutbox._items`, the dictionary `local_state` and the
`DeviceClient`; `received` is what the gateway has; `posted` holds requests that
are under way, given up or not. In `Verifier`, `check` is the next query, `rows`,
`expected`, `previous`, `members` and `chain` are the variables of `verify_all`, and `damage`
is an overlay on what the queries return. In `Worker`, `saw_done` and `queued`
are what the sender read and `idle_time` is the time since `last_progress_at`. In
`Case`, `exists`, `running`, `joined` are the daemon's, `made` and `outcome` the local
variables of `run()`, `step` the place in it. In `Campaign`, `journal`, `torn`,
`results` and `progress` are files. `ClusterControl` has history variables (`began`,
`settled`, `promised`, `outrun`, `suspect`), which no action reads to decide.

*Actions.* A write transaction is one action; a call that visits the database
several times is one action per visit. A call that is refused changes nothing
and is a step only where the caller's position changes (`Raise`,
`ProposeRaises`, `SyncRaises`). A loop is one action per turn (`Climb`, `Attempt`,
`Seal`, `CheckEvent`), a thread one action per access to what it shares (`Look`, `Count`,
`Decide`), and a finally block one action per removal, because a kill may
come between any two.

## 4. What the runs show

| Run | Instance | Question |
|---|---|---|
| `race` | 2 proposers with quorums 2 and 1, 2 authorities, 6 submissions of 2 devices: 3 honest events, a fork, a gap, a forged copy; two keys for one device | does any interleaving of submissions, reads, proposals, signatures and abandoned calls break the chain or a device's chain, claim an event twice, finalize without quorum, or leave `EventLog`? |
| `gateway` | 3 threads, batches of 2, a quorum of 2, one crash, one database error; fair threads | does `seal_lock` make a proposal as good as atomic, does no full batch stay behind, is the lock always released again, is only an interrupted proposal ever stranded, is every step one of `Ledger`? |
| `device` | either mode, 3 numbers with 2, 3 and 1 events to choose from, limits 1 and 2, 2 crashes, 2 faults, and one loss: of a file of the device, or of the end of the gateway's database; fair | do readings reach the gateway in order, each once, and in the end; are the files always enough to go on from; is no request refused, no synchronization out of step; and what is still true after a loss? |
| `device_reanchor` | either mode, 1 lost file, no failure | section 6: a continuous device takes over what it does not know |
| `reading` | three parts. `Verifier`: 1 proposer with a quorum of 2 of 2, 2 devices, 3 events, no damage or one of 14 kinds. `Merkle`: every block of up to 5 of 5 events. `ClusterControl`: 2 viewers, 1 operator, 2 devices, 2 actions, cache of 2 ticks, clock to 4 | can `verify_all` raise a false alarm, on a quiet database or on a busy one, and is every damage of the integrity benchmark found in any row of any state? does a proof prove its event and no other, does a root stand for one list? when is a dashboard out of date after a control action? |
| `deletion` | 1 device, 2 events, a block's row deleted | section 6: that is not found |
| `launch` | 3 processes on one file, 4 keys, 1 kill, 1 failed write; fair event loops | has the node one identity; does a gateway with one listener left come to its end? |
| `worker` | 5 events in batches of 2, timeout of 2 ticks; fair threads, a network that may be silent | is the outbox in step with the gateway, does PASS mean that everything is stored, does a worker end? |
| `worker_stall` | 2 events, batches of 1 | section 6: a stall with nothing buffered |
| `campaign` | 2 runners, 2 runs of one device of which 1 has an outage, blocks of 2, 1 fault, 3 starts, 1 stop; fair runners, devices that may hang | do attempts collide, is a run repeated after it passed, does exit code 0 mean that all passed, does a campaign end? |
| `campaign_torn` | 1 run, 2 starts, 1 stop | section 6: a torn journal stops every later start |
| `experiments` | three parts. `Plan`: 289 plans of both designs, 3 varied factors, up to 12 combinations, valid and not. `Case`: one attempt of a run of two devices and of one of three, blocks of 2, 1 fault. `Merge`: 2 directories, one with old results, 2 runs of which 1 is planned, 3 lines | exact margins, distinct run ids, shards that share, events that add up? is every event in a block at PASS, and which block may not be final? is the merged report ever behind, does it agree with the runner? |

The runs that section 6 is about (`device_reanchor`, `deletion`, `worker_stall`,
`campaign_torn`) end in a counterexample; all others find no error. Every property
of a passing run has a mutant in `PROJECT.json`: a plausible bug in one mapped
definition for which TLC finds the property violated in the same run.

Where several invariants make one promise a run checks their conjunction:
`DeviceInv` (types; the device and the gateway in step; no request refused; no append
refused), `VerifierInv` (types; no alarm on a quiet database; only three on a busy
one), `MerkleInv` (types; the steps lead up; a proof proves its event; a root
identifies its list), `MetricsSound` (types; the one race; its duration), `CampaignInv`
(types; no name conflict; a fresh ledger), `PlanInv` (types; margins; run ids; shards;
events) and `MergeInv` (types; never behind; about the plan). Each conjunct is stated
and explained by itself in its module.

`MCReading` and `MCExperiments` put modules that share no variable side by side:
a behaviour chooses one part at its start, and the others rest in one initial state. (The
attempts of `Case` begin on an empty daemon there; what earlier ones leave is the subject of `campaign`.) The
states explored are the sum of those of the parts, not their product, and each
property speaks about one part.

**Bounds and why they are enough.** Two proposers and three honest events give a
chain of three blocks, an open proposal met by a stale one, and every order of
two signatures around a quorum; a third proposer can only repeat what the
second has made stale, and the proofs of section 5 have no bound. Three threads
are one under the lock, one waiting for it and one that has just submitted.
Six device events are enough for a device to sign something different after it
has lost its position, at number 1 and at number 2, and to have one event
delivered, one in the outbox and one to sign. Limits 1 and 2 make the buffer
full, and too full after a restart with the lower one. Two crashes are one in the
midst of the recovery from another. `MaxCrashes` and `MaxFaults`
bound failures; for the liveness properties they are the assumption that failures end.

`Device` allows one loss. With two (a device that lost a file, talking to a gateway that
was put back, or a device that lost both files one after the other) the device
can find a gateway that agrees with it in number and not in hash, in either
mode: the protection is against one.

One device with two events gives `verify_all` two blocks, an open proposal, a tip
that becomes final and a checkpoint that moves while it reads; three events of
two devices give the damages an interior event, a block with two events and a
chain it must not touch. Blocks of up to five events have trees that are odd at
the bottom, one level up, and at both. Three processes are one that writes the key
file, one that found no file before that, and one that reads it. Five events in
batches of two are two full batches and a rest; two ticks let a timer run without
expiring. For a campaign, three starts and one stop are an attempt that is
stopped, its retry, and the other alias in between; two runners are the two compose
aliases. `faults` bounds errors of the daemon, the gateway and the disk together. In `campaign`
a run has one event, which fills no block; in `experiments` two devices fill a block of two, so that
the last block may be one that the gateway proposes by itself and does not sign, and three
leave a rest besides, which an open proposal keeps from being sealed.
Of a plan, three factors vary with up to three levels; the other three have one,
which makes their columns constant. Up to four machines (`MaxShards`) are more than some plans have runs. Three lines of two journals are an old
result and a retry in one directory, and a result of the same run in the other.
`MaxClock` 4 with a cache of 2 ticks lets a cache be filled, expire, be filled
again and be used.

**Deadlock** is checked where the system goes on for ever: a gateway or device with
nothing left to do in its instance still has a request it can refuse or a loop
to go round (`Pause`), as the programs have, and so have the callers of `race`. The
configurations of `worker`, `campaign`, `launch`, `reading` and `experiments` set
`CHECK_DEADLOCK FALSE`: there a program ends (a worker, a campaign, a plan, a proof,
a merge), or the bound on keys, starts or the clock ends the behaviour. That they
do not end early is what `WorkerEnds`, `CampaignEnds` and `NotHalfAlive` say.

**Fairness.** `FairHandlers`: the thread pool runs each handler that can go on;
weak fairness is enough, and `threading.Lock` gives no more, because the threads
that take the lock from one that is kept waiting seal the same backlog.
Nothing is assumed of a gateway that has stopped, nor of the authorities: `Gateway` has
no fairness for `Startup` or for signatures from outside, because nothing in the program
posts any for the authorities whose keys it holds. A proposal that was interrupted may therefore stay open for
ever, and no property says otherwise (section 6).
The `Start` of `FairDevice` is Docker Compose, which restarts each
container (`restart: unless-stopped`). `FairDevice` also
says that a request the device waits for is handled unless a fault, of which
there are finitely many, prevents it. Without restarts of the device or an end of
the failures the code cannot make these promises; `FullBatchIsSealed` exempts
instances in which a handler was taken away, `LockIsReleased` none, because a process that
is gone holds no lock, and `EveryReadingArrives` exempts those in which
something was lost. `FairSpec` of `Worker`: both threads
are scheduled, the clock goes on and the joins return; nothing is asked of the
network, so that `WorkerEnds` holds of a gateway that never answers, because
every request has a timeout. `FairSpec` of `Campaign`: a runner that is not stopped
goes on, with the time-outs of the calls it makes; nothing is asked of devices
or of the gateway. `FairSpec` of `Launch`: the event loop runs, and a listener that is told
to exit does so, because its requests end.

## 5. What is proved

What is proved, and for which values of the constants:

- `LedgerProofs` and `GatewayProofs`: any sets
  of devices, keys, events and callers (threads), any finite set of authorities, any
  quorums, local signers, batch size and number of crashes and errors;
- `DeviceProofs`: any set of events to choose from, any buffer limits, any number of
  crashes and failed requests, and at most one loss, as the guard of the model has it;
- `VerifierProofs`: the same as `LedgerProofs`, beside any writes; and any of the 14 kinds of damage
  (`TamperCases`), in any row;
- `WorkerProofs`: any number of events, any batch size and timeout;
- `ServiceProofs`: any sets of processes and keys, any number of kills and failed writes; any sets
  of viewers, operators and devices, any life of the cache, any number of actions; any set of events, and blocks
  of any length;
- `ExperimentProofs`: any plans, with any levels (listed twice or not), samples and repetitions, any
  shuffles and attempts, any number of machines; any directories, runs and journals, which grow while they
  are merged;
- `CampaignProofs`: any sets of runs, devices and runners, any selection, options and
  block size, any number of starts, kills, interrupts and errors.

| Theorem | Property | Also checked by |
|---|---|---|
| `LedgerInvariant` | the inductive invariant `LedgerInv` | |
| `TypeCorrect` | `TypeOK` | `race` |
| `ChainIsLinked` | `ChainLinked` | `race` |
| `FinalityNeedsQuorum` | `QuorumIsFinality` | `race` |
| `ProposalsAreFinalizable` | `QuorumReachable` | `race` |
| `EventsInOneBlock` | `EventsMatchBlocks` | `race` |
| `DevicesDoNotFork` | `DeviceChains` | `race` |
| `DraftsAreSound` | `DraftsSound` | |
| `LedgerOnlyGrows` | `OnlyGrows` | `race` |
| `LedgerImplementsEventLog` | `ImplementsEventLog` | `race` |
| `GatewayInvariant` | the inductive invariant `GatewayInv` | |
| `GatewayImplementsLedger` | `ImplementsLedger` | `gateway` |
| `SealsAreNeverStale` | `SealIsNeverStale` | `gateway` |
| `SealingInvariant` | the inductive invariant `SealingInv` | |
| `NoProposalIsStranded` | `NoOrphanProposal` | `gateway` |
| `BacklogStaysBounded` | `BacklogBounded` | `gateway` |
| `ReadingInvariant` | the inductive invariant `ReadingInv` | |
| `NoFalseAlarm` | `VerifierInv` | `reading` |
| `EveryDamageIsFound` | `DamageIsFound` | `reading` |
| `DeviceInvariant` | the inductive invariant `DeviceIInv` | |
| `DeviceInStep` | `DeviceInv` | `device` |
| `RestartsAtTheEnd` | `ResumesAtTheEnd` | `device` |
| `OnlyTheLoopReanchors` | `ReanchorsOnlyInTheLoop` | `device` |
| `NoNumberIsUsedTwice` | `NumbersUsedOnce` | `device` |
| `DeviceImplementsStream` | `ImplementsStream` | `device` |
| `WorkerInvariant` | the inductive invariant `WInv` | |
| `BufferInStep` | `InStep` | `worker` |
| `NoGapIsSent` | `NeverRefused` | |
| `DrainedIsDelivered` | `NothingLeftBehind` | `worker` |
| `PassMeansStored` | `PassIsComplete` | `worker` |
| `LaunchInvariant` | the inductive invariant `IInv` | |
| `LaunchTypes` | `TypeOK` of `Launch` | |
| `IdentityIsOne` | `OneIdentity` | `launch` |
| `FailuresLeaveNoFile` | `EmptyOnlyIfKilled` | `launch` |
| `CampaignInvariant` | the inductive invariant `CampaignIInv` | |
| `AttemptsStartClean` | `CampaignInv` | `campaign` |
| `NoPassIsRepeated` | `PassedOnce` | `campaign` |
| `PassedRunsAreRemoved` | `PassLeavesNothing` | `campaign` |
| `PassesAreDelivered` | `PassIsDelivered` of `Case` | `experiments`, in two instances of `Case` |
| `ZeroIsHonest` | `ZeroMeansPassed` | `campaign` |
| `ProofsAreSound` | `MerkleInv` | `reading` |
| `ControlInvariant` | the inductive invariant `ControlInv` | |
| `MetricsAreSound` | `MetricsSound` | `reading` |
| `RunsAreThePlans` | `PlanInv` | `experiments` |
| `ReportIsUpToDate` | `MergeInv` | `experiments` |
| `MergeAgreesWithRunner` | `AgreesWithRunner` | `experiments` |

*Assumptions.* TLC evaluates each of them in every run that uses its module.
`EventFields`, `FiniteAuthorities`, `ZeroHashIsNoEvent` (module `Store`),
`CallerConfig` (`Ledger`) and `DeviceConfig`: the fields of an event have their types,
numbers start at 1, SHA-256 yields no zero hash, callers have a node, a key and a positive
quorum. `GatewayConfig`: the threads of a gateway propose as its own node, with its
key, which is one the node may register with; the local signers are distinct and not
the node itself, because `create_app` numbers them, `<node>-authority-02` and so on
(`api.py:89-94`); and no thread asks for a larger quorum than all of them can give, because
`create_app` raises otherwise (`api.py:76-81`). `VerifierConfig`: no kind of damage is "none", and a value with a flipped byte
is no event, key or hash. `EveryDamageIsFound` also assumes that the damages tried are
of those kinds; the deletion of a block's row, which is not found (section 6), is another one.
`CampaignConfig`: the selected runs are distinct, which `RunsAreThePlans`
proves of every plan without repeated levels. `CaseConfig`: a run has some device. `MergeConfig`: the directories are distinct, because
`main` sorts a set (`merge.py:40`); there are finitely many runs, because files are finite; and the
lines of an old `results.jsonl` are in the order of their times, of which it has one for each run, because `write_result_artifacts`
writes it that way (`report.py:269-294`). `PlanConfig`: a plan has one of the two designs, and its numbers are natural
numbers; that `load_plan` may yield others of these (none, no levels, no samples) is what `Validate` is about.
`ClusterControlConfig`: a cache lives for some time. `MerkleConfig`: a block may have an event.
The rest of these, of `CaseConfig`,
`CampaignConfig`, `WorkerConfig` and `LaunchConfig` says that bounds are numbers, options are
Boolean, and that the values for "none" and the names of kinds are not among those they stand
beside.

*Argument.* None of the safety properties is inductive alone, because
`create_proposal` writes what was read earlier. The missing part is
`DraftsSound`: the snapshot a caller holds is still a part of the authorities'
table and large enough; the events it selected are stored; and the block it
means to extend is final and has the hash it holds. A draft may be stale, then,
but the transaction refuses it in exactly the cases in which it would do harm: a
height that has been used meanwhile is refused by the primary key, an event
that has been claimed by the check on the selection, and a height still free,
when no proposal is open, is the next one.
With that, each action is followed through each conjunct of
`LedgerInv`; `LedgerOnlyGrows` and the refinement are then statements about one
step from a state that satisfies it. For the refinement the one hard step is
`InsertBlockSignature`: the signature that completes the quorum appends exactly
the events of one block to `sealed`, and these are logged and not sealed yet.

For the gateway the hard step is `Crash`, which ends all calls at once: that it is
one step of `Ledger` needs `LockInv`, by which at most one thread is inside
`propose_block`. `DraftTrue` adds that what this thread has read is still true:
the others can only submit, which takes nothing out of the backlog, or deliver a
signature, which, while no proposal is open, finds its block final
(`TipIsSteady`).

The same locals of the signing loop are what `NoOrphanProposal` needs (the second half of
`GatewayProofs`):
an open proposal is in the hands of a thread that has signed it for itself and for
every local signer before `round.next` (`InHand`), and all of these are members of the
block's snapshot, because they were registered before anything was served (`Registered`).
So the loop that runs out of signers has signed with at least as many as the quorum can
ask for, and then the block is final and not open. For `BacklogBounded` the invariant is `Owed`, a
count: a submission adds one event and one thread that owes the look; a thread stops
owing it when it has seen less than a batch, or when its proposal has taken one out. Between
the two the thread still counts, which is the second conjunct of `Owed`; and that the
batch is full when it is taken out is `Batches`.

For `verify_all` the invariant (`ReadingInv`) says of each of its local variables how far it may
be behind the database. The rows of its snapshot are those of the tables, because a
block is never changed; only the status of the last may be out of date, and the rows before it are
final (`RowsAreTrue`). So a gap, a wrong link, root, signature or flag is never seen,
and what remains is that the tip is final now, which is the first stale alarm. Of the
events still to be checked, each one's predecessor is either among them or the last that was seen of
its device (`ChainIsTrue`), so each of them links; at the checkpoints it makes the difference whether
something was committed since the verification began (`written`): if not, the last
event seen of each device is its newest. Here `LedgerInv` is what gives the rest: `DeviceChains`,
`ChainLinked` and `QuorumIsFinality` are what `verify_all` checks, query by query.

For a damaged database the invariant (`DamageInv`) goes the other way: as long as no error was
reported, the comparison that will report the damage is still ahead (`Ahead`): the block of
the damaged row is among those still to be read, or its references or signatures are; the damaged
event, the successor of the deleted one, or an event of the device without a row is
still in `left`. (A device's last event has no successor; the checkpoint names it.) At the end of the loops nothing is ahead. This needs that the rows still to be checked are those
of the damaged database (`RowsAsRead`), and, for a deleted event, that no event was seen that is not
stored (`SeenAreStored`): then its successor has the wrong number and hash whatever was seen before.

For the device the missing part is that there *is* one chain (`OneChain`): a sequence of
events, each number following the one before and each hash linked to the last, of
which the gateway has a beginning, `outbox.json` and `items` are ends, and every position
kept anywhere (`state.json`, `client`, `checkpoint`) is a position. It is quantified: no
variable holds it, and for a device that has lost nothing it is `Produced`. `FilesOf` says what a crash between
the two replacements leaves (`state.json` behind `outbox.json`, which is then not empty,
so that `Recovered` is its end), `Delivery` what a late or repeated request may find: what
is posted is at most one past what the gateway has. After a loss each of the two may fail: a gateway
that was put back has still a beginning of the chain, so that all of `OneChain` but `Delivery`
holds on; a device that lost a file may have no chain left, and then it is `Orphaned`, finds
the gateway ahead at every start and stops, or it is continuous, and only `Buffers` holds,
which is enough for `AppendNeverRefuses`. The refinement follows: a step either
leaves `Produced` and `received` alone, appends one event to the first, or moves the
second one further along it.

For the campaign the invariant goes along the steps of `run()`. `Turns`: a runner past
`_campaign_lock` holds it, so two never share a run. `Memory`: what the holder has read of the journal
is what the journal says, as nobody else appends; what it still has to run is distinct and has not
passed; and with `failures = 0` every selected run has passed or is still to run, which at
the end of the loop is `ZeroMeansPassed`. `Attempt` says what the daemon has of the run at each
step: `Provisioned`, that when the stale containers, networks and volumes are removed in
this order each removal succeeds, so that what exists afterwards was made by this attempt
and the volume, and with it the ledger, is new; `Delivered`, that PASS of every device and an empty
backlog are still true when the verdict is written, and that an open proposal is a whole block
(`WholeBlocks`), because a smaller one is proposed by `run()` only, and its failure is the attempt's; `Removed`, that the final removals,
in their order, leave nothing. `LeftClean` carries the last to all runs that have passed. Only
`Removed` and `LeftClean` assume that no error was met. `PassLeavesNothing` needs
`--resume`: without it a campaign started again begins a run anew that has passed, and a kill
leaves the containers of the new attempt.

For the worker the missing part is what the sender has read. `InStep` needs
`Delivery`: the event it has in hand is the oldest in the outbox, every request ever
posted is for a number up to it, and the gateway has what is acknowledged and
at most this one more. `NothingLeftBehind` needs `Looked`: if the sender read that the
generator was done, then nothing will be appended any more, so that the
count it makes afterwards cannot grow before it decides. In the other order of
the two reads `Looked` is false, and the mutant `DrainedNow` shows it.

For the identity it is `OneWriter`: at most one process is between creating the key
file and writing it (`O_EXCL`), and while one is, the file is empty. Then nobody
else can have read a key, and `registered # NoKey => file = registered`, a part of
`OneIdentity`, gives that nothing is registered yet: a failed write, which unlinks
the file, takes nobody's key away.

For the metrics cache the invariant (`ControlInv`) compares versions: what a request was promised is at
most what `control` has answered for (`settled`), and that at most the version there is. A request and the cache need then
be right only about devices whose version is the promised one, that is, about those that nobody
has touched since (`RequestsAreRight`, `CacheIsRight`): a measurement of such a device was made after the action.
A request that was under way when the cache was reset promises more than it can keep, and these are
the ones in `outrun`. That the cache is wrong for no longer than it lives needs that its time stamp is not after the
beginning of any measurement in it: what it is wrong about was acted on after that (`began`).

For the tree the terms do the work of the hash. Two different nodes of a
level stay different on the next one, and a parent tells its children and its level, so the steps of a proof lead two different
events to two different nodes, also on the right edge, where an odd level repeats its last. A turn of the
loop does not change what the root of the level will be (`Top`), so that the finished proof ends at the root of the leaves. That a root has one
list is shown from the top: lists of the same depth with the same root have the same level below it, and so
on down, where the number of nodes could differ only by a repeated last one, which lists of distinct
events do not have; and lists of different depths differ because at some level one has leaves where the other has none.

For the plan three facts about numbers are enough. What is numbered in blocks of
one size has exactly one number for each block and each place in it (`BlockOf`, `PlaceOf`), so a set given by
blocks and by places has as many numbers as their product (`CountBlocks`). This gives the margins of a full factorial one factor
at a time (`ExtendedDesign`), and that the cases of distinct configurations are distinct.
What is dealt in turn is all dealt, and evenly (`Dealt`): this is the division of a plan among machines and of
events among devices alike. And the rank of a row in a strict order is a number that no other row has
(`SortedOnce`), so sorting loses none. What is kept of the search (`PlanIInv`) is balanced because each column is a shuffle of
the levels, and because the rows are as many as asked for: then no two of them are equal, and counting rows is counting
places in a column (`ColumnsBalance`). A full factorial in which a level is listed twice has equal runs (`RunIdsUnique`
exempts it); its margins and its shards are still right.

For the merge the journals are in the order of the clock, one writer each (`JournalsInOrder`), so that the last line
of a run is also the newest, which is why taking what supersedes agrees with taking the last. What a directory had when the
merge began is still there when it is read, or hidden by a journal that is new (`LinesRemain`), and what
is known is at least as new as every line read (`ReadSoFar`), in whatever order the directories come.

*Induction.* The proof system has no rule for induction over a predicate here, but the
library states that `<` is well-founded on the numbers: `SetInduction` (`DeviceProofs`), `InductionOnNat` (`ServiceProofs`, `ExperimentProofs`) and
`LeastElement` (`CampaignProofs`, `VerifierProofs`) derive induction for a *set* of numbers from
it, and with them the facts about the recursive functions `Newer`, `Those`, `LatestStatus`, `Top`, `Walk` and `Combine`
are proved (first, that a function with these equations exists): what `acknowledge` keeps of an outbox is the end of it, what the
runner keeps of its selection is what is in the set, in order and each once, and what the merge makes of the lines of a file is the newest of
each run.

*Only model-checked.* All liveness (`FullBatchIsSealed`,
`LockIsReleased`, `EveryReadingArrives`, `NotHalfAlive`, `WorkerEnds`, `CampaignEnds`): `ENABLED`, fairness and
leads-to are outside what the proof system supports. Every safety property of a passing run is a theorem.

## 6. Disagreements with the documentation

**A device that lost its state.** `benchmarks/resilience_boundaries.py:222` says that a device that has lost its
checkpoint "is deliberately rejected rather than silently re-anchored". The
check exists (`device_node.py:146-149`), and on a device that is not continuous it
does its work (`ReanchorsOnlyInTheLoop`). But a continuous device swallows it (`device_node.py:271-278` and
298-305) and goes on sampling from number 1. When it has signed as many events
as the gateway has, the next synchronization finds equal numbers, drops those
events from the outbox and takes over the gateway's hash (155-160). Run
`device_reanchor` shows it with one lost file and no other failure: readings
that were signed and buffered never reach the gateway, and the device goes on at
an event it does not know. The benchmark calls `_sync_and_flush` itself and
never meets the loop.

**A deleted block** (`deletion`). `README.md:46-48` says that "deleted or altered database
rows" are detected. The row of the last final block is not: a gap in the heights
shows only if a later block exists, and the events' mappings are looked up in
`block_events` (`ledger.py:466-478`), which keeps its rows. All damages of the
benchmark are found (`DamageIsFound`).

**A stall with nothing buffered** (`worker_stall`). `experiments/one-day.yaml:25-27` promises that
"a genuinely stalled node still fails with an actionable buffered-event count".
The first delivery starts the timer (`worker.py:310`), which then runs while the outbox
is empty: a slow generator is reported as a sender stalled "with 0 buffered
events".

**A torn journal** (`campaign_torn`). `README.md:599` says that re-running the command resumes.
A runner killed while it appends leaves part of a line, and each later start
raises at `runner.py:67-70`.

One more statement of the documentation is wrong in a way no run here is about.
*Two records*: `--resume` is documented as "skip run IDs
already present in results.jsonl" (`runner.py:105`), but that file is read only while
the journal is empty (176-179): once a resumed campaign has written one result to
a new journal, the next start repeats the runs that only `results.jsonl` had
recorded. `Campaign` starts from a directory with neither; `AgreesWithRunner` states the
rule.

Three outcomes have no documentation to disagree with. *A stranded proposal*: a crash or a
database error between `create_proposal` and the last signature (`api.py:138-144`) leaves a proposal that
nothing in the program signs again, neither the next seal nor a restart, and every
later seal is refused; only `POST /blocks/{height}/signatures` with a signature made
elsewhere can complete it. `NoOrphanProposal` says that nothing else strands one. `README.md:211` lists
"Crash recovery for stale proposed blocks" as work still required.

*PASS with a block that is not final*: before its verdict `run()` looks at the events in no
block (`docker_runtime.py:387-390`), which a proposal clears (`store.py:439-443`), and at `/verify`, which
accepts an open proposal at the end of the chain (`ledger.py:390-393`). If the signing of
the last block that the gateway seals by itself fails, the device's request is
answered with 400, repeated, and found to be a duplicate; all devices pass, and the run is
PASS with up to `block_size` events in a block that is not final. `PassIsDelivered` says
that this is all that can be missing. `PAPER.md:13` reports all events of its evaluation as
"delivered and finalized"; PASS does not establish the second.

*An interrupt* inside the `try` block of `run()` leaves `result` unbound, the `finally` block
raises `UnboundLocalError`, and the campaign ends as "failed" with exit code 1
instead of "interrupted" with 130, with its containers left to the next
start (`Interrupt` in `Campaign`).

## 7. Abstractions, and what they leave out

- **Cryptography is ideal.** A block's hash is its header, an event is its
  hash, a signature names its key and what it is over. `AddExternalSignature`
  takes a signature out of `PublishedSignatures`: by any key, over any block that
  exists, also another one.
- **Data** that no property tells apart is left out: payloads, timestamps, key
  ids, policies, log lines. `propose_block` takes the oldest `max_events`
  pending events by an arrival time read before the event's transaction, ties
  broken by hash: any non-empty set of pending events may be the one, so the
  model takes any.
- **Atomicity.** A write method is one SQLite transaction. `accept_event` reads
  the device's key before its transaction, but no statement changes a key, so
  one action is faithful; `sign_block` likewise reads rows that never change.
- **Raises that cannot happen** are not actions; an invariant says why: the
  signing loop cannot run out of signers before the quorum (`NoOrphanProposal`)
  and the outbox cannot refuse an event just signed (`AppendNeverRefuses`). A
  device that is not continuous flushes before each reading or ends, so its
  "buffer is full" error cannot occur: `Waits` is reached only in continuous mode.
- **Crashes** are those of a process, and what was committed or acknowledged survives
  them: a gateway's write transactions run with SQLite's default, full synchronization (`connect`, `store.py:97-110`). Beyond
  that a file of the device may be gone as a whole (`LoseFile`), a line of the journal may be cut
  (`Kill`), and a key file may be empty. `RestoreOlder` in `Device` is nothing that the program does:
  somebody puts the gateway's database back to an older copy or a new one, which is the case that the device's
  check for a gateway behind it is for (`device_node.py:151-154`, `outbox.py:105-111`). The device
  then refuses every synchronization, so `EveryReadingArrives` exempts it.
- **Damage** is one change to one row of a sound database, as in the benchmark, and
  what `verify_all` compares is kept apart: the sequence, payload, signature and
  hash of an event, the header fields of a block. The policy hash is left out: it is
  one more field of the header, which the block's hash covers. Deletion of a
  device's last event together with its checkpoint is a consistent rollback, not a damage of one row.
- **False alarms.** On a busy gateway `verify_all` may report three things about a sound
  database (`OnlyStaleAlarms`): that a non-final block is not the last (the tip is read
  again), and a sequence or hash checkpoint that is ahead (the devices are read
  after the events). The code makes no promise about a busy database.
- **A measurement** in `ClusterControl` is the version of the container it was taken of. A
  request that listed its containers before a control action may fill the cache
  after it; `StaleOnlyIfOutrun` says that this is the only race, and
  `WrongForSecondsOnly` that its effect ends with the cache's life.
- **Docker** is external in `Case`: names are taken or free, a network with endpoints and
  a volume with a container are not removed, a container is created before it is
  started. The runner is itself a container and keeps its attachment to a network
  when it is killed.
- **One clock** in `Campaign` and `Merge`, which does not go back; `completed_at` may be equal.
- **Levels** in `Plan` are numbers, and any shuffle may come out of the generator. The score is
  multiplied by the square of the full factorial, which makes it a number.
- **SHA-256** in `Merkle` is the term it is computed from, with its domain separator.
- **Reads that change nothing** (dashboard, statistics) are not actions.

## 8. What is not modelled, and why

- *API read side, dashboard:* each handler formats what one query returns.
- *Canonical CBOR:* pure, total on what it accepts, and tested value by value; no
  property of the system depends on more than its injectivity.
- *Report statistics and HTML:* arithmetic over the results that `Merge` selects; no
  order of events can change them.
- *Network and log view of cluster control:* they keep no state.
- *Benchmarks* (apart from the damages in `Verifier`), *system tests, recovery report, validation,
  simulator, command line, logging:* sequential scripts that call the components
  above and write files.
- *Deployment:* configuration; its restart policy is a fairness assumption of `Device`.

Several devices and a gateway in one module are not composed: `Device` sees
of the gateway only the chain of one device, and `Ledger` and `Gateway` admit any
order of submissions of any devices, so each already runs against more than the
other can do.
