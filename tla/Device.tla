------------------------------- MODULE Device -------------------------------
(***************************************************************************)
(* One IoT device process (run_device in edgechaindb/device_node.py): it    *)
(* signs readings into a hash chain, keeps them in a durable outbox, and    *)
(* hands them to the gateway whenever it can reach it.                     *)
(*                                                                         *)
(* Two files survive a crash, outbox.json and state.json, each replaced     *)
(* atomically but not together.  The memory of the process is lost.  A      *)
(* request may be lost, may arrive after the device has given it up, and    *)
(* its response may be lost.  The gateway is external to this module: it    *)
(* appends the device's next event, answers a repeated one as a duplicate   *)
(* and refuses any other, as accept_event of Ledger does.                  *)
(*                                                                         *)
(* An event is its event_hash, as in Store.  Device keys, enrolment (the    *)
(* first request of a synchronization, idempotent) and payloads are left    *)
(* out; so are the pauses between two attempts.                            *)
(***************************************************************************)
EXTENDS Naturals, Sequences, SequencesExt

CONSTANTS
  Events,        \* the events the device may ever sign, by event_hash
  SequenceOf,    \* event -> its sequence
  PreviousOf,    \* event -> its previous_event_hash
  ZeroHash,      \* 32 zero bytes
  Limits,        \* the values an operator may give max_buffered_events
  MaxCrashes,    \* bound: crashes of the process
  MaxFaults,     \* bound: requests, responses and file writes that fail
  Lossy          \* bound: one thing is lost at most: of "device", "gateway"

ASSUME DeviceConfig ==
  /\ SequenceOf \in [Events -> Nat \ {0}]
  /\ PreviousOf \in [Events -> Events \cup {ZeroHash}]
  /\ ZeroHash \notin Events
  /\ Limits \subseteq Nat \ {0}
  /\ Lossy \subseteq {"device", "gateway"}
  /\ MaxCrashes \in Nat /\ MaxFaults \in Nat

VARIABLES
  continuous,    \* the --continuous mode
  state_json,    \* the file state.json: a position in the device's chain
  outbox_json,   \* the file outbox.json: a sequence of events
  pc,            \* where the process is; "off" when it does not run
  site,          \* the call of _sync_and_flush it is in: "boot", "top", "event"
  items,         \* DurableOutbox._items
  local_state,   \* the position the process has saved or is about to save
  client,        \* the position of DeviceClient, where the next event goes
  checkpoint,    \* the gateway's position, as this synchronization read it
  limit,         \* max_buffered_events of this process
  posted,        \* events whose POST may still arrive
  received,      \* what the gateway has of this device
  crashes, faults,
  lost           \* what was lost: a file of the "device", events of the "gateway"

files == <<state_json, outbox_json>>
memory == <<site, items, local_state, client, checkpoint, limit>>
gateway == <<posted, received>>
counters == <<crashes, faults, lost>>
deviceVars == <<files, pc, memory, gateway, counters>>
allVars == <<deviceVars, continuous>>

\* A position: the number and the hash of the last event of a chain.
Origin == [sequence |-> 0, previous_event_hash |-> ZeroHash]

PositionOf(e) == [sequence |-> SequenceOf[e], previous_event_hash |-> e]

EndOf(chain) == IF chain = << >> THEN Origin ELSE PositionOf(Last(chain))

ForgetMemory ==
  /\ site' = "boot"
  /\ items' = << >>
  /\ local_state' = Origin
  /\ client' = Origin
  /\ checkpoint' = Origin
  /\ UNCHANGED limit

Init ==
  /\ continuous \in BOOLEAN
  /\ state_json = Origin
  /\ outbox_json = << >>
  /\ pc = "off"
  /\ site = "boot"
  /\ items = << >>
  /\ local_state = Origin
  /\ client = Origin
  /\ checkpoint = Origin
  /\ limit \in Limits
  /\ posted = {}
  /\ received = << >>
  /\ crashes = 0
  /\ faults = 0
  /\ lost = {}

Exit ==
  /\ pc' = "off"
  /\ ForgetMemory

Fault ==
  /\ faults < MaxFaults
  /\ faults' = faults + 1
  /\ UNCHANGED <<crashes, lost>>

----------------------------------------------------------------------------
(* Start, and the three places a synchronization is called from. *)

\* Mutant of Recovered: the outbox is not consulted.
SavedState == state_json

\* Another: the hash is not taken from the outbox.
RecoveredNumber ==
  [state_json EXCEPT !.sequence = IF outbox_json = << >> THEN @
                                  ELSE SequenceOf[Last(outbox_json)]]

\* An event that was buffered but had not reached state.json is recovered
\* from the outbox.
Recovered ==
  IF outbox_json # << >> /\ SequenceOf[Last(outbox_json)] > state_json.sequence
    THEN EndOf(outbox_json)
    ELSE state_json

Contiguous(chain) ==
  \A i \in 2 .. Len(chain) : SequenceOf[chain[i]] = SequenceOf[chain[i - 1]] + 1

Start ==
  /\ pc = "off"
  /\ Contiguous(outbox_json)
  /\ pc' = "connect"
  /\ site' = "boot"
  /\ items' = outbox_json
  /\ local_state' = Recovered
  /\ client' = Recovered
  /\ state_json' = Recovered
  /\ limit' \in Limits
  /\ UNCHANGED <<outbox_json, checkpoint, gateway, counters>>

\* Mutant of Loop: nothing is flushed before the next reading.
LoopWithoutFlush ==
  /\ pc = "loop"
  /\ pc' = "sample"
  /\ UNCHANGED <<files, memory, gateway, counters>>

\* The top of the loop: an outbox that is not empty is flushed first.
Loop ==
  /\ pc = "loop"
  /\ \/ items = << >> /\ pc' = "sample" /\ UNCHANGED site
     \/ items # << >> /\ pc' = "connect" /\ site' = "top"
  /\ UNCHANGED <<files, items, local_state, client, checkpoint, limit, gateway, counters>>

\* SIGTERM, or the number of events asked for has been generated.
Finish ==
  /\ pc = "loop"
  /\ Exit
  /\ UNCHANGED <<files, gateway, counters>>

AfterSync ==
  /\ pc' = IF site = "top" THEN "sample" ELSE "loop"
  /\ site' = "boot"
  /\ checkpoint' = Origin

\* An exception out of _sync_and_flush: a continuous device carries on.
SyncRaises ==
  \/ continuous /\ AfterSync /\ UNCHANGED <<items, local_state, client, limit>>
  \/ ~ continuous /\ Exit

----------------------------------------------------------------------------
(* _sync_and_flush *)

Connect ==
  /\ pc = "connect"
  /\ checkpoint' = EndOf(received)
  /\ pc' = "reconcile"
  /\ UNCHANGED <<files, site, items, local_state, client, limit, gateway, counters>>

\* The health check, the enrolment or the checkpoint request fails.
ConnectFails ==
  /\ pc = "connect"
  /\ Fault
  /\ SyncRaises
  /\ UNCHANGED <<files, gateway>>

\* [event for event in chain if event.sequence > sequence]
Newer(chain, sequence) ==
  LET kept[i \in 0 .. Len(chain)] ==
        IF i = 0 THEN << >>
        ELSE IF SequenceOf[chain[i]] > sequence THEN Append(kept[i - 1], chain[i])
                                                ELSE kept[i - 1]
  IN  kept[Len(chain)]

\* Mutants of After: off by one, and an outbox cleared by any acknowledgement.
From(sequence) == SelectSeq(items, LAMBDA e : SequenceOf[e] >= sequence)

NothingAfter(sequence) == << >>

After(sequence) == Newer(items, sequence)

GatewayAhead == checkpoint.sequence > local_state.sequence

\* reconcile finds a gap, or nothing is left of what the gateway lacks.
OutOfStep(left) ==
  \/ left # << >> /\ SequenceOf[Head(left)] # checkpoint.sequence + 1
  \/ left = << >> /\ local_state.sequence > checkpoint.sequence

Reconcile ==
  LET left == After(checkpoint.sequence)
  IN  /\ pc = "reconcile"
      /\ ~ GatewayAhead
      /\ ~ OutOfStep(left)
      /\ items' = left
      /\ outbox_json' = left
      /\ pc' = IF local_state.sequence = checkpoint.sequence THEN "adopt" ELSE "flush"
      /\ UNCHANGED <<state_json, site, local_state, client, checkpoint, limit,
                     gateway, counters>>

\* DeviceStateError, or OutboxCorruptionError out of reconcile.
ReconcileRaises ==
  LET left == After(checkpoint.sequence)
  IN  /\ pc = "reconcile"
      /\ \/ GatewayAhead /\ SyncRaises /\ UNCHANGED outbox_json
         \/ /\ ~ GatewayAhead
            /\ OutOfStep(left)
            /\ outbox_json' = left
            /\ \/ continuous /\ AfterSync /\ items' = left
                  /\ UNCHANGED <<local_state, client, limit>>
               \/ ~ continuous /\ Exit
      /\ UNCHANGED <<state_json, gateway, counters>>

\* Both know as much: the device takes over the gateway's hash.
Adopt ==
  /\ pc = "adopt"
  /\ local_state' = checkpoint
  /\ state_json' = checkpoint
  /\ client' = checkpoint
  /\ pc' = "flush"
  /\ UNCHANGED <<outbox_json, site, items, checkpoint, limit, gateway, counters>>

\* The next undelivered event is posted, or the synchronization is over.
Flush ==
  /\ pc = "flush"
  /\ \/ /\ items # << >>
        /\ posted' = posted \cup {Head(items)}
        /\ pc' = "await"
        /\ UNCHANGED memory
     \/ /\ items = << >>
        /\ AfterSync
        /\ UNCHANGED <<posted, items, local_state, client, limit>>
  /\ UNCHANGED <<files, received, counters>>

Acceptable(e) ==
  /\ SequenceOf[e] = Len(received) + 1
  /\ PreviousOf[e] = EndOf(received).previous_event_hash

Has(e) == e \in ToSet(received)

\* The gateway handles a request, whether or not the device still waits.
\* One that it refuses changes nothing, so its copies are left where they are.
Arrive(e) ==
  /\ e \in posted
  /\ \/ Has(e) /\ UNCHANGED received
     \/ Acceptable(e) /\ received' = Append(received, e)
  /\ posted' = posted \ {e}
  /\ UNCHANGED <<files, pc, memory, counters>>

\* 202, as accepted or as a duplicate.
Answered ==
  /\ pc = "await"
  /\ Has(Head(items))
  /\ pc' = "acknowledge"
  /\ UNCHANGED <<files, memory, gateway, counters>>

\* 4xx: the gateway refuses the event; or it has accepted it and could not
\* seal the block that was due.
Rejected ==
  /\ pc = "await"
  /\ \/ ~ Has(Head(items)) /\ ~ Acceptable(Head(items)) /\ UNCHANGED counters
     \/ Has(Head(items)) /\ Fault
  /\ SyncRaises
  /\ UNCHANGED <<files, gateway>>

\* No answer, or 5xx: another attempt while there are retries.
Unanswered ==
  /\ pc = "await"
  /\ Fault
  /\ \/ pc' = "flush" /\ UNCHANGED memory
     \/ SyncRaises
  /\ UNCHANGED <<files, gateway>>

\* The request went down with the gateway: no answer will come.
TimedOut ==
  /\ pc = "await"
  /\ Head(items) \notin posted /\ ~ Has(Head(items))
  /\ \/ pc' = "flush" /\ UNCHANGED memory
     \/ SyncRaises
  /\ UNCHANGED <<files, gateway, counters>>

Acknowledge ==
  LET left == After(SequenceOf[Head(items)])
  IN  /\ pc = "acknowledge"
      /\ items' = left
      /\ outbox_json' = left
      /\ pc' = "flush"
      /\ UNCHANGED <<state_json, site, local_state, client, checkpoint, limit,
                     gateway, counters>>

\* A file cannot be written.  During the first synchronization a continuous
\* device swallows the error, with its memory ahead of its files; anywhere
\* else the error ends the process, as a crash does.
WriteFails ==
  /\ site = "boot" /\ continuous
  /\ Fault
  /\ \/ pc = "reconcile" /\ ~ GatewayAhead /\ items' = After(checkpoint.sequence)
        /\ UNCHANGED local_state
     \/ pc = "adopt" /\ local_state' = checkpoint /\ UNCHANGED items
     \/ pc = "acknowledge" /\ items' = After(SequenceOf[Head(items)])
        /\ UNCHANGED local_state
  /\ AfterSync
  /\ UNCHANGED <<files, client, limit, gateway>>

----------------------------------------------------------------------------
(* A reading: signed, buffered, and then the position saved. *)

BufferFull == Len(items) >= limit

\* Only a continuous device samples with events left in its outbox.
Waits ==
  /\ pc = "sample"
  /\ BufferFull
  /\ pc' = "loop"
  /\ UNCHANGED <<files, memory, gateway, counters>>

\* create_event
Signs(e) ==
  /\ SequenceOf[e] = client.sequence + 1
  /\ PreviousOf[e] = client.previous_event_hash

\* Bound: the events of this instance are used up.  Only the loop goes on.
Pause ==
  /\ pc = "sample"
  /\ \A e \in Events : ~ Signs(e)
  /\ pc' = "loop"
  /\ UNCHANGED <<files, memory, gateway, counters>>

\* DurableOutbox.append raises; it never does (AppendNeverRefuses).
AppendRefuses(e) ==
  \/ Len(items) >= limit
  \/ items # << >> /\ SequenceOf[e] # SequenceOf[Last(items)] + 1

Sample(e) ==
  /\ pc = "sample"
  /\ ~ BufferFull
  /\ Signs(e)
  /\ ~ AppendRefuses(e)
  /\ client' = PositionOf(e)
  /\ items' = Append(items, e)
  /\ outbox_json' = Append(items, e)
  /\ pc' = "save"
  /\ UNCHANGED <<state_json, site, local_state, checkpoint, limit, gateway, counters>>

Save ==
  /\ pc = "save"
  /\ local_state' = client
  /\ state_json' = client
  /\ pc' = "connect"
  /\ site' = "event"
  /\ UNCHANGED <<outbox_json, items, client, checkpoint, limit, gateway, counters>>

----------------------------------------------------------------------------
\* The process is killed, or ends on an error of a file write.
Crash ==
  /\ pc # "off"
  /\ crashes < MaxCrashes
  /\ crashes' = crashes + 1
  /\ Exit
  /\ UNCHANGED <<files, gateway, faults, lost>>

\* A file is gone at the next start, whoever removed it: the boundary that
\* benchmarks/resilience_boundaries.py puts a device at.
LoseFile ==
  /\ pc = "off"
  /\ "device" \in Lossy /\ lost = {}
  /\ lost' = {"device"}
  /\ \/ state_json' = Origin /\ UNCHANGED outbox_json
     \/ outbox_json' = << >> /\ UNCHANGED state_json
  /\ UNCHANGED <<pc, memory, gateway, crashes, faults>>

\* The gateway's volume is put back to an older copy, or is a new one: the
\* last events it has acknowledged are gone.  Nothing in the program does
\* this, but it is what the device's check for a gateway that is behind it
\* is there for.
RestoreOlder ==
  /\ "gateway" \in Lossy /\ lost = {}
  /\ lost' = {"gateway"}
  /\ \E n \in 0 .. Len(received) - 1 : received' = SubSeq(received, 1, n)
  /\ UNCHANGED <<files, pc, memory, posted, crashes, faults>>

ProcessStep ==
  \/ Loop
  \/ Connect
  \/ Reconcile
  \/ ReconcileRaises
  \/ Adopt
  \/ Flush
  \/ Answered
  \/ Rejected
  \/ TimedOut
  \/ Acknowledge
  \/ Waits
  \/ \E e \in Events : Sample(e)
  \/ Pause
  \/ Save

Step ==
  \/ Start
  \/ ProcessStep
  \/ Finish
  \/ \E e \in Events : Arrive(e)
  \/ ConnectFails
  \/ Unanswered
  \/ WriteFails
  \/ Crash
  \/ LoseFile
  \/ RestoreOlder

Next == Step /\ UNCHANGED continuous

Spec == Init /\ [][Next]_allVars

----------------------------------------------------------------------------
(* Properties *)

Positions == [sequence : Nat, previous_event_hash : Events \cup {ZeroHash}]

TypeOK ==
  /\ continuous \in BOOLEAN
  /\ state_json \in Positions
  /\ outbox_json \in Seq(Events)
  /\ pc \in {"off", "connect", "reconcile", "adopt", "flush", "await", "acknowledge",
             "loop", "sample", "save"}
  /\ site \in {"boot", "top", "event"}
  /\ items \in Seq(Events)
  /\ local_state \in Positions
  /\ client \in Positions
  /\ checkpoint \in Positions
  /\ limit \in Limits
  /\ posted \subseteq Events
  /\ received \in Seq(Events)
  /\ crashes \in 0 .. MaxCrashes /\ faults \in 0 .. MaxFaults /\ lost \subseteq Lossy

\* What outbox.json holds and the gateway does not have.
Undelivered == Newer(outbox_json, Len(received))

Produced == received \o Undelivered

Promise == INSTANCE Stream WITH produced <- Produced, delivered <- received

\* What the gateway has, followed by what it lacks of the outbox file, is
\* one chain that only grows: no crash, retry or late request loses, repeats,
\* reorders or forks a reading that was buffered (README, "Durable offline
\* operation").  A loss of what was stored ends the promise.
ImplementsStream ==
  Promise!Init /\ [][lost' = {} => Promise!Next \/ UNCHANGED <<Produced, received>>]_allVars

\* Wherever the process dies, the two files together lead the next one to
\* the end of everything that may have been seen outside, so that it cannot
\* sign a second event with a number it has used (device_node.py:232-239).
ResumesAtTheEnd ==
  lost = {} => Contiguous(outbox_json) /\ Recovered = EndOf(Produced)

\* The device and the gateway never fall out of step: no synchronization
\* finds the gateway ahead, a gap between its checkpoint and the outbox, or
\* an empty outbox with events missing (the errors of _sync_and_flush and
\* reconcile, after which only an operator can help).
NeverOutOfStep ==
  lost = {} /\ pc = "reconcile" => ~ GatewayAhead /\ ~ OutOfStep(After(checkpoint.sequence))

\* A request, however late, is the next event of the chain or one the
\* gateway has already: it is never refused (submit_with_retry gives up a
\* refused event at once).
NeverRefused == lost = {} => \A e \in posted : Has(e) \/ Acceptable(e)

\* The event create_event has just signed always continues the outbox and
\* fits in it: the append cannot raise after the client has moved on to the
\* next number, whatever was lost (device_node.py:307, outbox.py:86).
AppendNeverRefuses ==
  pc = "sample" /\ ~ BufferFull => \A e \in Events : Signs(e) => ~ AppendRefuses(e)

\* None of the errors that only an operator can clear is ever met: the
\* device and the gateway stay in step, whatever fails, crashes or is late,
\* as long as nothing that was stored is lost (device_node.py:144-160, 307).
DeviceInv == TypeOK /\ NeverOutOfStep /\ NeverRefused /\ AppendNeverRefuses

\* The position a device takes over from the gateway is the one it has: it
\* is never re-anchored at an event it does not know ("deliberately rejected
\* rather than silently re-anchored", resilience_boundaries.py:222).
NeverReanchored == pc = "adopt" => checkpoint = local_state

\* It is, but in one case: a continuous device that has lost a file, whose
\* loop swallows the refusal.  A device that is not continuous stops, and a
\* gateway that has lost events re-anchors nobody (device_node.py:144-160,
\* 271-278).  At most one of the two is lost here.
ReanchorsOnlyInTheLoop == (continuous /\ "device" \in lost) \/ NeverReanchored

\* No event is signed with a number that another event bears which may have
\* been seen outside: in the outbox, on its way, or at the gateway.  This is
\* what keeps a device's chain from forking, and it does not depend on the
\* gateway: one that has forgotten what it acknowledged does not make the
\* device go back (device_node.py:144-160, 232-239).
NumbersUsedOnce ==
  pc = "sample" /\ "device" \notin lost =>
    \A e \in posted \cup ToSet(received) \cup ToSet(outbox_json) :
      SequenceOf[e] <= client.sequence

\* A reading that has been buffered arrives, although the process is killed
\* and requests fail.  Fairness: the container is restarted (restart:
\* unless-stopped), the process runs, a request that is waited for is
\* handled, and only finitely many fail.
FairDevice ==
  /\ WF_deviceVars(Start)
  /\ WF_deviceVars(ProcessStep)
  /\ WF_deviceVars(pc = "await" /\ Arrive(Head(items)))

FairSpec == Spec /\ FairDevice

EveryReadingArrives ==
  \A e \in Events :
    continuous /\ e \in ToSet(outbox_json) ~> Has(e) \/ lost # {}
=============================================================================
