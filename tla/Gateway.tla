------------------------------- MODULE Gateway ------------------------------
(***************************************************************************)
(* One gateway process (create_app in edgechaindb/api.py): the request      *)
(* handlers that a pool of threads runs over one EdgeChainLedger, the       *)
(* seal_lock that serializes sealing, and the process's crashes and         *)
(* restarts.                                                               *)
(*                                                                         *)
(* Every call into the ledger is an action of Ledger, with the threads as   *)
(* its callers; what is added is which thread may make it, and when.        *)
(***************************************************************************)
EXTENDS Ledger, Sequences

CONSTANTS
  Node,          \* the gateway's own authority, authority_keys[0]
  LocalSigners,  \* authority_keys[1:], in the order the signing loop uses them
  KeyOf,         \* local authority -> its key
  BatchSize,     \* batch_size
  Nobody,        \* holder of a free lock
  MaxCrashes,    \* bound: crashes of the process
  MaxFaults      \* bound: database errors raised into a handler

ASSUME GatewayConfig ==
  /\ Node \in Authorities
  /\ LocalSigners \in Seq(Authorities \ {Node})
  /\ \A i, j \in 1 .. Len(LocalSigners) : LocalSigners[i] = LocalSigners[j] => i = j
  /\ KeyOf \in [Authorities -> Keys]
  /\ \A a \in Authorities : KeyOf[a] \in AuthorityKeys[a]
  /\ NodeOf = [t \in Callers |-> Node]
  /\ NodeKeyOf = [t \in Callers |-> KeyOf[Node]]
  /\ \A t \in Callers : QuorumOf[t] <= Len(LocalSigners) + 1
  /\ BatchSize \in Nat \ {0}
  /\ Nobody \notin Callers
  /\ MaxCrashes \in Nat /\ MaxFaults \in Nat

VARIABLES
  up,            \* the application is serving requests
  stage,         \* thread -> where its handler is
  seal_lock,     \* the thread that holds app.state.seal_lock, or Nobody
  round,         \* the signing loop of the holder: block height, next signer
  crashes,       \* crashes so far, at most MaxCrashes
  faults         \* database errors so far, at most MaxFaults

control == <<up, stage, seal_lock, round>>
counters == <<crashes, faults>>
gatewayVars == <<devices, authorities, events, blocks, pc, draft,
                 up, stage, seal_lock, round, crashes, faults>>

NoRound == [height |-> 0, next |-> 0]

GatewayInit ==
  /\ Init
  /\ up = FALSE
  /\ stage = [t \in Callers |-> "idle"]
  /\ seal_lock = Nobody
  /\ round = NoRound
  /\ crashes = 0
  /\ faults = 0

----------------------------------------------------------------------------
(* Startup: the node and the local signers are registered one after the     *)
(* other, each in a transaction of its own, before any request is served.   *)

StartupAuthorities == {Node} \cup {LocalSigners[i] : i \in DOMAIN LocalSigners}

Startup(a) ==
  /\ ~ up
  /\ RegisterAuthority(a, KeyOf[a])
  /\ UNCHANGED <<pc, draft, control, counters>>

Serve ==
  /\ ~ up
  /\ StartupAuthorities \subseteq DOMAIN authorities
  /\ up' = TRUE
  /\ UNCHANGED <<vars, stage, seal_lock, round, counters>>

----------------------------------------------------------------------------
(* Moves of a thread's handler. *)

At(t, s) == up /\ stage[t] = s

Goto(t, s) == stage' = [stage EXCEPT ![t] = s] /\ UNCHANGED <<up, seal_lock, round>>

\* The handler returns or raises: the with-block releases the lock.
Respond(t) ==
  /\ stage' = [stage EXCEPT ![t] = "idle"]
  /\ seal_lock' = IF seal_lock = t THEN Nobody ELSE seal_lock
  /\ round' = IF seal_lock = t THEN NoRound ELSE round
  /\ UNCHANGED up

\* POST /devices
Enroll(d) ==
  /\ up
  /\ EnrollDevice(d)
  /\ UNCHANGED <<control, counters>>

----------------------------------------------------------------------------
(* POST /events *)

\* Mutant of Duplicate: INSERT OR REPLACE makes the event pending again.
DuplicateReplaces(e) ==
  /\ e \in DOMAIN events
  /\ SignedByDevice(e)
  /\ events' = WithRow(events, e, [block_height |-> 0, finalized |-> FALSE])
  /\ UNCHANGED <<devices, authorities, blocks, pc, draft>>

Duplicate(e) ==
  /\ e \in DOMAIN events
  /\ SignedByDevice(e)
  /\ UNCHANGED vars

\* accept_event; a submission it refuses changes nothing and is not a step.
Submit(t, e) ==
  /\ At(t, "idle")
  /\ AcceptEvent(e) \/ Duplicate(e)
  /\ Goto(t, "count")
  /\ UNCHANGED counters

\* Mutant of FullBatch: off by one.
MoreThanABatch == Cardinality(Pending) > BatchSize

FullBatch == Cardinality(Pending) >= BatchSize

\* The first look at pending_count, without the lock.
CountPending(t) ==
  /\ At(t, "count")
  /\ \/ FullBatch /\ Goto(t, "lock")
     \/ ~ FullBatch /\ Respond(t)
  /\ UNCHANGED <<vars, counters>>

SealLockFree == seal_lock = Nobody

Lock(t) ==
  /\ SealLockFree
  /\ \/ At(t, "lock") /\ stage' = [stage EXCEPT ![t] = "recheck"]
     \/ At(t, "manual") /\ stage' = [stage EXCEPT ![t] = "propose"]
  /\ seal_lock' = t
  /\ UNCHANGED <<vars, up, round, counters>>

\* The second look, under the lock, and the look for an open proposal.
RecheckPending(t) ==
  /\ At(t, "recheck")
  /\ \/ FullBatch /\ Goto(t, "open")
     \/ ~ FullBatch /\ Respond(t)
  /\ UNCHANGED <<vars, counters>>

RecheckOpen(t) ==
  /\ At(t, "open")
  /\ \/ OpenHeights = {} /\ Goto(t, "autopropose")
     \/ OpenHeights # {} /\ Respond(t)
  /\ UNCHANGED <<vars, counters>>

\* Mutant of RequestSeal: a manual seal takes no lock.
RequestUnlockedSeal(t) ==
  /\ At(t, "idle")
  /\ Goto(t, "propose")
  /\ UNCHANGED <<vars, counters>>

\* POST /blocks/seal
RequestSeal(t) ==
  /\ At(t, "idle")
  /\ Goto(t, "manual")
  /\ UNCHANGED <<vars, counters>>

----------------------------------------------------------------------------
(* propose_and_finalize: propose_block, then the local signers in turn      *)
(* until one signature finalizes the block.                                *)

Proposing(t) == At(t, "propose") \/ At(t, "autopropose")

\* An automatic seal asks for batch_size events, a manual one for any number.
WithinLimit(t) ==
  stage[t] = "autopropose" => Cardinality(draft'[t].event_hashes) = BatchSize

ProposeStep(t) ==
  /\ Proposing(t)
  /\ \/ CheckNoOpenBlock(t)
     \/ TakeSnapshot(t)
     \/ SelectPending(t) /\ WithinLimit(t)
     \/ LinkToPrevious(t)
     \/ Propose(t)
  /\ UNCHANGED <<control, counters>>

\* Mutant of ProposeRaises: acquire and release without a try block.
RaisesUnderLock(t) ==
  /\ Proposing(t)
  /\ \/ Raise(t)
     \/ pc[t] = "idle" /\ OpenHeights # {} /\ UNCHANGED vars
  /\ Goto(t, "idle")
  /\ UNCHANGED counters

ProposeRaises(t) ==
  /\ Proposing(t)
  /\ \/ Raise(t)
     \/ pc[t] = "idle" /\ OpenHeights # {} /\ UNCHANGED vars
  /\ Respond(t)
  /\ UNCHANGED counters

\* The status that insert_block_signature returns.
ReturnsFinal(h) == blocks'[h].status = "finalized"

OwnSignature(t) ==
  /\ Proposing(t)
  /\ SignOwn(t)
  /\ LET h == draft[t].height
     IN  \/ ReturnsFinal(h) /\ Respond(t)
         \/ /\ ~ ReturnsFinal(h)
            /\ stage' = [stage EXCEPT ![t] = "signing"]
            /\ round' = [height |-> h, next |-> 1]
            /\ UNCHANGED <<up, seal_lock>>
  /\ UNCHANGED counters

\* Mutant of SignersLeft: the loop leaves out the last signer.
AnotherSigner == round.next < Len(LocalSigners)

SignersLeft == round.next <= Len(LocalSigners)

\* A signer that an external signature has anticipated changes nothing.
AlreadySigned(h, a) ==
  /\ a \in DOMAIN Members(h)
  /\ a \in DOMAIN blocks[h].signatures
  /\ UNCHANGED vars

\* The loop cannot run out of signers (NoOrphanProposal): create_app asks
\* for no more signatures than there are local authorities, and registers
\* them all before it serves.
NextSignature(t) ==
  LET h == round.height
      a == LocalSigners[round.next]
  IN  /\ At(t, "signing")
      /\ SignersLeft
      /\ SignBlock(h, a, KeyOf[a]) \/ AlreadySigned(h, a)
      /\ \/ ReturnsFinal(h) /\ Respond(t)
         \/ /\ ~ ReturnsFinal(h)
            /\ round' = [round EXCEPT !.next = @ + 1]
            /\ UNCHANGED <<up, stage, seal_lock>>
      /\ UNCHANGED counters

\* POST /blocks/{height}/signatures, which takes no lock.
ExternalSignature(h, a) ==
  /\ up
  /\ AddExternalSignature(h, a, Signature(KeyOf[a], BlockHash(blocks[h].header)))
  /\ UNCHANGED <<control, counters>>

----------------------------------------------------------------------------
(* Failures. *)

\* SQLite raises into the handler (a lock it waited too long for, a full
\* disk) at any visit to the database: what was committed stays, the rest of
\* the handler does not run, and the client is answered with an error.
Fault(t) ==
  /\ up
  /\ stage[t] \notin {"idle", "manual", "lock"}
  /\ faults < MaxFaults
  /\ faults' = faults + 1
  /\ Abandon(t) \/ (pc[t] = "idle" /\ UNCHANGED vars)
  /\ Respond(t)
  /\ UNCHANGED crashes

\* The process dies and is started again later; only the tables survive.
Crash ==
  /\ crashes < MaxCrashes
  /\ crashes' = crashes + 1
  /\ up' = FALSE
  /\ stage' = [t \in Callers |-> "idle"]
  /\ seal_lock' = Nobody
  /\ round' = NoRound
  /\ pc' = [t \in Callers |-> "idle"]
  /\ draft' = [t \in Callers |-> EmptyDraft]
  /\ UNCHANGED <<tables, faults>>

----------------------------------------------------------------------------
HandlerStep(t) ==
  \/ CountPending(t)
  \/ Lock(t)
  \/ RecheckPending(t)
  \/ RecheckOpen(t)
  \/ ProposeStep(t)
  \/ ProposeRaises(t)
  \/ OwnSignature(t)
  \/ NextSignature(t)

GatewayNext ==
  \/ \E a \in StartupAuthorities : Startup(a)
  \/ Serve
  \/ \E d \in Devices : Enroll(d)
  \/ \E t \in Callers, e \in Events : Submit(t, e)
  \/ \E t \in Callers : RequestSeal(t)
  \/ \E t \in Callers : HandlerStep(t)
  \/ \E h \in DOMAIN blocks, a \in Authorities : ExternalSignature(h, a)
  \/ \E t \in Callers : Fault(t)
  \/ Crash

GatewaySpec == GatewayInit /\ [][GatewayNext]_gatewayVars

----------------------------------------------------------------------------
(* Properties *)

\* Every step of every handler, and every crash, is one step of Ledger or
\* none: what holds of a ledger used without any lock holds of the gateway.
ImplementsLedger == Spec

Interrupted == crashes + faults > 0

\* seal_lock makes propose_block, five visits to the database, as good as
\* atomic: what a handler has read when it writes its proposal is still so,
\* whatever is submitted, signed from outside or restarted meanwhile, and no
\* seal is refused as stale (api.py:308, api.py:333).
SealIsNeverStale == \A t \in Callers : pc[t] = "create" => Proposable(Header(t))

\* The inductive invariant behind it: the stages from the second look at the
\* backlog on belong to the holder of the lock, propose_block runs in two of
\* them, and a draft that is not empty is one of a call in progress ...
Stages ==
  {"idle", "count", "lock", "manual", "recheck", "open", "autopropose", "propose",
   "signing"}

UnderLock == {"recheck", "open", "autopropose", "propose", "signing"}

LockInv ==
  /\ stage \in [Callers -> Stages]
  /\ seal_lock \in Callers \cup {Nobody}
  /\ round \in [height : Nat, next : Nat]
  /\ \A t \in Callers :
        /\ stage[t] \in UnderLock => seal_lock = t
        /\ stage[t] = "signing" => round.next > 0
        /\ pc[t] # "idle" => stage[t] \in {"autopropose", "propose"}
        /\ pc[t] = "idle" => draft[t] = EmptyDraft

\* ... and what a call in progress has read is still true.
DraftTrue(t) ==
  /\ pc[t] \in {"snapshot", "select", "link", "create"} => OpenHeights = {}
  /\ pc[t] \in {"link", "create"} => draft[t].event_hashes \subseteq Pending
  /\ pc[t] = "create" => draft[t].height = NextHeight

GatewayInv ==
  /\ LedgerInv
  /\ LockInv
  /\ \A t \in Callers : DraftTrue(t)

\* As long as nothing was interrupted a proposal is in the hands of the
\* thread that will finalize it; only a crash or a database error between
\* create_proposal and the last signature strands one, and then no block can
\* follow it (api.py:132-145).
NoOrphanProposal ==
  OpenHeights # {} =>
     \/ Interrupted
     \/ \E t \in Callers : pc[t] = "sign" \/ (stage[t] = "signing" /\ SignersLeft)

\* Threads that have accepted an event and still owe the look at the backlog.
Owing ==
  {t \in Callers : stage[t] \in {"count", "lock", "recheck", "open", "autopropose"}}

\* The look at pending_count before the lock and the one under it lose no
\* batch: unless something was interrupted, the backlog exceeds a batch by
\* no more than the submissions still in progress (api.py:308-313).
BacklogBounded ==
  Interrupted \/ Cardinality(Pending) <= BatchSize - 1 + Cardinality(Owing)

\* Fairness: the thread pool runs every handler that can go on.  Nothing is
\* asked of clients, of signers outside, or of whoever starts the process.
FairHandlers == \A t \in Callers : WF_gatewayVars(HandlerStep(t))

FairGatewaySpec == GatewaySpec /\ FairHandlers

\* A handler that waits for the lock or works under it comes to an end, so
\* a full batch is sealed, unless a crash or a database error took away the
\* handler that owed it (api.py:308-313).
FullBatchIsSealed == FullBatch ~> ~ FullBatch \/ Interrupted

\* Whatever a handler meets under seal_lock, it lets go of it: a stranded
\* proposal, which makes every later seal raise, a backlog that was sealed
\* in between, an error of the database, a signature from outside that
\* finalizes the block it is signing.  No seal may succeed any more, but
\* requests go on being answered (api.py:309, api.py:333).
LockIsReleased == []<>(seal_lock = Nobody)
=============================================================================
