---------------------------- MODULE GatewayProofs --------------------------
(***************************************************************************)
(* A gateway process implements the ledger it is built on, under seal_lock  *)
(* no proposal is stale, and while nothing is interrupted none is stranded  *)
(* and no full batch left behind, for all values of the constants.          *)
(*                                                                         *)
(* A crash ends the calls of all threads at once, which is one step of      *)
(* Ledger only because the lock lets at most one be in propose_block: the   *)
(* refinement needs the invariant, and the invariant of the ledger follows  *)
(* from the refinement one step at a time.                                  *)
(***************************************************************************)
EXTENDS Gateway, LedgerProofs, SequenceTheorems

\* Before the first start nobody holds the lock and nothing has been read.
LEMMA GatewayInitInv == GatewayInit => GatewayInv
<1> SUFFICES ASSUME GatewayInit PROVE GatewayInv
  OBVIOUS
<1>1. LedgerInv
  BY InitInv DEF GatewayInit
<1>2. LockInv
  BY DEF GatewayInit, Init, LockInv, NoRound, Stages, UnderLock
<1>3. \A t \in Callers : DraftTrue(t)
  BY DEF GatewayInit, Init, DraftTrue
<1> QED BY <1>1, <1>2, <1>3 DEF GatewayInv

----------------------------------------------------------------------------
(* Every step of the gateway is one of the ledger. *)

\* A crash gives up the one call of propose_block that is in progress.
LEMMA CrashRefines ==
  ASSUME GatewayInv, Crash
  PROVE  [Next]_vars
<1>1. /\ pc = [t \in Callers |-> pc[t]] /\ draft = [t \in Callers |-> draft[t]]
  BY DEF GatewayInv, LedgerInv, CallersTypeOK
<1>2. /\ pc' = [t \in Callers |-> "idle"]
      /\ draft' = [t \in Callers |-> EmptyDraft]
      /\ UNCHANGED tables
  BY DEF Crash
<1>3. CASE \A t \in Callers : pc[t] = "idle"
  <2>1. pc' = pc /\ draft' = draft
    BY <1>1, <1>2, <1>3 DEF GatewayInv, LockInv
  <2> QED BY <1>2, <2>1 DEF vars, tables
<1>4. ASSUME NEW t \in Callers, pc[t] # "idle"
      PROVE  Abandon(t)
  <2>1. \A u \in Callers \ {t} : pc[u] = "idle" /\ draft[u] = EmptyDraft
    BY <1>4 DEF GatewayInv, LockInv, UnderLock
  <2>2. pc' = [pc EXCEPT ![t] = "idle"] /\ draft' = [draft EXCEPT ![t] = EmptyDraft]
    BY <1>1, <1>2, <2>1
  <2> QED BY <1>2, <1>4, <2>2 DEF Abandon, Return
<1> QED BY <1>3, <1>4 DEF Next

\* The signing loop and the signatures from outside are those of the ledger.
LEMMA SignaturesRefine ==
  ASSUME GatewayInv,
         \/ \E t \in Callers : NextSignature(t)
         \/ \E h \in DOMAIN blocks, a \in Authorities : ExternalSignature(h, a)
  PROVE  [Next]_vars
<1>1. ASSUME NEW t \in Callers, NextSignature(t)
      PROVE  [Next]_vars
  <2> DEFINE h == round.height
             a == LocalSigners[round.next]
  <2>1. round.next \in 1 .. Len(LocalSigners)
    BY <1>1, GatewayConfig DEF NextSignature, At, SignersLeft, GatewayInv, LockInv
  <2>2. a \in Authorities /\ KeyOf[a] \in Keys
    BY <2>1, GatewayConfig
  <2>3. CASE SignBlock(h, a, KeyOf[a])
    BY <2>2, <2>3 DEF SignBlock, InsertBlockSignature, Next
  <2>4. CASE AlreadySigned(h, a)
    BY <2>4 DEF AlreadySigned
  <2> QED BY <1>1, <2>3, <2>4 DEF NextSignature
<1>2. ASSUME NEW h \in DOMAIN blocks, NEW a \in Authorities, ExternalSignature(h, a)
      PROVE  [Next]_vars
  <2>1. Signature(KeyOf[a], BlockHash(blocks[h].header)) \in PublishedSignatures
    BY GatewayConfig DEF PublishedSignatures
  <2> QED BY <1>2, <2>1 DEF ExternalSignature, Next
<1> QED BY <1>1, <1>2

\* Every step of the gateway is one step of the ledger, or none.
LEMMA GatewayStepRefines ==
  ASSUME GatewayInv, [GatewayNext]_gatewayVars
  PROVE  [Next]_vars
<1>1. CASE UNCHANGED gatewayVars
  BY <1>1 DEF gatewayVars, vars
<1>2. ASSUME NEW a \in StartupAuthorities, Startup(a)
      PROVE  [Next]_vars
  <2>1. a \in Authorities /\ KeyOf[a] \in AuthorityKeys[a]
    BY GatewayConfig DEF StartupAuthorities
  <2> QED BY <1>2, <2>1 DEF Startup, EnrollAuthority, Next
<1>3. CASE Serve
  BY <1>3 DEF Serve
<1>4. CASE \E d \in Devices : Enroll(d)
  BY <1>4 DEF Enroll, Next
<1>5. CASE \E t \in Callers, e \in Events : Submit(t, e)
  BY <1>5 DEF Submit, Duplicate, Next
<1>6. CASE \E t \in Callers : RequestSeal(t)
  BY <1>6 DEF RequestSeal
<1>7. ASSUME NEW t \in Callers, HandlerStep(t)
      PROVE  [Next]_vars
  <2>1. CASE CountPending(t) \/ Lock(t) \/ RecheckPending(t) \/ RecheckOpen(t)
    BY <2>1 DEF CountPending, Lock, RecheckPending, RecheckOpen
  <2>2. CASE ProposeStep(t)
    BY <2>2 DEF ProposeStep, CallerStep, Next
  <2>3. CASE ProposeRaises(t)
    BY <2>3 DEF ProposeRaises, CallerStep, Next
  <2>4. CASE OwnSignature(t)
    BY <2>4 DEF OwnSignature, CallerStep, Next
  <2>5. CASE NextSignature(t)
    BY <2>5, SignaturesRefine
  <2> QED BY <1>7, <2>1, <2>2, <2>3, <2>4, <2>5 DEF HandlerStep
<1>8. CASE \E h \in DOMAIN blocks, a \in Authorities : ExternalSignature(h, a)
  BY <1>8, SignaturesRefine
<1>9. CASE \E t \in Callers : Fault(t)
  BY <1>9 DEF Fault, Next
<1>10. CASE Crash
  BY <1>10, CrashRefines
<1> QED
  BY <1>1, <1>2, <1>3, <1>4, <1>5, <1>6, <1>7, <1>8, <1>9, <1>10 DEF GatewayNext

----------------------------------------------------------------------------
(* The lock. *)

\* A thread that moves by the rules of the lock keeps the invariant of it.
LEMMA ThreadMoves ==
  ASSUME GatewayInv, NEW t \in Callers, NEW s \in Stages,
         stage' = [stage EXCEPT ![t] = s],
         \A u \in Callers \ {t} : pc'[u] = pc[u] /\ draft'[u] = draft[u],
         \/ seal_lock' = seal_lock
         \/ seal_lock = Nobody /\ seal_lock' = t
         \/ seal_lock = t /\ seal_lock' = Nobody,
         round' = round \/ (seal_lock = t /\ round' \in [height : Nat, next : Nat]),
         s \in UnderLock => seal_lock' = t,
         s = "signing" => round'.next > 0,
         pc'[t] # "idle" => s \in {"autopropose", "propose"},
         pc'[t] = "idle" => draft'[t] = EmptyDraft
  PROVE  LockInv'
<1> USE DEF GatewayInv, LockInv
<1>1. /\ stage' \in [Callers -> Stages]
      /\ seal_lock' \in Callers \cup {Nobody}
      /\ round' \in [height : Nat, next : Nat]
  OBVIOUS
<1>2. ASSUME NEW u \in Callers, u # t
      PROVE  /\ stage'[u] = stage[u] /\ pc'[u] = pc[u] /\ draft'[u] = draft[u]
             /\ stage[u] \in UnderLock => seal_lock' = u
             /\ stage[u] = "signing" => round'.next > 0
  BY <1>2, GatewayConfig DEF UnderLock
<1>3. stage'[t] = s
  OBVIOUS
<1> QED BY <1>1, <1>2, <1>3

\* A handler that ends releases the lock if it holds it.
LEMMA HandlerEnds ==
  ASSUME GatewayInv, NEW t \in Callers, Respond(t),
         \A u \in Callers \ {t} : pc'[u] = pc[u] /\ draft'[u] = draft[u],
         pc'[t] = "idle", draft'[t] = EmptyDraft
  PROVE  LockInv'
<1>1. "idle" \in Stages /\ "idle" \notin UnderLock
  BY DEF Stages, UnderLock
<1>2. NoRound \in [height : Nat, next : Nat]
  BY DEF NoRound
<1>3. \/ seal_lock' = seal_lock
      \/ seal_lock = t /\ seal_lock' = Nobody
  BY DEF Respond
<1>4. round' = round \/ (seal_lock = t /\ round' \in [height : Nat, next : Nat])
  BY <1>2 DEF Respond
<1>5. stage' = [stage EXCEPT ![t] = "idle"]
  BY DEF Respond
<1> QED BY <1>1, <1>3, <1>4, <1>5, ThreadMoves

\* One step of a call is one of its own caller.
LEMMA CallerMoves ==
  ASSUME GatewayInv, NEW t \in Callers, CallerStep(t) \/ Abandon(t)
  PROVE  /\ \A u \in Callers \ {t} : pc'[u] = pc[u] /\ draft'[u] = draft[u]
         /\ pc'[t] = "idle" => draft'[t] = EmptyDraft
         /\ SignOwn(t) \/ Raise(t) \/ Abandon(t) => pc'[t] = "idle"
<1>1. /\ pc = [u \in Callers |-> pc[u]] /\ draft = [u \in Callers |-> draft[u]]
  BY DEF GatewayInv, LedgerInv, CallersTypeOK
<1>2. CASE CheckNoOpenBlock(t)
  BY <1>1, <1>2 DEF CheckNoOpenBlock, SignOwn, Raise, Refused, Abandon, Return
<1>3. CASE TakeSnapshot(t)
  BY <1>1, <1>3 DEF TakeSnapshot, SignOwn, Raise, Abandon, Return
<1>4. CASE SelectPending(t)
  BY <1>1, <1>4 DEF SelectPending, SignOwn, Raise, Abandon, Return
<1>5. CASE LinkToPrevious(t)
  BY <1>1, <1>5 DEF LinkToPrevious, SignOwn, Raise, Abandon, Return
<1>6. CASE Propose(t)
  BY <1>1, <1>6 DEF Propose, SignOwn, Raise, Abandon, Return
<1>7. CASE SignOwn(t) \/ Raise(t) \/ Abandon(t)
  BY <1>1, <1>7 DEF SignOwn, Raise, Abandon, Return
<1> QED BY <1>2, <1>3, <1>4, <1>5, <1>6, <1>7 DEF CallerStep

\* No step of a thread, a signer or a crash breaks the rules of the lock.
LEMMA LockStep ==
  ASSUME GatewayInv, [GatewayNext]_gatewayVars
  PROVE  LockInv'
<1>1. ASSUME UNCHANGED <<pc, draft, stage, seal_lock, round>>
      PROVE  LockInv'
  BY <1>1 DEF GatewayInv, LockInv
<1>2. CASE UNCHANGED gatewayVars
  BY <1>1, <1>2 DEF gatewayVars
<1>3. CASE \/ \E a \in StartupAuthorities : Startup(a)
           \/ Serve
           \/ \E d \in Devices : Enroll(d)
           \/ \E h \in DOMAIN blocks, a \in Authorities : ExternalSignature(h, a)
  BY <1>1, <1>3 DEF Startup, Serve, Enroll, EnrollDevice, ExternalSignature,
                    AddExternalSignature, control, vars
<1>4. ASSUME NEW t \in Callers, NEW s \in Stages \ UnderLock,
             At(t, "idle") \/ At(t, "count"), Goto(t, s), UNCHANGED <<pc, draft>>
      PROVE  LockInv'
  <2>1. pc[t] = "idle" /\ draft[t] = EmptyDraft
    BY <1>4 DEF At, GatewayInv, LockInv
  <2>2. s # "signing"
    BY DEF UnderLock
  <2> QED BY <1>4, <2>1, <2>2, ThreadMoves DEF Goto
<1>5. CASE \/ \E t \in Callers, e \in Events : Submit(t, e)
           \/ \E t \in Callers : RequestSeal(t)
  <2>1. {"count", "manual"} \subseteq Stages \ UnderLock
    BY DEF Stages, UnderLock
  <2> QED BY <1>4, <1>5, <2>1 DEF Submit, AcceptEvent, Duplicate, RequestSeal, vars
<1>6. ASSUME NEW t \in Callers, HandlerStep(t)
      PROVE  LockInv'
  <2>1. ASSUME pc[t] = "idle", UNCHANGED <<pc, draft>>, Respond(t)
        PROVE  LockInv'
    BY <2>1, HandlerEnds DEF GatewayInv, LockInv
  <2>2. CASE CountPending(t)
    <3>1. pc[t] = "idle" /\ UNCHANGED <<pc, draft>>
      BY <2>2 DEF CountPending, At, vars, GatewayInv, LockInv
    <3>2. "lock" \in Stages \ UnderLock
      BY DEF Stages, UnderLock
    <3> QED BY <1>4, <2>1, <2>2, <3>1, <3>2 DEF CountPending
  <2>3. CASE Lock(t)
    <3>1. /\ pc[t] = "idle" /\ draft[t] = EmptyDraft /\ UNCHANGED <<pc, draft>>
          /\ seal_lock = Nobody /\ seal_lock' = t /\ round' = round
      BY <2>3 DEF Lock, SealLockFree, At, vars, GatewayInv, LockInv
    <3>2. \E s \in {"recheck", "propose"} : stage' = [stage EXCEPT ![t] = s]
      BY <2>3 DEF Lock
    <3>3. {"recheck", "propose"} \subseteq Stages
      BY DEF Stages
    <3> QED BY <3>1, <3>2, <3>3, ThreadMoves
  <2>4. CASE RecheckPending(t) \/ RecheckOpen(t)
    <3>1. /\ pc[t] = "idle" /\ draft[t] = EmptyDraft /\ UNCHANGED <<pc, draft>>
          /\ seal_lock = t
      BY <2>4 DEF RecheckPending, RecheckOpen, At, vars, GatewayInv, LockInv, UnderLock
    <3>2. CASE Respond(t)
      BY <2>1, <3>1, <3>2
    <3>3. CASE Goto(t, "open") \/ Goto(t, "autopropose")
      <4>1. {"open", "autopropose"} \subseteq Stages
        BY DEF Stages
      <4> QED BY <3>1, <3>3, <4>1, ThreadMoves DEF Goto
    <3> QED BY <2>4, <3>2, <3>3 DEF RecheckPending, RecheckOpen
  <2>5. CASE ProposeStep(t)
    <3>1. CallerStep(t)
      BY <2>5 DEF ProposeStep, CallerStep
    <3>2. /\ stage[t] \in {"autopropose", "propose"}
          /\ UNCHANGED <<stage, seal_lock, round>>
      BY <2>5 DEF ProposeStep, Proposing, At, control
    <3>3. stage' = [stage EXCEPT ![t] = stage[t]] /\ stage[t] \in Stages
      BY <3>2 DEF GatewayInv, LockInv
    <3>4. seal_lock = t
      BY <3>2 DEF GatewayInv, LockInv, UnderLock
    <3>5. stage[t] # "signing"
      BY <3>2
    <3> QED BY <3>1, <3>2, <3>3, <3>4, <3>5, CallerMoves, ThreadMoves
  <2>6. CASE ProposeRaises(t)
    <3>1. CASE Raise(t)
      BY <2>6, <3>1, CallerMoves, HandlerEnds DEF ProposeRaises, CallerStep
    <3>2. CASE pc[t] = "idle" /\ UNCHANGED vars
      BY <2>1, <2>6, <3>2 DEF ProposeRaises, vars
    <3> QED BY <2>6, <3>1, <3>2 DEF ProposeRaises
  <2>7. CASE OwnSignature(t)
    <3>1. SignOwn(t) /\ CallerStep(t)
      BY <2>7 DEF OwnSignature, CallerStep
    <3>2. pc'[t] = "idle"
      BY <3>1, CallerMoves
    <3>3. CASE Respond(t)
      BY <3>1, <3>2, <3>3, CallerMoves, HandlerEnds
    <3>4. CASE /\ stage' = [stage EXCEPT ![t] = "signing"]
               /\ round' = [height |-> draft[t].height, next |-> 1]
               /\ UNCHANGED <<up, seal_lock>>
      <4>1. seal_lock = t
        BY <2>7 DEF OwnSignature, Proposing, At, GatewayInv, LockInv, UnderLock
      <4>2. draft[t].height \in Nat
        BY DEF GatewayInv, LedgerInv, CallersTypeOK
      <4>3. /\ "signing" \in Stages
            /\ round' \in [height : Nat, next : Nat] /\ round'.next > 0
        BY <3>4, <4>2 DEF Stages
      <4> QED BY <3>1, <3>2, <3>4, <4>1, <4>3, CallerMoves, ThreadMoves
    <3> QED BY <2>7, <3>3, <3>4 DEF OwnSignature
  <2>8. CASE NextSignature(t)
    <3>1. /\ stage[t] = "signing" /\ pc[t] = "idle" /\ UNCHANGED <<pc, draft>>
          /\ seal_lock = t
      BY <2>8 DEF NextSignature, At, SignBlock, AlreadySigned, vars, GatewayInv, LockInv,
                  UnderLock
    <3>2. CASE Respond(t)
      BY <2>1, <3>1, <3>2
    <3>3. CASE /\ round' = [round EXCEPT !.next = @ + 1]
               /\ UNCHANGED <<up, stage, seal_lock>>
      <4>1. round' \in [height : Nat, next : Nat] /\ round'.next > 0
        BY <2>8, <3>3 DEF NextSignature, SignersLeft, GatewayInv, LockInv
      <4> QED BY <3>1, <3>3, <4>1 DEF GatewayInv, LockInv
    <3> QED BY <2>8, <3>2, <3>3 DEF NextSignature
  <2> QED BY <1>6, <2>2, <2>3, <2>4, <2>5, <2>6, <2>7, <2>8 DEF HandlerStep
<1>7. ASSUME NEW t \in Callers, Fault(t)
      PROVE  LockInv'
  <2>1. CASE Abandon(t)
    BY <1>7, <2>1, CallerMoves, HandlerEnds DEF Fault
  <2>2. CASE pc[t] = "idle" /\ UNCHANGED vars
    BY <1>7, <2>2, HandlerEnds DEF Fault, vars, GatewayInv, LockInv
  <2> QED BY <1>7, <2>1, <2>2 DEF Fault
<1>8. CASE Crash
  BY <1>8 DEF Crash, LockInv, NoRound, Stages, UnderLock
<1> QED
  BY <1>2, <1>3, <1>5, <1>6, <1>7, <1>8 DEF GatewayNext

----------------------------------------------------------------------------
(* What the holder of the lock has read. *)

\* What happens outside the lock: submissions, enrolments, and signatures.
Outside ==
  \/ UNCHANGED <<events, blocks>>
  \/ \E e \in Events : InsertVerifiedEvent(e)
  \/ \E h \in DOMAIN blocks, a \in Authorities :
        InsertBlockSignature(h, a, Signature(KeyOf[a], BlockHash(blocks[h].header)))

\* While no proposal is open none of that moves the tip of the chain, and it
\* takes no event out of the backlog: a late signature finds its block final.
LEMMA TipIsSteady ==
  ASSUME LedgerInv, OpenHeights = {}, Outside
  PROVE  OpenHeights' = {} /\ Pending \subseteq Pending' /\ NextHeight' = NextHeight
<1> USE DEF LedgerInv, TablesInv
<1>1. SUFFICES /\ OpenHeights' = {} /\ Pending \subseteq Pending'
               /\ FinalizedHeights' = FinalizedHeights
  BY DEF NextHeight, LastFinalizedHeight
<1>2. CASE UNCHANGED <<events, blocks>>
  BY <1>2 DEF OpenHeights, Pending, FinalizedHeights
<1>3. CASE \E e \in Events : InsertVerifiedEvent(e)
  BY <1>3 DEF InsertVerifiedEvent, WithRow, OpenHeights, Pending, FinalizedHeights
<1>4. ASSUME NEW h \in DOMAIN blocks, NEW a, NEW signature,
             InsertBlockSignature(h, a, signature)
      PROVE  /\ OpenHeights' = {} /\ Pending \subseteq Pending'
             /\ FinalizedHeights' = FinalizedHeights
  <2>1. \A k \in DOMAIN blocks : blocks[k].status = "finalized"
    BY DEF OpenHeights, TablesTypeOK
  <2>2. /\ DOMAIN blocks' = DOMAIN blocks
        /\ \A k \in DOMAIN blocks : blocks'[k].status = "finalized"
    <3>1. blocks[h] = [header     |-> blocks[h].header,
                       status     |-> blocks[h].status,
                       signatures |-> blocks[h].signatures]
      BY DEF TablesTypeOK
    <3>2. \A k \in DOMAIN blocks : k # h => blocks'[k] = blocks[k]
      BY <1>4 DEF InsertBlockSignature
    <3>3. blocks'[h].status = "finalized"
      BY <1>4, <2>1, <3>1 DEF InsertBlockSignature
    <3> QED BY <1>4, <2>1, <3>2, <3>3 DEF InsertBlockSignature
  <2>3. CASE UNCHANGED events
    BY <2>1, <2>2, <2>3 DEF OpenHeights, Pending, FinalizedHeights
  <2>4. CASE events' = FinalizedIn(h)
    <3>1. \A e \in DOMAIN events :
             events[e] = [block_height |-> events[e].block_height,
                          finalized    |-> events[e].finalized]
      BY DEF TablesTypeOK, EventRows
    <3>2. /\ DOMAIN events' = DOMAIN events
          /\ \A e \in DOMAIN events : events'[e].block_height = events[e].block_height
      BY <2>4, <3>1 DEF FinalizedIn
    <3> QED BY <2>1, <2>2, <3>2 DEF OpenHeights, Pending, FinalizedHeights
  <2> QED BY <1>4, <2>3, <2>4 DEF InsertBlockSignature
<1> QED BY <1>2, <1>3, <1>4 DEF Outside

\* So what a call has read stays true through all of it.
LEMMA DraftStaysTrue ==
  ASSUME GatewayInv, Outside, NEW t \in Callers, pc'[t] = pc[t], draft'[t] = draft[t]
  PROVE  DraftTrue(t)'
<1>1. CASE pc[t] \in {"snapshot", "select", "link", "create"}
  <2>1. OpenHeights = {}
    BY <1>1 DEF GatewayInv, DraftTrue
  <2>2. OpenHeights' = {} /\ Pending \subseteq Pending' /\ NextHeight' = NextHeight
    BY <2>1, TipIsSteady DEF GatewayInv
  <2> QED BY <2>2 DEF GatewayInv, DraftTrue
<1> QED BY <1>1 DEF DraftTrue

\* A call that is not between its first read and its proposal has nothing to
\* keep true.
LEMMA NothingToKeep ==
  ASSUME NEW t \in Callers, pc'[t] \notin {"snapshot", "select", "link", "create"}
  PROVE  DraftTrue(t)'
BY DEF DraftTrue

\* A step of the thread inside propose_block: what it reads is true, and all
\* the other threads are outside.
LEMMA CallerDraft ==
  ASSUME GatewayInv, NEW t \in Callers, CallerStep(t) \/ Abandon(t),
         stage[t] \in UnderLock
  PROVE  \A u \in Callers : DraftTrue(u)'
<1>1. /\ pc = [u \in Callers |-> pc[u]]
      /\ draft = [u \in Callers |-> [authorities   |-> draft[u].authorities,
                                     event_hashes  |-> draft[u].event_hashes,
                                     height        |-> draft[u].height,
                                     previous_hash |-> draft[u].previous_hash]]
  BY DEF GatewayInv, LedgerInv, CallersTypeOK
<1>2. ASSUME NEW u \in Callers, u # t
      PROVE  DraftTrue(u)'
  <2>1. pc[u] = "idle"
    BY <1>2 DEF GatewayInv, LockInv, UnderLock
  <2> QED BY <1>2, <2>1, CallerMoves, NothingToKeep
<1>3. DraftTrue(t)
  BY DEF GatewayInv
<1>4. CASE CheckNoOpenBlock(t)
  <2>1. OpenHeights' = {} /\ pc'[t] = "snapshot"
    BY <1>1, <1>4 DEF CheckNoOpenBlock, tables, OpenHeights
  <2> QED BY <1>2, <2>1 DEF DraftTrue
<1>5. CASE TakeSnapshot(t)
  <2>1. OpenHeights' = {} /\ pc'[t] = "select"
    BY <1>1, <1>3, <1>5 DEF TakeSnapshot, tables, OpenHeights, DraftTrue
  <2> QED BY <1>2, <2>1 DEF DraftTrue
<1>6. CASE SelectPending(t)
  <2>1. OpenHeights' = {} /\ pc'[t] = "link"
    BY <1>1, <1>3, <1>6 DEF SelectPending, tables, OpenHeights, DraftTrue
  <2>2. Pending' = Pending
    BY <1>6 DEF SelectPending, tables, Pending
  <2>3. draft'[t].event_hashes \subseteq Pending
    BY <1>1, <1>6 DEF SelectPending
  <2> QED BY <1>2, <2>1, <2>2, <2>3 DEF DraftTrue
<1>7. CASE LinkToPrevious(t)
  <2>1. OpenHeights' = {} /\ Pending' = Pending /\ NextHeight' = NextHeight
    BY <1>3, <1>7 DEF LinkToPrevious, tables, OpenHeights, DraftTrue, Pending, NextHeight,
                      LastFinalizedHeight, FinalizedHeights
  <2>2. draft'[t].height = NextHeight /\ draft'[t].event_hashes = draft[t].event_hashes
    BY <1>1, <1>7 DEF LinkToPrevious
  <2> QED BY <1>2, <1>3, <1>7, <2>1, <2>2 DEF DraftTrue, LinkToPrevious
<1>8. CASE Propose(t)
  <2>1. pc'[t] = "sign"
    BY <1>1, <1>8 DEF Propose
  <2> QED BY <1>2, <2>1, NothingToKeep
<1>9. CASE SignOwn(t) \/ Raise(t) \/ Abandon(t)
  <2>1. pc'[t] = "idle"
    BY <1>9, CallerMoves
  <2> QED BY <1>2, <2>1, NothingToKeep
<1> QED BY <1>4, <1>5, <1>6, <1>7, <1>8, <1>9 DEF CallerStep

\* No step of the gateway makes what a call has read untrue.
LEMMA DraftStep ==
  ASSUME GatewayInv, [GatewayNext]_gatewayVars
  PROVE  \A t \in Callers : DraftTrue(t)'
<1>1. ASSUME Outside, UNCHANGED <<pc, draft>>
      PROVE  \A t \in Callers : DraftTrue(t)'
  BY <1>1, DraftStaysTrue
<1>2. CASE UNCHANGED vars
  BY <1>1, <1>2 DEF vars, Outside
<1>3. CASE \/ \E a \in StartupAuthorities : Startup(a)
           \/ \E d \in Devices : Enroll(d)
           \/ \E t \in Callers, e \in Events : Submit(t, e)
           \/ \E h \in DOMAIN blocks, a \in Authorities : ExternalSignature(h, a)
  BY <1>1, <1>2, <1>3 DEF Startup, RegisterAuthority, Enroll, EnrollDevice, RegisterDevice,
                          Submit, AcceptEvent, Duplicate, ExternalSignature,
                          AddExternalSignature, Outside
<1>4. ASSUME NEW t \in Callers, HandlerStep(t)
      PROVE  \A u \in Callers : DraftTrue(u)'
  <2>1. CASE CountPending(t) \/ Lock(t) \/ RecheckPending(t) \/ RecheckOpen(t)
    BY <1>2, <2>1 DEF CountPending, Lock, RecheckPending, RecheckOpen
  <2>2. CASE ProposeStep(t) \/ ProposeRaises(t) \/ OwnSignature(t)
    <3>1. stage[t] \in UnderLock
      BY <2>2 DEF ProposeStep, ProposeRaises, OwnSignature, Proposing, At, UnderLock
    <3>2. CallerStep(t) \/ UNCHANGED vars
      BY <2>2 DEF ProposeStep, ProposeRaises, OwnSignature, CallerStep
    <3> QED BY <1>2, <3>1, <3>2, CallerDraft
  <2>3. CASE NextSignature(t)
    <3>1. \A u \in Callers : pc[u] = "idle"
      BY <2>3 DEF NextSignature, At, GatewayInv, LockInv, UnderLock
    <3>2. UNCHANGED <<pc, draft>>
      BY <2>3 DEF NextSignature, SignBlock, AlreadySigned, vars
    <3> QED BY <3>1, <3>2, NothingToKeep
  <2> QED BY <1>4, <2>1, <2>2, <2>3 DEF HandlerStep
<1>5. ASSUME NEW t \in Callers, Fault(t)
      PROVE  \A u \in Callers : DraftTrue(u)'
  <2>1. CASE Abandon(t)
    <3>1. stage[t] \in UnderLock
      BY <2>1 DEF Abandon, GatewayInv, LockInv, UnderLock
    <3> QED BY <2>1, <3>1, CallerDraft
  <2> QED BY <1>2, <1>5, <2>1 DEF Fault
<1>6. CASE Crash
  BY <1>6, NothingToKeep DEF Crash
<1> QED
  BY <1>2, <1>3, <1>4, <1>5, <1>6
  DEF GatewayNext, gatewayVars, vars, Serve, RequestSeal

----------------------------------------------------------------------------
(* The theorems. *)

\* The invariant is inductive, and no step undoes what is in the tables.
LEMMA GatewayStep ==
  ASSUME GatewayInv, [GatewayNext]_gatewayVars
  PROVE  GatewayInv' /\ NothingIsUndone /\ AuthoritiesKept
<1>1. LedgerInv /\ [Next]_vars
  BY GatewayStepRefines DEF GatewayInv
<1>2. TablesInv' /\ NothingIsUndone /\ AuthoritiesKept
  BY <1>1, TablesStep
<1>3. LedgerInv'
  BY <1>1, <1>2, CallersStep DEF LedgerInv
<1> QED BY <1>2, <1>3, LockStep, DraftStep DEF GatewayInv

\* The invariant that the rest follows from holds of every reachable state.
THEOREM GatewayInvariant == GatewaySpec => []GatewayInv
<1>1. GatewayInit => GatewayInv
  BY GatewayInitInv
<1>2. GatewayInv /\ [GatewayNext]_gatewayVars => GatewayInv'
  BY GatewayStep
<1> QED BY <1>1, <1>2, PTL DEF GatewaySpec

\* A gateway, with its threads, lock, crashes and database errors, is a
\* ledger: the theorems about Ledger are theorems about it.
THEOREM GatewayImplementsLedger == GatewaySpec => ImplementsLedger
<1>1. GatewayInit => Init
  BY DEF GatewayInit
<1>2. GatewayInv /\ [GatewayNext]_gatewayVars => [Next]_vars
  BY GatewayStepRefines
<1> QED BY <1>1, <1>2, GatewayInvariant, PTL DEF GatewaySpec, Spec, ImplementsLedger

\* What a call read under the lock is what the transaction will find.
LEMMA DraftIsProposable ==
  ASSUME GatewayInv, NEW t \in Callers, pc[t] = "create"
  PROVE  Proposable(Header(t))
<1>1. /\ OpenHeights = {}
      /\ draft[t].event_hashes \subseteq Pending
      /\ draft[t].height = NextHeight
  BY DEF GatewayInv, DraftTrue
<1>2. TablesTypeOK /\ ChainLinked /\ EventsMatchBlocks
  BY DEF GatewayInv, LedgerInv, TablesInv
<1>3. DOMAIN blocks = FinalizedHeights
  BY <1>1, <1>2 DEF OpenHeights, FinalizedHeights, TablesTypeOK
<1>4. NextHeight \notin DOMAIN blocks
  BY <1>2, <1>3, Tip DEF NextHeight
<1>5. \A h \in DOMAIN blocks : blocks[h].header.event_hashes \cap Pending = {}
  BY <1>2 DEF EventsMatchBlocks, Pending, TablesTypeOK
<1> QED BY <1>1, <1>4, <1>5 DEF Proposable, Header, StillPending, HeightFree, Unclaimed

\* Under seal_lock a proposal is never stale when it is written.
THEOREM SealsAreNeverStale == GatewaySpec => []SealIsNeverStale
<1>1. GatewayInv => SealIsNeverStale
  BY DraftIsProposable DEF SealIsNeverStale
<1> QED BY <1>1, GatewayInvariant, PTL

----------------------------------------------------------------------------
(***************************************************************************)
(* What else seal_lock is for: as long as                                  *)
(* nothing was interrupted, every proposal is in the hands of the thread    *)
(* that will finalize it, and no full batch is left without a thread that   *)
(* owes it a look.                                                         *)
(*                                                                         *)
(* Both need more than the lock.  The signing loop cannot run out of        *)
(* signers, because create_app asks for no more signatures than it has      *)
(* local authorities, and registers them all before it serves; and the      *)
(* automatic seal cannot be refused, because what it read under the lock    *)
(* is still true.                                                          *)
(***************************************************************************)
(* The invariant of sealing. *)

\* The local authorities are registered before anything is served or
\* proposed, and every snapshot has them (api.py:82-94).
Registered ==
  /\ \A a \in DOMAIN authorities : authorities[a] = KeyOf[a]
  /\ up => StartupAuthorities \subseteq DOMAIN authorities
  /\ \A h \in DOMAIN blocks :
        /\ StartupAuthorities \subseteq DOMAIN Members(h)
        /\ blocks[h].header.quorum_threshold <= Len(LocalSigners) + 1
  /\ \A t \in Callers :
        pc[t] \in {"select", "link", "create"} =>
          StartupAuthorities \subseteq DOMAIN draft[t].authorities

\* The thread is about to sign the block, or has signed it for itself and for
\* the local signers that come before the next one.
HeldBy(t, h) ==
  \/ pc[t] = "sign" /\ draft[t].height = h
  \/ /\ stage[t] = "signing" /\ round.height = h
     /\ {Node} \cup {LocalSigners[i] : i \in 1 .. (round.next - 1)}
          \subseteq DOMAIN blocks[h].signatures

InHand == Interrupted \/ \A h \in OpenHeights : \E t \in Callers : HeldBy(t, h)

\* From the look under the lock to the proposal the backlog stays a full
\* batch, and a full batch is what is selected.
Batches ==
  \A t \in Callers :
     /\ stage[t] \in {"open", "autopropose"} /\ pc[t] # "sign" => FullBatch
     /\ stage[t] = "autopropose" /\ pc[t] \in {"link", "create"} =>
          Cardinality(draft[t].event_hashes) = BatchSize

\* The backlog exceeds a batch by no more than the threads that owe a look;
\* by one less when one of them has just taken its batch out.
Owed ==
  /\ IsFiniteSet(DOMAIN events) /\ IsFiniteSet(Owing)
  /\ \/ Interrupted
     \/ /\ Cardinality(Pending) <= BatchSize - 1 + Cardinality(Owing)
        /\ \A t \in Callers :
              stage[t] = "autopropose" /\ pc[t] = "sign" =>
                Cardinality(Pending) + 1 <= BatchSize - 1 + Cardinality(Owing)

\* The bounds' counters are numbers.
Counted == crashes \in Nat /\ faults \in Nat

SealingInv == GatewayInv /\ Counted /\ Registered /\ InHand /\ Batches /\ Owed

----------------------------------------------------------------------------
(* The local authorities. *)

\* They are as many as the signatures that create_app may ask for.
LEMMA EnoughSigners ==
  ASSUME NEW S, IsFiniteSet(S), NEW n \in 0 .. Len(LocalSigners),
         {Node} \cup {LocalSigners[i] : i \in 1 .. n} \subseteq S
  PROVE  Cardinality(S) \in Nat /\ n + 1 <= Cardinality(S)
<1> DEFINE f == [i \in 0 .. n |-> IF i = 0 THEN Node ELSE LocalSigners[i]]
<1>1. Len(LocalSigners) \in Nat /\ n \in Nat
  BY GatewayConfig, LenProperties
<1>2. \A i \in 1 .. n : LocalSigners[i] \in Authorities \ {Node} /\ LocalSigners[i] \in S
  BY <1>1, GatewayConfig, ElementOfSeq
<1>3. f \in Injection(0 .. n, S)
  <2>1. f \in [0 .. n -> S]
    BY <1>1, <1>2
  <2>2. ASSUME NEW i \in 0 .. n, NEW j \in 0 .. n, f[i] = f[j]
        PROVE  i = j
    <3>1. CASE i = 0 \/ j = 0
      BY <1>1, <1>2, <2>2, <3>1
    <3>2. CASE i # 0 /\ j # 0
      BY <1>1, <2>2, <3>2, GatewayConfig
    <3> QED BY <3>1, <3>2
  <2> QED BY <2>1, <2>2 DEF Injection, IsInjective
<1>4. Cardinality(0 .. n) = n + 1
  BY <1>1, FS_Interval
<1> HIDE DEF f
<1>5. Cardinality(0 .. n) <= Cardinality(S)
  BY <1>3, FS_Injection
<1> QED BY <1>4, <1>5, FS_CardinalityType

\* All of them.
LEMMA StartupIsEnough ==
  ASSUME NEW S, IsFiniteSet(S), StartupAuthorities \subseteq S
  PROVE  Cardinality(S) \in Nat /\ Len(LocalSigners) + 1 <= Cardinality(S)
<1>1. Len(LocalSigners) \in Nat /\ DOMAIN LocalSigners = 1 .. Len(LocalSigners)
  BY GatewayConfig, LenProperties
<1>2. Len(LocalSigners) \in 0 .. Len(LocalSigners)
  BY <1>1
<1>3. {Node} \cup {LocalSigners[i] : i \in 1 .. Len(LocalSigners)} \subseteq S
  BY <1>1 DEF StartupAuthorities
<1> QED BY <1>2, <1>3, EnoughSigners

----------------------------------------------------------------------------
(* Who moves. *)

\* What happens without a thread: no handler notices it.
Quiet ==
  \/ UNCHANGED gatewayVars
  \/ \E a \in StartupAuthorities : Startup(a)
  \/ Serve
  \/ \E d \in Devices : Enroll(d)
  \/ \E h \in DOMAIN blocks, a \in Authorities : ExternalSignature(h, a)

\* What happens in the handler of a thread.
Handles(t) ==
  \/ \E e \in Events : Submit(t, e)
  \/ RequestSeal(t)
  \/ HandlerStep(t)

\* There is nothing else but faults and crashes.
LEMMA StepKinds ==
  ASSUME [GatewayNext]_gatewayVars
  PROVE  \/ Quiet
         \/ \E t \in Callers : Handles(t)
         \/ \E t \in Callers : Fault(t)
         \/ Crash
BY DEF GatewayNext, Quiet, Handles

\* A quiet step leaves the handlers where they are.
LEMMA QuietStep ==
  ASSUME Quiet
  PROVE  UNCHANGED <<pc, draft, stage, seal_lock, round, crashes, faults>>
BY DEF Quiet, gatewayVars, Startup, Serve, Enroll, EnrollDevice, ExternalSignature,
       AddExternalSignature, control, counters, vars

\* A handler moves alone; only the holder of the lock touches the round.
LEMMA OthersWait ==
  ASSUME GatewayInv, NEW t \in Callers, Handles(t) \/ Fault(t)
  PROVE  /\ \A u \in Callers \ {t} :
               pc'[u] = pc[u] /\ draft'[u] = draft[u] /\ stage'[u] = stage[u]
         /\ up /\ up' = up
         /\ seal_lock # t => round' = round
<1>1. pc \in [Callers -> {"idle", "snapshot", "select", "link", "create", "sign"}]
  BY DEF GatewayInv, LedgerInv, CallersTypeOK
<1>2. stage \in [Callers -> Stages]
  BY DEF GatewayInv, LockInv
<1>3. stage[t] \in UnderLock => seal_lock = t
  BY DEF GatewayInv, LockInv
<1>4. ASSUME UNCHANGED <<pc, draft>>, Respond(t) \/ \E s \in Stages : Goto(t, s)
      PROVE  /\ \A u \in Callers \ {t} :
                   pc'[u] = pc[u] /\ draft'[u] = draft[u] /\ stage'[u] = stage[u]
             /\ up' = up
             /\ seal_lock # t => round' = round
  BY <1>2, <1>4 DEF Respond, Goto
<1>5. {"count", "manual", "lock", "open", "autopropose", "propose", "recheck", "signing"}
        \subseteq Stages
  BY DEF Stages
<1>6. CASE \/ \E e \in Events : Submit(t, e)
           \/ RequestSeal(t) \/ CountPending(t) \/ RecheckPending(t) \/ RecheckOpen(t)
  BY <1>4, <1>5, <1>6
  DEF Submit, AcceptEvent, Duplicate, RequestSeal, CountPending, RecheckPending, RecheckOpen,
      At, vars
<1>7. CASE Lock(t)
  BY <1>2, <1>7 DEF Lock, At, vars
<1>8. ASSUME CallerStep(t) \/ Abandon(t) \/ UNCHANGED vars
      PROVE  \A u \in Callers \ {t} : pc'[u] = pc[u] /\ draft'[u] = draft[u]
  BY <1>8, CallerMoves DEF vars
<1>9. CASE ProposeStep(t)
  BY <1>8, <1>9 DEF ProposeStep, CallerStep, Proposing, At, control
<1>10. CASE ProposeRaises(t)
  BY <1>2, <1>8, <1>10 DEF ProposeRaises, CallerStep, Proposing, At, Respond
<1>11. CASE OwnSignature(t)
  BY <1>2, <1>3, <1>8, <1>11
  DEF OwnSignature, CallerStep, Proposing, At, Respond, UnderLock
<1>12. CASE NextSignature(t)
  BY <1>2, <1>3, <1>12
  DEF NextSignature, SignBlock, AlreadySigned, vars, At, Respond, UnderLock
<1>13. CASE Fault(t)
  BY <1>2, <1>8, <1>13 DEF Fault, Respond
<1> QED
  BY <1>6, <1>7, <1>9, <1>10, <1>11, <1>12, <1>13 DEF Handles, HandlerStep

----------------------------------------------------------------------------
(* What moves. *)

\* One more signature leaves everything else about the blocks and the backlog.
LEMMA SignatureAdds ==
  ASSUME TablesTypeOK, NEW h, NEW a, NEW signature, InsertBlockSignature(h, a, signature)
  PROVE  /\ DOMAIN blocks' = DOMAIN blocks
         /\ h \in DOMAIN blocks /\ a \in DOMAIN blocks'[h].signatures
         /\ DOMAIN events' = DOMAIN events /\ Pending' = Pending
<1>1. blocks[h] = [header     |-> blocks[h].header,
                   status     |-> blocks[h].status,
                   signatures |-> blocks[h].signatures]
  BY DEF TablesTypeOK, InsertBlockSignature
<1>2. a \in DOMAIN WithSignature(h, a, signature)
  BY DEF WithSignature, WithRow
<1>3. /\ DOMAIN blocks' = DOMAIN blocks
      /\ h \in DOMAIN blocks /\ blocks'[h].signatures = WithSignature(h, a, signature)
  BY <1>1 DEF InsertBlockSignature
<1>4. CASE UNCHANGED events
  BY <1>2, <1>3, <1>4 DEF Pending
<1>5. CASE events' = FinalizedIn(h)
  <2>1. \A e \in DOMAIN events :
           events[e] = [block_height |-> events[e].block_height,
                        finalized    |-> events[e].finalized]
    BY DEF TablesTypeOK, EventRows
  <2>2. /\ DOMAIN events' = DOMAIN events
        /\ \A e \in DOMAIN events : events'[e].block_height = events[e].block_height
    BY <1>5, <2>1 DEF FinalizedIn
  <2> QED BY <1>2, <1>3, <2>2 DEF Pending
<1> QED BY <1>4, <1>5 DEF InsertBlockSignature

\* A proposal adds its block and takes its events out of the backlog.
LEMMA ProposalTakes ==
  ASSUME LedgerInv, NEW t \in Callers, Propose(t)
  PROVE  /\ DOMAIN blocks' = DOMAIN blocks \cup {draft[t].height}
         /\ blocks'[draft[t].height].header = Header(t)
         /\ DOMAIN events' = DOMAIN events
         /\ draft[t].event_hashes \subseteq Pending
         /\ Pending' = Pending \ draft[t].event_hashes
         /\ pc'[t] = "sign" /\ draft' = draft
<1> DEFINE E == draft[t].event_hashes
           k == draft[t].height
<1>1. /\ blocks' = WithRow(blocks, k, ProposedRow(Header(t)))
      /\ events' = AssignedTo(k, E)
      /\ E \subseteq Pending /\ pc[t] = "create"
      /\ pc' = [pc EXCEPT ![t] = "sign"] /\ draft' = draft
  BY DEF Propose, CreateProposal, Proposable, StillPending, Header
<1>2. k \in Nat /\ k > 0
  BY <1>1 DEF LedgerInv, DraftsSound, DraftSound, CallersTypeOK
<1>3. \A e \in DOMAIN events :
         events[e] = [block_height |-> events[e].block_height,
                      finalized    |-> events[e].finalized]
  BY DEF LedgerInv, TablesInv, TablesTypeOK, EventRows
<1>4. /\ DOMAIN events' = DOMAIN events
      /\ \A e \in DOMAIN events :
            events'[e].block_height = IF e \in E THEN k ELSE events[e].block_height
  BY <1>1, <1>3 DEF AssignedTo
<1>5. Pending' = Pending \ E
  BY <1>2, <1>4 DEF Pending
<1>6. DOMAIN blocks' = DOMAIN blocks \cup {k} /\ blocks'[k].header = Header(t)
  BY <1>1 DEF WithRow, ProposedRow
<1>7. pc'[t] = "sign"
  BY <1>1 DEF LedgerInv, CallersTypeOK
<1> QED BY <1>1, <1>4, <1>5, <1>6, <1>7

\* A proposal in the handler of t, as the gateway makes it.
ProposesIn(t) == Proposing(t) /\ Propose(t) /\ UNCHANGED <<control, counters>>

\* An event is added in the handler of t.
AcceptsIn(t) ==
  \E e \in Events : /\ Submit(t, e) /\ e \notin DOMAIN events
                    /\ DOMAIN events' = DOMAIN events \cup {e}
                    /\ Pending' = Pending \cup {e}

\* The backlog grows by one submission at a time, and shrinks, as the blocks
\* grow, by one proposal at a time.
LEMMA BacklogMoves ==
  ASSUME GatewayInv, [GatewayNext]_gatewayVars
  PROVE  \/ DOMAIN blocks' = DOMAIN blocks /\ DOMAIN events' = DOMAIN events
            /\ Pending' = Pending
         \/ DOMAIN blocks' = DOMAIN blocks /\ \E t \in Callers : AcceptsIn(t)
         \/ \E t \in Callers : ProposesIn(t)
<1> DEFINE Same == DOMAIN blocks' = DOMAIN blocks /\ DOMAIN events' = DOMAIN events
                   /\ Pending' = Pending
<1>0. TablesTypeOK /\ LedgerInv
  BY DEF GatewayInv, LedgerInv, TablesInv
<1>1. ASSUME UNCHANGED <<events, blocks>> PROVE Same
  BY <1>1 DEF Pending
<1>2. ASSUME NEW h, NEW a, NEW signature, InsertBlockSignature(h, a, signature) PROVE Same
  BY <1>0, <1>2, SignatureAdds
<1>3. CASE Quiet
  <2>1. CASE \E h \in DOMAIN blocks, a \in Authorities : ExternalSignature(h, a)
    BY <1>2, <2>1 DEF ExternalSignature, AddExternalSignature
  <2> QED
    BY <1>1, <1>3, <2>1
    DEF Quiet, gatewayVars, Startup, RegisterAuthority, Serve, vars, Enroll, EnrollDevice,
        RegisterDevice
<1>4. ASSUME NEW t \in Callers, NEW e \in Events, Submit(t, e), AcceptEvent(e)
      PROVE  DOMAIN blocks' = DOMAIN blocks /\ AcceptsIn(t)
  <2>1. /\ e \notin DOMAIN events /\ blocks' = blocks
        /\ events' = WithRow(events, e, [block_height |-> 0, finalized |-> FALSE])
    BY <1>4 DEF AcceptEvent, InsertVerifiedEvent
  <2>2. DOMAIN events' = DOMAIN events \cup {e} /\ Pending' = Pending \cup {e}
    BY <2>1 DEF WithRow, Pending
  <2> QED BY <1>4, <2>1, <2>2 DEF AcceptsIn
<1>5. ASSUME NEW t \in Callers, HandlerStep(t)
      PROVE  Same \/ ProposesIn(t)
  <2>1. CASE CountPending(t) \/ Lock(t) \/ RecheckPending(t) \/ RecheckOpen(t)
    BY <1>1, <2>1 DEF CountPending, Lock, RecheckPending, RecheckOpen, vars
  <2>2. CASE ProposeStep(t)
    BY <1>1, <2>2
    DEF ProposeStep, CheckNoOpenBlock, TakeSnapshot, SelectPending, LinkToPrevious, tables,
        ProposesIn
  <2>3. CASE ProposeRaises(t)
    BY <1>1, <2>3 DEF ProposeRaises, Raise, tables, vars
  <2>4. CASE OwnSignature(t)
    BY <1>1, <1>2, <2>4 DEF OwnSignature, SignOwn, tables
  <2>5. CASE NextSignature(t)
    BY <1>1, <1>2, <2>5 DEF NextSignature, SignBlock, AlreadySigned, vars
  <2> QED BY <1>5, <2>1, <2>2, <2>3, <2>4, <2>5 DEF HandlerStep
<1>6. ASSUME NEW t \in Callers, Handles(t)
      PROVE  \/ Same
             \/ DOMAIN blocks' = DOMAIN blocks /\ AcceptsIn(t)
             \/ ProposesIn(t)
  <2>1. CASE \E e \in Events : Submit(t, e)
    BY <1>1, <1>4, <2>1 DEF Submit, Duplicate, vars
  <2> QED BY <1>1, <1>5, <1>6, <2>1 DEF Handles, RequestSeal, vars
<1>7. CASE \E t \in Callers : Fault(t)
  BY <1>1, <1>7 DEF Fault, Abandon, tables, vars
<1>8. CASE Crash
  BY <1>1, <1>8 DEF Crash, tables
<1> HIDE DEF Same
<1> QED BY <1>3, <1>6, <1>7, <1>8, StepKinds DEF Same

----------------------------------------------------------------------------
(* The local authorities stay registered. *)

\* No row of authorities changes, and a new one is made at startup only.
LEMMA KeysStep ==
  ASSUME GatewayInv, [GatewayNext]_gatewayVars
  PROVE  \/ authorities' = authorities
         \/ \E a \in StartupAuthorities : authorities' = WithRow(authorities, a, KeyOf[a])
<1>1. CASE Quiet
  BY <1>1 DEF Quiet, gatewayVars, Startup, RegisterAuthority, Serve, vars, Enroll, EnrollDevice,
              RegisterDevice, ExternalSignature, AddExternalSignature, InsertBlockSignature
<1>2. ASSUME NEW t \in Callers, Handles(t)
      PROVE  authorities' = authorities
  <2>1. CASE \/ \E e \in Events : Submit(t, e)
             \/ RequestSeal(t) \/ CountPending(t) \/ Lock(t) \/ RecheckPending(t)
             \/ RecheckOpen(t)
    BY <2>1 DEF Submit, AcceptEvent, InsertVerifiedEvent, Duplicate, RequestSeal, CountPending,
                Lock, RecheckPending, RecheckOpen, vars
  <2>2. CASE ProposeStep(t) \/ ProposeRaises(t)
    BY <2>2 DEF ProposeStep, CheckNoOpenBlock, TakeSnapshot, SelectPending, LinkToPrevious,
                Propose, CreateProposal, ProposeRaises, Raise, tables, vars
  <2>3. CASE OwnSignature(t) \/ NextSignature(t)
    BY <2>3 DEF OwnSignature, SignOwn, NextSignature, SignBlock, AlreadySigned,
                InsertBlockSignature, tables, vars
  <2> QED BY <1>2, <2>1, <2>2, <2>3 DEF Handles, HandlerStep
<1>3. CASE Crash \/ \E t \in Callers : Fault(t)
  BY <1>3 DEF Crash, Fault, Abandon, tables, vars
<1> QED BY <1>1, <1>2, <1>3, StepKinds

\* Serving begins when the local authorities are registered.
LEMMA UpStep ==
  ASSUME GatewayInv, [GatewayNext]_gatewayVars, up'
  PROVE  up \/ StartupAuthorities \subseteq DOMAIN authorities
<1>1. CASE Quiet
  BY <1>1 DEF Quiet, gatewayVars, Startup, Serve, Enroll, ExternalSignature, control
<1>2. CASE \E t \in Callers : Handles(t) \/ Fault(t)
  BY <1>2, OthersWait
<1> QED BY <1>1, <1>2, StepKinds DEF Crash

\* A snapshot in a draft was taken while the gateway served, and is kept.
LEMMA SnapshotStep ==
  ASSUME GatewayInv, [GatewayNext]_gatewayVars, NEW t \in Callers,
         pc'[t] \in {"select", "link", "create"}
  PROVE  \/ /\ pc[t] \in {"select", "link", "create"}
            /\ draft'[t].authorities = draft[t].authorities
         \/ up /\ draft'[t].authorities = authorities
<1>1. /\ pc = [u \in Callers |-> pc[u]]
      /\ draft = [u \in Callers |-> [authorities   |-> draft[u].authorities,
                                     event_hashes  |-> draft[u].event_hashes,
                                     height        |-> draft[u].height,
                                     previous_hash |-> draft[u].previous_hash]]
  BY DEF GatewayInv, LedgerInv, CallersTypeOK
<1>2. CASE pc'[t] = pc[t] /\ draft'[t] = draft[t]
  BY <1>2
<1>3. CASE Quiet
  BY <1>2, <1>3, QuietStep
<1>4. ASSUME NEW u \in Callers, Handles(u) \/ Fault(u), u # t
      PROVE  pc'[t] = pc[t] /\ draft'[t] = draft[t]
  BY <1>4, OthersWait
<1>5. CASE Handles(t)
  <2>1. up
    BY <1>5, OthersWait
  <2>2. CASE \/ \E e \in Events : Submit(t, e)
             \/ RequestSeal(t) \/ CountPending(t) \/ Lock(t) \/ RecheckPending(t)
             \/ RecheckOpen(t) \/ NextSignature(t)
    BY <1>2, <2>2 DEF Submit, AcceptEvent, Duplicate, RequestSeal, CountPending, Lock,
                      RecheckPending, RecheckOpen, NextSignature, SignBlock, AlreadySigned, vars
  <2>3. CASE ProposeStep(t)
    BY <1>1, <2>1, <2>3 DEF ProposeStep, CheckNoOpenBlock, TakeSnapshot, SelectPending,
                            LinkToPrevious, Propose
  <2>4. CASE ProposeRaises(t)
    BY <1>2, <2>4, CallerMoves DEF ProposeRaises, CallerStep, vars
  <2>5. CASE OwnSignature(t)
    BY <2>5, CallerMoves DEF OwnSignature, CallerStep
  <2> QED BY <1>5, <2>2, <2>3, <2>4, <2>5 DEF Handles, HandlerStep
<1>6. CASE Fault(t)
  BY <1>2, <1>6, CallerMoves DEF Fault, vars
<1>7. ~ Crash
  BY DEF Crash
<1> QED BY <1>2, <1>3, <1>4, <1>5, <1>6, <1>7, StepKinds

\* So every block, and every draft of one, can be finalized by the gateway.
LEMMA RegisteredStep ==
  ASSUME GatewayInv, Registered, [GatewayNext]_gatewayVars
  PROVE  Registered'
<1>0. GatewayInv' /\ NothingIsUndone /\ AuthoritiesKept
  BY GatewayStep
<1>1. \A a \in DOMAIN authorities' : authorities'[a] = KeyOf[a]
  BY KeysStep DEF Registered, WithRow
<1>2. DOMAIN authorities \subseteq DOMAIN authorities'
  BY <1>0 DEF AuthoritiesKept
<1>3. up' => StartupAuthorities \subseteq DOMAIN authorities'
  BY <1>2, UpStep DEF Registered
<1>4. ASSUME NEW h \in DOMAIN blocks'
      PROVE  /\ StartupAuthorities \subseteq DOMAIN Members(h)'
             /\ blocks'[h].header.quorum_threshold <= Len(LocalSigners) + 1
  <2>1. CASE h \in DOMAIN blocks
    <3>1. blocks'[h].header = blocks[h].header
      BY <1>0, <2>1 DEF NothingIsUndone
    <3> QED BY <2>1, <3>1 DEF Registered, Members
  <2>2. CASE h \notin DOMAIN blocks
    <3>1. PICK t \in Callers : ProposesIn(t)
      BY <2>2, BacklogMoves
    <3>2. Propose(t) /\ pc[t] = "create"
      BY <3>1 DEF ProposesIn, Propose
    <3>3. blocks'[h].header = Header(t)
      BY <2>2, <3>2, ProposalTakes DEF GatewayInv
    <3>4. /\ blocks'[h].header.authorities = draft[t].authorities
          /\ blocks'[h].header.quorum_threshold = QuorumOf[t]
      BY <3>3 DEF Header
    <3>5. StartupAuthorities \subseteq DOMAIN draft[t].authorities
      BY <3>2 DEF Registered
    <3> QED BY <3>4, <3>5, GatewayConfig DEF Members
  <2> QED BY <2>1, <2>2
<1>5. ASSUME NEW t \in Callers, pc'[t] \in {"select", "link", "create"}
      PROVE  StartupAuthorities \subseteq DOMAIN draft'[t].authorities
  BY <1>5, SnapshotStep DEF Registered
<1> QED BY <1>1, <1>3, <1>4, <1>5 DEF Registered

----------------------------------------------------------------------------
(* Every proposal is in somebody's hands. *)

\* Who works under the lock holds every open proposal.
LEMMA HolderIs ==
  ASSUME GatewayInv, InHand, ~ Interrupted, NEW t \in Callers, stage[t] \in UnderLock,
         NEW h \in OpenHeights
  PROVE  HeldBy(t, h)
<1>1. PICK u \in Callers : HeldBy(u, h)
  BY DEF InHand
<1>2. stage[u] \in UnderLock
  BY <1>1 DEF HeldBy, GatewayInv, LockInv, UnderLock
<1>3. u = t
  BY <1>2 DEF GatewayInv, LockInv
<1> QED BY <1>1, <1>3

\* A proposal that is still open was open before, or is the new one.
LEMMA OpenBefore ==
  ASSUME GatewayInv, [GatewayNext]_gatewayVars, NEW h \in OpenHeights'
  PROVE  \/ h \in OpenHeights
         \/ \E t \in Callers : ProposesIn(t) /\ h = draft[t].height
<1>1. NothingIsUndone
  BY GatewayStep
<1>2. CASE h \in DOMAIN blocks
  BY <1>1, <1>2 DEF NothingIsUndone, OpenHeights, GatewayInv, LedgerInv, TablesInv, TablesTypeOK
<1>3. CASE h \notin DOMAIN blocks
  <2>1. h \in DOMAIN blocks'
    BY DEF OpenHeights
  <2>2. PICK t \in Callers : ProposesIn(t)
    BY <1>3, <2>1, BacklogMoves
  <2> QED BY <1>3, <2>1, <2>2, ProposalTakes DEF ProposesIn, GatewayInv
<1> QED BY <1>2, <1>3

\* The holder keeps it while others move.
LEMMA OthersKeepHeld ==
  ASSUME GatewayInv, [GatewayNext]_gatewayVars, NEW t \in Callers, NEW h \in DOMAIN blocks,
         HeldBy(t, h), pc'[t] = pc[t], draft'[t] = draft[t], stage'[t] = stage[t],
         stage[t] = "signing" => round' = round
  PROVE  HeldBy(t, h)'
<1>1. DOMAIN blocks[h].signatures \subseteq DOMAIN blocks'[h].signatures
  BY GatewayStep DEF NothingIsUndone
<1>2. CASE pc[t] = "sign" /\ draft[t].height = h
  BY <1>2 DEF HeldBy
<1>3. CASE /\ stage[t] = "signing" /\ round.height = h
           /\ {Node} \cup {LocalSigners[i] : i \in 1 .. (round.next - 1)}
                \subseteq DOMAIN blocks[h].signatures
  BY <1>1, <1>3 DEF HeldBy
<1> QED BY <1>2, <1>3 DEF HeldBy

\* The proposer's own signature begins the round.
LEMMA OwnKeepsHeld ==
  ASSUME GatewayInv, NEW t \in Callers, NEW h \in OpenHeights, HeldBy(t, h),
         OwnSignature(t), h \in OpenHeights'
  PROVE  HeldBy(t, h)'
<1>1. /\ SignOwn(t) /\ pc[t] = "sign" /\ stage[t] # "signing"
  BY DEF OwnSignature, SignOwn, Proposing, At
<1>2. draft[t].height = h
  BY <1>1 DEF HeldBy
<1>3. NodeOf[t] = Node
  BY GatewayConfig
<1>4. ~ ReturnsFinal(h)
  BY DEF ReturnsFinal, OpenHeights
<1>5. stage' = [stage EXCEPT ![t] = "signing"] /\ round' = [height |-> h, next |-> 1]
  BY <1>2, <1>4 DEF OwnSignature
<1>6. stage'[t] = "signing" /\ round'.height = h /\ round'.next = 1
  BY <1>5 DEF GatewayInv, LockInv
<1>7. h \notin FinalizedHeights
  BY DEF OpenHeights, FinalizedHeights
<1>8. InsertBlockSignature(h, Node, Signature(NodeKeyOf[t], BlockHash(blocks[h].header)))
  BY <1>1, <1>2, <1>3, <1>7 DEF SignOwn
<1>9. Node \in DOMAIN blocks'[h].signatures
  BY <1>8, SignatureAdds DEF GatewayInv, LedgerInv, TablesInv
<1>10. {LocalSigners[i] : i \in 1 .. (round'.next - 1)} = {}
  BY <1>6
<1> QED BY <1>6, <1>9, <1>10 DEF HeldBy

\* Each further one brings it forward.
LEMMA NextKeepsHeld ==
  ASSUME GatewayInv, NEW t \in Callers, NEW h \in OpenHeights, HeldBy(t, h),
         NextSignature(t), [GatewayNext]_gatewayVars, h \in OpenHeights'
  PROVE  HeldBy(t, h)'
<1>1. stage[t] = "signing" /\ pc[t] # "sign"
  BY DEF NextSignature, At, GatewayInv, LockInv
<1>2. /\ round.height = h
      /\ {Node} \cup {LocalSigners[i] : i \in 1 .. (round.next - 1)}
           \subseteq DOMAIN blocks[h].signatures
  BY <1>1 DEF HeldBy
<1>3. round \in [height : Nat, next : Nat] /\ round.next > 0
  BY <1>1 DEF GatewayInv, LockInv
<1>4. ~ ReturnsFinal(h)
  BY DEF ReturnsFinal, OpenHeights
<1>5. round' = [round EXCEPT !.next = @ + 1] /\ stage' = stage
  BY <1>2, <1>4 DEF NextSignature
<1>6. round'.height = h /\ round'.next = round.next + 1
  BY <1>2, <1>3, <1>5
<1>7. DOMAIN blocks[h].signatures \subseteq DOMAIN blocks'[h].signatures
  BY GatewayStep DEF NothingIsUndone, OpenHeights
<1>8. LocalSigners[round.next] \in DOMAIN blocks'[h].signatures
  <2>1. CASE AlreadySigned(h, LocalSigners[round.next])
    BY <1>7, <2>1 DEF AlreadySigned
  <2>2. CASE SignBlock(h, LocalSigners[round.next], KeyOf[LocalSigners[round.next]])
    BY <2>2, SignatureAdds DEF SignBlock, GatewayInv, LedgerInv, TablesInv
  <2> QED BY <1>2, <2>1, <2>2 DEF NextSignature
<1>9. 1 .. (round'.next - 1) = 1 .. (round.next - 1) \cup {round.next}
  BY <1>3, <1>6
<1>10. {Node} \cup {LocalSigners[i] : i \in 1 .. (round'.next - 1)}
         \subseteq DOMAIN blocks'[h].signatures
  BY <1>2, <1>7, <1>8, <1>9
<1> QED BY <1>1, <1>5, <1>6, <1>10 DEF HeldBy

\* Interruptions are counted, and never forgotten.
LEMMA InterruptedStep ==
  ASSUME Counted, [GatewayNext]_gatewayVars
  PROVE  /\ Counted'
         /\ Interrupted => Interrupted'
         /\ ~ Interrupted' => Quiet \/ \E t \in Callers : Handles(t)
<1>1. CASE Quiet
  BY <1>1, QuietStep DEF Counted, Interrupted
<1>2. CASE \E t \in Callers : Handles(t)
  <2>1. UNCHANGED <<crashes, faults>>
    BY <1>2 DEF Handles, HandlerStep, Submit, RequestSeal, CountPending, Lock, RecheckPending,
                RecheckOpen, ProposeStep, ProposeRaises, OwnSignature, NextSignature, counters
  <2> QED BY <1>2, <2>1 DEF Counted, Interrupted
<1>3. CASE Crash
  BY <1>3 DEF Crash, Counted, Interrupted
<1>4. CASE \E t \in Callers : Fault(t)
  BY <1>4 DEF Fault, Counted, Interrupted
<1> QED BY <1>1, <1>2, <1>3, <1>4, StepKinds

\* A step of the thread that holds a proposal leaves it with its hold.
LEMMA OwnStepKeepsHeld ==
  ASSUME GatewayInv, NEW t \in Callers, NEW h \in OpenHeights, HeldBy(t, h),
         Handles(t), [GatewayNext]_gatewayVars, h \in OpenHeights'
  PROVE  HeldBy(t, h)'
<1>1. \/ stage[t] = "signing" /\ pc[t] = "idle"
      \/ stage[t] \in {"autopropose", "propose"} /\ pc[t] = "sign"
  BY DEF HeldBy, GatewayInv, LockInv
<1>2. CASE OwnSignature(t)
  BY <1>2, OwnKeepsHeld
<1>3. CASE NextSignature(t)
  BY <1>3, NextKeepsHeld
<1>4. /\ ~ \E e \in Events : Submit(t, e)
      /\ ~ RequestSeal(t) /\ ~ CountPending(t) /\ ~ Lock(t) /\ ~ RecheckPending(t)
      /\ ~ RecheckOpen(t)
  BY <1>1 DEF Submit, RequestSeal, CountPending, Lock, RecheckPending, RecheckOpen, At
<1>5. ~ ProposeStep(t) /\ ~ ProposeRaises(t)
  BY <1>1 DEF ProposeStep, ProposeRaises, Proposing, At, CheckNoOpenBlock, TakeSnapshot,
              SelectPending, LinkToPrevious, Propose, Raise, Refused
<1> QED BY <1>2, <1>3, <1>4, <1>5 DEF Handles, HandlerStep

\* No step drops a proposal, unless it is an interruption.
LEMMA InHandStep ==
  ASSUME GatewayInv, Counted, InHand, [GatewayNext]_gatewayVars
  PROVE  InHand'
<1> SUFFICES ASSUME ~ Interrupted', NEW h \in OpenHeights'
             PROVE  \E t \in Callers : HeldBy(t, h)'
  BY DEF InHand
<1>1. ~ Interrupted /\ (Quiet \/ \E t \in Callers : Handles(t))
  BY InterruptedStep
<1>2. CASE \E t \in Callers : ProposesIn(t) /\ h = draft[t].height
  <2>1. PICK t \in Callers : ProposesIn(t) /\ h = draft[t].height
    BY <1>2
  <2>2. pc'[t] = "sign" /\ draft' = draft
    BY <2>1, ProposalTakes DEF ProposesIn, GatewayInv
  <2> QED BY <2>1, <2>2 DEF HeldBy
<1>3. CASE h \in OpenHeights
  <2>1. PICK t \in Callers : HeldBy(t, h)
    BY <1>1, <1>3 DEF InHand
  <2>2. h \in DOMAIN blocks
    BY <1>3 DEF OpenHeights
  <2>3. CASE Quiet
    BY <2>1, <2>2, <2>3, QuietStep, OthersKeepHeld
  <2>4. CASE Handles(t)
    BY <1>3, <2>1, <2>4, OwnStepKeepsHeld
  <2>5. ASSUME NEW u \in Callers, u # t, Handles(u)
        PROVE  HeldBy(t, h)'
    <3>1. pc'[t] = pc[t] /\ draft'[t] = draft[t] /\ stage'[t] = stage[t]
      BY <2>5, OthersWait
    <3>2. stage[t] = "signing" => seal_lock = t
      BY DEF GatewayInv, LockInv, UnderLock
    <3>3. stage[t] = "signing" => round' = round
      BY <2>5, <3>2, OthersWait
    <3> QED BY <2>1, <2>2, <3>1, <3>3, OthersKeepHeld
  <2> QED BY <1>1, <2>3, <2>4, <2>5
<1> QED BY <1>2, <1>3, OpenBefore

----------------------------------------------------------------------------
(* What is taken is a batch. *)

\* The backlog is finite, and a larger one has as many events at least.
LEMMA Backlog ==
  ASSUME IsFiniteSet(DOMAIN events)
  PROVE  /\ IsFiniteSet(Pending) /\ Cardinality(Pending) \in Nat
         /\ \A S \in SUBSET Pending : IsFiniteSet(S) /\ Cardinality(S) \in Nat
                                      /\ Cardinality(S) <= Cardinality(Pending)
<1>1. Pending \subseteq DOMAIN events
  BY DEF Pending
<1>2. IsFiniteSet(Pending)
  BY <1>1, FS_Subset
<1> QED BY <1>2, FS_Subset, FS_CardinalityType

\* A full batch stays one as long as nothing is proposed.
LEMMA FullStays ==
  ASSUME IsFiniteSet(DOMAIN events)', FullBatch, Pending \subseteq Pending'
  PROVE  FullBatch'
<1>1. IsFiniteSet(Pending')
  BY FS_Subset DEF Pending
<1>2. /\ Cardinality(Pending) <= Cardinality(Pending')
      /\ Cardinality(Pending) \in Nat /\ Cardinality(Pending') \in Nat
  BY <1>1, FS_Subset, FS_CardinalityType
<1> QED BY <1>2, GatewayConfig DEF FullBatch

\* There are finitely many events at any time.
LEMMA FiniteStep ==
  ASSUME GatewayInv, IsFiniteSet(DOMAIN events), [GatewayNext]_gatewayVars
  PROVE  IsFiniteSet(DOMAIN events)'
<1>1. \/ DOMAIN events' = DOMAIN events
      \/ \E e : DOMAIN events' = DOMAIN events \cup {e}
  BY BacklogMoves, ProposalTakes DEF AcceptsIn, ProposesIn, GatewayInv
<1> QED BY <1>1, FS_AddElement

\* The conjuncts of Batches for one thread.
Batch(t) ==
  /\ stage[t] \in {"open", "autopropose"} /\ pc[t] # "sign" => FullBatch
  /\ stage[t] = "autopropose" /\ pc[t] \in {"link", "create"} =>
       Cardinality(draft[t].event_hashes) = BatchSize

\* A thread that stands still keeps its batch.
LEMMA BatchStays ==
  ASSUME GatewayInv, IsFiniteSet(DOMAIN events), [GatewayNext]_gatewayVars,
         NEW t \in Callers, Batch(t),
         pc'[t] = pc[t], draft'[t] = draft[t], stage'[t] = stage[t]
  PROVE  Batch(t)'
<1>1. CASE stage[t] \in {"open", "autopropose"} /\ pc[t] # "sign"
  <2>1. ASSUME NEW u \in Callers, ProposesIn(u)
        PROVE  FALSE
    <3>1. stage[u] \in UnderLock /\ stage[t] \in UnderLock
      BY <1>1, <2>1 DEF ProposesIn, Proposing, At, UnderLock
    <3>2. u = t
      BY <3>1 DEF GatewayInv, LockInv
    <3> QED BY <1>1, <2>1, <3>2, ProposalTakes DEF ProposesIn, GatewayInv
  <2>2. Pending \subseteq Pending'
    BY <2>1, BacklogMoves DEF AcceptsIn
  <2>3. FullBatch'
    BY <1>1, <2>2, FiniteStep, FullStays DEF Batch
  <2> QED BY <2>3 DEF Batch
<1> QED BY <1>1 DEF Batch

\* A thread that moves under the lock looks before it takes.
LEMMA BatchMoves ==
  ASSUME GatewayInv, IsFiniteSet(DOMAIN events), [GatewayNext]_gatewayVars,
         NEW t \in Callers, Batch(t), Handles(t)
  PROVE  Batch(t)'
<1>0. /\ pc = [u \in Callers |-> pc[u]]
      /\ draft = [u \in Callers |-> [authorities   |-> draft[u].authorities,
                                     event_hashes  |-> draft[u].event_hashes,
                                     height        |-> draft[u].height,
                                     previous_hash |-> draft[u].previous_hash]]
      /\ stage = [u \in Callers |-> stage[u]]
      /\ pc[t] # "idle" => stage[t] \in {"autopropose", "propose"}
  BY DEF GatewayInv, LedgerInv, CallersTypeOK, LockInv
<1>1. CASE stage'[t] \notin {"open", "autopropose"}
  BY <1>1 DEF Batch
<1>2. CASE \E e \in Events : Submit(t, e)
  BY <1>0, <1>1, <1>2 DEF Submit, Goto
<1>3. CASE RequestSeal(t) \/ CountPending(t) \/ Lock(t)
  BY <1>0, <1>1, <1>3 DEF RequestSeal, CountPending, Lock, Goto, Respond
<1>4. CASE RecheckPending(t) \/ RecheckOpen(t)
  <2>1. pc'[t] = "idle" /\ Pending' = Pending /\ (stage'[t] = "idle" \/ FullBatch)
    BY <1>0, <1>4 DEF RecheckPending, RecheckOpen, Goto, Respond, At, Batch, vars, Pending
  <2> QED BY <1>1, <2>1 DEF Batch, FullBatch
<1>5. CASE ProposeStep(t)
  <2>1. stage' = stage /\ stage[t] \in {"autopropose", "propose"}
    BY <1>5 DEF ProposeStep, Proposing, At, control
  <2>2. CASE Propose(t)
    BY <2>2, ProposalTakes DEF Batch, GatewayInv
  <2>3. CASE ~ Propose(t)
    <3>1. Pending' = Pending /\ pc[t] # "sign"
      BY <1>5, <2>3 DEF ProposeStep, CheckNoOpenBlock, TakeSnapshot, SelectPending,
                        LinkToPrevious, tables, Pending
    <3>2. stage'[t] = "autopropose" => FullBatch'
      BY <2>1, <3>1 DEF Batch, FullBatch
    <3>3. ASSUME stage[t] = "autopropose", pc'[t] \in {"link", "create"}
          PROVE  Cardinality(draft'[t].event_hashes) = BatchSize
      <4>1. CASE SelectPending(t) /\ WithinLimit(t)
        BY <3>3, <4>1 DEF WithinLimit
      <4>2. CASE LinkToPrevious(t)
        <5>1. draft'[t].event_hashes = draft[t].event_hashes /\ pc[t] = "link"
          BY <1>0, <4>2 DEF LinkToPrevious
        <5> QED BY <3>3, <5>1 DEF Batch
      <4>3. CASE CheckNoOpenBlock(t) \/ TakeSnapshot(t)
        BY <1>0, <3>3, <4>3 DEF CheckNoOpenBlock, TakeSnapshot
      <4> QED BY <1>5, <2>3, <4>1, <4>2, <4>3 DEF ProposeStep
    <3> QED BY <2>1, <3>2, <3>3 DEF Batch
  <2> QED BY <2>2, <2>3
<1>6. CASE ProposeRaises(t) \/ OwnSignature(t) \/ NextSignature(t)
  BY <1>0, <1>1, <1>6 DEF ProposeRaises, OwnSignature, NextSignature, Respond, At
<1> QED BY <1>2, <1>3, <1>4, <1>5, <1>6 DEF Handles, HandlerStep

\* From the look under the lock to the proposal there is a full batch.
LEMMA BatchesStep ==
  ASSUME GatewayInv, Batches, IsFiniteSet(DOMAIN events), [GatewayNext]_gatewayVars
  PROVE  Batches'
<1> SUFFICES ASSUME NEW t \in Callers PROVE Batch(t)'
  BY DEF Batches, Batch
<1>1. Batch(t)
  BY DEF Batches, Batch
<1>2. CASE Quiet
  BY <1>1, <1>2, QuietStep, BatchStays
<1>3. ASSUME NEW u \in Callers, Handles(u) \/ Fault(u), u # t
      PROVE  Batch(t)'
  BY <1>1, <1>3, OthersWait, BatchStays
<1>4. CASE Handles(t)
  BY <1>1, <1>4, BatchMoves
<1>5. CASE Crash \/ Fault(t)
  <2>1. stage'[t] = "idle"
    BY <1>5 DEF Crash, Fault, Respond, GatewayInv, LockInv
  <2> QED BY <2>1 DEF Batch
<1> QED BY <1>2, <1>3, <1>4, <1>5, StepKinds

----------------------------------------------------------------------------
(* No batch is left without a look. *)

\* An automatic seal is never refused while nothing was interrupted.
LEMMA AutomaticIsNotRefused ==
  ASSUME SealingInv, ~ Interrupted, NEW t \in Callers, stage[t] = "autopropose"
  PROVE  ~ ProposeRaises(t)
<1> SUFFICES ASSUME ProposeRaises(t) PROVE FALSE
  OBVIOUS
<1> USE DEF SealingInv
<1>1. CASE pc[t] = "idle" /\ OpenHeights # {}
  <2>1. PICK h \in OpenHeights : TRUE
    BY <1>1
  <2>2. HeldBy(t, h)
    BY HolderIs DEF UnderLock
  <2> QED BY <1>1, <2>2 DEF HeldBy
<1>2. CASE pc[t] = "snapshot" /\ ~ (EnoughAuthorities(t) /\ MayPropose(t))
  <2>1. up
    BY DEF ProposeRaises, Proposing, At
  <2>2. StartupAuthorities \subseteq DOMAIN authorities
    BY <2>1 DEF Registered
  <2>3. IsFiniteSet(DOMAIN authorities)
    BY SnapshotType DEF GatewayInv, LedgerInv, TablesInv, TablesTypeOK
  <2>4. EnoughAuthorities(t)
    <3>1. /\ Cardinality(DOMAIN authorities) \in Nat
          /\ Len(LocalSigners) + 1 <= Cardinality(DOMAIN authorities)
      BY <2>2, <2>3, StartupIsEnough
    <3>2. QuorumOf[t] <= Len(LocalSigners) + 1 /\ QuorumOf[t] \in Nat
      BY GatewayConfig, CallerConfig
    <3>3. Len(LocalSigners) \in Nat
      BY GatewayConfig, LenProperties
    <3> QED BY <3>1, <3>2, <3>3 DEF EnoughAuthorities
  <2>5. MayPropose(t)
    <3>1. Node \in DOMAIN authorities /\ authorities[Node] = KeyOf[Node]
      BY <2>2 DEF StartupAuthorities, Registered
    <3> QED BY <3>1, GatewayConfig DEF MayPropose
  <2> QED BY <1>2, <2>4, <2>5
<1>3. CASE pc[t] = "select" /\ Pending = {}
  <2>1. FullBatch
    BY <1>3 DEF Batches
  <2> QED BY <1>3, <2>1, FS_EmptySet, GatewayConfig DEF FullBatch
<1>4. CASE pc[t] = "create" /\ ~ Proposable(Header(t))
  BY <1>4, DraftIsProposable
<1> QED BY <1>1, <1>2, <1>3, <1>4 DEF ProposeRaises, Raise, Refused

\* A thread comes, stays or goes.
LEMMA OwingMoves ==
  ASSUME IsFiniteSet(Owing), NEW t \in Callers,
         \A u \in Callers \ {t} : stage'[u] = stage[u]
  PROVE  /\ IsFiniteSet(Owing') /\ Cardinality(Owing) \in Nat
         /\ Cardinality(Owing') \in Nat
         /\ t \notin Owing /\ t \in Owing' => Cardinality(Owing') = Cardinality(Owing) + 1
         /\ (t \in Owing <=> t \in Owing') => Cardinality(Owing') = Cardinality(Owing)
         /\ t \in Owing /\ t \notin Owing' => Cardinality(Owing') = Cardinality(Owing) - 1
<1>1. \A u \in Callers \ {t} : u \in Owing <=> u \in Owing'
  BY DEF Owing
<1>2. Owing \subseteq Callers /\ Owing' \subseteq Callers
  BY DEF Owing
<1>3. CASE t \in Owing <=> t \in Owing'
  <2>1. Owing' = Owing
    BY <1>1, <1>2, <1>3
  <2> QED BY <1>3, <2>1, FS_CardinalityType
<1>4. CASE t \notin Owing /\ t \in Owing'
  <2>1. Owing' = Owing \cup {t}
    BY <1>1, <1>2, <1>4
  <2> QED BY <1>4, <2>1, FS_AddElement, FS_CardinalityType
<1>5. CASE t \in Owing /\ t \notin Owing'
  <2>1. Owing' = Owing \ {t}
    BY <1>1, <1>2, <1>5
  <2> QED BY <1>5, <2>1, FS_RemoveElement, FS_CardinalityType
<1> QED BY <1>3, <1>4, <1>5

\* The threads that owe a look are finitely many at any time.
LEMMA OwingStep ==
  ASSUME GatewayInv, IsFiniteSet(Owing), [GatewayNext]_gatewayVars
  PROVE  IsFiniteSet(Owing')
<1>1. CASE Quiet
  <2>1. Owing' = Owing
    BY <1>1, QuietStep DEF Owing
  <2> QED BY <2>1
<1>2. ASSUME NEW t \in Callers, Handles(t) \/ Fault(t)
      PROVE  IsFiniteSet(Owing')
  BY <1>2, OthersWait, OwingMoves
<1>3. CASE Crash
  <2>1. Owing' = {}
    BY <1>3 DEF Crash, Owing
  <2> QED BY <2>1, FS_EmptySet
<1> QED BY <1>1, <1>2, <1>3, StepKinds

\* The bound of Owed, and what it says of a thread that has just proposed.
Bounded == Cardinality(Pending) <= BatchSize - 1 + Cardinality(Owing)

SpareBatch ==
  \A t \in Callers : stage[t] = "autopropose" /\ pc[t] = "sign" =>
     Cardinality(Pending) + 1 <= BatchSize - 1 + Cardinality(Owing)

\* While nothing but its own thread moves the spare place is not touched.
LEMMA SpareStays ==
  ASSUME SpareBatch, GatewayInv, NEW t \in Callers, Handles(t),
         pc'[t] # "sign" \/ stage'[t] # "autopropose",
         Cardinality(Pending) \in Nat, Cardinality(Pending') \in Nat,
         Cardinality(Owing) \in Nat, Cardinality(Owing') \in Nat,
         Cardinality(Pending') + Cardinality(Owing)
           <= Cardinality(Pending) + Cardinality(Owing')
  PROVE  SpareBatch'
<1> SUFFICES ASSUME NEW u \in Callers, stage'[u] = "autopropose", pc'[u] = "sign"
             PROVE  Cardinality(Pending') + 1 <= BatchSize - 1 + Cardinality(Owing')
  BY DEF SpareBatch
<1>1. u # t
  OBVIOUS
<1>2. stage[u] = "autopropose" /\ pc[u] = "sign"
  BY <1>1, OthersWait
<1>3. Cardinality(Pending) + 1 <= BatchSize - 1 + Cardinality(Owing)
  BY <1>2 DEF SpareBatch
<1> QED BY <1>3, GatewayConfig

\* What a handler does leaves the backlog within the bound.
LEMMA HandlerKeepsBound ==
  ASSUME SealingInv, ~ Interrupted, Bounded, SpareBatch, [GatewayNext]_gatewayVars,
         NEW t \in Callers, Handles(t)
  PROVE  Bounded' /\ SpareBatch'
<1> USE DEF SealingInv
<1> DEFINE N == Cardinality(Pending)
           W == Cardinality(Owing)
<1>0. /\ IsFiniteSet(DOMAIN events) /\ IsFiniteSet(Owing)
      /\ IsFiniteSet(Pending) /\ N \in Nat /\ W \in Nat
      /\ BatchSize \in Nat /\ BatchSize > 0
  BY Backlog, FS_CardinalityType, GatewayConfig DEF Owed
<1>1. /\ IsFiniteSet(Pending') /\ N' \in Nat /\ W' \in Nat
      /\ t \notin Owing /\ t \in Owing' => W' = W + 1
      /\ (t \in Owing <=> t \in Owing') => W' = W
      /\ t \in Owing /\ t \notin Owing' => W' = W - 1
  <2>1. IsFiniteSet(DOMAIN events')
    BY <1>0, FiniteStep
  <2>2. IsFiniteSet(Pending')
    BY <2>1, FS_Subset DEF Pending
  <2> QED BY <1>0, <2>2, OthersWait, OwingMoves, FS_CardinalityType
<1>2. N <= BatchSize - 1 + W
  BY DEF Bounded
<1>3. /\ stage = [u \in Callers |-> stage[u]]
      /\ pc = [u \in Callers |-> pc[u]]
      /\ pc[t] # "idle" => stage[t] \in {"autopropose", "propose"}
      /\ stage[t] \in UnderLock => \A u \in Callers \ {t} : stage[u] \notin UnderLock
  BY DEF GatewayInv, LockInv, LedgerInv, CallersTypeOK
<1>4. t \in Owing <=> stage[t] \in {"count", "lock", "recheck", "open", "autopropose"}
  BY DEF Owing
<1>5. t \in Owing' <=> stage'[t] \in {"count", "lock", "recheck", "open", "autopropose"}
  BY DEF Owing
<1>6. ASSUME W' = W, N' = N, pc'[t] # "sign" \/ stage'[t] # "autopropose"
      PROVE  Bounded' /\ SpareBatch'
  BY <1>0, <1>1, <1>2, <1>6, SpareStays DEF Bounded
<1>7. ASSUME W' = W - 1, N' = N, ~ FullBatch, stage'[t] = "idle"
      PROVE  Bounded' /\ SpareBatch'
  <2>1. N <= BatchSize - 1
    BY <1>0, <1>7 DEF FullBatch
  <2>2. Bounded'
    BY <1>0, <1>1, <1>7, <2>1 DEF Bounded
  <2>3. ASSUME NEW u \in Callers, stage'[u] = "autopropose", pc'[u] = "sign"
        PROVE  N' + 1 <= BatchSize - 1 + W'
    <3>1. u \in Owing'
      BY <2>3 DEF Owing
    <3>2. IsFiniteSet(Owing')
      BY <1>0, OwingStep
    <3>3. W' # 0
      BY <3>1, <3>2, FS_EmptySet
    <3> QED BY <1>0, <1>1, <1>7, <2>1, <3>3
  <2> QED BY <2>2, <2>3 DEF SpareBatch
<1>8. CASE \E e \in Events : Submit(t, e)
  <2>1. /\ stage[t] = "idle" /\ stage'[t] = "count" /\ pc[t] = "idle" /\ pc' = pc
    BY <1>3, <1>8 DEF Submit, At, Goto, AcceptEvent, Duplicate, vars
  <2>2. W' = W + 1
    BY <1>1, <1>4, <1>5, <2>1
  <2>3. N' = N \/ N' = N + 1
    <3>1. PICK e \in Events : Submit(t, e)
      BY <1>8
    <3>2. CASE Duplicate(e)
      BY <3>2 DEF Duplicate, vars, Pending
    <3>3. CASE AcceptEvent(e)
      <4>1. Pending' = Pending \cup {e}
        BY <3>3 DEF AcceptEvent, InsertVerifiedEvent, WithRow, Pending
      <4> QED BY <1>0, <4>1, FS_AddElement
    <3> QED BY <3>1, <3>2, <3>3 DEF Submit
  <2>4. N' <= BatchSize - 1 + W' /\ N' + W <= N + W'
    BY <1>0, <1>1, <1>2, <2>2, <2>3
  <2>5. Bounded'
    BY <2>4 DEF Bounded
  <2>6. SpareBatch'
    BY <1>0, <1>1, <2>1, <2>4, SpareStays
  <2> QED BY <2>5, <2>6
<1>9. CASE RequestSeal(t) \/ Lock(t)
  <2>1. N' = N /\ pc' = pc /\ pc[t] = "idle"
    BY <1>3, <1>9 DEF RequestSeal, Lock, At, vars, Pending
  <2>2. t \in Owing <=> t \in Owing'
    BY <1>3, <1>4, <1>5, <1>9 DEF RequestSeal, Lock, At, Goto
  <2>3. W' = W
    BY <1>1, <2>2
  <2> QED BY <1>6, <2>1, <2>3
<1>10. CASE CountPending(t) \/ RecheckPending(t)
  <2>1. N' = N /\ pc' = pc /\ pc[t] = "idle" /\ stage[t] \in {"count", "recheck"}
    BY <1>3, <1>10 DEF CountPending, RecheckPending, At, vars, Pending
  <2>2. CASE FullBatch
    <3>1. stage'[t] \in {"lock", "open"}
      BY <1>3, <1>10, <2>2 DEF CountPending, RecheckPending, Goto
    <3>2. W' = W
      BY <1>1, <1>4, <1>5, <2>1, <3>1
    <3> QED BY <1>6, <2>1, <3>2
  <2>3. CASE ~ FullBatch
    <3>1. stage'[t] = "idle"
      BY <1>3, <1>10, <2>3 DEF CountPending, RecheckPending, Respond
    <3>2. W' = W - 1
      BY <1>1, <1>4, <1>5, <2>1, <3>1
    <3> QED BY <1>7, <2>1, <2>3, <3>1, <3>2
  <2> QED BY <2>2, <2>3
<1>11. CASE RecheckOpen(t)
  <2>1. N' = N /\ pc' = pc /\ pc[t] = "idle" /\ stage[t] = "open"
    BY <1>3, <1>11 DEF RecheckOpen, At, vars, Pending
  <2>2. OpenHeights = {}
    <3>1. SUFFICES ASSUME NEW h \in OpenHeights PROVE FALSE
      OBVIOUS
    <3>2. HeldBy(t, h)
      BY <2>1, HolderIs DEF UnderLock
    <3> QED BY <2>1, <3>2 DEF HeldBy
  <2>3. stage'[t] = "autopropose"
    BY <1>3, <1>11, <2>2 DEF RecheckOpen, Goto
  <2>4. W' = W
    BY <1>1, <1>4, <1>5, <2>1, <2>3
  <2> QED BY <1>6, <2>1, <2>4
<1>12. CASE ProposeStep(t)
  <2>1. stage' = stage /\ stage[t] \in {"autopropose", "propose"}
    BY <1>12 DEF ProposeStep, Proposing, At, control
  <2>2. W' = W
    BY <1>1, <1>4, <1>5, <2>1
  <2>3. CASE ~ Propose(t)
    <3>1. N' = N /\ pc'[t] # "sign"
      BY <1>3, <1>12, <2>3 DEF ProposeStep, CheckNoOpenBlock, TakeSnapshot, SelectPending,
                               LinkToPrevious, tables, Pending
    <3> QED BY <1>6, <2>2, <3>1
  <2>4. CASE Propose(t)
    <3> DEFINE E == draft[t].event_hashes
    <3>1. E \subseteq Pending /\ Pending' = Pending \ E
      BY <2>4, ProposalTakes DEF GatewayInv
    <3>2. N' = N - Cardinality(E) /\ Cardinality(E) \in Nat
      <4>1. IsFiniteSet(E) /\ Cardinality(E) \in Nat
        BY <1>0, <3>1, FS_Subset, FS_CardinalityType
      <4>2. Cardinality(Pending \ E) = Cardinality(Pending) - Cardinality(Pending \cap E)
        BY <1>0, <4>1, FS_Difference
      <4>3. Pending \cap E = E
        BY <3>1
      <4> QED BY <3>1, <4>1, <4>2, <4>3
    <3>3. N' <= N
      BY <1>0, <1>1, <3>2
    <3>4. Bounded'
      BY <1>0, <1>1, <1>2, <2>2, <3>3 DEF Bounded
    <3>5. CASE stage[t] = "propose"
      <4>1. stage'[t] # "autopropose"
        BY <2>1, <3>5
      <4>2. N' + W <= N + W'
        BY <1>0, <1>1, <2>2, <3>3
      <4> QED BY <1>0, <1>1, <3>4, <4>1, <4>2, SpareStays
    <3>6. CASE stage[t] = "autopropose"
      <4>1. Cardinality(E) = BatchSize
        BY <2>4, <3>6 DEF Batches, Propose
      <4>2. W # 0
        BY <1>0, <1>4, <3>6, FS_EmptySet
      <4>3. N' + 1 <= BatchSize - 1 + W'
        BY <1>0, <1>1, <1>2, <2>2, <3>2, <4>1, <4>2
      <4> QED BY <3>4, <4>3 DEF SpareBatch
    <3> QED BY <2>1, <3>5, <3>6
  <2> QED BY <2>3, <2>4
<1>13. CASE ProposeRaises(t)
  <2>1. stage[t] = "propose" /\ stage'[t] = "idle"
    BY <1>3, <1>13, AutomaticIsNotRefused DEF ProposeRaises, Proposing, At, Respond
  <2>2. N' = N
    BY <1>13 DEF ProposeRaises, Raise, tables, vars, Pending
  <2>3. W' = W
    BY <1>1, <1>4, <1>5, <2>1
  <2> QED BY <1>6, <2>1, <2>2, <2>3
<1>14. CASE OwnSignature(t)
  <2>1. /\ stage[t] \in {"autopropose", "propose"} /\ pc[t] = "sign"
        /\ stage'[t] \in {"idle", "signing"}
    BY <1>3, <1>14 DEF OwnSignature, Proposing, At, Respond, SignOwn
  <2>2. N' = N
    <3>1. SignOwn(t)
      BY <1>14 DEF OwnSignature
    <3>2. TablesTypeOK
      BY DEF GatewayInv, LedgerInv, TablesInv
    <3> QED BY <3>1, <3>2, SignatureAdds DEF SignOwn, tables, Pending
  <2>3. CASE stage[t] = "propose"
    <3>1. W' = W
      BY <1>1, <1>4, <1>5, <2>1, <2>3
    <3> QED BY <1>6, <2>1, <2>2, <3>1
  <2>4. CASE stage[t] = "autopropose"
    <3>1. W' = W - 1
      BY <1>1, <1>4, <1>5, <2>1, <2>4
    <3>2. N + 1 <= BatchSize - 1 + W
      BY <2>1, <2>4 DEF SpareBatch
    <3>3. Bounded'
      BY <1>0, <1>1, <2>2, <3>1, <3>2 DEF Bounded
    <3>4. \A u \in Callers : stage'[u] # "autopropose"
      BY <1>3, <2>1, OthersWait DEF UnderLock
    <3> QED BY <3>3, <3>4 DEF SpareBatch
  <2> QED BY <2>1, <2>3, <2>4
<1>15. CASE NextSignature(t)
  <2>1. stage[t] = "signing" /\ stage'[t] \in {"idle", "signing"}
    BY <1>3, <1>15 DEF NextSignature, At, Respond
  <2>2. N' = N
    <3>1. TablesTypeOK
      BY DEF GatewayInv, LedgerInv, TablesInv
    <3> QED
      BY <1>15, <3>1, SignatureAdds DEF NextSignature, SignBlock, AlreadySigned, vars, Pending
  <2>3. W' = W
    BY <1>1, <1>4, <1>5, <2>1
  <2> QED BY <1>6, <2>1, <2>2, <2>3
<1> QED
  BY <1>8, <1>9, <1>10, <1>11, <1>12, <1>13, <1>14, <1>15 DEF Handles, HandlerStep

\* No step leaves the backlog above the bound, unless it is an interruption.
LEMMA OwedStep ==
  ASSUME SealingInv, [GatewayNext]_gatewayVars
  PROVE  Owed'
<1> USE DEF SealingInv
<1>1. IsFiniteSet(DOMAIN events)' /\ IsFiniteSet(Owing')
  BY FiniteStep, OwingStep DEF Owed
<1>2. SUFFICES ASSUME ~ Interrupted' PROVE Bounded' /\ SpareBatch'
  BY <1>1 DEF Owed, Bounded, SpareBatch
<1>3. ~ Interrupted /\ (Quiet \/ \E t \in Callers : Handles(t))
  BY <1>2, InterruptedStep
<1>4. Bounded /\ SpareBatch
  BY <1>3 DEF Owed, Bounded, SpareBatch
<1>5. CASE Quiet
  <2>1. UNCHANGED <<pc, stage>>
    BY <1>5, QuietStep
  <2>2. \A t \in Callers : ~ AcceptsIn(t)
    BY <1>5, <2>1 DEF AcceptsIn, Submit, At, Goto, GatewayInv, LockInv
  <2>3. \A t \in Callers : ~ ProposesIn(t)
    BY <2>1 DEF ProposesIn, Propose, GatewayInv, LedgerInv, CallersTypeOK
  <2>4. Pending' = Pending
    BY <2>2, <2>3, BacklogMoves
  <2> QED BY <1>4, <2>1, <2>4 DEF Bounded, SpareBatch, Owing
<1>6. CASE \E t \in Callers : Handles(t)
  BY <1>3, <1>4, <1>6, HandlerKeepsBound
<1> QED BY <1>3, <1>5, <1>6

----------------------------------------------------------------------------
(* The theorems. *)

\* Nothing is open, owed or pending before the first start.
LEMMA SealingInitInv == GatewayInit => SealingInv
<1> SUFFICES ASSUME GatewayInit PROVE SealingInv
  OBVIOUS
<1>1. GatewayInv
  BY GatewayInitInv
<1>2. /\ DOMAIN authorities = {} /\ DOMAIN blocks = {} /\ DOMAIN events = {}
      /\ OpenHeights = {} /\ Pending = {} /\ Owing = {} /\ ~ up
      /\ crashes = 0 /\ faults = 0
      /\ \A t \in Callers : pc[t] = "idle" /\ stage[t] = "idle"
  BY DEF GatewayInit, Init, StoreInit, OpenHeights, Pending, Owing
<1>3. Counted /\ Registered /\ InHand /\ Batches
  BY <1>2 DEF Counted, Registered, InHand, Batches
<1>4. Owed
  <2>1. Cardinality(Pending) = 0 /\ Cardinality(Owing) = 0 /\ IsFiniteSet({})
    BY <1>2, FS_EmptySet
  <2> QED BY <1>2, <2>1, GatewayConfig DEF Owed
<1> QED BY <1>1, <1>3, <1>4 DEF SealingInv

\* The invariant holds of every reachable state.
THEOREM SealingInvariant == GatewaySpec => []SealingInv
<1>1. GatewayInit => SealingInv
  BY SealingInitInv
<1>2. SealingInv /\ [GatewayNext]_gatewayVars => SealingInv'
  BY GatewayStep, InterruptedStep, RegisteredStep, InHandStep, BatchesStep, OwedStep
  DEF SealingInv, Owed
<1> QED BY <1>1, <1>2, PTL DEF GatewaySpec

\* As long as nothing was interrupted an open proposal is in the hands of a
\* thread with a signer left: all of them together are a quorum.
THEOREM NoProposalIsStranded == GatewaySpec => []NoOrphanProposal
<1>1. ASSUME SealingInv, ~ Interrupted, NEW h \in OpenHeights
      PROVE  \E t \in Callers : pc[t] = "sign" \/ (stage[t] = "signing" /\ SignersLeft)
  <2>1. PICK t \in Callers : HeldBy(t, h)
    BY <1>1 DEF SealingInv, InHand
  <2>2. CASE pc[t] = "sign"
    BY <2>2
  <2>3. CASE /\ stage[t] = "signing"
             /\ {Node} \cup {LocalSigners[i] : i \in 1 .. (round.next - 1)}
                  \subseteq DOMAIN blocks[h].signatures
    <3>1. SUFFICES ASSUME ~ SignersLeft PROVE FALSE
      BY <2>3
    <3>2. round.next \in Nat /\ Len(LocalSigners) \in Nat
      BY <1>1, GatewayConfig, LenProperties DEF SealingInv, GatewayInv, LockInv
    <3>3. round.next > Len(LocalSigners)
      BY <3>1, <3>2 DEF SignersLeft
    <3>4. {Node} \cup {LocalSigners[i] : i \in 1 .. Len(LocalSigners)}
            \subseteq DOMAIN blocks[h].signatures
      BY <2>3, <3>2, <3>3
    <3>5. h \in DOMAIN blocks /\ blocks[h].status # "finalized"
      BY DEF OpenHeights
    <3>6. IsFiniteSet(DOMAIN blocks[h].signatures)
      BY <1>1, <3>5, FiniteAuthorities, FS_Subset
      DEF SealingInv, GatewayInv, LedgerInv, TablesInv, TablesTypeOK
    <3>7. Len(LocalSigners) + 1 <= Cardinality(DOMAIN blocks[h].signatures)
      BY <3>2, <3>4, <3>6, EnoughSigners
    <3>8. /\ blocks[h].header.quorum_threshold <= Len(LocalSigners) + 1
          /\ blocks[h].header.quorum_threshold \in Nat
      BY <1>1, <3>5 DEF SealingInv, Registered, GatewayInv, LedgerInv, TablesInv, TablesTypeOK
    <3>9. Cardinality(DOMAIN blocks[h].signatures) >= blocks[h].header.quorum_threshold
      BY <3>2, <3>6, <3>7, <3>8, FS_CardinalityType
    <3> QED
      BY <1>1, <3>5, <3>9 DEF SealingInv, GatewayInv, LedgerInv, TablesInv, QuorumIsFinality
  <2> QED BY <2>1, <2>2, <2>3 DEF HeldBy
<1>2. SealingInv => NoOrphanProposal
  BY <1>1 DEF NoOrphanProposal
<1> QED BY <1>2, SealingInvariant, PTL

\* As long as nothing was interrupted no full batch is left behind: the
\* backlog exceeds one by no more than the submissions still in progress.
THEOREM BacklogStaysBounded == GatewaySpec => []BacklogBounded
<1>1. SealingInv => BacklogBounded
  BY DEF SealingInv, Owed, BacklogBounded
<1> QED BY <1>1, SealingInvariant, PTL

==============================================================================
