---------------------------- MODULE WorkerProofs ----------------------------
(***************************************************************************)
(* Proofs about Worker, for any number of events, any batch size and any    *)
(* timeout: the sender stays in step with the gateway, and a worker that    *)
(* passes has delivered everything.                                        *)
(***************************************************************************)
EXTENDS Worker, FiniteSetTheorems, TLAPS

Types ==
  /\ generator \in {"sign", "append", "finally", "ended"}
  /\ sender \in {"look", "count", "decide", "enroll", "peek", "answer", "ended", "dead"}
  /\ outbox \subseteq 1 .. Target /\ batch \subseteq 1 .. Target /\ posted \subseteq 1 .. Target
  /\ generated \in 0 .. Target /\ delivered \in 0 .. Target /\ stored \in 0 .. Target
  /\ queued \in Nat /\ saw_done \in BOOLEAN /\ generator_done \in BOOLEAN
  /\ verdict \in {"running", "PASS", "FAIL"}

\* What was signed and not yet acknowledged is buffered, as long as the
\* generator runs or no thread has failed; and what is in the outbox has no
\* gap, even if a batch was lost.
Buffered ==
  /\ delivered <= generated
  /\ outbox \cup batch \subseteq Backlog /\ outbox \cap batch = {}
  /\ generator \in {"sign", "append"} => outbox \cup batch = Backlog
  /\ generator \in {"finally", "ended"} => batch = {}
  /\ generator \in {"finally", "ended"} /\ error = "none" =>
       outbox = Backlog /\ generated = Target
  /\ \A e \in outbox : (delivered + 1) .. e \subseteq outbox

\* The gateway has what was acknowledged, and perhaps the event in flight;
\* nothing beyond that event was ever posted.
Delivery ==
  /\ stored \in {delivered, delivered + 1}
  /\ \A e \in posted : e <= delivered + 1
  /\ sender = "answer" => row = delivered + 1 /\ row \in outbox

\* What the sender has read of the flag and counted of the outbox is still
\* true when it decides by it: the generator is done, and only the sender
\* takes events out.
Looked ==
  /\ generator_done => generator = "ended"
  /\ saw_done => generator_done
  /\ sender = "decide" /\ saw_done => queued = Cardinality(outbox)
  /\ sender = "ended" /\ error = "none" =>
       generator = "ended" /\ outbox = {} /\ delivered = Target

Verdict ==
  /\ verdict # "running" => generator = "ended" /\ sender \in {"ended", "dead"}
  /\ PassIsComplete

WInv == Types /\ Buffered /\ Delivery /\ Looked /\ Verdict

\* The invariant holds when the experiment starts.
LEMMA InitWInv == Init => WInv
<1> SUFFICES ASSUME Init PROVE WInv
  OBVIOUS
<1> USE WorkerConfig DEF Init
<1>1. Types
  <2>1. 0 \in 0 .. Target OBVIOUS
  <2>2. \A S : {} \subseteq S OBVIOUS
  <2>3. generated \in 0 .. Target /\ delivered \in 0 .. Target /\ stored \in 0 .. Target
    BY <2>1
  <2>4. outbox \subseteq 1 .. Target /\ batch \subseteq 1 .. Target /\ posted \subseteq 1 .. Target
    BY <2>2, Zenon
  <2>5. QED BY <2>3, <2>4 DEF Types
<1>2. Buffered
  <2>1. Backlog = {} BY DEF Backlog
  <2>2. QED BY <2>1 DEF Buffered
<1>3. Delivery BY DEF Delivery
<1>4. Looked BY DEF Looked
<1>5. Verdict BY DEF Verdict, PassIsComplete
<1>6. QED BY <1>1, <1>2, <1>3, <1>4, <1>5 DEF WInv

\* count() is zero of the empty outbox only.
LEMMA Counting ==
  ASSUME Types
  PROVE  Cardinality(outbox) \in Nat /\ (Cardinality(outbox) = 0 <=> outbox = {})
<1>1. IsFiniteSet(1 .. Target)
  BY FS_Interval, WorkerConfig
<1>2. IsFiniteSet(outbox)
  BY <1>1, FS_Subset DEF Types
<1>3. QED BY <1>2, FS_CardinalityType, FS_EmptySet

\* Oldest takes the event after the last delivered one.
LEMMA OldestIsNext ==
  ASSUME WInv, outbox # {}
  PROVE  delivered + 1 \in outbox /\ Oldest = delivered + 1
<1>1. PICK e \in outbox : e \in (delivered + 1) .. generated
  BY DEF WInv, Types, Buffered, Backlog
<1>2. delivered + 1 \in outbox
  BY <1>1 DEF WInv, Types, Buffered
<1>3. \A f \in outbox : delivered + 1 <= f /\ f \in Nat
  BY DEF WInv, Types, Buffered, Backlog
<1>4. \A m \in outbox : (\A f \in outbox : m <= f) => m = delivered + 1
  BY <1>2, <1>3 DEF WInv, Types
<1>5. QED BY <1>2, <1>3, <1>4 DEF Oldest, Min

\* The generator only adds to the buffer, until it ends.
LEMMA GeneratorKeeps ==
  ASSUME WInv, GeneratorStep
  PROVE  WInv'
<1> USE WorkerConfig DEF WInv, workerVars, generatorVars, senderVars, gateway
<1>1. CASE Sign
  <2>1. Types' BY <1>1 DEF Sign, Types, Buffered, Backlog
  <2>2. Buffered' BY <1>1 DEF Sign, Types, Buffered, Backlog
  <2>3. Delivery' BY <1>1 DEF Sign, Types, Delivery, Looked, Buffered, Backlog
  <2>4. Looked' BY <1>1 DEF Sign, Types, Looked, Buffered, Backlog
  <2>5. Verdict' BY <1>1 DEF Sign, Types, Verdict, PassIsComplete, Looked, Buffered, Backlog
  <2>6. QED BY <2>1, <2>2, <2>3, <2>4, <2>5
<1>2. CASE AppendBatch
  <2>1. Types' BY <1>2 DEF AppendBatch, Types
  <2>2. Buffered' BY <1>2 DEF AppendBatch, Types, Buffered, Backlog
  <2>3. Delivery' BY <1>2 DEF AppendBatch, Types, Delivery, Looked
  <2>4. Looked' BY <1>2 DEF AppendBatch, Types, Looked
  <2>5. Verdict' BY <1>2 DEF AppendBatch, Types, Verdict, PassIsComplete, Looked
  <2>6. QED BY <2>1, <2>2, <2>3, <2>4, <2>5
<1>3. CASE AppendRest
  <2>1. Types' BY <1>3 DEF AppendRest, Types
  <2>2. Buffered' BY <1>3 DEF AppendRest, Types, Buffered, Backlog
  <2>3. Delivery' BY <1>3 DEF AppendRest, Types, Delivery, Looked
  <2>4. Looked' BY <1>3 DEF AppendRest, Types, Looked
  <2>5. Verdict' BY <1>3 DEF AppendRest, Types, Verdict, PassIsComplete, Looked
  <2>6. QED BY <2>1, <2>2, <2>3, <2>4, <2>5
<1>4. CASE GeneratorRaises
  <2>1. Types' BY <1>4 DEF GeneratorRaises, Types
  <2>2. Buffered' BY <1>4 DEF GeneratorRaises, Types, Buffered, Backlog
  <2>3. Delivery' BY <1>4 DEF GeneratorRaises, Types, Delivery
  <2>4. Looked' BY <1>4 DEF GeneratorRaises, Types, Looked
  <2>5. Verdict' BY <1>4 DEF GeneratorRaises, Types, Verdict, PassIsComplete, Looked
  <2>6. QED BY <2>1, <2>2, <2>3, <2>4, <2>5
<1>5. CASE GeneratorEnds
  <2>1. Types' BY <1>5 DEF GeneratorEnds, Types
  <2>2. Buffered' BY <1>5 DEF GeneratorEnds, Types, Buffered, Backlog
  <2>3. Delivery' BY <1>5 DEF GeneratorEnds, Types, Delivery
  <2>4. Looked' BY <1>5 DEF GeneratorEnds, Types, Looked
  <2>5. Verdict' BY <1>5 DEF GeneratorEnds, Types, Verdict, PassIsComplete, Looked
  <2>6. QED BY <2>1, <2>2, <2>3, <2>4, <2>5
<1>6. QED BY <1>1, <1>2, <1>3, <1>4, <1>5 DEF GeneratorStep

\* The sender takes from the outbox what the gateway has.
LEMMA SenderKeeps ==
  ASSUME WInv, SenderStep
  PROVE  WInv'
<1> USE WorkerConfig DEF WInv, workerVars, generatorVars, senderVars, gateway
<1>1. CASE Look
  <2>1. Types' BY <1>1 DEF Look, Types
  <2>2. Buffered' BY <1>1 DEF Look, Types, Buffered, Backlog
  <2>3. Delivery' BY <1>1 DEF Look, Types, Delivery
  <2>4. Looked' BY <1>1 DEF Look, Types, Looked
  <2>5. Verdict' BY <1>1 DEF Look, Types, Verdict, PassIsComplete, Looked
  <2>6. QED BY <2>1, <2>2, <2>3, <2>4, <2>5
<1>2. CASE Count
  <2>1. Types' BY <1>2, Counting DEF Count, Types
  <2>2. Buffered' BY <1>2, Counting DEF Count, Types, Buffered, Backlog
  <2>3. Delivery' BY <1>2, Counting DEF Count, Types, Delivery
  <2>4. Looked' BY <1>2, Counting DEF Count, Types, Looked
  <2>5. Verdict' BY <1>2, Counting DEF Count, Types, Verdict, PassIsComplete, Looked
  <2>6. QED BY <2>1, <2>2, <2>3, <2>4, <2>5
<1>3. CASE Decide
  <2>1. Types' BY <1>3 DEF Decide, Types, Drained
  <2>2. Buffered' BY <1>3 DEF Decide, Types, Buffered, Backlog, Drained
  <2>3. Delivery' BY <1>3 DEF Decide, Types, Delivery, Drained
  <2>4. Looked' BY <1>3, Counting DEF Decide, Types, Looked, Drained, Buffered, Backlog
  <2>5. Verdict' BY <1>3 DEF Decide, Types, Verdict, PassIsComplete, Drained, Looked
  <2>6. QED BY <2>1, <2>2, <2>3, <2>4, <2>5
<1>4. CASE Enroll
  <2>1. Types' BY <1>4 DEF Enroll, Types
  <2>2. Buffered' BY <1>4 DEF Enroll, Types, Buffered, Backlog
  <2>3. Delivery' BY <1>4 DEF Enroll, Types, Delivery
  <2>4. Looked' BY <1>4 DEF Enroll, Types, Looked
  <2>5. Verdict' BY <1>4 DEF Enroll, Types, Verdict, PassIsComplete, Looked
  <2>6. QED BY <2>1, <2>2, <2>3, <2>4, <2>5
<1>5. CASE Peek
  <2>1. Types' BY <1>5, OldestIsNext DEF Peek, Types
  <2>2. Buffered' BY <1>5, OldestIsNext DEF Peek, Types, Buffered, Backlog
  <2>3. Delivery'
    <3>1. CASE sender' = "look" /\ UNCHANGED <<row, posted>>
      BY <1>5, <3>1 DEF Peek, Types, Delivery
    <3>2. CASE outbox # {} /\ row' = Oldest /\ posted' = posted \cup {row'}
      <4>1. row' = delivered + 1 /\ row' \in outbox
        BY <3>2, OldestIsNext
      <4>2. \A e \in posted' : e <= delivered + 1
        BY <3>2, <4>1 DEF Types, Delivery
      <4>3. QED BY <1>5, <4>1, <4>2 DEF Peek, Delivery
    <3>3. QED BY <1>5, <3>1, <3>2 DEF Peek
  <2>4. Looked' BY <1>5, OldestIsNext DEF Peek, Types, Looked
  <2>5. Verdict' BY <1>5, OldestIsNext DEF Peek, Types, Verdict, PassIsComplete, Looked
  <2>6. QED BY <2>1, <2>2, <2>3, <2>4, <2>5
<1>6. CASE Acknowledge
  <2> DEFINE next == delivered + 1
  <2>0. /\ next \in outbox /\ next \in 1 .. Target /\ next <= generated /\ next \notin batch
        /\ outbox' = outbox \ {next} /\ delivered' = next
        /\ UNCHANGED <<generator, batch, generated, error>>
    <3>1. row = next /\ next \in outbox
      BY <1>6 DEF Acknowledge, Delivery
    <3>2. next \in 1 .. Target /\ next <= generated /\ next \notin batch
      BY <3>1 DEF Types, Buffered, Backlog
    <3>3. /\ outbox' = outbox \ {next} /\ delivered' = next
          /\ UNCHANGED <<generator, batch, generated, error>>
      BY <1>6, <3>1 DEF Acknowledge
    <3>4. QED BY <3>1, <3>2, <3>3
  <2> HIDE DEF next
  <2>1. Types'
    <3>1. next \in 0 .. Target
      BY <2>0
    <3>2. outbox' \subseteq 1 .. Target /\ delivered' \in 0 .. Target
      BY <2>0, <3>1 DEF Types
    <3>3. QED BY <1>6, <2>0, <3>2 DEF Acknowledge, Types
  <2>2. Buffered'
    <3>1. Backlog' = Backlog \ {next}
      BY <2>0 DEF next, Backlog, Types
    <3>2. outbox' \cup batch' = (outbox \cup batch) \ {next} /\ outbox' \cap batch' = outbox \cap batch
      BY <2>0
    <3>3. \A e \in outbox' : (delivered' + 1) .. e \subseteq outbox'
      BY <2>0 DEF next, Types, Buffered
    <3>4. generator \in {"finally", "ended"} /\ error = "none" => outbox' = Backlog' /\ generated' = Target
      BY <2>0, <3>1 DEF Buffered
    <3>5. delivered' <= generated'
      BY <2>0
    <3>6. QED BY <2>0, <3>1, <3>2, <3>3, <3>4, <3>5 DEF Buffered
  <2>3. Delivery' BY <1>6 DEF Acknowledge, Types, Delivery, Answered, Buffered, Backlog
  <2>4. Looked' BY <1>6 DEF Acknowledge, Types, Looked, Answered, Verdict
  <2>5. Verdict' BY <1>6 DEF Acknowledge, Types, Verdict, PassIsComplete, Answered, Looked
  <2>6. QED BY <2>1, <2>2, <2>3, <2>4, <2>5
<1>7. CASE NetworkError
  <2>1. Types' BY <1>7 DEF NetworkError, Types
  <2>2. Buffered' BY <1>7 DEF NetworkError, Types, Buffered, Backlog
  <2>3. Delivery' BY <1>7 DEF NetworkError, Types, Delivery
  <2>4. Looked' BY <1>7 DEF NetworkError, Types, Looked
  <2>5. Verdict' BY <1>7 DEF NetworkError, Types, Verdict, PassIsComplete, Looked
  <2>6. QED BY <2>1, <2>2, <2>3, <2>4, <2>5
<1>8. CASE SenderRaises
  <2>1. Types' BY <1>8 DEF SenderRaises, Types
  <2>2. Buffered' BY <1>8 DEF SenderRaises, Types, Buffered, Backlog
  <2>3. Delivery' BY <1>8 DEF SenderRaises, Types, Delivery
  <2>4. Looked' BY <1>8 DEF SenderRaises, Types, Looked
  <2>5. Verdict' BY <1>8 DEF SenderRaises, Types, Verdict, PassIsComplete, Looked
  <2>6. QED BY <2>1, <2>2, <2>3, <2>4, <2>5
<1>9. QED BY <1>1, <1>2, <1>3, <1>4, <1>5, <1>6, <1>7, <1>8 DEF SenderStep

\* The clock, the main thread and the gateway.
LEMMA OthersKeep ==
  ASSUME WInv, Tick \/ Join \/ \E e \in 1 .. Target : Arrive(e)
  PROVE  WInv'
<1> USE WorkerConfig DEF WInv, workerVars, generatorVars, senderVars, gateway
<1>1. CASE Tick
  <2>1. Types' BY <1>1 DEF Tick, Types
  <2>2. Buffered' BY <1>1 DEF Tick, Types, Buffered, Backlog
  <2>3. Delivery' BY <1>1 DEF Tick, Types, Delivery
  <2>4. Looked' BY <1>1 DEF Tick, Types, Looked
  <2>5. Verdict' BY <1>1 DEF Tick, Types, Verdict, PassIsComplete, Looked
  <2>6. QED BY <2>1, <2>2, <2>3, <2>4, <2>5
<1>2. CASE Join
  <2>1. Types' BY <1>2 DEF Join, Types
  <2>2. Buffered' BY <1>2 DEF Join, Types, Buffered, Backlog
  <2>3. Delivery' BY <1>2 DEF Join, Types, Delivery
  <2>4. Looked' BY <1>2 DEF Join, Types, Looked
  <2>5. Verdict' BY <1>2 DEF Join, Types, Verdict, PassIsComplete, Complete, Buffered, Backlog, Delivery
  <2>6. QED BY <2>1, <2>2, <2>3, <2>4, <2>5
<1>3. ASSUME NEW e \in 1 .. Target, Arrive(e) PROVE WInv'
  <2>1. Types' BY <1>3 DEF Arrive, Types
  <2>2. Buffered' BY <1>3 DEF Arrive, Types, Buffered, Backlog
  <2>3. Delivery' BY <1>3 DEF Arrive, Types, Delivery
  <2>4. Looked' BY <1>3 DEF Arrive, Types, Looked
  <2>5. Verdict' BY <1>3 DEF Arrive, Types, Verdict, PassIsComplete, Complete, Delivery, Looked
  <2>6. QED BY <2>1, <2>2, <2>3, <2>4, <2>5
<1>4. QED BY <1>1, <1>2, <1>3

\* Every step of a worker, of its devices and of the gateway keeps it.
LEMMA NextKeepsWInv == WInv /\ [Next]_workerVars => WInv'
<1> SUFFICES ASSUME WInv, [Next]_workerVars PROVE WInv'
  OBVIOUS
<1>1. CASE Next
  BY <1>1, GeneratorKeeps, SenderKeeps, OthersKeep DEF Next
<1>2. CASE UNCHANGED workerVars
  BY <1>2 DEF WInv, Types, Buffered, Delivery, Looked, Verdict, Backlog, PassIsComplete,
              workerVars, generatorVars, senderVars, gateway
<1>3. QED BY <1>1, <1>2

\* The invariant of the worker.
THEOREM WorkerInvariant == Spec => []WInv
<1>1. QED BY InitWInv, NextKeepsWInv, PTL DEF Spec

\* However many answers are lost, the outbox begins at the event after the last
\* delivered one and the gateway is at most one event ahead
\* (_sender, worker.py:280-305).
THEOREM BufferInStep == Spec => []InStep
<1>1. WInv => InStep
  <2> SUFFICES ASSUME WInv PROVE InStep
    OBVIOUS
  <2>1. outbox # {} => Min(outbox) = delivered + 1
    BY OldestIsNext DEF Oldest
  <2>2. error = "none" => outbox \cup batch = Backlog
    BY DEF WInv, Types, Buffered
  <2>3. QED BY <2>1, <2>2 DEF InStep, WInv, Buffered, Delivery
<1>2. QED BY <1>1, WorkerInvariant, PTL

\* No request of the worker, on time or late, is refused for a gap
\* (_sender, worker.py:280-305).
THEOREM NoGapIsSent == Spec => []NeverRefused
<1>1. WInv => NeverRefused
  BY WorkerConfig DEF WInv, Types, Delivery, NeverRefused
<1>2. QED BY <1>1, WorkerInvariant, PTL

\* Reading generator_done before counting the outbox is enough: a sender that
\* ends without an error has delivered every event (worker.py:252-257).
THEOREM DrainedIsDelivered == Spec => []NothingLeftBehind
<1>1. WInv => NothingLeftBehind
  BY DEF WInv, Looked, NothingLeftBehind
<1>2. QED BY <1>1, WorkerInvariant, PTL

\* PASS is only reported when the gateway has every event
\* (run_worker, worker.py:407-414).
THEOREM PassMeansStored == Spec => []PassIsComplete
<1>1. WInv => PassIsComplete
  BY DEF WInv, Verdict
<1>2. QED BY <1>1, WorkerInvariant, PTL
=============================================================================
