------------------------------- MODULE Worker -------------------------------
(***************************************************************************)
(* One device of a matrix experiment (run_worker in                        *)
(* edgechaindb/experiments/worker.py): a generator thread signs events and  *)
(* appends them in batches to a SQLite outbox, a sender thread delivers     *)
(* them one by one, and the main thread joins both and gives the verdict.   *)
(*                                                                         *)
(* Events are their sequence numbers.  The gateway is external: it stores   *)
(* the next event, accepts a stored one as a duplicate and refuses a gap.   *)
(* A request may be lost, arrive late, or be answered in vain.  Latencies,  *)
(* energy, sizes and the pauses between two attempts are left out.          *)
(***************************************************************************)
EXTENDS Naturals, FiniteSets, FiniteSetsExt

CONSTANTS
  Target,        \* events
  BatchSize,     \* generation_batch
  StallTimeout,  \* reconnect_deadline_seconds, in ticks of the clock
  NoTimer        \* last_progress_at is None

ASSUME WorkerConfig ==
  /\ Target \in Nat
  /\ BatchSize \in Nat \ {0}
  /\ StallTimeout \in Nat \ {0}
  /\ NoTimer \notin Nat

VARIABLES
  generator,     \* where the generator thread is
  batch,         \* its batch
  outbox,        \* table outbox
  generated, delivered, generator_done, error,  \* SharedState
  sender,        \* where the sender thread is
  saw_done,      \* what it read of generator_done
  queued,        \* what it counted in the outbox
  enrolled,
  row,           \* the event it peeked at, or 0
  idle_time,     \* now - last_progress_at, up to StallTimeout, or NoTimer
  posted,        \* events a POST of which was sent, and may still arrive
  stored,        \* events the gateway has: 1 .. stored
  verdict        \* "running", then "PASS" or "FAIL"

generatorVars == <<generator, batch, generated>>
senderVars == <<sender, saw_done, queued, enrolled, row, idle_time, delivered>>
gateway == <<posted, stored>>
workerVars == <<generatorVars, outbox, generator_done, error, senderVars, gateway, verdict>>

Init ==
  /\ generator = "sign" /\ batch = {} /\ generated = 0
  /\ outbox = {}
  /\ generator_done = FALSE /\ error = "none"
  /\ sender = "look" /\ saw_done = FALSE /\ queued = 0
  /\ enrolled = FALSE /\ row = 0 /\ idle_time = NoTimer /\ delivered = 0
  /\ posted = {} /\ stored = 0
  /\ verdict = "running"

----------------------------------------------------------------------------
(* The generator thread. *)

Full(events) == Cardinality(events) >= BatchSize

Sign ==
  /\ generator = "sign" /\ generated < Target
  /\ generated' = generated + 1
  /\ batch' = batch \cup {generated + 1}
  /\ generator' = IF Full(batch') THEN "append" ELSE "sign"
  /\ UNCHANGED <<outbox, generator_done, error, senderVars, gateway, verdict>>

AppendBatch ==
  /\ generator = "append"
  /\ outbox' = outbox \cup batch
  /\ batch' = {}
  /\ generator' = "sign"
  /\ UNCHANGED <<generated, generator_done, error, senderVars, gateway, verdict>>

\* Mutant of AppendRest: the loop's last batch is forgotten.
DropRest ==
  /\ generator = "sign" /\ generated = Target
  /\ batch' = {}
  /\ generator' = "finally"
  /\ UNCHANGED <<outbox, generated, generator_done, error, senderVars, gateway, verdict>>

AppendRest ==
  /\ generator = "sign" /\ generated = Target
  /\ outbox' = outbox \cup batch
  /\ batch' = {}
  /\ generator' = "finally"
  /\ UNCHANGED <<generated, generator_done, error, senderVars, gateway, verdict>>

\* Signing or the outbox's transaction raises.
GeneratorRaises ==
  /\ generator \in {"sign", "append"}
  /\ error' = "generator"
  /\ batch' = {}
  /\ generator' = "finally"
  /\ UNCHANGED <<generated, outbox, generator_done, senderVars, gateway, verdict>>

GeneratorEnds ==
  /\ generator = "finally"
  /\ generator_done' = TRUE
  /\ generator' = "ended"
  /\ UNCHANGED <<batch, generated, outbox, error, senderVars, gateway, verdict>>

----------------------------------------------------------------------------
(* The sender thread, one turn of its loop after the other. *)

Look ==
  /\ sender = "look"
  /\ saw_done' = generator_done
  /\ sender' = IF error # "none" THEN "ended" ELSE "count"
  /\ UNCHANGED <<generatorVars, outbox, generator_done, error, queued, enrolled, row,
                 idle_time, delivered, gateway, verdict>>

\* Mutant of Drained: the flag is read again, after the outbox was counted.
DrainedNow == generator_done /\ queued = 0

Drained == saw_done /\ queued = 0

Count ==
  /\ sender = "count"
  /\ queued' = Cardinality(outbox)
  /\ sender' = "decide"
  /\ UNCHANGED <<generatorVars, outbox, generator_done, error, saw_done, enrolled, row,
                 idle_time, delivered, gateway, verdict>>

\* Mutant of Armed: only a delivery starts the timer.
ArmedByDelivery == idle_time

\* The timer starts with the first turn that finds the generator done, or
\* with the first delivery.
Armed == IF saw_done /\ idle_time = NoTimer THEN 0 ELSE idle_time

Stalled == Armed # NoTimer /\ Armed >= StallTimeout

Decide ==
  /\ sender = "decide"
  /\ \/ /\ Drained
        /\ sender' = "ended"
        /\ UNCHANGED <<error, idle_time>>
     \/ /\ ~ Drained
        /\ idle_time' = Armed
        /\ \/ Stalled /\ error' = "stalled" /\ sender' = "ended"
           \/ ~ Stalled /\ UNCHANGED error /\ sender' = IF enrolled THEN "peek" ELSE "enroll"
  /\ UNCHANGED <<generatorVars, outbox, generator_done, saw_done, queued, enrolled, row,
                 delivered, gateway, verdict>>

Enroll ==
  /\ sender = "enroll"
  /\ enrolled' = TRUE
  /\ sender' = "peek"
  /\ UNCHANGED <<generatorVars, outbox, generator_done, error, saw_done, queued, row,
                 idle_time, delivered, gateway, verdict>>

Oldest == Min(outbox)

\* An empty outbox, or a packet the application drops on purpose, ends the
\* turn of the loop.
Peek ==
  /\ sender = "peek"
  /\ \/ sender' = "look" /\ UNCHANGED <<row, posted>>
     \/ /\ outbox # {}
        /\ row' = Oldest
        /\ posted' = posted \cup {row'}
        /\ sender' = "answer"
  /\ UNCHANGED <<generatorVars, outbox, generator_done, error, saw_done, queued, enrolled,
                 idle_time, delivered, stored, verdict>>

\* The gateway's part: a POST arrives, in time or late or never; one that
\* repeats a stored event, or would leave a gap, changes nothing.
Arrive(e) ==
  /\ e \in posted
  /\ e = stored + 1
  /\ stored' = e
  /\ UNCHANGED <<generatorVars, outbox, generator_done, error, senderVars, posted, verdict>>

\* Mutant of Answered: any answer will do.
AnsweredAnyhow == row # 0

\* A 2xx answer to the POST: the event is stored, by this POST or before.
Answered == row <= stored

Acknowledge ==
  /\ sender = "answer" /\ Answered
  /\ outbox' = outbox \ {row}
  /\ idle_time' = 0
  /\ delivered' = delivered + 1
  /\ row' = 0
  /\ sender' = "look"
  /\ UNCHANGED <<generatorVars, generator_done, error, saw_done, queued, enrolled,
                 gateway, verdict>>

\* httpx.HTTPError or OSError: no connection, no answer in time, or a
\* refusal; whatever was stored meanwhile, the event is sent again.
NetworkError ==
  /\ sender \in {"enroll", "answer"}
  /\ enrolled' = FALSE
  /\ row' = 0
  /\ sender' = "look"
  /\ UNCHANGED <<generatorVars, outbox, generator_done, error, saw_done, queued, idle_time,
                 delivered, gateway, verdict>>

\* SQLite raises: under the handler the error is recorded, but count() is
\* called outside of it, and the thread dies without a word.
SenderRaises ==
  /\ sender \in {"count", "peek", "answer"}
  /\ error' = IF sender = "count" THEN error ELSE "sender"
  /\ row' = 0
  /\ sender' = IF sender = "count" THEN "dead" ELSE "ended"
  /\ UNCHANGED <<generatorVars, outbox, generator_done, saw_done, queued, enrolled,
                 idle_time, delivered, gateway, verdict>>

Tick ==
  /\ sender \notin {"ended", "dead"}
  /\ idle_time # NoTimer /\ idle_time < StallTimeout
  /\ idle_time' = idle_time + 1
  /\ UNCHANGED <<generatorVars, outbox, generator_done, error, sender, saw_done, queued,
                 enrolled, row, delivered, gateway, verdict>>

----------------------------------------------------------------------------
(* The main thread joins both threads. *)

Complete == error = "none" /\ generated = Target /\ delivered = Target

Join ==
  /\ verdict = "running"
  /\ generator = "ended" /\ sender \in {"ended", "dead"}
  /\ verdict' = IF Complete THEN "PASS" ELSE "FAIL"
  /\ UNCHANGED <<generatorVars, outbox, generator_done, error, senderVars, gateway>>

GeneratorStep == Sign \/ AppendBatch \/ AppendRest \/ GeneratorRaises \/ GeneratorEnds

SenderStep ==
  \/ Look \/ Count \/ Decide \/ Enroll \/ Peek
  \/ Acknowledge \/ NetworkError \/ SenderRaises

Next == GeneratorStep \/ SenderStep \/ Tick \/ Join \/ \E e \in 1 .. Target : Arrive(e)

Spec == Init /\ [][Next]_workerVars

\* Fairness: both threads are scheduled, the clock goes on, and the main
\* thread returns from its joins.  Nothing is asked of the network.
FairSpec ==
  /\ Spec
  /\ WF_workerVars(GeneratorStep)
  /\ WF_workerVars(SenderStep)
  /\ WF_workerVars(Tick)
  /\ WF_workerVars(Join)

----------------------------------------------------------------------------
(* Properties *)

TypeOK ==
  /\ generator \in {"sign", "append", "finally", "ended"}
  /\ sender \in {"look", "count", "decide", "enroll", "peek", "answer", "ended",
                "dead"}
  /\ batch \subseteq 1 .. Target /\ outbox \subseteq 1 .. Target
  /\ posted \subseteq 1 .. Target
  /\ Cardinality(batch) <= BatchSize
  /\ generated \in 0 .. Target /\ delivered \in 0 .. Target /\ stored \in 0 .. Target
  /\ row \in 0 .. Target /\ queued \in 0 .. Target
  /\ saw_done \in BOOLEAN /\ generator_done \in BOOLEAN /\ enrolled \in BOOLEAN
  /\ idle_time \in {NoTimer} \cup 0 .. StallTimeout
  /\ error \in {"none", "generator", "sender", "stalled"}
  /\ verdict \in {"running", "PASS", "FAIL"}

\* What was signed and not yet acknowledged is in the batch or in the
\* outbox, oldest first and without a gap, unless a thread has failed; and
\* no more than one event is stored that is not yet acknowledged: the gateway
\* is never ahead of the outbox by more than the request in flight, however
\* many answers were lost (_sender, worker.py:280-305).
Backlog == (delivered + 1) .. generated

InStep ==
  /\ outbox \cup batch \subseteq Backlog
  /\ error = "none" => outbox \cup batch = Backlog
  /\ stored \in {delivered, delivered + 1}
  /\ outbox # {} => Min(outbox) = delivered + 1

\* No event is ever sent that the gateway would refuse for a gap, not even
\* one that arrives long after the sender has given it up.
NeverRefused == \A e \in posted : e <= stored + 1

\* A sender that ends on an empty outbox has delivered everything: the flag
\* it read before it counted cannot have hidden a last batch
\* (worker.py:252-257).
NothingLeftBehind ==
  sender = "ended" /\ error = "none" => outbox = {} /\ delivered = Target

\* A worker that reports PASS has every event in the gateway and none in its
\* outbox, whichever thread died in which way (run_worker, worker.py:407-414).
PassIsComplete == verdict = "PASS" => stored = Target /\ outbox = {}

\* Every worker comes to an end, even one whose gateway never answers again:
\* the stall timer is running by the time the generator is done.
WorkerEnds == <>(verdict # "running")

\* "a genuinely stalled node still fails with an actionable buffered-event
\* count" (experiments/one-day.yaml:25-27): a stall is declared of buffered
\* events.
StallIsActionable == error = "stalled" => queued > 0
=============================================================================
