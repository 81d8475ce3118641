------------------------------ MODULE EventLog -----------------------------
(***************************************************************************)
(* What the ledger of an EdgeChainDB gateway promises, with no database,    *)
(* no proposers and no signatures: a log of signed events for each device,  *)
(* which only grows at its end, and one chain of sealed batches, which only *)
(* grows at its end too and takes every event at most once.                *)
(*                                                                         *)
(* Ledger implements it (LedgerRefinement.tla).                             *)
(***************************************************************************)
EXTENDS Naturals, Sequences

CONSTANTS
  Devices, Keys, Events,
  DeviceOf, SequenceOf, PreviousOf, SignerOf,
  ZeroHash

VARIABLES
  owner,         \* enrolled device -> the key it is bound to, for ever
  log,           \* device -> its events, in order
  sealed         \* the final batches, in order: a sequence of sets of events

logVars == <<owner, log, sealed>>

Init ==
  /\ owner = [d \in {} |-> ZeroHash]
  /\ log = [d \in Devices |-> << >>]
  /\ sealed = << >>

Logged == UNION {{log[d][i] : i \in 1 .. Len(log[d])} : d \in Devices}

Sealed == UNION {sealed[i] : i \in 1 .. Len(sealed)}

\* An identity is bound once.
Enroll(d, key) ==
  /\ d \notin DOMAIN owner
  /\ owner' = [c \in DOMAIN owner \cup {d} |-> IF c = d THEN key ELSE owner[c]]
  /\ UNCHANGED <<log, sealed>>

\* The owner's next event: it carries the next number, the hash of the event
\* before it, and the owner's signature.
Record(d, e) ==
  /\ DeviceOf[e] = d
  /\ d \in DOMAIN owner
  /\ SignerOf[e] = owner[d]
  /\ SequenceOf[e] = Len(log[d]) + 1
  /\ PreviousOf[e] = IF log[d] = << >> THEN ZeroHash ELSE log[d][Len(log[d])]
  /\ log' = [log EXCEPT ![d] = Append(@, e)]
  /\ UNCHANGED <<owner, sealed>>

\* Some of the events that are logged and not sealed yet become the next batch.
Seal(batch) ==
  /\ batch # {}
  /\ batch \subseteq Logged \ Sealed
  /\ sealed' = Append(sealed, batch)
  /\ UNCHANGED <<owner, log>>

Next ==
  \/ \E d \in Devices, key \in Keys : Enroll(d, key)
  \/ \E d \in Devices, e \in Events : Record(d, e)
  \/ \E batch \in SUBSET (Logged \ Sealed) : Seal(batch)

Spec == Init /\ [][Next]_logVars
=============================================================================
