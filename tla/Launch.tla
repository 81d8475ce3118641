------------------------------- MODULE Launch -------------------------------
(***************************************************************************)
(* How a gateway process gets its identity and how it ends: the key file    *)
(* (KeyPair.load_or_create in edgechaindb/crypto.py), its registration in   *)
(* the database (create_app in edgechaindb/api.py), and the two listeners   *)
(* of one application (serve_dual_port in edgechaindb/gateway_server.py).   *)
(*                                                                         *)
(* A container that is started again, or a second process on the same       *)
(* volume, finds what the first one left.  What happens between start and   *)
(* end is Gateway.  The other authorities' keys are made like this one.     *)
(* uvicorn is external: a listener that is told to exit ends when its last  *)
(* request does.                                                           *)
(***************************************************************************)
EXTENDS Naturals, FiniteSets

CONSTANTS
  Processes,
  Keys,          \* key pairs that may be generated, each once
  Absent, Empty, \* a key file that is not there, or has no content
  NoKey,
  MaxKills,      \* bound: kills of a process
  MaxFaults      \* bound: failed writes of the key file

ASSUME LaunchConfig ==
  /\ Absent \notin Keys /\ Empty \notin Keys /\ NoKey \notin Keys /\ Absent # Empty
  /\ MaxKills \in Nat /\ MaxFaults \in Nat

VARIABLES
  file,          \* the key file
  registered,    \* the key the node's id is bound to in table authorities
  stage,         \* where each process is
  pair,          \* its key
  listening,     \* its listeners that have not ended
  should_exit,   \* those that are told to exit
  generated,     \* the keys that were ever generated
  kills, faults

vars == <<file, registered, stage, pair, listening, should_exit, generated, kills, faults>>

Listeners == {"api", "monitor"}

Init ==
  /\ file = Absent /\ registered = NoKey
  /\ stage = [p \in Processes |-> "off"] /\ pair = [p \in Processes |-> NoKey]
  /\ listening = [p \in Processes |-> {}] /\ should_exit = [p \in Processes |-> {}]
  /\ generated = {} /\ kills = 0 /\ faults = 0

Go(p, to) == stage' = [stage EXCEPT ![p] = to]

\* The process is over.
End(p) ==
  /\ Go(p, "off")
  /\ pair' = [pair EXCEPT ![p] = NoKey]
  /\ listening' = [listening EXCEPT ![p] = {}]
  /\ should_exit' = [should_exit EXCEPT ![p] = {}]

----------------------------------------------------------------------------
(* load_or_create *)

Exists(p) ==
  /\ stage[p] = "off"
  /\ Go(p, IF file = Absent THEN "create" ELSE "read")
  /\ UNCHANGED <<file, registered, pair, listening, should_exit, generated, kills, faults>>

\* A file that has no key of 32 bytes, or is gone by now, is an error.
Read(p) ==
  /\ stage[p] = "read"
  /\ \/ file \in Keys /\ pair' = [pair EXCEPT ![p] = file] /\ Go(p, "register")
        /\ UNCHANGED <<listening, should_exit>>
     \/ file \notin Keys /\ End(p)
  /\ UNCHANGED <<file, registered, generated, kills, faults>>

\* Mutant of Create: without O_EXCL.
CreateOver(p) ==
  /\ stage[p] = "create"
  /\ \E k \in Keys \ generated :
       /\ pair' = [pair EXCEPT ![p] = k]
       /\ generated' = generated \cup {k}
  /\ file' = Empty /\ Go(p, "write")
  /\ UNCHANGED <<registered, listening, should_exit, kills, faults>>

\* O_CREAT | O_EXCL
Create(p) ==
  /\ stage[p] = "create"
  /\ \E k \in Keys \ generated :
       /\ generated' = generated \cup {k}
       /\ \/ /\ file = Absent /\ file' = Empty
             /\ pair' = [pair EXCEPT ![p] = k]
             /\ Go(p, "write")
             /\ UNCHANGED <<listening, should_exit>>
          \/ file # Absent /\ End(p) /\ UNCHANGED file
  /\ UNCHANGED <<registered, kills, faults>>

Write(p) ==
  /\ stage[p] = "write"
  /\ file' = pair[p]
  /\ Go(p, "register")
  /\ UNCHANGED <<registered, pair, listening, should_exit, generated, kills, faults>>

\* Mutant of WriteFails: the file is not unlinked.
WriteLeavesFile(p) ==
  /\ stage[p] = "write"
  /\ faults < MaxFaults /\ faults' = faults + 1
  /\ End(p)
  /\ UNCHANGED <<file, registered, generated, kills>>

WriteFails(p) ==
  /\ stage[p] = "write"
  /\ faults < MaxFaults /\ faults' = faults + 1
  /\ file' = Absent
  /\ End(p)
  /\ UNCHANGED <<registered, generated, kills>>

----------------------------------------------------------------------------
(* create_app and serve_dual_port *)

Register(p) ==
  /\ stage[p] = "register"
  /\ \/ registered \in {NoKey, pair[p]} /\ registered' = pair[p]
        /\ Go(p, "bind") /\ UNCHANGED <<pair, listening, should_exit>>
     \/ registered \notin {NoKey, pair[p]} /\ End(p) /\ UNCHANGED registered
  /\ UNCHANGED <<file, generated, kills, faults>>

\* Both listeners get their port, or the process exits.
Bind(p) ==
  /\ stage[p] = "bind"
  /\ \/ /\ listening' = [listening EXCEPT ![p] = Listeners]
        /\ Go(p, "serving") /\ UNCHANGED <<pair, should_exit>>
     \/ End(p)
  /\ UNCHANGED <<file, registered, generated, kills, faults>>

\* SIGINT or SIGTERM.
Signal(p) ==
  /\ stage[p] = "serving"
  /\ should_exit' = [should_exit EXCEPT ![p] = Listeners]
  /\ UNCHANGED <<file, registered, stage, pair, listening, generated, kills, faults>>

\* A listener ends, because it is told to or by itself.
Stops(p, l) ==
  /\ stage[p] = "serving" /\ l \in listening[p]
  /\ listening' = [listening EXCEPT ![p] = @ \ {l}]
  /\ UNCHANGED <<file, registered, stage, pair, should_exit, generated, kills, faults>>

\* Mutant of FirstStopped: only the listener that has ended is looked at.
FirstStoppedAlone(p) ==
  /\ stage[p] = "serving" /\ listening[p] # Listeners
  /\ should_exit[p] # Listeners
  /\ should_exit' = [should_exit EXCEPT ![p] = Listeners \ listening[p]]
  /\ UNCHANGED <<file, registered, stage, pair, listening, generated, kills, faults>>

\* asyncio.wait returns with the first that ends, and the other is told to.
FirstStopped(p) ==
  /\ stage[p] = "serving" /\ listening[p] # Listeners
  /\ should_exit[p] # Listeners
  /\ should_exit' = [should_exit EXCEPT ![p] = Listeners]
  /\ UNCHANGED <<file, registered, stage, pair, listening, generated, kills, faults>>

\* asyncio.gather: both have ended.
Exit(p) ==
  /\ stage[p] = "serving" /\ listening[p] = {}
  /\ End(p)
  /\ UNCHANGED <<file, registered, generated, kills, faults>>

Kill(p) ==
  /\ stage[p] # "off" /\ kills < MaxKills
  /\ kills' = kills + 1
  /\ End(p)
  /\ UNCHANGED <<file, registered, generated, faults>>

ProcessStep(p) ==
  \/ Exists(p) \/ Read(p) \/ Create(p) \/ Write(p) \/ WriteFails(p)
  \/ Register(p) \/ Bind(p) \/ Signal(p) \/ FirstStopped(p) \/ Exit(p) \/ Kill(p)
  \/ \E l \in Listeners : Stops(p, l)

Next == \E p \in Processes : ProcessStep(p)

Spec == Init /\ [][Next]_vars

\* Fairness: the event loop runs, and a listener that is told to exit does
\* so in the end, because its requests end.
FairSpec ==
  /\ Spec
  /\ \A p \in Processes :
       /\ WF_vars(FirstStopped(p)) /\ WF_vars(Exit(p))
       /\ \A l \in Listeners : WF_vars(l \in should_exit[p] /\ Stops(p, l))

----------------------------------------------------------------------------
(* Properties *)

TypeOK ==
  /\ file \in Keys \cup {Absent, Empty} /\ registered \in Keys \cup {NoKey}
  /\ \A p \in Processes :
       /\ stage[p] \in {"off", "read", "create", "write", "register", "bind", "serving"}
       /\ pair[p] \in generated \cup {NoKey}
       /\ stage[p] \in {"off", "read", "create"} <=> pair[p] = NoKey
       /\ listening[p] \subseteq Listeners /\ should_exit[p] \subseteq Listeners
  /\ generated \subseteq Keys

\* "The API node creates a persistent Ed25519 authority key" (README.md:117):
\* however many processes are started at once, are killed or fail, the key
\* that the node's id is bound to is the one in the file and the one every
\* process signs with; no start is ever refused because the id is bound to
\* another key (crypto.py:62-81, api.py:85-87).
OneIdentity ==
  /\ registered # NoKey => file = registered
  /\ \A p \in Processes : stage[p] \in {"register", "bind", "serving"} => pair[p] = file

\* A key file without a key, which no later start gets past, is left behind
\* by a kill in the middle of its creation, and by nothing else: an error
\* while it is written takes it back (crypto.py:73-80).
EmptyOnlyIfKilled ==
  file = Empty => kills > 0 \/ \E p \in Processes : stage[p] = "write"

\* The gateway never stays half alive: if a listener ends, for whatever
\* reason, or a signal arrives, the process ends (gateway_server.py:99-112).
NotHalfAlive ==
  \A p \in Processes :
    stage[p] = "serving" /\ (listening[p] # Listeners \/ should_exit[p] # {}) ~> stage[p] = "off"
=============================================================================
