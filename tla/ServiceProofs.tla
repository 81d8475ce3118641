---------------------------- MODULE ServiceProofs --------------------------
(***************************************************************************)
(* Proofs about three parts of a node that share no state, for all values   *)
(* of their constants: Launch, ClusterControl and Merkle.                  *)
(*                                                                         *)
(* However many processes are started on one key file, and however often    *)
(* they are killed, the node has one identity.  However requests, control   *)
(* actions and the clock interleave, the dashboard is behind a control      *)
(* action only in one race, and for no longer than a cache lives.  And      *)
(* however large a block is, the proof made for an event leads that event,  *)
(* and no other, to the root of the block.                                  *)
(***************************************************************************)
EXTENDS Launch, ClusterControl, Merkle, SequenceTheorems, WellFoundedInduction, TLAPS

----------------------------------------------------------------------------
(* Launch *)

Signing == {"register", "bind", "serving"}

\* The inductive invariant.  A process that is writing the file found nobody
\* before it: there is one such process, the file is empty, and nothing is
\* registered.
OneWriter ==
  /\ \A p \in Processes : stage[p] = "write" => file = Empty
  /\ \A p, q \in Processes : stage[p] = "write" /\ stage[q] = "write" => p = q

Types ==
  /\ TypeOK
  /\ stage \in [Processes -> {"off", "read", "create", "write"} \cup Signing]
  /\ pair \in [Processes -> Keys \cup {NoKey}]
  /\ listening \in [Processes -> SUBSET Listeners]
  /\ should_exit \in [Processes -> SUBSET Listeners]
  /\ kills \in Nat /\ file \in generated \cup {Absent, Empty}

IInv == Types /\ OneWriter /\ OneIdentity /\ EmptyOnlyIfKilled

\* The invariant holds before anything is launched.
LEMMA InitIInv == Init => IInv
BY LaunchConfig DEF Init, IInv, Types, TypeOK, OneWriter, OneIdentity, EmptyOnlyIfKilled,
                    Signing, Listeners

\* The end of a process disturbs nothing of the others.
LEMMA EndKeeps ==
  ASSUME IInv, NEW p \in Processes, End(p), UNCHANGED <<file, registered, generated, kills>>,
         stage[p] # "write"
  PROVE  IInv'
<1>1. Types'
  BY LaunchConfig DEF IInv, Types, TypeOK, End, Go, Signing, Listeners
<1>2. OneWriter'
  BY DEF IInv, Types, OneWriter, End, Go, Signing
<1>3. OneIdentity'
  BY DEF IInv, Types, OneIdentity, End, Go, Signing
<1>4. EmptyOnlyIfKilled'
  BY DEF IInv, Types, EmptyOnlyIfKilled, End, Go, Signing
<1>5. QED BY <1>1, <1>2, <1>3, <1>4 DEF IInv

\* Every step of main and of the gateway process keeps it ...
LEMMA StepKeepsIInv ==
  ASSUME IInv, NEW p \in Processes, ProcessStep(p)
  PROVE  IInv'
<1> USE LaunchConfig DEF IInv
<1>1. CASE Exists(p)
  <2>1. Types' BY <1>1 DEF Exists, Go, Types, TypeOK, Signing, Listeners
  <2>2. OneWriter' BY <1>1 DEF Exists, Go, Types, OneWriter, Signing, Listeners
  <2>3. OneIdentity' BY <1>1 DEF Exists, Go, Types, OneIdentity, Signing, Listeners
  <2>4. EmptyOnlyIfKilled' BY <1>1 DEF Exists, Go, Types, EmptyOnlyIfKilled, Signing, Listeners
  <2>5. QED BY <2>1, <2>2, <2>3, <2>4
<1>2. CASE Read(p) /\ file \in Keys
  <2>1. Types' BY <1>2 DEF Read, Go, Types, TypeOK, Signing, Listeners
  <2>2. OneWriter' BY <1>2 DEF Read, Go, Types, OneWriter, Signing, Listeners
  <2>3. OneIdentity' BY <1>2 DEF Read, Go, Types, OneIdentity, Signing, Listeners
  <2>4. EmptyOnlyIfKilled' BY <1>2 DEF Read, Go, Types, EmptyOnlyIfKilled, Signing, Listeners
  <2>5. QED BY <2>1, <2>2, <2>3, <2>4
<1>3. CASE Read(p) /\ file \notin Keys
  BY <1>3, EndKeeps DEF Read
<1>4. CASE Create(p) /\ file = Absent
  <2>1. Types' BY <1>4 DEF Create, Go, Types, TypeOK, Signing, Listeners
  <2>2. OneWriter' BY <1>4 DEF Create, Go, Types, OneWriter, Signing, Listeners
  <2>3. OneIdentity' BY <1>4 DEF Create, Go, Types, TypeOK, OneWriter, OneIdentity, Signing, Listeners
  <2>4. EmptyOnlyIfKilled' BY <1>4 DEF Create, Go, Types, EmptyOnlyIfKilled, Signing, Listeners
  <2>5. QED BY <2>1, <2>2, <2>3, <2>4
<1>5. CASE Create(p) /\ file # Absent
  \* a key was generated for nothing
  <2>1. Types' BY <1>5 DEF Create, End, Go, Types, TypeOK, Signing, Listeners
  <2>2. OneWriter' BY <1>5 DEF Create, End, Go, Types, OneWriter, Signing, Listeners
  <2>3. OneIdentity' BY <1>5 DEF Create, End, Go, Types, OneIdentity, Signing, Listeners
  <2>4. EmptyOnlyIfKilled' BY <1>5 DEF Create, End, Go, Types, EmptyOnlyIfKilled, Signing, Listeners
  <2>5. QED BY <2>1, <2>2, <2>3, <2>4
<1>6. CASE Write(p)
  <2>1. Types' BY <1>6 DEF Write, Go, Types, TypeOK, Signing, Listeners
  <2>2. OneWriter' BY <1>6 DEF Write, Go, Types, OneWriter, Signing, Listeners
  <2>3. OneIdentity' BY <1>6 DEF Write, Go, Types, TypeOK, OneWriter, OneIdentity, Signing, Listeners
  <2>4. EmptyOnlyIfKilled' BY <1>6 DEF Write, Go, Types, TypeOK, OneWriter, OneIdentity, EmptyOnlyIfKilled, Signing, Listeners
  <2>5. QED BY <2>1, <2>2, <2>3, <2>4
<1>7. CASE WriteFails(p)
  <2>1. Types' BY <1>7 DEF WriteFails, End, Go, Types, TypeOK, Signing, Listeners
  <2>2. OneWriter' BY <1>7 DEF WriteFails, End, Go, Types, OneWriter, Signing, Listeners
  <2>3. OneIdentity' BY <1>7 DEF WriteFails, End, Go, Types, TypeOK, OneWriter, OneIdentity, Signing, Listeners
  <2>4. EmptyOnlyIfKilled' BY <1>7 DEF WriteFails, End, Go, Types, EmptyOnlyIfKilled, Signing, Listeners
  <2>5. QED BY <2>1, <2>2, <2>3, <2>4
<1>8. CASE Register(p) /\ registered \in {NoKey, pair[p]}
  <2>1. Types' BY <1>8 DEF Register, Go, Types, TypeOK, Signing, Listeners
  <2>2. OneWriter' BY <1>8 DEF Register, Go, Types, OneWriter, Signing, Listeners
  <2>3. OneIdentity' BY <1>8 DEF Register, Go, Types, OneIdentity, Signing, Listeners
  <2>4. EmptyOnlyIfKilled' BY <1>8 DEF Register, Go, Types, EmptyOnlyIfKilled, Signing, Listeners
  <2>5. QED BY <2>1, <2>2, <2>3, <2>4
<1>9. CASE Register(p) /\ registered \notin {NoKey, pair[p]}
  BY <1>9, EndKeeps DEF Register
<1>10. CASE Bind(p) /\ ~ End(p)
  <2>1. Types' BY <1>10 DEF Bind, Go, Types, TypeOK, Signing, Listeners
  <2>2. OneWriter' BY <1>10 DEF Bind, Go, Types, OneWriter, Signing, Listeners
  <2>3. OneIdentity' BY <1>10 DEF Bind, Go, Types, OneIdentity, Signing, Listeners
  <2>4. EmptyOnlyIfKilled' BY <1>10 DEF Bind, Go, Types, EmptyOnlyIfKilled, Signing, Listeners
  <2>5. QED BY <2>1, <2>2, <2>3, <2>4
<1>11. CASE Bind(p) /\ End(p)
  BY <1>11, EndKeeps DEF Bind
<1>12. CASE Signal(p) \/ FirstStopped(p) \/ \E l \in Listeners : Stops(p, l)
  <2>1. Types' BY <1>12 DEF Signal, FirstStopped, Stops, Go, Types, TypeOK, Signing, Listeners
  <2>2. OneWriter' BY <1>12 DEF Signal, FirstStopped, Stops, Go, Types, OneWriter, Signing, Listeners
  <2>3. OneIdentity' BY <1>12 DEF Signal, FirstStopped, Stops, Go, Types, OneIdentity, Signing, Listeners
  <2>4. EmptyOnlyIfKilled' BY <1>12 DEF Signal, FirstStopped, Stops, Go, Types, EmptyOnlyIfKilled, Signing, Listeners
  <2>5. QED BY <2>1, <2>2, <2>3, <2>4
<1>13. CASE Exit(p)
  BY <1>13, EndKeeps DEF Exit
<1>14. CASE Kill(p)
  <2>1. Types' BY <1>14 DEF Kill, End, Go, Types, TypeOK, Signing, Listeners
  <2>2. OneWriter' BY <1>14 DEF Kill, End, Go, Types, OneWriter, Signing, Listeners
  <2>3. OneIdentity' BY <1>14 DEF Kill, End, Go, Types, OneIdentity, Signing, Listeners
  <2>4. EmptyOnlyIfKilled' BY <1>14 DEF Kill, End, Go, Types, EmptyOnlyIfKilled, Signing, Listeners
  <2>5. QED BY <2>1, <2>2, <2>3, <2>4
<1>15. QED
  BY <1>1, <1>2, <1>3, <1>4, <1>5, <1>6, <1>7, <1>8, <1>9, <1>10, <1>11, <1>12, <1>13, <1>14
     DEF ProcessStep

\* ... and so does a step that changes nothing.
LEMMA StutterKeepsIInv == IInv /\ UNCHANGED vars => IInv'
BY DEF IInv, Types, TypeOK, OneWriter, OneIdentity, EmptyOnlyIfKilled, vars

\* The inductive invariant holds.
THEOREM LaunchInvariant == Spec => []IInv
<1>1. IInv /\ [Next]_vars => IInv'
  BY StepKeepsIInv, StutterKeepsIInv DEF Next
<1>2. QED BY <1>1, InitIInv, PTL DEF Spec

\* Every process signs with the key in the file, which is the one the node's
\* id is bound to in the database, for any number of processes, kills and
\* failed writes (crypto.py:62-81, api.py:85-87).
THEOREM IdentityIsOne == Spec => []OneIdentity
<1>1. IInv => OneIdentity BY DEF IInv
<1>2. QED BY <1>1, LaunchInvariant, PTL

\* Only a kill leaves a key file without a key (crypto.py:73-80).
THEOREM FailuresLeaveNoFile == Spec => []EmptyOnlyIfKilled
<1>1. IInv => EmptyOnlyIfKilled BY DEF IInv
<1>2. QED BY <1>1, LaunchInvariant, PTL

\* The file, the binding and the processes keep their types.
THEOREM LaunchTypes == Spec => []TypeOK
<1>1. IInv => TypeOK BY DEF IInv, Types
<1>2. QED BY <1>1, LaunchInvariant, PTL

----------------------------------------------------------------------------
(* The metrics cache of the dashboard.  What is promised is at most what    *)
(* was settled, and that at most the version there is: so a request and the *)
(* cache need to be right only about devices that control() has answered    *)
(* for and that nobody has touched since.                                  *)

Looking(v) == place[v] \in {"listed", "measuring"}

Metrics == UNION {[S -> Versions] : S \in SUBSET Services}

\* The clock is past the life of a cache that has expired.
ControlTypes ==
  /\ clock \in Nat /\ clock >= CacheSeconds
  /\ up \subseteq Services /\ version \in [Services -> Versions]
  /\ created \in 0 .. clock /\ value \in Metrics
  /\ lock \in Viewers \cup {Nobody}
  /\ place \in [Viewers -> {"idle", "listed", "measuring", "answered"}]
  /\ \A v \in Viewers : place[v] = "measuring" <=> lock = v
  /\ listed \in [Viewers -> SUBSET Services]
  /\ now \in [Viewers -> Nat] /\ \A v \in Viewers : now[v] <= clock
  /\ result \in [Viewers -> Metrics] /\ answer \in [Viewers -> Metrics]
  /\ todo \in [Operators -> SUBSET Services]
  /\ acted \in [Operators -> Services \cup {NoService}]
  /\ began \in [Services -> Nat] /\ settled \in [Services -> Versions]
  /\ promised \in [Viewers -> [Services -> Versions]]
  /\ suspect \in BOOLEAN

Promises ==
  /\ \A s \in Services : settled[s] <= version[s] /\ began[s] <= clock
  /\ \A v \in Viewers, s \in Services : promised[v][s] <= settled[s]

\* These measurements are right about a device whose version is the promised
\* one; the others were made before it changed.
Right(metrics, s, least) ==
  /\ s \in DOMAIN metrics => metrics[s] >= least
  /\ s \in up => s \in DOMAIN metrics

RequestsAreRight ==
  \A v \in Viewers : Looking(v) =>
    /\ v \notin outrun => promised[v] = settled
    /\ \A s \in Services :
         /\ promised[v][s] = version[s] /\ s \in up => s \in listed[v]
         /\ place[v] = "measuring" /\ s \in DOMAIN result[v] =>
              /\ result[v][s] >= promised[v][s]
              /\ result[v][s] # version[s] => began[s] >= now[v]

CacheIsRight ==
  /\ Fresh /\ ~ suspect =>
       \A s \in Services : settled[s] = version[s] => Right(value, s, settled[s])
  /\ \A s \in DOMAIN value : value[s] # version[s] => began[s] >= created

ControlInv == ControlTypes /\ Promises /\ RequestsAreRight /\ CacheIsRight

\* A set of measurements.
LEMMA MetricsFacts ==
  /\ NoMetrics \in Metrics
  /\ \A m : m \in Metrics <=> IsMetrics(m)
  /\ \A m \in Metrics, s \in Services, n \in Versions :
       [t \in DOMAIN m \cup {s} |-> IF t = s THEN n ELSE m[t]] \in Metrics
<1> USE DEF Metrics
<1>1. \A m : m \in Metrics <=> IsMetrics(m)
  BY DEF IsMetrics
<1>2. NoMetrics \in Metrics
  BY <1>1 DEF NoMetrics, IsMetrics
<1>3. ASSUME NEW m \in Metrics, NEW s \in Services, NEW n \in Versions
      PROVE  [t \in DOMAIN m \cup {s} |-> IF t = s THEN n ELSE m[t]] \in Metrics
  <2>1. IsMetrics(m)
    BY <1>1
  <2> DEFINE added == [t \in DOMAIN m \cup {s} |-> IF t = s THEN n ELSE m[t]]
  <2>2. IsMetrics(added)
    BY <2>1 DEF IsMetrics
  <2> QED BY <1>1, <2>2
<1> QED BY <1>1, <1>2, <1>3

LEMMA ControlTypesAreSound == ControlTypes => ControlTypeOK
  BY MetricsFacts DEF ControlTypes, ControlTypeOK

\* Nobody looks before the machine has been up for longer than a cache lives.
LEMMA ControlInitInv == ControlInit => ControlInv
<1> SUFFICES ASSUME ControlInit PROVE ControlInv
  OBVIOUS
<1> USE DEF ControlInit
<1>1. settled \in [Services -> Versions]
  BY DEF Versions
<1>2. ControlTypes
  <2>1. promised \in [Viewers -> [Services -> Versions]]
    BY <1>1
  <2>2. version \in [Services -> Versions] /\ began \in [Services -> Nat]
    BY DEF Versions
  <2>3. value \in Metrics /\ result \in [Viewers -> Metrics] /\ answer \in [Viewers -> Metrics]
    BY MetricsFacts
  <2>4. clock \in Nat /\ clock >= CacheSeconds /\ created \in 0 .. clock
    BY ClusterControlConfig
  <2>5. \A v \in Viewers : place[v] = "measuring" <=> lock = v
    BY ClusterControlConfig
  <2>6. now \in [Viewers -> Nat] /\ \A v \in Viewers : now[v] <= clock
    BY <2>4
  <2> QED BY <1>1, <2>1, <2>2, <2>3, <2>4, <2>5, <2>6 DEF ControlTypes
<1>3. Promises
  BY ClusterControlConfig DEF Promises
<1>4. RequestsAreRight
  BY DEF RequestsAreRight, Looking
<1>5. CacheIsRight
  BY ClusterControlConfig DEF CacheIsRight, Fresh, NoMetrics
<1> QED BY <1>2, <1>3, <1>4, <1>5 DEF ControlInv

\* Every step keeps the types.
LEMMA ControlTypesStep ==
  ASSUME ControlTypes, [ControlNext]_controlVars
  PROVE  ControlTypes'
<1> USE ClusterControlConfig, MetricsFacts
<1> USE DEF ControlTypes, Enter, daemon, cache, viewing, operating, history
<1>1. CASE Tick
  BY <1>1 DEF Tick
<1>2. ASSUME NEW v \in Viewers, List(v) PROVE ControlTypes'
  BY <1>2 DEF List
<1>3. ASSUME NEW v \in Viewers, Cached(v) PROVE ControlTypes'
  BY <1>3 DEF Cached
<1>4. ASSUME NEW v \in Viewers, Expired(v) PROVE ControlTypes'
  BY <1>4 DEF Expired
<1>5. ASSUME NEW v \in Viewers, NEW s \in Services, Measure(v, s) PROVE ControlTypes'
  <2>1. result' \in [Viewers -> Metrics]
    <3>1. result[v] \in Metrics /\ version[s] \in Versions
      OBVIOUS
    <3>2. [t \in DOMAIN result[v] \cup {s} |-> IF t = s THEN version[s] ELSE result[v][t]] \in Metrics
      BY ONLY <3>1, MetricsFacts, s \in Services
    <3> QED BY ONLY <1>5, <3>2, ControlTypes DEF Measure, ControlTypes
  <2> QED BY <1>5, <2>1 DEF Measure
<1>6. ASSUME NEW v \in Viewers, Store(v) PROVE ControlTypes'
  BY <1>6 DEF Store, Stamp
<1>7. ASSUME NEW v \in Viewers, Respond(v) PROVE ControlTypes'
  BY <1>7 DEF Respond
<1>8. ASSUME NEW o \in Operators, NEW S \in SUBSET Services, Ask(o, S) PROVE ControlTypes'
  BY <1>8 DEF Ask
<1>9. ASSUME NEW o \in Operators, NEW s \in Services, Act(o, s) PROVE ControlTypes'
  BY <1>9 DEF Act, Versions
<1>10. ASSUME NEW o \in Operators, Settle(o) PROVE ControlTypes'
  <2>1. acted[o] \in Services /\ version[acted[o]] \in Versions
    BY <1>10 DEF Settle
  <2>2. settled' \in [Services -> Versions]
    BY <1>10, <2>1 DEF Settle
  <2>3. created' = 0 /\ created' \in 0 .. clock' /\ suspect' \in BOOLEAN
    <3>1. created' = 0 /\ suspect' = FALSE /\ clock' = clock
      BY ONLY <1>10 DEF Settle, Expire
    <3>2. clock' \in Nat /\ 0 \in 0 .. clock'
      BY <3>1
    <3> QED BY ONLY <3>1, <3>2
  <2>4. /\ todo' \in [Operators -> SUBSET Services]
        /\ acted' \in [Operators -> Services \cup {NoService}]
    <3>1. /\ todo \in [Operators -> SUBSET Services] /\ todo[o] \ {acted[o]} \in SUBSET Services
          /\ acted \in [Operators -> Services \cup {NoService}]
      OBVIOUS
    <3>2. /\ todo' = [todo EXCEPT ![o] = todo[o] \ {acted[o]}]
          /\ acted' = [acted EXCEPT ![o] = NoService]
      BY ONLY <1>10 DEF Settle
    <3> QED BY ONLY <3>1, <3>2, o \in Operators
  <2>5. UNCHANGED <<clock, daemon, value, viewing, began, promised>>
    BY <1>10 DEF Settle
  <2> QED BY <2>2, <2>3, <2>4, <2>5
<1>11. ASSUME NEW o \in Operators, NEW s \in Services, Fail(o, s) PROVE ControlTypes'
  BY <1>11 DEF Fail
<1>12. CASE UNCHANGED controlVars
  BY <1>12 DEF controlVars
<1> QED
  BY <1>1, <1>2, <1>3, <1>4, <1>5, <1>6, <1>7, <1>8, <1>9, <1>10, <1>11, <1>12
  DEF ControlNext, ViewerStep, OperatorStep

\* No promise is of a version there is not yet.
LEMMA PromisesStep ==
  ASSUME ControlTypes, Promises, [ControlNext]_controlVars
  PROVE  Promises'
<1> USE DEF ControlTypes, Promises, Versions, daemon, cache, viewing, operating, history
<1>1. ASSUME NEW v \in Viewers, List(v) PROVE Promises'
  BY <1>1 DEF List
<1>2. ASSUME NEW o \in Operators, NEW s \in Services, Act(o, s) PROVE Promises'
  BY <1>2 DEF Act
<1>3. ASSUME NEW o \in Operators, Settle(o) PROVE Promises'
  <2>1. acted[o] \in Services /\ settled' = [settled EXCEPT ![acted[o]] = version[acted[o]]]
        /\ UNCHANGED <<clock, version, began, promised>>
    BY <1>3 DEF Settle
  <2> QED BY <2>1
<1>4. CASE Tick
  BY <1>4 DEF Tick
<1>5. CASE UNCHANGED <<clock, version, began, settled, promised>>
  BY <1>5
<1> QED
  BY <1>1, <1>2, <1>3, <1>4, <1>5
  DEF ControlNext, ViewerStep, OperatorStep, Cached, Expired, Measure, Store, Respond, Ask,
      Fail, controlVars

\* What a request has listed and measured stays right about all that is not
\* changed again.
LEMMA RequestsStep ==
  ASSUME ControlTypes, Promises, RequestsAreRight, [ControlNext]_controlVars
  PROVE  RequestsAreRight'
<1> USE DEF Promises, RequestsAreRight, daemon, cache, viewing, operating, history
<1> USE ControlTypesStep
<1>1. CASE Tick
  BY <1>1 DEF Tick, Looking
<1>2. ASSUME NEW v \in Viewers, List(v) PROVE RequestsAreRight'
  BY <1>2 DEF List, Looking, Enter, ControlTypes
<1>3. ASSUME NEW v \in Viewers, Cached(v) \/ Respond(v) PROVE RequestsAreRight'
  BY <1>3 DEF Cached, Respond, Looking, Enter, ControlTypes
<1>4. ASSUME NEW v \in Viewers, Store(v) PROVE RequestsAreRight'
  BY <1>4 DEF Store, Looking, Enter, ControlTypes
<1>5. ASSUME NEW v \in Viewers, Expired(v) PROVE RequestsAreRight'
  BY <1>5 DEF Expired, Looking, Enter, ControlTypes, NoMetrics
<1>6. ASSUME NEW v \in Viewers, NEW s \in Services, Measure(v, s) PROVE RequestsAreRight'
  BY <1>6 DEF Measure, Looking, ControlTypes, Versions
<1>7. ASSUME NEW o \in Operators, NEW s \in Services, Act(o, s) PROVE RequestsAreRight'
  BY <1>7 DEF Act, Looking, ControlTypes, Versions
<1>8. ASSUME NEW o \in Operators, Settle(o) PROVE RequestsAreRight'
  BY <1>8 DEF Settle, Expire, Looking, ControlTypes, Versions
<1>9. CASE UNCHANGED <<daemon, viewing, history>>
  BY <1>9 DEF Looking
<1> QED
  BY <1>1, <1>2, <1>3, <1>4, <1>5, <1>6, <1>7, <1>8, <1>9
  DEF ControlNext, ViewerStep, OperatorStep, Ask, Fail, controlVars

\* What is cached was right when the cache was filled, unless a request that
\* had been outrun filled it; and a reset makes it expire.
LEMMA CacheStep ==
  ASSUME ControlTypes, Promises, RequestsAreRight, CacheIsRight, [ControlNext]_controlVars
  PROVE  CacheIsRight'
<1> USE DEF Promises, CacheIsRight, Right, Fresh, daemon, cache, viewing, operating, history
<1> USE ControlTypesStep, ClusterControlConfig
<1>1. CASE Tick
  BY <1>1 DEF Tick, ControlTypes
<1>2. ASSUME NEW v \in Viewers, Store(v) PROVE CacheIsRight'
  <2>1. /\ place[v] = "measuring" /\ DOMAIN result[v] = listed[v]
        /\ created' = now[v] /\ value' = result[v] /\ suspect' = (v \in outrun)
        /\ UNCHANGED <<clock, daemon, began, settled>>
    BY <1>2 DEF Store, Stamp
  <2>2. \A s \in Services :
          /\ promised[v][s] = version[s] /\ s \in up => s \in DOMAIN result[v]
          /\ s \in DOMAIN result[v] =>
               /\ result[v][s] >= promised[v][s]
               /\ result[v][s] # version[s] => began[s] >= now[v]
    BY <2>1 DEF RequestsAreRight, Looking
  <2>3. v \notin outrun => promised[v] = settled
    BY <2>1 DEF RequestsAreRight, Looking
  <2>4. DOMAIN result[v] \subseteq Services
    BY <2>1 DEF ControlTypes
  <2> QED BY <2>1, <2>2, <2>3, <2>4
<1>3. ASSUME NEW o \in Operators, NEW s \in Services, Act(o, s) PROVE CacheIsRight'
  <2>1. value \in Metrics /\ DOMAIN value \subseteq Services
    BY DEF ControlTypes, Metrics
  <2> QED BY <1>3, <2>1 DEF Act, ControlTypes, Versions
<1>4. ASSUME NEW o \in Operators, Settle(o) PROVE CacheIsRight'
  <2>1. created' = 0 /\ UNCHANGED <<clock, daemon, value, began>>
    BY <1>4 DEF Settle, Expire
  <2>2. DOMAIN value \subseteq Services
    BY DEF ControlTypes, Metrics
  <2>3. ~ Fresh'
    BY <2>1 DEF ControlTypes
  <2>4. \A s \in Services : began[s] >= 0
    BY DEF ControlTypes
  <2> QED BY <2>1, <2>2, <2>3, <2>4
<1>5. CASE UNCHANGED <<clock, daemon, cache, began, settled, suspect>>
  BY <1>5
<1> QED
  BY <1>1, <1>2, <1>3, <1>4, <1>5
  DEF ControlNext, ViewerStep, OperatorStep, List, Cached, Expired, Measure, Respond, Ask,
      Fail, controlVars

\* The inductive invariant of the metrics cache: whatever is listed, measured
\* or cached is right about every device that was not changed since, or else
\* the cache was filled by a request that had been outrun; and what is wrong
\* became so after the cache's time stamp (cluster_control.py:216-242, 397).
THEOREM ControlInvariant == ControlSpec => []ControlInv
<1>1. ControlInv /\ [ControlNext]_controlVars => ControlInv'
  BY ControlTypesStep, PromisesStep, RequestsStep, CacheStep DEF ControlInv
<1> QED BY ControlInitInv, <1>1, PTL DEF ControlSpec

\* An answer is out of date only if the cache was filled by a request that a
\* control action had outrun.
LEMMA AnswersAreRight ==
  ASSUME ControlInv, ControlNext,
         NEW v \in Viewers, place[v] # "answered", place'[v] = "answered",
         NEW s \in Services
  PROVE  suspect' \/ ~ Outdated(v, s)'
<1> USE DEF daemon, cache, viewing, operating, history
<1>1. Cached(v) \/ Store(v)
  <2>1. place \in [Viewers -> {"idle", "listed", "measuring", "answered"}]
    BY DEF ControlInv, ControlTypes
  <2>2. PICK w \in Viewers : ViewerStep(w)
    BY DEF ControlNext, Tick, OperatorStep, Ask, Act, Settle, Fail
  <2>3. CASE List(w) \/ Expired(w) \/ Respond(w)
    BY <2>1, <2>3 DEF List, Expired, Respond, Enter
  <2>4. CASE \E t \in Services : Measure(w, t)
    BY <2>4 DEF Measure
  <2>5. CASE Cached(w) \/ Store(w)
    <3>1. w = v
      BY <2>1, <2>5 DEF Cached, Store, Enter
    <3> QED BY <2>5, <3>1
  <2> QED BY <2>2, <2>3, <2>4, <2>5 DEF ViewerStep
<1>2. CASE Cached(v)
  <2>1. /\ Fresh /\ answer'[v] = value /\ place[v] = "listed"
        /\ UNCHANGED <<daemon, promised, suspect>>
    <3>1. answer \in [Viewers -> Metrics]
      BY DEF ControlInv, ControlTypes
    <3> QED BY <1>2, <3>1 DEF Cached
  <2>2. promised[v][s] = version[s] => settled[s] = version[s]
    <3>1. promised[v][s] \in Nat /\ settled[s] \in Nat /\ version[s] \in Nat
      BY DEF ControlInv, ControlTypes, Versions
    <3>2. promised[v][s] <= settled[s] /\ settled[s] <= version[s]
      BY DEF ControlInv, Promises
    <3> QED BY <3>1, <3>2
  <2>3. ~ suspect /\ settled[s] = version[s] => Right(value, s, settled[s])
    BY <2>1 DEF ControlInv, CacheIsRight
  <2>4. /\ (promised[v][s])' = promised[v][s] /\ version'[s] = version[s] /\ up' = up
        /\ suspect' = suspect
    BY <2>1
  <2>5. CASE ~ suspect /\ promised[v][s] = version[s]
    <3>1. /\ s \in DOMAIN value => value[s] >= promised[v][s]
          /\ s \in up => s \in DOMAIN value
      BY <2>2, <2>3, <2>5 DEF Right
    <3>2. promised[v][s] \in Nat /\ (s \in DOMAIN value => value[s] \in Nat)
      BY DEF ControlInv, ControlTypes, Versions, Metrics
    <3>3. ~ (s \in DOMAIN answer'[v] /\ answer'[v][s] < promised'[v][s])
      BY <2>1, <3>1, <3>2
    <3>4. ~ (s \in up' /\ s \notin DOMAIN answer'[v])
      BY <2>1, <2>4, <3>1
    <3> QED BY <3>3, <3>4 DEF Outdated
  <2>6. suspect \in BOOLEAN
    BY DEF ControlInv, ControlTypes
  <2> QED BY <2>4, <2>5, <2>6 DEF Outdated
<1>3. CASE Store(v)
  <2>1. /\ place[v] = "measuring" /\ answer'[v] = result[v] /\ DOMAIN result[v] = listed[v]
        /\ UNCHANGED <<daemon, promised>>
    BY <1>3 DEF Store, ControlInv, ControlTypes
  <2> QED BY <2>1 DEF ControlInv, RequestsAreRight, Looking, Outdated, ControlTypes, Versions, Metrics
<1> QED BY <1>1, <1>2, <1>3

\* The dashboard is out of date in one race only, and never about more than
\* the last seconds.
THEOREM MetricsAreSound == ControlSpec => MetricsSound
<1>1. ControlInv => ControlTypeOK
  BY ControlTypesAreSound DEF ControlInv
<1>2. ControlInv /\ [ControlNext]_controlVars =>
        [\A v \in Viewers : place[v] # "answered" /\ place'[v] = "answered" =>
           suspect' \/ \A s \in Services : ~ Outdated(v, s)']_controlVars
  BY AnswersAreRight
<1>3. ControlInv /\ [ControlNext]_controlVars =>
        [\A v \in Viewers : Cached(v) =>
           \A s \in DOMAIN value : value[s] # version[s] => clock - began[s] < CacheSeconds]_controlVars
  <2> SUFFICES ASSUME ControlInv, NEW v \in Viewers, Cached(v),
                      NEW s \in DOMAIN value, value[s] # version[s]
               PROVE  clock - began[s] < CacheSeconds
    OBVIOUS
  <2>1. began[s] \in Nat /\ clock \in Nat /\ created \in Nat
    BY DEF ControlInv, ControlTypes, Metrics
  <2>2. began[s] >= created /\ clock - created < CacheSeconds
    BY DEF ControlInv, CacheIsRight, Cached, Fresh
  <2> QED BY <2>1, <2>2, ClusterControlConfig
<1> QED
  BY <1>1, <1>2, <1>3, ControlInvariant, PTL
  DEF ControlSpec, MetricsSound, StaleOnlyIfOutrun, WrongForSecondsOnly

----------------------------------------------------------------------------
(* Levels: one from the other. *)

Sequence(s) == Len(s) \in Nat /\ s = [i \in 1 .. Len(s) |-> s[i]]

Different(s) == \A i, j \in 1 .. Len(s) : s[i] = s[j] => i = j

\* A number is even or odd.
LEMMA Half ==
  ASSUME NEW n \in Nat
  PROVE  \E k \in Nat : n = 2 * k \/ n = 2 * k - 1
<1>1. (n + 1) \div 2 \in Nat
  OBVIOUS
<1>2. n = 2 * ((n + 1) \div 2) \/ n = 2 * ((n + 1) \div 2) - 1
  OBVIOUS
<1> QED BY <1>1, <1>2

\* What is on the next level.
LEMMA NextLevel ==
  ASSUME NEW a, Sequence(a), Len(a) >= 1
  PROVE  /\ Sequence(Pairs(Even(a)))
         /\ Len(Pairs(Even(a))) \in 1 .. Len(a)
         /\ Len(a) = 2 * Len(Pairs(Even(a))) \/ Len(a) = 2 * Len(Pairs(Even(a))) - 1
         /\ \A i \in 1 .. Len(Pairs(Even(a))) :
              Pairs(Even(a))[i] = Node(a[2 * i - 1], IF 2 * i <= Len(a) THEN a[2 * i] ELSE a[2 * i - 1])
<1> DEFINE S == {a[i] : i \in 1 .. Len(a)}
           n == Len(a)
           e == Even(a)
           p == Pairs(e)
<1>1. a \in Seq(S)
  <2>1. a \in [1 .. n -> S]
    BY DEF Sequence
  <2> QED BY <2>1, SeqDef DEF Sequence
<1>2. PICK k \in Nat : (n = 2 * k \/ n = 2 * k - 1) /\ k >= 1 /\ k <= n
  <2>1. n \in Nat /\ n >= 1
    BY DEF Sequence
  <2> HIDE DEF n
  <2>2. PICK k \in Nat : n = 2 * k \/ n = 2 * k - 1
    BY <2>1, Half
  <2>3. k >= 1 /\ k <= n
    BY <2>1, <2>2
  <2> QED BY <2>2, <2>3
<1>3. /\ Len(e) = 2 * k
      /\ \A i \in 1 .. n : e[i] = a[i]
      /\ n = 2 * k - 1 => e[2 * k] = a[n]
  <2>1. CASE n = 2 * k
    BY <1>2, <2>1 DEF Even
  <2>2. CASE n = 2 * k - 1
    <3>1. e = Append(a, a[n])
      BY <1>2, <2>2 DEF Even, Last
    <3>2. a[n] \in S
      BY <1>2
    <3> HIDE DEF S
    <3> QED BY <1>1, <1>2, <2>2, <3>1, <3>2, AppendProperties
  <2> QED BY <1>2, <2>1, <2>2
<1>4. p = [i \in 1 .. k |-> Node(e[2 * i - 1], e[2 * i])]
  BY <1>3 DEF Pairs
<1>5. Len(p) = k
  BY <1>4
<1>6. ASSUME NEW i \in 1 .. k
      PROVE  p[i] = Node(a[2 * i - 1], IF 2 * i <= n THEN a[2 * i] ELSE a[2 * i - 1])
  <2>1. p[i] = Node(e[2 * i - 1], e[2 * i])
    BY <1>4
  <2>2. 2 * i - 1 \in 1 .. n
    <3>1. n \in Nat
      BY DEF Sequence
    <3> HIDE DEF n
    <3> QED BY <1>2, <3>1
  <2>0. e[2 * i - 1] = a[2 * i - 1]
    BY <1>3, <2>2
  <2>3. e[2 * i] = IF 2 * i <= n THEN a[2 * i] ELSE a[2 * i - 1]
    <3>1. CASE 2 * i <= n
      BY <1>3, <3>1
    <3>2. CASE ~ 2 * i <= n
      <4>1. n = 2 * k - 1 /\ i = k /\ 2 * i - 1 = n
        BY <1>2, <3>2
      <4> QED BY <1>3, <3>2, <4>1
    <3> QED BY <3>1, <3>2
  <2> QED BY <2>0, <2>1, <2>3
<1>7. Sequence(p)
  <2> HIDE DEF p
  <2> QED BY <1>2, <1>4, <1>5 DEF Sequence
<1> HIDE DEF p, n
<1>8. /\ Sequence(p) /\ Len(p) \in 1 .. n
      /\ n = 2 * Len(p) \/ n = 2 * Len(p) - 1
      /\ \A i \in 1 .. Len(p) :
           p[i] = Node(a[2 * i - 1], IF 2 * i <= n THEN a[2 * i] ELSE a[2 * i - 1])
  BY <1>2, <1>5, <1>6, <1>7
<1> QED BY <1>8 DEF p, n

\* Nodes are pairs of values, and no leaf is one.
LEMMA Terms ==
  /\ \A l, r, m, s : Node(l, r) = Node(m, s) => l = m /\ r = s
  /\ \A l, r, v : Node(l, r) # Leaf(v)
  /\ \A u, v : Leaf(u) = Leaf(v) => u = v
  BY DEF Node, Leaf

\* Different nodes have different parents, and parents say which nodes they
\* are of: a level whose last node is repeated is not another level, because
\* there the last two would be the same.
LEMMA ParentsDiffer ==
  ASSUME NEW a, Sequence(a), Len(a) >= 1, Different(a)
  PROVE  Different(Pairs(Even(a)))
<1>1. SUFFICES ASSUME NEW i \in 1 .. Len(Pairs(Even(a))), NEW j \in 1 .. Len(Pairs(Even(a))),
                      Pairs(Even(a))[i] = Pairs(Even(a))[j]
               PROVE  i = j
  BY DEF Different
<1>2. a[2 * i - 1] = a[2 * j - 1]
  BY <1>1, NextLevel, Terms
<1>3. 2 * i - 1 \in 1 .. Len(a) /\ 2 * j - 1 \in 1 .. Len(a)
  BY NextLevel DEF Sequence
<1> QED BY <1>2, <1>3 DEF Different

LEMMA ParentsTell ==
  ASSUME NEW a, NEW b, Sequence(a), Sequence(b), Len(a) >= 1, Len(b) >= 1,
         Different(a), Different(b), Pairs(Even(a)) = Pairs(Even(b))
  PROVE  a = b
<1> DEFINE k == Len(Pairs(Even(a)))
<1>1. /\ k \in Nat /\ k >= 1
      /\ Len(a) = 2 * k \/ Len(a) = 2 * k - 1
      /\ Len(b) = 2 * k \/ Len(b) = 2 * k - 1
  <2>1. k \in 1 .. Len(a) /\ Len(a) \in Nat /\ (Len(a) = 2 * k \/ Len(a) = 2 * k - 1)
    BY NextLevel DEF Sequence
  <2>2. Len(b) = 2 * k \/ Len(b) = 2 * k - 1
    BY NextLevel
  <2> HIDE DEF k
  <2> QED BY <2>1, <2>2
<1>2. \A i \in 1 .. k :
        /\ a[2 * i - 1] = b[2 * i - 1]
        /\ (IF 2 * i <= Len(a) THEN a[2 * i] ELSE a[2 * i - 1])
             = (IF 2 * i <= Len(b) THEN b[2 * i] ELSE b[2 * i - 1])
  BY NextLevel, Terms
<1> HIDE DEF k
<1>3. Len(a) = Len(b)
  <2>1. CASE Len(a) = 2 * k /\ Len(b) = 2 * k - 1
    <3>1. a[2 * k - 1] = b[2 * k - 1] /\ a[2 * k] = b[2 * k - 1]
      BY <1>1, <1>2, <2>1
    <3>2. 2 * k \in 1 .. Len(a) /\ 2 * k - 1 \in 1 .. Len(a) /\ 2 * k # 2 * k - 1
      BY <1>1, <2>1
    <3> QED BY <3>1, <3>2 DEF Different
  <2>2. CASE Len(b) = 2 * k /\ Len(a) = 2 * k - 1
    <3>1. b[2 * k - 1] = a[2 * k - 1] /\ b[2 * k] = a[2 * k - 1]
      BY <1>1, <1>2, <2>2
    <3>2. 2 * k \in 1 .. Len(b) /\ 2 * k - 1 \in 1 .. Len(b) /\ 2 * k # 2 * k - 1
      BY <1>1, <2>2
    <3> QED BY <3>1, <3>2 DEF Different
  <2> QED BY <1>1, <2>1, <2>2
<1>4. ASSUME NEW j \in 1 .. Len(a) PROVE a[j] = b[j]
  <2>1. PICK i \in 1 .. k : j = 2 * i \/ j = 2 * i - 1
    <3>1. PICK i \in Nat : j = 2 * i \/ j = 2 * i - 1
      <4>1. j \in Nat
        BY <1>1
      <4> QED BY <4>1, Half
    <3> QED BY <1>1, <3>1
  <2>2. CASE j = 2 * i
    <3>1. 2 * i <= Len(a) /\ 2 * i <= Len(b)
      BY <1>3, <2>2
    <3> QED BY <1>2, <2>2, <3>1
  <2>3. CASE j = 2 * i - 1
    BY <1>2, <2>3
  <2> QED BY <2>1, <2>2, <2>3
<1> QED BY <1>3, <1>4 DEF Sequence

----------------------------------------------------------------------------
(* The two recursive definitions: they are defined, and what one more step  *)
(* of them adds.                                                           *)

\* Induction over the natural numbers, for a set instead of a predicate.
LEMMA InductionOnNat ==
  ASSUME NEW S \in SUBSET Nat, 0 \in S, \A n \in S : n + 1 \in S
  PROVE  S = Nat
<1> DEFINE R == OpToRel(<, Nat)
           T == Nat \ S
<1>1. SUFFICES ASSUME T # {} PROVE FALSE
  OBVIOUS
<1>2. IsWellFoundedOn(R, Nat)
  BY NatLessThanWellFounded
<1>3. \E x \in T : \A y \in T : ~ (<<y, x>> \in R)
  <2> HIDE DEF R
  <2> T \subseteq Nat OBVIOUS
  <2> HIDE DEF T
  <2> QED BY <1>1, <1>2, WFMin
<1>4. PICK x \in T : \A y \in T : ~ (<<y, x>> \in R)
  BY <1>3
<1>5. x \in Nat /\ x # 0 /\ x - 1 \in Nat /\ x - 1 < x
  OBVIOUS
<1>6. x - 1 \in T
  BY <1>5
<1>7. <<x - 1, x>> \in R
  BY <1>5 DEF OpToRel
<1> QED BY <1>4, <1>6, <1>7

\* The levels of the loop of root, one after the other; when there is one node
\* left it stays.
Levels(a, after) ==
  /\ after[0] = a
  /\ \A k \in 1 .. Len(a) : after[k] = Raised(after[k - 1])

LEMMA TopIsLast ==
  ASSUME NEW a, Len(a) \in Nat
  PROVE  \E after : Levels(a, after) /\ Top(a) = after[Len(a)][1]
<1> DEFINE Extend(f, i) == IF i = 0 THEN a ELSE Raised(f[i - 1])
           Rec(f, n) == f = [i \in 0 .. n |-> Extend(f, i)]
<1>2. \A n \in Nat : \E f : Rec(f, n)
  <2> DEFINE E == {n \in Nat : \E f : Rec(f, n)}
  <2>1. 0 \in E
    <3> DEFINE h == [i \in 0 .. 0 |-> Extend(<< >>, 0)]
    <3>1. Rec(h, 0)
      OBVIOUS
    <3> HIDE DEF Rec, h
    <3> QED BY <3>1
  <2>2. ASSUME NEW n \in E PROVE n + 1 \in E
    <3>1. PICK g : Rec(g, n)
      OBVIOUS
    <3>2. \A i \in 0 .. n : g[i] = Extend(g, i)
      <4> HIDE DEF Extend
      <4> QED BY <3>1
    <3> DEFINE h == [i \in 0 .. (n + 1) |-> IF i <= n THEN g[i] ELSE Extend(g, n + 1)]
    <3>3. ASSUME NEW i \in 0 .. (n + 1)
          PROVE  h[i] = Extend(h, i)
      <4>1. CASE i = 0
        BY <3>2, <4>1
      <4>2. CASE i # 0
        <5>1. i - 1 \in 0 .. n
          BY <4>2
        <5>2. h[i - 1] = g[i - 1]
          BY <5>1
        <5>3. Extend(h, i) = Extend(g, i)
          <6> HIDE DEF h
          <6> QED BY <5>2
        <5>4. CASE i <= n
          <6>1. h[i] = g[i] /\ i \in 0 .. n
            BY <5>4
          <6> HIDE DEF h, Extend
          <6> QED BY <3>2, <5>3, <6>1
        <5>5. CASE i = n + 1
          <6>1. h[i] = Extend(g, n + 1)
            <7> HIDE DEF Extend
            <7> QED BY <5>5
          <6> HIDE DEF h, Extend
          <6> QED BY <5>3, <5>5, <6>1
        <5> QED BY <5>4, <5>5
      <4> QED BY <4>1, <4>2
    <3>4. h = [i \in 0 .. (n + 1) |-> h[i]]
      <4> HIDE DEF Extend
      <4> QED OBVIOUS
    <3>5. Rec(h, n + 1)
      <4> HIDE DEF h, Extend
      <4> QED BY <3>3, <3>4
    <3> HIDE DEF h, Rec
    <3> QED BY <3>5
  <2>3. E = Nat
    <3> HIDE DEF E
    <3> E \in SUBSET Nat BY DEF E
    <3> QED BY <2>1, <2>2, InductionOnNat
  <2> QED BY <2>3
<1> DEFINE F == CHOOSE f : Rec(f, Len(a))
<1>3. Rec(F, Len(a))
  <2> HIDE DEF Rec
  <2> QED BY <1>2
<1>4. \A i \in 0 .. Len(a) : F[i] = Extend(F, i)
  <2> HIDE DEF F, Extend
  <2> QED BY <1>3
<1>5. Top(a) = F[Len(a)][1]
  BY DEF Top
<1> HIDE DEF F
<1>6. Levels(a, F)
  BY <1>4 DEF Levels
<1> QED BY <1>5, <1>6

\* What verify has computed after each step.
Computed(hash, proof, current) ==
  current = [i \in 0 .. Len(proof) |->
               IF i = 0 THEN Leaf(hash) ELSE Combine(proof[i], current[i - 1])]

LEMMA WalkIsLast ==
  ASSUME NEW hash, NEW proof, Len(proof) \in Nat
  PROVE  \E current : Computed(hash, proof, current) /\ Walk(hash, proof) = current[Len(proof)]
<1> DEFINE Extend(f, i) == IF i = 0 THEN Leaf(hash) ELSE Combine(proof[i], f[i - 1])
           Rec(f, n) == f = [i \in 0 .. n |-> Extend(f, i)]
<1>2. \A n \in Nat : \E f : Rec(f, n)
  <2> DEFINE E == {n \in Nat : \E f : Rec(f, n)}
  <2>1. 0 \in E
    <3> DEFINE h == [i \in 0 .. 0 |-> Extend(<< >>, 0)]
    <3>1. Rec(h, 0)
      OBVIOUS
    <3> HIDE DEF Rec, h
    <3> QED BY <3>1
  <2>2. ASSUME NEW n \in E PROVE n + 1 \in E
    <3>1. PICK g : Rec(g, n)
      OBVIOUS
    <3>2. \A i \in 0 .. n : g[i] = Extend(g, i)
      <4> HIDE DEF Extend
      <4> QED BY <3>1
    <3> DEFINE h == [i \in 0 .. (n + 1) |-> IF i <= n THEN g[i] ELSE Extend(g, n + 1)]
    <3>3. ASSUME NEW i \in 0 .. (n + 1)
          PROVE  h[i] = Extend(h, i)
      <4>1. CASE i = 0
        BY <3>2, <4>1
      <4>2. CASE i # 0
        <5>1. i - 1 \in 0 .. n
          BY <4>2
        <5>2. h[i - 1] = g[i - 1]
          BY <5>1
        <5>3. Extend(h, i) = Extend(g, i)
          <6> HIDE DEF h
          <6> QED BY <5>2
        <5>4. CASE i <= n
          <6>1. h[i] = g[i] /\ i \in 0 .. n
            BY <5>4
          <6> HIDE DEF h, Extend
          <6> QED BY <3>2, <5>3, <6>1
        <5>5. CASE i = n + 1
          <6>1. h[i] = Extend(g, n + 1)
            <7> HIDE DEF Extend
            <7> QED BY <5>5
          <6> HIDE DEF h, Extend
          <6> QED BY <5>3, <5>5, <6>1
        <5> QED BY <5>4, <5>5
      <4> QED BY <4>1, <4>2
    <3>4. h = [i \in 0 .. (n + 1) |-> h[i]]
      <4> HIDE DEF Extend
      <4> QED OBVIOUS
    <3>5. Rec(h, n + 1)
      <4> HIDE DEF h, Extend
      <4> QED BY <3>3, <3>4
    <3> HIDE DEF h, Rec
    <3> QED BY <3>5
  <2>3. E = Nat
    <3> HIDE DEF E
    <3> E \in SUBSET Nat BY DEF E
    <3> QED BY <2>1, <2>2, InductionOnNat
  <2> QED BY <2>3
<1> DEFINE F == CHOOSE f : Rec(f, Len(proof))
<1>3. Rec(F, Len(proof))
  <2> HIDE DEF Rec
  <2> QED BY <1>2
<1>4. Walk(hash, proof) = F[Len(proof)]
  BY DEF Walk
<1>5. Computed(hash, proof, F)
  <2> HIDE DEF F
  <2> QED BY <1>3 DEF Computed
<1> QED BY <1>4, <1>5

\* One more step of a proof.
LEMMA WalkOn ==
  ASSUME NEW hash, NEW proof, NEW step, NEW S, proof \in Seq(S)
  PROVE  /\ Walk(hash, << >>) = Leaf(hash)
         /\ Walk(hash, Append(proof, step)) = Combine(step, Walk(hash, proof))
<1>1. Walk(hash, << >>) = Leaf(hash)
  <2>1. Len(<< >>) = 0
    OBVIOUS
  <2>2. PICK current : Computed(hash, << >>, current) /\ Walk(hash, << >>) = current[0]
    BY <2>1, WalkIsLast
  <2> QED BY <2>1, <2>2 DEF Computed
<1> DEFINE n == Len(proof)
           longer == Append(proof, step)
<1>2. /\ n \in Nat /\ Len(longer) = n + 1 /\ longer[n + 1] = step
      /\ \A i \in 1 .. n : longer[i] = proof[i]
  <2>1. proof \in Seq(S \cup {step})
    BY SeqMonotonic
  <2>2. step \in S \cup {step}
    OBVIOUS
  <2> QED BY <2>1, <2>2, AppendProperties, LenProperties
<1> HIDE DEF longer, n
<1>3. PICK f : Computed(hash, proof, f) /\ Walk(hash, proof) = f[n]
  BY <1>2, WalkIsLast DEF n
<1>4. PICK g : Computed(hash, longer, g) /\ Walk(hash, longer) = g[n + 1]
  <2>1. Len(longer) \in Nat
    BY <1>2
  <2>2. \E g : Computed(hash, longer, g) /\ Walk(hash, longer) = g[Len(longer)]
    BY <2>1, WalkIsLast
  <2> QED BY <1>2, <2>2
<1>5. \A i \in 0 .. n : f[i] = IF i = 0 THEN Leaf(hash) ELSE Combine(proof[i], f[i - 1])
  BY <1>3 DEF Computed, n
<1>6. \A i \in 0 .. (n + 1) : g[i] = IF i = 0 THEN Leaf(hash) ELSE Combine(longer[i], g[i - 1])
  BY <1>2, <1>4 DEF Computed
<1> DEFINE E == {i \in Nat : i <= n => g[i] = f[i]}
<1>7. 0 \in E
  <2>1. 0 \in 0 .. n /\ 0 \in 0 .. (n + 1)
    BY <1>2
  <2> QED BY <1>5, <1>6, <2>1
<1>8. ASSUME NEW i \in E PROVE i + 1 \in E
  <2>1. SUFFICES ASSUME i + 1 <= n PROVE g[i + 1] = f[i + 1]
    OBVIOUS
  <2>2. i + 1 \in 1 .. n /\ i + 1 \in 0 .. n /\ i + 1 \in 0 .. (n + 1) /\ i + 1 # 0 /\ (i + 1) - 1 = i
    BY <1>2, <2>1
  <2>3. g[i] = f[i]
    BY <1>2, <2>1
  <2>4. f[i + 1] = Combine(proof[i + 1], f[i])
    BY <1>5, <2>2
  <2>5. g[i + 1] = Combine(longer[i + 1], g[i])
    BY <1>6, <2>2
  <2> QED BY <1>2, <2>2, <2>3, <2>4, <2>5
<1>9. E = Nat
  <2> HIDE DEF E
  <2> E \in SUBSET Nat BY DEF E
  <2> QED BY <1>7, <1>8, InductionOnNat
<1>10. g[n] = f[n]
  BY <1>2, <1>9
<1>11. g[n + 1] = Combine(step, g[n])
  <2>1. n + 1 \in 0 .. (n + 1) /\ n + 1 # 0 /\ (n + 1) - 1 = n
    BY <1>2
  <2> QED BY <1>2, <1>6, <2>1
<1> QED BY <1>1, <1>3, <1>4, <1>10, <1>11 DEF longer

----------------------------------------------------------------------------
(* What the loop of root computes. *)

\* The levels are never empty and end with one node; if the nodes are
\* different at the bottom they are different on every level.
LEMMA LevelsFacts ==
  ASSUME NEW a, Sequence(a), Len(a) >= 1, NEW after, Levels(a, after)
  PROVE  /\ \A k \in 0 .. Len(a) :
              /\ Sequence(after[k]) /\ Len(after[k]) >= 1
              /\ Different(a) => Different(after[k])
              /\ Len(after[k]) = 1 \/ Len(after[k]) + k <= Len(a)
         /\ Len(after[Len(a)]) = 1
<1> DEFINE n == Len(a)
           Good(k) == /\ Sequence(after[k]) /\ Len(after[k]) >= 1
                      /\ Different(a) => Different(after[k])
                      /\ Len(after[k]) = 1 \/ Len(after[k]) + k <= n
           E == {k \in Nat : k <= n => Good(k)}
<1>1. n \in Nat
  BY DEF Sequence
<1>2. 0 \in E
  BY <1>1 DEF Levels
<1>3. ASSUME NEW k \in E PROVE k + 1 \in E
  <2>1. SUFFICES ASSUME k + 1 <= n PROVE Good(k + 1)
    <3> HIDE DEF Good
    <3> QED BY <1>1
  <2> HIDE DEF n
  <2>2. Good(k)
    <3>1. k <= n
      BY <1>1, <2>1
    <3> HIDE DEF Good
    <3> QED BY <3>1
  <2>3. after[k + 1] = Raised(after[k])
    <3>1. k + 1 \in 1 .. n /\ (k + 1) - 1 = k
      BY <1>1, <2>1
    <3> QED BY <3>1 DEF Levels, n
  <2> DEFINE c == after[k]
             d == after[k + 1]
  <2>4. /\ Sequence(c) /\ Len(c) \in Nat /\ Len(c) >= 1
        /\ Different(a) => Different(c)
        /\ Len(c) = 1 \/ Len(c) + k <= n
    BY <2>2 DEF Sequence
  <2>5. d = Raised(c)
    BY <2>3
  <2> HIDE DEF c, d
  <2>6. /\ Sequence(d) /\ Len(d) >= 1
        /\ Different(a) => Different(d)
        /\ Len(d) = 1 \/ Len(d) + (k + 1) <= n
    <3>1. CASE Len(c) = 1
      <4>1. d = c
        BY <2>5, <3>1 DEF Raised
      <4> QED BY <2>4, <3>1, <4>1
    <3>2. CASE Len(c) # 1
      <4>1. Len(c) > 1
        <5> DEFINE lc == Len(c)
        <5>1. lc \in Nat /\ lc >= 1 /\ lc # 1
          BY ONLY <2>4, <3>2
        <5> HIDE DEF lc
        <5>2. lc > 1
          BY ONLY <5>1
        <5> QED BY <5>2 DEF lc
      <4>2. d = Pairs(Even(c))
        BY <2>5, <4>1 DEF Raised
      <4>3. Sequence(d) /\ Len(d) \in 1 .. Len(c) /\ (Len(c) = 2 * Len(d) \/ Len(c) = 2 * Len(d) - 1)
        BY <2>4, <4>2, NextLevel
      <4>4. Different(a) => Different(d)
        BY <2>4, <4>2, ParentsDiffer
      <4> DEFINE lc == Len(c)
                 ld == Len(d)
      <4>5. lc \in Nat /\ lc > 1 /\ lc + k <= n /\ ld \in 1 .. lc /\ (lc = 2 * ld \/ lc = 2 * ld - 1)
        BY <2>4, <3>2, <4>1, <4>3
      <4> HIDE DEF lc, ld
      <4>6. ld >= 1 /\ (ld = 1 \/ ld + (k + 1) <= n)
        <5>1. ld = 1 \/ ld + 1 <= lc
          BY <4>5
        <5> QED BY <1>1, <4>5, <5>1
      <4> QED BY <4>3, <4>4, <4>6 DEF ld
    <3> QED BY <3>1, <3>2
  <2>7. /\ Sequence(after[k + 1]) /\ Len(after[k + 1]) >= 1
        /\ Different(a) => Different(after[k + 1])
        /\ Len(after[k + 1]) = 1 \/ Len(after[k + 1]) + (k + 1) <= n
    BY ONLY <2>6 DEF d
  <2> QED BY ONLY <2>7 DEF Good
<1>4. E = Nat
  <2> HIDE DEF E
  <2> E \in SUBSET Nat BY DEF E
  <2> QED BY <1>2, <1>3, InductionOnNat
<1>5. \A k \in 0 .. n : Good(k)
  <2> HIDE DEF Good
  <2> QED BY <1>1, <1>4
<1>6. Len(after[n]) = 1
  <2>1. Good(n)
    BY <1>1, <1>5
  <2>2. Len(after[n]) \in Nat
    BY <2>1 DEF Sequence
  <2> QED BY <1>1, <2>1, <2>2
<1> QED BY <1>5, <1>6

\* A level of one node is the last.
LEMMA Stays ==
  ASSUME NEW a, Sequence(a), Len(a) >= 1, NEW after, Levels(a, after),
         NEW h \in 0 .. Len(a), Len(after[h]) = 1
  PROVE  after[Len(a)] = after[h]
<1> DEFINE n == Len(a)
<1>1. n \in Nat
  BY DEF Sequence
<1> DEFINE F == {k \in Nat : h + k <= n => after[h + k] = after[h]}
<1>5. 0 \in F
  OBVIOUS
<1>6. ASSUME NEW k \in F PROVE k + 1 \in F
  <2>1. SUFFICES ASSUME h + (k + 1) <= n PROVE after[h + (k + 1)] = after[h]
    OBVIOUS
  <2>2. h + (k + 1) \in 1 .. n /\ (h + (k + 1)) - 1 = h + k /\ h + k <= n
    BY <1>1, <2>1
  <2>3. after[h + k] = after[h]
    BY <2>2
  <2>4. after[h + (k + 1)] = Raised(after[h])
    BY <2>2, <2>3 DEF Levels
  <2>5. Len(after[h]) = 1
    OBVIOUS
  <2> QED BY <2>4, <2>5 DEF Raised
<1>7. F = Nat
  <2> HIDE DEF F
  <2> F \in SUBSET Nat BY DEF F
  <2> QED BY <1>5, <1>6, InductionOnNat
<1>8. after[n] = after[h]
  <2>1. n - h \in Nat /\ h + (n - h) = n
    BY <1>1
  <2>2. n - h \in F
    <3> HIDE DEF F
    <3> QED BY <1>7, <2>1
  <2> QED BY <1>1, <2>1, <2>2
<1> QED BY <1>8

\* There is a first level with one node; the levels below it have more.
LEMMA Height ==
  ASSUME NEW a, Sequence(a), Len(a) >= 1, NEW after, Levels(a, after)
  PROVE  \E h \in 0 .. Len(a) :
           /\ Len(after[h]) = 1 /\ after[Len(a)] = after[h]
           /\ \A k \in 0 .. Len(a) : k < h => Len(after[k]) > 1
<1> DEFINE n == Len(a)
           T == {k \in 0 .. n : Len(after[k]) = 1}
<1>1. n \in Nat
  BY DEF Sequence
<1>2. n \in T
  BY <1>1, LevelsFacts
<1>3. PICK h \in T : \A k \in T : h <= k
  <2> DEFINE E == {m \in Nat : \A k \in Nat : k <= m => k \notin T}
  <2>1. SUFFICES ASSUME \A h \in T : \E k \in T : ~ h <= k PROVE FALSE
    OBVIOUS
  <2>2. 0 \in E
    <3>1. 0 \notin T
      BY <2>1
    <3> QED BY <3>1
  <2>3. ASSUME NEW m \in E PROVE m + 1 \in E
    <3>1. m + 1 \notin T
      <4>1. SUFFICES ASSUME m + 1 \in T PROVE FALSE
        OBVIOUS
      <4>2. PICK k \in T : ~ m + 1 <= k
        BY <2>1, <4>1
      <4>3. k \in Nat /\ k <= m
        BY <4>2
      <4> HIDE DEF T
      <4> QED BY <4>2, <4>3
    <3>2. \A k \in Nat : k <= m + 1 => k <= m \/ k = m + 1
      OBVIOUS
    <3> HIDE DEF T
    <3> QED BY <3>1, <3>2
  <2>4. E = Nat
    <3> HIDE DEF E
    <3> E \in SUBSET Nat BY DEF E
    <3> QED BY <2>2, <2>3, InductionOnNat
  <2> HIDE DEF T
  <2> QED BY <1>1, <1>2, <2>4
<1>4. ASSUME NEW k \in 0 .. n, k < h PROVE Len(after[k]) > 1
  <2>1. Len(after[k]) # 1
    <3>1. k \notin T
      <4> HIDE DEF T
      <4>1. k \in Int /\ h \in Int
        BY <1>1 DEF T
      <4> QED BY <1>3, <1>4, <4>1
    <3> QED BY <3>1
  <2>2. Len(after[k]) \in Nat /\ Len(after[k]) >= 1
    BY LevelsFacts DEF Sequence
  <2> DEFINE l == Len(after[k])
  <2>3. l \in Nat /\ l >= 1 /\ l # 1
    BY ONLY <2>1, <2>2
  <2> HIDE DEF l
  <2>4. l > 1
    BY ONLY <2>3
  <2> QED BY <2>4 DEF l
<1>5. after[n] = after[h]
  BY <1>3, Stays
<1> QED BY <1>3, <1>4, <1>5

\* Two lists of different nodes with the same root: the smaller tree is the
\* top of the other one.
LEMMA SameRoot ==
  ASSUME NEW a, Sequence(a), Len(a) >= 1, Different(a), NEW f, Levels(a, f),
         NEW b, Sequence(b), Len(b) >= 1, Different(b), NEW g, Levels(b, g),
         NEW h \in 0 .. Len(a), NEW i \in 0 .. Len(b), h <= i,
         \A k \in 0 .. Len(a) : k < h => Len(f[k]) > 1,
         \A k \in 0 .. Len(b) : k < i => Len(g[k]) > 1,
         f[h] = g[i]
  PROVE  a = g[i - h]
<1>1. Len(a) \in Nat /\ Len(b) \in Nat
  BY DEF Sequence
<1> DEFINE E == {j \in Nat : j <= h => f[h - j] = g[i - j]}
<1>2. 0 \in E
  BY <1>1
<1>3. ASSUME NEW j \in E PROVE j + 1 \in E
  <2>1. SUFFICES ASSUME j + 1 <= h PROVE f[h - (j + 1)] = g[i - (j + 1)]
    OBVIOUS
  <2> DEFINE p == h - (j + 1)
             q == i - (j + 1)
  <2>2. /\ p \in 0 .. Len(a) /\ p < h /\ h - j \in 1 .. Len(a) /\ (h - j) - 1 = p
        /\ q \in 0 .. Len(b) /\ q < i /\ i - j \in 1 .. Len(b) /\ (i - j) - 1 = q
    BY <1>1, <2>1
  <2>3. f[h - j] = g[i - j]
    BY <1>1, <2>1
  <2> HIDE DEF p, q
  <2>4. Len(f[p]) > 1 /\ Len(g[q]) > 1
    BY <2>2
  <2>5. f[h - j] = Pairs(Even(f[p])) /\ g[i - j] = Pairs(Even(g[q]))
    BY <2>2, <2>4 DEF Levels, Raised
  <2>6. /\ Sequence(f[p]) /\ Len(f[p]) >= 1 /\ Different(f[p])
        /\ Sequence(g[q]) /\ Len(g[q]) >= 1 /\ Different(g[q])
    BY <2>2, LevelsFacts
  <2>7. f[p] = g[q]
    BY <2>3, <2>5, <2>6, ParentsTell
  <2> QED BY <2>7 DEF p, q
<1>4. E = Nat
  <2> HIDE DEF E
  <2> E \in SUBSET Nat BY DEF E
  <2> QED BY <1>2, <1>3, InductionOnNat
<1>5. h \in Nat /\ h <= h /\ h - h = 0
  BY <1>1
<1>6. f[0] = g[i - h]
  BY <1>4, <1>5
<1> QED BY <1>6 DEF Levels

\* A level above the bottom has no leaf.
LEMMA NoLeafAbove ==
  ASSUME NEW b, Sequence(b), Len(b) >= 1, NEW g, Levels(b, g), NEW k \in 1 .. Len(b),
         Len(g[k - 1]) > 1, NEW v
  PROVE  g[k][1] # Leaf(v)
<1>1. Len(b) \in Nat
  BY DEF Sequence
<1>2. k - 1 \in 0 .. Len(b)
  BY <1>1
<1>3. g[k] = Pairs(Even(g[k - 1]))
  BY DEF Levels, Raised
<1>4. Sequence(g[k - 1]) /\ Len(g[k - 1]) >= 1
  BY <1>2, LevelsFacts
<1> DEFINE c == g[k - 1]
<1> HIDE DEF c
<1>5. Sequence(Pairs(Even(c))) /\ Len(Pairs(Even(c))) \in 1 .. Len(c) /\ Len(c) \in Nat
  BY <1>4, NextLevel DEF c, Sequence
<1>6. 1 \in 1 .. Len(Pairs(Even(c)))
  BY <1>5
<1>7. Pairs(Even(c))[1] = Node(c[2 * 1 - 1], IF 2 * 1 <= Len(c) THEN c[2 * 1] ELSE c[2 * 1 - 1])
  BY <1>4, <1>6, NextLevel DEF c
<1> QED BY <1>3, <1>7, Terms DEF c

\* The root of different leaves stands for one list of them.
LEMMA TopTells ==
  ASSUME NEW x, Sequence(x), Len(x) >= 1, Different(x),
         NEW y, Sequence(y), Len(y) >= 1, Different(y),
         Top(Leaves(x)) = Top(Leaves(y))
  PROVE  x = y
<1> DEFINE a == Leaves(x)
           b == Leaves(y)
<1>1. /\ Sequence(a) /\ Len(a) = Len(x) /\ Different(a) /\ \A i \in 1 .. Len(x) : a[i] = Leaf(x[i])
      /\ Sequence(b) /\ Len(b) = Len(y) /\ Different(b) /\ \A i \in 1 .. Len(y) : b[i] = Leaf(y[i])
  BY Terms DEF Leaves, Sequence, Different
<1> HIDE DEF a, b
<1>2. PICK f : Levels(a, f) /\ Top(a) = f[Len(a)][1]
  BY <1>1, TopIsLast DEF Sequence
<1>3. PICK g : Levels(b, g) /\ Top(b) = g[Len(b)][1]
  BY <1>1, TopIsLast DEF Sequence
<1>4. PICK h \in 0 .. Len(a) :
        /\ Len(f[h]) = 1 /\ f[Len(a)] = f[h]
        /\ \A k \in 0 .. Len(a) : k < h => Len(f[k]) > 1
  BY <1>1, <1>2, Height
<1>5. PICK i \in 0 .. Len(b) :
        /\ Len(g[i]) = 1 /\ g[Len(b)] = g[i]
        /\ \A k \in 0 .. Len(b) : k < i => Len(g[k]) > 1
  BY <1>1, <1>3, Height
<1>6. f[h] = g[i]
  <2>1. f[h][1] = g[i][1]
    BY <1>2, <1>3, <1>4, <1>5 DEF a, b
  <2>2. Sequence(f[h]) /\ Sequence(g[i])
    BY <1>1, <1>2, <1>3, LevelsFacts
  <2> QED BY <1>4, <1>5, <2>1, <2>2 DEF Sequence
<1>7. Len(a) \in Nat /\ Len(b) \in Nat /\ h \in Nat /\ i \in Nat
  BY <1>1 DEF Sequence
<1>8. CASE h < i
  <2>1. a = g[i - h]
    BY <1>1, <1>2, <1>3, <1>4, <1>5, <1>6, <1>7, <1>8, SameRoot
  <2>2. i - h \in 1 .. Len(b) /\ (i - h) - 1 \in 0 .. Len(b) /\ (i - h) - 1 < i
    BY <1>7, <1>8
  <2>3. a[1] = Leaf(x[1])
    BY <1>1
  <2>4. Len(g[(i - h) - 1]) > 1
    BY <1>5, <2>2
  <2> QED BY <1>1, <1>3, <2>1, <2>2, <2>3, <2>4, NoLeafAbove
<1>9. CASE i < h
  <2>1. b = f[h - i]
    BY <1>1, <1>2, <1>3, <1>4, <1>5, <1>6, <1>7, <1>9, SameRoot
  <2>2. h - i \in 1 .. Len(a) /\ (h - i) - 1 \in 0 .. Len(a) /\ (h - i) - 1 < h
    BY <1>7, <1>9
  <2>3. b[1] = Leaf(y[1])
    BY <1>1
  <2>4. Len(f[(h - i) - 1]) > 1
    BY <1>4, <2>2
  <2> QED BY <1>1, <1>2, <2>1, <2>2, <2>3, <2>4, NoLeafAbove
<1>10. CASE h = i
  <2>1. a = g[0]
    <3>1. a = g[i - h] /\ i - h = 0
      BY <1>1, <1>2, <1>3, <1>4, <1>5, <1>6, <1>7, <1>10, SameRoot
    <3> QED BY <3>1
  <2>2. a = b
    BY <1>3, <2>1 DEF Levels
  <2>3. Len(x) = Len(y) /\ \A j \in 1 .. Len(x) : x[j] = y[j]
    BY <1>1, <2>2, Terms
  <2> QED BY <2>3 DEF Sequence
<1> QED BY <1>7, <1>8, <1>9, <1>10

\* One turn of the loop does not change what it ends with.
LEMMA TopOfNext ==
  ASSUME NEW a, Sequence(a), Len(a) > 1
  PROVE  Top(Pairs(Even(a))) = Top(a)
<1> DEFINE b == Pairs(Even(a))
<1>0. Len(a) \in Nat /\ Len(a) >= 1
  <2>1. Len(a) \in Nat
    BY DEF Sequence
  <2> QED BY <2>1
<1>1. /\ Sequence(b) /\ Len(b) \in 1 .. Len(a)
      /\ Len(a) = 2 * Len(b) \/ Len(a) = 2 * Len(b) - 1
  BY <1>0, NextLevel
<1>2. Raised(a) = b
  BY DEF Raised
<1> HIDE DEF b
<1> DEFINE n == Len(a)
           m == Len(b)
<1>3. n \in Nat /\ m \in Nat /\ m >= 1 /\ m + 1 <= n
  <2>1. n \in Nat /\ m \in 1 .. n /\ n > 1 /\ (n = 2 * m \/ n = 2 * m - 1)
    BY <1>0, <1>1
  <2> HIDE DEF n, m
  <2> QED BY <2>1
<1>4. PICK f : Levels(a, f) /\ Top(a) = f[n][1]
  BY <1>3, TopIsLast
<1>5. PICK g : Levels(b, g) /\ Top(b) = g[m][1]
  BY <1>3, TopIsLast
<1> DEFINE E == {k \in Nat : k <= m => f[k + 1] = g[k]}
<1>6. 0 \in E
  <2>1. 1 \in 1 .. n /\ 1 - 1 = 0
    BY <1>3
  <2>2. f[1] = Raised(f[0])
    BY <1>4, <2>1 DEF Levels
  <2> QED BY <1>2, <1>4, <1>5, <2>2 DEF Levels
<1>7. ASSUME NEW k \in E PROVE k + 1 \in E
  <2>1. SUFFICES ASSUME k + 1 <= m PROVE f[(k + 1) + 1] = g[k + 1]
    OBVIOUS
  <2>2. f[k + 1] = g[k]
    <3>1. k <= m
      BY <1>3, <2>1
    <3> QED BY <3>1
  <2>3. k + 1 \in 1 .. m /\ (k + 1) - 1 = k /\ (k + 1) + 1 \in 1 .. n /\ ((k + 1) + 1) - 1 = k + 1
    BY <1>3, <2>1
  <2>4. g[k + 1] = Raised(g[k])
    BY <1>5, <2>3 DEF Levels
  <2>5. f[(k + 1) + 1] = Raised(f[k + 1])
    BY <1>4, <2>3 DEF Levels
  <2> QED BY <2>2, <2>4, <2>5
<1>8. E = Nat
  <2> HIDE DEF E
  <2> E \in SUBSET Nat BY DEF E
  <2> QED BY <1>6, <1>7, InductionOnNat
<1>9. f[m + 1] = g[m]
  <2>1. m \in E
    <3> HIDE DEF E
    <3> QED BY <1>3, <1>8
  <2> QED BY <1>3, <2>1
<1>10. Len(g[m]) = 1
  BY <1>1, <1>3, <1>5, LevelsFacts
<1>11. m + 1 \in 0 .. n
  BY <1>3
<1>12. f[n] = f[m + 1]
  BY <1>3, <1>4, <1>9, <1>10, <1>11, Stays
<1> QED BY <1>4, <1>5, <1>9, <1>12 DEF b

\* One node is the root.
LEMMA TopOfOne ==
  ASSUME NEW a, Sequence(a), Len(a) = 1
  PROVE  Top(a) = a[1]
<1>1. PICK f : Levels(a, f) /\ Top(a) = f[Len(a)][1]
  <2>1. Len(a) \in Nat
    BY DEF Sequence
  <2> QED BY <2>1, TopIsLast
<1>2. 0 \in 0 .. Len(a) /\ Len(a) >= 1
  OBVIOUS
<1>3. f[0] = a
  BY <1>1 DEF Levels
<1>4. f[Len(a)] = f[0]
  BY <1>1, <1>2, <1>3, Stays
<1> QED BY <1>1, <1>3, <1>4

\* The pairs of a level are those of its nodes, each with its sibling.
LEMMA Siblings ==
  ASSUME NEW a, Sequence(a), Len(a) > 1, NEW p \in 0 .. Len(a) - 1
  PROVE  /\ p \div 2 \in 0 .. Len(Pairs(Even(a))) - 1
         /\ Combine(Sibling(Even(a), p), a[p + 1]) = Pairs(Even(a))[p \div 2 + 1]
         /\ Sibling(Even(a), p).side \in {"left", "right"}
<1> DEFINE e == Even(a)
           n == Len(a)
           m == Len(Pairs(e))
           q == p \div 2
<1>0. Len(a) \in Nat /\ Len(a) >= 1
  <2>1. Len(a) \in Nat
    BY DEF Sequence
  <2> QED BY <2>1
<1>1. n \in Nat /\ n > 1 /\ m \in 1 .. n /\ (n = 2 * m \/ n = 2 * m - 1)
  BY <1>0, NextLevel
<1>2. \A i \in 1 .. n : e[i] = a[i]
  <2>1. CASE n % 2 = 0
    BY <2>1 DEF Even
  <2>2. CASE n % 2 # 0
    <3> DEFINE S == {a[i] : i \in 1 .. n}
    <3>1. e = Append(a, a[n])
      BY <2>2 DEF Even, Last
    <3>2. a \in [1 .. n -> S]
      BY DEF Sequence
    <3>3. a \in Seq(S)
      BY <1>1, <3>2, SeqDef
    <3>4. a[n] \in S
      <4>1. n \in 1 .. n
        BY <1>1
      <4> QED BY <4>1
    <3> HIDE DEF S
    <3> QED BY <3>1, <3>3, <3>4, AppendProperties
  <2> QED BY <2>1, <2>2
<1>3. DOMAIN Pairs(e) = 1 .. m
  BY <1>0, NextLevel DEF Sequence
<1>4. \A i \in 1 .. m : Pairs(e)[i] = Node(e[2 * i - 1], e[2 * i])
  BY <1>3 DEF Pairs
<1>5. p \in Nat /\ p < n
  BY <1>1
<1> HIDE DEF n, m, e
<1>6. q \in Nat /\ (p % 2 = 0 => p = 2 * q) /\ (p % 2 # 0 => p = 2 * q + 1)
  BY <1>5
<1> HIDE DEF q
<1>7. q + 1 \in 1 .. m /\ p + 1 \in 1 .. n /\ 2 * (q + 1) - 1 = 2 * q + 1 /\ 2 * (q + 1) = 2 * q + 2
  BY <1>1, <1>5, <1>6
<1>8. Pairs(e)[q + 1] = Node(e[2 * q + 1], e[2 * q + 2])
  BY <1>4, <1>7
<1>9. e[p + 1] = a[p + 1]
  BY <1>2, <1>7
<1>10. Combine(Sibling(e, p), a[p + 1]) = Pairs(e)[q + 1]
  <2>1. CASE p % 2 = 0
    <3>1. p = 2 * q /\ p + 2 = 2 * q + 2
      BY <1>6, <2>1
    <3>2. Sibling(e, p) = [side |-> "right", sibling |-> e[p + 2]]
      BY <2>1 DEF Sibling
    <3> QED BY <1>8, <1>9, <3>1, <3>2 DEF Combine
  <2>2. CASE p % 2 # 0
    <3>1. p = 2 * q + 1 /\ p + 1 = 2 * q + 2
      BY <1>6, <2>2
    <3>2. Sibling(e, p) = [side |-> "left", sibling |-> e[p]]
      BY <2>2 DEF Sibling
    <3> QED BY <1>8, <1>9, <3>1, <3>2 DEF Combine
  <2> QED BY <2>1, <2>2
<1>11. Sibling(e, p).side \in {"left", "right"}
  BY DEF Sibling
<1>12. q \in 0 .. m - 1
  BY <1>1, <1>6, <1>7
<1> QED BY <1>10, <1>11, <1>12 DEF e, m, q

----------------------------------------------------------------------------
(* The loop of event_proof. *)

\* What one turn of the loop after the other keeps: the root of the level is
\* the root of the leaves, and the steps lead two different events to two
\* different nodes.
MerkleIInv ==
  /\ block \in Blocks /\ event \in ToSet(block)
  /\ Sequence(level) /\ Len(level) \in 1 .. Len(block)
  /\ position \in 0 .. Len(level) - 1
  /\ Sequence(steps) /\ \A i \in 1 .. Len(steps) : steps[i].side \in {"left", "right"}
  /\ Top(level) = Top(Leaves(block))
  /\ Walk(event, steps) = level[position + 1]
  /\ \A u, v \in Hashes : Walk(u, steps) = Walk(v, steps) => u = v

\* The blocks.
LEMMA BlocksFacts ==
  ASSUME NEW b \in Blocks
  PROVE  /\ Sequence(b) /\ Len(b) \in Nat /\ Len(b) >= 1 /\ Different(b)
         /\ DOMAIN b = 1 .. Len(b) /\ \A i \in 1 .. Len(b) : b[i] \in Hashes
<1>1. PICK m \in 0 .. MaxEvents : b \in [1 .. m -> Hashes]
  BY MerkleConfig DEF Blocks, BoundedSeq, SeqOf
<1>2. m \in Nat
  BY MerkleConfig
<1>3. b \in Seq(Hashes) /\ Len(b) = m
  BY <1>1, <1>2, SeqDef
<1>4. m # 0
  BY <1>3, EmptySeq DEF Blocks
<1>5. Different(b)
  BY <1>1, <1>3 DEF Blocks, IsInjective, Different
<1> QED BY <1>1, <1>2, <1>3, <1>4, <1>5 DEF Sequence

LEMMA MerkleInitially == MerkleInit => MerkleIInv
<1> SUFFICES ASSUME MerkleInit PROVE MerkleIInv
  OBVIOUS
<1> USE DEF MerkleInit
<1>1. /\ Sequence(block) /\ Len(block) \in Nat /\ Len(block) >= 1 /\ Different(block)
      /\ DOMAIN block = 1 .. Len(block) /\ \A i \in 1 .. Len(block) : block[i] \in Hashes
  BY BlocksFacts
<1> DEFINE at == CHOOSE i \in DOMAIN block : block[i] = event
<1>2. at \in 1 .. Len(block) /\ block[at] = event
  BY <1>1 DEF ToSet
<1>3. position = at - 1
  OBVIOUS
<1> HIDE DEF at
<1>4. /\ Len(level) = Len(block) /\ level = [i \in 1 .. Len(block) |-> Leaf(block[i])]
  BY <1>1 DEF Leaves
<1>5. position \in 0 .. Len(level) - 1 /\ position + 1 = at
  BY <1>1, <1>2, <1>3, <1>4
<1>6. \A u : Walk(u, steps) = Leaf(u)
  <2>1. << >> \in Seq({})
    OBVIOUS
  <2> QED BY <2>1, WalkOn
<1>7. Sequence(level) /\ Len(level) \in 1 .. Len(block)
  BY <1>1, <1>4 DEF Sequence
<1>8. Sequence(steps) /\ \A i \in 1 .. Len(steps) : steps[i].side \in {"left", "right"}
  BY DEF Sequence
<1>9. level[position + 1] = Leaf(event)
  BY <1>2, <1>4, <1>5
<1> QED BY <1>5, <1>6, <1>7, <1>8, <1>9, Terms DEF MerkleIInv

LEMMA ClimbKeeps == MerkleIInv /\ Climb => MerkleIInv'
<1> SUFFICES ASSUME MerkleIInv, Climb PROVE MerkleIInv'
  OBVIOUS
<1> DEFINE s == Sibling(Even(level), position)
<1>1. /\ Len(level) > 1 /\ steps' = Append(steps, s) /\ position' = position \div 2
      /\ level' = Pairs(Even(level)) /\ block' = block /\ event' = event
  BY DEF Climb
<1>2. /\ Sequence(level) /\ position \in 0 .. Len(level) - 1 /\ Sequence(steps)
      /\ Len(level) \in 1 .. Len(block) /\ block \in Blocks /\ event \in ToSet(block)
      /\ Walk(event, steps) = level[position + 1]
  BY DEF MerkleIInv
<1>3. Sequence(level') /\ Len(level') \in 1 .. Len(level)
  BY <1>1, <1>2, NextLevel DEF Sequence
<1>4. Top(level') = Top(level)
  BY <1>1, <1>2, TopOfNext
<1>5. /\ position' \in 0 .. Len(level') - 1
      /\ Combine(s, level[position + 1]) = (level')[position' + 1]
      /\ s.side \in {"left", "right"}
  BY <1>1, <1>2, Siblings
<1> HIDE DEF s
<1> DEFINE S == {steps[i] : i \in 1 .. Len(steps)} \cup {s}
<1>6. steps \in Seq(S)
  <2>1. steps \in [1 .. Len(steps) -> S]
    BY <1>2 DEF Sequence
  <2> QED BY <1>2, <2>1, SeqDef DEF Sequence
<1>7. \A u : Walk(u, steps') = Combine(s, Walk(u, steps))
  BY <1>1, <1>6, WalkOn
<1>8. /\ Sequence(steps') /\ Len(steps') = Len(steps) + 1
      /\ (steps')[Len(steps) + 1] = s /\ \A i \in 1 .. Len(steps) : (steps')[i] = steps[i]
  <2>1. s \in S
    OBVIOUS
  <2> HIDE DEF S
  <2> DEFINE t == Append(steps, s)
  <2>2. /\ t \in Seq(S) /\ Len(t) = Len(steps) + 1
        /\ t[Len(steps) + 1] = s /\ \A i \in 1 .. Len(steps) : t[i] = steps[i]
    BY <1>6, <2>1, AppendProperties
  <2> HIDE DEF t
  <2>3. Sequence(t)
    BY <2>2, LenProperties DEF Sequence
  <2> QED BY <1>1, <2>2, <2>3 DEF t
<1>9. \A i \in 1 .. Len(steps') : (steps')[i].side \in {"left", "right"}
  <2>1. Len(steps) \in Nat /\ \A i \in 1 .. Len(steps) : steps[i].side \in {"left", "right"}
    BY DEF MerkleIInv, Sequence
  <2>2. \A i \in 1 .. Len(steps) + 1 : i \in 1 .. Len(steps) \/ i = Len(steps) + 1
    BY <2>1
  <2> QED BY <1>5, <1>8, <2>1, <2>2
<1>10. ASSUME NEW u \in Hashes, NEW v \in Hashes, Walk(u, steps') = Walk(v, steps') PROVE u = v
  <2>1. Combine(s, Walk(u, steps)) = Combine(s, Walk(v, steps))
    BY <1>7, <1>10
  <2>2. Walk(u, steps) = Walk(v, steps)
    BY <2>1, Terms DEF Combine
  <2> QED BY <2>2 DEF MerkleIInv
<1>11. Walk(event', steps') = (level')[position' + 1]
  BY <1>1, <1>2, <1>5, <1>7
<1>12. Len(level') \in 1 .. Len(block')
  <2>1. Len(block) \in Nat
    BY <1>2, BlocksFacts
  <2> QED BY <1>1, <1>2, <1>3, <2>1
<1>13. Top(level') = Top(Leaves(block'))
  BY <1>1, <1>4 DEF MerkleIInv
<1> QED BY <1>1, <1>2, <1>3, <1>5, <1>8, <1>9, <1>10, <1>11, <1>12, <1>13 DEF MerkleIInv

\* What the invariant says of a finished proof.
LEMMA MerkleMeans == MerkleIInv => MerkleInv
<1> SUFFICES ASSUME MerkleIInv PROVE MerkleInv
  OBVIOUS
<1>1. /\ Sequence(block) /\ Len(block) \in Nat /\ Len(block) >= 1 /\ Different(block)
      /\ DOMAIN block = 1 .. Len(block) /\ \A i \in 1 .. Len(block) : block[i] \in Hashes
  BY BlocksFacts DEF MerkleIInv
<1>2. ToSet(block) \subseteq Hashes /\ event \in Hashes
  BY <1>1 DEF ToSet, MerkleIInv
<1>3. MerkleTypeOK
  <2>1. DOMAIN steps = 1 .. Len(steps)
    BY DEF MerkleIInv, Sequence
  <2> QED BY <1>2, <2>1 DEF MerkleTypeOK, MerkleIInv
<1>4. StepsLeadUp
  BY <1>2 DEF StepsLeadUp, MerkleIInv
<1>5. Root(block) = Top(Leaves(block))
  BY <1>1 DEF Root
<1>6. ProofProves
  <2> SUFFICES ASSUME Len(level) = 1, NEW e \in Hashes
               PROVE  Walk(e, steps) = Root(block) <=> e = event
    BY DEF ProofProves, Verify
  <2>1. Top(level) = level[1]
    BY TopOfOne DEF MerkleIInv
  <2>2. position = 0
    BY DEF MerkleIInv
  <2>3. Walk(event, steps) = Root(block)
    BY <1>5, <2>1, <2>2 DEF MerkleIInv
  <2> QED BY <1>2, <2>3 DEF MerkleIInv
<1>7. RootIdentifies
  <2> SUFFICES ASSUME NEW other \in Blocks, Root(other) = Root(block) PROVE other = block
    BY DEF RootIdentifies
  <2>1. Sequence(other) /\ Len(other) \in Nat /\ Len(other) >= 1 /\ Different(other)
    BY BlocksFacts
  <2>2. Root(other) = Top(Leaves(other))
    BY <2>1 DEF Root
  <2> QED BY <1>1, <1>5, <2>1, <2>2, TopTells
<1> QED BY <1>3, <1>4, <1>6, <1>7 DEF MerkleInv

\* For any set of hashes and any size of a block, the proof the loop builds
\* leads its own event, and no other, to the root the block was sealed with,
\* and no other list of different events has that root
\* (merkle.py:16-71, ledger.py:264-308).
THEOREM ProofsAreSound == MerkleSpec => []MerkleInv
<1>1. MerkleIInv /\ UNCHANGED merkleVars => MerkleIInv'
  BY DEF MerkleIInv, merkleVars
<1>2. MerkleSpec => []MerkleIInv
  BY <1>1, MerkleInitially, ClimbKeeps, PTL DEF MerkleSpec
<1> QED BY <1>2, MerkleMeans, PTL
=============================================================================
