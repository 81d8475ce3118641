---------------------------- MODULE ClusterControl --------------------------
(***************************************************************************)
(* The dashboard's view of the containers and its control of the devices    *)
(* (DockerClusterController in edgechaindb/cluster_control.py): state()     *)
(* lists the containers and attaches their metrics, which are measured at   *)
(* most once per cache_seconds, under a lock; control() starts or stops a   *)
(* device and makes the cache expire, without the lock.                    *)
(*                                                                         *)
(* Requests are handled by a pool of threads.  The Docker daemon is         *)
(* external; a measurement is the version of the container it was taken of, *)
(* where a version begins with each start or stop.  Of a container's state  *)
(* only whether it runs is kept, and the network and log views, which keep  *)
(* nothing, are left out.                                                  *)
(***************************************************************************)
EXTENDS Naturals, FiniteSets

CONSTANTS
  Viewers,       \* threads that serve state(include_metrics=True)
  Operators,     \* threads that serve control or control_all
  Services,      \* device services
  CacheSeconds,  \* cache_seconds
  MaxClock,      \* bound: the clock
  MaxActions,    \* bound: starts and stops
  Nobody

ASSUME ClusterControlConfig ==
  /\ CacheSeconds \in Nat \ {0}
  /\ MaxClock \in Nat /\ MaxActions \in Nat
  /\ Nobody \notin Viewers

VARIABLES
  clock,         \* time.monotonic()
  up,            \* the containers that run
  version,       \* of each container
  created, value,  \* _metrics_cache: created_monotonic, value
  lock,          \* the viewer that holds _metrics_lock, or Nobody
  place,         \* where each viewer is
  listed,        \* the running containers each viewer has listed
  now,           \* its time in _metrics
  result,        \* what it has measured: container -> version
  answer,        \* the metrics it answered with last
  todo,          \* the devices an operator has still to act on
  acted,         \* the device it has acted on, whose cache entry is to expire
  began,         \* history: when the version of each container began
  settled,       \* history: the version control() last answered for
  promised,      \* history: settled, when each viewer's request began
  outrun,        \* history: viewers whose request began before the last reset
  suspect        \* history: whether one of them filled the cache

daemon == <<up, version>>
cache == <<created, value>>
viewing == <<lock, place, listed, now, result, answer>>
operating == <<todo, acted>>
history == <<began, settled, promised, outrun, suspect>>
controlVars == <<clock, daemon, cache, viewing, operating, history>>

NoMetrics == [s \in {} |-> 0]
NoService == "none"

\* The machine has been up for longer than the cache lives when the gateway
\* starts, so that created_monotonic 0.0 has expired.
ControlInit ==
  /\ clock = CacheSeconds
  /\ up = Services /\ version = [s \in Services |-> 1]
  /\ created = 0 /\ value = NoMetrics
  /\ lock = Nobody /\ place = [v \in Viewers |-> "idle"]
  /\ listed = [v \in Viewers |-> {}] /\ now = [v \in Viewers |-> 0]
  /\ result = [v \in Viewers |-> NoMetrics] /\ answer = [v \in Viewers |-> NoMetrics]
  /\ todo = [o \in Operators |-> {}] /\ acted = [o \in Operators |-> NoService]
  /\ began = [s \in Services |-> 0] /\ settled = [s \in Services |-> 1]
  /\ promised = [v \in Viewers |-> settled]
  /\ outrun = {} /\ suspect = FALSE

Tick ==
  /\ clock < MaxClock
  /\ clock' = clock + 1
  /\ UNCHANGED <<daemon, cache, viewing, operating, history>>

----------------------------------------------------------------------------
(* state(include_metrics=True) *)

Enter(v, to) == place' = [place EXCEPT ![v] = to]

\* _containers, before the lock is asked for.
List(v) ==
  /\ place[v] = "idle"
  /\ listed' = [listed EXCEPT ![v] = up]
  /\ promised' = [promised EXCEPT ![v] = settled]
  /\ outrun' = outrun \ {v}
  /\ Enter(v, "listed")
  /\ UNCHANGED <<clock, daemon, cache, lock, now, result, answer, operating, began, settled, suspect>>

Fresh == clock - created < CacheSeconds

\* _metrics: the lock, the clock, and the cache if it is fresh.
Cached(v) ==
  /\ place[v] = "listed" /\ lock = Nobody
  /\ Fresh
  /\ answer' = [answer EXCEPT ![v] = value]
  /\ listed' = [listed EXCEPT ![v] = {}]
  /\ Enter(v, "answered")
  /\ UNCHANGED <<clock, daemon, cache, lock, now, result, operating, history>>

Expired(v) ==
  /\ place[v] = "listed" /\ lock = Nobody
  /\ ~ Fresh
  /\ lock' = v
  /\ now' = [now EXCEPT ![v] = clock]
  /\ result' = [result EXCEPT ![v] = NoMetrics]
  /\ Enter(v, "measuring")
  /\ UNCHANGED <<clock, daemon, cache, listed, answer, operating, history>>

\* One of the pool's jobs; they end in any order.
Measure(v, s) ==
  /\ place[v] = "measuring"
  /\ s \in listed[v] \ DOMAIN result[v]
  /\ result' = [result EXCEPT ![v] =
                  [t \in DOMAIN @ \cup {s} |-> IF t = s THEN version[s] ELSE @[t]]]
  /\ UNCHANGED <<clock, daemon, cache, lock, place, listed, now, answer, operating, history>>

\* Mutant of Stamp: the time the measurements ended.
StampOfTheEnd(v) == clock

Stamp(v) == now[v]

Store(v) ==
  /\ place[v] = "measuring"
  /\ DOMAIN result[v] = listed[v]
  /\ created' = Stamp(v) /\ value' = result[v]
  /\ suspect' = (v \in outrun)
  /\ lock' = Nobody
  /\ answer' = [answer EXCEPT ![v] = result[v]]
  /\ Enter(v, "answered")
  /\ listed' = [listed EXCEPT ![v] = {}] /\ now' = [now EXCEPT ![v] = 0]
  /\ result' = [result EXCEPT ![v] = NoMetrics]
  /\ UNCHANGED <<clock, daemon, operating, began, settled, promised, outrun>>

Respond(v) ==
  /\ place[v] = "answered"
  /\ Enter(v, "idle")
  /\ answer' = [answer EXCEPT ![v] = NoMetrics]
  /\ UNCHANGED <<clock, daemon, cache, lock, listed, now, result, operating, history>>

----------------------------------------------------------------------------
(* control and control_all: one device, or all there are, one by one *)

Ask(o, services) ==
  /\ todo[o] = {} /\ acted[o] = NoService
  /\ todo' = [todo EXCEPT ![o] = services]
  /\ UNCHANGED <<clock, daemon, cache, viewing, acted, history>>

Actions == LET total[S \in SUBSET Services] ==
                 IF S = {} THEN 0
                 ELSE LET s == CHOOSE s \in S : TRUE IN version[s] - 1 + total[S \ {s}]
           IN  total[Services]

\* The device is started, stopped or restarted.
Act(o, s) ==
  /\ acted[o] = NoService /\ s \in todo[o]
  /\ Actions < MaxActions
  /\ up' \in {up \cup {s}, up \ {s}}
  /\ version' = [version EXCEPT ![s] = @ + 1]
  /\ began' = [began EXCEPT ![s] = clock]
  /\ acted' = [acted EXCEPT ![o] = s]
  /\ UNCHANGED <<clock, cache, viewing, todo, settled, promised, outrun, suspect>>

\* Without the lock: a request that is measuring stores its own time over it.
Expire ==
  /\ created' = 0
  /\ suspect' = FALSE
  /\ outrun' = {v \in Viewers : place[v] \in {"listed", "measuring"}}

Settle(o) ==
  LET s == acted[o] IN
  /\ s # NoService
  /\ Expire
  /\ settled' = [settled EXCEPT ![s] = version[s]]
  /\ todo' = [todo EXCEPT ![o] = @ \ {s}]
  /\ acted' = [acted EXCEPT ![o] = NoService]
  /\ UNCHANGED <<clock, daemon, value, viewing, began, promised>>

\* Docker raises, before the device was acted on or after: nothing expires,
\* ok is false, and control_all goes on with the next device.
Fail(o, s) ==
  /\ \/ acted[o] = NoService /\ s \in todo[o]
     \/ acted[o] = s
  /\ todo' = [todo EXCEPT ![o] = @ \ {s}]
  /\ acted' = [acted EXCEPT ![o] = NoService]
  /\ UNCHANGED <<clock, daemon, cache, viewing, history>>

----------------------------------------------------------------------------

ViewerStep(v) ==
  \/ List(v) \/ Cached(v) \/ Expired(v) \/ Store(v) \/ Respond(v)
  \/ \E s \in Services : Measure(v, s)

OperatorStep(o) ==
  \/ Ask(o, Services) \/ Settle(o)
  \/ \E s \in Services : Ask(o, {s}) \/ Act(o, s) \/ Fail(o, s)

ControlNext ==
  \/ Tick
  \/ \E v \in Viewers : ViewerStep(v)
  \/ \E o \in Operators : OperatorStep(o)

ControlSpec == ControlInit /\ [][ControlNext]_controlVars

----------------------------------------------------------------------------
(* Properties *)

Versions == Nat \ {0}
IsMetrics(m) == DOMAIN m \subseteq Services /\ m \in [DOMAIN m -> Versions]

ControlTypeOK ==
  /\ clock \in Nat
  /\ up \subseteq Services /\ version \in [Services -> Versions]
  /\ created \in 0 .. clock /\ IsMetrics(value)
  /\ lock \in Viewers \cup {Nobody}
  /\ \A v \in Viewers :
       /\ place[v] \in {"idle", "listed", "measuring", "answered"}
       /\ place[v] = "measuring" <=> lock = v
       /\ listed[v] \subseteq Services /\ now[v] \in 0 .. clock
       /\ IsMetrics(result[v]) /\ IsMetrics(answer[v])
  /\ \A o \in Operators : todo[o] \subseteq Services /\ acted[o] \in Services \cup {NoService}

\* What control() promises the dashboard by making the cache expire: a
\* request that begins after a device was started or stopped shows no metrics
\* from before, and has some of a device that runs since (the reset at
\* cluster_control.py:397).
\*
\* It is kept but for one race: a request that had listed its containers
\* before the reset fills the cache after it, with its own time stamp; what
\* the next requests see is then out of date until the cache expires.
Outdated(v, s) ==
  /\ promised[v][s] = version[s]
  /\ \/ s \in DOMAIN answer[v] /\ answer[v][s] < promised[v][s]
     \/ s \in up /\ s \notin DOMAIN answer[v]

StaleOnlyIfOutrun ==
  [][\A v \in Viewers : place[v] # "answered" /\ place'[v] = "answered" =>
       suspect' \/ \A s \in Services : ~ Outdated(v, s)']_controlVars

\* Whatever the races, an answer from the cache is wrong about a device only
\* if the device was started or stopped in the last cache_seconds: the time
\* stamp is that of the beginning of the measurements, not of their end
\* (cluster_control.py:218-242).
WrongForSecondsOnly ==
  [][\A v \in Viewers : Cached(v) =>
       \A s \in DOMAIN value : value[s] # version[s] => clock - began[s] < CacheSeconds]_controlVars

\* The cache misleads in one race only, and not for long.
MetricsSound == []ControlTypeOK /\ StaleOnlyIfOutrun /\ WrongForSecondsOnly
=============================================================================
