--------------------------- MODULE HardwareSupervisor ---------------------------
(***********************************************************************************)
(* The single owner of a mouse's hardware backend, and the consumers that ask it   *)
(* to replace the backend they saw fail.                                           *)
(*                                                                                 *)
(*   hardware/supervisor.py  HardwareSupervisor                                    *)
(*   notifications.py        DpiMonitorSupervisor._run    (DPI monitor thread)     *)
(*   battery.py              BatteryMonitorSupervisor._run  (battery thread)       *)
(*   remapper.py             DpiCycler                    (main thread)            *)
(*   cli.py                  startup and teardown of run_from_config               *)
(*                                                                                 *)
(* A backend object is an element of Ids, its address: a closed object that nobody *)
(* refers to may be allocated again, as id() allows.  What the factory may build   *)
(* is a set of kinds.  A rebind is several steps under the supervisor's lock; the  *)
(* steps of the other threads that take no lock fall between them.  The wake       *)
(* coordinator is the subject of RuntimeWake: here a wait may end at any time.     *)
(* The generation is bounded by MaxGeneration: from then on the factory finds      *)
(* nothing.                                                                        *)
(***********************************************************************************)
EXTENDS Naturals

CONSTANTS
  Dpi, Battery,     \* the two monitor threads
  Ids,              \* addresses of backend objects
  Adapters, Paths,  \* names of protocol adapters, and device nodes
  Kinds,            \* what the factory may build
  StartKind,        \* what get_backend returned at startup
  StartPending,     \* the discovery_pending argument
  Stages,           \* the DPI values of the configuration
  HardwareButton,   \* does a button change the DPI inside the mouse
  MaxGeneration,    \* bound on the rebinds of one behaviour
  NoId, NoDpi, NoAdapter, NoOne

Threads == {Dpi, Battery}
Watches == {"session", "detached", "readable", "none"}

\* compat:  not a DiscoveryBackend
\* adapter: protocol_adapter_name;  learned: has_proven_learned_adapter
\* path:    the nodes and bindings of _discovery_binding_signature
\* watch:   what create_dpi_monitor and watch_dpi_events make of the backend
\* lights:  has a writable zone for the configured volatile lighting
KindRecords ==
  [compat: BOOLEAN, adapter: Adapters \cup {NoAdapter}, learned: BOOLEAN,
   path: Paths, watch: Watches, lights: BOOLEAN]

ASSUME ThreadsAssumption == Dpi # Battery /\ NoOne \notin Threads
ASSUME NoIdAssumption == NoId \notin Ids
ASSUME NoDpiAssumption == NoDpi \notin Stages
ASSUME KindsAssumption == Kinds \subseteq KindRecords /\ NoAdapter \notin Adapters
ASSUME StartAssumption == StartKind \in Kinds /\ StartPending \in BOOLEAN
ASSUME BoundAssumption == MaxGeneration \in Nat
ASSUME ButtonAssumption == HardwareButton \in BOOLEAN

VARIABLES
  holder,      \* the thread inside rebind, which holds _lock, or NoOne
  backend,     \* _backend
  generation,  \* _generation
  closed,      \* _closed
  preferred,   \* _preferred_adapter: [rank, token]
  settled,     \* _has_preferred_backend
  pending,     \* _discovery_pending
  desired,     \* desired.active_dpi
  lit,         \* the backend addresses in _reconciled_lighting
  kind,        \* what each object is
  open,        \* the objects whose close() has not been called
  pc, seen, force, fresh,            \* per thread
  watch, watchGen, report,           \* the closure of watch_dpi_events
  orphan,      \* it opened its session after close() of its backend
  cycle,       \* DpiCycler: the DPI written and not yet recorded
  hwDpi,       \* the live DPI of the mouse
  shutdown     \* the shared shutdown_event

ownerVars  == <<holder, backend, generation, closed, preferred, settled, pending>>
objectVars == <<kind, open, lit>>
threadVars == <<pc, seen, force, fresh>>
watchVars  == <<watch, watchGen, report, orphan>>
dpiVars    == <<desired, cycle, hwDpi>>
vars == <<ownerVars, objectVars, threadVars, watchVars, dpiVars, shutdown>>

Places   == {"new", "loop", "bind", "start", "opening", "watching", "deliver",
             "resting", "paused", "rebind", "build", "admit", "prepare", "done"}
InRebind == {"build", "admit", "prepare"}

-----------------------------------------------------------------------------------
(* What the supervisor asks of a backend object.                                   *)

Proven(k) == k.compat \/ k.adapter # NoAdapter \/ k.learned

\* _adapter_affinity
Affinity(k) ==
  IF k.compat THEN [rank |-> 0, token |-> NoAdapter]
  ELSE IF k.adapter # NoAdapter THEN [rank |-> 2, token |-> k.adapter]
  ELSE [rank |-> IF k.learned THEN 1 ELSE 0, token |-> NoAdapter]

\* _preserves_adapter_affinity
Preserves(k) ==
  \/ preferred.rank = 0
  \/ /\ Affinity(k).rank >= preferred.rank
     /\ preferred.rank = 2 => Affinity(k).token = preferred.token

\* _discovery_binding_signature: equal, and neither is None.
SameBinding(k, l) ==
  /\ ~k.compat /\ ~l.compat
  /\ k.adapter = l.adapter /\ k.learned = l.learned /\ k.path = l.path

\* The addresses that a new object may get: of those nothing refers to.
Free == Ids \ ({backend, watch} \cup {fresh[t] : t \in Threads} \cup open)

-----------------------------------------------------------------------------------
OwnerType ==
  /\ holder \in Threads \cup {NoOne}
  /\ backend \in Ids
  /\ generation \in Nat
  /\ closed \in BOOLEAN /\ settled \in BOOLEAN /\ pending \in BOOLEAN
  /\ preferred \in [rank : 0..2, token : Adapters \cup {NoAdapter}]

ObjectType ==
  /\ kind \in [Ids -> Kinds]
  /\ open \in SUBSET Ids /\ lit \in SUBSET Ids

ThreadType ==
  /\ pc \in [Threads -> Places]
  /\ seen \in [Threads -> Nat]
  /\ force \in [Threads -> BOOLEAN]
  /\ fresh \in [Threads -> Ids \cup {NoId}]

WatchType ==
  /\ watch \in Ids \cup {NoId}
  /\ watchGen \in Nat
  /\ report \in Stages \cup {NoDpi} /\ orphan \in BOOLEAN

DpiType ==
  /\ desired \in Stages \cup {NoDpi}
  /\ cycle \in Stages \cup {NoDpi}
  /\ hwDpi \in Stages \cup {NoDpi}
  /\ shutdown \in BOOLEAN

\* Every variable has its type.
TypeOK == OwnerType /\ ObjectType /\ ThreadType /\ WatchType /\ DpiType

Init ==
  /\ holder = NoOne /\ generation = 0 /\ closed = FALSE
  /\ backend \in Ids
  /\ preferred = Affinity(StartKind)
  /\ settled = Proven(StartKind)
  /\ pending = (StartPending /\ ~Proven(StartKind))
  /\ kind = [i \in Ids |-> StartKind]
  /\ open = {backend} /\ lit = {}
  /\ pc = [t \in Threads |-> "new"]
  /\ seen = [t \in Threads |-> 0]
  /\ force = [t \in Threads |-> FALSE]
  /\ fresh = [t \in Threads |-> NoId]
  /\ watch = NoId /\ watchGen = 0 /\ report = NoDpi /\ orphan = FALSE
  /\ desired \in Stages \cup {NoDpi}
  /\ cycle = NoDpi /\ hwDpi = NoDpi
  /\ shutdown = FALSE

\* Leave a place: thread t moves from one of its places to another.
Move(t, from, to) == pc[t] = from /\ pc' = [pc EXCEPT ![t] = to]

LockIsFree == holder = NoOne

-----------------------------------------------------------------------------------
(* _reconcile_backend(b).  Each part swallows its exceptions, so each may do       *)
(* nothing.  The polling rate, like the DPI stages, is written from a desired      *)
(* value that never changes and is left out.                                       *)

ReconcileDpi ==
  \/ hwDpi' = hwDpi
  \/ desired # NoDpi /\ hwDpi' = desired

\* The zone is skipped when this address has been lit before.
ReconcileLighting(b) ==
  IF b \in lit
    THEN UNCHANGED lit
    ELSE \/ kind[b].lights /\ lit' = lit \cup {b}
         \/ UNCHANGED lit

\* run_from_config: reconcile() on the first backend, then the threads start.
Startup ==
  /\ \A t \in Threads : pc[t] = "new"
  /\ ReconcileDpi
  /\ ReconcileLighting(backend)
  /\ pc' = [t \in Threads |-> "loop"]
  /\ UNCHANGED <<ownerVars, kind, open, seen, force, fresh, watchVars,
                 desired, cycle, shutdown>>

-----------------------------------------------------------------------------------
(* The rest of the supervisor's main-thread users.                                 *)

\* DpiCycler._cycle writes a stage through the current backend ...
CycleSet ==
  /\ pc[Dpi] # "new" /\ ~shutdown /\ LockIsFree /\ cycle = NoDpi
  /\ \E v \in Stages : cycle' = v /\ hwDpi' = v
  /\ UNCHANGED <<ownerVars, objectVars, threadVars, watchVars, desired, shutdown>>

\* ... and, after its readback, records it with record_active_dpi.
CycleRecord ==
  /\ cycle # NoDpi /\ LockIsFree
  /\ desired' = IF closed THEN desired ELSE cycle
  /\ cycle' = NoDpi
  /\ UNCHANGED <<ownerVars, objectVars, threadVars, watchVars, hwDpi, shutdown>>

\* The mouse loses power: its live DPI is no longer one we set.
DeviceResets ==
  /\ hwDpi # NoDpi
  /\ hwDpi' = NoDpi
  /\ UNCHANGED <<ownerVars, objectVars, threadVars, watchVars, desired, cycle, shutdown>>

SetShutdown ==
  /\ ~shutdown /\ pc[Dpi] # "new" /\ cycle = NoDpi
  /\ shutdown' = TRUE
  /\ UNCHANGED <<ownerVars, objectVars, threadVars, watchVars, dpiVars>>

\* HardwareSupervisor.close, after the joins of the monitors end or time out.
Close ==
  /\ shutdown /\ LockIsFree /\ ~closed
  /\ closed' = TRUE
  /\ open' = open \ {backend}
  /\ UNCHANGED <<holder, backend, generation, preferred, settled, pending,
                 kind, lit, threadVars, watchVars, dpiVars, shutdown>>

-----------------------------------------------------------------------------------
(* The monitor threads.                                                            *)

LoopEnds(t) ==
  /\ shutdown
  /\ Move(t, "loop", "done")
  /\ UNCHANGED <<ownerVars, objectVars, seen, force, fresh, watchVars,
                 dpiVars, shutdown>>

\* The generation whose failure this attempt may report.
Captured(t) == generation

LoopHead(t) ==
  /\ ~shutdown /\ LockIsFree
  /\ Move(t, "loop", "bind")
  /\ seen' = [seen EXCEPT ![t] = Captured(t)]
  /\ force' = [force EXCEPT ![t] = FALSE]
  /\ UNCHANGED <<ownerVars, objectVars, fresh, watchVars, dpiVars, shutdown>>

\* create_dpi_monitor finds no support, or cannot ask: the exception is swallowed.
NoMonitor ==
  /\ LockIsFree
  /\ Move(Dpi, "bind", IF pending THEN "paused" ELSE "resting")
  /\ UNCHANGED <<ownerVars, objectVars, seen, force, fresh, watchVars, dpiVars, shutdown>>

\* A DpiEventMonitor is built and its _run called.
EventMonitor ==
  /\ LockIsFree /\ ~closed
  /\ kind[backend].watch \in {"session", "detached"}
  /\ Move(Dpi, "bind", "start")
  /\ force' = [force EXCEPT ![Dpi] = TRUE]
  /\ UNCHANGED <<ownerVars, objectVars, seen, fresh, watchVars, dpiVars, shutdown>>

\* A DpiMonitor is built; its _run takes no ready callback, so the call raises.
ReadMonitor ==
  /\ LockIsFree /\ ~closed
  /\ kind[backend].watch = "readable"
  /\ Move(Dpi, "bind", "paused")
  /\ force' = [force EXCEPT ![Dpi] = TRUE]
  /\ UNCHANGED <<ownerVars, objectVars, seen, fresh, watchVars, dpiVars, shutdown>>

\* watch_dpi_events captures the backend and the generation.
WatchStarts ==
  /\ LockIsFree /\ ~closed
  /\ kind[backend].watch \in {"session", "detached"}
  /\ Move(Dpi, "start", "opening")
  /\ watch' = backend /\ watchGen' = generation
  /\ UNCHANGED <<ownerVars, objectVars, seen, force, fresh, report, orphan,
                 dpiVars, shutdown>>

\* Without the lock, the session or the node is opened; _session_for_node opens a
\* session for a backend that has been closed meanwhile.
WatchOpens ==
  /\ Move(Dpi, "opening", "watching")
  /\ orphan' = (kind[watch].watch = "session" /\ watch \notin open)
  /\ UNCHANGED <<ownerVars, objectVars, seen, force, fresh, watch, watchGen, report,
                 dpiVars, shutdown>>

\* The supervisor is closed, or the backend cannot be watched (any more).
WatchRefused ==
  /\ LockIsFree
  /\ Move(Dpi, "start", "paused")
  /\ UNCHANGED <<ownerVars, objectVars, seen, force, fresh, watchVars, dpiVars, shutdown>>

\* current_generation_callback, its test under the lock.
Current == ~closed /\ watchGen = generation /\ watch = backend

\* The watcher decodes a DPI report that the mouse sent about itself.
Report(v) ==
  /\ pc[Dpi] = "watching" /\ LockIsFree
  /\ kind[watch].watch = "session" => watch \in open \/ orphan
  /\ HardwareButton \/ v = hwDpi
  /\ hwDpi' = v
  /\ IF Current
       THEN Move(Dpi, "watching", "deliver") /\ report' = v
       ELSE UNCHANGED <<pc, report>>
  /\ UNCHANGED <<ownerVars, objectVars, seen, force, fresh, watch, watchGen,
                 orphan, desired, cycle, shutdown>>

\* callback(state): DpiCycler.observe_dpi, under the cycle lock, records it.
Deliver ==
  /\ cycle = NoDpi /\ LockIsFree
  /\ Move(Dpi, "deliver", "watching")
  /\ desired' = IF closed THEN desired ELSE report
  /\ report' = NoDpi
  /\ UNCHANGED <<ownerVars, objectVars, seen, force, fresh, watch, watchGen,
                 orphan, cycle, hwDpi, shutdown>>

StopWatching(from, to) ==
  /\ Move(Dpi, from, to)
  /\ watch' = NoId /\ watchGen' = 0 /\ orphan' = FALSE
  /\ UNCHANGED <<ownerVars, objectVars, seen, force, fresh, report, dpiVars, shutdown>>

\* Only _watch_session_events looks at its session's closed flag.
WatcherSeesClosed ==
  /\ pc[Dpi] = "watching"
  /\ kind[watch].watch = "session" /\ watch \notin open /\ ~orphan
  /\ StopWatching("watching", "paused")

\* The node it opens has gone, or is not to be watched any more.
OpenFails == StopWatching("opening", "paused")

\* The node it reads disconnects.
WatcherFails == StopWatching("watching", "paused")

WatcherStops ==
  /\ shutdown
  /\ StopWatching("watching", "loop")

\* A battery read, or the answer that there is no battery, ends in a long wait.
BatteryRead ==
  /\ LockIsFree /\ ~closed
  /\ Move(Battery, "bind", "resting")
  /\ UNCHANGED <<ownerVars, objectVars, seen, force, fresh, watchVars,
                 dpiVars, shutdown>>

BatteryFails ==
  /\ LockIsFree
  /\ Move(Battery, "bind", "paused")
  /\ UNCHANGED <<ownerVars, objectVars, seen, force, fresh, watchVars, dpiVars, shutdown>>

\* The wait after an attempt ends; a short one is followed by a rebind.
WaitEnds(t) ==
  /\ pc[t] \in {"resting", "paused"}
  /\ pc' = [pc EXCEPT ![t] = IF shutdown THEN "done"
                             ELSE IF pc[t] = "paused" THEN "rebind" ELSE "loop"]
  /\ UNCHANGED <<ownerVars, objectVars, seen, force, fresh, watchVars,
                 dpiVars, shutdown>>

-----------------------------------------------------------------------------------
(* rebind(expected_generation, force)                                              *)

\* Faulty variant: the generation check is missing.
StaleUnlessClosed(t) == closed

\* The early returns.
Stale(t) == closed \/ seen[t] # generation

RebindRefused(t) ==
  /\ LockIsFree /\ Stale(t)
  /\ Move(t, "rebind", "loop")
  /\ UNCHANGED <<ownerVars, objectVars, seen, force, fresh, watchVars,
                 dpiVars, shutdown>>

RebindBegins(t) ==
  /\ LockIsFree /\ ~Stale(t)
  /\ Move(t, "rebind", "build")
  /\ holder' = t
  /\ UNCHANGED <<backend, generation, closed, preferred, settled, pending, objectVars,
                 seen, force, fresh, watchVars, dpiVars, shutdown>>

\* Return or raise: the lock is released, the thread loops.
Release(t, from) ==
  /\ Move(t, from, "loop")
  /\ holder' = NoOne
  /\ fresh' = [fresh EXCEPT ![t] = NoId]

\* The resolver or the factory raises.
BuildFails(t) ==
  /\ Release(t, "build")
  /\ UNCHANGED <<backend, generation, closed, preferred, settled, pending, objectVars,
                 seen, force, watchVars, dpiVars, shutdown>>

Build(t) ==
  /\ generation < MaxGeneration
  /\ Move(t, "build", "admit")
  /\ \E i \in Free, k \in Kinds :
       /\ fresh' = [fresh EXCEPT ![t] = i]
       /\ kind' = [kind EXCEPT ![i] = k]
       /\ open' = open \cup {i}
  /\ UNCHANGED <<ownerVars, lit, seen, force, watchVars, dpiVars, shutdown>>

\* A weaker candidate than the adapter in use is closed and the search goes on.
Reject(t) ==
  /\ pc[t] = "admit" /\ ~Preserves(kind[fresh[t]])
  /\ Release(t, "admit")
  /\ open' = open \ {fresh[t]}
  /\ pending' = TRUE
  /\ UNCHANGED <<backend, generation, closed, preferred, settled, kind, lit,
                 seen, force, watchVars, dpiVars, shutdown>>

Admit(t) ==
  /\ pc[t] = "admit" /\ Preserves(kind[fresh[t]])
  /\ Move(t, "admit", "prepare")
  /\ ReconcileDpi
  /\ ReconcileLighting(fresh[t])
  /\ UNCHANGED <<ownerVars, kind, open, seen, force, fresh, watchVars,
                 desired, cycle, shutdown>>

\* Closing the rejected candidate raises, or prepare_observer_rebind does, which
\* only a DiscoveryBackend has.
Raises(t) ==
  \/ pc[t] = "admit" /\ ~Preserves(kind[fresh[t]])
  \/ pc[t] = "prepare" /\ ~kind[fresh[t]].compat

\* Faulty variant: the failed replacement is not closed.
AbortLeaks(t) ==
  /\ Raises(t) /\ Release(t, pc[t])
  /\ UNCHANGED <<backend, generation, closed, preferred, settled, pending, kind, open,
                 lit, seen, force, watchVars, dpiVars, shutdown>>

\* The except clause: the replacement is closed and the exception re-raised.
Abort(t) ==
  /\ Raises(t) /\ Release(t, pc[t])
  /\ open' = open \ {fresh[t]}
  /\ UNCHANGED <<backend, generation, closed, preferred, settled, pending, kind,
                 lit, seen, force, watchVars, dpiVars, shutdown>>

\* Nothing changed but the object: the old backend is kept.
Collapses(t) == ~force[t] /\ SameBinding(kind[backend], kind[fresh[t]])

Collapse(t) ==
  /\ pc[t] = "prepare" /\ Collapses(t)
  /\ Release(t, "prepare")
  /\ open' = open \ {fresh[t]}
  /\ UNCHANGED <<backend, generation, closed, preferred, settled, pending, kind,
                 lit, seen, force, watchVars, dpiVars, shutdown>>

\* Faulty variant: the superseded backend is left open.
RetiredNot == open

\* close() of the superseded backend.
Retired == open \ {backend}

Install(t) ==
  LET new == kind[fresh[t]] IN
  /\ pc[t] = "prepare" /\ ~Collapses(t)
  /\ Release(t, "prepare")
  /\ backend' = fresh[t]
  /\ generation' = generation + 1
  /\ open' = Retired
  /\ settled' = (settled \/ Proven(new))
  /\ pending' = IF Proven(new) THEN FALSE ELSE settled \/ pending
  /\ preferred' = IF Affinity(new).rank > preferred.rank THEN Affinity(new) ELSE preferred
  /\ UNCHANGED <<closed, kind, lit, seen, force, watchVars,
                 dpiVars, shutdown>>

Rebind(t) ==
  \/ RebindRefused(t) \/ RebindBegins(t) \/ BuildFails(t) \/ Build(t)
  \/ Reject(t) \/ Admit(t) \/ Abort(t) \/ Collapse(t) \/ Install(t)

Watching ==
  \/ NoMonitor \/ EventMonitor \/ ReadMonitor \/ WatchStarts \/ WatchRefused
  \/ (\E v \in Stages : Report(v)) \/ Deliver
  \/ WatchOpens \/ OpenFails \/ WatcherSeesClosed \/ WatcherFails \/ WatcherStops

Monitor(t) == LoopEnds(t) \/ LoopHead(t) \/ WaitEnds(t) \/ Rebind(t)

MainSteps == Startup \/ CycleSet \/ CycleRecord \/ DeviceResets \/ SetShutdown \/ Close

\* The process has ended.
Terminated ==
  /\ closed /\ \A t \in Threads : pc[t] = "done"
  /\ UNCHANGED vars

Next ==
  \/ MainSteps
  \/ Watching
  \/ BatteryRead \/ BatteryFails
  \/ \E t \in Threads : Monitor(t)
  \/ Terminated

Spec == Init /\ [][Next]_vars

-----------------------------------------------------------------------------------
(* Properties                                                                      *)

\* When nobody is inside rebind, the objects that have not been closed are exactly
\* the current backend, and none after close(): no path through rebind - a rejected
\* candidate, an equal one, an exception - leaks an object or closes the wrong one
\* (supervisor.py 288-355, 432-439).
OneLiveBackend == LockIsFree => open = IF closed THEN {} ELSE {backend}

\* A replacement under way was asked for by a thread that saw the backend it will
\* replace fail, and close() has not happened: two consumers of one failure do not
\* replace the backend twice (supervisor.py 36-38, 290-294).
RebindIsCurrent ==
  \A t \in Threads : holder = t => seen[t] = generation /\ ~closed

\* A watcher's generation is the current one exactly when its backend object is:
\* neither a rebind that keeps the object nor a reused address confuses the test of
\* current_generation_callback (supervisor.py 414-420).
GenerationNamesBackend ==
  watch # NoId => (watchGen = generation <=> watch = backend)

\* A replacement is due: the thread that replaces the backend had captured this very
\* generation before the failure it reports, close() has not happened, and whatever is
\* found while interfaces come and go, the adapter in use is not traded for a weaker one,
\* nor a native adapter for another (supervisor.py 89-98, 290-294).
ReplacementIsDue ==
  [][ LET old == Affinity(kind[backend])
          new == Affinity(kind'[backend'])
      IN /\ backend' # backend => \E t \in Threads :
                                    holder = t /\ seen[t] = generation /\ ~closed
         /\ new.rank >= old.rank
         /\ old.rank = 2 => new = old ]_vars

\* A watcher of the mouse whose backend another thread's rebind has replaced; not one
\* that had opened its session only after that backend was closed.
Abandoned == pc[Dpi] = "watching" /\ watch # backend /\ ~orphan

\* The DPI thread leaves a session that is closed because its backend was replaced, to
\* subscribe on the new one (docs/AI_HANDOFF_LOG.md 1575-1577).
SessionWatcherFollows ==
  (Abandoned /\ kind[watch].watch = "session") ~> pc[Dpi] # "watching"

\* A retired watcher's event is discarded: a state is delivered to the callback only
\* while the watcher's generation is current (docs/AI_HANDOFF_LOG.md 1276-1277).
StaleEventsDiscarded == pc[Dpi] = "deliver" => Current

\* Once no cycle and no rebind is under way, the live DPI of the mouse, if it is one
\* we wrote, is the desired DPI that the next reconnect will apply
\* (supervisor.py 25, tests/test_hardware_supervisor.py 111).
DesiredMatchesDevice ==
  LockIsFree /\ cycle = NoDpi /\ hwDpi # NoDpi => hwDpi = desired

\* The fairness of the liveness runs: a thread that can take a step takes it, calls
\* into the factory and the device return, and nothing else is assumed: no device
\* event, no report, no failure.  A released lock is eventually granted.
Fairness ==
  /\ WF_vars(Startup) /\ WF_vars(CycleRecord) /\ WF_vars(Close)
  /\ WF_vars(Deliver) /\ WF_vars(WatcherSeesClosed) /\ WF_vars(WatcherStops)
  /\ WF_vars(NoMonitor \/ EventMonitor \/ ReadMonitor)
  /\ WF_vars(WatchStarts \/ WatchRefused)
  /\ WF_vars(WatchOpens \/ OpenFails)
  /\ WF_vars(BatteryRead \/ BatteryFails)
  /\ \A t \in Threads : WF_vars(LoopEnds(t) \/ LoopHead(t) \/ WaitEnds(t) \/ Rebind(t))

FairSpec == Spec /\ Fairness
================================================================================
