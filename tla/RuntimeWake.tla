------------------------------- MODULE RuntimeWake -------------------------------
(***********************************************************************************)
(* The wake coordinator that the resident runtime's threads share, together with   *)
(* the retry loops of the three threads that wait on it.                           *)
(*                                                                                 *)
(*   runtime_wake.py    RuntimeWakeCoordinator, WakeLatencyRecorder                *)
(*   remapper.py        MouseRemapper.run           (the main thread)              *)
(*   notifications.py   DpiMonitorSupervisor._run   (DPI monitor thread)           *)
(*   battery.py         BatteryMonitorSupervisor._run  (battery monitor thread)    *)
(*   cli.py             the teardown of run_from_config                            *)
(*                                                                                 *)
(* Time is abstracted: "quiet" says that quiescent_after has passed since the last *)
(* activity, and a retry timeout may expire in any state in which a thread blocks. *)
(* Generation is bounded by MaxGeneration; the deque of samples by MaxSamples      *)
(* (128 in the code).                                                              *)
(*                                                                                 *)
(* SIGINT and SIGTERM run MouseRemapper.stop on the main thread, which is the       *)
(* remapper's, between any two of its steps.  The condition's lock is re-entrant,  *)
(* so this includes the places where the remapper itself holds it: "tested" (the   *)
(* predicate of a wait was false, the waiter is not in the list yet), "waking" and *)
(* "parting" (STOPPING was tested, the state is not assigned yet).  Sections of    *)
(* the other threads cannot be interrupted, and are single steps.                  *)
(***********************************************************************************)
EXTENDS Naturals, Sequences

CONSTANTS
  Remapper, Dpi, Battery,   \* the three threads
  Threads,                  \* those the configuration starts
  MaxGeneration,            \* bound on the wake evidence one behaviour may contain
  MaxSamples                \* maximum_samples of WakeLatencyRecorder

ASSUME ThreadsAreDistinct ==
  Remapper # Dpi /\ Remapper # Battery /\ Dpi # Battery
ASSUME ThreadsAssumption ==
  Threads \subseteq {Remapper, Dpi, Battery}
ASSUME BoundsAssumption ==
  MaxGeneration \in Nat /\ MaxSamples \in Nat \ {0}

Monitors == Threads \ {Remapper}
Readers  == Threads \ {Battery}      \* the threads that deliver device input

VARIABLES
  shutdown,      \* the shared shutdown_event
  handler,       \* the main thread is between shutdown_event.set() and stop()
  state,         \* RuntimeWakeCoordinator._state
  generation,    \* RuntimeWakeCoordinator._generation
  pendingT0,     \* _pending_t0_ns is not None
  quiet,         \* now - _last_activity_ns >= quiescent_after_ns
  current,       \* WakeLatencyRecorder._current: NoSample, or the marks it carries
  samples,       \* WakeLatencyRecorder._samples
  pc,            \* where each thread is
  seen,          \* the generation a thread captured before its attempt
  after,         \* where a monitor goes when its wait returns
  disconnected,  \* the remapper's local variable of that name
  evidence       \* history: the wake evidence since the thread's attempt began

coordinator == <<shutdown, handler, state, generation, pendingT0, quiet>>
recorder    == <<current, samples>>
threadVars  == <<pc, seen, after, disconnected, evidence>>
vars        == <<coordinator, recorder, threadVars>>

States   == {"ACTIVE", "RECONNECTING", "UNAVAILABLE", "STOPPING"}
Marks    == {"t1", "t2", "t3"}
NoSample == {"none"}
Evidence == {"none", "input", "device"}
Places   == {"loop", "attempt", "session", "reading", "handling", "handled",
             "wait", "tested", "blocked", "waking", "parting", "woken", "rebind", "done"}

CoordinatorType ==
  /\ shutdown \in BOOLEAN
  /\ handler \in BOOLEAN
  /\ state \in States
  /\ generation \in Nat
  /\ pendingT0 \in BOOLEAN
  /\ quiet \in BOOLEAN

RecorderType ==
  /\ current \in {NoSample} \cup SUBSET Marks
  /\ samples \in Seq(SUBSET Marks)

ThreadType ==
  /\ pc \in [Threads -> Places]
  /\ seen \in [Threads -> Nat]
  /\ after \in [Monitors -> {"loop", "rebind"}]
  /\ disconnected \in BOOLEAN
  /\ evidence \in [Threads -> Evidence]

\* Every variable has its type.
TypeOK == CoordinatorType /\ RecorderType /\ ThreadType

Init ==
  /\ shutdown = FALSE
  /\ handler = FALSE
  /\ state = "ACTIVE"
  /\ generation = 0
  /\ pendingT0 = FALSE
  /\ quiet = FALSE
  /\ current = NoSample
  /\ samples = <<>>
  /\ pc = [t \in Threads |-> "loop"]
  /\ seen = [t \in Threads |-> 0]
  /\ after = [m \in Monitors |-> "loop"]
  /\ disconnected = FALSE
  /\ evidence = [t \in Threads |-> "none"]

-----------------------------------------------------------------------------------
(* WakeLatencyRecorder.  Each operator gives the next value of the recorder.       *)

\* The deque keeps the newest MaxSamples entries.
Retain(s, x) == IF Len(s) < MaxSamples THEN Append(s, x) ELSE Append(Tail(s), x)

\* _mark for each of the fields in fs, which never contains t3.
Marked(c, fs) == IF c = NoSample THEN c ELSE c \cup fs

\* _mark("t3_ns"): the sample is complete whatever it carries.
CompleteSample ==
  IF current = NoSample
    THEN UNCHANGED recorder
    ELSE /\ samples' = Retain(samples, current \cup {"t3"})
         /\ current' = NoSample

-----------------------------------------------------------------------------------
(* RuntimeWakeCoordinator                                                          *)

Stopping == state = "STOPPING"
Waking   == state # "ACTIVE" \/ quiet

\* The remapper is in a section of the condition's lock.
Interruptible == {"tested", "waking", "parting"}
LockFree == Remapper \in Threads => pc[Remapper] \notin Interruptible

\* While the handler runs, the main thread does nothing else.
Runs(t) == t = Remapper => ~handler

\* Faulty variant: notify() in place of notify_all().
ReleasedOne(places) ==
  LET sleeping == {t \in Threads : places[t] = "blocked"} IN
  IF sleeping = {}
    THEN places
    ELSE [places EXCEPT ![CHOOSE t \in sleeping : TRUE] = "wait"]

\* notify_all: every thread in the condition's wait set will evaluate its predicate
\* again.
Released(places) ==
  [t \in Threads |-> IF places[t] = "blocked" THEN "wait" ELSE places[t]]

\* reconnecting() and unavailable(), neither of which signals.
Reconnecting == state' = IF Stopping THEN state ELSE "RECONNECTING"
Unavailable  == state' = IF Stopping THEN state ELSE "UNAVAILABLE"

\* Faulty variant: the generation changes and nobody is notified.
DeviceEventUnsignalled ==
  /\ LockFree
  /\ ~Stopping
  /\ generation < MaxGeneration
  /\ generation' = generation + 1
  /\ evidence' = [t \in Threads |-> "device"]
  /\ IF ~pendingT0 /\ Waking
       THEN pendingT0' = TRUE /\ current' = {}
       ELSE UNCHANGED <<pendingT0, current>>
  /\ UNCHANGED <<shutdown, handler, state, quiet, samples, pc, seen, after, disconnected>>

\* device_event(): called by the netlink listener for a matching uevent.
DeviceEvent ==
  /\ LockFree
  /\ ~Stopping
  /\ generation < MaxGeneration
  /\ generation' = generation + 1
  /\ pc' = Released(pc)
  /\ evidence' = [t \in Threads |-> "device"]
  /\ IF ~pendingT0 /\ Waking
       THEN pendingT0' = TRUE /\ current' = {}
       ELSE UNCHANGED <<pendingT0, current>>
  /\ UNCHANGED <<shutdown, handler, state, quiet, samples, seen, after, disconnected>>

\* The body of activity() for a report that wakes.
Wake(t) ==
  LET moved == [pc EXCEPT ![t] = "handling"] IN
  /\ generation' = generation + 1
  /\ state' = "ACTIVE"
  /\ quiet' = FALSE
  /\ pendingT0' = FALSE
  /\ current' = Marked(IF pendingT0 THEN current ELSE {}, {"t1"})
  /\ pc' = Released(moved)
  /\ evidence' = [x \in Threads |->
                   IF evidence[x] = "device" THEN "device" ELSE "input"]
  /\ UNCHANGED <<shutdown, handler, samples, seen, after, disconnected>>

\* activity() as the thread t calls it for an input report: it moves t from
\* "reading" to "handling".  On the main thread a waking report takes two steps.
Activity(t) ==
  LET place == IF ~Stopping /\ Waking THEN "waking" ELSE "handling" IN
  /\ pc[t] = "reading"
  /\ LockFree
  /\ ~Stopping /\ Waking => generation < MaxGeneration
  /\ IF ~Stopping /\ Waking /\ t # Remapper
       THEN Wake(t)
       ELSE /\ pc' = [pc EXCEPT ![t] = place]
            /\ quiet' = IF Stopping THEN quiet ELSE FALSE
            /\ UNCHANGED <<shutdown, handler, state, generation, pendingT0, recorder,
                           seen, after, disconnected, evidence>>

\* The rest of it on the main thread, which assigns ACTIVE without another test.
ActivityWakes == pc[Remapper] = "waking" /\ Wake(Remapper)

\* quiescent_after elapses with no activity.
BecomeQuiet ==
  /\ ~quiet
  /\ quiet' = TRUE
  /\ UNCHANGED <<shutdown, handler, state, generation, pendingT0, recorder, threadVars>>

\* The teardown's two steps.  Each of its callers (the signal handler, the finally
\* block of run_from_config, the monitors' stop) runs on the main thread and sets the
\* event first.
SetShutdown ==
  /\ ~handler
  /\ shutdown => generation < MaxGeneration
  /\ shutdown' = TRUE
  /\ handler' = TRUE
  /\ UNCHANGED <<state, generation, pendingT0, quiet, recorder, threadVars>>

\* Faulty variant: a stop that only changes the state.
StopUnsignalled ==
  /\ handler
  /\ handler' = FALSE
  /\ state' = "STOPPING"
  /\ UNCHANGED <<shutdown, generation, pendingT0, quiet, recorder, threadVars>>

\* stop() takes the condition's lock, also where the remapper holds it already.
Stop ==
  /\ handler
  /\ handler' = FALSE
  /\ state' = "STOPPING"
  /\ generation' = generation + 1
  /\ pc' = Released(pc)
  /\ UNCHANGED <<shutdown, pendingT0, quiet, recorder, seen, after, disconnected,
                 evidence>>

-----------------------------------------------------------------------------------
(* wait(after_generation, timeout, shutdown_event)                                 *)

WaitPredicate(t) == generation # seen[t] \/ Stopping \/ shutdown
\* Faulty variant: any change of the generation counts as a wake.
WaitResultOfAnyChange(t) == generation # seen[t]
WaitResult(t)    == generation # seen[t] /\ ~Stopping /\ ~shutdown

\* wait_for evaluates the predicate and, when it is false, joins the wait set
\* without giving up the lock in between; only the main thread can be interrupted
\* there.
Wait(t) ==
  /\ pc[t] = "wait"
  /\ LockFree
  /\ pc' = [pc EXCEPT ![t] = IF WaitPredicate(t) THEN "woken"
                             ELSE IF t = Remapper THEN "tested" ELSE "blocked"]
  /\ UNCHANGED <<coordinator, recorder, seen, after, disconnected, evidence>>

\* The main thread's waiter joins the list and the lock is released.
WaiterJoins ==
  /\ pc[Remapper] = "tested"
  /\ pc' = [pc EXCEPT ![Remapper] = "blocked"]
  /\ UNCHANGED <<coordinator, recorder, seen, after, disconnected, evidence>>

Timeout(t) ==
  /\ pc[t] = "blocked"
  /\ LockFree
  /\ Runs(t)
  /\ pc' = [pc EXCEPT ![t] = "woken"]
  /\ UNCHANGED <<coordinator, recorder, seen, after, disconnected, evidence>>

-----------------------------------------------------------------------------------
(* The retry loops                                                                 *)

\* The head of each loop: leave when the event is set, else capture the generation
\* before the attempt.
LoopHead(t) ==
  /\ pc[t] = "loop"
  /\ LockFree
  /\ IF shutdown
       THEN /\ pc' = [pc EXCEPT ![t] = "done"]
            /\ UNCHANGED <<seen, evidence>>
       ELSE /\ pc' = [pc EXCEPT ![t] = "attempt"]
            /\ seen' = [seen EXCEPT ![t] = generation]
            /\ evidence' = [evidence EXCEPT ![t] = "none"]
  /\ UNCHANGED <<coordinator, recorder, after, disconnected>>

\* The remapper finds no device to open.
AcquireFails ==
  /\ pc[Remapper] = "attempt"
  /\ disconnected' = TRUE
  /\ pc' = [pc EXCEPT ![Remapper] = "wait"]
  /\ UNCHANGED <<coordinator, recorder, seen, after, evidence>>

\* The remapper opens a device but cannot grab it: it tries again without a wait.
GrabFails ==
  /\ pc[Remapper] = "attempt"
  /\ pc' = [pc EXCEPT ![Remapper] = "loop"]
  /\ UNCHANGED <<coordinator, recorder, seen, after, disconnected, evidence>>

Acquired ==
  /\ pc[Remapper] = "attempt"
  /\ pc' = [pc EXCEPT ![Remapper] = "session"]
  /\ current' = IF disconnected THEN Marked(current, {"t1"}) ELSE current
  /\ disconnected' = FALSE
  /\ UNCHANGED <<coordinator, samples, seen, after, evidence>>

\* The DPI thread binds a watcher.
WatcherReady ==
  /\ pc[Dpi] = "attempt"
  /\ pc' = [pc EXCEPT ![Dpi] = "session"]
  /\ UNCHANGED <<coordinator, recorder, seen, after, disconnected, evidence>>

\* One iteration of a reader's loop: it looks at shutdown_event, then reads.
ReadNext(t) ==
  /\ pc[t] = "session"
  /\ ~shutdown
  /\ pc' = [pc EXCEPT ![t] = "reading"]
  /\ UNCHANGED <<coordinator, recorder, seen, after, disconnected, evidence>>

ReadNothing(t) ==
  /\ pc[t] = "reading"
  /\ pc' = [pc EXCEPT ![t] = "session"]
  /\ UNCHANGED <<coordinator, recorder, seen, after, disconnected, evidence>>

\* observe_evdev_event and the watcher's callback mark the backend as usable.
BackendUsable(t) ==
  /\ pc[t] = "handling"
  /\ pc' = [pc EXCEPT ![t] = "handled"]
  /\ current' = Marked(current, {"t2"})
  /\ UNCHANGED <<coordinator, samples, seen, after, disconnected, evidence>>

\* The report was mapped and written (remapper) or delivered (watcher).
RuntimeUsable(t) ==
  /\ pc[t] = "handled"
  /\ pc' = [pc EXCEPT ![t] = "session"]
  /\ CompleteSample
  /\ UNCHANGED <<coordinator, seen, after, disconnected, evidence>>

\* A reader leaves its loop because the event is set.
SessionStops(t) ==
  /\ pc[t] = "session"
  /\ shutdown
  /\ pc' = [pc EXCEPT ![t] = "done"]
  /\ UNCHANGED <<coordinator, recorder, seen, after, disconnected, evidence>>

\* The remapper's read fails with a disconnect; it calls reconnecting().
Disconnect ==
  /\ pc[Remapper] = "reading"
  /\ disconnected' = TRUE
  /\ pc' = [pc EXCEPT ![Remapper] = IF Stopping THEN "loop" ELSE "parting"]
  /\ UNCHANGED <<coordinator, recorder, seen, after, evidence>>

\* The assignment in reconnecting(), without another test.
Parted ==
  /\ pc[Remapper] = "parting"
  /\ state' = "RECONNECTING"
  /\ pc' = [pc EXCEPT ![Remapper] = "loop"]
  /\ UNCHANGED <<shutdown, handler, generation, pendingT0, quiet, recorder, seen, after,
                 disconnected, evidence>>

\* The watcher fails or stops: DpiMonitorSupervisor leaves if the event is set, else
\* waits and then rebinds.
WatcherEnds ==
  /\ pc[Dpi] \in {"attempt", "session", "reading"}
  /\ LockFree
  /\ Reconnecting
  /\ pc' = [pc EXCEPT ![Dpi] = IF shutdown THEN "done" ELSE "wait"]
  /\ after' = [after EXCEPT ![Dpi] = "rebind"]
  /\ UNCHANGED <<shutdown, handler, generation, pendingT0, quiet, recorder, seen,
                 disconnected, evidence>>

\* No monitor can be created: with discovery complete the device is unsupported and
\* the thread only looks again later, with discovery pending it rebinds.
NoDpiMonitor(unsupported) ==
  /\ pc[Dpi] = "attempt"
  /\ LockFree
  /\ IF shutdown
       THEN pc' = [pc EXCEPT ![Dpi] = "done"] /\ UNCHANGED <<state, after>>
       ELSE /\ pc' = [pc EXCEPT ![Dpi] = "wait"]
            /\ after' = [after EXCEPT ![Dpi] = IF unsupported THEN "loop" ELSE "rebind"]
            /\ IF unsupported THEN Unavailable ELSE UNCHANGED state
  /\ UNCHANGED <<shutdown, handler, generation, pendingT0, quiet, recorder, seen,
                 disconnected, evidence>>

\* The battery was read, or is known not to exist: wait for the polling interval.
BatteryRead ==
  /\ pc[Battery] = "attempt"
  /\ pc' = [pc EXCEPT ![Battery] = "wait"]
  /\ after' = [after EXCEPT ![Battery] = "loop"]
  /\ UNCHANGED <<coordinator, recorder, seen, disconnected, evidence>>

BatteryFails ==
  /\ pc[Battery] = "attempt"
  /\ LockFree
  /\ Reconnecting
  /\ pc' = [pc EXCEPT ![Battery] = "wait"]
  /\ after' = [after EXCEPT ![Battery] = "rebind"]
  /\ UNCHANGED <<shutdown, handler, generation, pendingT0, quiet, recorder, seen,
                 disconnected, evidence>>

\* What follows a wait.  The result of wait() is used by none of the loops: the
\* monitors read the event and the coordinator's state again.
AfterWait(t) ==
  /\ pc[t] = "woken"
  /\ t \in Monitors => LockFree
  /\ pc' = [pc EXCEPT ![t] =
              IF t = Remapper THEN "loop"
              ELSE IF shutdown \/ Stopping THEN "done" ELSE after[t]]
  /\ UNCHANGED <<coordinator, recorder, seen, after, disconnected, evidence>>

\* HardwareSupervisor.rebind, which marks t1 and t2 when it replaces the backend.
Rebind(m, replaced) ==
  /\ pc[m] = "rebind"
  /\ pc' = [pc EXCEPT ![m] = "loop"]
  /\ current' = IF replaced THEN Marked(current, {"t1", "t2"}) ELSE current
  /\ UNCHANGED <<coordinator, samples, seen, after, disconnected, evidence>>

-----------------------------------------------------------------------------------
Environment == DeviceEvent \/ BecomeQuiet \/ SetShutdown

ReaderStep(t) ==
  \/ ReadNext(t)
  \/ ReadNothing(t)
  \/ Activity(t)
  \/ BackendUsable(t)
  \/ RuntimeUsable(t)
  \/ SessionStops(t)

RemapperStep ==
  \/ AcquireFails
  \/ GrabFails
  \/ Acquired
  \/ ActivityWakes
  \/ WaiterJoins
  \/ Disconnect
  \/ Parted
DpiStep      == WatcherReady \/ WatcherEnds \/ \E u \in BOOLEAN : NoDpiMonitor(u)
BatteryStep  == BatteryRead \/ BatteryFails

\* Everything thread t does by itself; the expiry of its timeout is not among it.
ThreadStep(t) ==
  /\ Runs(t)
  /\ \/ LoopHead(t)
     \/ Wait(t)
     \/ AfterWait(t)
     \/ t \in Readers /\ ReaderStep(t)
     \/ t = Remapper /\ RemapperStep
     \/ t = Dpi /\ DpiStep
     \/ t = Battery /\ BatteryStep
     \/ t \in Monitors /\ \E replaced \in BOOLEAN : Rebind(t, replaced)

Terminated ==
  /\ \A t \in Threads : pc[t] = "done"
  /\ UNCHANGED vars

Next ==
  \/ Environment
  \/ Stop
  \/ \E t \in Threads : ThreadStep(t) \/ Timeout(t)
  \/ Terminated

\* The threads are scheduled, and who set the event reaches its stop().  No fairness is
\* given to the retry timeouts, to hardware or to input.
Fairness ==
  /\ WF_vars(Stop)
  /\ \A t \in Threads : WF_vars(ThreadStep(t))

Spec     == Init /\ [][Next]_vars
FairSpec == Spec /\ Fairness

-----------------------------------------------------------------------------------
(* Properties                                                                      *)

\* No lost wake-up: a thread never sleeps in the condition while evidence that
\* arrived after its last attempt began is unserved, and no monitor sleeps once the
\* coordinator is stopping.  It rests on capturing the generation before the attempt,
\* on testing the predicate under the lock, and on every signal being a notify_all.
\* The main thread may sleep then, until its retry interval is over: a signal that
\* interrupts it in "tested" finds nobody to notify.
NoLostWake ==
  \A t \in Threads :
    pc[t] = "blocked" => evidence[t] = "none" /\ (t \in Monitors => ~Stopping)

\* wait() returns true only for evidence from the device: the generation change made
\* by stop() is never reported as a wake.
WakeIsEvidence ==
  \A t \in Threads :
    pc[t] \in {"wait", "blocked"} /\ WaitResult(t) => evidence[t] # "none"

\* Teardown ends every monitor: none sleeps through it until a timeout expires.
ShutdownTerminates == shutdown ~> \A m \in Monitors : pc[m] = "done"

\* Evidence ends a retry wait: a thread that waits while evidence is unserved starts
\* a new attempt, without the timeout having to expire.
EvidenceIsServed ==
  \A t \in Threads :
    evidence[t] # "none" /\ pc[t] \in {"wait", "blocked"}
      ~> pc[t] \in {"attempt", "done"}
===================================================================================
