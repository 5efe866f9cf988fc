---------------------------- MODULE RuntimeWakeProofs ----------------------------
(***********************************************************************************)
(* RuntimeWake keeps its types, loses no wake-up and reports no teardown as a wake *)
(* for every set of threads and every bound.                                       *)
(***********************************************************************************)
EXTENDS RuntimeWake, TLAPS

\* A captured generation is never ahead of the coordinator's.
SeenIsPast == \A t \in Threads : seen[t] <= generation

\* Unserved evidence shows as a generation newer than the captured one ...
EvidenceIsNewer == \A t \in Threads : evidence[t] # "none" => seen[t] < generation

\* ... and until the teardown begins nothing else makes the generation newer.
NewerIsEvidence ==
  \A t \in Threads : ~shutdown /\ seen[t] < generation => evidence[t] # "none"

\* Who is about to stop the coordinator has set the event.
HandlerTearsDown == handler => shutdown

\* Who joins the wait set has nothing unserved, also after a signal interrupted him on
\* the way; a monitor is in it only while the coordinator runs.
SleepersAreServed ==
  \A t \in Threads :
    /\ pc[t] \in {"tested", "blocked"} => evidence[t] = "none"
    /\ t \in Monitors /\ pc[t] = "blocked" => ~Stopping

\* Only the remapper stops half-way in a section of the lock.
OnlyMainIsInterrupted ==
  \A m \in Monitors : pc[m] \notin Interruptible

IInv ==
  /\ TypeOK
  /\ SeenIsPast
  /\ EvidenceIsNewer
  /\ NewerIsEvidence
  /\ HandlerTearsDown
  /\ SleepersAreServed
  /\ OnlyMainIsInterrupted

-----------------------------------------------------------------------------------
(* The recorder's helpers and the notification                                     *)

LEMMA RetainType ==
  ASSUME NEW S, NEW s \in Seq(S), NEW x \in S
  PROVE  Retain(s, x) \in Seq(S)
<1>1. CASE Len(s) < MaxSamples
  BY <1>1 DEF Retain
<1>2. CASE ~(Len(s) < MaxSamples)
  <2>1. Len(s) > 0
    BY <1>2, BoundsAssumption
  <2>2. s # <<>>
    BY <2>1
  <2>3. Tail(s) \in Seq(S)
    BY <2>2
  <2> QED
    BY <1>2, <2>3 DEF Retain
<1> QED
  BY <1>1, <1>2

\* A notification changes places only by waking those who sleep.
LEMMA ReleasedPlaces ==
  ASSUME NEW f \in [Threads -> Places]
  PROVE  /\ Released(f) \in [Threads -> Places]
         /\ \A t \in Threads : /\ Released(f)[t] # "blocked"
                               /\ Released(f)[t] # f[t] => Released(f)[t] = "wait"
BY DEF Released, Places

-----------------------------------------------------------------------------------
(* The initial state and the steps                                                 *)

LEMMA InitIInv == Init => IInv
<1> SUFFICES ASSUME Init PROVE IInv
  OBVIOUS
<1>1. CoordinatorType
  BY DEF Init, CoordinatorType, States
<1>2. RecorderType
  BY DEF Init, RecorderType, NoSample
<1>3. ThreadType
  BY DEF Init, ThreadType, Places, Evidence
<1>4. SeenIsPast /\ EvidenceIsNewer /\ NewerIsEvidence /\ HandlerTearsDown
  BY DEF Init, SeenIsPast, EvidenceIsNewer, NewerIsEvidence, HandlerTearsDown
<1>5. SleepersAreServed /\ OnlyMainIsInterrupted
  BY DEF Init, SleepersAreServed, OnlyMainIsInterrupted, Interruptible, Monitors
<1> QED
  BY <1>1, <1>2, <1>3, <1>4, <1>5 DEF IInv, TypeOK

\* A step that neither signals nor captures, and puts no thread to sleep.
LEMMA QuietStep ==
  ASSUME IInv,
         CoordinatorType', RecorderType', ThreadType',
         UNCHANGED <<generation, seen, evidence>>,
         shutdown => shutdown', handler' => shutdown',
         Stopping' => Stopping,
         \A t \in Threads :
           pc'[t] \in {"tested", "blocked"} => pc[t] \in {"tested", "blocked"},
         \A m \in Monitors :
           /\ pc'[m] = "blocked" => pc[m] = "blocked"
           /\ pc'[m] \notin Interruptible
  PROVE  IInv'
BY DEF IInv, TypeOK, SeenIsPast, EvidenceIsNewer, NewerIsEvidence, HandlerTearsDown,
       SleepersAreServed, OnlyMainIsInterrupted

\* The places a thread moves to by a step of its own.
LEMMA MoveType ==
  ASSUME ThreadType, NEW t \in Threads, NEW place \in Places
  PROVE  /\ [pc EXCEPT ![t] = place] \in [Threads -> Places]
         /\ \A x \in Threads :
              [pc EXCEPT ![t] = place][x] = IF x = t THEN place ELSE pc[x]
BY DEF ThreadType

LEMMA MarkedType ==
  ASSUME NEW c \in {NoSample} \cup SUBSET Marks, NEW fs \in SUBSET Marks
  PROVE  Marked(c, fs) \in {NoSample} \cup SUBSET Marks
BY DEF Marked

\* After a notification nobody is in the wait set.
LEMMA ReleasedSleepers ==
  ASSUME IInv, NEW f \in [Threads -> Places],
         \A m \in Monitors : f[m] \notin Interruptible,
         pc' = Released(f),
         \A t \in Threads : f[t] = "tested" => evidence'[t] = "none"
  PROVE  SleepersAreServed' /\ OnlyMainIsInterrupted'
<1>1. \A t \in Threads : /\ pc'[t] # "blocked"
                         /\ pc'[t] # f[t] => pc'[t] = "wait"
  BY ReleasedPlaces
<1>2. SleepersAreServed'
  BY <1>1 DEF SleepersAreServed
<1>3. OnlyMainIsInterrupted'
  BY <1>1 DEF OnlyMainIsInterrupted, Interruptible, Monitors
<1> QED
  BY <1>2, <1>3

LEMMA DeviceEventIInv == IInv /\ DeviceEvent => IInv'
<1> SUFFICES ASSUME IInv, DeviceEvent PROVE IInv'
  OBVIOUS
<1>1. CoordinatorType'
  <2>1. generation' \in Nat
    BY DEF IInv, TypeOK, CoordinatorType, DeviceEvent
  <2>2. pendingT0' \in BOOLEAN
    BY DEF IInv, TypeOK, CoordinatorType, DeviceEvent
  <2>3. UNCHANGED <<shutdown, handler, state, quiet>>
    BY DEF DeviceEvent
  <2> QED
    BY <2>1, <2>2, <2>3 DEF IInv, TypeOK, CoordinatorType
<1>2. RecorderType'
  BY DEF IInv, TypeOK, RecorderType, DeviceEvent
<1>3. ThreadType'
  BY ReleasedPlaces DEF IInv, TypeOK, ThreadType, DeviceEvent, Evidence
<1>4. SleepersAreServed' /\ OnlyMainIsInterrupted'
  <2>1. \A t \in Threads : pc[t] # "tested"
    BY DEF IInv, OnlyMainIsInterrupted, Interruptible, DeviceEvent, LockFree, Monitors
  <2>2. pc \in [Threads -> Places] /\ \A m \in Monitors : pc[m] \notin Interruptible
    BY DEF IInv, TypeOK, ThreadType, OnlyMainIsInterrupted
  <2>3. pc' = Released(pc)
    BY DEF DeviceEvent
  <2> QED
    BY <2>1, <2>2, <2>3, ReleasedSleepers
<1>5. SeenIsPast' /\ EvidenceIsNewer' /\ NewerIsEvidence' /\ HandlerTearsDown'
  BY DEF IInv, TypeOK, CoordinatorType, ThreadType, DeviceEvent, SeenIsPast,
         EvidenceIsNewer, NewerIsEvidence, HandlerTearsDown
<1> QED
  BY <1>1, <1>2, <1>3, <1>4, <1>5 DEF IInv, TypeOK

\* The stop runs also where the remapper is about to join the wait set.
LEMMA StopIInv == IInv /\ Stop => IInv'
<1> SUFFICES ASSUME IInv, Stop PROVE IInv'
  OBVIOUS
<1>1. CoordinatorType'
  <2>1. generation' \in Nat /\ state' \in States
    BY DEF IInv, TypeOK, CoordinatorType, Stop, States
  <2>2. handler' \in BOOLEAN /\ UNCHANGED <<shutdown, pendingT0, quiet>>
    BY DEF Stop
  <2> QED
    BY <2>1, <2>2 DEF IInv, TypeOK, CoordinatorType
<1>2. RecorderType'
  BY DEF IInv, TypeOK, RecorderType, Stop, recorder
<1>3. ThreadType'
  BY ReleasedPlaces DEF IInv, TypeOK, ThreadType, Stop
<1>4. SleepersAreServed' /\ OnlyMainIsInterrupted'
  <2>1. pc \in [Threads -> Places] /\ \A m \in Monitors : pc[m] \notin Interruptible
    BY DEF IInv, TypeOK, ThreadType, OnlyMainIsInterrupted
  <2>2. \A t \in Threads : pc[t] = "tested" => evidence'[t] = "none"
    BY DEF IInv, SleepersAreServed, Stop
  <2>3. pc' = Released(pc)
    BY DEF Stop
  <2> QED
    BY <2>1, <2>2, <2>3, ReleasedSleepers
<1>5. SeenIsPast' /\ EvidenceIsNewer' /\ NewerIsEvidence' /\ HandlerTearsDown'
  BY DEF IInv, TypeOK, CoordinatorType, ThreadType, Stop, SeenIsPast,
         EvidenceIsNewer, NewerIsEvidence, HandlerTearsDown
<1> QED
  BY <1>1, <1>2, <1>3, <1>4, <1>5 DEF IInv, TypeOK

\* The body of activity() for a report that wakes.
LEMMA WakeIInv ==
  ASSUME IInv, NEW t \in Threads, Wake(t),
         \A x \in Threads : x # t => pc[x] # "tested"
  PROVE  IInv'
<1> DEFINE moved == [pc EXCEPT ![t] = "handling"]
<1>1. /\ moved \in [Threads -> Places]
      /\ \A x \in Threads : moved[x] = IF x = t THEN "handling" ELSE pc[x]
  BY MoveType DEF IInv, TypeOK, Places
<1>2. /\ generation' = generation + 1
      /\ state' = "ACTIVE"
      /\ pendingT0' = FALSE
      /\ quiet' = FALSE
      /\ current' = Marked(IF pendingT0 THEN current ELSE {}, {"t1"})
      /\ pc' = Released(moved)
      /\ evidence' = [x \in Threads |->
                         IF evidence[x] = "device" THEN "device" ELSE "input"]
      /\ UNCHANGED <<shutdown, handler, samples, seen, after, disconnected>>
  BY DEF Wake
<1>3. CoordinatorType'
  <2>1. generation' \in Nat
    BY <1>2 DEF IInv, TypeOK, CoordinatorType
  <2>2. state' \in States
    BY <1>2 DEF States
  <2> QED
    BY <1>2, <2>1, <2>2 DEF IInv, TypeOK, CoordinatorType
<1>4. RecorderType'
  BY <1>2, MarkedType DEF IInv, TypeOK, RecorderType, Marks
<1>5. ThreadType'
  BY <1>2, <1>1, ReleasedPlaces DEF IInv, TypeOK, ThreadType, Evidence
<1>6. SleepersAreServed' /\ OnlyMainIsInterrupted'
  <2>1. \A m \in Monitors : moved[m] \notin Interruptible
    BY <1>1 DEF IInv, OnlyMainIsInterrupted, Interruptible, Monitors
  <2>2. \A x \in Threads : moved[x] # "tested"
    BY <1>1
  <2> HIDE DEF moved
  <2> QED
    BY <1>1, <1>2, <2>1, <2>2, ReleasedSleepers
<1>7. SeenIsPast' /\ EvidenceIsNewer' /\ NewerIsEvidence' /\ HandlerTearsDown'
  BY <1>2 DEF IInv, TypeOK, CoordinatorType, ThreadType, SeenIsPast,
              EvidenceIsNewer, NewerIsEvidence, HandlerTearsDown
<1> QED
  BY <1>3, <1>4, <1>5, <1>6, <1>7 DEF IInv, TypeOK

\* The steps that move one thread and leave the generation alone.
LEMMA MoveIInv ==
  ASSUME IInv, NEW t \in Threads, NEW place \in Places,
         place \in {"tested", "blocked"} => pc[t] \in {"tested", "blocked"},
         t \in Monitors => place # "blocked" /\ place \notin Interruptible,
         pc' = [pc EXCEPT ![t] = place],
         UNCHANGED <<generation, seen, evidence, shutdown, handler, pendingT0>>,
         quiet' \in BOOLEAN,
         state' \in States, Stopping' => Stopping,
         RecorderType',
         after' \in [Monitors -> {"loop", "rebind"}],
         disconnected' \in BOOLEAN
  PROVE  IInv'
<1>1. CoordinatorType'
  BY DEF IInv, TypeOK, CoordinatorType
<1>2. ThreadType'
  BY MoveType DEF IInv, TypeOK, ThreadType
<1>3. \A x \in Threads : pc'[x] = IF x = t THEN place ELSE pc[x]
  BY MoveType DEF IInv, TypeOK
<1>4. handler' => shutdown'
  BY DEF IInv, HandlerTearsDown
<1>5. \A m \in Monitors : /\ pc'[m] = "blocked" => pc[m] = "blocked"
                          /\ pc'[m] \notin Interruptible
  BY <1>3 DEF IInv, OnlyMainIsInterrupted, Monitors
<1> QED
  BY <1>1, <1>2, <1>3, <1>4, <1>5, QuietStep

\* A thread's step that changes no more than its place and, perhaps, the recorder.
LEMMA PlainMoveIInv ==
  ASSUME IInv, NEW t \in Threads, NEW place \in Places,
         place \in {"tested", "blocked"} => pc[t] \in {"tested", "blocked"},
         t \in Monitors => place # "blocked" /\ place \notin Interruptible,
         pc' = [pc EXCEPT ![t] = place],
         UNCHANGED <<coordinator, seen, after, evidence>>,
         disconnected' \in BOOLEAN,
         RecorderType'
  PROVE  IInv'
<1>1. /\ UNCHANGED <<generation, seen, evidence, shutdown, handler, pendingT0, quiet>>
      /\ UNCHANGED <<state, after>>
  BY DEF coordinator
<1>2. /\ state' \in States /\ after' \in [Monitors -> {"loop", "rebind"}]
      /\ quiet' \in BOOLEAN
  BY <1>1 DEF IInv, TypeOK, CoordinatorType, ThreadType
<1>3. Stopping' => Stopping
  BY <1>1 DEF Stopping
<1> QED
  BY <1>1, <1>2, <1>3, MoveIInv

LEMMA ActivityIInv ==
  ASSUME IInv, NEW t \in Threads, Activity(t)
  PROVE  IInv'
<1>1. CASE ~Stopping /\ Waking /\ t # Remapper
  <2>1. Wake(t)
    BY <1>1 DEF Activity
  <2>2. \A x \in Threads : pc[x] # "tested"
    BY DEF IInv, OnlyMainIsInterrupted, Interruptible, Activity, LockFree, Monitors
  <2> QED
    BY <2>1, <2>2, WakeIInv
<1>2. CASE ~(~Stopping /\ Waking /\ t # Remapper)
  <2> DEFINE place == IF ~Stopping /\ Waking THEN "waking" ELSE "handling"
  <2>1. /\ pc' = [pc EXCEPT ![t] = place]
        /\ quiet' = IF Stopping THEN quiet ELSE FALSE
        /\ UNCHANGED <<shutdown, handler, state, generation, pendingT0, recorder>>
        /\ UNCHANGED <<seen, after, disconnected, evidence>>
    BY <1>2 DEF Activity
  <2>2. /\ place \in Places /\ place \notin {"tested", "blocked"}
        /\ t \in Monitors => place # "blocked" /\ place \notin Interruptible
    BY <1>2 DEF Places, Interruptible, Monitors
  <2>3. quiet' \in BOOLEAN /\ state' \in States /\ (Stopping' => Stopping)
    BY <2>1 DEF IInv, TypeOK, CoordinatorType, Stopping
  <2>4. /\ RecorderType' /\ after' \in [Monitors -> {"loop", "rebind"}]
        /\ disconnected' \in BOOLEAN
    BY <2>1 DEF IInv, TypeOK, RecorderType, ThreadType, recorder
  <2> HIDE DEF place
  <2> QED
    BY <2>1, <2>2, <2>3, <2>4, MoveIInv
<1> QED
  BY <1>1, <1>2

\* A thread that finds its predicate false has captured the current generation, so
\* nothing is unserved.
LEMMA WaitIInv ==
  ASSUME IInv, NEW t \in Threads, Wait(t)
  PROVE  IInv'
<1>1. CoordinatorType' /\ RecorderType'
  BY DEF IInv, TypeOK, CoordinatorType, RecorderType, Wait, coordinator, recorder
<1>2. ThreadType'
  BY DEF IInv, TypeOK, ThreadType, Wait, Places
<1>3. SleepersAreServed'
  BY DEF IInv, TypeOK, ThreadType, CoordinatorType, SleepersAreServed, EvidenceIsNewer,
         Wait, WaitPredicate, coordinator, Stopping
<1>4. OnlyMainIsInterrupted'
  BY DEF IInv, TypeOK, ThreadType, OnlyMainIsInterrupted, Wait, Interruptible, Monitors
<1>5. SeenIsPast' /\ EvidenceIsNewer' /\ NewerIsEvidence' /\ HandlerTearsDown'
  BY DEF IInv, SeenIsPast, EvidenceIsNewer, NewerIsEvidence, HandlerTearsDown, Wait,
         coordinator
<1> QED
  BY <1>1, <1>2, <1>3, <1>4, <1>5 DEF IInv, TypeOK

LEMMA LoopHeadIInv ==
  ASSUME IInv, NEW t \in Threads, LoopHead(t)
  PROVE  IInv'
<1>1. CoordinatorType' /\ RecorderType'
  BY DEF IInv, TypeOK, CoordinatorType, RecorderType, LoopHead, coordinator, recorder
<1>2. ThreadType'
  BY DEF IInv, TypeOK, ThreadType, CoordinatorType, LoopHead, Places, Evidence
<1>3. SleepersAreServed'
  BY DEF IInv, TypeOK, ThreadType, SleepersAreServed, LoopHead, coordinator, Stopping
<1>4. OnlyMainIsInterrupted'
  BY DEF IInv, TypeOK, ThreadType, OnlyMainIsInterrupted, LoopHead, Interruptible,
         Monitors
<1>5. SeenIsPast' /\ EvidenceIsNewer' /\ NewerIsEvidence' /\ HandlerTearsDown'
  BY DEF IInv, TypeOK, ThreadType, CoordinatorType, SeenIsPast, EvidenceIsNewer,
         NewerIsEvidence, HandlerTearsDown, LoopHead, coordinator
<1> QED
  BY <1>1, <1>2, <1>3, <1>4, <1>5 DEF IInv, TypeOK

LEMMA EnvironmentIInv ==
  ASSUME IInv, BecomeQuiet \/ SetShutdown
  PROVE  IInv'
<1>1. CoordinatorType'
  BY DEF IInv, TypeOK, CoordinatorType, BecomeQuiet, SetShutdown
<1>2. RecorderType' /\ ThreadType'
  BY DEF IInv, TypeOK, RecorderType, ThreadType, BecomeQuiet, SetShutdown, recorder,
         threadVars
<1>3. UNCHANGED <<generation, seen, evidence, pc, state>>
  BY DEF BecomeQuiet, SetShutdown, threadVars
<1>4. (shutdown => shutdown') /\ (handler' => shutdown')
  BY DEF IInv, HandlerTearsDown, BecomeQuiet, SetShutdown
<1>5. \A m \in Monitors : pc'[m] \notin Interruptible
  BY <1>3 DEF IInv, OnlyMainIsInterrupted
<1> QED
  BY <1>1, <1>2, <1>3, <1>4, <1>5, QuietStep DEF Stopping

\* The steps shared by the loops that only move a thread.
LEMMA MovesIInv ==
  ASSUME IInv, NEW t \in Threads,
         \/ Timeout(t) \/ AfterWait(t) \/ ReadNext(t) \/ ReadNothing(t)
         \/ SessionStops(t)
         \/ t = Remapper /\ WaiterJoins
  PROVE  IInv'
<1>1. /\ UNCHANGED <<coordinator, recorder, seen, after, disconnected, evidence>>
      /\ \E place \in Places :
           /\ pc' = [pc EXCEPT ![t] = place]
           /\ place \in {"tested", "blocked"} => pc[t] \in {"tested", "blocked"}
           /\ t \in Monitors => place # "blocked" /\ place \notin Interruptible
  <2>1. CASE AfterWait(t)
    <3>1. t # Remapper => after[t] \in {"loop", "rebind"}
      BY DEF IInv, TypeOK, ThreadType, Monitors
    <3> QED
      BY <2>1, <3>1 DEF AfterWait, Places, Interruptible
  <2>2. CASE Timeout(t) \/ ReadNext(t) \/ ReadNothing(t) \/ SessionStops(t)
    BY <2>2 DEF Timeout, ReadNext, ReadNothing, SessionStops, Places, Interruptible
  <2>3. CASE t = Remapper /\ WaiterJoins
    BY <2>3 DEF WaiterJoins, Places, Monitors
  <2> QED
    BY <2>1, <2>2, <2>3
<1>2. RecorderType' /\ disconnected' \in BOOLEAN
  BY <1>1 DEF IInv, TypeOK, RecorderType, ThreadType, recorder
<1> QED
  BY <1>1, <1>2, PlainMoveIInv

\* The steps that move a thread and mark a sample.
LEMMA MarksIInv ==
  ASSUME IInv, NEW t \in Threads,
         \/ BackendUsable(t)
         \/ t = Remapper /\ Acquired
         \/ \E replaced \in BOOLEAN : Rebind(t, replaced)
  PROVE  IInv'
<1>1. /\ UNCHANGED <<coordinator, samples, seen, after, evidence>>
      /\ disconnected' \in BOOLEAN
      /\ \E place \in Places :
           /\ pc' = [pc EXCEPT ![t] = place]
           /\ place \notin {"tested", "blocked"} /\ place \notin Interruptible
      /\ \/ current' = current
         \/ \E fs \in SUBSET Marks : current' = Marked(current, fs)
  <2>1. CASE BackendUsable(t)
    BY <2>1 DEF IInv, TypeOK, ThreadType, BackendUsable, Places, Marks, Interruptible
  <2>2. CASE t = Remapper /\ Acquired
    BY <2>2 DEF Acquired, Places, Marks, Interruptible
  <2>3. CASE \E replaced \in BOOLEAN : Rebind(t, replaced)
    BY <2>3 DEF IInv, TypeOK, ThreadType, Rebind, Places, Marks, Interruptible
  <2> QED
    BY <2>1, <2>2, <2>3
<1>2. RecorderType'
  BY <1>1, MarkedType DEF IInv, TypeOK, RecorderType
<1> QED
  BY <1>1, <1>2, PlainMoveIInv

LEMMA RuntimeUsableIInv ==
  ASSUME IInv, NEW t \in Threads, RuntimeUsable(t)
  PROVE  IInv'
<1>1. RecorderType'
  <2>1. CASE current = NoSample
    BY <2>1 DEF IInv, TypeOK, RecorderType, RuntimeUsable, CompleteSample, recorder
  <2>2. CASE current # NoSample
    <3>1. current \cup {"t3"} \in SUBSET Marks /\ samples \in Seq(SUBSET Marks)
      BY <2>2 DEF IInv, TypeOK, RecorderType, Marks
    <3>2. Retain(samples, current \cup {"t3"}) \in Seq(SUBSET Marks)
      BY <3>1, RetainType
    <3> QED
      BY <2>2, <3>2 DEF RuntimeUsable, CompleteSample, RecorderType
  <2> QED
    BY <2>1, <2>2
<1>2. /\ UNCHANGED <<coordinator, seen, after, disconnected, evidence>>
      /\ pc' = [pc EXCEPT ![t] = "session"]
      /\ "session" \in Places /\ "session" \notin Interruptible
  BY DEF RuntimeUsable, Places, Interruptible
<1>3. disconnected' \in BOOLEAN
  BY <1>2 DEF IInv, TypeOK, ThreadType
<1> QED
  BY <1>1, <1>2, <1>3, PlainMoveIInv

\* The attempts: each ends in a place, and may move the coordinator to RECONNECTING
\* or UNAVAILABLE.
LEMMA AttemptsIInv ==
  ASSUME IInv, NEW t \in Threads,
         \/ t = Remapper /\ (AcquireFails \/ GrabFails \/ Disconnect \/ Parted)
         \/ t = Dpi /\ (WatcherReady \/ WatcherEnds \/ \E u \in BOOLEAN : NoDpiMonitor(u))
         \/ t = Battery /\ (BatteryRead \/ BatteryFails)
  PROVE  IInv'
<1>1. /\ UNCHANGED <<generation, seen, evidence, shutdown, handler, pendingT0, quiet>>
      /\ UNCHANGED recorder
      /\ state' = state \/ state' = "RECONNECTING" \/ Reconnecting \/ Unavailable
  BY DEF AcquireFails, GrabFails, Disconnect, Parted, WatcherReady, WatcherEnds,
         NoDpiMonitor, BatteryRead, BatteryFails, coordinator
<1>2. \E place \in Places :
        /\ pc' = [pc EXCEPT ![t] = place]
        /\ place \notin {"tested", "blocked"}
        /\ t \in Monitors => place # "blocked" /\ place \notin Interruptible
  BY DEF AcquireFails, GrabFails, Disconnect, Parted, WatcherReady, WatcherEnds,
         NoDpiMonitor, BatteryRead, BatteryFails, Places, Interruptible, Monitors
<1>3. disconnected' \in BOOLEAN
  BY DEF IInv, TypeOK, ThreadType, AcquireFails, GrabFails, Disconnect, Parted,
         WatcherReady, WatcherEnds, NoDpiMonitor, BatteryRead, BatteryFails
<1>4. after' \in [Monitors -> {"loop", "rebind"}]
  BY DEF IInv, TypeOK, ThreadType, AcquireFails, GrabFails, Disconnect, Parted,
         WatcherReady, WatcherEnds, NoDpiMonitor, BatteryRead, BatteryFails
<1>5. state' \in States /\ (Stopping' => Stopping) /\ quiet' \in BOOLEAN
  BY <1>1 DEF IInv, TypeOK, CoordinatorType, Reconnecting, Unavailable, Stopping, States
<1>6. RecorderType'
  BY <1>1 DEF IInv, TypeOK, RecorderType, recorder
<1> QED
  BY <1>1, <1>2, <1>3, <1>4, <1>5, <1>6, MoveIInv

-----------------------------------------------------------------------------------
(* The theorems                                                                    *)

LEMMA NextIInv == IInv /\ [Next]_vars => IInv'
<1> SUFFICES ASSUME IInv, [Next]_vars PROVE IInv'
  OBVIOUS
<1>1. CASE UNCHANGED vars
  <2>1. CoordinatorType' /\ RecorderType' /\ ThreadType'
    BY <1>1 DEF IInv, TypeOK, CoordinatorType, RecorderType, ThreadType, vars,
                coordinator, recorder, threadVars
  <2> QED
    BY <1>1, <2>1, QuietStep
       DEF vars, coordinator, threadVars, Stopping, IInv, HandlerTearsDown,
           OnlyMainIsInterrupted
<1>2. CASE Environment
  BY <1>2, EnvironmentIInv, DeviceEventIInv DEF Environment
<1>3. CASE Stop
  BY <1>3, StopIInv
<1>4. ASSUME NEW t \in Threads, ThreadStep(t) \/ Timeout(t)
      PROVE  IInv'
  <2>1. CASE t = Remapper /\ ActivityWakes
    <3>1. Wake(t) /\ \A x \in Threads : x # t => pc[x] # "tested"
      BY <2>1 DEF ActivityWakes, IInv, OnlyMainIsInterrupted, Interruptible, Monitors
    <3> QED
      BY <3>1, WakeIInv
  <2>2. CASE ~(t = Remapper /\ ActivityWakes)
    BY <1>4, <2>2, ActivityIInv, WaitIInv, LoopHeadIInv, MovesIInv, MarksIInv,
       RuntimeUsableIInv, AttemptsIInv
       DEF ThreadStep, ReaderStep, RemapperStep, DpiStep, BatteryStep
  <2> QED
    BY <2>1, <2>2
<1> QED
  BY <1>1, <1>2, <1>3, <1>4 DEF Next, Terminated

LEMMA SpecIInv == Spec => []IInv
BY InitIInv, NextIInv, PTL DEF Spec

\* The types of the coordinator's, the recorder's and the threads' variables.
THEOREM RuntimeWakeType == Spec => []TypeOK
<1>1. IInv => TypeOK
  BY DEF IInv
<1> QED
  BY <1>1, SpecIInv, PTL

\* No thread sleeps through evidence, and no monitor through the coordinator's stop,
\* also when a signal stops the coordinator half-way in a section of the remapper's.
THEOREM RuntimeWakeNoLostWake == Spec => []NoLostWake
<1>1. IInv => NoLostWake
  BY DEF IInv, SleepersAreServed, NoLostWake
<1> QED
  BY <1>1, SpecIInv, PTL

\* wait() answers true only for evidence from the device.
THEOREM RuntimeWakeIsEvidence == Spec => []WakeIsEvidence
<1>1. IInv => WakeIsEvidence
  BY DEF IInv, TypeOK, CoordinatorType, ThreadType, SeenIsPast, NewerIsEvidence,
         WakeIsEvidence, WaitResult
<1> QED
  BY <1>1, SpecIInv, PTL

===================================================================================
