------------------------ MODULE HardwareSupervisorProofs ------------------------
(***********************************************************************************)
(* For every set of backend kinds and every number of rebinds, HardwareSupervisor  *)
(* keeps its types, leaks no backend, acts once on each failure and never trades   *)
(* its adapter for a weaker or a different one.                                    *)
(***********************************************************************************)
EXTENDS HardwareSupervisor, TLAPS

\* The lock is held by the thread that is inside rebind.
LockInv == \A t \in Threads : pc[t] \in InRebind <=> holder = t

\* A candidate exists between the factory's return and the end of the rebind, and is
\* an object of its own.
CandidateInv ==
  \A t \in Threads :
    /\ pc[t] \in {"admit", "prepare"} <=> fresh[t] # NoId
    /\ fresh[t] # NoId => fresh[t] # backend /\ fresh[t] # watch
    /\ pc[t] = "prepare" => Preserves(kind[fresh[t]])

\* The open objects are the current backend and the candidate.
OpenInv ==
  \A i \in Ids : i \in open <=> (i = backend /\ ~closed) \/ \E t \in Threads : fresh[t] = i

\* The preference recorded is the affinity of the backend in use.
PreferredInv == preferred = Affinity(kind[backend])

\* A watcher never has a generation of the future.
WatchInv == GenerationNamesBackend /\ watchGen <= generation

IInv ==
  /\ TypeOK
  /\ RebindIsCurrent
  /\ LockInv /\ CandidateInv /\ OpenInv /\ PreferredInv /\ WatchInv

-----------------------------------------------------------------------------------
LEMMA AffinityType ==
  ASSUME NEW k \in Kinds
  PROVE  Affinity(k) \in [rank : 0..2, token : Adapters \cup {NoAdapter}]
BY KindsAssumption DEF Affinity, KindRecords

LEMMA InitIInv == Init => IInv
<1> SUFFICES ASSUME Init PROVE IInv
  OBVIOUS
<1>1. OwnerType
  BY AffinityType, StartAssumption DEF Init, OwnerType, Proven
<1>2. ObjectType
  BY StartAssumption DEF Init, ObjectType
<1>3. ThreadType
  BY DEF Init, ThreadType, Places
<1>4. WatchType /\ DpiType
  BY DEF Init, WatchType, DpiType
<1>5. RebindIsCurrent /\ LockInv
  BY ThreadsAssumption DEF Init, RebindIsCurrent, LockInv, InRebind
<1>6. CandidateInv /\ OpenInv
  BY NoIdAssumption DEF Init, CandidateInv, OpenInv
<1>7. PreferredInv /\ WatchInv
  BY DEF Init, PreferredInv, WatchInv, GenerationNamesBackend
<1> QED
  BY <1>1, <1>2, <1>3, <1>4, <1>5, <1>6, <1>7 DEF IInv, TypeOK

-----------------------------------------------------------------------------------
(* Steps outside rebind: they neither change what the supervisor owns nor what is  *)
(* open, and a thread that is inside a rebind stays where it is.                   *)

LEMMA OutsideRebind ==
  ASSUME IInv, TypeOK',
         UNCHANGED <<ownerVars, kind, open, fresh>>,
         \A t \in Threads : pc[t] \in InRebind \/ pc'[t] \in InRebind
                              => pc'[t] = pc[t] /\ seen'[t] = seen[t],
         WatchInv',
         watch' # watch => \A t \in Threads : watch' # fresh[t] \/ watch' = NoId
  PROVE  IInv'
<1>1. RebindIsCurrent' /\ LockInv'
  BY DEF IInv, RebindIsCurrent, LockInv, ownerVars
<1>2. CandidateInv'
  BY DEF IInv, CandidateInv, ownerVars, InRebind, Preserves
<1>3. OpenInv' /\ PreferredInv'
  BY DEF IInv, OpenInv, PreferredInv, ownerVars
<1> QED
  BY <1>1, <1>2, <1>3 DEF IInv

LEMMA MoveType ==
  ASSUME ThreadType, NEW t \in Threads, NEW from \in Places, NEW to \in Places,
         Move(t, from, to)
  PROVE  /\ pc' \in [Threads -> Places]
         /\ \A x \in Threads : pc'[x] = IF x = t THEN to ELSE pc[x]
BY DEF ThreadType, Move

LEMMA DpiIsThread == Dpi \in Threads /\ Battery \in Threads
BY DEF Threads

-----------------------------------------------------------------------------------
(* The main thread                                                                 *)

LEMMA StartupIInv == IInv /\ Startup => IInv'
<1> SUFFICES ASSUME IInv, Startup PROVE IInv'
  OBVIOUS
<1>1. OwnerType' /\ WatchType'
  BY DEF IInv, TypeOK, OwnerType, WatchType, Startup, ownerVars, watchVars
<1>2. ObjectType'
  BY DEF IInv, TypeOK, OwnerType, ObjectType, Startup, ReconcileLighting, ownerVars
<1>3. ThreadType'
  BY DEF IInv, TypeOK, ThreadType, Startup, Places
<1>4. DpiType'
  BY DEF IInv, TypeOK, DpiType, Startup, ReconcileDpi
<1>5. WatchInv'
  BY DEF IInv, WatchInv, GenerationNamesBackend, Startup, watchVars, ownerVars
<1>6. \A t \in Threads : pc[t] \notin InRebind /\ pc'[t] \notin InRebind
  BY DEF IInv, TypeOK, ThreadType, Startup, InRebind
<1> QED
  BY <1>1, <1>2, <1>3, <1>4, <1>5, <1>6, OutsideRebind DEF TypeOK, Startup, watchVars

LEMMA MainIInv ==
  IInv /\ (CycleSet \/ CycleRecord \/ DeviceResets \/ SetShutdown) => IInv'
<1> SUFFICES ASSUME IInv, CycleSet \/ CycleRecord \/ DeviceResets \/ SetShutdown
             PROVE  IInv'
  OBVIOUS
<1>1. UNCHANGED <<ownerVars, objectVars, threadVars, watchVars>>
  BY DEF CycleSet, CycleRecord, DeviceResets, SetShutdown
<1>2. DpiType'
  BY DEF IInv, TypeOK, DpiType, CycleSet, CycleRecord, DeviceResets, SetShutdown, dpiVars
<1>3. TypeOK'
  BY <1>1, <1>2 DEF IInv, TypeOK, OwnerType, ObjectType, ThreadType, WatchType,
                    ownerVars, objectVars, threadVars, watchVars
<1>4. WatchInv'
  BY <1>1 DEF IInv, WatchInv, GenerationNamesBackend, watchVars, ownerVars
<1> QED
  BY <1>1, <1>3, <1>4, OutsideRebind DEF objectVars, threadVars, watchVars

LEMMA CloseIInv == IInv /\ Close => IInv'
<1> SUFFICES ASSUME IInv, Close PROVE IInv'
  OBVIOUS
<1>1. TypeOK'
  BY DEF IInv, TypeOK, OwnerType, ObjectType, ThreadType, WatchType, DpiType, Close,
         threadVars, watchVars, dpiVars
<1>2. RebindIsCurrent' /\ LockInv'
  BY ThreadsAssumption DEF IInv, RebindIsCurrent, LockInv, Close, LockIsFree, threadVars
<1>3. CandidateInv'
  BY DEF IInv, CandidateInv, Close, threadVars, watchVars, Preserves
<1>4. OpenInv'
  <2>1. /\ closed' /\ open' = open \ {backend}
        /\ UNCHANGED <<backend, fresh>>
    BY DEF Close, threadVars
  <2>2. \A t \in Threads, i \in Ids : fresh[t] = i => i # backend
    BY NoIdAssumption DEF IInv, CandidateInv
  <2>3. ~closed /\ OpenInv
    BY DEF Close, IInv
  <2> QED
    BY <2>1, <2>2, <2>3 DEF OpenInv
<1>5. PreferredInv' /\ WatchInv'
  BY DEF IInv, PreferredInv, WatchInv, GenerationNamesBackend, Close, watchVars
<1> QED
  BY <1>1, <1>2, <1>3, <1>4, <1>5 DEF IInv

-----------------------------------------------------------------------------------
(* The monitor threads outside rebind                                              *)

\* A thread moves outside rebind, and nobody starts or stops watching.
LEMMA MonitorMove ==
  ASSUME IInv, NEW t \in Threads, NEW from \in Places \ InRebind,
         NEW to \in Places \ InRebind, Move(t, from, to),
         UNCHANGED <<ownerVars, objectVars, fresh, watch, watchGen>>,
         \A x \in Threads : x # t => seen'[x] = seen[x],
         seen' \in [Threads -> Nat],
         force' \in [Threads -> BOOLEAN],
         report' \in Stages \cup {NoDpi}, orphan' \in BOOLEAN, DpiType'
  PROVE  IInv'
<1>1. /\ pc' \in [Threads -> Places]
      /\ \A x \in Threads : pc'[x] = IF x = t THEN to ELSE pc[x]
  BY MoveType DEF IInv, TypeOK
<1>2. OwnerType' /\ ObjectType' /\ WatchType'
  BY DEF IInv, TypeOK, OwnerType, ObjectType, WatchType, ownerVars, objectVars
<1>3. ThreadType'
  BY <1>1 DEF IInv, TypeOK, ThreadType
<1>4. WatchInv'
  BY DEF IInv, WatchInv, GenerationNamesBackend, ownerVars
<1>5. \A x \in Threads : pc[x] \in InRebind \/ pc'[x] \in InRebind
                           => pc'[x] = pc[x] /\ seen'[x] = seen[x]
  BY <1>1 DEF Move
<1> QED
  BY <1>2, <1>3, <1>4, <1>5, OutsideRebind DEF TypeOK, objectVars

LEMMA AttemptIInv ==
  ASSUME IInv, NEW t \in Threads,
         LoopEnds(t) \/ LoopHead(t) \/ WaitEnds(t) \/ RebindRefused(t)
  PROVE  IInv'
<1> USE DEF Places, InRebind
<1>1. TypeOK
  BY DEF IInv
<1>2. CASE LoopEnds(t)
  BY <1>1, <1>2, MonitorMove DEF LoopEnds, TypeOK, ThreadType, WatchType, DpiType,
                                 watchVars, dpiVars
<1>3. CASE LoopHead(t)
  <2>1. seen' \in [Threads -> Nat] /\ \A x \in Threads : x # t => seen'[x] = seen[x]
    BY <1>1, <1>3 DEF LoopHead, Captured, TypeOK, ThreadType, OwnerType
  <2>2. force' \in [Threads -> BOOLEAN]
    BY <1>1, <1>3 DEF LoopHead, TypeOK, ThreadType
  <2> QED
    BY <1>1, <1>3, <2>1, <2>2, MonitorMove DEF LoopHead, TypeOK, WatchType, DpiType,
                                               watchVars, dpiVars
<1>4. CASE WaitEnds(t)
  <2>1. PICK from \in {"resting", "paused"}, to \in {"done", "rebind", "loop"} :
               Move(t, from, to)
    BY <1>4 DEF WaitEnds, Move
  <2> QED
    BY <1>1, <1>4, <2>1, MonitorMove DEF WaitEnds, TypeOK, ThreadType, WatchType,
                                         DpiType, watchVars, dpiVars
<1>5. CASE RebindRefused(t)
  BY <1>1, <1>5, MonitorMove DEF RebindRefused, TypeOK, ThreadType, WatchType, DpiType,
                                 watchVars, dpiVars
<1> QED
  BY <1>2, <1>3, <1>4, <1>5

LEMMA WatchingIInv == IInv /\ Watching => IInv'
<1> SUFFICES ASSUME IInv, Watching PROVE IInv'
  OBVIOUS
<1> USE DEF Places, InRebind
<1>1. TypeOK /\ Dpi \in Threads
  BY DpiIsThread DEF IInv
<1>2. CASE NoMonitor
  <2>1. PICK to \in {"paused", "resting"} : Move(Dpi, "bind", to)
    BY <1>2 DEF NoMonitor
  <2> QED
    BY <1>1, <1>2, <2>1, MonitorMove
       DEF NoMonitor, TypeOK, ThreadType, WatchType, DpiType, watchVars, dpiVars
<1>3. CASE EventMonitor
  BY <1>1, <1>3, MonitorMove
     DEF EventMonitor, TypeOK, ThreadType, WatchType, DpiType, watchVars, dpiVars
<1>4. CASE ReadMonitor
  BY <1>1, <1>4, MonitorMove
     DEF ReadMonitor, TypeOK, ThreadType, WatchType, DpiType, watchVars, dpiVars
<1>5. CASE WatchRefused
  BY <1>1, <1>5, MonitorMove
     DEF WatchRefused, TypeOK, ThreadType, WatchType, DpiType, watchVars, dpiVars
<1>6. CASE \E v \in Stages : Report(v)
  <2> PICK v \in Stages : Report(v)
    BY <1>6
  <2>1. DpiType'
    BY <1>1 DEF Report, TypeOK, DpiType
  <2>2. CASE Current
    BY <1>1, <2>1, <2>2, MonitorMove DEF Report, TypeOK, ThreadType, WatchType
  <2>3. CASE ~Current
    <3>1. UNCHANGED <<ownerVars, objectVars, threadVars, watchVars>>
      BY <2>3 DEF Report, threadVars, watchVars
    <3>2. TypeOK'
      BY <1>1, <2>1, <3>1 DEF TypeOK, OwnerType, ObjectType, ThreadType, WatchType,
                              ownerVars, objectVars, threadVars, watchVars
    <3>3. WatchInv'
      BY <3>1 DEF IInv, WatchInv, GenerationNamesBackend, watchVars, ownerVars
    <3> QED
      BY <3>1, <3>2, <3>3, OutsideRebind DEF objectVars, threadVars, watchVars
  <2> QED
    BY <2>2, <2>3
<1>7. CASE Deliver
  <2>1. DpiType' /\ report' \in Stages \cup {NoDpi}
    BY <1>1, <1>7 DEF Deliver, TypeOK, DpiType, WatchType
  <2> QED
    BY <1>1, <1>7, <2>1, MonitorMove DEF Deliver, TypeOK, ThreadType, WatchType
<1>8. CASE WatchStarts
  <2>1. /\ pc' \in [Threads -> Places]
        /\ \A x \in Threads : pc'[x] = IF x = Dpi THEN "opening" ELSE pc[x]
    BY <1>1, <1>8, MoveType DEF WatchStarts, TypeOK
  <2>2. TypeOK'
    <3>1. OwnerType' /\ ObjectType'
      BY <1>1, <1>8 DEF WatchStarts, TypeOK, OwnerType, ObjectType, ownerVars, objectVars
    <3>2. ThreadType'
      BY <1>1, <1>8, <2>1 DEF WatchStarts, TypeOK, ThreadType
    <3>3. WatchType' /\ DpiType'
      BY <1>1, <1>8 DEF WatchStarts, TypeOK, OwnerType, WatchType, DpiType, dpiVars
    <3> QED
      BY <3>1, <3>2, <3>3 DEF TypeOK
  <2>3. WatchInv'
    BY <1>1, <1>8 DEF WatchStarts, WatchInv, GenerationNamesBackend, ownerVars,
                      TypeOK, OwnerType
  <2>4. \A x \in Threads : watch' # fresh[x]
    BY <1>8, NoIdAssumption, <1>1 DEF WatchStarts, IInv, CandidateInv, TypeOK, OwnerType
  <2>5. \A x \in Threads : pc[x] \in InRebind \/ pc'[x] \in InRebind
                           => pc'[x] = pc[x] /\ seen'[x] = seen[x]
    BY <1>8, <2>1 DEF WatchStarts, Move
  <2> QED
    BY <1>8, <2>2, <2>3, <2>4, <2>5, OutsideRebind DEF WatchStarts, objectVars
<1>9. CASE OpenFails \/ WatcherSeesClosed \/ WatcherFails \/ WatcherStops
  <2>1. PICK from \in {"opening", "watching"}, to \in {"paused", "loop"} :
          StopWatching(from, to)
    BY <1>9 DEF OpenFails, WatcherSeesClosed, WatcherFails, WatcherStops
  <2>2. /\ pc' \in [Threads -> Places]
        /\ \A x \in Threads : pc'[x] = IF x = Dpi THEN to ELSE pc[x]
    BY <1>1, <2>1, MoveType DEF StopWatching, TypeOK
  <2>3. TypeOK'
    <3>1. OwnerType' /\ ObjectType'
      BY <1>1, <2>1 DEF StopWatching, TypeOK, OwnerType, ObjectType, ownerVars, objectVars
    <3>2. ThreadType'
      BY <1>1, <2>1, <2>2 DEF StopWatching, TypeOK, ThreadType
    <3>3. WatchType' /\ DpiType'
      BY <1>1, <2>1 DEF StopWatching, TypeOK, WatchType, DpiType, dpiVars
    <3> QED
      BY <3>1, <3>2, <3>3 DEF TypeOK
  <2>4. WatchInv'
    BY <1>1, <2>1 DEF StopWatching, WatchInv, GenerationNamesBackend, ownerVars,
                      TypeOK, OwnerType
  <2>5. \A x \in Threads : pc[x] \in InRebind \/ pc'[x] \in InRebind
                           => pc'[x] = pc[x] /\ seen'[x] = seen[x]
    BY <2>1, <2>2 DEF StopWatching, Move
  <2> QED
    BY <2>1, <2>3, <2>4, <2>5, OutsideRebind DEF StopWatching, objectVars
<1>10. CASE WatchOpens
  <2>1. orphan' \in BOOLEAN
    BY <1>10 DEF WatchOpens
  <2> QED
    BY <1>1, <1>10, <2>1, MonitorMove DEF WatchOpens, TypeOK, ThreadType, WatchType, DpiType,
                                          dpiVars
<1> QED
  BY <1>2, <1>3, <1>4, <1>5, <1>6, <1>7, <1>8, <1>9, <1>10 DEF Watching

LEMMA BatteryIInv == IInv /\ (BatteryRead \/ BatteryFails) => IInv'
<1> SUFFICES ASSUME IInv, BatteryRead \/ BatteryFails PROVE IInv'
  OBVIOUS
<1>1. TypeOK
  BY DEF IInv
<1>2. PICK to \in {"resting", "paused"} : Move(Battery, "bind", to)
  BY DEF BatteryRead, BatteryFails
<1> QED
  BY <1>1, <1>2, DpiIsThread, MonitorMove
     DEF BatteryRead, BatteryFails, TypeOK, ThreadType, WatchType, DpiType, watchVars,
         dpiVars, Places, InRebind

-----------------------------------------------------------------------------------
(* Inside rebind                                                                   *)

\* Only the thread that holds the lock is inside rebind and has a candidate.
LEMMA OneRebinder ==
  ASSUME IInv, NEW t \in Threads, pc[t] \in InRebind
  PROVE  /\ holder = t /\ ~closed /\ seen[t] = generation
         /\ \A x \in Threads \ {t} : pc[x] \notin InRebind /\ fresh[x] = NoId
BY DEF IInv, LockInv, CandidateInv, RebindIsCurrent, InRebind

LEMMA ReleaseShape ==
  ASSUME IInv, NEW t \in Threads, NEW from \in InRebind, Release(t, from)
  PROVE  /\ pc' \in [Threads -> Places] /\ fresh' \in [Threads -> Ids \cup {NoId}]
         /\ \A x \in Threads : pc'[x] \notin InRebind /\ fresh'[x] = NoId
         /\ holder' = NoOne
<1>1. pc' \in [Threads -> Places] /\ fresh' \in [Threads -> Ids \cup {NoId}]
  BY DEF Release, Move, IInv, TypeOK, ThreadType, Places
<1>2. pc[t] \in InRebind
  BY DEF Release, Move
<1>3. pc'[t] \notin InRebind /\ fresh'[t] = NoId
  BY DEF Release, Move, IInv, TypeOK, ThreadType, InRebind
<1>4. \A x \in Threads \ {t} : pc'[x] = pc[x] /\ fresh'[x] = fresh[x]
  BY DEF Release, Move, IInv, TypeOK, ThreadType
<1> QED
  BY <1>1, <1>2, <1>3, <1>4, OneRebinder DEF Release

\* Once the lock is free again, what is left to show is about the owner's state.
LEMMA AfterRelease ==
  ASSUME IInv, NEW t \in Threads, NEW from \in InRebind, Release(t, from),
         UNCHANGED <<closed, seen, force, watchVars, dpiVars, shutdown>>,
         backend' \in Ids, generation' \in Nat, settled' \in BOOLEAN,
         pending' \in BOOLEAN,
         preferred' \in [rank : 0..2, token : Adapters \cup {NoAdapter}],
         ObjectType', PreferredInv', WatchInv',
         \A i \in Ids : i \in open' <=> i = backend'
  PROVE  IInv'
<1>1. /\ pc' \in [Threads -> Places] /\ fresh' \in [Threads -> Ids \cup {NoId}]
      /\ \A x \in Threads : pc'[x] \notin InRebind /\ fresh'[x] = NoId
      /\ holder' = NoOne
  BY ReleaseShape
<1>2. ~closed'
  BY OneRebinder DEF Release, Move
<1>3. TypeOK'
  <2>1. OwnerType'
    BY <1>1 DEF OwnerType, IInv, TypeOK
  <2>2. ThreadType'
    BY <1>1 DEF ThreadType, IInv, TypeOK
  <2>3. WatchType' /\ DpiType'
    BY DEF WatchType, DpiType, IInv, TypeOK, watchVars, dpiVars
  <2> QED
    BY <2>1, <2>2, <2>3 DEF TypeOK
<1>4. RebindIsCurrent' /\ LockInv'
  BY <1>1, ThreadsAssumption DEF RebindIsCurrent, LockInv
<1>5. CandidateInv'
  BY <1>1 DEF CandidateInv, InRebind
<1>6. OpenInv'
  BY <1>1, <1>2, NoIdAssumption DEF OpenInv
<1> QED
  BY <1>3, <1>4, <1>5, <1>6 DEF IInv

\* Leaving rebind with the old backend, the candidate, if any, closed.
LEMMA KeepBackend ==
  ASSUME IInv, NEW t \in Threads, NEW from \in InRebind, Release(t, from),
         open' = open \ {fresh[t]}, pending' \in BOOLEAN,
         UNCHANGED <<backend, generation, closed, preferred, settled, kind, lit,
                     seen, force, watchVars, dpiVars, shutdown>>
  PROVE  IInv'
<1>1. ObjectType' /\ PreferredInv' /\ WatchInv'
  BY DEF IInv, TypeOK, ObjectType, PreferredInv, WatchInv, GenerationNamesBackend, watchVars
<1>2. \A i \in Ids : i \in open' <=> i = backend'
  <2>1. ~closed /\ \A x \in Threads \ {t} : fresh[x] = NoId
    BY OneRebinder DEF Release, Move
  <2>2. fresh[t] # backend
    BY NoIdAssumption DEF IInv, CandidateInv, TypeOK, OwnerType
  <2>3. \A i \in Ids : i \in open <=> i = backend \/ fresh[t] = i
    BY <2>1, NoIdAssumption DEF IInv, OpenInv
  <2> QED
    BY <2>2, <2>3
<1> QED
  BY <1>1, <1>2, AfterRelease DEF IInv, TypeOK, OwnerType

LEMMA RebindExits ==
  ASSUME IInv, NEW t \in Threads,
         BuildFails(t) \/ Reject(t) \/ Abort(t) \/ Collapse(t)
  PROVE  IInv'
<1>1. PICK from \in InRebind : Release(t, from)
  BY DEF BuildFails, Reject, Abort, Raises, Collapse, InRebind
<1>2. open' = open \ {fresh[t]}
  <2>1. CASE BuildFails(t)
    <3>1. fresh[t] = NoId
      BY <2>1 DEF BuildFails, Release, Move, IInv, CandidateInv
    <3>2. NoId \notin open /\ open' = open
      BY <2>1, NoIdAssumption DEF BuildFails, objectVars, IInv, TypeOK, ObjectType
    <3> QED
      BY <3>1, <3>2
  <2> QED
    BY <2>1 DEF Reject, Abort, Collapse
<1>3. pending' \in BOOLEAN
  BY DEF BuildFails, Reject, Abort, Collapse, IInv, TypeOK, OwnerType
<1>4. UNCHANGED <<backend, generation, closed, preferred, settled, kind, lit,
                  seen, force, watchVars, dpiVars, shutdown>>
  BY DEF BuildFails, Reject, Abort, Collapse, objectVars
<1> QED
  BY <1>1, <1>2, <1>3, <1>4, KeepBackend

LEMMA InstallIInv == ASSUME IInv, NEW t \in Threads, Install(t) PROVE IInv'
<1>1. Release(t, "prepare") /\ "prepare" \in InRebind /\ pc[t] = "prepare"
  BY DEF Install, InRebind
<1>2. /\ ~closed /\ fresh[t] \in Ids /\ fresh[t] # backend /\ fresh[t] # watch
      /\ Preserves(kind[fresh[t]])
      /\ \A x \in Threads \ {t} : fresh[x] = NoId
  BY <1>1, OneRebinder DEF IInv, CandidateInv, TypeOK, ThreadType
<1>3. Affinity(kind[fresh[t]]) \in [rank : 0..2, token : Adapters \cup {NoAdapter}]
  BY <1>2, AffinityType DEF IInv, TypeOK, ObjectType
<1>4. /\ backend' \in Ids /\ generation' \in Nat
      /\ settled' \in BOOLEAN /\ pending' \in BOOLEAN
      /\ preferred' \in [rank : 0..2, token : Adapters \cup {NoAdapter}]
  <2>1. backend' \in Ids /\ generation' \in Nat
    BY <1>2 DEF Install, IInv, TypeOK, OwnerType
  <2>2. Proven(kind[fresh[t]]) \in BOOLEAN
    BY DEF Proven
  <2>3. settled \in BOOLEAN /\ pending \in BOOLEAN
    BY DEF IInv, TypeOK, OwnerType
  <2>4. settled' \in BOOLEAN /\ pending' \in BOOLEAN
    BY <2>2, <2>3, Zenon DEF Install
  <2>5. preferred' \in [rank : 0..2, token : Adapters \cup {NoAdapter}]
    BY <1>3 DEF Install, IInv, TypeOK, OwnerType
  <2> QED
    BY <2>1, <2>4, <2>5
<1>5. ObjectType'
  BY DEF Install, Retired, IInv, TypeOK, ObjectType
<1>6. PreferredInv'
  <2>1. /\ backend' = fresh[t] /\ kind' = kind
        /\ preferred' = IF Affinity(kind[fresh[t]]).rank > preferred.rank
                          THEN Affinity(kind[fresh[t]]) ELSE preferred
    BY DEF Install
  <2>2. CASE Affinity(kind[fresh[t]]).rank > preferred.rank
    BY <2>1, <2>2 DEF PreferredInv
  <2>3. CASE ~(Affinity(kind[fresh[t]]).rank > preferred.rank)
    <3>1. Affinity(kind[fresh[t]]) = preferred
      <4>1. preferred = Affinity(kind[backend]) /\ kind[backend] \in Kinds
        BY DEF IInv, PreferredInv, TypeOK, OwnerType, ObjectType
      <4>2. preferred \in [rank : 0..2, token : Adapters \cup {NoAdapter}]
        BY DEF IInv, TypeOK, OwnerType
      <4>3. Affinity(kind[fresh[t]]).rank = preferred.rank
        BY <1>2, <1>3, <2>3, <4>2 DEF Preserves
      <4>4. preferred.rank # 2 => preferred.token = NoAdapter
        BY <4>1 DEF Affinity
      <4>5. Affinity(kind[fresh[t]]).rank # 2
              => Affinity(kind[fresh[t]]).token = NoAdapter
        BY DEF Affinity
      <4>6. Affinity(kind[fresh[t]]).token = preferred.token
        BY <1>2, <4>3, <4>4, <4>5 DEF Preserves
      <4> QED
        BY <1>3, <4>2, <4>3, <4>6
    <3> QED
      BY <2>1, <2>3, <3>1 DEF PreferredInv
  <2> QED
    BY <2>2, <2>3
<1>7. WatchInv'
  <2>1. backend' = fresh[t] /\ generation' = generation + 1 /\ UNCHANGED watchVars
    BY DEF Install
  <2> QED
    BY <1>2, <2>1 DEF IInv, WatchInv, GenerationNamesBackend, watchVars, TypeOK,
                      OwnerType, WatchType
<1>8. \A i \in Ids : i \in open' <=> i = backend'
  <2>1. \A i \in Ids : i \in open <=> i = backend \/ fresh[t] = i
    BY <1>2, NoIdAssumption DEF IInv, OpenInv
  <2> QED
    BY <1>2, <2>1 DEF Install, Retired
<1>9. UNCHANGED <<closed, seen, force, watchVars, dpiVars, shutdown>>
  BY DEF Install
<1> QED
  BY <1>1, <1>4, <1>5, <1>6, <1>7, <1>8, <1>9, AfterRelease

LEMMA RebindBeginsIInv == ASSUME IInv, NEW t \in Threads, RebindBegins(t) PROVE IInv'
<1>1. /\ pc' \in [Threads -> Places]
      /\ \A x \in Threads : pc'[x] = IF x = t THEN "build" ELSE pc[x]
  BY MoveType DEF RebindBegins, IInv, TypeOK, Places
<1>2. /\ pc[t] = "rebind" /\ holder = NoOne /\ holder' = t
      /\ ~closed /\ seen[t] = generation
      /\ UNCHANGED <<backend, generation, closed, preferred, settled, pending,
                     objectVars, seen, force, fresh, watchVars, dpiVars, shutdown>>
  BY DEF RebindBegins, Move, LockIsFree, Stale
<1>3. TypeOK'
  <2>1. OwnerType' /\ ObjectType'
    BY <1>2 DEF IInv, TypeOK, OwnerType, ObjectType, objectVars
  <2>2. ThreadType'
    BY <1>1, <1>2 DEF IInv, TypeOK, ThreadType
  <2>3. WatchType' /\ DpiType'
    BY <1>2 DEF IInv, TypeOK, WatchType, DpiType, watchVars, dpiVars
  <2> QED
    BY <2>1, <2>2, <2>3 DEF TypeOK
<1>4. RebindIsCurrent'
  BY <1>2 DEF RebindIsCurrent
<1>5. LockInv'
  BY <1>1, <1>2, ThreadsAssumption DEF IInv, LockInv, InRebind
<1>6. CandidateInv'
  BY <1>1, <1>2 DEF IInv, CandidateInv, objectVars, watchVars, Preserves
<1>7. OpenInv' /\ PreferredInv' /\ WatchInv'
  BY <1>2 DEF IInv, OpenInv, PreferredInv, WatchInv, GenerationNamesBackend, objectVars,
              watchVars
<1> QED
  BY <1>3, <1>4, <1>5, <1>6, <1>7 DEF IInv

\* A step of the lock's holder from one place inside rebind to another.
LEMMA InsideRebind ==
  ASSUME IInv, NEW t \in Threads, NEW from \in InRebind, NEW to \in InRebind,
         Move(t, from, to), UNCHANGED <<ownerVars, seen>>
  PROVE  /\ pc' \in [Threads -> Places]
         /\ \A x \in Threads : pc'[x] = IF x = t THEN to ELSE pc[x]
         /\ RebindIsCurrent' /\ LockInv'
<1>1. /\ pc' \in [Threads -> Places]
      /\ \A x \in Threads : pc'[x] = IF x = t THEN to ELSE pc[x]
  BY MoveType DEF IInv, TypeOK, Places, InRebind
<1>2. RebindIsCurrent'
  BY DEF IInv, RebindIsCurrent, ownerVars
<1>3. LockInv'
  BY <1>1 DEF IInv, LockInv, Move, ownerVars
<1> QED
  BY <1>1, <1>2, <1>3

LEMMA BuildIInv == ASSUME IInv, NEW t \in Threads, Build(t) PROVE IInv'
<1>1. PICK i \in Free, k \in Kinds :
        /\ fresh' = [fresh EXCEPT ![t] = i]
        /\ kind' = [kind EXCEPT ![i] = k]
        /\ open' = open \cup {i}
  BY DEF Build
<1>2. /\ Move(t, "build", "admit")
      /\ UNCHANGED <<ownerVars, lit, seen, force, watchVars, dpiVars, shutdown>>
  BY DEF Build
<1>3. /\ i \in Ids /\ i # backend /\ i # watch /\ i \notin open
      /\ \A x \in Threads : fresh[x] # i
  BY DEF Free
<1>4. /\ pc' \in [Threads -> Places]
      /\ \A x \in Threads : pc'[x] = IF x = t THEN "admit" ELSE pc[x]
      /\ RebindIsCurrent' /\ LockInv'
  BY <1>2, InsideRebind DEF InRebind
<1>5. /\ fresh' \in [Threads -> Ids \cup {NoId}]
      /\ \A x \in Threads : fresh'[x] = IF x = t THEN i ELSE fresh[x]
  BY <1>1, <1>3 DEF IInv, TypeOK, ThreadType
<1>6. ObjectType' /\ \A j \in Ids \ {i} : kind'[j] = kind[j]
  BY <1>1, <1>2, <1>3 DEF IInv, TypeOK, ObjectType
<1>7. TypeOK'
  <2>1. OwnerType'
    BY <1>2 DEF IInv, TypeOK, OwnerType, ownerVars
  <2>2. ThreadType'
    BY <1>2, <1>4, <1>5 DEF IInv, TypeOK, ThreadType
  <2>3. WatchType' /\ DpiType'
    BY <1>2 DEF IInv, TypeOK, WatchType, DpiType, watchVars, dpiVars
  <2> QED
    BY <1>6, <2>1, <2>2, <2>3 DEF TypeOK
<1>8. CandidateInv'
  <2>1. \A x \in Threads \ {t} : fresh[x] = NoId /\ pc[x] \notin InRebind
    BY <1>2, OneRebinder DEF Move, InRebind
  <2> QED
    BY <1>2, <1>3, <1>4, <1>5, <2>1, NoIdAssumption
       DEF CandidateInv, InRebind, ownerVars, watchVars
<1>9. OpenInv'
  <2>1. fresh[t] = NoId
    BY <1>2 DEF IInv, CandidateInv, Move
  <2> QED
    BY <1>1, <1>2, <1>3, <1>5, <2>1, NoIdAssumption DEF IInv, OpenInv, ownerVars
<1>10. PreferredInv' /\ WatchInv'
  BY <1>2, <1>3, <1>6 DEF IInv, PreferredInv, WatchInv, GenerationNamesBackend, TypeOK,
                          OwnerType, ownerVars, watchVars
<1> QED
  BY <1>4, <1>7, <1>8, <1>9, <1>10 DEF IInv

LEMMA AdmitIInv == ASSUME IInv, NEW t \in Threads, Admit(t) PROVE IInv'
<1>1. /\ Move(t, "admit", "prepare") /\ Preserves(kind[fresh[t]])
      /\ UNCHANGED <<ownerVars, kind, open, seen, force, fresh, watchVars,
                     desired, cycle, shutdown>>
  BY DEF Admit
<1>2. /\ pc' \in [Threads -> Places]
      /\ \A x \in Threads : pc'[x] = IF x = t THEN "prepare" ELSE pc[x]
      /\ RebindIsCurrent' /\ LockInv'
  BY <1>1, InsideRebind DEF InRebind
<1>3. TypeOK'
  <2>1. OwnerType' /\ WatchType'
    BY <1>1 DEF IInv, TypeOK, OwnerType, WatchType, ownerVars, watchVars
  <2>2. ObjectType'
    <3>1. fresh[t] \in Ids
      BY <1>1 DEF IInv, CandidateInv, Move, TypeOK, ThreadType
    <3> QED
      BY <1>1, <3>1 DEF Admit, ReconcileLighting, IInv, TypeOK, ObjectType
  <2>3. ThreadType'
    BY <1>1, <1>2 DEF IInv, TypeOK, ThreadType
  <2>4. DpiType'
    BY <1>1 DEF Admit, ReconcileDpi, IInv, TypeOK, DpiType
  <2> QED
    BY <2>1, <2>2, <2>3, <2>4 DEF TypeOK
<1>4. CandidateInv'
  BY <1>1, <1>2 DEF IInv, CandidateInv, Move, ownerVars, watchVars, Preserves
<1>5. OpenInv' /\ PreferredInv' /\ WatchInv'
  BY <1>1 DEF IInv, OpenInv, PreferredInv, WatchInv, GenerationNamesBackend, ownerVars,
              watchVars
<1> QED
  BY <1>2, <1>3, <1>4, <1>5 DEF IInv

-----------------------------------------------------------------------------------
(* The theorems                                                                    *)

LEMMA NextIInv == IInv /\ [Next]_vars => IInv'
<1> SUFFICES ASSUME IInv, [Next]_vars PROVE IInv'
  OBVIOUS
<1>1. CASE MainSteps
  BY <1>1, StartupIInv, MainIInv, CloseIInv DEF MainSteps
<1>2. CASE Watching
  BY <1>2, WatchingIInv
<1>3. CASE BatteryRead \/ BatteryFails
  BY <1>3, BatteryIInv
<1>4. ASSUME NEW t \in Threads, Monitor(t) PROVE IInv'
  BY <1>4, AttemptIInv, RebindBeginsIInv, RebindExits, BuildIInv, AdmitIInv, InstallIInv
     DEF Monitor, Rebind
<1>5. CASE Terminated \/ UNCHANGED vars
  <2>1. UNCHANGED vars
    BY <1>5 DEF Terminated
  <2>2. TypeOK'
    BY <2>1 DEF IInv, TypeOK, OwnerType, ObjectType, ThreadType, WatchType, DpiType, vars,
                ownerVars, objectVars, threadVars, watchVars, dpiVars
  <2>3. WatchInv'
    BY <2>1 DEF IInv, WatchInv, GenerationNamesBackend, vars, ownerVars, watchVars
  <2> QED
    BY <2>1, <2>2, <2>3, OutsideRebind DEF vars, objectVars, threadVars, watchVars
<1> QED
  BY <1>1, <1>2, <1>3, <1>4, <1>5 DEF Next

THEOREM SupervisorInvariant == Spec => []IInv
BY InitIInv, NextIInv, PTL DEF Spec

\* Every variable has its type.
THEOREM SupervisorType == Spec => []TypeOK
BY SupervisorInvariant, PTL DEF IInv

\* Two consumers of one failure do not replace the backend twice.
THEOREM SupervisorRebindIsCurrent == Spec => []RebindIsCurrent
BY SupervisorInvariant, PTL DEF IInv

\* The test of a watcher's callback tells a retired watcher from the current one.
THEOREM SupervisorGenerationNamesBackend == Spec => []GenerationNamesBackend
BY SupervisorInvariant, PTL DEF IInv, WatchInv

LEMMA LiveBackendFollows == IInv => OneLiveBackend
<1> SUFFICES ASSUME IInv, LockIsFree PROVE open = IF closed THEN {} ELSE {backend}
  BY DEF OneLiveBackend
<1>1. \A t \in Threads : fresh[t] = NoId
  BY ThreadsAssumption DEF IInv, LockInv, CandidateInv, LockIsFree, InRebind
<1>2. open \subseteq Ids /\ backend \in Ids
  BY DEF IInv, TypeOK, OwnerType, ObjectType
<1>3. \A i \in Ids : i \in open <=> i = backend /\ ~closed
  BY <1>1, NoIdAssumption DEF IInv, OpenInv
<1> QED
  BY <1>2, <1>3

\* No path through rebind or close leaks a backend or closes the wrong one.
THEOREM SupervisorOneLiveBackend == Spec => []OneLiveBackend
BY SupervisorInvariant, LiveBackendFollows, PTL

LEMMA StepKeepsAdapter ==
  ASSUME IInv, [Next]_vars
  PROVE  /\ Affinity(kind'[backend']).rank >= Affinity(kind[backend]).rank
         /\ Affinity(kind[backend]).rank = 2
              => Affinity(kind'[backend']) = Affinity(kind[backend])
<1>1. Affinity(kind[backend]) \in [rank : 0..2, token : Adapters \cup {NoAdapter}]
  BY AffinityType DEF IInv, TypeOK, OwnerType, ObjectType
<1>2. CASE \E t \in Threads : Install(t)
  <2> PICK t \in Threads : Install(t)
    BY <1>2
  <2>1. /\ Affinity(kind'[backend']) = Affinity(kind[fresh[t]])
        /\ Preserves(kind[fresh[t]]) /\ fresh[t] \in Ids
    BY DEF Install, IInv, CandidateInv, TypeOK, ThreadType
  <2>2. Affinity(kind[fresh[t]]) \in [rank : 0..2, token : Adapters \cup {NoAdapter}]
    BY <2>1, AffinityType DEF IInv, TypeOK, ObjectType
  <2>3. preferred = Affinity(kind[backend])
    BY DEF IInv, PreferredInv
  <2> QED
    BY <1>1, <2>1, <2>2, <2>3 DEF Preserves
<1>3. CASE ~\E t \in Threads : Install(t)
  <2>1. backend' = backend /\ kind'[backend] = kind[backend]
    <3>1. CASE \E t \in Threads : Build(t)
      BY <3>1 DEF Build, Free, ownerVars, IInv, TypeOK, ObjectType, OwnerType
    <3>2. CASE ~\E t \in Threads : Build(t)
      BY <1>3, <3>2
         DEF Next, MainSteps, Startup, CycleSet, CycleRecord, DeviceResets, SetShutdown,
             Close, Watching, NoMonitor, EventMonitor, ReadMonitor, WatchStarts,
             WatchRefused, Report, Deliver, WatchOpens, OpenFails, WatcherSeesClosed, WatcherFails,
             WatcherStops,
             StopWatching, BatteryRead, BatteryFails, Monitor, LoopEnds, LoopHead,
             WaitEnds, Rebind, RebindRefused, RebindBegins, BuildFails, Reject, Admit,
             Abort, Collapse, Terminated, vars, ownerVars, objectVars
    <3> QED
      BY <3>1, <3>2
  <2> QED
    BY <1>1, <2>1
<1> QED
  BY <1>2, <1>3

LEMMA StepIsCurrent ==
  ASSUME IInv, [Next]_vars, backend' # backend
  PROVE  \E t \in Threads : holder = t /\ seen[t] = generation /\ ~closed
<1>1. PICK t \in Threads : Install(t)
  BY DEF Next, MainSteps, Startup, CycleSet, CycleRecord, DeviceResets, SetShutdown,
         Close, Watching, NoMonitor, EventMonitor, ReadMonitor, WatchStarts,
         WatchRefused, Report, Deliver, WatchOpens, OpenFails, WatcherSeesClosed,
         WatcherFails, WatcherStops, StopWatching, BatteryRead, BatteryFails, Monitor,
         LoopEnds, LoopHead, WaitEnds, Rebind, RebindRefused, RebindBegins, BuildFails,
         Build, Reject, Admit, Abort, Collapse, Terminated, vars, ownerVars, objectVars
<1>2. holder = t
  BY <1>1 DEF IInv, LockInv, Install, InRebind
<1> QED
  BY <1>2 DEF IInv, RebindIsCurrent

\* The backend is replaced by a thread that saw this very backend fail, never after
\* close(), and never by a weaker adapter or another native one.
THEOREM SupervisorReplacementIsDue == Spec => ReplacementIsDue
<1>1. IInv /\ [Next]_vars =>
        [ LET old == Affinity(kind[backend])
              new == Affinity(kind'[backend'])
          IN /\ backend' # backend => \E t \in Threads :
                                        holder = t /\ seen[t] = generation /\ ~closed
             /\ new.rank >= old.rank
             /\ old.rank = 2 => new = old ]_vars
  BY StepKeepsAdapter, StepIsCurrent
<1> QED
  BY <1>1, SupervisorInvariant, PTL DEF Spec, ReplacementIsDue
================================================================================
