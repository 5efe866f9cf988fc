---------------------------- MODULE DpiEventsProofs ----------------------------
(* For every set of stages and sources and any bounds: the variables keep their  *)
(* types, a descriptor watcher never shows the first report of a backend that has *)
(* replaced another, and a tracked mouse that has been heard has its DPI shown.       *)
EXTENDS DpiEvents, TLAPS

Handling == place \in {"check", "handle", "notify"}

\* A thread that handles a state or writes a stage has one.
InHand ==
  /\ Handling => state \in States
  /\ step # "idle" => target \in Stages

\* A replacement leaves RESYNC only after it has heard something.
LiveIsObserved == generation > 0 /\ phase = "LIVE" => observed

\* While a descriptor watcher decodes the first report, its generation is in RESYNC.
FirstInResync == ~source.shared /\ first => heard # NoDpi /\ phase = "RESYNC"

\* It queues nothing, and marks the state of the first report as a resync.
FirstIsResync ==
  /\ ~source.shared => pending = <<>>
  /\ ~source.shared /\ Handling /\ state.first => state.resync /\ place # "notify"

IInv == TypeOK /\ InHand /\ LiveIsObserved /\ FirstInResync /\ FirstIsResync

LEMMA SilentFollows == IInv => ReplacementIsSilent
  BY DEF IInv, FirstIsResync, Handling, ReplacementIsSilent

LEMMA NothingSent == <<>> \in Seq(Stages) /\ <<>> \in Seq(States)
  OBVIOUS

\* What the DPI button and an echo leave on the wire.
LEMMA SendsType ==
  ASSUME TypeOK, NEW v \in Stages, Sends(v)
  PROVE  wire' \in Seq(Stages)
  BY DEF TypeOK, Sends

LEMMA DecodedType ==
  ASSUME TypeOK, heard # NoDpi
  PROVE  heard \in Stages /\ Decoded(heard) \in States
  BY DEF TypeOK, MaybeDpi, Decoded, States

-----------------------------------------------------------------------------------
(* The types                                                                       *)

LEMMA MouseType == TypeOK /\ InHand /\ Mouse => TypeOK'
<1> SUFFICES ASSUME TypeOK, InHand, Mouse PROVE TypeOK'
  OBVIOUS
<1> USE DEF vars, deviceVars, readVars, backendVars, watchVars, cycleVars, shownVars
<1>1. CASE \E v \in Stages : Press(v)
  <2> PICK v \in Stages : Press(v)
    BY <1>1
  <2> QED
    BY SendsType DEF Press, TypeOK
<1>2. CASE Repeat
  <2>1. hw \in Stages
    BY DEF TypeOK
  <2> QED
    BY <1>2, <2>1, SendsType DEF Repeat, TypeOK
<1>3. CASE Disconnect
  <2>1. /\ hw' \in Stages /\ reading' = FALSE /\ wire' = <<>> /\ heard' = NoDpi
        /\ first' = FALSE
        /\ UNCHANGED <<source, backendVars, watchVars, cycleVars, desired, shownVars>>
    BY <1>3 DEF Disconnect
  <2>2. wire' \in Seq(Stages) /\ heard' \in MaybeDpi
    BY <2>1, NothingSent DEF MaybeDpi
  <2> QED
    BY <2>1, <2>2 DEF TypeOK
<1> QED
  BY <1>1, <1>2, <1>3 DEF Mouse

LEMMA ReaderType == TypeOK /\ InHand /\ Reader => TypeOK'
<1> SUFFICES ASSUME TypeOK, InHand, Reader PROVE TypeOK'
  OBVIOUS
<1> USE DEF vars, deviceVars, readVars, backendVars, watchVars, cycleVars, shownVars
<1>1. CASE Receive
  <2>1. heard' \in MaybeDpi /\ wire' \in Seq(Stages)
    BY <1>1 DEF Receive, TypeOK, MaybeDpi
  <2> QED
    BY <1>1, <2>1 DEF Receive, TypeOK
<1>2. CASE Decode
  <2>1. heard \in Stages /\ Decoded(heard) \in States
    BY <1>2, DecodedType DEF Decode
  <2>2. /\ heard' = NoDpi /\ first' = FALSE
        /\ UNCHANGED <<deviceVars, wire, reading, phase, observed, generation, watched,
                       cycleVars, desired, shownVars>>
    BY <1>2 DEF Decode
  <2>3. CASE heard = Baseline
    BY ZenonT(40), <1>2, <2>2, <2>3 DEF Decode, TypeOK, MaybeDpi
  <2>4. CASE heard # Baseline
    <3>1. tracked' \in MaybeDpi /\ lastDpi' \in MaybeDpi
      BY <1>2, <2>1, <2>4 DEF Decode, TypeOK, MaybeDpi
    <3>2. /\ pending' \in Seq(States)
          /\ place' \in {"unbound", "waiting", "check", "handle", "notify", "failed"}
          /\ state' \in States \cup {NoState}
      BY <1>2, <2>1, <2>4 DEF Decode, TypeOK
    <3> QED
      BY <2>2, <3>1, <3>2 DEF TypeOK, MaybeDpi
  <2> QED
    BY <2>3, <2>4
<1> QED
  BY <1>1, <1>2 DEF Reader

LEMMA NewGenerationType ==
  ASSUME TypeOK, NewGeneration, PrepareRebind
  PROVE  /\ generation' \in Nat /\ reading' \in BOOLEAN /\ wire' \in Seq(Stages)
         /\ heard' \in MaybeDpi /\ first' \in BOOLEAN /\ pending' \in Seq(States)
         /\ hw' \in Stages /\ lastDpi' \in MaybeDpi /\ tracked' \in MaybeDpi
         /\ phase' \in {"LIVE", "RESYNC"} /\ observed' \in BOOLEAN
<1>1. generation' \in Nat
  BY DEF TypeOK, NewGeneration
<1>2. wire' \in Seq(Stages) /\ pending' \in Seq(States)
  BY NothingSent DEF NewGeneration
<1>3. hw' \in Stages /\ lastDpi' \in MaybeDpi
  BY DEF TypeOK, NewGeneration, MaybeDpi
<1> QED
  BY <1>1, <1>2, <1>3 DEF NewGeneration, PrepareRebind, MaybeDpi

LEMMA WatcherType == TypeOK /\ InHand /\ Watcher => TypeOK'
<1> SUFFICES ASSUME TypeOK, InHand, Watcher PROVE TypeOK'
  OBVIOUS
<1> USE DEF vars, deviceVars, readVars, backendVars, watchVars, cycleVars, shownVars
<1>1. CASE WatchBegins
  BY <1>1, NothingSent DEF WatchBegins, TypeOK, MaybeDpi
<1>2. CASE WatchRefused \/ Idle \/ Check \/ WatchEnds \/ RebindRefused \/ RebindFails
  BY ZenonT(40), <1>2, NothingSent DEF WatchRefused, Idle, Check, WatchEnds, RebindRefused,
                           RebindFails, TypeOK
<1>3. CASE Take
  <2>1. state' \in States /\ pending' \in Seq(States)
    BY <1>3 DEF Take, TypeOK
  <2> QED
    BY <1>3, <2>1 DEF Take, TypeOK
<1>4. CASE Resync \/ Observe \/ Notify
  <2>1. state \in States
    BY <1>4 DEF InHand, Handling, Resync, Observe, Notify
  <2> QED
    BY ZenonT(40), <1>4, <2>1 DEF Resync, Observe, Notify, TypeOK, States, MaybeDpi
<1>5. CASE Rebind
  <2>1. NewGeneration /\ PrepareRebind /\ place' = "unbound"
        /\ UNCHANGED <<source, watched, state, cycleVars, desired, shownVars>>
    BY <1>5 DEF Rebind
  <2> QED
    BY <2>1, NewGenerationType DEF TypeOK
<1> QED
  BY <1>1, <1>2, <1>3, <1>4, <1>5 DEF Watcher
LEMMA BatteryType ==
  TypeOK /\ (BatteryCollapses \/ BatteryRebinds \/ ContinuityLost) => TypeOK'
<1> SUFFICES ASSUME TypeOK, BatteryCollapses \/ BatteryRebinds \/ ContinuityLost
             PROVE TypeOK'
  OBVIOUS
<1> USE DEF vars, deviceVars, readVars, backendVars, watchVars, cycleVars, shownVars
<1>1. CASE BatteryCollapses
  <2>1. desired \in Stages
    BY DEF TypeOK
  <2> QED
    BY <1>1, <2>1, SendsType DEF BatteryCollapses, TypeOK
<1>2. CASE BatteryRebinds
  <2>1. /\ NewGeneration /\ PrepareRebind
        /\ UNCHANGED <<source, watched, place, state, cycleVars, desired, shownVars>>
    BY <1>2 DEF BatteryRebinds
  <2> QED
    BY <2>1, NewGenerationType DEF TypeOK
<1>3. CASE ContinuityLost
  BY <1>3 DEF ContinuityLost, TypeOK, MaybeDpi
<1> QED
  BY <1>1, <1>2, <1>3

LEMMA CyclerType == TypeOK /\ InHand /\ Cycler => TypeOK'
<1> SUFFICES ASSUME TypeOK, InHand, Cycler PROVE TypeOK'
  OBVIOUS
<1> USE DEF vars, deviceVars, readVars, backendVars, watchVars, cycleVars, shownVars
<1>1. CASE CycleBegins
  BY <1>1 DEF CycleBegins, TypeOK, MaybeDpi
<1>2. CASE CycleWrites
  <2>1. target \in Stages
    BY <1>2 DEF CycleWrites, InHand
  <2> QED
    BY <1>2, <2>1, SendsType DEF CycleWrites, TypeOK
<1>3. CASE CycleConfirms \/ CycleRecords \/ CycleAnnounces
  <2>1. target \in Stages
    BY <1>3 DEF CycleConfirms, CycleRecords, CycleAnnounces, InHand
  <2> QED
    BY ZenonT(40), <1>3, <2>1 DEF CycleConfirms, CycleRecords, CycleAnnounces, TypeOK, MaybeDpi
<1>4. CASE CycleFails
  <2>1. reading' \in BOOLEAN /\ wire' \in Seq(Stages) /\ heard' \in MaybeDpi
        /\ first' \in BOOLEAN
    BY <1>4, NothingSent DEF CycleFails, TypeOK, MaybeDpi
  <2> QED
    BY <1>4, <2>1 DEF CycleFails, TypeOK, MaybeDpi
<1> QED
  BY <1>1, <1>2, <1>3, <1>4 DEF Cycler

-----------------------------------------------------------------------------------
(* The rest of the invariant                                                       *)

LEMMA InHandNext == TypeOK /\ InHand /\ Next => InHand'
<1> SUFFICES ASSUME TypeOK, InHand, Next PROVE InHand'
  OBVIOUS
<1> USE DEF vars, deviceVars, readVars, backendVars, watchVars, cycleVars, shownVars,
            InHand, Handling
<1>1. CASE Mouse \/ BatteryCollapses \/ BatteryRebinds \/ ContinuityLost
  BY <1>1 DEF Mouse, Press, Repeat, Disconnect, BatteryCollapses, BatteryRebinds,
              ContinuityLost
<1>2. CASE Receive
  BY <1>2 DEF Receive
<1>3. CASE Decode
  <2>1. heard \in Stages /\ Decoded(heard) \in States
    BY <1>3, DecodedType DEF Decode
  <2> QED
    BY <1>3, <2>1 DEF Decode
<1>4. CASE Take
  <2>1. state' \in States
    BY <1>4 DEF Take, TypeOK
  <2> QED
    BY <1>4, <2>1 DEF Take
<1>5. CASE Watcher /\ ~Take
  BY <1>5 DEF Watcher, WatchBegins, WatchRefused, Idle, Check, Resync, Observe, Notify,
              WatchEnds, Rebind, RebindRefused, RebindFails
<1>6. CASE Cycler
  BY <1>6 DEF Cycler, CycleBegins, CycleWrites, CycleConfirms, CycleFails, CycleRecords,
              CycleAnnounces
<1> QED
  BY <1>1, <1>2, <1>3, <1>4, <1>5, <1>6 DEF Next, Reader

LEMMA LiveIsObservedNext == TypeOK /\ LiveIsObserved /\ Next => LiveIsObserved'
<1> SUFFICES ASSUME TypeOK, LiveIsObserved, Next PROVE LiveIsObserved'
  OBVIOUS
<1> USE DEF vars, deviceVars, readVars, backendVars, watchVars, cycleVars, shownVars,
            LiveIsObserved
<1>1. CASE BatteryRebinds \/ Rebind
  BY <1>1 DEF BatteryRebinds, Rebind, PrepareRebind
<1>2. CASE Mouse \/ BatteryCollapses \/ ContinuityLost
  BY <1>2 DEF Mouse, Press, Repeat, Disconnect, BatteryCollapses, ContinuityLost
<1>3. CASE Reader
  BY <1>3 DEF Reader, Receive, Decode
<1>4. CASE Watcher /\ ~Rebind
  BY <1>4 DEF Watcher, WatchBegins, WatchRefused, Idle, Take, Check, Resync, Observe,
              Notify, WatchEnds, RebindRefused, RebindFails
<1>5. CASE Cycler
  BY <1>5 DEF Cycler, CycleBegins, CycleWrites, CycleConfirms, CycleFails, CycleRecords,
              CycleAnnounces
<1> QED
  BY <1>1, <1>2, <1>3, <1>4, <1>5 DEF Next

LEMMA FirstInResyncNext ==
  TypeOK /\ LiveIsObserved /\ FirstInResync /\ Next => FirstInResync'
<1> SUFFICES ASSUME TypeOK, LiveIsObserved, FirstInResync, Next PROVE FirstInResync'
  OBVIOUS
<1> USE DEF vars, deviceVars, readVars, backendVars, watchVars, cycleVars, shownVars,
            FirstInResync
<1>1. CASE BatteryRebinds \/ Rebind
  BY <1>1 DEF BatteryRebinds, Rebind, NewGeneration
<1>2. CASE Mouse \/ BatteryCollapses \/ ContinuityLost
  BY <1>2 DEF Mouse, Press, Repeat, Disconnect, BatteryCollapses, ContinuityLost
<1>3. CASE Receive
  <2>1. heard' # NoDpi
    BY <1>3, StagesAssumption DEF Receive, TypeOK
  <2>2. first' => phase = "RESYNC"
    BY <1>3 DEF Receive, LiveIsObserved, TypeOK
  <2> QED
    BY <1>3, <2>1, <2>2 DEF Receive
<1>4. CASE Decode
  BY <1>4 DEF Decode
<1>5. CASE Watcher /\ ~Rebind
  BY <1>5 DEF Watcher, WatchBegins, WatchRefused, Idle, Take, Check, Resync, Observe,
              Notify, WatchEnds, RebindRefused, RebindFails
<1>6. CASE Cycler
  BY <1>6 DEF Cycler, CycleBegins, CycleWrites, CycleConfirms, CycleFails, CycleRecords,
              CycleAnnounces
<1> QED
  BY <1>1, <1>2, <1>3, <1>4, <1>5, <1>6 DEF Next, Reader

LEMMA FirstIsResyncNext ==
  TypeOK /\ FirstInResync /\ FirstIsResync /\ Next => FirstIsResync'
<1> SUFFICES ASSUME TypeOK, FirstInResync, FirstIsResync, Next PROVE FirstIsResync'
  OBVIOUS
<1> USE DEF vars, deviceVars, readVars, backendVars, watchVars, cycleVars, shownVars,
            FirstIsResync, Handling
<1>1. CASE BatteryRebinds \/ Rebind
  BY <1>1 DEF BatteryRebinds, Rebind, NewGeneration
<1>2. CASE Mouse \/ BatteryCollapses \/ ContinuityLost
  BY <1>2 DEF Mouse, Press, Repeat, Disconnect, BatteryCollapses, ContinuityLost
<1>3. CASE Receive
  BY <1>3 DEF Receive
<1>4. CASE Decode
  <2>1. Decoded(heard).first = first /\ Decoded(heard).resync = (phase = "RESYNC")
    BY DEF Decoded
  <2> QED
    BY <1>4, <2>1 DEF Decode, FirstInResync
<1>5. CASE Watcher /\ ~Rebind
  BY <1>5 DEF Watcher, WatchBegins, WatchRefused, Idle, Take, Check, Resync, Observe,
              Notify, WatchEnds, RebindRefused, RebindFails, NoState
<1>6. CASE Cycler
  BY <1>6 DEF Cycler, CycleBegins, CycleWrites, CycleConfirms, CycleFails, CycleRecords,
              CycleAnnounces
<1> QED
  BY <1>1, <1>2, <1>3, <1>4, <1>5, <1>6 DEF Next, Reader

LEMMA InitIInv == Init => IInv
<1> SUFFICES ASSUME Init PROVE IInv
  OBVIOUS
<1>1. wire \in Seq(Stages) /\ pending \in Seq(States)
  BY NothingSent DEF Init
<1>2. TypeOK
  BY <1>1 DEF Init, TypeOK, MaybeDpi
<1>3. InHand /\ LiveIsObserved /\ FirstInResync /\ FirstIsResync
  BY DEF Init, InHand, LiveIsObserved, FirstInResync, FirstIsResync, Handling
<1> QED
  BY <1>2, <1>3 DEF IInv

LEMMA NextIInv == IInv /\ [Next]_vars => IInv'
<1> SUFFICES ASSUME IInv, [Next]_vars PROVE IInv'
  OBVIOUS
<1>1. CASE Next
  <2>1. TypeOK'
    BY <1>1, MouseType, ReaderType, WatcherType, BatteryType, CyclerType DEF Next, IInv
  <2> QED
    BY <1>1, <2>1, InHandNext, LiveIsObservedNext, FirstInResyncNext, FirstIsResyncNext
       DEF IInv
<1>2. CASE UNCHANGED vars
  BY <1>2 DEF IInv, TypeOK, InHand, LiveIsObserved, FirstInResync, FirstIsResync,
              Handling, vars, deviceVars, readVars, backendVars, watchVars, cycleVars,
              shownVars
<1> QED
  BY <1>1, <1>2

\* The types of a backend's baseline and phase, the watcher's queue and the cycler's
\* target hold however presses, cycles, rebinds and disconnects interleave
\* (discovery_backend.py 1009-1085, remapper.py 141-199).
THEOREM DpiEventsType == Spec => []TypeOK
<1>1. IInv => TypeOK
  BY DEF IInv
<1> QED
  BY <1>1, InitIInv, NextIInv, PTL DEF Spec

\* A backend that has replaced another, and whose mouse is read through a descriptor,
\* shows nothing for the first report it reads, for any number of stages, rebinds and
\* reports on the wire (discovery_backend.py 1009-1037, 1070-1085).
THEOREM DpiEventsReplacementIsSilent == Spec => []ReplacementIsSilent
<1> QED
  BY SilentFollows, InitIInv, NextIInv, PTL DEF Spec

-----------------------------------------------------------------------------------
(* The DPI last shown.  A report goes from the wire through the tracker and the    *)
(* watcher's queue to the desktop; a cycle announces its target past all of them.  *)

\* A report of DPI d has been sent on the open watch and is not decoded.
OnItsWay(d) ==
  \/ \E i \in 1..Len(wire) : wire[i] = d
  \/ heard # NoDpi /\ heard = d

\* What the tracker knows when it has decoded every report sent so far.
Newest ==
  IF wire # <<>> THEN wire[Len(wire)]
  ELSE IF heard # NoDpi THEN heard
  ELSE tracked

NothingComes == wire = <<>> /\ heard = NoDpi /\ pending = <<>> /\ place = "waiting"

\* A tracker that knows a DPI belongs to the watch under way, or to one that a failed
\* rebind will open again.
WatchInv ==
  /\ ~reading => wire = <<>> /\ heard = NoDpi
  /\ place \in {"unbound", "failed"} => ~reading
  /\ watched # generation => ~reading /\ tracked = NoDpi
  /\ place = "unbound" /\ tracked # NoDpi => doubt
  /\ ~source.shared /\ heard # NoDpi => place = "waiting"

\* The newest report is the DPI of the mouse, unless the watch has been opened again
\* and has heard nothing.
NewestInv ==
  reading /\ Newest # NoDpi => Newest = hw \/ (doubt /\ NothingComes)

\* The last state decoded is the tracker's, unless it has been told to forget it.
LatestInv ==
  /\ pending # <<>> /\ tracked # NoDpi => pending[Len(pending)].dpi = tracked
  /\ pending = <<>> /\ Handling /\ tracked # NoDpi => state.dpi = tracked

\* What is coming is handled after the announcement of the cycle under way.
ComesLater ==
  \/ pending # <<>>
  \/ place \in {"check", "handle"}
  \/ ~source.observes /\ place = "notify"

\* A confirmed target is what the tracker knows or will hear, or it is shown before
\* something newer, or its order is in doubt.
TargetInv ==
  step \in {"confirmed", "recorded"} /\ reading /\ tracked # NoDpi =>
    \/ tracked = target \/ OnItsWay(target)
    \/ ComesLater
    \/ doubt /\ (place = "notify" => ~source.observes)

\* With nothing in hand, the tracker's DPI was shown last, or one it will hear of.
ShownInv ==
  place = "waiting" /\ pending = <<>> /\ reading /\ tracked # NoDpi =>
    \/ notified = tracked \/ OnItsWay(notified)
    \/ missed \/ doubt

TrackedInv == WatchInv /\ NewestInv /\ LatestInv /\ TargetInv /\ ShownInv
TrackedIInv == IInv /\ (source.tracked => TrackedInv)

LEMMA StagesAreStages == \A d \in Stages : d # NoDpi
  BY StagesAssumption

\* What is on the wire before a report was sent is still there, and the newest is the
\* report itself.
LEMMA SendsShape ==
  ASSUME TypeOK, NEW v \in Stages, Sends(v), reading,
         UNCHANGED <<heard, tracked>>
  PROVE  /\ wire' # <<>> /\ Newest' = v
         /\ \A d : OnItsWay(d) => OnItsWay(d)'
<1>1. wire' = Append(wire, v) /\ wire \in Seq(Stages)
  BY DEF Sends, TypeOK
<1>2. wire' # <<>> /\ Len(wire') = Len(wire) + 1 /\ wire'[Len(wire')] = v
  BY <1>1
<1>3. ASSUME NEW i \in 1..Len(wire) PROVE i \in 1..Len(wire') /\ wire'[i] = wire[i]
  BY <1>1, <1>2
<1> QED
  BY <1>2, <1>3 DEF Newest, OnItsWay

\* A report taken off the wire is in the reader's hands.
LEMMA ReceiveShape ==
  ASSUME TypeOK, Receive
  PROVE  /\ heard' \in Stages /\ heard' # NoDpi
         /\ Newest' = Newest
         /\ \A d : OnItsWay(d) => OnItsWay(d)'
<1>1. /\ wire \in Seq(Stages) /\ wire # <<>> /\ heard = NoDpi
      /\ heard' = Head(wire) /\ wire' = Tail(wire) /\ tracked' = tracked
  BY DEF Receive, TypeOK, backendVars
<1>2. heard' \in Stages /\ heard' # NoDpi /\ heard' = wire[1]
  BY <1>1, StagesAreStages
<1>3. Len(wire) \in Nat /\ Len(wire) >= 1 /\ Len(wire') = Len(wire) - 1
  BY <1>1
<1>4. \A i \in 1..Len(wire') : wire'[i] = wire[i + 1]
  BY <1>1, <1>3
<1>5. wire' = <<>> <=> Len(wire) = 1
  <2>1. wire' \in Seq(Stages)
    BY <1>1
  <2>2. wire' = <<>> <=> Len(wire') = 0
    BY <2>1
  <2> QED
    BY <1>3, <2>2
<1>6. Newest' = Newest
  <2>1. CASE Len(wire) = 1
    BY <1>1, <1>2, <1>5, <2>1 DEF Newest
  <2>2. CASE Len(wire) # 1
    <3>1. wire'[Len(wire')] = wire[Len(wire)]
      BY <1>3, <1>4, <2>2
    <3> QED
      BY <1>1, <1>5, <2>2, <3>1 DEF Newest
  <2> QED
    BY <2>1, <2>2
<1>7. ASSUME NEW d, OnItsWay(d) PROVE OnItsWay(d)'
  <2>1. PICK i \in 1..Len(wire) : wire[i] = d
    BY <1>1, <1>7 DEF OnItsWay
  <2>2. CASE i = 1
    BY <1>2, <2>1, <2>2 DEF OnItsWay
  <2>3. CASE i # 1
    <3>1. i - 1 \in 1..Len(wire') /\ wire'[i - 1] = d
      BY <1>3, <1>4, <2>1, <2>3
    <3> QED
      BY <3>1 DEF OnItsWay
  <2> QED
    BY <2>2, <2>3
<1> QED
  BY <1>2, <1>6, <1>7

\* A report decoded by a tracked source becomes the tracker's DPI, and a state when it
\* is new; one of the same DPI was on its way before if it is not the tracker's now.
LEMMA DecodeShape ==
  ASSUME TypeOK, InHand, source.tracked, WatchInv, Decode
  PROVE  /\ heard \in Stages /\ reading /\ tracked' = heard /\ heard' = NoDpi
         /\ UNCHANGED <<source, hw, wire, reading, generation, watched, step, target,
                        notified, missed, doubt>>
         /\ Newest' = Newest
         /\ \A d : OnItsWay(d) => tracked' = d \/ OnItsWay(d)'
         /\ \/ tracked' = tracked /\ UNCHANGED <<pending, place, state>>
            \/ /\ source.shared /\ UNCHANGED <<place, state>>
               /\ pending' = Append(pending, Decoded(heard))
            \/ /\ ~source.shared /\ place = "waiting" /\ place' = "check"
               /\ state' = Decoded(heard) /\ pending' = pending
<1> USE DEF deviceVars, readVars, backendVars, watchVars, cycleVars, shownVars
<1>1. heard \in Stages /\ heard # NoDpi /\ reading
  BY DecodedType DEF Decode, WatchInv
<1>2. tracked' = heard /\ heard' = NoDpi
  BY <1>1 DEF Decode, Baseline
<1>3. UNCHANGED <<source, hw, wire, reading, generation, watched, step, target,
                  notified, missed, doubt>>
  BY DEF Decode
<1>4. Newest' = Newest
  BY <1>1, <1>2, <1>3 DEF Newest
<1>5. \A d : OnItsWay(d) => tracked' = d \/ OnItsWay(d)'
  BY <1>2, <1>3 DEF OnItsWay
<1>6. \/ tracked' = tracked /\ UNCHANGED <<pending, place, state>>
      \/ /\ source.shared /\ UNCHANGED <<place, state>>
         /\ pending' = Append(pending, Decoded(heard))
      \/ /\ ~source.shared /\ place = "waiting" /\ place' = "check"
         /\ state' = Decoded(heard) /\ pending' = pending
  <2>1. CASE heard = Baseline
    BY <1>2, <2>1 DEF Decode, Baseline
  <2>2. CASE heard # Baseline
    BY <1>1, <2>2 DEF Decode, WatchInv
  <2> QED
    BY <2>1, <2>2
<1> QED
  BY <1>1, <1>2, <1>3, <1>4, <1>5, <1>6

\* Steps that leave the reports, the tracker and the watcher as they are.
Undisturbed ==
  UNCHANGED <<source, hw, wire, heard, reading, tracked, pending, generation, watched,
              place, state>>

LEMMA UndisturbedShape ==
  ASSUME Undisturbed
  PROVE  /\ Newest' = Newest /\ \A d : OnItsWay(d)' <=> OnItsWay(d)
         /\ ComesLater' <=> ComesLater
  BY DEF Undisturbed, Newest, OnItsWay, ComesLater

\* The watch is closed: nothing more is on its way.
LEMMA ClosedTracked ==
  ASSUME TrackedInv,
         reading' = FALSE, wire' = <<>>, heard' = NoDpi,
         UNCHANGED <<tracked, pending, generation, watched, place, state, doubt>>
  PROVE  TrackedInv'
  BY DEF TrackedInv, WatchInv, NewestInv, LatestInv, TargetInv, ShownInv, Handling

\* A replacement begins: its tracker knows nothing.
LEMMA GenerationTracked ==
  ASSUME TypeOK, TrackedInv, NewGeneration, place' \in {place, "unbound"},
         UNCHANGED watched
  PROVE  TrackedInv'
<1>1. reading' = FALSE /\ wire' = <<>> /\ heard' = NoDpi /\ pending' = <<>> /\ tracked' = NoDpi
  BY DEF NewGeneration
<1> QED
  BY <1>1 DEF TrackedInv, WatchInv, NewestInv, LatestInv, TargetInv, ShownInv

\* The mouse, or a write, sends a report of the DPI it runs at now.
LEMMA SendsTracked ==
  ASSUME TypeOK, TrackedInv, NEW v \in Stages, hw' = v, Sends(v),
         UNCHANGED <<source, reading, heard, tracked, pending, generation, watched, place,
                     state, notified, missed, doubt>>,
         step' \in {"confirmed", "recorded"} => step' = step /\ target' = target
  PROVE  TrackedInv'
<1>1. CASE ~reading
  <2>1. reading' = FALSE /\ wire' = <<>> /\ heard' = NoDpi
    BY <1>1 DEF Sends, TrackedInv, WatchInv
  <2> QED
    BY <2>1, ClosedTracked
<1>2. CASE reading
  <2>1. /\ wire' # <<>> /\ Newest' = v
        /\ \A d : OnItsWay(d) => OnItsWay(d)'
    BY <1>2, SendsShape
  <2>2. WatchInv' /\ NewestInv' /\ LatestInv'
    BY <1>2, <2>1 DEF TrackedInv, WatchInv, NewestInv, LatestInv, Handling
  <2>3. ComesLater' <=> ComesLater
    BY DEF ComesLater
  <2>4. TargetInv'
    BY <2>1, <2>3 DEF TrackedInv, TargetInv
  <2>5. ShownInv'
    BY <2>1 DEF TrackedInv, ShownInv
  <2> QED
    BY <2>2, <2>4, <2>5 DEF TrackedInv
<1> QED
  BY <1>1, <1>2

LEMMA MouseTracked ==
  TypeOK /\ source.tracked /\ TrackedInv /\ (Mouse \/ BatteryCollapses) => TrackedInv'
<1> SUFFICES ASSUME TypeOK, source.tracked, TrackedInv, Mouse \/ BatteryCollapses
             PROVE  TrackedInv'
  OBVIOUS
<1> USE DEF deviceVars, readVars, backendVars, watchVars, cycleVars, shownVars
<1>1. CASE \E v \in Stages : Press(v)
  BY <1>1, SendsTracked DEF Press
<1>2. CASE Repeat
  BY <1>2, SendsTracked DEF Repeat, TypeOK
<1>3. CASE Disconnect
  BY <1>3, ClosedTracked DEF Disconnect
<1>4. CASE BatteryCollapses
  BY <1>4, SendsTracked DEF BatteryCollapses, TypeOK
<1> QED
  BY <1>1, <1>2, <1>3, <1>4 DEF Mouse

LEMMA ReceiveTracked ==
  ASSUME TypeOK, source.tracked, TrackedInv, Receive
  PROVE  TrackedInv'
<1>1. /\ heard' \in Stages /\ heard' # NoDpi /\ Newest' = Newest
      /\ \A d : OnItsWay(d) => OnItsWay(d)'
  BY ReceiveShape
<1>2. /\ reading /\ wire # <<>>
      /\ ~source.shared => place = "waiting"
      /\ UNCHANGED <<source, hw, reading, tracked, pending, generation, watched, place, state,
                     step, target, notified, missed, doubt>>
  BY DEF Receive, deviceVars, backendVars, watchVars, cycleVars, shownVars
<1>3. WatchInv' /\ LatestInv'
  BY <1>2 DEF TrackedInv, WatchInv, LatestInv, Handling
<1>4. NewestInv'
  BY <1>1, <1>2 DEF TrackedInv, NewestInv, NothingComes
<1>5. ComesLater' <=> ComesLater
  BY <1>2 DEF ComesLater
<1>6. TargetInv' /\ ShownInv'
  BY <1>1, <1>2, <1>5 DEF TrackedInv, TargetInv, ShownInv
<1> QED
  BY <1>3, <1>4, <1>6 DEF TrackedInv

LEMMA DecodeTracked ==
  ASSUME TypeOK, InHand, FirstIsResync, source.tracked, TrackedInv, Decode
  PROVE  TrackedInv'
<1>1. /\ heard \in Stages /\ reading /\ tracked' = heard /\ heard' = NoDpi
      /\ UNCHANGED <<source, hw, wire, reading, generation, watched, step, target,
                     notified, missed, doubt>>
      /\ Newest' = Newest
      /\ \A d : OnItsWay(d) => tracked' = d \/ OnItsWay(d)'
  BY DecodeShape DEF TrackedInv
<1>2. \/ tracked' = tracked /\ UNCHANGED <<pending, place, state>>
      \/ /\ source.shared /\ UNCHANGED <<place, state>>
         /\ pending' = Append(pending, Decoded(heard))
      \/ /\ ~source.shared /\ place = "waiting" /\ place' = "check"
         /\ state' = Decoded(heard) /\ pending' = pending
  BY DecodeShape DEF TrackedInv
<1>3. heard # NoDpi
  BY DEF Decode
<1>4. NewestInv'
  BY <1>1, <1>3 DEF TrackedInv, NewestInv, NothingComes
<1>5. CASE tracked' = tracked /\ UNCHANGED <<pending, place, state>>
  <2>1. WatchInv' /\ LatestInv'
    BY <1>1, <1>5 DEF TrackedInv, WatchInv, LatestInv, Handling
  <2>2. ComesLater' <=> ComesLater
    BY <1>1, <1>5 DEF ComesLater
  <2>3. TargetInv' /\ ShownInv'
    BY <1>1, <1>5, <2>2 DEF TrackedInv, TargetInv, ShownInv
  <2> QED
    BY <1>4, <2>1, <2>3 DEF TrackedInv
<1>6. CASE /\ source.shared /\ UNCHANGED <<place, state>>
           /\ pending' = Append(pending, Decoded(heard))
  <2>1. pending \in Seq(States) /\ Decoded(heard) \in States
    BY <1>3, DecodedType DEF TypeOK
  <2>2. pending' # <<>> /\ pending'[Len(pending')] = Decoded(heard)
    BY <1>6, <2>1
  <2>3. Decoded(heard).dpi = tracked'
    BY <1>1 DEF Decoded
  <2>4. WatchInv' /\ LatestInv'
    BY <1>1, <1>3, <1>6, <2>2, <2>3 DEF TrackedInv, WatchInv, LatestInv
  <2>5. TargetInv' /\ ShownInv'
    BY <2>2 DEF TargetInv, ShownInv, ComesLater
  <2> QED
    BY <1>4, <2>4, <2>5 DEF TrackedInv
<1>7. CASE /\ ~source.shared /\ place = "waiting" /\ place' = "check"
           /\ state' = Decoded(heard) /\ pending' = pending
  <2>1. Decoded(heard).dpi = tracked'
    BY <1>1 DEF Decoded
  <2>2. WatchInv'
    BY <1>1, <1>3, <1>7 DEF TrackedInv, WatchInv
  <2>3. LatestInv'
    BY <1>7, <2>1 DEF FirstIsResync, LatestInv, Handling
  <2>4. TargetInv' /\ ShownInv'
    BY <1>7 DEF TargetInv, ShownInv, ComesLater
  <2> QED
    BY <1>4, <2>2, <2>3, <2>4 DEF TrackedInv
<1> QED
  BY <1>2, <1>5, <1>6, <1>7

LEMMA WatchTracked ==
  ASSUME TypeOK, source.tracked, TrackedInv,
         WatchBegins \/ WatchRefused \/ WatchEnds \/ RebindRefused \/ RebindFails
  PROVE  TrackedInv'
<1> USE DEF deviceVars, readVars, backendVars, watchVars, cycleVars, shownVars
<1>1. CASE WatchBegins
  <2>1. /\ place = "unbound" /\ place' = "waiting" /\ watched' = generation
        /\ reading' = TRUE /\ wire' = <<>> /\ heard' = NoDpi /\ pending' = <<>>
        /\ UNCHANGED <<source, tracked, generation, step, target, doubt>>
    BY <1>1 DEF WatchBegins
  <2>2. tracked # NoDpi => doubt
    BY <2>1 DEF TrackedInv, WatchInv
  <2>3. Newest' = tracked'
    BY <2>1 DEF Newest
  <2> QED
    BY <2>1, <2>2, <2>3 DEF TrackedInv, WatchInv, NewestInv, NothingComes, LatestInv, Handling,
                            TargetInv, ShownInv
<1>2. CASE WatchRefused \/ WatchEnds \/ RebindRefused \/ RebindFails
  <2>1. /\ ~reading /\ ~reading' /\ wire' = wire /\ heard' = heard
        /\ UNCHANGED <<source, tracked, generation>>
        /\ watched' \in {watched, generation} /\ place' \in {"unbound", "failed"}
    BY <1>2 DEF WatchRefused, WatchEnds, RebindRefused, RebindFails, TrackedInv, WatchInv,
                TypeOK
  <2>2. place' = "unbound" /\ tracked' # NoDpi => doubt'
    BY <1>2 DEF WatchRefused, WatchEnds, RebindRefused, RebindFails, TrackedInv, WatchInv
  <2>3. pending' \in {pending, <<>>}
    BY <1>2 DEF WatchRefused, WatchEnds, RebindRefused, RebindFails
  <2>4. WatchInv'
    BY <2>1, <2>2 DEF TrackedInv, WatchInv
  <2>5. LatestInv'
    BY <2>1, <2>3 DEF TrackedInv, LatestInv, Handling
  <2> QED
    BY <2>1, <2>4, <2>5 DEF TrackedInv, NewestInv, TargetInv, ShownInv
<1> QED
  BY <1>1, <1>2

LEMMA TakeTracked ==
  ASSUME TypeOK, FirstIsResync, source.tracked, TrackedInv, Take
  PROVE  TrackedInv'
<1>1. /\ place = "waiting" /\ place' = "check" /\ pending # <<>>
      /\ state' = Head(pending) /\ pending' = Tail(pending)
      /\ UNCHANGED <<source, hw, wire, heard, reading, tracked, generation, watched, step,
                     target, notified, missed, doubt>>
  BY DEF Take, deviceVars, readVars, backendVars, cycleVars, shownVars
<1>2. /\ pending \in Seq(States) /\ Len(pending) \in Nat /\ Len(pending) >= 1
      /\ Len(pending') = Len(pending) - 1
  BY <1>1 DEF TypeOK
<1>3. pending' # <<>> => pending'[Len(pending')] = pending[Len(pending)]
  <2> SUFFICES ASSUME pending' # <<>> PROVE pending'[Len(pending')] = pending[Len(pending)]
    OBVIOUS
  <2>1. pending' \in Seq(States) /\ Len(pending') # 0
    BY <1>1, <1>2
  <2> QED
    BY <1>1, <1>2, <2>1
<1>4. pending' = <<>> => state' = pending[Len(pending)]
  <2>1. pending' = <<>> => Len(pending') = 0
    OBVIOUS
  <2>2. state' = pending[1]
    BY <1>1, <1>2
  <2> QED
    BY <1>2, <2>1, <2>2
<1>5. LatestInv'
  BY <1>1, <1>3, <1>4 DEF TrackedInv, LatestInv
<1>6. Newest' = Newest
  BY <1>1 DEF Newest
<1>7. WatchInv' /\ NewestInv'
  BY <1>1, <1>6 DEF FirstIsResync, TrackedInv, WatchInv, NewestInv, NothingComes
<1>8. TargetInv' /\ ShownInv'
  BY <1>1 DEF TargetInv, ShownInv, ComesLater
<1> QED
  BY <1>5, <1>7, <1>8 DEF TrackedInv

\* A watch that is not the current one reads nothing.
LEMMA CheckTracked ==
  ASSUME TypeOK, source.tracked, TrackedInv, Check
  PROVE  TrackedInv'
<1>1. /\ place = "check"
      /\ \/ watched = generation /\ place' = "handle" /\ state' = state
         \/ watched # generation /\ place' = "waiting"
      /\ UNCHANGED <<source, hw, wire, heard, reading, tracked, pending, generation, watched,
                     step, target, notified, missed, doubt>>
  BY DEF Check, deviceVars, readVars, backendVars, cycleVars, shownVars
<1>2. Newest' = Newest
  BY <1>1 DEF Newest
<1>3. WatchInv' /\ NewestInv' /\ LatestInv'
  BY <1>1, <1>2 DEF TrackedInv, WatchInv, NewestInv, NothingComes, LatestInv, Handling
<1>4. TargetInv' /\ ShownInv'
  BY <1>1 DEF TrackedInv, WatchInv, TargetInv, ShownInv, ComesLater
<1> QED
  BY <1>3, <1>4 DEF TrackedInv

LEMMA ObserveTracked ==
  ASSUME TypeOK, source.tracked, TrackedInv, Observe
  PROVE  TrackedInv'
<1>1. /\ place = "handle" /\ place' = "notify"
      /\ source.observes => step = "idle"
      /\ UNCHANGED <<source, hw, wire, heard, reading, tracked, pending, generation, watched,
                     state, step, target, notified, missed, doubt>>
  BY DEF Observe, CycleLockIsFree, deviceVars, readVars, backendVars, cycleVars, shownVars
<1>2. Newest' = Newest
  BY <1>1 DEF Newest
<1>3. WatchInv' /\ NewestInv' /\ LatestInv'
  BY <1>1, <1>2 DEF TrackedInv, WatchInv, NewestInv, NothingComes, LatestInv, Handling
<1>4. TargetInv' /\ ShownInv'
  BY <1>1 DEF TargetInv, ShownInv, ComesLater
<1> QED
  BY <1>3, <1>4 DEF TrackedInv

\* A state handled in order is the tracker's, unless a newer one is queued.
LEMMA NotifyTracked ==
  ASSUME TypeOK, source.tracked, TrackedInv, Resync \/ Notify
  PROVE  TrackedInv'
<1>1. /\ place \in {"handle", "notify"} /\ place' = "waiting"
      /\ notified' = state.dpi \/ missed'
      /\ UNCHANGED <<source, hw, wire, heard, reading, tracked, pending, generation, watched,
                     step, target>>
  BY DEF Resync, Notify, deviceVars, readVars, backendVars, cycleVars
<1>2. \/ doubt' = (step # "idle")
      \/ place = "notify" /\ doubt' = (step # "idle" /\ ~source.observes)
  BY DEF Resync, Notify
<1>3. Newest' = Newest /\ \A d : OnItsWay(d) => OnItsWay(d)'
  BY <1>1 DEF Newest, OnItsWay
<1>4. WatchInv' /\ NewestInv' /\ LatestInv'
  BY <1>1, <1>3 DEF TrackedInv, WatchInv, NewestInv, NothingComes, LatestInv, Handling
<1>5. ShownInv'
  BY <1>1 DEF TrackedInv, LatestInv, Handling, ShownInv
<1>6. TargetInv'
  <2>1. CASE doubt'
    BY <1>1, <2>1 DEF TargetInv
  <2>2. CASE ~doubt' /\ step \in {"confirmed", "recorded"}
    <3>1. place = "notify" /\ source.observes
      BY <1>2, <2>2
    <3> QED
      BY <1>1, <1>3, <3>1 DEF TrackedInv, TargetInv, ComesLater
  <2>3. CASE step \notin {"confirmed", "recorded"}
    BY <1>1, <2>3 DEF TargetInv
  <2> QED
    BY <2>1, <2>2, <2>3
<1> QED
  BY <1>4, <1>5, <1>6 DEF TrackedInv

LEMMA CycleTracked ==
  ASSUME TypeOK, InHand, source.tracked, TrackedInv, Cycler
  PROVE  TrackedInv'
<1> USE DEF deviceVars, readVars, backendVars, watchVars, cycleVars, shownVars
<1>1. CASE CycleBegins
  <2>1. Undisturbed /\ step' = "begun" /\ UNCHANGED <<notified, missed, doubt>>
    BY <1>1 DEF CycleBegins, Undisturbed
  <2> QED
    BY <2>1, UndisturbedShape DEF Undisturbed, TrackedInv, WatchInv, NewestInv, NothingComes,
                                  LatestInv, Handling, TargetInv, ShownInv
<1>2. CASE CycleWrites
  <2>1. target \in Stages
    BY <1>2 DEF CycleWrites, InHand
  <2> QED
    BY <1>2, <2>1, SendsTracked DEF CycleWrites
<1>3. CASE CycleConfirms
  <2>1. /\ Undisturbed /\ hw = target /\ step' = "confirmed"
        /\ UNCHANGED <<target, notified, missed, doubt>>
    BY <1>3 DEF CycleConfirms, Undisturbed
  <2>2. reading /\ tracked # NoDpi => tracked = target \/ OnItsWay(target)
                                     \/ (doubt /\ NothingComes)
    <3> SUFFICES ASSUME reading, tracked # NoDpi
                 PROVE  tracked = target \/ OnItsWay(target) \/ (doubt /\ NothingComes)
      OBVIOUS
    <3>1. wire # <<>> => wire[Len(wire)] \in Stages /\ Len(wire) \in 1..Len(wire)
      BY DEF TypeOK
    <3>2. Newest # NoDpi
      BY <3>1, StagesAreStages DEF Newest
    <3>3. Newest = target => tracked = target \/ OnItsWay(target)
      BY <3>1 DEF Newest, OnItsWay
    <3> QED
      BY <2>1, <3>2, <3>3 DEF TrackedInv, NewestInv
  <2>3. TargetInv'
    BY <2>1, <2>2, UndisturbedShape DEF Undisturbed, NothingComes, TargetInv
  <2> QED
    BY <2>1, <2>3, UndisturbedShape DEF Undisturbed, TrackedInv, WatchInv, NewestInv,
                                        NothingComes, LatestInv, Handling, ShownInv
<1>4. CASE CycleFails
  <2>1. /\ step' = "idle"
        /\ UNCHANGED <<source, hw, tracked, pending, generation, watched, place, state,
                       notified, missed, doubt>>
    BY <1>4 DEF CycleFails
  <2>2. CASE source.shared
    BY <1>4, <2>1, <2>2, ClosedTracked DEF CycleFails
  <2>3. CASE ~source.shared
    <3>1. Undisturbed
      BY <1>4, <2>1, <2>3 DEF CycleFails, Undisturbed
    <3> QED
      BY <2>1, <3>1, UndisturbedShape DEF Undisturbed, TrackedInv, WatchInv, NewestInv,
                                          NothingComes, LatestInv, Handling, TargetInv, ShownInv
  <2> QED
    BY <2>2, <2>3
<1>5. CASE CycleRecords
  <2>1. Undisturbed /\ step = "confirmed" /\ UNCHANGED <<target, notified, missed, doubt>>
    BY <1>5 DEF CycleRecords, Undisturbed
  <2> QED
    BY <2>1, UndisturbedShape DEF Undisturbed, TrackedInv, WatchInv, NewestInv, NothingComes,
                                  LatestInv, Handling, TargetInv, ShownInv
<1>6. CASE CycleAnnounces
  <2>1. /\ Undisturbed /\ step = "recorded" /\ step' = "idle" /\ doubt' = doubt
        /\ notified' = target \/ missed'
    BY <1>6 DEF CycleAnnounces, Undisturbed
  <2>2. ShownInv'
    BY <2>1, UndisturbedShape DEF Undisturbed, TrackedInv, TargetInv, ComesLater, ShownInv
  <2> QED
    BY <2>1, <2>2, UndisturbedShape DEF Undisturbed, TrackedInv, WatchInv, NewestInv,
                                        NothingComes, LatestInv, Handling, TargetInv
<1> QED
  BY <1>1, <1>2, <1>3, <1>4, <1>5, <1>6 DEF Cycler

LEMMA NextTracked ==
  ASSUME IInv, source.tracked, TrackedInv, Next
  PROVE  TrackedInv'
<1> USE DEF IInv
<1>1. CASE Mouse \/ BatteryCollapses
  BY <1>1, MouseTracked
<1>2. CASE Reader
  BY <1>2, ReceiveTracked, DecodeTracked DEF Reader
<1>3. CASE BatteryRebinds \/ Rebind
  BY <1>3, GenerationTracked DEF BatteryRebinds, Rebind
<1>4. CASE Idle
  <2>1. Undisturbed /\ UNCHANGED <<step, target, notified, missed, doubt>>
    BY <1>4 DEF Idle, Undisturbed, deviceVars, readVars, watchVars, cycleVars, shownVars
  <2> QED
    BY <2>1, UndisturbedShape DEF Undisturbed, TrackedInv, WatchInv, NewestInv, NothingComes,
                                  LatestInv, Handling, TargetInv, ShownInv
<1>5. CASE Watcher /\ ~Rebind /\ ~Idle
  BY <1>5, WatchTracked, TakeTracked, CheckTracked, ObserveTracked, NotifyTracked DEF Watcher
<1>6. CASE Cycler
  BY <1>6, CycleTracked
<1>7. CASE ContinuityLost
  <2>1. Newest' # NoDpi => Newest' = Newest
    BY <1>7 DEF ContinuityLost, Newest, deviceVars, readVars
  <2> QED
    BY <1>7, <2>1 DEF ContinuityLost, TrackedInv, WatchInv, NewestInv, NothingComes, LatestInv,
                      TargetInv, ShownInv, deviceVars, readVars, watchVars, cycleVars, shownVars
<1> QED
  BY <1>1, <1>2, <1>3, <1>4, <1>5, <1>6, <1>7 DEF Next

LEMMA InitTracked == Init => TrackedIInv
<1> SUFFICES ASSUME Init PROVE TrackedIInv
  OBVIOUS
<1>1. TrackedInv
  BY DEF Init, TrackedInv, WatchInv, NewestInv, Newest, LatestInv, Handling, TargetInv,
         ShownInv
<1> QED
  BY <1>1, InitIInv DEF TrackedIInv

LEMMA StepTracked == TrackedIInv /\ [Next]_vars => TrackedIInv'
<1> SUFFICES ASSUME TrackedIInv, [Next]_vars PROVE TrackedIInv'
  OBVIOUS
<1>1. IInv /\ IInv'
  BY NextIInv DEF TrackedIInv
<1>2. source' = source
  BY DEF Next, vars, deviceVars, Mouse, Press, Repeat, Disconnect, Reader, Receive, Decode,
         Watcher, WatchBegins, WatchRefused, Idle, Take, Check, Resync, Observe, Notify,
         WatchEnds, Rebind, RebindRefused, RebindFails, BatteryCollapses, BatteryRebinds,
         ContinuityLost, Cycler, CycleBegins, CycleWrites, CycleConfirms, CycleFails, CycleRecords,
         CycleAnnounces
<1>3. CASE source.tracked /\ Next
  BY <1>1, <1>2, <1>3, NextTracked DEF TrackedIInv
<1>4. CASE source.tracked /\ UNCHANGED vars
  <2>1. Undisturbed /\ UNCHANGED <<step, target, notified, missed, doubt>>
    BY <1>4 DEF Undisturbed, vars, deviceVars, readVars, backendVars, watchVars, cycleVars,
                shownVars
  <2>2. TrackedInv
    BY <1>4 DEF TrackedIInv
  <2>3. TrackedInv'
    BY <2>1, <2>2, UndisturbedShape
       DEF Undisturbed, TrackedInv, WatchInv, NewestInv, NothingComes, LatestInv, Handling,
           TargetInv, ShownInv
  <2> QED
    BY <1>1, <2>3 DEF TrackedIInv
<1> QED
  BY <1>1, <1>2, <1>3, <1>4 DEF TrackedIInv

\* Once a tracked mouse has reported in this generation and every report is handled, the
\* DPI last shown, or silently remembered, is the one it runs at, unless the desktop
\* refused the popup or the order of a state and a cycle was in doubt: for any stages,
\* reports, queued states and rebinds, and however presses, cycles and echoes interleave
\* (discovery_backend.py 1009-1037, notifications.py 106-142, 172-190).
THEOREM DpiEventsShownIsCurrent == Spec => []ShownIsCurrent
<1>1. TrackedIInv => ShownIsCurrent
  <2> SUFFICES ASSUME TrackedIInv, source.tracked, ~doubt, AtRest, tracked # NoDpi
               PROVE  missed \/ notified = hw
    BY DEF ShownIsCurrent, Shown
  <2>1. /\ place = "waiting" /\ reading /\ wire = <<>> /\ heard = NoDpi /\ pending = <<>>
    BY DEF AtRest, Watching
  <2>2. Newest = tracked /\ ~OnItsWay(notified)
    BY <2>1 DEF Newest, OnItsWay
  <2> QED
    BY <2>1, <2>2 DEF TrackedIInv, TrackedInv, NewestInv, ShownInv
<1> QED
  BY <1>1, InitTracked, StepTracked, PTL DEF Spec
================================================================================
