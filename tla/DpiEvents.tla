-------------------------------- MODULE DpiEvents --------------------------------
(***********************************************************************************)
(* From a DPI report of the mouse to the popup on the desktop: the calibrated      *)
(* hid_state source of a discovered mouse, the DPI monitor, and the DPI cycler     *)
(* that writes a DPI while the mouse reports its own.                              *)
(*                                                                                 *)
(*   hardware/discovery_backend.py  set_dpi, the decoder, its RESYNC and LIVE      *)
(*                                  phases, the session and descriptor watchers    *)
(*   read_only_dpi_cycle.py         ReadOnlyDpiCycleTracker.observe_absolute       *)
(*   hardware/supervisor.py         current_generation_callback, reconciliation    *)
(*   notifications.py               DpiEventMonitor, DpiMonitorSupervisor          *)
(*   remapper.py                    DpiCycler                                      *)
(*                                                                                 *)
(* Three threads: the session's reader, the DPI thread (which is its own reader    *)
(* when it watches a descriptor), and the main thread with the cycler; the battery *)
(* thread appears as a rebind at any time.  The phases of a backend, its baseline  *)
(* and its sessions are those of the current generation: what a retired one still  *)
(* decodes is discarded by the generation test, so it is not kept.  The mouse      *)
(* reports every change of its DPI, and echoes a write, on an open watch.  Reports *)
(* on the wire, queued states and generations are bounded.                         *)
(***********************************************************************************)
EXTENDS Naturals, Sequences

CONSTANTS
  Stages,         \* the DPI values of the calibrated cycle
  Sources,        \* the kinds of source, below
  MaxWire,        \* bound on the reports the kernel holds for the reader
  MaxPending,     \* bound on the states queued for the watcher
  MaxGeneration,  \* bound on the rebinds of one behaviour
  NoDpi

\* tracked:  the binding has a cycle order, hence a tracker
\* shared:   its node is the writer's, so it is read through the learned session
\* observes: the monitor was given the cycler
SourceRecords == [tracked : BOOLEAN, shared : BOOLEAN, observes : BOOLEAN]

ASSUME StagesAssumption == NoDpi \notin Stages
ASSUME SourcesAssumption == Sources \subseteq SourceRecords
ASSUME BoundsAssumption == {MaxWire, MaxPending, MaxGeneration} \subseteq Nat

VARIABLES
  source,      \* the kind of this mouse's binding
  hw,          \* the DPI the mouse runs at
  wire,        \* the reports sent on the open watch and not yet read
  reading,     \* is somebody reading reports for the current generation
  lastDpi,     \* _last_dpi of the backend
  tracked,     \* the tracker's current_dpi
  phase,       \* _observer_generation_phase
  observed,    \* _observer_resync_observed
  heard,       \* the report whose decoding is under way, or NoDpi
  first,       \* is it the first report of a replacement generation
  pending,     \* the watcher's queue
  generation, watched,  \* the supervisor's, and the one the watcher captured
  place, state,         \* the DPI thread, and the state it handles
  step, target,         \* the main thread in DpiCycler._cycle
  desired,     \* desired.active_dpi
  notified,    \* _last_notified_dpi
  missed,      \* did the desktop refuse the last popup
  doubt        \* has a state been lost or shown out of order, and none in order since

deviceVars  == <<source, hw>>
readVars    == <<wire, reading, heard, first>>
backendVars == <<lastDpi, tracked, phase, observed>>
watchVars   == <<pending, generation, watched, place, state>>
cycleVars   == <<step, target>>
shownVars   == <<notified, missed, doubt>>
vars == <<deviceVars, readVars, backendVars, watchVars, cycleVars, desired, shownVars>>

\* A decoded DpiState: reconnect_resync, and whether it came from the first report.
States  == [dpi : Stages, resync : BOOLEAN, first : BOOLEAN]
NoState == [dpi |-> NoDpi, resync |-> FALSE, first |-> FALSE]
MaybeDpi == Stages \cup {NoDpi}

\* Every variable has its type.
TypeOK ==
  /\ source \in Sources /\ hw \in Stages
  /\ wire \in Seq(Stages) /\ reading \in BOOLEAN
  /\ heard \in MaybeDpi /\ first \in BOOLEAN
  /\ lastDpi \in MaybeDpi /\ tracked \in MaybeDpi
  /\ phase \in {"LIVE", "RESYNC"} /\ observed \in BOOLEAN
  /\ pending \in Seq(States)
  /\ generation \in Nat /\ watched \in Nat
  /\ place \in {"unbound", "waiting", "check", "handle", "notify", "failed"}
  /\ state \in States \cup {NoState}
  /\ step \in {"idle", "begun", "written", "confirmed", "recorded"}
  /\ target \in MaybeDpi /\ desired \in Stages
  /\ notified \in MaybeDpi /\ missed \in BOOLEAN /\ doubt \in BOOLEAN

\* The supervisor's lock is held by the cycler from the write to the readback.
LockIsFree == step \notin {"begun", "written"}
CycleLockIsFree == step = "idle"

Init ==
  /\ source \in Sources
  /\ hw \in Stages /\ desired \in Stages
  /\ wire = <<>> /\ reading = FALSE /\ heard = NoDpi /\ first = FALSE
  /\ lastDpi \in {NoDpi} \cup (Stages \cap {hw, desired})
  /\ lastDpi # NoDpi => hw = desired /\ lastDpi = hw
  /\ tracked = NoDpi /\ phase = "LIVE" /\ observed = FALSE
  /\ pending = <<>> /\ generation = 0 /\ watched = 0
  /\ place = "unbound" /\ state = NoState
  /\ step = "idle" /\ target = NoDpi
  /\ notified = NoDpi /\ missed = FALSE /\ doubt = FALSE

-----------------------------------------------------------------------------------
(* The mouse.                                                                      *)

\* A report of DPI v reaches whoever has the node open.
Sends(v) == wire' = IF reading THEN Append(wire, v) ELSE wire

RoomOnWire == Len(wire) < MaxWire

\* The DPI button inside the mouse.
Press(v) ==
  /\ v # hw /\ RoomOnWire
  /\ hw' = v /\ Sends(v)
  /\ UNCHANGED <<source, reading, heard, first, backendVars, watchVars, cycleVars,
                 desired, shownVars>>

\* The mouse repeats its DPI, as it does when it wakes.
Repeat ==
  /\ reading /\ RoomOnWire
  /\ Sends(hw)
  /\ UNCHANGED <<deviceVars, reading, heard, first, backendVars, watchVars, cycleVars,
                 desired, shownVars>>

\* The node goes away; the mouse may come back at another DPI.
Disconnect ==
  /\ reading
  /\ hw' \in Stages
  /\ reading' = FALSE /\ wire' = <<>> /\ heard' = NoDpi /\ first' = FALSE
  /\ UNCHANGED <<source, backendVars, watchVars, cycleVars, desired, shownVars>>

-----------------------------------------------------------------------------------
(* The reader: _decode_calibrated_hid.  It marks the resync as observed, compares  *)
(* the value with its baseline, and only then looks at the phase.                  *)

\* The thread that decodes: the session's, or the watcher itself while it waits.
Receive ==
  /\ reading /\ wire # <<>> /\ heard = NoDpi
  /\ ~source.shared => place = "waiting"
  /\ heard' = Head(wire) /\ wire' = Tail(wire)
  /\ first' = (generation > 0 /\ ~observed)
  /\ observed' = (observed \/ phase = "RESYNC")
  /\ UNCHANGED <<deviceVars, reading, lastDpi, tracked, phase, watchVars, cycleVars,
                 desired, shownVars>>

\* Faulty variant: a tracked source is compared with the last DPI written.
BaselineOfWrites == lastDpi

\* The value a report is compared with: the tracker's, or else _last_dpi.
Baseline == IF source.tracked THEN tracked ELSE lastDpi

Decoded(d) == [dpi |-> d, resync |-> phase = "RESYNC", first |-> first]

\* A new value becomes the baseline, and a state for the watcher.
Decode ==
  /\ heard # NoDpi /\ Len(pending) < MaxPending
  /\ heard' = NoDpi /\ first' = FALSE
  /\ IF heard = Baseline
       THEN UNCHANGED <<lastDpi, tracked, pending, place, state>>
       ELSE /\ tracked' = IF source.tracked THEN heard ELSE tracked
            /\ lastDpi' = IF source.tracked THEN lastDpi ELSE heard
            /\ IF source.shared
                 THEN /\ pending' = Append(pending, Decoded(heard))
                      /\ UNCHANGED <<place, state>>
                 ELSE /\ place' = "check" /\ state' = Decoded(heard)
                      /\ UNCHANGED pending
  /\ UNCHANGED <<deviceVars, wire, reading, phase, observed, generation, watched,
                 cycleVars, desired, shownVars>>

-----------------------------------------------------------------------------------
(* The DPI thread.                                                                 *)

\* watch_dpi_events on the current backend: a session subscriber or a descriptor.
WatchBegins ==
  /\ place = "unbound" /\ LockIsFree
  /\ place' = "waiting" /\ watched' = generation
  /\ reading' = TRUE /\ wire' = <<>> /\ heard' = NoDpi /\ first' = FALSE
  /\ pending' = <<>>
  /\ UNCHANGED <<deviceVars, backendVars, generation, state, cycleVars,
                 desired, shownVars>>

\* The node cannot be opened or subscribed.
WatchRefused ==
  /\ place = "unbound" /\ LockIsFree
  /\ place' = "failed" /\ watched' = generation
  /\ UNCHANGED <<deviceVars, readVars, backendVars, pending, generation, state,
                 cycleVars, desired, shownVars>>

\* Nothing came within the time-out: _finish_observer_resync_if_idle.
Idle ==
  /\ place = "waiting" /\ reading /\ watched = generation
  /\ IF source.shared THEN pending = <<>> ELSE wire = <<>> /\ heard = NoDpi
  /\ phase = "RESYNC" /\ observed
  /\ phase' = "LIVE"
  /\ UNCHANGED <<deviceVars, readVars, lastDpi, tracked, observed, watchVars,
                 cycleVars, desired, shownVars>>

Take ==
  /\ place = "waiting" /\ pending # <<>>
  /\ place' = "check"
  /\ state' = Head(pending) /\ pending' = Tail(pending)
  /\ UNCHANGED <<deviceVars, readVars, backendVars, generation, watched, cycleVars,
                 desired, shownVars>>

\* current_generation_callback
Check ==
  /\ place = "check" /\ LockIsFree
  /\ IF watched = generation
       THEN place' = "handle" /\ UNCHANGED state
       ELSE place' = "waiting" /\ state' = NoState
  /\ UNCHANGED <<deviceVars, readVars, backendVars, pending, generation, watched,
                 cycleVars, desired, shownVars>>

\* Faulty variant: what a reconnect found is not remembered.
ResyncForgotten ==
  /\ place = "handle" /\ state.resync
  /\ place' = "waiting" /\ state' = NoState
  /\ UNCHANGED <<deviceVars, readVars, backendVars, pending, generation, watched,
                 cycleVars, desired, shownVars>>

\* handle_state, observe_resync: a reconnect is remembered without a popup.
Resync ==
  /\ place = "handle" /\ state.resync
  /\ place' = "waiting" /\ state' = NoState
  /\ notified' = state.dpi /\ missed' = FALSE /\ doubt' = (step # "idle")
  /\ UNCHANGED <<deviceVars, readVars, backendVars, pending, generation, watched,
                 cycleVars, desired>>

\* handle_state of a live change; DpiCycler.observe_dpi waits for the cycle.
Observe ==
  /\ place = "handle" /\ ~state.resync
  /\ source.observes => CycleLockIsFree /\ LockIsFree
  /\ desired' = IF source.observes THEN state.dpi ELSE desired
  /\ place' = "notify"
  /\ UNCHANGED <<deviceVars, readVars, backendVars, pending, generation, watched,
                 state, cycleVars, shownVars>>

\* notify_dpi: the same DPI is not shown twice; a refused popup is not remembered.
Notify ==
  /\ place = "notify"
  /\ place' = "waiting" /\ state' = NoState
  /\ \/ notified' = state.dpi /\ missed' = FALSE
     \/ notified # state.dpi /\ missed' = TRUE /\ UNCHANGED notified
  /\ doubt' = (step # "idle" /\ ~source.observes)
  /\ UNCHANGED <<deviceVars, readVars, backendVars, pending, generation, watched,
                 cycleVars, desired>>

\* The session is closed, or the descriptor fails: the watch ends.
WatchEnds ==
  /\ place = "waiting" /\ ~reading
  /\ place' = "failed" /\ pending' = <<>>
  /\ UNCHANGED <<deviceVars, readVars, backendVars, generation, watched, state,
                 cycleVars, desired, shownVars>>

-----------------------------------------------------------------------------------
(* rebind: the replacement is reconciled with the desired DPI, when it can be      *)
(* written, and begins a new observer generation.                                  *)

\* The old sessions are closed; nobody reads for the new generation yet.
NewGeneration ==
  /\ generation < MaxGeneration
  /\ generation' = generation + 1
  /\ reading' = FALSE /\ wire' = <<>> /\ heard' = NoDpi /\ first' = FALSE
  /\ pending' = <<>>
  /\ \/ hw' = desired /\ lastDpi' = desired
     \/ hw' = hw /\ lastDpi' = NoDpi
  /\ tracked' = NoDpi

\* Faulty variant: the replacement starts like a first backend.
PrepareNothing == phase' = "LIVE" /\ observed' = FALSE

\* prepare_observer_rebind
PrepareRebind == phase' = "RESYNC" /\ observed' = FALSE

\* Another thread's rebind finds nothing new, and has reconciled all the same.
BatteryCollapses ==
  /\ LockIsFree /\ RoomOnWire
  /\ hw' = desired /\ Sends(desired)
  /\ UNCHANGED <<source, reading, heard, first, backendVars, watchVars, cycleVars,
                 desired, shownVars>>

BatteryRebinds ==
  /\ LockIsFree
  /\ NewGeneration /\ PrepareRebind
  /\ UNCHANGED <<source, watched, place, state, cycleVars, desired, shownVars>>

\* The DPI thread's own, for the generation it saw fail.
Rebind ==
  /\ place = "failed" /\ LockIsFree /\ watched = generation
  /\ NewGeneration /\ PrepareRebind
  /\ place' = "unbound"
  /\ UNCHANGED <<source, watched, state, cycleVars, desired, shownVars>>

\* Another thread has replaced the generation already.
RebindRefused ==
  /\ place = "failed" /\ LockIsFree /\ watched # generation
  /\ place' = "unbound"
  /\ UNCHANGED <<deviceVars, readVars, backendVars, pending, generation, watched,
                 state, cycleVars, desired, shownVars>>

\* The resolver or the factory raises, or what it makes is no backend of the adapter:
\* the old backend is watched again, in the phase and with the baseline it has.
RebindFails ==
  /\ place = "failed" /\ LockIsFree /\ watched = generation
  /\ place' = "unbound" /\ doubt' = TRUE
  /\ UNCHANGED <<deviceVars, readVars, backendVars, pending, generation, watched,
                 state, cycleVars, desired, notified, missed>>

\* The remapper loses the evdev node: invalidate_observer_continuity, on the main thread.
ContinuityLost ==
  /\ step = "idle" /\ source.tracked
  /\ tracked' = NoDpi
  /\ UNCHANGED <<deviceVars, readVars, lastDpi, phase, observed, watchVars, cycleVars,
                 desired, shownVars>>

-----------------------------------------------------------------------------------
(* DpiCycler._cycle and DiscoveryBackend.set_dpi, on the main thread.              *)

CycleBegins ==
  /\ step = "idle"
  /\ \E v \in Stages : target' = v
  /\ step' = "begun"
  /\ UNCHANGED <<deviceVars, readVars, backendVars, watchVars, desired, shownVars>>

\* The mouse takes the write and echoes it.
CycleWrites ==
  /\ step = "begun" /\ RoomOnWire
  /\ step' = "written"
  /\ hw' = target /\ Sends(target)
  /\ UNCHANGED <<source, reading, heard, first, backendVars, watchVars, target,
                 desired, shownVars>>

\* The readback is the target.
CycleConfirms ==
  /\ step = "written" /\ hw = target
  /\ step' = "confirmed"
  /\ lastDpi' = target
  /\ UNCHANGED <<deviceVars, readVars, tracked, phase, observed, watchVars, target,
                 desired, shownVars>>

\* An exchange fails, or the readback is another: every learned session is closed.
CycleFails ==
  /\ step \in {"begun", "written"}
  /\ step' = "idle" /\ target' = NoDpi
  /\ IF source.shared
       THEN reading' = FALSE /\ wire' = <<>> /\ heard' = NoDpi /\ first' = FALSE
       ELSE UNCHANGED readVars
  /\ UNCHANGED <<deviceVars, backendVars, watchVars, desired, shownVars>>

\* record_active_dpi, in a lock acquisition of its own.
CycleRecords ==
  /\ step = "confirmed"
  /\ step' = "recorded"
  /\ desired' = target
  /\ UNCHANGED <<deviceVars, readVars, backendVars, watchVars, target, shownVars>>

\* notify_deliberate_dpi
CycleAnnounces ==
  /\ step = "recorded"
  /\ step' = "idle" /\ target' = NoDpi
  /\ \/ notified' = target /\ missed' = FALSE
     \/ missed' = TRUE /\ UNCHANGED notified
  /\ UNCHANGED <<deviceVars, readVars, backendVars, watchVars, desired, doubt>>

Mouse  == (\E v \in Stages : Press(v)) \/ Repeat \/ Disconnect
Reader == Receive \/ Decode
Watcher ==
  \/ WatchBegins \/ WatchRefused \/ Idle \/ Take \/ Check \/ Resync \/ Observe
  \/ Notify \/ WatchEnds \/ Rebind \/ RebindRefused
  \/ RebindFails
Cycler ==
  \/ CycleBegins \/ CycleWrites \/ CycleConfirms \/ CycleFails \/ CycleRecords
  \/ CycleAnnounces

Next == Mouse \/ Reader \/ Watcher \/ BatteryCollapses \/ BatteryRebinds \/ ContinuityLost
        \/ Cycler

Spec == Init /\ [][Next]_vars

-----------------------------------------------------------------------------------
(* Properties                                                                      *)

Watching == place = "waiting" /\ reading /\ watched = generation

\* Every report has been decoded and handled, and no cycle is under way.
AtRest == Watching /\ wire = <<>> /\ heard = NoDpi /\ pending = <<>> /\ step = "idle"

\* The DPI last shown is the one the mouse runs at, unless the desktop refused it.
Shown == missed \/ notified = hw

\* With a tracked source, once the mouse has reported in this generation and all its
\* reports have been handled, the DPI last shown or silently remembered is the one
\* the mouse runs at, however presses, cycles, echoes and rebinds interleave
\* (discovery_backend.py 1009-1037, notifications.py 106-142, 172-190).
ShownIsCurrent ==
  source.tracked /\ ~doubt /\ AtRest /\ tracked # NoDpi => Shown

\* Of a backend that replaced another, a descriptor watcher does not show the first report,
\* however often its watch is refused or lost before it has heard one, and though the
\* idle boundary, the battery's rebinds and a cycle fall anywhere between report and popup
\* (discovery_backend.py 1009-1037, 1070-1085).
ReplacementIsSilent == ~source.shared /\ place = "notify" => ~state.first

\* The same of a watcher that shares the learned session.
SharedReconnectIsSilent == source.shared /\ place = "notify" => ~state.first

\* A tracked mouse that stays at one DPI has it shown, or remembered after a
\* reconnect, unless its watch ends: no report waits for ever behind a cycle.
LiveDpi(d) == source.tracked /\ ~doubt /\ Watching /\ tracked # NoDpi /\ hw = d
ChangeIsShown ==
  \A d \in Stages : LiveDpi(d) ~> notified = d \/ missed \/ hw # d \/ ~reading

\* The reader, the DPI thread and the cycle under way go on; nothing of the device,
\* the battery thread or a new cycle is assumed.  A lock that is released again and
\* again is eventually granted.
Fairness ==
  /\ WF_vars(Reader)
  /\ WF_vars(Take \/ Resync \/ Notify)
  /\ SF_vars(Check) /\ SF_vars(Observe)
  /\ WF_vars(CycleWrites \/ CycleConfirms \/ CycleFails \/ CycleRecords
             \/ CycleAnnounces)

FairSpec == Spec /\ Fairness
================================================================================
