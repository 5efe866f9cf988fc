---------------------------- MODULE SetupSession ----------------------------
(* One interactive setup, from the systemd unit that surrounds it to the mouse *)
(* it edits: foreground_session.py and service.py (what runs before and after), *)
(* setup_tui_curses.py (the worker that prepares a mouse, the editors),         *)
(* setup_tui.py and setup_flow.py (backend and staged choices), setup_entry.py  *)
(* (commit or roll back).  systemd itself and the user are external.            *)
(*                                                                            *)
(* A DPI is one value for each axis and stands for the device's stages; polling *)
(* and lighting are staged in the same way and have no live test, so they are    *)
(* left out.                                                                    *)
EXTENDS Integers, FiniteSets

CONSTANTS Devices, Dpis, None,
          Start  \* the DPI of each mouse before the setup

\* A DPI for X and one for Y.
Readings == Dpis \X Dpis

ASSUME StartIsDpi == Start \in [Devices -> Readings]

VARIABLES
  service, found,  \* the background service, and what it was at the start
  record,          \* foreground-session.json
  stage,           \* where the session is
  exit,            \* why the application leaves: "cancel", "error", "save" or "kill"
  cursor, selected,
  worker,          \* the initialization thread
  ready,           \* a backend was adopted (backend_ready)
  open,            \* who holds an open backend
  busy,            \* what the main loop is busy with, and what a probe has read of the mouse
  dpi,             \* each mouse's DPI
  original,        \* choices.original_dpi
  edit,            \* the open DPI editor: its entry value and its tested value
  staged,          \* choices.active_dpi once changed
  enable,          \* choices.enable_service
  asked, edited, trouble, saved
    \* ghosts: the user started or stopped the service from the setup; mice that were
    \* edited, applied to or researched; some read or write of a mouse failed; the
    \* configuration is saved

hw == <<dpi>>
choices == <<original, staged, enable>>
ui == <<cursor, selected, worker, ready, open, busy>>
ghosts == <<asked, edited, trouble, saved>>
unit == <<service, found, record>>
vars == <<unit, stage, exit, ui, hw, choices, edit, ghosts>>

Idle == [step |-> "none", target |-> None, original |-> None]
MaybeDpi == Dpis \cup {None}

\* Button capture and the measurements of movement grab the input node; a probe opens the
\* mouse a second time.
Doing(what) == [kind |-> what, original |-> None, changed |-> FALSE]
Free == Doing("none")

Init ==
  /\ service \in {"active", "crashed", "inactive"} /\ found = service
  /\ record = None /\ stage = "prepare" /\ exit = "none"
  /\ cursor \in Devices /\ selected = cursor /\ worker = Idle /\ ready = FALSE
  /\ open = {} /\ busy = Free
  /\ dpi = Start
  /\ original = None /\ edit = None /\ staged = None /\ enable = TRUE
  /\ asked = FALSE /\ edited = {} /\ trouble = FALSE /\ saved = FALSE

-----------------------------------------------------------------------------
(* The service and systemd.                                                   *)

Stopped ==
  IF service = "active" THEN "stopping" ELSE IF service = "crashed" THEN "inactive" ELSE service

ServiceStops ==
  /\ service = "stopping" /\ service' = "inactive"
  /\ UNCHANGED <<found, record, stage, exit, ui, hw, choices, edit, ghosts>>

\* Restart=on-failure brings a crashed service back.
ServiceRestarts ==
  /\ service = "crashed" /\ service' = "active"
  /\ UNCHANGED <<found, record, stage, exit, ui, hw, choices, edit, ghosts>>

ServiceCrashes ==
  /\ stage = "recorded" /\ service = "active" /\ service' = "crashed"
  /\ UNCHANGED <<found, record, stage, exit, ui, hw, choices, edit, ghosts>>

\* Faulty variant: the stop is requested before the state is recorded.
PrepareLate ==
  /\ stage = "prepare"
  /\ service' = Stopped
  /\ record' = [was |-> service' = "active", preference |-> "none"]
  /\ stage' = "recorded"
  /\ UNCHANGED <<found, exit, ui, hw, choices, edit, ghosts>>

\* prepare(), in two steps: what is recorded, then the queued stop.
Prepare ==
  /\ stage = "prepare" /\ stage' = "recorded"
  /\ record' = [was |-> service = "active", preference |-> "none"]
  /\ UNCHANGED <<service, found, exit, ui, hw, choices, edit, ghosts>>

Suspend ==
  /\ stage = "recorded"
  /\ \/ record.was /\ service' = Stopped /\ stage' = "tui"
     \/ record.was /\ stage' = "exited" /\ UNCHANGED service \* the request is refused
     \/ ~record.was /\ stage' = "tui" /\ UNCHANGED service
  /\ UNCHANGED <<found, record, exit, ui, hw, choices, edit, ghosts>>

\* restore(), after the application is gone, however it went.
ShouldRun == record.preference = "enabled" \/ (record.preference = "none" /\ record.was)
Restore ==
  /\ stage = "exited"
  /\ \/ ShouldRun /\ service' = "active" /\ stage' = "done" /\ record' = None
     \/ ShouldRun /\ stage' = "failed" /\ UNCHANGED <<service, record>>
     \/ ~ShouldRun /\ stage' = "done" /\ record' = None /\ UNCHANGED service
  /\ UNCHANGED <<found, exit, ui, hw, choices, edit, ghosts>>

-----------------------------------------------------------------------------
(* The worker that opens the first backend, and the main loop that adopts it.  *)

StartedFor(d) == [step |-> "waiting", target |-> d, original |-> None]

\* At the first frame, and again when the user activates a mouse that is not ready.
StartWorker ==
  /\ stage = "tui" /\ ~ready /\ worker = Idle
  /\ worker' = StartedFor(cursor)
  /\ UNCHANGED <<unit, stage, exit, cursor, selected, ready, open, busy, hw, choices, edit,
                 ghosts>>

\* complete_pending_suspension(): the blocking stop of a service that was active.
WorkerAsksStop ==
  /\ worker.step = "waiting" /\ record.was
  /\ \/ service' = Stopped /\ worker' = [worker EXCEPT !.step = "stopping"]
     \/ UNCHANGED service /\ worker' = [worker EXCEPT !.step = "failed"]
  /\ UNCHANGED <<found, record, stage, exit, cursor, selected, ready, open, busy,
                 hw, choices, edit, ghosts>>

\* Faulty variant: the worker does not wait for the queued stop.
MayOpenAtOnce == worker.step \in {"waiting", "stopping"}

MayOpen == \/ worker.step = "waiting" /\ ~record.was
           \/ worker.step = "stopping" /\ service # "stopping"

\* A reading has a value for each axis; the first is taken.
DpiNumber(reading) == reading[1]

\* What discover_choices reads of the mouse; the query may fail.
Reads(d, values) == {DpiNumber(values[d]), None}

WorkerOpens ==
  /\ MayOpen
  /\ \/ \E r \in Reads(worker.target, dpi) :
          /\ worker' = [worker EXCEPT !.step = "opened", !.original = r]
          /\ open' = open \cup {"worker"}
          /\ trouble' = (trouble \/ r = None)
     \/ worker' = [worker EXCEPT !.step = "failed"] /\ UNCHANGED <<open, trouble>>
  /\ UNCHANGED <<unit, stage, exit, cursor, selected, ready, busy, hw, choices, edit,
                 asked, edited, saved>>

MoveCursor ==
  /\ stage = "tui" /\ edit = None /\ busy = Free
  /\ cursor' \in Devices \ {cursor}
  /\ UNCHANGED <<unit, stage, exit, selected, worker, ready, open, busy, hw, choices, edit,
                 ghosts>>

Rejected == open \ {"worker"}

\* _poll_initialization.
Adopt ==
  /\ stage = "tui"
  /\ \/ /\ worker.step = "failed" /\ worker' = Idle
        /\ UNCHANGED <<selected, ready, open, original>>
     \/ /\ worker.step = "opened" /\ worker.target # cursor
        /\ worker' = StartedFor(cursor) /\ open' = Rejected
        /\ UNCHANGED <<selected, ready, original>>
     \/ /\ worker.step = "opened" /\ worker.target = cursor
        /\ worker' = Idle /\ ready' = TRUE /\ selected' = worker.target
        /\ open' = (open \ {"worker"}) \cup {"main"} /\ original' = worker.original
  /\ UNCHANGED <<unit, stage, exit, cursor, busy, hw, staged, enable, edit, ghosts>>

-----------------------------------------------------------------------------
(* What the user does with the adopted mouse.                                 *)

Using == stage = "tui" /\ ready /\ edit = None /\ busy = Free

\* A mouse with two axes is set on both of them.
Both(v) == <<v, v>>

\* A write to the selected mouse through the main backend, which may fail.
Writes(d, v) ==
  \/ "main" \in open /\ v # None /\ dpi' = [dpi EXCEPT ![d] = Both(v)] /\ UNCHANGED trouble
  \/ v # None /\ trouble' = TRUE /\ UNCHANGED dpi
  \/ v = None /\ UNCHANGED <<dpi, trouble>>

\* discover_choices: every fact of the mouse is reset, then read again.
Discover(d, values) ==
  \E r \in Reads(d, values) : original' = r /\ trouble' = (trouble \/ r = None)

\* Faulty variant: the selection has moved when the old mouse is restored.
RestoredLate(d) == [dpi EXCEPT ![cursor] = IF original = None THEN @ ELSE Both(original)]

RestoredOn(d) == [dpi EXCEPT ![d] = IF original = None THEN @ ELSE Both(original)]

\* _bind_device: another mouse; the old one gets its DPI back and is closed. The
\* choices of the old mouse go with it. A factory that raises ends the setup.
Bind ==
  /\ Using /\ cursor # selected
  /\ \E values \in {dpi, RestoredOn(selected)} :
       /\ (values # dpi => "main" \in open)
       /\ dpi' = values /\ selected' = cursor /\ staged' = None /\ enable' = TRUE
       /\ \/ open' = {"main"} /\ UNCHANGED <<stage, exit>>
             /\ \E r \in Reads(cursor, values) :
                  /\ original' = r
                  /\ trouble' = (trouble \/ r = None \/ values # RestoredOn(selected))
          \/ /\ open' = {} /\ original' = None /\ stage' = "leaving" /\ exit' = "error"
             /\ trouble' = TRUE
  /\ UNCHANGED <<unit, cursor, worker, ready, busy, edit, asked, edited, saved>>

\* The backend of this mouse is closed and opened again; a factory that raises
\* leaves the closed one.
Rebuilt ==
  \/ open' = {"main"} /\ Discover(selected, dpi)
  \/ open' = {} /\ UNCHANGED <<original, trouble>>

\* Discovery ends with a rebuilt backend; a factory that raises there ends the setup. The
\* user may then let it research what was demonstrated of the mouse.
RunAutomatic ==
  /\ Using /\ Rebuilt
  /\ IF open' = {} THEN stage' = "leaving" /\ exit' = "error" /\ UNCHANGED busy
                   ELSE busy' \in {Free, Doing("probe")} /\ UNCHANGED <<stage, exit>>
  /\ UNCHANGED <<unit, cursor, selected, worker, ready, hw, staged, enable, edit, asked, edited,
                 saved>>

\* A probe opens a session of its own beside the backend and reads the mouse; either may fail.
ProbeOpens ==
  /\ busy = Doing("probe") /\ "probe" \notin open
  /\ \/ /\ open' = open \cup {"probe"} /\ UNCHANGED trouble
        /\ busy' = [busy EXCEPT !.original = DpiNumber(dpi[selected])]
     \/ busy' = Free /\ trouble' \in {trouble, TRUE} /\ UNCHANGED open
  /\ UNCHANGED <<unit, stage, exit, cursor, selected, worker, ready, hw, choices, edit, asked,
                 edited, saved>>

\* It writes another value. Unless that is read back the probe is over, and the mouse may be
\* left at it.
ProbeWrites ==
  /\ "probe" \in open /\ ~busy.changed
  /\ \E v \in Dpis \ {busy.original} : dpi' \in {dpi, [dpi EXCEPT ![selected] = Both(v)]}
  /\ edited' = edited \cup {selected}
  /\ \/ dpi' # dpi /\ busy' = [busy EXCEPT !.changed = TRUE] /\ UNCHANGED <<open, trouble>>
     \/ busy' = Free /\ open' = open \ {"probe"} /\ trouble' = TRUE
  /\ UNCHANGED <<unit, stage, exit, cursor, selected, worker, ready, choices, edit, asked, saved>>

\* It is declined, done or broken off: what was changed is written back, which may fail.
ProbeEnds ==
  /\ "probe" \in open /\ busy' = Free /\ open' = open \ {"probe"}
  /\ \/ ~busy.changed /\ UNCHANGED <<dpi, trouble>>
     \/ busy.changed /\ dpi' = [dpi EXCEPT ![selected] = Both(busy.original)] /\ UNCHANGED trouble
     \/ busy.changed /\ trouble' = TRUE /\ UNCHANGED dpi
  /\ UNCHANGED <<unit, stage, exit, cursor, selected, worker, ready, choices, edit, asked, edited,
                 saved>>

\* Deeper learning only rebuilds it once it has saved a profile.
LearnDeeper ==
  \/ RunAutomatic /\ busy' = Free
  \/ Using /\ UNCHANGED vars

\* Polling, the lab and deeper learning grab the node with the backend open.
StartMeasuring ==
  /\ Using /\ busy' = Doing("measure")
  /\ UNCHANGED <<unit, stage, exit, cursor, selected, worker, ready, open, hw, choices, edit,
                 ghosts>>

EndMeasuring ==
  /\ busy = Doing("measure") /\ busy' = Free
  /\ UNCHANGED <<unit, stage, exit, cursor, selected, worker, ready, open, hw, choices, edit,
                 ghosts>>

\* _button_editor: the backend is closed before the node is grabbed, and rebuilt in
\* the end; there a failure is only a message.
StartCapture ==
  /\ Using /\ busy' = Doing("capture") /\ open' = {}
  /\ UNCHANGED <<unit, stage, exit, cursor, selected, worker, ready, hw, choices, edit, ghosts>>

EndCapture ==
  /\ busy = Doing("capture") /\ busy' = Free /\ Rebuilt
  /\ UNCHANGED <<unit, stage, exit, cursor, selected, worker, ready, hw, staged, enable, edit,
                 asked, edited, saved>>

\* DpiEditSession.
OpenEditor ==
  /\ Using
  /\ \/ edit' = [entry |-> DpiNumber(dpi[selected]), tested |-> None] /\ UNCHANGED trouble
     \/ edit' = [entry |-> original, tested |-> None] /\ trouble' = TRUE
  /\ edited' = edited \cup {selected}
  /\ UNCHANGED <<unit, stage, exit, ui, hw, choices, asked, saved>>

\* The write may be refused, or take effect and not be confirmed.
Test ==
  /\ stage = "tui" /\ edit # None
  /\ \E v \in Dpis :
       /\ Writes(selected, v)
       /\ edit' \in {[edit EXCEPT !.tested = v], edit}
       /\ (edit' # edit => dpi'[selected] = Both(v))
       /\ (edit' = edit => edit.tested = v \/ trouble')
  /\ UNCHANGED <<unit, stage, exit, ui, choices, asked, edited, saved>>

UseCurrent ==
  /\ stage = "tui" /\ edit # None /\ "main" \in open
  /\ edit' = [edit EXCEPT !.tested = DpiNumber(dpi[selected])]
  /\ UNCHANGED <<unit, stage, exit, ui, hw, choices, ghosts>>

Accept ==
  /\ stage = "tui" /\ edit # None /\ edit.tested # None
  /\ staged' = edit.tested /\ edit' = None
  /\ UNCHANGED <<unit, stage, exit, ui, hw, original, enable, ghosts>>

CancelEdit ==
  /\ stage = "tui" /\ edit # None /\ edit' = None
  /\ Writes(selected, edit.entry)
  /\ UNCHANGED <<unit, stage, exit, ui, choices, asked, edited, saved>>

ChooseService ==
  /\ Using /\ enable' = ~enable
  /\ UNCHANGED <<unit, stage, exit, ui, hw, original, staged, edit, ghosts>>

\* Service page, rows start, stop and restart.
ServiceAction ==
  /\ Using /\ asked' = TRUE
  /\ service' \in {"active", "inactive"}
  /\ UNCHANGED <<found, record, stage, exit, ui, hw, choices, edit, edited, trouble, saved>>

-----------------------------------------------------------------------------
(* Leaving.                                                                   *)

\* The user quits or saves; an error or Ctrl-C may strike anywhere. A capture or a probe
\* that is cut short still ends as EndCapture and ProbeEnds do.
Leave ==
  /\ stage = "tui" /\ busy = Free
  /\ \/ edit = None /\ exit' = "cancel"
     \/ edit = None /\ ready /\ exit' = "save"
     \/ exit' = "error"
  /\ stage' = "leaving" /\ edit' = None
  /\ UNCHANGED <<unit, ui, hw, choices, ghosts>>

\* The whole unit may be killed: nothing of the application runs any more.
Kill ==
  /\ stage \in {"tui", "leaving", "applied", "recording"}
  /\ stage' = "exited" /\ exit' = "kill"
  /\ open' = {} /\ worker' = Idle /\ busy' = Free /\ edit' = None
  /\ UNCHANGED <<unit, cursor, selected, ready, hw, choices, ghosts>>

\* Faulty variant: only a backend is taken from the worker, never its error.
JoinReadyOnly ==
  /\ stage = "leaving" /\ worker.step = "opened"
  /\ worker' = Idle /\ open' = open \ {"worker"}
  /\ UNCHANGED <<unit, stage, exit, cursor, selected, ready, busy, hw, choices, edit, ghosts>>

\* _finish_initialization: the worker is joined and its backend closed.
Join ==
  /\ stage = "leaving" /\ worker.step \in {"opened", "failed"}
  /\ worker' = Idle /\ open' = open \ {"worker"}
  /\ UNCHANGED <<unit, stage, exit, cursor, selected, ready, busy, hw, choices, edit, ghosts>>

\* Not saved: the mouse gets the DPI that discovery last recorded.
RollBack ==
  /\ stage = "leaving" /\ worker = Idle /\ exit # "save"
  /\ Writes(selected, IF ready THEN original ELSE None)
  /\ stage' = "exited" /\ open' = {}
  /\ UNCHANGED <<unit, exit, cursor, selected, worker, ready, busy, choices, edit,
                 asked, edited, saved>>

\* _apply_hardware: what was changed or, where no preference was stored yet, a default. A
\* failure is only logged.
Apply ==
  /\ stage = "leaving" /\ worker = Idle /\ exit = "save" /\ stage' = "applied"
  /\ \E v \in IF staged = None THEN MaybeDpi ELSE {staged} :
       /\ Writes(selected, v)
       /\ edited' = IF v = None THEN edited ELSE edited \cup {selected}
  /\ UNCHANGED <<unit, exit, ui, choices, edit, asked, saved>>

SaveConfig ==
  /\ stage = "applied"
  /\ \/ saved' = TRUE /\ stage' = "recording" /\ UNCHANGED <<dpi, open, trouble>>
     \/ Writes(selected, original) /\ stage' = "exited" /\ open' = {} /\ UNCHANGED saved
  /\ UNCHANGED <<unit, exit, cursor, selected, worker, ready, busy, choices, edit,
                 asked, edited>>

\* The unit is enabled or disabled, and only then the preference is recorded.
RecordPreference ==
  /\ stage = "recording" /\ stage' = "exited" /\ open' = {}
  /\ \/ record' = [record EXCEPT !.preference = IF enable THEN "enabled" ELSE "disabled"]
     \/ UNCHANGED record
  /\ UNCHANGED <<service, found, exit, cursor, selected, worker, ready, busy, hw, choices, edit,
                 ghosts>>

-----------------------------------------------------------------------------

Leaving == Join \/ RollBack \/ Apply \/ SaveConfig \/ RecordPreference
Working == WorkerAsksStop \/ WorkerOpens

Next ==
  \/ ServiceStops \/ ServiceRestarts \/ ServiceCrashes \/ Prepare \/ Suspend \/ Restore
  \/ StartWorker \/ WorkerAsksStop \/ WorkerOpens \/ MoveCursor \/ Adopt
  \/ Bind \/ RunAutomatic \/ ProbeOpens \/ ProbeWrites \/ ProbeEnds \/ LearnDeeper
  \/ StartMeasuring \/ EndMeasuring \/ StartCapture \/ EndCapture
  \/ OpenEditor \/ Test \/ UseCurrent \/ Accept \/ CancelEdit
  \/ ChooseService \/ ServiceAction \/ Leave \/ Kill
  \/ Join \/ RollBack \/ Apply \/ SaveConfig \/ RecordPreference

\* The user may stay for ever; threads, systemd and what follows the decision to
\* leave are scheduled.
Spec == Init /\ [][Next]_vars /\ WF_vars(ServiceStops) /\ WF_vars(Working)
             /\ WF_vars(Leaving) /\ WF_vars(Restore)

-----------------------------------------------------------------------------

UnitType ==
  /\ service \in {"active", "stopping", "crashed", "inactive"}
  /\ found \in {"active", "crashed", "inactive"}
  /\ record \in {None} \cup [was : BOOLEAN, preference : {"none", "enabled", "disabled"}]
  /\ stage \in {"prepare", "recorded", "tui", "leaving", "applied", "recording", "exited", "done",
                "failed"}
  /\ exit \in {"none", "cancel", "error", "save", "kill"}
UiType ==
  /\ cursor \in Devices /\ selected \in Devices
  /\ worker \in [step : {"none", "waiting", "stopping", "opened", "failed"},
                 target : Devices \cup {None}, original : MaybeDpi]
  /\ ready \in BOOLEAN /\ open \subseteq {"main", "worker", "probe"}
  /\ busy \in [kind : {"none", "probe", "measure", "capture"}, original : MaybeDpi,
              changed : BOOLEAN]
ChoiceType ==
  /\ dpi \in [Devices -> Readings]
  /\ original \in MaybeDpi /\ staged \in MaybeDpi /\ enable \in BOOLEAN
  /\ edit \in {None} \cup [entry : MaybeDpi, tested : MaybeDpi]
GhostType ==
  /\ asked \in BOOLEAN /\ edited \subseteq Devices /\ trouble \in BOOLEAN /\ saved \in BOOLEAN

\* Every variable has its type.
TypeOK == UnitType /\ UiType /\ ChoiceType /\ GhostType

\* When the unit is done and nothing was saved, a service that was found active runs and one
\* that was found inactive does not: after cancel, error and kill alike. What the saved
\* preference asks for is another matter, and so is a service that was found crashed.
ServiceAsBefore ==
  stage = "done" /\ ~asked /\ ~saved =>
    /\ found = "active" => service = "active"
    /\ found = "inactive" => service = "inactive"

\* A mouse that was neither edited nor applied to nor researched shows the DPI it had, the
\* one of its X axis, through binds, roll backs and failures: no value of one mouse reaches
\* another (setup_tui.py:349). The Y axis of such a mouse may be lost: _dpi_number keeps
\* the X of a pair (setup_flow.py:97).
UneditedKeepsDpi ==
  \A d \in Devices \ edited : DpiNumber(dpi[d]) = DpiNumber(Start[d])

\* Once the application is leaving, the unit ends: the join of the worker cannot
\* hang, not even while the worker waits for the service to stop.
LeavingEnds == stage = "leaving" ~> stage \in {"done", "failed"}

\* "Temporary DPI tests will be restored" (setup_tui_curses.py:2060): after a
\* cancelled setup in which no read or write failed, every mouse shows the DPI it had.
CancelRestores ==
  stage = "exited" /\ exit = "cancel" /\ ~trouble =>
    \A d \in Devices : DpiNumber(dpi[d]) = DpiNumber(Start[d])

\* The worker and the main loop hand the mouse over or close it (setup_tui_curses.py:237-290),
\* and the button editor has closed it: neither meets another backend. The session of a probe
\* and the grab of a measurement are beside the backend of the same thread.
OneBackend == Cardinality(open \ {"probe"}) <= 1 /\ (busy.kind = "capture" => open = {})

\* A service that was found active is down before any backend is open, the node is grabbed or
\* the mouse is researched, though its stop is only queued at first
\* (foreground_session.py:75-81); the user's own start from the Service page is not covered.
AloneOnHardware ==
  (open # {} \/ busy # Free) /\ record # None /\ record.was /\ ~asked => service = "inactive"

\* The mouse goes from the service to the worker, to the main loop, to the button editor and
\* back, and two of them never have it at a time.
MouseIsHandedOver == OneBackend /\ AloneOnHardware

=============================================================================
