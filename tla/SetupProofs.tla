------------------------------ MODULE SetupProofs ------------------------------
(* For every set of mice and of DPI values: a mouse is handed over, the service is *)
(* left as it was found, and no DPI value of one mouse reaches another. For any     *)
(* versions: what an update reports has happened. For any device nodes: what a      *)
(* discovery calls writable was proven, and a bootloader is left alone. For any     *)
(* mice: what is said to last does. For any families: the one that is recognized    *)
(* leads. For any files: what is accepted of them agrees.                           *)
EXTENDS Setup, Sequences, FiniteSetTheorems, TLAPS

\* The application runs, with the service out of the way.
Running == {"tui", "leaving", "applied", "recording"}
Recorded == stage \notin {"prepare", "done"}
Records == [was : BOOLEAN, preference : {"none", "enabled", "disabled"}]
Edits == [entry : MaybeDpi, tested : MaybeDpi]
Kinds == {"none", "probe", "measure", "capture"}
Tasks == [kind : Kinds, original : MaybeDpi, changed : BOOLEAN]

\* The record is there from prepare() to restore(), and the initialization thread is
\* gone once a backend is adopted, and again once the application leaves.
StepInv ==
  /\ Recorded => record \in Records
  /\ worker.step # "none" =>
       worker.target \in Devices /\ ~ready /\ stage \in {"tui", "leaving"}
  /\ edit # None => ready /\ stage = "tui"
  /\ busy # Free => ready /\ stage = "tui" /\ edit = None
  /\ "probe" \in open => busy.kind = "probe" /\ busy.original \in Dpis
  /\ ready => stage \notin {"prepare", "recorded"}

IInv == TypeOK /\ StepInv

\* What is recorded is what was found, and the preference is recorded only once the
\* configuration is saved.
FoundInv ==
  /\ stage = "prepare" => /\ found = "active" => service = "active"
                          /\ found = "inactive" => service = "inactive"
  /\ found = "inactive" /\ ~asked /\ ~saved => service = "inactive"
  /\ Recorded => /\ found = "active" => record.was
                 /\ found = "inactive" => ~record.was
                 /\ ~saved => record.preference = "none"
  /\ stage = "recording" => saved
  /\ stage = "done" /\ found = "active" /\ ~asked /\ ~saved => service = "active"

\* A backend belongs to the thread until it is adopted, and to the application from then
\* on; a service that ran is on its way down all along, and down before the first backend.
AloneInv ==
  /\ open # {} => stage \in Running
  /\ "worker" \in open => worker.step = "opened"
  /\ "main" \in open => ready /\ busy.kind # "capture"
  /\ "probe" \in open => ready
  /\ stage \in Running /\ record.was /\ ~asked =>
       /\ service \in {"stopping", "inactive"}
       /\ ready \/ worker.step = "opened" => service = "inactive"

\* Whatever DPI is held for a mouse that was not edited, read by the thread or recorded by
\* discovery, is that mouse's own.
OwnInv ==
  /\ UneditedKeepsDpi
  /\ selected \notin edited => original \in {None, DpiNumber(Start[selected])}
  /\ worker.step = "opened" /\ worker.target \notin edited =>
       worker.original \in {None, DpiNumber(Start[worker.target])}
  /\ edit # None => selected \in edited

\* A mouse that a probe has changed counts as one that was edited.
ProbeInv == busy.changed => selected \in edited

-----------------------------------------------------------------------------------
(* Types                                                                           *)

\* What the main loop is busy with when it begins.
LEMMA DoingIs ==
  /\ \A what \in Kinds : Doing(what) \in Tasks /\ Doing(what).kind = what
                         /\ ~Doing(what).changed
  /\ Free \in Tasks /\ Free.kind = "none" /\ ~Free.changed
  BY DEF Doing, Free, Tasks, Kinds, MaybeDpi

LEMMA InitIInv == Init => IInv
<1> SUFFICES ASSUME Init PROVE IInv
  OBVIOUS
<1>1. UnitType /\ UiType
  BY DoingIs DEF Init, UnitType, UiType, Idle, MaybeDpi, Tasks, Kinds
<1>2. ChoiceType /\ GhostType
  BY StartIsDpi DEF Init, ChoiceType, GhostType, MaybeDpi
<1>3. StepInv
  BY DEF Init, StepInv, Recorded, Idle
<1> QED
  BY <1>1, <1>2, <1>3 DEF IInv, TypeOK

\* What a write does to the mice, and what a query can return.
LEMMA WriteTypes ==
  ASSUME IInv, NEW v \in MaybeDpi, Writes(selected, v)
  PROVE  dpi' \in [Devices -> Readings] /\ trouble' \in BOOLEAN
<1>1. v # None => Both(v) \in Readings
  BY DEF Both, Readings, MaybeDpi
<1> QED
  BY <1>1 DEF Writes, IInv, TypeOK, UiType, ChoiceType, GhostType

\* The number of a DPI is one of its two values, and a value set on both axes is its number.
LEMMA NumberTypes ==
  /\ \A reading \in Readings : DpiNumber(reading) \in Dpis
  /\ \A v \in Dpis : Both(v) \in Readings /\ DpiNumber(Both(v)) = v
  BY DEF DpiNumber, Both, Readings

LEMMA ReadTypes ==
  ASSUME NEW d \in Devices, NEW values \in [Devices -> Readings], NEW r \in Reads(d, values)
  PROVE  r \in MaybeDpi /\ (r = None \/ r = DpiNumber(values[d]))
  BY NumberTypes DEF Reads, MaybeDpi

LEMMA RebuiltTypes ==
  ASSUME IInv, Rebuilt
  PROVE  original' \in MaybeDpi /\ trouble' \in BOOLEAN /\ open' \in {{}, {"main"}}
<1>1. /\ selected \in Devices /\ dpi \in [Devices -> Readings]
      /\ original \in MaybeDpi /\ trouble \in BOOLEAN
  BY DEF IInv, TypeOK, UiType, ChoiceType, GhostType
<1>2. CASE Discover(selected, dpi) /\ open' = {"main"}
  BY <1>1, <1>2, ReadTypes DEF Discover
<1>3. CASE open' = {} /\ UNCHANGED <<original, trouble>>
  BY <1>1, <1>3
<1> QED
  BY <1>2, <1>3 DEF Rebuilt

\* systemd and what runs around the application.
LEMMA UnitIInv ==
  IInv /\ (ServiceStops \/ ServiceRestarts \/ ServiceCrashes \/ Prepare \/ Suspend \/ Restore)
    => IInv'
<1> SUFFICES ASSUME IInv, ServiceStops \/ ServiceRestarts \/ ServiceCrashes \/ Prepare \/ Suspend
                          \/ Restore
             PROVE  IInv'
  OBVIOUS
<1>1. UNCHANGED <<found, exit, ui, hw, choices, edit, ghosts>>
  BY DEF ServiceStops, ServiceRestarts, ServiceCrashes, Prepare, Suspend, Restore, hw, choices,
         ui, ghosts, unit
<1>2. UnitType' /\ (Recorded => record \in Records)'
  <2>1. UnitType /\ (Recorded => record \in Records)
    BY DEF IInv, TypeOK, StepInv
  <2> USE DEF UnitType, Recorded, Records
  <2>2. CASE ServiceStops \/ ServiceRestarts \/ ServiceCrashes
    BY <2>1, <2>2 DEF ServiceStops, ServiceRestarts, ServiceCrashes
  <2>3. CASE Prepare
    BY <2>1, <2>3 DEF Prepare
  <2>4. CASE Suspend
    BY <2>1, <2>4 DEF Suspend, Stopped
  <2>5. CASE Restore
    BY <2>1, <2>5 DEF Restore
  <2> QED
    BY <2>2, <2>3, <2>4, <2>5
<1>3. UiType' /\ ChoiceType' /\ GhostType'
  BY <1>1 DEF hw, choices, ui, ghosts, IInv, TypeOK, UiType, ChoiceType, GhostType, MaybeDpi
<1>5. \/ stage' = stage
      \/ stage \in {"prepare", "recorded"}
      \/ stage = "exited" /\ stage' \in {"done", "failed"}
  BY DEF ServiceStops, ServiceRestarts, ServiceCrashes, Prepare, Suspend, Restore
<1>6. StepInv'
  BY <1>1, <1>2, <1>5 DEF IInv, StepInv, ui
<1> QED
  BY <1>2, <1>3, <1>6 DEF IInv, TypeOK

\* The initialization thread, from its start to its adoption or to its join.
LEMMA WorkerIInv ==
  IInv /\ (StartWorker \/ WorkerAsksStop \/ WorkerOpens \/ Adopt \/ Join) => IInv'
<1> SUFFICES ASSUME IInv, StartWorker \/ WorkerAsksStop \/ WorkerOpens \/ Adopt \/ Join
             PROVE  IInv'
  OBVIOUS
<1>1. /\ UNCHANGED <<found, record, stage, exit, cursor, busy, dpi, staged, enable, edit,
                     asked, edited, saved>>
      /\ service' \in {service, Stopped}
  BY DEF StartWorker, WorkerAsksStop, WorkerOpens, Adopt, Join, hw, choices, ui, ghosts, unit
<1>2. UnitType'
  BY <1>1 DEF IInv, TypeOK, UnitType, Stopped
<1>3. /\ cursor \in Devices
      /\ worker \in [step : {"none", "waiting", "stopping", "opened", "failed"},
                     target : Devices \cup {None}, original : MaybeDpi]
      /\ original \in MaybeDpi /\ selected \in Devices /\ ready \in BOOLEAN
      /\ open \subseteq {"main", "worker", "probe"} /\ trouble \in BOOLEAN
      /\ dpi \in [Devices -> Readings] /\ None \in MaybeDpi
  BY DEF IInv, TypeOK, UiType, ChoiceType, GhostType, MaybeDpi
<1> DEFINE Fits ==
      /\ worker' \in [step : {"none", "waiting", "stopping", "opened", "failed"},
                      target : Devices \cup {None}, original : MaybeDpi]
      /\ worker'.step # "none" => /\ worker'.target \in Devices /\ ~ready'
                                  /\ stage \in {"tui", "leaving"}
      /\ ready' \in BOOLEAN /\ (ready' # ready => stage = "tui" /\ ready')
      /\ selected' \in Devices /\ open' \subseteq {"main", "worker", "probe"}
      /\ "probe" \in open' => "probe" \in open
      /\ original' \in MaybeDpi /\ trouble' \in BOOLEAN
<1>4. Fits
  <2>1. worker.step # "none" =>
          worker.target \in Devices /\ ~ready /\ stage \in {"tui", "leaving"}
    BY DEF IInv, StepInv
  <2>2. CASE StartWorker
    BY <1>3, <2>2 DEF StartWorker, StartedFor, choices, ghosts
  <2>3. CASE WorkerAsksStop
    BY <1>3, <2>1, <2>3 DEF WorkerAsksStop, choices, ghosts
  <2>4. CASE WorkerOpens
    <3>1. worker.step # "none" /\ UNCHANGED <<ready, selected, original>>
      BY <2>4 DEF WorkerOpens, MayOpen, choices
    <3>2. CASE worker' = [worker EXCEPT !.step = "failed"] /\ UNCHANGED <<open, trouble>>
      BY <1>3, <2>1, <3>1, <3>2
    <3>3. ASSUME NEW r \in Reads(worker.target, dpi),
                 worker' = [worker EXCEPT !.step = "opened", !.original = r],
                 open' = open \cup {"worker"}, trouble' = (trouble \/ r = None)
          PROVE  Fits
      <4>1. r \in MaybeDpi
        BY <1>3, <2>1, <3>1, <3>3, ReadTypes
      <4> QED
        BY <1>3, <2>1, <3>1, <3>3, <4>1
    <3> HIDE DEF Fits
    <3> QED
      BY <2>4, <3>2, <3>3 DEF WorkerOpens
  <2>5. CASE Adopt
    <3>1. stage = "tui" /\ UNCHANGED trouble
      BY <2>5 DEF Adopt, ghosts
    <3>2. CASE worker' = Idle /\ UNCHANGED <<selected, ready, open, original>>
      BY <1>3, <3>1, <3>2 DEF Idle
    <3>3. CASE /\ worker.step = "opened" /\ worker' = StartedFor(cursor) /\ open' = Rejected
               /\ UNCHANGED <<selected, ready, original>>
      BY <1>3, <2>1, <3>1, <3>3 DEF StartedFor, Rejected
    <3>4. CASE /\ worker.step = "opened" /\ worker' = Idle /\ ready' = TRUE
               /\ selected' = worker.target
               /\ open' = (open \ {"worker"}) \cup {"main"} /\ original' = worker.original
      BY <1>3, <2>1, <3>1, <3>4 DEF Idle
    <3> HIDE DEF Fits
    <3> QED
      BY <2>5, <3>2, <3>3, <3>4 DEF Adopt
  <2>6. CASE Join
    BY <1>3, <2>6 DEF Join, Idle, choices, ghosts
  <2> QED
    BY <2>2, <2>3, <2>4, <2>5, <2>6
<1>5. UiType' /\ ChoiceType' /\ GhostType'
  BY <1>1, <1>4 DEF IInv, TypeOK, UiType, ChoiceType, GhostType, MaybeDpi
<1>6. StepInv'
  BY <1>1, <1>4 DEF IInv, StepInv, Recorded, Records
<1> QED
  BY <1>2, <1>5, <1>6 DEF IInv, TypeOK

\* A step of the user or of the application that leaves the service and the thread alone.
LEMMA KeepsUnit ==
  ASSUME IInv, UNCHANGED <<unit, worker>>,
         stage' \in {stage, "leaving"}, stage \in {"tui", "leaving"},
         exit' \in {exit, "cancel", "error", "save"},
         worker.step # "none" => ~ready',
         edit' # None => ready' /\ stage' = "tui",
         busy' # Free => ready' /\ stage' = "tui" /\ edit' = None,
         "probe" \in open' => busy'.kind = "probe" /\ busy'.original \in Dpis
  PROVE  UnitType' /\ StepInv'
<1>1. UnitType'
  BY DEF IInv, TypeOK, UnitType, unit
<1>2. StepInv'
  BY DEF IInv, StepInv, unit, Recorded, Records
<1> QED
  BY <1>1, <1>2

LEMMA MouseIInv ==
  IInv /\ (MoveCursor \/ Bind \/ RunAutomatic \/ StartMeasuring \/ EndMeasuring \/ StartCapture
            \/ EndCapture)
    => IInv'
<1> SUFFICES ASSUME IInv, MoveCursor \/ Bind \/ RunAutomatic \/ StartMeasuring \/ EndMeasuring
                          \/ StartCapture \/ EndCapture
             PROVE  IInv'
  OBVIOUS
<1>1. /\ UNCHANGED <<unit, worker, ready, edit, asked, edited, saved>>
      /\ stage = "tui" /\ stage' \in {stage, "leaving"} /\ exit' \in {exit, "error"}
      /\ (ready /\ edit = None) \/ UNCHANGED <<stage, busy>>
      /\ stage' # stage => busy' = Free
      /\ busy' \in {busy, Free, Doing("probe"), Doing("measure"), Doing("capture")}
  BY DEF MoveCursor, Bind, RunAutomatic, StartMeasuring, EndMeasuring, StartCapture, EndCapture,
         Using, choices, ghosts, IInv, StepInv, Free, Doing
<1>2. /\ edit = None
      /\ worker.step # "none" => ~ready
      /\ "probe" \notin open'
  <2>1. busy.kind # "probe" => "probe" \notin open
    BY DEF IInv, StepInv
  <2> QED
    BY <2>1 DEF MoveCursor, Bind, RunAutomatic, Rebuilt, StartMeasuring, EndMeasuring,
                StartCapture, EndCapture, Using, IInv, StepInv, Free, Doing
<1>3. UnitType' /\ StepInv'
  <2>1. busy' # Free => ready' /\ stage' = "tui" /\ edit' = None
    BY <1>1, <1>2 DEF IInv, StepInv
  <2>2. exit' \in {exit, "cancel", "error", "save"}
    BY <1>1
  <2> QED
    BY <1>1, <1>2, <2>1, <2>2, KeepsUnit
<1> DEFINE Fits == /\ selected' \in Devices /\ cursor' \in Devices
                   /\ open' \subseteq {"main", "worker", "probe"}
                   /\ dpi' \in [Devices -> Readings] /\ original' \in MaybeDpi
                   /\ staged' \in MaybeDpi /\ enable' \in BOOLEAN /\ trouble' \in BOOLEAN
<1>4. /\ selected \in Devices /\ cursor \in Devices /\ open \subseteq {"main", "worker", "probe"}
      /\ dpi \in [Devices -> Readings] /\ original \in MaybeDpi
      /\ staged \in MaybeDpi /\ enable \in BOOLEAN /\ trouble \in BOOLEAN
  BY DEF IInv, TypeOK, UiType, ChoiceType, GhostType
<1>5. Fits
  <2>1. CASE MoveCursor \/ StartMeasuring \/ EndMeasuring \/ StartCapture
    BY <1>4, <2>1 DEF MoveCursor, StartMeasuring, EndMeasuring, StartCapture, hw, choices, ghosts
  <2>2. CASE Bind
    <3>1. PICK values \in {dpi, RestoredOn(selected)} :
            /\ dpi' = values /\ selected' = cursor /\ staged' = None /\ enable' = TRUE
            /\ open' \in {{}, {"main"}}
            /\ \/ original' = None /\ trouble' = TRUE
               \/ \E r \in Reads(cursor, values) :
                    original' = r
                    /\ trouble' = (trouble \/ r = None \/ values # RestoredOn(selected))
      BY <2>2 DEF Bind
    <3>2. values \in [Devices -> Readings]
      BY <1>4, NumberTypes DEF RestoredOn, MaybeDpi
    <3>3. original' \in MaybeDpi /\ trouble' \in BOOLEAN
      BY <1>4, <3>1, <3>2, ReadTypes DEF MaybeDpi
    <3>4. cursor' = cursor
      BY <2>2 DEF Bind
    <3> QED
      BY <1>4, <3>1, <3>2, <3>3, <3>4 DEF MaybeDpi
  <2>3. CASE RunAutomatic \/ EndCapture
    BY <1>4, <2>3, RebuiltTypes DEF RunAutomatic, EndCapture, hw
  <2> QED
    BY <2>1, <2>2, <2>3
<1>6. busy' \in [kind : {"none", "probe", "measure", "capture"}, original : MaybeDpi,
                changed : BOOLEAN]
  BY <1>1, DoingIs DEF Tasks, Kinds, IInv, TypeOK, UiType
<1>7. UiType' /\ ChoiceType' /\ GhostType'
  BY <1>1, <1>5, <1>6 DEF IInv, TypeOK, UiType, ChoiceType, GhostType, MaybeDpi
<1> QED
  BY <1>3, <1>7 DEF IInv, TypeOK

\* A probe, from the opening of its session to the write that ends it.
LEMMA ProbeIInv == IInv /\ (ProbeOpens \/ ProbeWrites \/ ProbeEnds) => IInv'
<1> SUFFICES ASSUME IInv, ProbeOpens \/ ProbeWrites \/ ProbeEnds PROVE IInv'
  OBVIOUS
<1>1. /\ UNCHANGED <<unit, stage, exit, cursor, selected, worker, ready, choices, edit, asked,
                     saved>>
      /\ edited' \in {edited, edited \cup {selected}}
  BY DEF ProbeOpens, ProbeWrites, ProbeEnds, ghosts
<1>2. /\ selected \in Devices /\ dpi \in [Devices -> Readings] /\ trouble \in BOOLEAN
      /\ open \subseteq {"main", "worker", "probe"}
      /\ busy \in [kind : {"none", "probe", "measure", "capture"}, original : MaybeDpi,
                   changed : BOOLEAN]
      /\ "probe" \in open => busy.kind = "probe" /\ busy.original \in Dpis
      /\ busy # Free => ready /\ stage = "tui" /\ edit = None
  BY DEF IInv, TypeOK, UiType, ChoiceType, GhostType, StepInv, MaybeDpi
<1>3. /\ DpiNumber(dpi[selected]) \in Dpis
      /\ \A v \in Dpis : Both(v) \in Readings
  BY <1>2, NumberTypes
<1>4. Doing("probe") # Free /\ Free.kind = "none" /\ Doing("probe").kind = "probe"
  BY DEF Doing, Free
<1>5. Free \in [kind : {"none", "probe", "measure", "capture"}, original : MaybeDpi,
               changed : BOOLEAN]
  BY DEF Doing, Free, MaybeDpi
<1> DEFINE Fits ==
      /\ busy' \in [kind : {"none", "probe", "measure", "capture"}, original : MaybeDpi,
                    changed : BOOLEAN]
      /\ open' \subseteq {"main", "worker", "probe"}
      /\ dpi' \in [Devices -> Readings] /\ trouble' \in BOOLEAN
      /\ ready /\ stage = "tui" /\ edit = None
      /\ "probe" \in open' => busy'.kind = "probe" /\ busy'.original \in Dpis
<1>6. Fits
  <2>1. CASE ProbeOpens
    <3>1. ready /\ stage = "tui" /\ edit = None /\ UNCHANGED dpi
      BY <1>2, <1>4, <2>1 DEF ProbeOpens, hw
    <3>2. CASE /\ open' = open \cup {"probe"} /\ UNCHANGED trouble
               /\ busy' = [busy EXCEPT !.original = DpiNumber(dpi[selected])]
      <4>1. busy = Doing("probe")
        BY <2>1 DEF ProbeOpens
      <4> QED
        BY <1>2, <1>3, <1>4, <3>1, <3>2, <4>1 DEF MaybeDpi
    <3>3. CASE busy' = Free /\ trouble' \in {trouble, TRUE} /\ UNCHANGED open
      <4>1. "probe" \notin open
        BY <2>1 DEF ProbeOpens
      <4> QED
        BY <1>2, <1>5, <3>1, <3>3, <4>1
    <3> HIDE DEF Fits
    <3> QED
      BY <2>1, <3>2, <3>3 DEF ProbeOpens
  <2>2. CASE ProbeWrites
    <3>1. ready /\ stage = "tui" /\ edit = None /\ "probe" \in open
      BY <1>2, <1>4, <2>2 DEF ProbeWrites
    <3>2. dpi' \in [Devices -> Readings]
      BY <1>2, <1>3, <2>2 DEF ProbeWrites
    <3> QED
      BY <1>2, <1>5, <2>2, <3>1, <3>2 DEF ProbeWrites
  <2>3. CASE ProbeEnds
    <3>1. ready /\ stage = "tui" /\ edit = None /\ "probe" \in open
      BY <1>2, <1>4, <2>3 DEF ProbeEnds
    <3>2. dpi' \in [Devices -> Readings] /\ trouble' \in BOOLEAN
      BY <1>2, <1>3, <2>3, <3>1 DEF ProbeEnds
    <3> QED
      BY <1>2, <1>5, <2>3, <3>1, <3>2 DEF ProbeEnds
  <2> QED
    BY <2>1, <2>2, <2>3
<1>7. UnitType' /\ StepInv'
  BY <1>1, <1>6, KeepsUnit DEF IInv, StepInv
<1>8. UiType' /\ ChoiceType' /\ GhostType'
  BY <1>1, <1>2, <1>6 DEF IInv, TypeOK, UiType, ChoiceType, GhostType, MaybeDpi, choices
<1> QED
  BY <1>7, <1>8 DEF IInv, TypeOK

\* The DPI editor, the choices, and the decision to leave.
LEMMA EditIInv ==
  IInv /\ (OpenEditor \/ Test \/ UseCurrent \/ Accept \/ CancelEdit \/ ChooseService \/ Leave)
    => IInv'
<1> SUFFICES ASSUME IInv, OpenEditor \/ Test \/ UseCurrent \/ Accept \/ CancelEdit
                          \/ ChooseService \/ Leave
             PROVE  IInv'
  OBVIOUS
<1> USE DEF Edits
<1>1. /\ UNCHANGED <<unit, ui, original, asked, saved>>
      /\ stage = "tui" /\ stage' \in {stage, "leaving"}
      /\ exit' \in {exit, "cancel", "error", "save"}
  BY DEF OpenEditor, Test, UseCurrent, Accept, CancelEdit, ChooseService, Leave, Using, choices,
         ghosts
<1>2. /\ edit' # None => ready /\ stage' = "tui"
      /\ busy = Free /\ "probe" \notin open
      /\ worker.step # "none" => ~ready
  BY DEF OpenEditor, Test, UseCurrent, Accept, CancelEdit, ChooseService, Leave, Using, IInv,
         StepInv, Free, Doing
<1>3. UnitType' /\ StepInv'
  BY <1>1, <1>2, KeepsUnit DEF ui
<1>4. /\ selected \in Devices /\ dpi \in [Devices -> Readings] /\ original \in MaybeDpi
      /\ staged \in MaybeDpi /\ enable \in BOOLEAN /\ trouble \in BOOLEAN
      /\ edit \in {None} \cup Edits /\ edited \subseteq Devices
      /\ DpiNumber(dpi[selected]) \in MaybeDpi /\ None \in MaybeDpi /\ Dpis \subseteq MaybeDpi
  BY NumberTypes DEF IInv, TypeOK, UiType, ChoiceType, GhostType, MaybeDpi
<1>5. UiType'
  BY <1>1 DEF ui, IInv, TypeOK, UiType, MaybeDpi
<1> DEFINE Fits == /\ dpi' \in [Devices -> Readings] /\ staged' \in MaybeDpi /\ enable' \in BOOLEAN
                   /\ edit' \in {None} \cup Edits
                   /\ edited' \subseteq Devices /\ trouble' \in BOOLEAN
<1>6. Fits
  <2>1. CASE OpenEditor
    <3>1. /\ UNCHANGED <<dpi, staged, enable>> /\ edited' = edited \cup {selected}
          /\ trouble' \in {trouble, TRUE}
          /\ \E v \in {DpiNumber(dpi[selected]), original} : edit' = [entry |-> v, tested |-> None]
      BY <2>1 DEF OpenEditor, hw, choices
    <3>2. edit' \in Edits
      BY <1>4, <3>1
    <3>3. edited' \subseteq Devices /\ trouble' \in BOOLEAN
      BY <1>4, <3>1
    <3> QED
      BY <1>4, <3>1, <3>2, <3>3
  <2>2. CASE Test
    <3>1. PICK v \in Dpis : /\ Writes(selected, v)
                            /\ edit' \in {[edit EXCEPT !.tested = v], edit}
      BY <2>2 DEF Test
    <3>2. dpi' \in [Devices -> Readings] /\ trouble' \in BOOLEAN
      BY <1>4, <3>1, WriteTypes
    <3>3. edit \in Edits /\ UNCHANGED <<choices, edited>>
      BY <1>4, <2>2 DEF Test
    <3>4. edit' \in Edits
      BY <1>4, <3>1, <3>3
    <3> QED
      BY <1>4, <3>2, <3>3, <3>4 DEF choices
  <2>3. CASE UseCurrent
    <3>1. edit \in Edits /\ UNCHANGED <<hw, choices, ghosts>>
      BY <1>4, <2>3 DEF UseCurrent
    <3>2. edit' \in Edits
      BY <1>4, <2>3, <3>1 DEF UseCurrent
    <3> QED
      BY <1>4, <3>1, <3>2 DEF hw, choices, ghosts
  <2>4. CASE Accept
    BY <1>4, <2>4 DEF Accept, hw, ghosts
  <2>5. CASE CancelEdit
    <3>1. edit \in Edits /\ edit' = None /\ Writes(selected, edit.entry)
      BY <1>4, <2>5 DEF CancelEdit
    <3>2. dpi' \in [Devices -> Readings] /\ trouble' \in BOOLEAN
      BY <3>1, WriteTypes
    <3> QED
      BY <1>4, <2>5, <3>1, <3>2 DEF CancelEdit, choices
  <2>6. CASE ChooseService \/ Leave
    BY <1>4, <2>6 DEF ChooseService, Leave, Using, hw, choices, ghosts
  <2> QED
    BY <2>1, <2>2, <2>3, <2>4, <2>5, <2>6
<1>7. ChoiceType' /\ GhostType'
  BY <1>1, <1>6 DEF IInv, TypeOK, ChoiceType, GhostType, MaybeDpi
<1> QED
  BY <1>3, <1>5, <1>7 DEF IInv, TypeOK

\* What follows the decision to leave, and the Service page.
LEMMA LeaveIInv ==
  IInv /\ (ServiceAction \/ Kill \/ RollBack \/ Apply \/ SaveConfig \/ RecordPreference) => IInv'
<1> SUFFICES ASSUME IInv, ServiceAction \/ Kill \/ RollBack \/ Apply \/ SaveConfig
                          \/ RecordPreference
             PROVE  IInv'
  OBVIOUS
<1>1. /\ UNCHANGED <<found, cursor, selected, ready, choices>>
      /\ service' \in {service, "active", "inactive"}
      /\ exit' \in {exit, "kill"}
      /\ stage \in Running /\ stage' \in Running \cup {"exited"}
      /\ open' \in {open, {}} /\ worker' \in {worker, Idle} /\ busy' \in {busy, Free}
      /\ edit' \in {edit, None}
      /\ asked' \in {asked, TRUE} /\ saved' \in {saved, TRUE}
      /\ edited' \in {edited, edited \cup {selected}}
      /\ busy' = busy \/ open' = {}
  BY DEF ServiceAction, Kill, RollBack, Apply, SaveConfig, RecordPreference, Using, choices,
         ghosts, unit, ui, Running
<1>2. dpi' \in [Devices -> Readings] /\ trouble' \in BOOLEAN
  <2>1. /\ None \in MaybeDpi /\ original \in MaybeDpi /\ staged \in MaybeDpi
        /\ dpi \in [Devices -> Readings] /\ trouble \in BOOLEAN
    BY DEF MaybeDpi, IInv, TypeOK, ChoiceType, GhostType
  <2>2. \/ UNCHANGED <<dpi, trouble>>
        \/ \E v \in MaybeDpi : Writes(selected, v)
    BY <2>1 DEF ServiceAction, Kill, RollBack, Apply, SaveConfig, RecordPreference, hw, ghosts
  <2> QED
    BY <2>1, <2>2, WriteTypes
<1>3. record \in Records /\ record' \in Records
  <2>1. record \in Records
    BY <1>1 DEF Running, IInv, StepInv, Recorded
  <2>2. \/ record' = record
        \/ \E p \in {"enabled", "disabled"} : record' = [record EXCEPT !.preference = p]
    BY DEF ServiceAction, Kill, RollBack, Apply, SaveConfig, RecordPreference, unit
  <2> QED
    BY <2>1, <2>2 DEF Records
<1>4. UnitType'
  BY <1>1, <1>3 DEF IInv, TypeOK, UnitType, Records, Running
<1>5. UiType'
  <2>1. UiType
    BY DEF IInv, TypeOK
  <2>2. worker' \in [step : {"none", "waiting", "stopping", "opened", "failed"},
                    target : Devices \cup {None}, original : MaybeDpi]
    BY <1>1, <2>1 DEF UiType, Idle, MaybeDpi
  <2>3. /\ open' \subseteq {"main", "worker", "probe"}
        /\ busy' \in [kind : {"none", "probe", "measure", "capture"}, original : MaybeDpi,
                      changed : BOOLEAN]
    BY <1>1, <2>1, DoingIs DEF UiType, Tasks, Kinds
  <2> QED
    BY <1>1, <2>1, <2>2, <2>3 DEF UiType, MaybeDpi
<1>6. ChoiceType' /\ GhostType'
  BY <1>1, <1>2 DEF IInv, TypeOK, UiType, ChoiceType, GhostType, MaybeDpi, choices
<1>7. StepInv'
  <2>1. /\ worker'.step # "none" => worker' = worker
        /\ edit' # None => edit' = edit
    BY <1>1 DEF Idle
  <2>3. busy' # Free => busy' = busy
    BY <1>1
  <2>2. stage' = stage \/ (worker'.step = "none" /\ busy' = Free /\ edit' = None)
    <3>1. stage # "tui" => edit = None /\ busy = Free
      BY DEF IInv, StepInv
    <3>3. worker.step = "none" \/ stage \in {"tui", "leaving"}
      BY DEF IInv, StepInv
    <3>4. Idle.step = "none"
      BY DEF Idle
    <3> QED
      BY <3>1, <3>3, <3>4 DEF ServiceAction, Kill, RollBack, Apply, SaveConfig,
                              RecordPreference, ui
  <2>4. "probe" \in open' => busy'.kind = "probe" /\ busy'.original \in Dpis
    BY <1>1 DEF IInv, StepInv
  <2> QED
    BY <1>1, <1>3, <2>1, <2>2, <2>3, <2>4 DEF IInv, StepInv, Running, Records
<1> QED
  BY <1>4, <1>5, <1>6, <1>7 DEF IInv, TypeOK

LEMMA NextIInv == IInv /\ [Next]_vars => IInv'
<1> SUFFICES ASSUME IInv, [Next]_vars PROVE IInv'
  OBVIOUS
<1>1. CASE UNCHANGED vars
  <2>1. UnitType' /\ UiType'
    BY <1>1 DEF vars, unit, ui, IInv, TypeOK, UnitType, UiType, MaybeDpi
  <2>2. ChoiceType' /\ GhostType'
    BY <1>1 DEF vars, hw, choices, ghosts, IInv, TypeOK, ChoiceType, GhostType, MaybeDpi
  <2>3. StepInv'
    BY <1>1 DEF vars, unit, ui, IInv, StepInv, Recorded, Records
  <2> QED
    BY <2>1, <2>2, <2>3 DEF IInv, TypeOK
<1>2. CASE LearnDeeper
  BY <1>1, <1>2, MouseIInv DEF LearnDeeper
<1> QED
  BY <1>1, <1>2, UnitIInv, WorkerIInv, MouseIInv, ProbeIInv, EditIInv, LeaveIInv DEF Next

LEMMA SessionInvariant == Spec => []IInv
  BY InitIInv, NextIInv, PTL DEF Spec

\* Every variable keeps its type, for any set of mice and of DPI values.
THEOREM SetupSessionType == Spec => []TypeOK
<1>1. IInv => TypeOK
  BY DEF IInv
<1> QED
  BY <1>1, SessionInvariant, PTL

-----------------------------------------------------------------------------------
(* The service is left as it was found                                             *)

LEMMA FoundNext == IInv /\ FoundInv /\ [Next]_vars => FoundInv'
<1> SUFFICES ASSUME IInv, FoundInv, [Next]_vars PROVE FoundInv'
  OBVIOUS
<1> USE DEF FoundInv, Recorded
<1>1. /\ service \in {"active", "stopping", "crashed", "inactive"}
      /\ found \in {"active", "crashed", "inactive"}
      /\ Recorded => record \in Records
      /\ worker.step # "none" => stage \in {"tui", "leaving"}
      /\ asked \in BOOLEAN /\ saved \in BOOLEAN
  BY DEF IInv, TypeOK, UnitType, GhostType, StepInv
<1>2. CASE ServiceStops \/ ServiceRestarts \/ ServiceCrashes
  BY <1>1, <1>2 DEF ServiceStops, ServiceRestarts, ServiceCrashes, ghosts
<1>3. CASE Prepare
  <2>1. /\ stage = "prepare" /\ stage' = "recorded"
        /\ record'.was <=> service = "active"
        /\ record'.preference = "none"
        /\ UNCHANGED <<service, found, asked, saved>>
    BY <1>3 DEF Prepare, ghosts
  <2> QED
    BY <1>1, <2>1
<1>4. CASE Suspend
  BY <1>1, <1>4 DEF Suspend, Stopped, ghosts
<1>5. CASE Restore
  BY <1>1, <1>5 DEF Restore, ShouldRun, ghosts
<1>6. CASE WorkerAsksStop
  BY <1>1, <1>6 DEF WorkerAsksStop, Stopped, ghosts
<1>7. CASE ServiceAction
  BY <1>1, <1>7 DEF ServiceAction, Using
<1>8. CASE RecordPreference
  <2>1. /\ stage = "recording" /\ stage' = "exited" /\ saved
        /\ UNCHANGED <<service, found, asked, saved>>
    BY <1>8 DEF RecordPreference, ghosts
  <2>2. record'.was = record.was
    BY <1>1, <1>8, <2>1 DEF RecordPreference, Records
  <2> QED
    BY <1>1, <2>1, <2>2
<1>9. CASE SaveConfig
  BY <1>1, <1>9 DEF SaveConfig, unit
<1>10. CASE \/ StartWorker \/ WorkerOpens \/ MoveCursor \/ Adopt \/ Bind \/ RunAutomatic
            \/ ProbeOpens \/ ProbeWrites \/ ProbeEnds \/ LearnDeeper \/ StartMeasuring
            \/ EndMeasuring \/ StartCapture \/ EndCapture \/ OpenEditor \/ Test \/ UseCurrent
            \/ Accept \/ CancelEdit \/ ChooseService \/ Leave \/ Kill \/ Join \/ RollBack
            \/ Apply \/ UNCHANGED vars
  <2>1. /\ UNCHANGED <<unit, asked, saved>>
        /\ \/ stage' = stage
           \/ stage' \in {"leaving", "applied", "exited"} /\ stage \in Running
    BY <1>10 DEF StartWorker, WorkerOpens, MoveCursor, Adopt, Bind, RunAutomatic, LearnDeeper,
                 ProbeOpens, ProbeWrites, ProbeEnds, StartMeasuring, EndMeasuring,
                 StartCapture, EndCapture, OpenEditor, Test, UseCurrent, Accept, CancelEdit,
                 ChooseService, Leave, Kill, Join, RollBack, Apply, Using, ghosts, vars, Running
  <2> QED
    BY <1>1, <2>1 DEF unit, Running
<1> QED
  BY <1>2, <1>3, <1>4, <1>5, <1>6, <1>7, <1>8, <1>9, <1>10 DEF Next

\* When the unit is done the service runs if and only if it ran before, as long as nothing
\* was saved and the user did not start or stop it: whether the setup was cancelled, failed
\* or was killed at any step, and whatever the thread or systemd were doing meanwhile.
THEOREM SetupServiceAsBefore == Spec => []ServiceAsBefore
<1>1. Init => FoundInv
  BY DEF Init, FoundInv, Recorded
<1>2. IInv /\ FoundInv => ServiceAsBefore
  BY DEF FoundInv, ServiceAsBefore
<1> QED
  BY <1>1, <1>2, FoundNext, SessionInvariant, PTL DEF Spec

-----------------------------------------------------------------------------------
(* A mouse has one user                                                            *)

LEMMA AloneNext == IInv /\ AloneInv /\ [Next]_vars => AloneInv'
<1> SUFFICES ASSUME IInv, AloneInv, [Next]_vars PROVE AloneInv'
  OBVIOUS
<1> USE DEF AloneInv, Running
<1>1. /\ service \in {"active", "stopping", "crashed", "inactive"}
      /\ Recorded => record \in Records
      /\ worker.step # "none" => ~ready /\ stage \in {"tui", "leaving"}
      /\ busy # Free => ready /\ stage = "tui"
      /\ "probe" \in open => busy.kind = "probe"
      /\ ready => stage \notin {"prepare", "recorded"}
      /\ worker \in [step : {"none", "waiting", "stopping", "opened", "failed"},
                     target : Devices \cup {None}, original : MaybeDpi]
      /\ asked \in BOOLEAN /\ ready \in BOOLEAN
  BY DEF IInv, TypeOK, UnitType, UiType, GhostType, StepInv
<1>2. CASE ServiceStops \/ ServiceRestarts \/ ServiceCrashes
  BY <1>1, <1>2 DEF ServiceStops, ServiceRestarts, ServiceCrashes, ghosts, ui
<1>3. CASE Prepare \/ Restore
  BY <1>1, <1>3 DEF Prepare, Restore, ghosts, ui
<1>4. CASE Suspend
  BY <1>1, <1>4 DEF Suspend, Stopped, ghosts, ui
<1>5. CASE StartWorker \/ MoveCursor
  BY <1>1, <1>5 DEF StartWorker, MoveCursor, StartedFor, Idle, ghosts, unit
<1>6. CASE WorkerAsksStop
  BY <1>1, <1>6 DEF WorkerAsksStop, Stopped, ghosts
<1>7. CASE WorkerOpens
  BY <1>1, <1>7 DEF WorkerOpens, MayOpen, unit
<1>8. CASE Adopt
  <2>1. /\ UNCHANGED <<unit, stage, busy, asked>> /\ stage = "tui" /\ busy = Free
        /\ worker.step # "none" /\ "probe" \notin open
    BY <1>1, <1>8, DoingIs DEF Adopt, ghosts
  <2>2. CASE worker.step = "failed" /\ worker' = Idle /\ UNCHANGED <<ready, open>>
    BY <1>1, <2>1, <2>2 DEF Idle, unit
  <2>3. CASE /\ worker.step = "opened" /\ worker' = StartedFor(cursor) /\ open' = Rejected
             /\ UNCHANGED ready
    BY <1>1, <2>1, <2>3 DEF StartedFor, Rejected, unit
  <2>4. CASE /\ worker.step = "opened" /\ worker' = Idle /\ ready' = TRUE
             /\ open' = (open \ {"worker"}) \cup {"main"}
    BY <1>1, <2>1, <2>4, DoingIs DEF Idle, unit
  <2> QED
    BY <1>8, <2>2, <2>3, <2>4 DEF Adopt
<1>9. CASE Bind \/ RunAutomatic \/ StartCapture \/ EndCapture
  <2>1. /\ UNCHANGED <<unit, worker, ready, asked>> /\ stage = "tui"
        /\ stage' \in {stage, "leaving"}
        /\ open' \in {{}, {"main"}} /\ ready
        /\ open' # {} => busy' \in {Free, Doing("probe")}
    BY <1>1, <1>9, DoingIs DEF Bind, RunAutomatic, StartCapture, EndCapture, Rebuilt, Using,
                               ghosts, Kinds
  <2>2. open' # {} => busy'.kind # "capture"
    BY <2>1, DoingIs DEF Kinds
  <2> QED
    BY <1>1, <2>1, <2>2 DEF unit
<1>16. CASE ProbeOpens \/ ProbeWrites \/ ProbeEnds \/ StartMeasuring \/ EndMeasuring
  <2>1. /\ UNCHANGED <<unit, stage, worker, ready, asked>>
        /\ open' \in {open, open \cup {"probe"}, open \ {"probe"}}
    BY <1>16 DEF ProbeOpens, ProbeWrites, ProbeEnds, StartMeasuring, EndMeasuring, ghosts
  <2>2. ready /\ stage = "tui"
    BY <1>1, <1>16, DoingIs DEF ProbeOpens, ProbeWrites, ProbeEnds, StartMeasuring, EndMeasuring,
                                Using, Kinds, IInv, StepInv
  <2>3. busy'.kind # "capture"
    BY <1>1, <1>16, DoingIs DEF ProbeOpens, ProbeWrites, ProbeEnds, StartMeasuring, EndMeasuring,
                                Kinds, IInv, TypeOK, UiType
  <2> QED
    BY <1>1, <2>1, <2>2, <2>3 DEF unit
<1>10. CASE \/ OpenEditor \/ Test \/ UseCurrent \/ Accept \/ CancelEdit \/ ChooseService
            \/ Leave \/ Apply \/ UNCHANGED vars
  <2>1. /\ UNCHANGED <<unit, ui, asked>>
        /\ stage' \in {stage, "leaving", "applied"}
        /\ stage' # stage => stage \in Running
    BY <1>10 DEF OpenEditor, Test, UseCurrent, Accept, CancelEdit, ChooseService, Leave, Apply,
                 Using, ghosts, vars
  <2> QED
    BY <1>1, <2>1 DEF unit, ui
<1>11. CASE ServiceAction
  BY <1>1, <1>11 DEF ServiceAction, ui, unit, Using
<1>12. CASE Kill \/ RollBack \/ RecordPreference
  BY <1>12 DEF Kill, RollBack, RecordPreference
<1>13. CASE Join
  BY <1>1, <1>13 DEF Join, Idle, unit, ghosts
<1>14. CASE SaveConfig
  BY <1>1, <1>14 DEF SaveConfig, unit
<1>15. LearnDeeper => RunAutomatic \/ UNCHANGED vars
  BY DEF LearnDeeper
<1> QED
  BY <1>2, <1>3, <1>4, <1>5, <1>6, <1>7, <1>8, <1>9, <1>10, <1>11, <1>12, <1>13, <1>14, <1>15,
     <1>16
     DEF Next

\* The worker's backend, the main loop's, the node of the button editor and the service that
\* ran before never meet: the thread, the main loop and the asynchronous stop of the service
\* interleave as they like, and every factory may fail. A probe and a measurement come beside
\* the backend of the main loop, and never beside the worker's or the service.
THEOREM SetupMouseIsHandedOver == Spec => []MouseIsHandedOver
<1>1. Init => AloneInv
  BY DEF Init, AloneInv, Idle, Running
<1>2. IInv /\ AloneInv => MouseIsHandedOver
  <2> SUFFICES ASSUME IInv, AloneInv PROVE OneBackend /\ AloneOnHardware
    BY DEF MouseIsHandedOver
  <2>1. /\ open \subseteq {"main", "worker", "probe"}
        /\ worker.step # "none" => ~ready
        /\ "probe" \in open => busy.kind = "probe"
        /\ busy # Free => ready /\ stage = "tui"
    BY DEF IInv, TypeOK, UiType, StepInv
  <2>2. ~("worker" \in open /\ "main" \in open)
    BY <2>1 DEF AloneInv
  <2>3. \/ open \ {"probe"} = {} \/ open \ {"probe"} = {"main"}
        \/ open \ {"probe"} = {"worker"}
    BY <2>1, <2>2
  <2>4. Cardinality(open \ {"probe"}) <= 1
    <3>1. Cardinality({}) = 0 /\ Cardinality({"main"}) = 1 /\ Cardinality({"worker"}) = 1
      BY FS_EmptySet, FS_Singleton
    <3> QED
      BY <2>3, <3>1
  <2>5. busy.kind = "capture" => open = {}
    <3>1. busy.kind = "capture" => ready
      BY <2>1 DEF Free, Doing
    <3> QED
      BY <2>1, <3>1 DEF AloneInv
  <2>6. AloneOnHardware
    BY <2>1 DEF AloneInv, AloneOnHardware, Running
  <2> QED
    BY <2>4, <2>5, <2>6 DEF OneBackend
<1> QED
  BY <1>1, <1>2, AloneNext, SessionInvariant, PTL DEF Spec

-----------------------------------------------------------------------------------
(* A DPI value stays with its mouse                                                *)

\* A write to the selected mouse of a value that is its own, unless it was edited.
LEMMA WritesOwn ==
  ASSUME IInv, OwnInv, edited \subseteq edited', NEW v \in MaybeDpi, Writes(selected, v),
         selected \notin edited' => v \in {None, DpiNumber(Start[selected])}
  PROVE  UneditedKeepsDpi'
<1>1. /\ selected \in Devices /\ dpi \in [Devices -> Readings]
      /\ \A d \in Devices \ edited : DpiNumber(dpi[d]) = DpiNumber(Start[d])
  BY DEF IInv, TypeOK, UiType, ChoiceType, OwnInv, UneditedKeepsDpi
<1>2. \/ v # None /\ v \in Dpis /\ dpi' = [dpi EXCEPT ![selected] = Both(v)]
      \/ dpi' = dpi
  BY DEF Writes, MaybeDpi
<1>3. ASSUME NEW d \in Devices \ edited' PROVE DpiNumber(dpi'[d]) = DpiNumber(Start[d])
  BY <1>1, <1>2, NumberTypes
<1> QED
  BY <1>3 DEF UneditedKeepsDpi

\* A query returns the mouse's own value, unless it was edited.
LEMMA ReadsOwn ==
  ASSUME NEW d \in Devices, NEW values \in [Devices -> Readings], NEW r \in Reads(d, values),
         DpiNumber(values[d]) = DpiNumber(Start[d])
  PROVE  r \in {None, DpiNumber(Start[d])}
  BY ReadTypes

LEMMA ProbeNext == IInv /\ ProbeInv /\ [Next]_vars => ProbeInv'
<1> SUFFICES ASSUME IInv, ProbeInv, [Next]_vars PROVE ProbeInv'
  OBVIOUS
<1> USE DEF ProbeInv
<1>1. CASE ProbeOpens \/ ProbeWrites \/ ProbeEnds
  <2>1. /\ UNCHANGED selected
        /\ \/ busy' = Free
           \/ busy = Doing("probe") /\ busy' = [busy EXCEPT !.original = DpiNumber(dpi[selected])]
           \/ selected \in edited'
    BY <1>1 DEF ProbeOpens, ProbeWrites, ProbeEnds
  <2> QED
    BY <2>1, DoingIs DEF Kinds, Tasks
<1>2. CASE Adopt
  <2>1. worker.step # "none" /\ UNCHANGED busy
    BY <1>2 DEF Adopt
  <2>2. busy = Free
    BY <2>1 DEF IInv, StepInv
  <2> QED
    BY <2>1, <2>2, DoingIs
<1>3. CASE Bind
  BY <1>3, DoingIs DEF Bind, Using
<1>4. CASE \/ ServiceStops \/ ServiceRestarts \/ ServiceCrashes \/ Prepare \/ Suspend \/ Restore
           \/ StartWorker \/ WorkerAsksStop \/ WorkerOpens \/ MoveCursor \/ ChooseService
           \/ ServiceAction \/ Leave \/ Kill \/ Join \/ RecordPreference \/ UNCHANGED vars
  <2>1. busy' \in {busy, Free} /\ UNCHANGED <<selected, edited>>
    BY <1>4 DEF ServiceStops, ServiceRestarts, ServiceCrashes, Prepare, Suspend, Restore,
                StartWorker, WorkerAsksStop, WorkerOpens, MoveCursor, ChooseService,
                ServiceAction, Leave, Kill, Join, RecordPreference, vars, ui, ghosts
  <2> QED
    BY <2>1, DoingIs
<1>5. CASE \/ RunAutomatic \/ StartMeasuring \/ EndMeasuring \/ StartCapture \/ EndCapture
           \/ OpenEditor \/ Test \/ UseCurrent \/ Accept \/ CancelEdit \/ RollBack \/ Apply
           \/ SaveConfig
  <2>1. /\ busy' \in {busy, Free, Doing("probe"), Doing("measure"), Doing("capture")}
        /\ UNCHANGED selected /\ edited \subseteq edited'
    BY <1>5 DEF RunAutomatic, StartMeasuring, EndMeasuring, StartCapture, EndCapture, OpenEditor,
                Test, UseCurrent, Accept, CancelEdit, RollBack, Apply, SaveConfig, ui, ghosts
  <2> QED
    BY <2>1, DoingIs DEF Kinds
<1>6. LearnDeeper => RunAutomatic \/ UNCHANGED vars
  BY DEF LearnDeeper
<1> QED
  BY <1>1, <1>2, <1>3, <1>4, <1>5, <1>6 DEF Next

LEMMA OwnNext == IInv /\ ProbeInv /\ OwnInv /\ [Next]_vars => OwnInv'
<1> SUFFICES ASSUME IInv, ProbeInv, OwnInv, [Next]_vars PROVE OwnInv'
  OBVIOUS
<1>1. /\ selected \in Devices /\ cursor \in Devices /\ dpi \in [Devices -> Readings]
      /\ worker.step # "none" => worker.target \in Devices /\ ~ready
      /\ edit # None => ready
      /\ worker \in [step : {"none", "waiting", "stopping", "opened", "failed"},
                     target : Devices \cup {None}, original : MaybeDpi]
      /\ original \in MaybeDpi /\ staged \in MaybeDpi /\ None \in MaybeDpi
      /\ edit \in {None} \cup Edits /\ Dpis \subseteq MaybeDpi
  BY DEF IInv, TypeOK, UiType, ChoiceType, StepInv, Edits, MaybeDpi
<1>2. /\ \A d \in Devices \ edited : DpiNumber(dpi[d]) = DpiNumber(Start[d])
      /\ selected \notin edited => original \in {None, DpiNumber(Start[selected])}
      /\ worker.step = "opened" /\ worker.target \notin edited =>
           worker.original \in {None, DpiNumber(Start[worker.target])}
      /\ edit # None => selected \in edited
  BY DEF OwnInv, UneditedKeepsDpi
<1> USE DEF OwnInv, UneditedKeepsDpi
<1>3. CASE \/ ServiceStops \/ ServiceRestarts \/ ServiceCrashes \/ Prepare \/ Suspend \/ Restore
           \/ MoveCursor \/ ProbeOpens \/ StartMeasuring \/ EndMeasuring \/ StartCapture
           \/ ChooseService \/ ServiceAction \/ Leave \/ RecordPreference \/ UNCHANGED vars
  <2>1. /\ UNCHANGED <<dpi, selected, edited, original, worker>> /\ edit' \in {edit, None}
    BY <1>3 DEF ServiceStops, ServiceRestarts, ServiceCrashes, Prepare, Suspend, Restore,
                MoveCursor, ProbeOpens, StartMeasuring, EndMeasuring, StartCapture, ChooseService,
                ServiceAction, Leave, RecordPreference, vars, hw, ui, choices, ghosts
  <2> QED
    BY <1>2, <2>1
<1>4. CASE StartWorker \/ WorkerAsksStop \/ Join \/ Kill
  <2>1. /\ UNCHANGED <<dpi, selected, edited, original>> /\ edit' \in {edit, None}
        /\ worker'.step # "opened"
    BY <1>1, <1>4 DEF StartWorker, WorkerAsksStop, Join, Kill, StartedFor, Idle, hw, choices,
                      ghosts
  <2> QED
    BY <1>2, <2>1
<1>5. CASE WorkerOpens
  <2>1. /\ UNCHANGED <<dpi, selected, edited, original, edit>>
        /\ worker.target \in Devices
    BY <1>1, <1>5 DEF WorkerOpens, MayOpen, hw, choices
  <2>2. worker'.step = "opened" /\ worker'.target \notin edited =>
          worker'.original \in {None, DpiNumber(Start[worker'.target])}
    <3>1. CASE worker' = [worker EXCEPT !.step = "failed"]
      BY <1>1, <3>1
    <3>2. ASSUME NEW r \in Reads(worker.target, dpi),
                 worker' = [worker EXCEPT !.step = "opened", !.original = r]
          PROVE  <2>2
      <4>1. worker'.target = worker.target /\ worker'.original = r
        BY <1>1, <3>2
      <4>2. worker.target \notin edited => r \in {None, DpiNumber(Start[worker.target])}
        BY <1>1, <1>2, <2>1, <3>2, ReadsOwn
      <4> QED
        BY <4>1, <4>2
    <3> QED
      BY <1>5, <3>1, <3>2 DEF WorkerOpens
  <2> QED
    BY <1>2, <2>1, <2>2
<1>6. CASE Adopt
  <2>1. /\ UNCHANGED <<dpi, edited, edit>> /\ worker'.step # "opened"
        /\ edit = None
        /\ \/ UNCHANGED <<selected, original>>
           \/ /\ worker.step = "opened"
              /\ selected' = worker.target /\ original' = worker.original
    BY <1>1, <1>6 DEF Adopt, Idle, StartedFor, hw, ghosts
  <2> QED
    BY <1>2, <2>1
<1>7. CASE Bind
  <2>1. PICK values \in {dpi, RestoredOn(selected)} :
          /\ dpi' = values /\ selected' = cursor
          /\ \/ original' = None
             \/ \E r \in Reads(cursor, values) : original' = r
    BY <1>7 DEF Bind
  <2>2. /\ values \in [Devices -> Readings]
        /\ \A d \in Devices \ edited : DpiNumber(values[d]) = DpiNumber(Start[d])
    BY <1>1, <1>2, NumberTypes DEF RestoredOn, MaybeDpi
  <2>3. UNCHANGED <<edited, worker, edit>> /\ edit = None
    BY <1>7 DEF Bind, Using
  <2>4. cursor \notin edited => original' \in {None, DpiNumber(Start[cursor])}
    BY <1>1, <2>1, <2>2, ReadsOwn
  <2> QED
    BY <1>2, <2>1, <2>2, <2>3, <2>4
<1>8. CASE RunAutomatic \/ EndCapture
  <2>1. /\ UNCHANGED <<dpi, selected, edited, worker, edit>>
        /\ original' = original \/ original' \in Reads(selected, dpi)
    BY <1>8 DEF RunAutomatic, EndCapture, Rebuilt, Discover, hw
  <2>2. selected \notin edited => original' \in {None, DpiNumber(Start[selected])}
    BY <1>1, <1>2, <2>1, ReadsOwn
  <2> QED
    BY <1>2, <2>1, <2>2
<1>9. CASE OpenEditor
  BY <1>2, <1>9 DEF OpenEditor, ui, hw, choices
<1>10. CASE UseCurrent \/ Accept
  <2>1. UNCHANGED <<dpi, selected, edited, original, worker>> /\ edit # None
    BY <1>10 DEF UseCurrent, Accept, ui, hw, choices, ghosts
  <2> QED
    BY <1>2, <2>1
<1>11. CASE Test
  <2>1. PICK v \in Dpis : Writes(selected, v)
    BY <1>11 DEF Test
  <2>2. UNCHANGED <<selected, edited, original, worker>> /\ selected \in edited
    BY <1>2, <1>11 DEF Test, ui, choices
  <2> QED
    BY <1>1, <1>2, <2>1, <2>2, WritesOwn
<1>12. CASE CancelEdit
  <2>1. Writes(selected, edit.entry) /\ edit.entry \in MaybeDpi /\ edit' = None
    BY <1>1, <1>12 DEF CancelEdit, Edits
  <2>2. UNCHANGED <<selected, edited, original, worker>> /\ selected \in edited
    BY <1>2, <1>12 DEF CancelEdit, ui, choices
  <2> QED
    BY <1>2, <2>1, <2>2, WritesOwn
<1>13. CASE RollBack \/ SaveConfig
  <2>1. UNCHANGED <<selected, edited, original, worker, edit>>
    BY <1>13 DEF RollBack, SaveConfig, choices
  <2>2. dpi' = dpi \/ Writes(selected, original) \/ Writes(selected, None)
    BY <1>13 DEF RollBack, SaveConfig
  <2> QED
    BY <1>1, <1>2, <2>1, <2>2, WritesOwn
<1>14. CASE Apply
  <2>1. UNCHANGED <<selected, original, worker, edit>>
    BY <1>14 DEF Apply, ui, choices
  <2>2. PICK v \in MaybeDpi :
          /\ Writes(selected, v)
          /\ edited' = IF v = None THEN edited ELSE edited \cup {selected}
    BY <1>1, <1>14 DEF Apply
  <2>3. UneditedKeepsDpi'
    BY <1>1, <2>1, <2>2, WritesOwn
  <2> QED
    BY <1>2, <2>1, <2>2, <2>3
<1>16. CASE ProbeWrites \/ ProbeEnds
  <2>1. /\ UNCHANGED <<selected, original, worker, edit>>
        /\ edited' \in {edited, edited \cup {selected}}
        /\ \A d \in Devices \ {selected} : dpi'[d] = dpi[d]
        /\ dpi' = dpi \/ selected \in edited'
    BY <1>1, <1>16 DEF ProbeWrites, ProbeEnds, choices, ProbeInv
  <2> QED
    BY <1>2, <2>1
<1>15. LearnDeeper => RunAutomatic \/ UNCHANGED vars
  BY DEF LearnDeeper
<1> QED
  BY <1>3, <1>4, <1>5, <1>6, <1>7, <1>8, <1>9, <1>10, <1>11, <1>12, <1>13, <1>14, <1>15,
     <1>16
     DEF Next

\* A mouse that was neither edited nor applied to nor researched shows the DPI it had, the one
\* of its X axis, whichever mice the user looks at and whatever fails: what a backend restores,
\* rolls back or never confirms is a value that was read from the same mouse.
THEOREM SetupUneditedKeepsDpi == Spec => []UneditedKeepsDpi
<1>1. Init => OwnInv /\ ProbeInv
  BY StartIsDpi DEF Init, OwnInv, ProbeInv, UneditedKeepsDpi, Idle, Free, Doing
<1>2. OwnInv => UneditedKeepsDpi
  BY DEF OwnInv
<1> QED
  BY <1>1, <1>2, OwnNext, ProbeNext, SessionInvariant, PTL DEF Spec

-----------------------------------------------------------------------------------
(* An update reports what has happened                                             *)

\* The steps from the question on, and those that look at an AppImage.
Updating == {"ask", "native", "queryNative", "look", "download", "verify", "install", "check",
             "replace", "pip", "success"}
Looking == {"download", "verify", "check"}

\* Only the release is downloaded, verified and placed; a success was asked for or placed.
ReleaseInv ==
  /\ installed \in Nat /\ inode \in Nat
  /\ step \in Updating => release = Latest
  /\ step \in {"install", "check", "replace"} => file = Latest
  /\ step = "pip" => kind = "pip"
  /\ step = "success" /\ kind # "pip" => installed >= Latest
  /\ step # "ended" => told = "nothing"
  /\ U!OnlyVerifiedPlaced /\ U!SuccessIsInstalled /\ U!ServiceRunsTheUpdate

\* What was seen of an AppImage is no newer than the file, and older once someone else has
\* replaced it meanwhile; nothing is in place until it was looked at again.
TargetInv ==
  /\ step \in {"look", "check", "replace"} => kind = "appimage"
  /\ step \in {"native", "queryNative", "install"} => kind # "appimage"
  /\ kind = "appimage" /\ step \in Looking =>
       seen \in Nat /\ inode >= seen /\ (foreign = "during" => inode > seen)
  /\ step \in Looking \cup {"inspect", "ask", "native", "queryNative", "look"} => placed = None
  /\ foreign = "during" => kind = "appimage" /\ step \in Looking \cup {"ended"} /\ placed = None

UpdateInv == ReleaseInv /\ TargetInv

LEMMA UpdateInit == U!Init => UpdateInv
BY VersionsAreNumbers
   DEF U!Init, UpdateInv, ReleaseInv, TargetInv, Updating, Looking, U!OnlyVerifiedPlaced,
       U!SuccessIsInstalled, U!ServiceRunsTheUpdate

\* Where the answer to the question leads.
LEMMA AskLeads ==
  U!Ask => /\ step = "ask"
           /\ \/ step' = "ended" /\ told' = "cancelled"
              \/ /\ \/ step' = "native" /\ kind \in U!Packaged
                    \/ step' = "look" /\ kind = "appimage"
                    \/ step' = "pip" /\ kind = "pip"
                    \/ step' = "refuse"
                 /\ told' = told
           /\ UNCHANGED <<kind, installed, inode, running, foreign, release, file, placed>>
<1> SUFFICES ASSUME U!Ask PROVE
      /\ step = "ask"
      /\ \/ step' = "ended" /\ told' = "cancelled"
         \/ /\ \/ step' = "native" /\ kind \in U!Packaged
               \/ step' = "look" /\ kind = "appimage"
               \/ step' = "pip" /\ kind = "pip"
               \/ step' = "refuse"
            /\ told' = told
      /\ UNCHANGED <<kind, installed, inode, running, foreign, release, file, placed>>
  OBVIOUS
<1> DEFINE Way == CASE kind \in U!Packaged -> "native" [] kind = "appimage" -> "look"
                    [] kind = "pip" -> "pip" [] OTHER -> "refuse"
<1>1. \/ Way = "native" /\ kind \in U!Packaged
      \/ Way = "look" /\ kind = "appimage"
      \/ Way = "pip" /\ kind = "pip"
      \/ Way = "refuse"
  <2>1. kind \in U!Packaged => kind # "appimage" /\ kind # "pip"
    BY DEF U!Packaged
  <2> QED
    BY <2>1, Zenon
<1>2. \/ U!Ends(0, "cancelled")
      \/ step' = Way /\ U!Quiet
  BY Zenon DEF U!Ask
<1> HIDE DEF Way
<1>3. step = "ask" /\ U!World' = U!World /\ UNCHANGED <<release, file, placed>>
  BY Zenon DEF U!Ask
<1> QED
  BY <1>1, <1>2, <1>3 DEF U!Ends, U!Quiet, U!World

LEMMA ReleaseNext == UpdateInv /\ [U!Next]_U!vars => ReleaseInv'
<1> SUFFICES ASSUME UpdateInv, [U!Next]_U!vars PROVE ReleaseInv'
  OBVIOUS
<1> USE VersionsAreNumbers
    DEF UpdateInv, ReleaseInv, Updating, U!OnlyVerifiedPlaced, U!SuccessIsInstalled,
        U!ServiceRunsTheUpdate, U!Fails, U!Ends, U!Quiet, U!World
<1>1. CASE UNCHANGED U!vars
  BY <1>1 DEF U!vars
<1>2. CASE U!Inspect
  BY <1>2 DEF U!Inspect
<1>3. CASE U!Ask
  BY <1>3, AskLeads
<1>4. CASE U!Refuse
  BY <1>4 DEF U!Refuse
<1>5. CASE U!NativeUpgrade
  BY <1>5 DEF U!NativeUpgrade
<1>6. CASE U!QueryNative
  BY <1>6 DEF U!QueryNative, U!InstalledVersions, U!IsCurrent
<1>7. CASE U!Look
  BY <1>7 DEF U!Look
<1>8. CASE U!Download
  BY <1>8 DEF U!Download
<1>9. CASE U!Verify
  BY <1>9 DEF U!Verify, U!DigestMatches
<1>10. CASE U!InstallArtifact
  BY <1>10 DEF U!InstallArtifact, U!IsCurrent
<1>11. CASE U!CheckTarget
  BY <1>11 DEF U!CheckTarget
<1>12. CASE U!Replace
  BY <1>12 DEF U!Replace
<1>13. CASE U!Pip
  BY <1>13 DEF U!Pip
<1>14. CASE U!Succeed
  BY <1>14 DEF U!Succeed, U!MustRestart
<1>15. CASE U!Interrupt
  BY <1>15 DEF U!Interrupt
<1>16. CASE U!OtherInstalls
  BY <1>16 DEF U!OtherInstalls
<1> QED
  BY <1>1, <1>2, <1>3, <1>4, <1>5, <1>6, <1>7, <1>8, <1>9, <1>10, <1>11, <1>12, <1>13, <1>14,
     <1>15, <1>16, Zenon DEF U!Next

LEMMA TargetNext == UpdateInv /\ [U!Next]_U!vars => TargetInv'
<1> SUFFICES ASSUME UpdateInv, [U!Next]_U!vars PROVE TargetInv'
  OBVIOUS
<1> USE DEF UpdateInv, ReleaseInv, TargetInv, Looking, U!Fails, U!Ends, U!Quiet, U!World
<1>1. CASE UNCHANGED U!vars
  BY <1>1 DEF U!vars
<1>2. CASE U!Inspect
  BY <1>2 DEF U!Inspect
<1>3. CASE U!Ask
  BY <1>3, AskLeads DEF U!Packaged
<1>4. CASE U!Refuse
  BY <1>4 DEF U!Refuse
<1>5. CASE U!NativeUpgrade
  BY <1>5 DEF U!NativeUpgrade
<1>6. CASE U!QueryNative
  BY <1>6 DEF U!QueryNative
<1>7. CASE U!Look
  BY <1>7 DEF U!Look
<1>8. CASE U!Download
  BY <1>8 DEF U!Download
<1>9. CASE U!Verify
  BY <1>9 DEF U!Verify
<1>10. CASE U!InstallArtifact
  BY <1>10 DEF U!InstallArtifact
<1>11. CASE U!CheckTarget
  BY <1>11 DEF U!CheckTarget, U!SameTarget
<1>12. CASE U!Replace
  BY <1>12 DEF U!Replace
<1>13. CASE U!Pip
  BY <1>13 DEF U!Pip
<1>14. CASE U!Succeed
  BY <1>14 DEF U!Succeed
<1>15. CASE U!Interrupt
  BY <1>15 DEF U!Interrupt
<1>16. CASE U!OtherInstalls
  BY <1>16 DEF U!OtherInstalls
<1> QED
  BY <1>1, <1>2, <1>3, <1>4, <1>5, <1>6, <1>7, <1>8, <1>9, <1>10, <1>11, <1>12, <1>13, <1>14,
     <1>15, <1>16, Zenon DEF U!Next

\* Whatever the versions are, whatever fails and whoever replaces the target meanwhile: what
\* an update puts in place was verified, a success that it reports is in place (pip is
\* trusted), the service runs it, and what someone else has put there is not overwritten.
THEOREM UpdateReportedIsReal == U!Spec => []ReportedUpdateIsReal
<1>1. UpdateInv /\ [U!Next]_U!vars => UpdateInv'
  BY ReleaseNext, TargetNext DEF UpdateInv
<1>2. UpdateInv => ReportedUpdateIsReal
  BY DEF UpdateInv, ReleaseInv, TargetInv, ReportedUpdateIsReal, U!ReportedUpdateIsReal,
         U!ForeignTargetKept
<1> QED
  BY <1>1, <1>2, UpdateInit, PTL DEF U!Spec

-----------------------------------------------------------------------------------
(* What a discovery calls writable was proven                                      *)

\* The interface of a proof is among the model's, the only one of its kind but for an answer
\* of now; nothing is known of what was learned and stored.
PresentOn(e, r) ==
  /\ e.by = "hidpp" \/ ~r.cached => e.interface \in DOMAIN r.device.model
  /\ \/ e.by = "hidpp" /\ r.cached
     \/ e.by = "learned" /\ ~r.cached
     => r.device.model[e.interface] = 1

SoundBy(r, known) ==
  \A c \in Capabilities : r.caps[c].access = "write" =>
    /\ ~r.device.ambiguous
    /\ \E e \in known : e.name = c /\ V!ProofOfDevice(e, r) /\ PresentOn(e, r)

\* What a stored profile calls writable was proven on its own model and unit, by its own
\* responder or by a promotion.
ProvenBy(p, known) ==
  \A c \in Capabilities : p.caps[c].access = "write" =>
    \E e \in known :
      /\ e.name = c /\ e.model = p.model /\ e.instance = p.instance
      /\ e.by = "learned" \/ (e.by = "hidpp" /\ p.protocol # None /\ e.interface = p.responder)

DiscoveryInv ==
  /\ \A p \in profiles : ProvenBy(p, proofs)
  /\ discovered # None => SoundBy(discovered, proofs)

\* How many there are of something is the same in the instances.
LEMMA SameCardinality ==
  \A S : /\ V!Cardinality(S) = Cardinality(S) /\ Who!Cardinality(S) = Cardinality(S)
         /\ Vendor!Cardinality(S) = Cardinality(S)
BY DEF V!Cardinality, Who!Cardinality, Vendor!Cardinality, Cardinality

\* The device that a discovery is about is described by its own nodes.
LEMMA DeviceIsItsNodes ==
  ASSUME NEW root, NEW amb
  PROVE  LET d == V!DeviceGraph(root) IN
         /\ d.nodes \subseteq Nodes /\ d.model = V!ModelFingerprint(d.nodes)
         /\ LET e == [d EXCEPT !.ambiguous = amb]
            IN /\ e.model = d.model /\ e.instance = d.instance /\ e.ambiguous = amb
               /\ e.nodes = d.nodes
<1> DEFINE d == V!DeviceGraph(root)
           e == [d EXCEPT !.ambiguous = amb]
           groups == V!Candidates(root)
           Claim(g) == /\ g.nodes \subseteq Nodes /\ g.model = V!ModelFingerprint(g.nodes)
                       /\ LET x == [g EXCEPT !.ambiguous = amb]
                          IN /\ x.model = g.model /\ x.instance = g.instance
                             /\ x.ambiguous = amb /\ x.nodes = g.nodes
<1>1. V!Enumerated(root) \subseteq Nodes
  BY DEF V!Enumerated
<1>2. ASSUME NEW g \in V!Groups(root) PROVE Claim(g)
  <2>1. PICK k : g = V!Group({n \in V!Enumerated(root) : V!ParentKey(n) = k})
    BY DEF V!Groups
  <2> DEFINE ns == {n \in V!Enumerated(root) : V!ParentKey(n) = k}
             anchor == CHOOSE n \in ns : TRUE
  <2>2. g = [nodes |-> ns, vendor |-> anchor.vendor, product |-> V!Product(anchor),
             model |-> V!ModelFingerprint(ns), instance |-> V!InstanceFingerprint(ns),
             ambiguous |-> FALSE]
    BY <2>1 DEF V!Group
  <2>3. ns \subseteq Nodes
    BY <1>1
  <2> HIDE DEF ns, anchor
  <2> QED
    BY <2>2, <2>3
<1>3. groups \subseteq V!Groups(root)
  BY DEF V!Candidates
<1>4. CASE Cardinality(groups) = 1
  <2>1. groups # {}
    BY <1>4, FS_EmptySet
  <2>2. d = CHOOSE g \in groups : TRUE
    BY <1>4, SameCardinality DEF V!DeviceGraph
  <2>3. d \in V!Groups(root)
    BY <2>1, <2>2, <1>3
  <2> QED
    BY <2>3, <1>2
<1>5. CASE Cardinality(groups) # 1
  <2> DEFINE ns == UNION {g.nodes : g \in groups}
  <2>1. d = [nodes |-> ns, vendor |-> examined.vendor, product |-> examined.product,
             model |-> V!ModelFingerprint(ns), instance |-> None, ambiguous |-> TRUE]
    BY <1>5, SameCardinality DEF V!DeviceGraph
  <2>2. ns \subseteq Nodes
    BY <1>2, <1>3
  <2>3. Claim(d)
    <3> HIDE DEF ns, d, groups
    <3> QED
      BY <2>1, <2>2
  <2> QED
    BY <2>3
<1> QED
  BY <1>4, <1>5

\* An only member of a device has an entry in the device's fingerprint, of one.
LEMMA OnlyMember ==
  ASSUME NEW d, d.model = V!ModelFingerprint(d.nodes), NEW i,
         Cardinality(V!Members(i, d)) = 1
  PROVE  i \in DOMAIN d.model /\ d.model[i] = 1
<1>1. V!Members(i, d) # {}
  BY FS_EmptySet
<1>2. PICK n \in d.nodes : n.type = "hidraw" /\ V!Interface(n) = i
  BY <1>1 DEF V!Members, V!Hidraw
<1>3. ASSUME NEW m PROVE V!Interface(m).type = m.type
  BY DEF V!Interface
<1>4. i.type = "hidraw"
  BY <1>2, <1>3
<1>5. V!Members(i, d) = {m \in d.nodes : V!Interface(m) = i}
  BY <1>3, <1>4 DEF V!Members, V!Hidraw
<1>6. i \in {V!Interface(m) : m \in d.nodes}
  BY <1>2
<1> QED
  BY <1>5, <1>6, SameCardinality DEF V!ModelFingerprint

\* What is restored was proven where the profile was stored.
LEMMA RestoredIsSound ==
  ASSUME \A p \in profiles : ProvenBy(p, proofs), NEW root, NEW d, d = V!DeviceGraph(root),
         ~d.ambiguous, NEW p \in V!Restored(d)
  PROVE  SoundBy(V!FromProfile(p, d), proofs)
<1> DEFINE r == V!FromProfile(p, d)
<1>1. r.device = d /\ r.caps = p.caps /\ r.cached = TRUE
  BY DEF V!FromProfile
<1>2. p \in V!Find(d) /\ V!Restorable(p, d)
  BY DEF V!Restored
<1>3. /\ p \in profiles
      /\ \/ p.instance = d.instance /\ d.instance # None
         \/ p.model = d.model /\ (d.instance = None \/ p.instance = None)
  <2> DEFINE exact == {q \in profiles : q.instance = d.instance}
             left  == IF d.instance = None THEN profiles ELSE {q \in profiles : q.instance = None}
             model == {q \in left : q.model = d.model}
  <2>1. V!Find(d) = IF d.instance # None /\ exact # {}
                    THEN IF Cardinality(exact) = 1 THEN exact ELSE {}
                    ELSE IF Cardinality(model) = 1 THEN model ELSE {}
    BY SameCardinality DEF V!Find
  <2>2. \/ p \in exact /\ d.instance # None
        \/ p \in model
    BY <1>2, <2>1
  <2> QED
    BY <2>2
<1>4. d.model = V!ModelFingerprint(d.nodes)
  BY DeviceIsItsNodes
<1> HIDE DEF r
<1> SUFFICES ASSUME NEW c \in Capabilities, r.caps[c].access = "write"
             PROVE  \E e \in proofs : e.name = c /\ V!ProofOfDevice(e, r) /\ PresentOn(e, r)
  BY <1>1 DEF SoundBy, r
<1>5. PICK e \in proofs : /\ e.name = c /\ e.model = p.model /\ e.instance = p.instance
                          /\ \/ e.by = "learned"
                             \/ e.by = "hidpp" /\ p.protocol # None
                                /\ e.interface = p.responder
  BY <1>1, <1>3 DEF ProvenBy
<1>6. ASSUME e.by = "hidpp"
      PROVE  e.interface \in DOMAIN d.model /\ d.model[e.interface] = 1
  <2>1. e.interface = p.responder /\ Cardinality(V!Members(p.responder, d)) = 1
    BY <1>2, <1>5, <1>6, SameCardinality DEF V!Restorable
  <2> QED
    BY <2>1, <1>4, OnlyMember
<1>7. PresentOn(e, r)
  BY <1>1, <1>5, <1>6 DEF PresentOn
<1>8. V!ProofOfDevice(e, r)
  BY <1>1, <1>3, <1>5 DEF V!ProofOfDevice
<1> QED
  BY <1>5, <1>7, <1>8

\* What a fresh look calls writable is what answered or what was learned.
LEMMA FreshIsProven ==
  ASSUME NEW root, NEW d, d = V!DeviceGraph(root), NEW answering \in SUBSET V!Asked(d), NEW reply,
         NEW r, r = V!Fresh(d, answering, reply), NEW c \in Capabilities,
         r.caps[c].access = "write"
  PROVE  /\ ~r.device.ambiguous
         /\ \E e \in V!ProofsOf(d, answering, reply) :
              /\ e.name = c /\ e.model = r.device.model /\ e.instance = r.device.instance
              /\ e.interface \in DOMAIN r.device.model
              /\ \/ e.by = "learned" /\ r.device.model[e.interface] = 1
                 \/ e.by = "hidpp" /\ r.protocol # None /\ e.interface = r.responder
<1> DEFINE node     == V!Responder(d, answering)
           protocol == IF node = None THEN None ELSE "hidpp2"
           amb      == V!Ambiguous(d, answering)
           physical == [d EXCEPT !.ambiguous = amb]
           caps     == IF protocol = None THEN V!ObserveUnknownDevice(physical)
                       ELSE V!QueryKnownProtocol(reply)
<1>1. r = [device |-> physical, protocol |-> protocol,
           responder |-> IF node = None THEN None ELSE V!Interface(node),
           caps |-> V!Validate(physical, protocol, caps), cached |-> FALSE]
  BY DEF V!Fresh
<1>2. /\ d.nodes \subseteq Nodes /\ d.model = V!ModelFingerprint(d.nodes)
      /\ physical.model = d.model /\ physical.instance = d.instance /\ physical.ambiguous = amb
      /\ physical.nodes = d.nodes
  BY DeviceIsItsNodes
<1> HIDE DEF physical
<1>3. /\ r.device = physical /\ r.caps = V!Validate(physical, protocol, caps)
      /\ r.protocol = protocol
      /\ r.responder = IF node = None THEN None ELSE V!Interface(node)
  BY <1>1
<1>4. protocol = None => caps[c] = V!Cap("write", "learned") \/ caps[c] = V!Cap("none", None)
  BY DEF V!ObserveUnknownDevice
<1>5. protocol # None => caps[c] = V!Cap(reply[c], "hidpp")
  BY DEF V!QueryKnownProtocol
<1>6. caps[c].access = "write" /\ ~amb /\ (protocol = None => caps[c].proof = "learned")
  <2>1. r.caps[c] = IF caps[c].access = "write"
                       /\ (physical.ambiguous \/ (protocol = None /\ caps[c].proof # "learned"))
                    THEN [caps[c] EXCEPT !.access = "read"] ELSE caps[c]
    BY <1>3 DEF V!Validate
  <2>2. PICK x, y : caps[c] = [access |-> x, proof |-> y]
    BY <1>4, <1>5 DEF V!Cap
  <2> HIDE DEF caps, protocol, amb
  <2>3. [caps[c] EXCEPT !.access = "read"].access = "read"
    BY <2>2
  <2> QED
    BY <2>1, <2>3, <1>2
<1>7. ~r.device.ambiguous
  BY <1>2, <1>3, <1>6
<1>8. CASE protocol # None
  <2>1. node # None /\ answering # {} /\ node = (CHOOSE n \in answering : TRUE)
    BY <1>8, <1>6 DEF V!Responder
  <2>2. node \in answering /\ answering \subseteq d.nodes
    BY <2>1 DEF V!Asked, V!Hidraw
  <2>3. Cardinality(answering) = 1
    <3>1. IsFiniteSet(answering)
      BY <2>2, <1>2, NodesAreFinite, FS_Subset
    <3>2. ~(Cardinality(answering) > 1)
      BY <1>6, SameCardinality DEF V!Ambiguous
    <3> QED
      BY <3>1, <3>2, <2>1, FS_CardinalityType, FS_EmptySet
  <2>4. reply[c] = "write"
    BY <1>5, <1>6, <1>8 DEF V!Cap
  <2>5. V!Interface(node) \in DOMAIN d.model
    BY <2>2, <1>2 DEF V!ModelFingerprint
  <2> DEFINE e == [name |-> c, model |-> d.model, instance |-> d.instance, by |-> "hidpp",
                   interface |-> V!Interface(node)]
  <2>6. e \in V!ProofsOf(d, answering, reply)
    BY <2>1, <2>3, <2>4, SameCardinality DEF V!ProofsOf
  <2> QED
    BY <2>1, <2>5, <2>6, <1>2, <1>3, <1>7, <1>8
<1>9. CASE protocol = None
  <2>1. caps[c] # V!Cap("none", None)
    BY <1>6 DEF V!Cap
  <2>2. PICK o \in V!FindLearned(c, physical, TRUE) :
          Cardinality(V!Members(o.interface, physical)) = 1
    BY <1>9, <2>1, SameCardinality DEF V!ObserveUnknownDevice
  <2>3. /\ o \in learned /\ o.name = c /\ o.state = "proven" /\ o.model = physical.model
        /\ o.instance # None => o.instance = physical.instance
    BY <2>2 DEF V!FindLearned
  <2> DEFINE e == [name |-> c, model |-> d.model, instance |-> d.instance, by |-> "learned",
                   interface |-> o.interface]
  <2>4. e \in V!ProofsOf(d, answering, reply)
    BY <2>3, <1>2 DEF V!ProofsOf
  <2>5. o.interface \in DOMAIN d.model /\ d.model[o.interface] = 1
    BY <2>2, <1>2, OnlyMember
  <2> QED
    BY <2>4, <2>5, <1>2, <1>3, <1>7
<1> QED
  BY <1>8, <1>9

LEMMA DiscoveryNext == DiscoveryInv /\ [V!Next]_V!vars => DiscoveryInv'
<1> SUFFICES ASSUME DiscoveryInv, [V!Next]_V!vars PROVE DiscoveryInv'
  OBVIOUS
<1> USE DEF DiscoveryInv
<1>1. ASSUME UNCHANGED <<profiles, proofs>>, discovered' = discovered \/ discovered' = None
      PROVE  DiscoveryInv'
  BY <1>1
<1>2. CASE UNCHANGED V!vars
  BY <1>1, <1>2 DEF V!vars
<1>3. CASE V!WorldChanges
  BY <1>1, <1>3 DEF V!WorldChanges
<1>4. ASSUME NEW x PROVE V!Fails(x) => DiscoveryInv'
  BY <1>1 DEF V!Fails
<1>5. ASSUME NEW root, NEW d, d = V!DeviceGraph(root), ~d.ambiguous, V!Restored(d) # {},
             discovered' = V!FromProfile(CHOOSE p \in V!Restored(d) : TRUE, d),
             UNCHANGED <<profiles, proofs>>
      PROVE  DiscoveryInv'
  <2>1. (CHOOSE p \in V!Restored(d) : TRUE) \in V!Restored(d)
    BY <1>5
  <2>2. SoundBy(discovered', proofs)
    BY <1>5, <2>1, RestoredIsSound
  <2> QED
    BY <1>5, <2>2
<1>6. CASE \E c \in Capabilities, n \in Nodes, s \in {"demonstrated", "proven"} : V!Learn(c, n, s)
  BY <1>1, <1>6 DEF V!Learn, V!outcome
<1>7. CASE \E o \in learned : V!Forget(o)
  BY <1>1, <1>7 DEF V!Forget, V!outcome
<1>8. ASSUME NEW root \in BOOLEAN, V!RestoreKnownDevice(root) PROVE DiscoveryInv'
  BY <1>4, <1>5, <1>8 DEF V!RestoreKnownDevice
<1>9. ASSUME NEW force \in BOOLEAN, NEW root \in BOOLEAN, V!Discover(force, root)
      PROVE  DiscoveryInv'
  <2> DEFINE d == V!DeviceGraph(root)
  <2>1. CASE d.nodes = {} \/ V!InBootloader(d)
    BY <1>4, <1>9, <2>1 DEF V!Discover
  <2>2. CASE ~(d.nodes = {} \/ V!InBootloader(d)) /\ ~force /\ ~d.ambiguous /\ V!Restored(d) # {}
    BY <1>5, <1>9, <2>2 DEF V!Discover
  <2>3. CASE /\ ~(d.nodes = {} \/ V!InBootloader(d))
             /\ ~(~force /\ ~d.ambiguous /\ V!Restored(d) # {})
    <3>1. PICK answering \in SUBSET V!Asked(d), reply \in Replies, saves \in BOOLEAN :
            /\ discovered' = V!Fresh(d, answering, reply)
            /\ profiles' = IF saves /\ ~discovered'.device.ambiguous THEN V!Save(discovered')
                           ELSE profiles
            /\ proofs' = proofs \cup (IF discovered'.device.ambiguous THEN {}
                                      ELSE V!ProofsOf(d, answering, reply))
      BY <1>9, <2>3 DEF V!Discover
    <3>2. discovered'.cached = FALSE
      BY <3>1 DEF V!Fresh
    <3>3. ASSUME NEW c \in Capabilities, discovered'.caps[c].access = "write"
          PROVE  /\ ~discovered'.device.ambiguous
                 /\ \E e \in proofs' :
                      /\ e.name = c /\ e.model = discovered'.device.model
                      /\ e.instance = discovered'.device.instance
                      /\ e.interface \in DOMAIN discovered'.device.model
                      /\ \/ /\ e.by = "learned"
                            /\ discovered'.device.model[e.interface] = 1
                         \/ /\ e.by = "hidpp" /\ discovered'.protocol # None
                            /\ e.interface = discovered'.responder
      BY <3>1, <3>3, FreshIsProven
    <3>4. SoundBy(discovered', proofs')
      BY <3>2, <3>3 DEF SoundBy, PresentOn, V!ProofOfDevice
    <3>5. ASSUME NEW p \in profiles' PROVE ProvenBy(p, proofs')
      <4>1. CASE p \in profiles
        BY <3>1, <4>1 DEF ProvenBy
      <4>2. CASE p = V!Profile(discovered')
        <5>1. /\ p.model = discovered'.device.model /\ p.instance = discovered'.device.instance
              /\ p.responder = discovered'.responder /\ p.caps = discovered'.caps
              /\ p.protocol = discovered'.protocol
          BY <4>2 DEF V!Profile
        <5> QED
          BY <5>1, <3>3 DEF ProvenBy
      <4> QED
        BY <3>1, <4>1, <4>2 DEF V!Save
    <3> QED
      BY <3>4, <3>5
  <2> QED
    BY <2>1, <2>2, <2>3
<1> QED
  BY <1>2, <1>3, <1>6, <1>7, <1>8, <1>9 DEF V!Next, V!Plug, V!Unplug, V!Update, V!Select

\* Whatever is plugged in where, updated, learned, forgotten and discovered, with any nodes
\* and any answers: what a discovery or a stored profile calls writable was once proven by the
\* hardware or by a promotion, on one device of that model or, for a stored profile, on that
\* very unit, by an interface that is there now unless it was learned and stored.
THEOREM DiscoveryWritableWasProven == V!Spec => []WritableWasProven
<1>1. V!Init => DiscoveryInv
  BY DEF V!Init, DiscoveryInv
<1>2. DiscoveryInv => WritableWasProven
  BY DEF DiscoveryInv, SoundBy, PresentOn, WritableWasProven, V!WritableWasProven
<1> QED
  BY <1>1, <1>2, DiscoveryNext, PTL DEF V!Spec

-----------------------------------------------------------------------------------
(* A mouse in its bootloader is left alone                                         *)

\* No two units have one name.
PathsDiffer ==
  /\ path = [u \in V!Units |-> path[u]]
  /\ \A u, v \in V!Units : path[u] = path[v] /\ path[u] # None => u = v

\* The nodes of a device are all in the bootloader, or none is.
LEMMA GroupIsOfOneProduct ==
  ASSUME NEW root, NEW g \in V!Groups(root)
  PROVE  \A n \in g.nodes : /\ n \in Nodes /\ path[n.unit] # None
                            /\ V!Product(n) = g.product
                            /\ g = V!Group({m \in V!Enumerated(root) :
                                            V!ParentKey(m) = V!ParentKey(n)})
<1>1. PICK k \in {V!ParentKey(n) : n \in V!Enumerated(root)} :
        g = V!Group({n \in V!Enumerated(root) : V!ParentKey(n) = k})
  BY DEF V!Groups
<1>2. PICK ns : ns = {n \in V!Enumerated(root) : V!ParentKey(n) = k}
  OBVIOUS
<1>3. PICK anchor : anchor = CHOOSE n \in ns : TRUE
  OBVIOUS
<1>4. g.nodes = ns /\ g.product = V!Product(anchor)
  BY <1>1, <1>2, <1>3 DEF V!Group
<1>5. anchor \in ns
  BY <1>2, <1>3
<1>6. \A n \in ns : n \in Nodes /\ path[n.unit] # None /\ V!ParentKey(n) = k
  BY <1>2 DEF V!Enumerated
<1>7. ASSUME NEW m \in ns, NEW n \in ns
      PROVE  m.unit = n.unit
  <2>1. V!ParentKey(m) = V!ParentKey(n) /\ m \in Nodes /\ n \in Nodes
    BY <1>6
  <2>2. ASSUME NEW o, NEW by, NEW key, V!ParentKey(o) = [by |-> by, key |-> key]
        PROVE  \/ by = "uniq" /\ ~o.usb /\ o.uniq # None /\ key = o.uniq
               \/ by = "parent" /\ key = o.unit
    BY <2>2 DEF V!ParentKey
  <2>3. PICK by, key : V!ParentKey(m) = [by |-> by, key |-> key]
    BY DEF V!ParentKey
  <2> QED
    <3>1. V!ParentKey(n) = [by |-> by, key |-> key]
      BY <2>1, <2>3
    <3>2. \/ by = "uniq" /\ ~m.usb /\ m.uniq # None /\ key = m.uniq
          \/ by = "parent" /\ key = m.unit
      BY <2>2, <2>3
    <3>3. \/ by = "uniq" /\ ~n.usb /\ n.uniq # None /\ key = n.uniq
          \/ by = "parent" /\ key = n.unit
      BY <2>2, <3>1
    <3> QED
      BY <2>1, <3>2, <3>3, NodesAreOfUnits
<1>8. \A n \in ns : V!Product(n) = V!Product(anchor)
  BY <1>5, <1>6, <1>7, NodesAreOfUnits DEF V!Product
<1> QED
  BY <1>1, <1>4, <1>6, <1>8

\* A device that is not in its bootloader has no interface that is.
LEMMA DeviceIsOfOneProduct ==
  ASSUME PathsDiffer, NEW root, NEW d, d = V!DeviceGraph(root), ~V!InBootloader(d)
  PROVE  \A n \in d.nodes : V!Product(n) # Bootloader
<1>1. PICK near : near = V!Candidates(root)
  OBVIOUS
<1>2. near \subseteq V!Groups(root)
  BY <1>1 DEF V!Candidates
<1>3. CASE Cardinality(near) = 1
  <2>1. d \in near
    <3>1. near # {}
      BY <1>3, FS_EmptySet
    <3>2. d = CHOOSE g \in near : TRUE
      BY <1>1, <1>3, SameCardinality DEF V!DeviceGraph
    <3> QED
      BY <3>1, <3>2
  <2>2. d.product # Bootloader
    BY DEF V!InBootloader
  <2> QED
    BY <1>2, <2>1, <2>2, GroupIsOfOneProduct
<1>4. CASE Cardinality(near) # 1
  <2>1. d = [nodes |-> UNION {g.nodes : g \in near}, vendor |-> examined.vendor,
             product |-> examined.product,
             model |-> V!ModelFingerprint(UNION {g.nodes : g \in near}),
             instance |-> None, ambiguous |-> TRUE]
    BY <1>1, <1>4, SameCardinality DEF V!DeviceGraph
  <2>2. d.nodes = UNION {g.nodes : g \in near} /\ d.product = examined.product
    BY <2>1
  <2>3. examined.product # Bootloader
    BY <2>2 DEF V!InBootloader
  <2>4. PICK exact : exact = {g \in V!Groups(root) : \E n \in g.nodes :
                                n.type = "evdev" /\ path[n.unit] = examined.path}
    OBVIOUS
  <2>5. CASE exact # {}
    <3>1. near = exact
      BY <1>1, <2>4, <2>5 DEF V!Candidates
    <3>2. ASSUME NEW g \in exact, NEW h \in exact PROVE g = h
      <4>1. g \in V!Groups(root) /\ h \in V!Groups(root)
        BY <2>4
      <4>2. PICK m \in g.nodes : m.type = "evdev" /\ path[m.unit] = examined.path
        BY <2>4
      <4>3. PICK n \in h.nodes : n.type = "evdev" /\ path[n.unit] = examined.path
        BY <2>4
      <4>4. /\ m \in Nodes /\ path[m.unit] # None /\ n \in Nodes
            /\ g = V!Group({o \in V!Enumerated(root) : V!ParentKey(o) = V!ParentKey(m)})
            /\ h = V!Group({o \in V!Enumerated(root) : V!ParentKey(o) = V!ParentKey(n)})
        BY <4>1, GroupIsOfOneProduct
      <4>5. m.unit = n.unit
        BY <4>2, <4>3, <4>4 DEF PathsDiffer, V!Units
      <4>6. m = n
        BY <4>2, <4>3, <4>4, <4>5, NodesAreOfUnits
      <4> QED
        BY <4>4, <4>6
    <3>3. PICK g : exact = {g}
      BY <2>5, <3>2
    <3> QED
      BY <1>4, <3>1, <3>3, FS_Singleton
  <2>6. CASE exact = {}
    <3>1. \A g \in near : g.product = examined.product
      BY <1>1, <2>4, <2>6 DEF V!Candidates
    <3>2. \A n \in d.nodes : \E g \in near : n \in g.nodes
      BY <2>2
    <3>3. \A g \in near : \A n \in g.nodes : V!Product(n) = g.product
      BY <1>2, GroupIsOfOneProduct
    <3> QED
      BY <2>3, <3>1, <3>2, <3>3
  <2> QED
    BY <2>5, <2>6
<1> QED
  BY <1>3, <1>4

LEMMA BootloaderNext ==
  ASSUME PathsDiffer, BootloaderIsLeftAlone, [V!Next]_V!vars
  PROVE  PathsDiffer' /\ BootloaderIsLeftAlone'
<1> USE DEF BootloaderIsLeftAlone, V!BootloaderIsLeftAlone
<1>1. ASSUME UNCHANGED path, opened' = {} \/ UNCHANGED <<opened, layout>>
      PROVE  PathsDiffer' /\ BootloaderIsLeftAlone'
  BY <1>1 DEF PathsDiffer, V!Product
<1>2. CASE UNCHANGED V!vars
  BY <1>1, <1>2 DEF V!vars
<1>3. ASSUME NEW u \in V!Units, V!Plug(u) PROVE PathsDiffer' /\ BootloaderIsLeftAlone'
  <2>1. PICK name : name \notin V!Range(path) /\ path' = [path EXCEPT ![u] = name]
    BY <1>3 DEF V!Plug
  <2>2. \A v \in V!Units : path[v] # name
    BY <2>1 DEF V!Range, PathsDiffer
  <2>3. PathsDiffer'
    BY <2>1, <2>2 DEF PathsDiffer
  <2> QED
    BY <1>3, <2>3 DEF V!Plug, V!WorldChanges
<1>4. ASSUME NEW u \in V!Units, V!Unplug(u) PROVE PathsDiffer' /\ BootloaderIsLeftAlone'
  BY <1>4 DEF V!Unplug, V!WorldChanges, PathsDiffer
<1>5. ASSUME NEW u, V!Update(u) PROVE PathsDiffer' /\ BootloaderIsLeftAlone'
  BY <1>1, <1>5 DEF V!Update, V!WorldChanges
<1>6. ASSUME NEW n, V!Select(n) PROVE PathsDiffer' /\ BootloaderIsLeftAlone'
  BY <1>1, <1>6 DEF V!Select, V!WorldChanges
<1>7. ASSUME NEW c, NEW n, NEW s, V!Learn(c, n, s) PROVE PathsDiffer' /\ BootloaderIsLeftAlone'
  BY <1>1, <1>7 DEF V!Learn, V!Command, V!world, V!outcome
<1>8. ASSUME NEW o, V!Forget(o) PROVE PathsDiffer' /\ BootloaderIsLeftAlone'
  BY <1>1, <1>8 DEF V!Forget, V!Command, V!world, V!outcome
<1>9. ASSUME NEW root, V!RestoreKnownDevice(root) PROVE PathsDiffer' /\ BootloaderIsLeftAlone'
  <2>1. UNCHANGED path /\ opened' = {}
    BY <1>9 DEF V!RestoreKnownDevice, V!Command, V!world, V!Fails
  <2> QED
    BY <1>1, <2>1
<1>10. ASSUME NEW force, NEW root, V!Discover(force, root)
       PROVE  PathsDiffer' /\ BootloaderIsLeftAlone'
  <2>1. PICK d : d = V!DeviceGraph(root)
    OBVIOUS
  <2>2. UNCHANGED <<path, layout>>
    BY <1>10 DEF V!Discover, V!Command, V!world
  <2>3. \/ opened' = {}
        \/ ~V!InBootloader(d) /\ opened' \subseteq d.nodes
    BY <1>10, <2>1 DEF V!Discover, V!Fails, V!Hidraw, V!Asked
  <2>4. CASE opened' = {}
    BY <1>1, <2>2, <2>4
  <2>5. CASE ~V!InBootloader(d) /\ opened' \subseteq d.nodes
    <3>1. \A n \in d.nodes : V!Product(n) # Bootloader
      BY <2>1, <2>5, DeviceIsOfOneProduct
    <3>2. \A n : V!Product(n)' = V!Product(n)
      BY <2>2 DEF V!Product
    <3> QED
      BY <2>2, <2>5, <3>1, <3>2 DEF PathsDiffer
  <2> QED
    BY <2>3, <2>4, <2>5
<1> QED
  BY <1>2, <1>3, <1>4, <1>5, <1>6, <1>7, <1>8, <1>9, <1>10 DEF V!Next

\* Whatever is plugged in under which name, updated and selected: no interface of a mouse in
\* its bootloader is opened, not even to read a baseline.
THEOREM DiscoveryLeavesBootloader == V!Spec => []BootloaderIsLeftAlone
<1>1. V!Init => PathsDiffer /\ BootloaderIsLeftAlone
  BY DEF V!Init, PathsDiffer, BootloaderIsLeftAlone, V!BootloaderIsLeftAlone
<1> QED
  BY <1>1, BootloaderNext, PTL DEF V!Spec

-----------------------------------------------------------------------------------
(* The persistence ladder                                                          *)

\* Every milder level that this user can test was passed.
MilderPassed(l) ==
  \A m \in Ladder!Reread..(l - 1) : m \in kept \/ (m = Ladder!Receiver /\ ~user.receiver)

\* What one reading says is so: of the level, of the mouse, of what came before it.
ItemOf(e) ==
  /\ e.level \in Ladder!Levels
  /\ e.survived = TRUE /\ e.freshness = "fresh" => e.level \in kept
  /\ e.level = Ladder!PowerCycle /\ e.survived = TRUE /\ e.freshness = "fresh" /\ ~e.host =>
       tested.forgets > Ladder!PowerCycle \/ (committed /\ tested.saves)
  /\ e.physical => tested.takes
  /\ e.restored => e.after = "old"
  /\ e.commit \/ e.apply \/ MilderPassed(e.level)

\* What was observed of the change is so.
EffectOf(e) ==
  /\ e.before \in {None, "old"}
  /\ e.physical \in {"unknown", "effective", "not_effective"}
  /\ e.physical = "effective" => tested.takes

LadderInv ==
  /\ tested \in TestMice /\ user \in TestUsers
  /\ setting \in {"old", "new"} /\ committed \in BOOLEAN
  /\ observed = <<>> \/ (observed = <<observed[1]>> /\ EffectOf(observed[1]))
  /\ Len(persistence) \in Nat /\ DOMAIN persistence = 1..Len(persistence)
  /\ \A i \in DOMAIN persistence : ItemOf(persistence[i])
  /\ assessment = Ladder!Verify(observed, persistence)

\* The decisive evidence is what was observed, if anything was.
LEMMA DecisiveIs ==
  ASSUME LadderInv
  PROVE  Ladder!Decisive(observed) = IF observed = <<>> THEN Ladder!NoEvidence ELSE observed[1]
<1>1. CASE observed = <<>>
  BY <1>1 DEF Ladder!Decisive
<1>2. CASE observed # <<>>
  <2>1. DOMAIN observed = {1}
    BY <1>2 DEF LadderInv
  <2>2. Ladder!Max({1}) = 1
    BY DEF Ladder!Max
  <2>3. {i \in DOMAIN observed : observed[i].freshness = "fresh"} \in {{}, {1}}
    BY <2>1
  <2> QED
    BY <1>2, <2>1, <2>2, <2>3 DEF Ladder!Decisive
<1> QED
  BY <1>1, <1>2

\* An effect that is confirmed is there.
LEMMA EffectiveIs ==
  ASSUME LadderInv
  PROVE  /\ Ladder!Effective(observed, persistence) \in
              {"unknown", "reported", "not_effective", "effective"}
         /\ Ladder!Effective(observed, persistence) = "effective" => tested.takes
<1>1. PICK d : d = Ladder!Decisive(observed)
  OBVIOUS
<1>2. EffectOf(d)
  BY <1>1, DecisiveIs DEF LadderInv, EffectOf, Ladder!NoEvidence
<1>3. /\ Ladder!EffectState(d) \in {"unknown", "reported", "not_effective", "effective"}
      /\ Ladder!EffectState(d) = "effective" => tested.takes
  BY <1>2 DEF EffectOf, Ladder!EffectState
<1>4. ASSUME NEW e \in Ladder!Activation(persistence), e.physical
      PROVE  tested.takes
  <2>1. PICK i \in DOMAIN persistence : e = persistence[i]
    BY DEF Ladder!Activation, Ladder!Activating
  <2> QED
    BY <1>4, <2>1 DEF LadderInv, ItemOf
<1> QED
  BY <1>1, <1>3, <1>4 DEF Ladder!Effective

\* What is confirmed of one level.
LEMMA SurvivedIs ==
  ASSUME LadderInv, NEW i \in DOMAIN persistence, Ladder!Survived(persistence[i]) = TRUE
  PROVE  /\ persistence[i].level \in Ladder!Levels
         /\ persistence[i].level >= Ladder!Reread => persistence[i].level \in kept
<1>1. ItemOf(persistence[i])
  BY DEF LadderInv
<1>2. None # TRUE
  BY NoneIsNoReading
<1>3. persistence[i].survived = TRUE
  BY <1>2 DEF Ladder!Survived
<1>4. persistence[i].level >= Ladder!Reread => persistence[i].freshness = "fresh"
  BY <1>2, <1>3 DEF Ladder!Survived
<1> QED
  BY <1>1, <1>3, <1>4 DEF ItemOf

\* A bounded set of levels has a highest one.
LEMMA HighestLevel ==
  ASSUME NEW S, S \subseteq 0..5, 0 \in S
  PROVE  Ladder!Max(S) \in S /\ \A x \in S : x <= Ladder!Max(S)
<1>1. \E x \in S : \A y \in S : x >= y
  <2>1. \A x \in S : x \in Int /\ x \in {0, 1, 2, 3, 4, 5}
    OBVIOUS
  <2>2. CASE 5 \in S
    BY <2>1, <2>2
  <2>3. CASE 5 \notin S /\ 4 \in S
    BY <2>1, <2>3
  <2>4. CASE 5 \notin S /\ 4 \notin S /\ 3 \in S
    BY <2>1, <2>4
  <2>5. CASE 5 \notin S /\ 4 \notin S /\ 3 \notin S /\ 2 \in S
    BY <2>1, <2>5
  <2>6. CASE 5 \notin S /\ 4 \notin S /\ 3 \notin S /\ 2 \notin S /\ 1 \in S
    BY <2>1, <2>6
  <2>7. CASE 5 \notin S /\ 4 \notin S /\ 3 \notin S /\ 2 \notin S /\ 1 \notin S
    BY <2>1, <2>7
  <2> QED
    BY <2>2, <2>3, <2>4, <2>5, <2>6, <2>7
<1> QED
  BY <1>1 DEF Ladder!Max

\* The strongest level is 0, or that of a reading that confirms it.
LEMMA StrongestIs ==
  ASSUME LadderInv
  PROVE  LET s == Ladder!Strongest(persistence)
         IN /\ s \in 0..Ladder!PowerCycle
            /\ s # 0 => \E i \in DOMAIN persistence :
                          Ladder!Survived(persistence[i]) = TRUE /\ s = persistence[i].level
<1>1. PICK S : S = {0} \cup {persistence[i].level :
                         i \in {i \in DOMAIN persistence :
                                  Ladder!Survived(persistence[i]) = TRUE}}
  OBVIOUS
<1>2. S \subseteq 0..5 /\ 0 \in S
  <2>1. \A i \in DOMAIN persistence : persistence[i].level \in 0..5
    BY DEF LadderInv, ItemOf, Ladder!Levels, Ladder!Idle, Ladder!PowerCycle
  <2> QED
    BY <1>1, <2>1
<1>3. Ladder!Max(S) \in S
  BY <1>2, HighestLevel
<1>4. Ladder!Strongest(persistence) = Ladder!Max(S)
  BY <1>1 DEF Ladder!Strongest
<1> QED
  BY <1>1, <1>2, <1>3, <1>4 DEF Ladder!PowerCycle

\* A test that is planned is the next one, once the effect is confirmed and nothing was saved.
LEMMA PlanIs ==
  ASSUME NEW gathered, NEW items, NEW next,
         next = Ladder!StopAndPlan(gathered, items).plan, next # None
  PROVE  /\ Ladder!Effective(gathered, items) \notin {"unknown", "reported", "not_effective"}
         /\ Ladder!Activating(items) = {}
         /\ next = Ladder!NextLevel(Ladder!Strongest(items))
         /\ next \in Ladder!Disruptive => user.disruption
         /\ ~(Ladder!HumanCost[next] > user.cost)
<1>1. PICK level : level = Ladder!NextLevel(Ladder!Strongest(items))
  OBVIOUS
<1>2. PICK w : w = Ladder!Effective(gathered, items)
  OBVIOUS
<1>3. PICK s : s = Ladder!Strongest(items)
  OBVIOUS
<1> QED
  BY <1>1, <1>2, <1>3 DEF Ladder!StopAndPlan

\* What is concluded depends on the evidence and on the user alone.
LEMMA VerifyStays ==
  ASSUME UNCHANGED user
  PROVE  Ladder!Verify(observed, persistence)' = Ladder!Verify(observed', persistence')
BY DEF Ladder!Verify, Ladder!StopAndPlan, Ladder!NextLevel, Ladder!Restoration,
       Ladder!Classifications, Ladder!Effective, Ladder!Strongest

LEMMA PlanIsLevel ==
  ASSUME LadderInv, assessment.plan # None
  PROVE  assessment.plan \in Ladder!Levels
<1>1. assessment.plan = Ladder!StopAndPlan(observed, persistence).plan
  BY DEF LadderInv, Ladder!Verify
<1>2. PICK s : s = Ladder!Strongest(persistence)
  OBVIOUS
<1>3. assessment.plan = Ladder!NextLevel(s)
  BY <1>1, <1>2, PlanIs
<1>4. s \in 0..5
  BY <1>2, StrongestIs DEF Ladder!PowerCycle
<1> QED
  BY <1>3, <1>4 DEF Ladder!NextLevel, Ladder!Levels, Ladder!Idle, Ladder!Reread,
                    Ladder!Reconnect, Ladder!Receiver, Ladder!PowerCycle

LEMMA TestsAreEarnedHolds ==
  ASSUME LadderInv
  PROVE  Ladder!TestsAreEarned
<1>1. PICK next : next = assessment.plan
  OBVIOUS
<1> SUFFICES ASSUME next # None
             PROVE  /\ next \in Ladder!Disruptive => user.disruption
                    /\ next = Ladder!Receiver => user.receiver
                    /\ next = Ladder!PowerCycle => user.power
                    /\ Ladder!HumanCost[next] <= user.cost
                    /\ tested.takes
                    /\ MilderPassed(next)
  BY <1>1 DEF Ladder!TestsAreEarned, MilderPassed
<1>2. next = Ladder!StopAndPlan(observed, persistence).plan
  BY <1>1 DEF LadderInv, Ladder!Verify
<1>3. PICK s : s = Ladder!Strongest(persistence)
  OBVIOUS
<1>4. /\ Ladder!Effective(observed, persistence) \notin {"unknown", "reported", "not_effective"}
      /\ Ladder!Activating(persistence) = {}
      /\ next = Ladder!NextLevel(s)
      /\ next \in Ladder!Disruptive => user.disruption
      /\ ~(Ladder!HumanCost[next] > user.cost)
  BY <1>2, <1>3, PlanIs
<1>5. tested.takes
  BY <1>4, EffectiveIs
<1>6. /\ s \in 0..5
      /\ s # 0 => \E i \in DOMAIN persistence :
                    Ladder!Survived(persistence[i]) = TRUE /\ s = persistence[i].level
  BY <1>3, StrongestIs DEF Ladder!PowerCycle
<1>7. \/ s = 0 /\ next = 1
      \/ s = 1 /\ next = 2
      \/ s = 2 /\ next = 3
      \/ s = 3 /\ next = 4 /\ user.receiver
      \/ s = 3 /\ next = 5 /\ ~user.receiver /\ user.power
      \/ s = 4 /\ next = 5 /\ user.power
  BY <1>4, <1>6 DEF Ladder!NextLevel, Ladder!Idle, Ladder!Reread, Ladder!Reconnect,
                    Ladder!Receiver, Ladder!PowerCycle
<1>8. MilderPassed(next)
  <2>1. CASE s \in {0, 1}
    BY <1>7, <2>1 DEF MilderPassed, Ladder!Reread
  <2>2. CASE s \notin {0, 1}
    <3>1. PICK i \in DOMAIN persistence :
            Ladder!Survived(persistence[i]) = TRUE /\ s = persistence[i].level
      BY <1>6, <2>2
    <3>2. s \in kept
      <4>1. persistence[i].level >= Ladder!Reread => persistence[i].level \in kept
        BY Zenon, <3>1, SurvivedIs
      <4> QED
        BY <1>6, <2>2, <3>1, <4>1 DEF Ladder!Reread
    <3>3. ~persistence[i].commit /\ ~persistence[i].apply
      BY <1>4, <3>1 DEF Ladder!Activating
    <3>4. MilderPassed(s)
      BY <3>1, <3>3 DEF LadderInv, ItemOf
    <3> QED
      BY <1>6, <1>7, <2>2, <3>2, <3>4 DEF MilderPassed, Ladder!Reread, Ladder!Receiver
  <2> QED
    BY <2>1, <2>2
<1>9. Ladder!HumanCost[next] <= user.cost
  <2>1. Ladder!HumanCost[next] \in Nat
    BY <1>7 DEF Ladder!HumanCost
  <2> QED
    BY <1>4, <2>1, UsersHaveNumbers DEF LadderInv
<1> QED
  BY <1>4, <1>5, <1>7, <1>8, <1>9 DEF Ladder!Receiver, Ladder!PowerCycle

LEMMA ClaimsAreTrueHolds ==
  ASSUME LadderInv
  PROVE  Ladder!ClaimsAreTrue
<1>1. PICK c : c = Ladder!Classifications(observed, persistence)
  OBVIOUS
<1>2. assessment.effective = Ladder!Effective(observed, persistence) /\ assessment.classes = c
  BY <1>1 DEF LadderInv, Ladder!Verify
<1>3. assessment.effective = "effective" => tested.takes
  BY <1>2, EffectiveIs
<1>4. ASSUME NEW level \in Ladder!Reread..Ladder!PowerCycle,
             Ladder!Class[level] # "session", Ladder!Class[level] \in c
      PROVE  level \in kept
  <2>1. level \in {3, 4, 5}
    BY <1>4 DEF Ladder!Class, Ladder!Reread, Ladder!PowerCycle
  <2>2. Ladder!Class[level] \in {"reconnect", "receiver_reconnect", "power_cycle"}
    BY <2>1 DEF Ladder!Class
  <2>3. PICK i \in DOMAIN persistence : /\ Ladder!Survived(persistence[i]) = TRUE
                                        /\ persistence[i].level \in Ladder!Levels
                                        /\ Ladder!Class[persistence[i].level] = Ladder!Class[level]
    BY <1>1, <1>4, <2>2 DEF Ladder!Classifications
  <2>4. persistence[i].level = level
    BY <2>1, <2>3 DEF Ladder!Class, Ladder!Levels, Ladder!Idle, Ladder!PowerCycle
  <2>5. persistence[i].level >= Ladder!Reread => persistence[i].level \in kept
    BY Zenon, <2>3, SurvivedIs
  <2> QED
    BY <2>1, <2>4, <2>5 DEF Ladder!Reread
<1>5. ASSUME "device_stored" \in c
      PROVE  tested.forgets > Ladder!PowerCycle \/ (committed /\ tested.saves)
  <2>1. \A level \in Ladder!Levels : Ladder!Class[level] # "device_stored"
    BY DEF Ladder!Class, Ladder!Levels, Ladder!Idle, Ladder!PowerCycle
  <2>2. PICK i \in DOMAIN persistence :
          /\ persistence[i].level = Ladder!PowerCycle /\ persistence[i].survived = TRUE
          /\ persistence[i].freshness = "fresh" /\ ~persistence[i].host
    BY <1>1, <1>5, <2>1 DEF Ladder!Classifications
  <2> QED
    BY <2>2 DEF LadderInv, ItemOf
<1>6. ASSUME assessment.strongest >= Ladder!Reread
      PROVE  assessment.strongest \in kept
  <2>1. PICK s : s = Ladder!Strongest(persistence) /\ s = assessment.strongest
    BY DEF LadderInv, Ladder!Verify
  <2>2. s # 0 => \E i \in DOMAIN persistence :
                   Ladder!Survived(persistence[i]) = TRUE /\ s = persistence[i].level
    BY <2>1, StrongestIs
  <2>3. PICK i \in DOMAIN persistence : /\ Ladder!Survived(persistence[i]) = TRUE
                                        /\ assessment.strongest = persistence[i].level
    BY <1>6, <2>1, <2>2 DEF Ladder!Reread
  <2>4. persistence[i].level >= Ladder!Reread => persistence[i].level \in kept
    BY Zenon, <2>3, SurvivedIs
  <2> QED
    BY <1>6, <2>3, <2>4
<1> QED
  BY <1>2, <1>3, <1>4, <1>5, <1>6 DEF Ladder!ClaimsAreTrue

LEMMA RestorationIsAskedHolds ==
  ASSUME LadderInv
  PROVE  Ladder!RestorationIsAsked
<1>1. PICK last : last = persistence[Len(persistence)]
  OBVIOUS
<1>2. PICK n : n = Len(persistence)
  OBVIOUS
<1> SUFFICES ASSUME observed # <<>>, persistence # <<>>, observed[1].before # None,
                    \A i \in DOMAIN persistence : persistence[i].level <= last.level,
                    last.after = setting
             PROVE  assessment.restore <=>
                      setting = "new" /\ \A i \in DOMAIN persistence : ~persistence[i].restored
  BY <1>1 DEF Ladder!RestorationIsAsked
<1>3. n \in DOMAIN persistence /\ DOMAIN persistence = 1..n /\ n \in Nat
  <2>1. n # 0
    BY <1>2 DEF LadderInv
  <2> QED
    BY <1>2, <2>1 DEF LadderInv
<1>4. PICK highest : highest = {i \in DOMAIN persistence : \A j \in DOMAIN persistence :
                                  persistence[j].level <= persistence[i].level}
  OBVIOUS
<1>5. Ladder!Max(highest) = n
  <2>1. n \in highest
    BY <1>1, <1>2, <1>3, <1>4
  <2>2. \A i \in highest : i \in Nat /\ i <= n
    BY <1>3, <1>4
  <2>3. \A x \in highest : (\A y \in highest : x >= y) => x = n
    BY <1>3, <2>1, <2>2
  <2>4. \A y \in highest : n >= y
    BY <1>3, <2>2
  <2> QED
    BY <2>1, <2>3, <2>4 DEF Ladder!Max
<1>6. Ladder!LastOf(persistence).after = setting
  BY <1>1, <1>2, <1>4, <1>5 DEF Ladder!LastOf
<1>7. Ladder!Decisive(observed).before = observed[1].before
  BY DecisiveIs
<1>8. observed[1].before = "old"
  BY DEF LadderInv, EffectOf
<1>9. setting # None
  BY NoneIsNoReading DEF LadderInv
<1>10. (\E i \in DOMAIN persistence : persistence[i].restored /\ persistence[i].after = "old")
         <=> \E i \in DOMAIN persistence : persistence[i].restored
  BY DEF LadderInv, ItemOf
<1>11. assessment.restore = Ladder!Restoration(observed, persistence)
  BY DEF LadderInv, Ladder!Verify
<1>12. Ladder!Restoration(observed, persistence) <=>
         /\ "old" # setting
         /\ ~\E i \in DOMAIN persistence : persistence[i].restored
  BY <1>6, <1>7, <1>8, <1>9, <1>10 DEF Ladder!Restoration
<1> QED
  BY <1>11, <1>12 DEF LadderInv

-----------------------------------------------------------------------------------

LEMMA LadderInit == Ladder!Init => LadderInv
<1> SUFFICES ASSUME Ladder!Init PROVE LadderInv
  OBVIOUS
<1>1. /\ tested \in TestMice /\ user \in TestUsers
      /\ setting \in {"old", "new"} /\ committed \in BOOLEAN
  BY DEF Ladder!Init
<1>2. observed = <<>> /\ persistence = <<>>
  BY DEF Ladder!Init
<1>3. Len(persistence) = 0 /\ DOMAIN persistence = {}
  BY <1>2
<1>4. assessment = Ladder!Verify(observed, persistence)
  BY <1>2 DEF Ladder!Init
<1> QED
  BY <1>1, <1>2, <1>3, <1>4 DEF LadderInv

\* What is kept is kept, and so is what was saved.
LEMMA OneItemStays ==
  ASSUME NEW e, ItemOf(e), kept \subseteq kept', committed => committed',
         UNCHANGED <<tested, user>>
  PROVE  ItemOf(e)'
BY DEF ItemOf, MilderPassed

\* A reading is added, and what was said of the earlier ones stays so.
LEMMA ItemsStay ==
  ASSUME LadderInv, NEW e, ItemOf(e)', persistence' = Append(persistence, e),
         kept \subseteq kept', committed => committed', UNCHANGED <<tested, user>>
  PROVE  /\ Len(persistence') \in Nat /\ DOMAIN persistence' = 1..Len(persistence')
         /\ \A i \in DOMAIN persistence' : ItemOf(persistence[i])'
<1>1. PICK n : n = Len(persistence)
  OBVIOUS
<1>2. n \in Nat /\ DOMAIN persistence = 1..n
  BY <1>1 DEF LadderInv
<1>3. /\ Len(persistence') = n + 1 /\ DOMAIN persistence' = 1..(n + 1)
      /\ persistence'[n + 1] = e
      /\ \A i \in 1..n : persistence'[i] = persistence[i]
  BY <1>1, <1>2
<1>4. ASSUME NEW i \in 1..n
      PROVE  ItemOf(persistence[i])'
  <2>1. PICK d : d = persistence[i]
    OBVIOUS
  <2>2. ItemOf(d)
    BY <1>2, <2>1 DEF LadderInv
  <2>3. ItemOf(d)'
    BY <2>2, OneItemStays
  <2>4. persistence'[i] = d
    BY <1>3, <2>1
  <2> QED
    BY <2>3, <2>4 DEF ItemOf, MilderPassed
<1>5. ItemOf(persistence[n + 1])'
  <2>1. persistence'[n + 1] = e
    BY <1>3
  <2> QED
    BY <2>1 DEF ItemOf, MilderPassed
<1> QED
  BY <1>2, <1>3, <1>4, <1>5

\* One test: what is read of it is so, if every milder level was passed or the user saves.
LEMMA ReadsKeep ==
  ASSUME LadderInv, NEW level \in Ladder!Levels, NEW inMouse \in BOOLEAN,
         NEW commits \in BOOLEAN, NEW applies \in BOOLEAN,
         Ladder!Reads(level, inMouse, commits, applies),
         commits \/ applies \/ MilderPassed(level),
         inMouse => committed', committed => committed', committed' \in BOOLEAN,
         UNCHANGED <<tested, user, observed>>
  PROVE  LadderInv'
<1>1. PICK now : now = Ladder!Outcome(level, inMouse)
  OBVIOUS
<1>2. PICK read \in Ladder!Readings(now), noticed \in BOOLEAN, measured \in BOOLEAN :
        /\ measured => (commits \/ applies) /\ tested.takes /\ now = "new"
        /\ persistence' = Append(persistence,
             Ladder!Item(level, read, commits, applies,
                         noticed /\ Ladder!Forgets(level, inMouse)
                           /\ ~Ladder!Reapplies(level, inMouse),
                         Ladder!Reapplies(level, inMouse), measured))
  BY <1>1 DEF Ladder!Reads
<1>3. /\ setting' = now
      /\ kept' = IF now = "new" THEN kept \cup {level} ELSE kept
      /\ assessment' = Ladder!Verify(observed, persistence')
  BY <1>1 DEF Ladder!Reads
<1>4. now \in {"old", "new"}
  BY <1>1 DEF Ladder!Outcome, LadderInv
<1>5. PICK e : e = Ladder!Item(level, read, commits, applies,
                         noticed /\ Ladder!Forgets(level, inMouse)
                           /\ ~Ladder!Reapplies(level, inMouse),
                         Ladder!Reapplies(level, inMouse), measured)
  OBVIOUS
<1>6. /\ e.level = level /\ e.freshness = read.freshness
      /\ e.survived = IF read.after = None THEN None ELSE read.after = "new"
      /\ e.commit = commits /\ e.apply = applies /\ e.restored = FALSE /\ e.physical = measured
      /\ e.host = Ladder!Reapplies(level, inMouse)
  BY <1>5 DEF Ladder!Item
<1>7. kept \subseteq kept'
  BY <1>3
<1>8. ASSUME e.survived = TRUE, e.freshness = "fresh"
      PROVE  now = "new"
  <2>1. read.freshness = "fresh" => read.after = now
    BY DEF Ladder!Readings
  <2>2. now # None
    BY <1>4, NoneIsNoReading
  <2> QED
    BY <1>6, <1>8, <2>1, <2>2
<1>9. ASSUME e.level = Ladder!PowerCycle, now = "new", ~e.host
      PROVE  tested.forgets > Ladder!PowerCycle \/ (committed' /\ tested.saves)
  <2>1. level = 5 /\ level \in Ladder!Disruptive
    BY <1>6, <1>9 DEF Ladder!PowerCycle, Ladder!Disruptive
  <2>2. ~Ladder!Reapplies(level, inMouse)
    BY <1>6, <1>9
  <2>3. ~Ladder!Forgets(level, inMouse) /\ setting = "new"
    BY <1>1, <1>9, <2>2 DEF Ladder!Outcome
  <2>4. ~(level >= tested.forgets /\ ~(inMouse /\ tested.saves))
    BY <2>3 DEF Ladder!Forgets
  <2>5. tested.forgets \in Nat
    BY LevelsAreNumbers DEF LadderInv
  <2> QED
    BY <2>1, <2>4, <2>5 DEF Ladder!PowerCycle
<1>10. ItemOf(e)'
  <2>1. e.survived = TRUE /\ e.freshness = "fresh" => e.level \in kept'
    BY <1>3, <1>6, <1>8
  <2>2. e.level = Ladder!PowerCycle /\ e.survived = TRUE /\ e.freshness = "fresh" /\ ~e.host
          => tested'.forgets > Ladder!PowerCycle \/ (committed' /\ tested'.saves)
    BY <1>8, <1>9
  <2>3. e.physical => tested'.takes
    BY <1>2, <1>6
  <2>4. commits \/ applies \/ MilderPassed(level)'
    BY <1>7 DEF MilderPassed
  <2> QED
    BY <1>6, <2>1, <2>2, <2>3, <2>4 DEF ItemOf, MilderPassed
<1>11. /\ Len(persistence') \in Nat /\ DOMAIN persistence' = 1..Len(persistence')
       /\ \A i \in DOMAIN persistence' : ItemOf(persistence[i])'
  BY <1>2, <1>5, <1>7, <1>10, ItemsStay
<1>12. assessment' = Ladder!Verify(observed, persistence)'
  BY <1>3, VerifyStays
<1> QED
  BY <1>3, <1>4, <1>11, <1>12 DEF LadderInv, EffectOf

LEMMA LadderNext == ASSUME LadderInv, [Ladder!Next]_Ladder!vars PROVE LadderInv'
<1>1. CASE UNCHANGED Ladder!vars
  <2>1. assessment' = Ladder!Verify(observed, persistence)'
    BY <1>1, VerifyStays DEF Ladder!vars, LadderInv
  <2> QED
    BY <1>1, <2>1 DEF Ladder!vars, LadderInv, ItemOf, MilderPassed, EffectOf
<1>2. CASE Ladder!Test
  <2>1. PICK level : level = assessment.plan
    OBVIOUS
  <2>2. level # None /\ MilderPassed(level)
    BY <1>2, <2>1, TestsAreEarnedHolds DEF Ladder!Test, Ladder!TestsAreEarned, MilderPassed
  <2>3. level \in Ladder!Levels
    BY <2>1, <2>2, PlanIsLevel
  <2>4. /\ Ladder!Reads(level, committed, FALSE, FALSE)
        /\ UNCHANGED <<tested, user, committed, observed>>
    BY <1>2, <2>1 DEF Ladder!Test
  <2>5. committed \in BOOLEAN
    BY DEF LadderInv
  <2> QED
    BY <2>2, <2>3, <2>4, <2>5, ReadsKeep
<1>3. CASE Ladder!ChangeAgain
  <2>1. setting' = "new" /\ UNCHANGED <<tested, user, reported, committed, observed, persistence,
                                        kept, assessment>>
    BY <1>3 DEF Ladder!ChangeAgain
  <2>2. assessment' = Ladder!Verify(observed, persistence)'
    BY <2>1, VerifyStays DEF LadderInv
  <2> QED
    BY <2>1, <2>2 DEF LadderInv, ItemOf, MilderPassed, EffectOf
<1>4. CASE Ladder!Restore
  <2>1. /\ setting' = "old" /\ persistence' = Append(persistence, Ladder!Restored)
        /\ assessment' = Ladder!Verify(observed, persistence')
        /\ UNCHANGED <<tested, user, committed, observed, kept>>
    BY <1>4 DEF Ladder!Restore
  <2>2. PICK e : e = Ladder!Restored
    OBVIOUS
  <2>3. ItemOf(e)'
    <3>1. /\ e.level = 1 /\ e.survived = None /\ e.after = "old" /\ e.physical = FALSE
      BY <2>2 DEF Ladder!Restored, Ladder!Idle
    <3>2. e.survived # TRUE
      BY <3>1, NoneIsNoReading
    <3>3. e.level \in Ladder!Levels /\ MilderPassed(e.level)'
      BY <3>1 DEF MilderPassed, Ladder!Levels, Ladder!Idle, Ladder!PowerCycle, Ladder!Reread
    <3> QED
      BY <3>1, <3>2, <3>3 DEF ItemOf
  <2>4. /\ Len(persistence') \in Nat /\ DOMAIN persistence' = 1..Len(persistence')
        /\ \A i \in DOMAIN persistence' : ItemOf(persistence[i])'
    BY <2>1, <2>2, <2>3, ItemsStay
  <2>5. assessment' = Ladder!Verify(observed, persistence)'
    BY <2>1, VerifyStays
  <2> QED
    BY <2>1, <2>4, <2>5 DEF LadderInv, EffectOf
<1>5. ASSUME NEW experiment \in TestExperiments, Ladder!Observe(experiment)
      PROVE  LadderInv'
  <2>1. PICK e : e = Ladder!DeriveEffect(experiment)
    OBVIOUS
  <2>2. /\ observed' = <<e>> /\ assessment' = Ladder!Verify(observed', persistence)
        /\ UNCHANGED <<tested, user, setting, reported, committed, persistence, kept>>
        /\ Ladder!Observable(experiment)
    BY <1>5, <2>1 DEF Ladder!Observe
  <2>3. EffectOf(e)
    <3>1. e.before = IF experiment.field = None THEN None ELSE experiment.field[1]
      BY <2>1 DEF Ladder!DeriveEffect
    <3>2. experiment.field = None \/ experiment.field = <<"old", "new">>
      BY <2>2 DEF Ladder!Observable
    <3>3. e.physical = IF experiment.physical = None THEN "unknown"
                       ELSE IF experiment.physical[1] # experiment.physical[2]
                       THEN "effective" ELSE "not_effective"
      BY <2>1 DEF Ladder!DeriveEffect
    <3>4. \/ experiment.physical = None
          \/ experiment.physical = <<0, IF tested.takes THEN 1 ELSE 0>>
      BY <2>2 DEF Ladder!Observable
    <3>5. e.before \in {None, "old"}
      BY <3>1, <3>2
    <3>6. e.physical \in {"unknown", "effective", "not_effective"}
      BY <3>3
    <3>7. e.physical = "effective" => tested.takes
      BY <3>3, <3>4
    <3> QED
      BY <3>5, <3>6, <3>7 DEF EffectOf
  <2>4. observed' = <<observed'[1]>> /\ EffectOf(observed[1])'
    BY <2>2, <2>3 DEF EffectOf
  <2>5. assessment' = Ladder!Verify(observed, persistence)'
    BY <2>2, VerifyStays
  <2> QED
    BY <2>2, <2>4, <2>5 DEF LadderInv, ItemOf, MilderPassed
<1>6. ASSUME NEW level \in Ladder!Levels, Ladder!Commit(level)
      PROVE  LadderInv'
  <2>1. committed' = TRUE /\ UNCHANGED <<tested, user, observed>>
    BY <1>6 DEF Ladder!Commit
  <2>2. PICK commits \in BOOLEAN : Ladder!Reads(level, TRUE, commits, ~commits)
    BY <1>6 DEF Ladder!Commit
  <2> QED
    BY <2>1, <2>2, ReadsKeep
<1> QED
  BY <1>1, <1>2, <1>3, <1>4, <1>5, <1>6 DEF Ladder!Next

\* Whatever the mouse forgets, whoever keeps it, whatever is read of it and whatever the user
\* accepts: an effect is confirmed where there is one; a setting is said to last beyond the
\* session, and to have outlived its strongest level from a reread on, where it did; each test
\* is proposed after every milder one, to a user who accepts it; and when the last reading is
\* fresh and of the highest level, the user is asked to restore what is changed, and only that.
THEOREM PersistenceLadderIsSound == Ladder!Spec => []LadderIsSound
<1>1. LadderInv => LadderIsSound
  BY ClaimsAreTrueHolds, TestsAreEarnedHolds, RestorationIsAskedHolds
     DEF LadderIsSound, Ladder!LadderIsSound
<1> QED
  BY <1>1, LadderInit, LadderNext, PTL DEF Ladder!Spec

-----------------------------------------------------------------------------------
(* A family is recognized on evidence that leads                                   *)

\* What is so much of each of finitely many things is finite.
LEMMA PointsAreFinite ==
  ASSUME NEW D, IsFiniteSet(D), NEW w \in [D -> Nat]
  PROVE  IsFiniteSet(UNION {{d} \X (1..w[d]) : d \in D})
<1> DEFINE S == {{d} \X (1..w[d]) : d \in D}
           points == [d \in D |-> {d} \X (1..w[d])]
<1>1. points \in Surjection(D, S)
  BY DEF Surjection
<1>2. IsFiniteSet(S)
  <2> HIDE DEF points, S
  <2> QED
    BY <1>1, FS_Surjection
<1>3. ASSUME NEW T \in S
      PROVE  IsFiniteSet(T)
  <2>1. PICK d \in D : T = {d} \X (1..w[d])
    OBVIOUS
  <2>2. IsFiniteSet({d}) /\ IsFiniteSet(1..w[d])
    <3>1. w[d] \in Int /\ 1 \in Int
      OBVIOUS
    <3> QED
      BY <3>1, FS_Singleton, FS_Interval
  <2> QED
    BY <2>1, <2>2, FS_Product
<1> HIDE DEF S
<1>4. IsFiniteSet(UNION S)
  BY <1>2, <1>3, FS_UNION
<1> QED
  BY <1>4 DEF S

\* Of finitely many scores one comes first: no higher one, and no equal one of a lower name.
LEMMA OneComesFirst ==
  ASSUME NEW S, IsFiniteSet(S), S # {}, S \subseteq Nat, NEW score \in [S -> Int]
  PROVE  \E f \in S : \A g \in S \ {f} :
           score[f] > score[g] \/ (score[f] = score[g] /\ f < g)
<1> DEFINE Better(g, f) == score[g] > score[f] \/ (score[g] = score[f] /\ g < f)
           Ahead(f) == {g \in S : Better(g, f)}
           T == {Ahead(f) : f \in S}
           R == StrictSubsetOrdering(S)
<1>1. IsWellFoundedOn(R, SUBSET S)
  BY FS_StrictSubsetOrderingWellFounded, FS_FiniteSubsetsOfFinite
<1>2. PICK least \in T : \A t \in T : ~(<<t, least>> \in R)
  <2>1. \A g \in S : Ahead(g) \in SUBSET S
    OBVIOUS
  <2>2. T \subseteq SUBSET S
    <3> HIDE DEF Ahead
    <3> QED
      BY <2>1
  <2>3. T # {}
    <3> HIDE DEF Ahead
    <3> QED
      OBVIOUS
  <2> HIDE DEF T, R
  <2> QED
    BY <1>1, <2>2, <2>3, WFMin
<1>3. PICK f \in S : least = Ahead(f)
  BY <1>2
<1>4. ASSUME NEW g \in S \ {f}, Better(g, f)
      PROVE  FALSE
  <2>1. ASSUME NEW h \in S, Better(h, g)
        PROVE  Better(h, f)
    <3>1. score[f] \in Int /\ score[g] \in Int /\ score[h] \in Int
      OBVIOUS
    <3>2. f \in Nat /\ g \in Nat /\ h \in Nat
      OBVIOUS
    <3> QED
      BY <1>4, <2>1, <3>1, <3>2
  <2>2. ~Better(g, g)
    <3>1. score[g] \in Int /\ g \in Nat
      OBVIOUS
    <3> QED
      BY <3>1
  <2>3. Ahead(g) \subseteq Ahead(f)
    BY <2>1
  <2>4. g \in Ahead(f) /\ g \notin Ahead(g)
    BY <1>4, <2>2
  <2>5. Ahead(g) \in SUBSET S /\ Ahead(f) \in SUBSET S /\ Ahead(g) \in T
    OBVIOUS
  <2>6. <<Ahead(g), Ahead(f)>> \in R
    <3> HIDE DEF Ahead, T
    <3> QED
      BY <2>3, <2>4, <2>5 DEF StrictSubsetOrdering
  <2> QED
    BY <1>2, <1>3, <2>5, <2>6
<1>5. ASSUME NEW g \in S \ {f}
      PROVE  Better(f, g)
  <2>1. score[f] \in Int /\ score[g] \in Int /\ f \in Nat /\ g \in Nat /\ f # g
    OBVIOUS
  <2>2. ~Better(g, f)
    BY <1>4
  <2> QED
    BY <2>1, <2>2
<1> QED
  BY <1>5

\* Up to seven things are finitely many.
LEMMA SevenAreFinite ==
  ASSUME NEW a, NEW b, NEW c, NEW d, NEW e, NEW f, NEW g
  PROVE  IsFiniteSet({a, b, c, d}) /\ IsFiniteSet({a, b, c, d, e, f, g})
<1>1. IsFiniteSet({a}) /\ IsFiniteSet({b}) /\ IsFiniteSet({c}) /\ IsFiniteSet({d})
      /\ IsFiniteSet({e}) /\ IsFiniteSet({f}) /\ IsFiniteSet({g})
  BY FS_Singleton
<1>2. IsFiniteSet({a} \cup {b}) /\ IsFiniteSet({c} \cup {d}) /\ IsFiniteSet({e} \cup {f})
  BY <1>1, FS_Union
<1>3. IsFiniteSet(({a} \cup {b}) \cup ({c} \cup {d}))
  BY <1>2, FS_Union
<1>4. IsFiniteSet(({e} \cup {f}) \cup {g})
  BY <1>1, <1>2, FS_Union
<1>5. IsFiniteSet((({a} \cup {b}) \cup ({c} \cup {d})) \cup (({e} \cup {f}) \cup {g}))
  BY <1>3, <1>4, FS_Union
<1>6. ({a} \cup {b}) \cup ({c} \cup {d}) = {a, b, c, d}
  OBVIOUS
<1>7. (({a} \cup {b}) \cup ({c} \cup {d})) \cup (({e} \cup {f}) \cup {g})
        = {a, b, c, d, e, f, g}
  OBVIOUS
<1> QED
  BY <1>3, <1>5, <1>6, <1>7

\* A recipe has finitely many checks, which weigh something.
LEMMA ChecksAreFinite ==
  ASSUME NEW f \in Who!Families
  PROVE  IsFiniteSet(Who!Checks(f)) /\ \A c \in Who!Checks(f) : c.weight \in Nat
<1>1. CASE Repertoire[f].recipe.kind = "exchange"
  BY <1>1, RecipesAreFinite DEF Who!Families, Who!Checks, Who!Recipe
<1>2. CASE Repertoire[f].recipe.kind # "exchange"
  <2>1. Who!Checks(f) \in {Who!BurstChecks, Who!PushedChecks, Who!RecordChecks}
    BY <1>2 DEF Who!Checks, Who!Recipe
  <2>2. IsFiniteSet(Who!BurstChecks) /\ \A c \in Who!BurstChecks : c.weight \in Nat
    <3>1. IsFiniteSet(Who!BurstChecks)
      BY SevenAreFinite DEF Who!BurstChecks
    <3>2. \A c \in Who!BurstChecks : c.weight \in Nat
      BY DEF Who!BurstChecks, Who!Check
    <3> QED
      BY <3>1, <3>2
  <2>3. IsFiniteSet(Who!PushedChecks) /\ \A c \in Who!PushedChecks : c.weight \in Nat
    <3>1. IsFiniteSet(Who!PushedChecks)
      BY SevenAreFinite DEF Who!PushedChecks
    <3>2. \A c \in Who!PushedChecks : c.weight \in Nat
      BY DEF Who!PushedChecks, Who!Check
    <3> QED
      BY <3>1, <3>2
  <2>4. IsFiniteSet(Who!RecordChecks) /\ \A c \in Who!RecordChecks : c.weight \in Nat
    <3>1. IsFiniteSet(Who!RecordChecks)
      BY SevenAreFinite DEF Who!RecordChecks
    <3>2. \A c \in Who!RecordChecks : c.weight \in Nat
      BY DEF Who!RecordChecks, Who!Check
    <3> QED
      BY <3>1, <3>2
  <2> QED
    BY <2>1, <2>2, <2>3, <2>4
<1> QED
  BY <1>1, <1>2

\* What a mouse scores for a family is a number.
LEMMA TotalsAreNumbers ==
  ASSUME NEW f \in Who!Families, NEW m, NEW given
  PROVE  Cardinality(Who!SignaturePoints(f, m)) \in Nat /\ Who!Total(f, m, given) \in Int
<1>1. Cardinality(Who!SignaturePoints(f, m)) \in Nat
  <2> DEFINE D == {j \in DOMAIN Repertoire[f].signatures :
                     Who!SignatureMatches(Repertoire[f].signatures[j], m)}
             w == [j \in D |-> Repertoire[f].signatures[j].weight]
  <2>1. D \in SUBSET DOMAIN Repertoire[f].signatures
        /\ IsFiniteSet(DOMAIN Repertoire[f].signatures)
    BY ScoresAreNumbers DEF Who!Families
  <2>2. w \in [D -> Nat]
    BY ScoresAreNumbers DEF Who!Families
  <2>3. Who!SignaturePoints(f, m) = UNION {{d} \X (1..w[d]) : d \in D}
    BY DEF Who!SignaturePoints
  <2> HIDE DEF D, w
  <2>4. IsFiniteSet(D)
    BY <2>1, FS_Subset
  <2>5. IsFiniteSet(Who!SignaturePoints(f, m))
    BY <2>2, <2>3, <2>4, PointsAreFinite
  <2> QED
    BY <2>5, FS_CardinalityType
<1>2. Cardinality(Who!CheckPoints(f, Who!Seen(f, given))) \in Nat
  <2> DEFINE D == Who!Matched(f, Who!Seen(f, given))
             w == [c \in D |-> c.weight]
  <2>1. D \in SUBSET Who!Checks(f)
    BY DEF Who!Matched
  <2>2. w \in [D -> Nat]
    BY <2>1, ChecksAreFinite
  <2>3. Who!CheckPoints(f, Who!Seen(f, given)) = UNION {{d} \X (1..w[d]) : d \in D}
    BY DEF Who!CheckPoints
  <2> HIDE DEF D, w
  <2>4. IsFiniteSet(D)
    BY <2>1, ChecksAreFinite, FS_Subset
  <2>5. IsFiniteSet(Who!CheckPoints(f, Who!Seen(f, given)))
    BY <2>2, <2>3, <2>4, PointsAreFinite
  <2> QED
    BY <2>5, FS_CardinalityType
<1>3. Who!StructuralScore(f, m) \in Nat
  BY <1>1, SameCardinality DEF Who!StructuralScore
<1> QED
  BY <1>1, <1>2, <1>3, SameCardinality DEF Who!Total, Who!Score

\* Of some candidates one comes first.
LEMMA FirstIs ==
  ASSUME NEW m, NEW given, NEW F, F \subseteq Who!Candidates(m, given), F # {}
  PROVE  /\ Who!First(F, m, given) \in F
         /\ \A g \in F \ {Who!First(F, m, given)} :
              Who!Precedes(Who!First(F, m, given), g, m, given)
<1> DEFINE score == [f \in F |-> Who!Total(f, m, given)]
<1>1. F \in SUBSET Who!Families
  BY DEF Who!Candidates
<1>2. IsFiniteSet(F) /\ F \subseteq Nat
  BY <1>1, FamiliesAreNumbered, FS_Subset DEF Who!Families
<1>3. score \in [F -> Int]
  BY <1>1, TotalsAreNumbers
<1>4. PICK f \in F : \A g \in F \ {f} :
        score[f] > score[g] \/ (score[f] = score[g] /\ f < g)
  <2> HIDE DEF score
  <2> QED
    BY <1>2, <1>3, OneComesFirst
<1>5. \A g \in F \ {f} : Who!Precedes(f, g, m, given)
  BY <1>4 DEF Who!Precedes
<1> QED
  BY <1>5 DEF Who!First

\* The one that leads is ahead of every other by the margin.
LEMMA LeaderLeads ==
  ASSUME NEW m, NEW given, NEW f, Who!Leads(f, m, given)
  PROVE  \A g \in Who!Candidates(m, given) \ {f} :
           Who!Total(g, m, given) + Margin <= Who!Total(f, m, given)
<1> DEFINE all == Who!Candidates(m, given)
           first == Who!First(all, m, given)
           others == all \ {first}
           second == Who!First(others, m, given)
<1>1. f \in all /\ all # {}
  BY DEF Who!Leads, Who!Good
<1>2. ASSUME NEW g \in all
      PROVE  Who!Total(g, m, given) \in Int
  BY TotalsAreNumbers DEF Who!Candidates
<1>3. Margin \in Nat /\ Margin > 0
  BY ScoresAreNumbers
<1>4. CASE others = {}
  BY <1>1, <1>4
<1>5. CASE others # {}
  <2>1. second \in others /\ \A g \in others \ {second} : Who!Precedes(second, g, m, given)
    <3>1. others \subseteq all
      OBVIOUS
    <3> HIDE DEF others
    <3> QED
      BY <1>5, <3>1, FirstIs
  <2>2. Who!Total(f, m, given) - Who!Total(second, m, given) >= Margin
    BY <1>5 DEF Who!Leads, Who!RunnerScore
  <2>3. ASSUME NEW g \in others
        PROVE  Who!Total(g, m, given) <= Who!Total(second, m, given)
    <3> HIDE DEF second
    <3>1. Who!Total(g, m, given) \in Int /\ Who!Total(second, m, given) \in Int
      BY <1>2, <2>1
    <3>2. g = second \/ Who!Precedes(second, g, m, given)
      BY <2>1
    <3> QED
      BY <3>1, <3>2 DEF Who!Precedes
  <2> HIDE DEF second
  <2>4. f \notin others
    BY <1>1, <1>2, <1>3, <2>1, <2>2, <2>3
  <2>5. ASSUME NEW g \in all \ {f}
        PROVE  Who!Total(g, m, given) + Margin <= Who!Total(f, m, given)
    <3>1. g \in others
      BY <1>1, <2>4
    <3>2. Who!Total(g, m, given) \in Int /\ Who!Total(second, m, given) \in Int
          /\ Who!Total(f, m, given) \in Int
      BY <1>1, <1>2, <2>1
    <3> QED
      BY <1>3, <2>2, <2>3, <3>1, <3>2
  <2> QED
    BY <2>5
<1> QED
  BY <1>4, <1>5

\* A family that is recognized is the only good one, and it leads.
LEMMA RecognizedIs ==
  ASSUME NEW m, NEW given, Who!OpenSet(m, given).status = "recognized"
  PROVE  /\ Who!OpenSet(m, given).family \in Who!Good(m, given)
         /\ Who!Leads(Who!OpenSet(m, given).family, m, given)
<1> DEFINE winner == Who!First(Who!Good(m, given), m, given)
<1>1. PICK w : w = winner
  OBVIOUS
<1>2. Who!OpenSet(m, given) = Who!Result("recognized", w) /\ Who!Leads(w, m, given)
  BY <1>1 DEF Who!OpenSet, Who!Result
<1>3. w \in Who!Good(m, given)
  BY <1>2 DEF Who!Leads
<1> QED
  BY <1>2, <1>3 DEF Who!Result

\* Without its identity a mouse scores no more and has evidence of no more kinds.
LEMMA IdentityOnlySupports ==
  ASSUME NEW given, NEW f \in Who!Good(Who!Anonymous, given)
  PROVE  f \in Who!Good(mouse, given)
<1>1. PICK anyone : anyone = Who!Anonymous
  OBVIOUS
<1>2. PICK facts : facts = Who!Seen(f, given)
  OBVIOUS
<1>3. anyone.vendor = None /\ anyone.product = None /\ anyone.shapes = mouse.shapes
  BY <1>1 DEF Who!Anonymous
<1>4. f \in Who!Families /\ Who!Matches(f, anyone) /\ Who!Recognized(f, anyone, facts)
      /\ (Who!Recipe(f).kind \in {"exchange", None} \/ f \in given)
  BY <1>1, <1>2 DEF Who!Good, Who!Candidates
<1>5. ~Who!VendorMatch(f, anyone) /\ ~Who!ProductMatch(f, anyone)
  BY <1>3, <1>4, NoneIsNoIdentity DEF Who!VendorMatch, Who!ProductMatch, Who!Families
<1>6. \A s : Who!SignatureMatches(s, anyone) = Who!SignatureMatches(s, mouse)
  BY <1>3 DEF Who!SignatureMatches
<1>7. Who!Matches(f, mouse)
  <2>1. Who!SignaturePoints(f, anyone) = Who!SignaturePoints(f, mouse)
    BY <1>3 DEF Who!SignaturePoints, Who!SignatureMatches
  <2>2. PICK points : points = Cardinality(Who!SignaturePoints(f, mouse))
    OBVIOUS
  <2>3. Who!StructuralScore(f, anyone) = points + 0 + 0
    BY <1>5, <2>1, <2>2, SameCardinality DEF Who!StructuralScore
  <2>4. Who!StructuralScore(f, mouse) = points
          + (IF Who!VendorMatch(f, mouse) THEN 1 ELSE 0)
          + (IF Who!ProductMatch(f, mouse) THEN 2 ELSE 0)
    BY <2>2, SameCardinality DEF Who!StructuralScore
  <2>5. points \in Nat
    BY <1>4, <2>1, <2>2, TotalsAreNumbers
  <2>6. Repertoire[f].minimum \in Nat
    BY <1>4, ScoresAreNumbers DEF Who!Families
  <2>7. Who!StructuralScore(f, anyone) >= Repertoire[f].minimum
    BY <1>4 DEF Who!Matches
  <2>8. Who!StructuralScore(f, mouse) >= Repertoire[f].minimum
    BY <2>3, <2>4, <2>5, <2>6, <2>7
  <2> QED
    BY <1>4, <1>5, <1>6, <2>8 DEF Who!Matches
<1>8. Who!Recognized(f, mouse, facts)
  <2>1. Who!Categories(f, anyone, facts) \in SUBSET Who!Categories(f, mouse, facts)
    BY <1>5 DEF Who!Categories, Who!ExactIdentity
  <2>2. IsFiniteSet(Who!Categories(f, mouse, facts))
    <3>1. IsFiniteSet(Who!EvidenceCategories)
      BY SevenAreFinite DEF Who!EvidenceCategories
    <3>2. Who!Categories(f, mouse, facts) \in SUBSET Who!EvidenceCategories
      BY DEF Who!Categories
    <3> QED
      BY <3>1, <3>2, FS_Subset
  <2>3. IsFiniteSet(Who!Categories(f, anyone, facts))
    BY <2>1, <2>2, FS_Subset
  <2>4. /\ Cardinality(Who!Categories(f, anyone, facts)) \in Nat
        /\ Cardinality(Who!Categories(f, mouse, facts)) \in Nat
        /\ Cardinality(Who!Categories(f, anyone, facts))
             <= Cardinality(Who!Categories(f, mouse, facts))
    BY <2>1, <2>2, <2>3, FS_Subset, FS_CardinalityType
  <2>5. Who!Recipe(f).categories \in Nat
    BY <1>4, RecipesAreFinite DEF Who!Families, Who!Recipe, Who!Recognized
  <2> QED
    BY <1>4, <2>4, <2>5, SameCardinality DEF Who!Recognized
<1> QED
  BY <1>2, <1>4, <1>7, <1>8 DEF Who!Good, Who!Candidates

\* What recognizes a family passes all its checks.
LEMMA EvidencePasses ==
  ASSUME NEW m, NEW given, NEW f \in Who!Good(m, given)
  PROVE  /\ f \in given /\ evidence[f] # <<>>
         /\ \A c \in Who!Checks(f) : Who!Passes(c, f, evidence[f])
<1>1. Who!Matched(f, Who!Seen(f, given)) # {} /\ Who!Missing(f, Who!Seen(f, given)) = {}
  BY DEF Who!Good, Who!Recognized
<1>2. Who!Seen(f, given) # <<>>
  BY <1>1 DEF Who!Matched
<1>3. f \in given /\ Who!Seen(f, given) = evidence[f]
  BY <1>2 DEF Who!Seen
<1>4. ASSUME NEW c \in Who!Checks(f)
      PROVE  c \in Who!Matched(f, evidence[f])
  BY <1>1, <1>2, <1>3 DEF Who!Missing
<1> QED
  BY <1>2, <1>3, <1>4 DEF Who!Matched

\* Whatever is decided leads.
LEMMA DecisionsLead ==
  ASSUME Who!OpenSet(mouse, supplied).status = "recognized"
  PROVE  LET bare == Who!OpenSet(Who!Anonymous, supplied)
             f == Who!OpenSet(mouse, supplied).family
         IN /\ f \in supplied /\ evidence[f] # <<>>
            /\ \A c \in Who!Checks(f) : c.mode = "all" =>
                 \A i \in DOMAIN evidence[f] : evidence[f][i].fails # c.name
            /\ \A g \in Who!Candidates(mouse, supplied) \ {f} :
                 Who!Total(g, mouse, supplied) + Margin <= Who!Total(f, mouse, supplied)
            /\ bare.status = "recognized" => bare.family = f
<1>1. PICK f : f = Who!OpenSet(mouse, supplied).family
  OBVIOUS
<1>2. f \in Who!Good(mouse, supplied) /\ Who!Leads(f, mouse, supplied)
  BY <1>1, RecognizedIs
<1>3. f \in supplied /\ evidence[f] # <<>>
      /\ \A c \in Who!Checks(f) : Who!Passes(c, f, evidence[f])
  BY <1>2, EvidencePasses
<1>4. \A c \in Who!Checks(f) : c.mode = "all" =>
        \A i \in DOMAIN evidence[f] : evidence[f][i].fails # c.name
  BY <1>3 DEF Who!Passes
<1>5. \A g \in Who!Candidates(mouse, supplied) \ {f} :
        Who!Total(g, mouse, supplied) + Margin <= Who!Total(f, mouse, supplied)
  BY <1>2, LeaderLeads
<1>6. ASSUME NEW h, h = Who!OpenSet(Who!Anonymous, supplied).family,
             Who!OpenSet(Who!Anonymous, supplied).status = "recognized"
      PROVE  h = f
  <2>1. h \in Who!Good(Who!Anonymous, supplied)
    BY <1>6, RecognizedIs
  <2>2. h \in Who!Good(mouse, supplied)
    BY <2>1, IdentityOnlySupports
  <2> QED
    BY <1>2, <2>2 DEF Who!Leads
<1> QED
  BY <1>1, <1>3, <1>4, <1>5, <1>6

\* The proof state follows the decision.
ProofFollows == proof = "recognized" <=> verdict.status = "recognized"

\* Whatever the families ask for, whichever mouse is plugged in, whatever is observed of it and
\* supplied: a family is recognized on evidence of its own that passes all its checks, ahead of
\* every other candidate by the margin, and no other family would be without the identity.
THEOREM RecognitionLeads == Who!Spec => []RecognizedLeads
<1>1. Who!Init => ProofFollows
  BY DEF Who!Init, Who!Result, ProofFollows
<1>2. ProofFollows /\ [Who!Next]_Who!vars => ProofFollows'
  <2> SUFFICES ASSUME ProofFollows, [Who!Next]_Who!vars
               PROVE  ProofFollows'
    OBVIOUS
  <2>1. CASE UNCHANGED Who!vars
    BY <2>1 DEF Who!vars, ProofFollows
  <2>2. ASSUME NEW f, NEW o, Who!Observe(f, o)
        PROVE  ProofFollows'
    BY <2>2 DEF Who!Observe, ProofFollows
  <2>3. ASSUME NEW given, Who!Recognize(given)
        PROVE  ProofFollows'
    BY <2>3 DEF Who!Recognize, Who!ProofOf, ProofFollows
  <2> QED
    BY <2>1, <2>2, <2>3 DEF Who!Next
<1>3. ProofFollows => RecognizedLeads
  BY DecisionsLead DEF ProofFollows, RecognizedLeads, Who!RecognizedLeads
<1> QED
  BY <1>1, <1>2, <1>3, PTL DEF Who!Spec

-----------------------------------------------------------------------------------
(* What vendors' captures are taken to show                                        *)

\* An import has its five fields, and the records of its file.
ImportOf(m, c) ==
  /\ m = [capture |-> m.capture, records |-> m.records, conflicted |-> m.conflicted,
          review |-> m.review, duplicate |-> m.duplicate]
  /\ m.capture = c /\ m.records = Vendor!EnrichAurora(FileOf[c].source)

\* What two files say disagrees, whatever became of their imports.
Clash(c, d) ==
  Vendor!Contradict([capture |-> c, records |-> Vendor!EnrichAurora(FileOf[c].source)],
                    [capture |-> d, records |-> Vendor!EnrichAurora(FileOf[d].source)])

\* Imports that load and have no mark agree, and so does the one that is shown with each of
\* them and with itself.
CaptureInv ==
  /\ DOMAIN stored \subseteq Captures /\ damaged \in [Captures -> {None, "skipped", "raises"}]
  /\ \A c \in DOMAIN stored : ImportOf(stored[c], c)
  /\ preview # None => preview.capture \in Captures /\ ImportOf(preview, preview.capture)
  /\ \A c, d \in Vendor!Loadable :
       ~stored[c].conflicted /\ ~stored[d].conflicted => ~Clash(c, d)
  /\ preview # None /\ ~preview.duplicate /\ ~preview.conflicted =>
       \A d \in Vendor!Loadable \cup {preview.capture} :
         ~Clash(preview.capture, d) /\ ~Clash(d, preview.capture)

LEMMA ClashIs ==
  ASSUME NEW m, NEW n, NEW c, NEW d, ImportOf(m, c), ImportOf(n, d)
  PROVE  Vendor!Contradict(m, n) <=> Clash(c, d)
<1>1. m.capture = c /\ m.records = Vendor!EnrichAurora(FileOf[c].source)
      /\ n.capture = d /\ n.records = Vendor!EnrichAurora(FileOf[d].source)
  BY DEF ImportOf
<1>2. PICK a : a = [capture |-> c, records |-> Vendor!EnrichAurora(FileOf[c].source)]
  OBVIOUS
<1>3. PICK b : b = [capture |-> d, records |-> Vendor!EnrichAurora(FileOf[d].source)]
  OBVIOUS
<1>4. a.capture = m.capture /\ a.records = m.records /\ b.capture = n.capture
      /\ b.records = n.records
  BY <1>1, <1>2, <1>3
<1>5. Vendor!CommandClaims(a) = Vendor!CommandClaims(m)
      /\ Vendor!CommandClaims(b) = Vendor!CommandClaims(n)
  BY <1>4 DEF Vendor!CommandClaims
<1>6. Vendor!FrameClaims(a) = Vendor!FrameClaims(m)
      /\ Vendor!FrameClaims(b) = Vendor!FrameClaims(n)
  BY <1>4 DEF Vendor!FrameClaims
<1>7. Vendor!ReportClaims(a) = Vendor!ReportClaims(m)
      /\ Vendor!ReportClaims(b) = Vendor!ReportClaims(n)
  BY <1>4 DEF Vendor!ReportClaims
<1>8. Vendor!FamilyClaims(a) = Vendor!FamilyClaims(m)
      /\ Vendor!FamilyClaims(b) = Vendor!FamilyClaims(n)
  BY <1>4 DEF Vendor!FamilyClaims
<1>9. Vendor!Contradict(m, n) <=> Vendor!Contradict(a, b)
  BY <1>5, <1>6, <1>7, <1>8 DEF Vendor!Contradict
<1> QED
  BY <1>2, <1>3, <1>9 DEF Clash

LEMMA CaptureInit == Vendor!Init => CaptureInv
BY DEF Vendor!Init, CaptureInv, Vendor!Loadable

LEMMA SaveKeeps ==
  ASSUME NEW import, NEW c \in Captures, CaptureInv, ImportOf(import, c), Vendor!Save(import),
         ~import.conflicted =>
           \A d \in Vendor!Loadable \cup {c} :
             d = c \/ ~stored[d].conflicted => ~Clash(c, d) /\ ~Clash(d, c)
  PROVE  /\ (DOMAIN stored \subseteq Captures)'
         /\ (damaged \in [Captures -> {None, "skipped", "raises"}])'
         /\ (\A d \in DOMAIN stored : ImportOf(stored[d], d))'
         /\ Vendor!Loadable' = Vendor!Loadable \cup {c}
         /\ (\A d, e \in Vendor!Loadable :
               ~stored[d].conflicted /\ ~stored[e].conflicted => ~Clash(d, e))'
<1>1. import.capture = c
  BY DEF ImportOf
<1>2. /\ stored' = [d \in DOMAIN stored \cup {c} |-> IF d = c THEN import ELSE stored[d]]
      /\ damaged' = [damaged EXCEPT ![c] = None]
  BY <1>1 DEF Vendor!Save
<1>3. DOMAIN stored' = DOMAIN stored \cup {c}
  BY <1>2
<1>4. \A d \in DOMAIN stored' : stored'[d] = IF d = c THEN import ELSE stored[d]
  BY <1>2
<1>5. \A d \in Captures : damaged'[d] = IF d = c THEN None ELSE damaged[d]
  BY <1>2 DEF CaptureInv
<1>6. Vendor!Loadable' = Vendor!Loadable \cup {c}
  BY <1>3, <1>5 DEF Vendor!Loadable, CaptureInv
<1>7. ASSUME NEW d \in DOMAIN stored'
      PROVE  ImportOf(stored'[d], d)
  BY <1>3, <1>4 DEF CaptureInv
<1>8. ASSUME NEW d \in Vendor!Loadable \cup {c}, NEW e \in Vendor!Loadable \cup {c},
             ~stored'[d].conflicted, ~stored'[e].conflicted
      PROVE  ~Clash(d, e)
  <2>1. d \in DOMAIN stored' /\ e \in DOMAIN stored'
    BY <1>3 DEF Vendor!Loadable
  <2> QED
    BY <1>4, <1>8, <2>1 DEF CaptureInv
<1>9. (damaged \in [Captures -> {None, "skipped", "raises"}])'
  BY <1>2 DEF CaptureInv
<1> QED
  BY <1>3, <1>6, <1>7, <1>8, <1>9 DEF CaptureInv, Clash, ImportOf

LEMMA CaptureNext == CaptureInv /\ [Vendor!Next]_Vendor!vars => CaptureInv'
<1> SUFFICES ASSUME CaptureInv, [Vendor!Next]_Vendor!vars
             PROVE  CaptureInv'
  OBVIOUS
<1>1. CASE UNCHANGED <<preview, stored, damaged>>
  BY <1>1 DEF CaptureInv, Vendor!Loadable, ImportOf, Clash
<1>2. ASSUME NEW c \in Captures, Vendor!PreviewFile(c)
      PROVE  CaptureInv'
  <2>1. UNCHANGED <<stored, damaged>>
    BY <1>2 DEF Vendor!PreviewFile
  <2>2. CASE UNCHANGED preview
    BY <1>1, <2>1, <2>2
  <2>3. CASE preview' = Vendor!Import(c)
    <3>1. PICK import : import = Vendor!Import(c)
      OBVIOUS
    <3>2. CASE c \in Vendor!Loadable
      <4>1. import = [stored[c] EXCEPT !.duplicate = TRUE]
        BY <3>1, <3>2 DEF Vendor!Import
      <4>2. ImportOf(stored[c], c)
        BY <3>2 DEF CaptureInv, Vendor!Loadable
      <4>3. ImportOf(import, c) /\ import.duplicate
        BY <4>1, <4>2 DEF ImportOf
      <4> QED
        BY <2>1, <2>3, <3>1, <4>3 DEF CaptureInv, Vendor!Loadable, ImportOf, Clash
    <3>3. CASE c \notin Vendor!Loadable
      <4> DEFINE new == [capture |-> c, records |-> Vendor!EnrichAurora(FileOf[c].source),
                         conflicted |-> FALSE, review |-> "unreviewed", duplicate |-> FALSE]
      <4>1. import = [new EXCEPT !.conflicted = Vendor!Conflicts(Vendor!Existing \cup {new})]
        BY <3>1, <3>3 DEF Vendor!Import
      <4>2. ImportOf(new, c)
        BY DEF ImportOf
      <4>3. ImportOf(import, c)
            /\ import.conflicted = Vendor!Conflicts(Vendor!Existing \cup {new})
        BY <4>1 DEF ImportOf
      <4> HIDE DEF new
      <4>4. ASSUME ~import.conflicted, NEW d \in Vendor!Loadable \cup {c}
            PROVE  ~Clash(c, d) /\ ~Clash(d, c)
        <5>1. PICK m \in Vendor!Existing \cup {new} : ImportOf(m, d)
          BY <4>2, <4>4 DEF CaptureInv, Vendor!Loadable, Vendor!Existing
        <5>2. ~Vendor!Contradict(new, m) /\ ~Vendor!Contradict(m, new)
          BY <4>3, <4>4, <5>1 DEF Vendor!Conflicts
        <5> QED
          BY <4>2, <5>1, <5>2, ClashIs
      <4> QED
        BY <2>1, <2>3, <3>1, <4>3, <4>4 DEF CaptureInv, Vendor!Loadable, ImportOf, Clash
    <3> QED
      BY <3>2, <3>3
  <2> QED
    BY <1>2, <2>2, <2>3 DEF Vendor!PreviewFile
<1>3. ASSUME Vendor!Stage
      PROVE  CaptureInv'
  <2>1. preview # None /\ preview' = None
    BY <1>3 DEF Vendor!Stage
  <2>2. CASE UNCHANGED <<stored, damaged>>
    BY <2>1, <2>2 DEF CaptureInv, Vendor!Loadable, ImportOf, Clash
  <2>3. CASE ~preview.duplicate /\ Vendor!Save(preview)
    <3>1. PICK c \in Captures : c = preview.capture /\ ImportOf(preview, c)
      BY <2>1 DEF CaptureInv
    <3>2. ~preview.conflicted =>
            \A d \in Vendor!Loadable \cup {c} : ~Clash(c, d) /\ ~Clash(d, c)
      BY <2>1, <2>3, <3>1 DEF CaptureInv
    <3> QED
      BY <2>1, <2>3, <3>1, <3>2, SaveKeeps DEF CaptureInv
  <2> QED
    BY <1>3, <2>2, <2>3 DEF Vendor!Stage
<1>4. ASSUME Vendor!Decline
      PROVE  CaptureInv'
  BY <1>4 DEF Vendor!Decline, CaptureInv, Vendor!Loadable, ImportOf, Clash
<1>5. ASSUME Vendor!Reopen
      PROVE  CaptureInv'
  BY <1>1, <1>5 DEF Vendor!Reopen
<1>6. ASSUME NEW c \in Captures, Vendor!Review(c)
      PROVE  CaptureInv'
  <2>1. PICK verd \in {"accepted", "rejected"} :
          Vendor!Save([stored[c] EXCEPT !.review = verd])
    BY <1>6 DEF Vendor!Review
  <2>2. PICK import : import = [stored[c] EXCEPT !.review = verd]
    OBVIOUS
  <2>3. c \in Vendor!Loadable /\ UNCHANGED preview
    BY <1>6 DEF Vendor!Review
  <2>4. ImportOf(stored[c], c)
    BY <2>3 DEF CaptureInv, Vendor!Loadable
  <2>5. ImportOf(import, c) /\ import.conflicted = stored[c].conflicted
    BY <2>2, <2>4 DEF ImportOf
  <2>6. Vendor!Loadable \cup {c} = Vendor!Loadable
    BY <2>3
  <2>7. Vendor!Save(import)
    BY <2>1, <2>2
  <2>8. ~import.conflicted =>
          \A d \in Vendor!Loadable \cup {c} :
            d = c \/ ~stored[d].conflicted => ~Clash(c, d) /\ ~Clash(d, c)
    BY <2>3, <2>5, <2>6 DEF CaptureInv
  <2>9. /\ (DOMAIN stored \subseteq Captures)'
        /\ (damaged \in [Captures -> {None, "skipped", "raises"}])'
        /\ (\A d \in DOMAIN stored : ImportOf(stored[d], d))'
        /\ Vendor!Loadable' = Vendor!Loadable
        /\ (\A d, e \in Vendor!Loadable :
              ~stored[d].conflicted /\ ~stored[e].conflicted => ~Clash(d, e))'
    BY <2>5, <2>6, <2>7, <2>8, SaveKeeps
  <2> QED
    BY <2>3, <2>9 DEF CaptureInv, ImportOf, Clash
<1>7. ASSUME NEW c \in Captures, Vendor!Damage(c)
      PROVE  CaptureInv'
  <2>1. PICK how \in {"skipped", "raises"} : damaged' = [damaged EXCEPT ![c] = how]
    BY <1>7 DEF Vendor!Damage
  <2>2. UNCHANGED <<preview, stored>>
    BY <1>7 DEF Vendor!Damage
  <2>3. (damaged \in [Captures -> {None, "skipped", "raises"}])'
    BY <2>1 DEF CaptureInv
  <2>4. Vendor!Loadable' \subseteq Vendor!Loadable
    BY <1>7, <2>1, <2>2 DEF Vendor!Damage, Vendor!Loadable, CaptureInv
  <2> QED
    BY <2>2, <2>3, <2>4 DEF CaptureInv, ImportOf, Clash
<1> QED
  BY <1>1, <1>2, <1>3, <1>4, <1>5, <1>6, <1>7 DEF Vendor!Next, Vendor!vars

LEMMA OneMeaningHolds == CaptureInv => Vendor!OneMeaning
<1> SUFFICES ASSUME CaptureInv, NEW m \in Vendor!AcceptedEvidence,
                    NEW n \in Vendor!AcceptedEvidence, Vendor!Contradict(m, n)
             PROVE  FALSE
  BY DEF Vendor!OneMeaning, Vendor!Conflicts
<1>1. PICK c \in Vendor!Loadable : m = stored[c]
  BY DEF Vendor!AcceptedEvidence, Vendor!Existing
<1>2. PICK d \in Vendor!Loadable : n = stored[d]
  BY DEF Vendor!AcceptedEvidence, Vendor!Existing
<1>3. ImportOf(m, c) /\ ImportOf(n, d)
  BY <1>1, <1>2 DEF CaptureInv, Vendor!Loadable
<1>4. ~Clash(c, d)
  BY <1>1, <1>2 DEF CaptureInv, Vendor!AcceptedEvidence
<1> QED
  BY <1>3, <1>4, ClashIs

\* What a record means has the role it was given, unless it is an event; the command and the
\* meaning of a modern request are those of its frame.
LEMMA RequestIs ==
  ASSUME NEW source, NEW records, NEW raw, NEW r, r = Vendor!Enriched(source, records, raw),
         r.family = "modern", r.role = "request"
  PROVE  /\ raw.role = "request" /\ r.raw = raw
         /\ r.command # None => /\ raw.frame.size = 64 /\ Vendor!ModernOperation(raw.frame) # None
                                /\ r.semantic = Vendor!ModernOperation(raw.frame)
                                /\ r.command[4] = Vendor!Command(raw.frame)
<1>1. Vendor!AuroraFamily(source, raw) = "modern"
  BY DEF Vendor!Enriched, Vendor!AuroraFamily
<1>2. PICK m : m = Vendor!DecodeModern(raw, records)
  OBVIOUS
<1>3. r.role = m.role /\ r.semantic = m.semantic /\ r.command = m.command /\ r.raw = raw
  BY <1>1, <1>2 DEF Vendor!Enriched
<1>4. CASE raw.role = "request" /\ raw.frame.size = 64
  <2>1. m = Vendor!DecodeRequest(raw)
    BY <1>2, <1>4 DEF Vendor!DecodeModern
  <2>2. CASE Vendor!ModernOperation(raw.frame) # None
    <3>1. m = [Vendor!Meaning(raw, Vendor!ModernOperation(raw.frame), FALSE)
                 EXCEPT !.command = Vendor!Number(raw.frame, 0)]
      BY <2>1, <2>2 DEF Vendor!DecodeRequest
    <3>2. m.semantic = Vendor!ModernOperation(raw.frame)
          /\ m.command = Vendor!Number(raw.frame, 0)
      BY <3>1 DEF Vendor!Meaning
    <3>3. Vendor!Number(raw.frame, 0)[4] = Vendor!Byte(raw.frame, 5)
      BY DEF Vendor!Number
    <3> QED
      BY <1>3, <1>4, <2>2, <3>2, <3>3 DEF Vendor!Command
  <2>3. CASE Vendor!ModernOperation(raw.frame) = None
    <3>1. m.command = None
      BY <2>1, <2>3 DEF Vendor!DecodeRequest, Vendor!Meaning
    <3> QED
      BY <1>3, <1>4, <3>1
  <2> QED
    BY <2>2, <2>3
<1>5. CASE ~(raw.role = "request" /\ raw.frame.size = 64)
  <2>1. (m.role \in {raw.role, "push"} /\ m.command = None) \/ Vendor!Answers(raw)
    BY <1>2, <1>5 DEF Vendor!DecodeModern, Vendor!DecodeEvent, Vendor!Meaning
  <2>2. Vendor!Answers(raw) => m.role = raw.role
    BY <1>2, <1>5 DEF Vendor!DecodeModern, Vendor!DecodeAnswer, Vendor!Meaning, Vendor!Answers
  <2> QED
    BY <1>3, <2>1, <2>2 DEF Vendor!Answers
<1> QED
  BY <1>4, <1>5

\* Nothing but a request is decoded as one.
LEMMA RoleStays ==
  ASSUME NEW source, NEW records, NEW raw,
         Vendor!Enriched(source, records, raw).role = "request"
  PROVE  raw.role = "request"
<1>1. \A semantic, dangerous : Vendor!Meaning(raw, semantic, dangerous).role = raw.role
  BY DEF Vendor!Meaning
<1>2. Vendor!DecodeRequest(raw).role = raw.role
  BY DEF Vendor!DecodeRequest, Vendor!Meaning
<1>3. Vendor!DecodeEvent(raw).role \in {raw.role, "push"}
  BY DEF Vendor!DecodeEvent, Vendor!Meaning
<1>4. Vendor!DecodeLegacy(raw).role = raw.role
  BY DEF Vendor!DecodeLegacy, Vendor!Meaning
<1>5. \A request : Vendor!DecodeAnswer(raw, request).role = raw.role
  BY <1>1 DEF Vendor!DecodeAnswer
<1>6. Vendor!DecodeModern(raw, records).role \in {raw.role, "push"}
  BY <1>1, <1>2, <1>3, <1>5 DEF Vendor!DecodeModern
<1> QED
  BY <1>1, <1>4, <1>6 DEF Vendor!Enriched

\* A record that is decoded as an answer has the number and the meaning of its request.
LEMMA AnswerIs ==
  ASSUME NEW source, NEW records, NEW raw, NEW r, r = Vendor!Enriched(source, records, raw),
         r.status # None, NEW request, request = Vendor!RequestOf(records, raw.tx)
  PROVE  /\ Vendor!Answers(raw) /\ r.raw = raw /\ request # None
         /\ r.command[4] = Vendor!Command(request.frame)
         /\ Vendor!ModernOperation(request.frame) # None =>
              r.semantic = Vendor!ModernOperation(request.frame)
<1>1. Vendor!AuroraFamily(source, raw) = "modern"
  BY DEF Vendor!Enriched, Vendor!DecodeLegacy, Vendor!Meaning
<1>2. PICK m : m = Vendor!DecodeModern(raw, records)
  OBVIOUS
<1>3. r.semantic = m.semantic /\ r.command = m.command /\ r.raw = raw /\ r.status = m.status
  BY <1>1, <1>2 DEF Vendor!Enriched
<1>4. Vendor!Answers(raw) /\ request # None /\ m = Vendor!DecodeAnswer(raw, request)
  <2>1. \A semantic, dangerous : Vendor!Meaning(raw, semantic, dangerous).status = None
    BY DEF Vendor!Meaning
  <2>2. Vendor!DecodeRequest(raw).status = None /\ Vendor!DecodeEvent(raw).status = None
    BY DEF Vendor!DecodeRequest, Vendor!DecodeEvent, Vendor!Meaning
  <2> QED
    BY <1>2, <1>3, <2>1, <2>2 DEF Vendor!DecodeModern
<1>5. PICK shift : shift = Vendor!Alignments(raw.frame, Vendor!Command(request.frame))
  OBVIOUS
<1>6. PICK at : at = CHOOSE a \in shift : TRUE
  OBVIOUS
<1>7. /\ Vendor!Cardinality(shift) = 1
      /\ m.command = Vendor!Number(raw.frame, at)
      /\ m.semantic = IF Vendor!ModernOperation(request.frame) = None THEN raw.label
                      ELSE Vendor!ModernOperation(request.frame)
  BY <1>3, <1>4, <1>5, <1>6 DEF Vendor!DecodeAnswer, Vendor!Meaning
<1>8. shift # {}
  BY <1>7, FS_EmptySet, SameCardinality
<1>9. Vendor!Byte(raw.frame, 5 + at) = Vendor!Command(request.frame)
  BY <1>5, <1>6, <1>8 DEF Vendor!Alignments
<1>10. m.command[4] = Vendor!Byte(raw.frame, 5 + at)
  BY <1>7 DEF Vendor!Number
<1> QED
  BY <1>3, <1>4, <1>7, <1>9, <1>10

\* What has only one element has it as its greatest.
LEMMA OnlyIsMax ==
  ASSUME NEW i \in Nat, NEW S, i \in S, \A j \in S : j = i
  PROVE  Vendor!Max(S) = i
<1>1. S = {i}
  OBVIOUS
<1>2. \A x \in S : (\A y \in S : x >= y) => x = i
  OBVIOUS
<1>3. \E x \in S : \A y \in S : x >= y
  OBVIOUS
<1> QED
  BY <1>2, <1>3 DEF Vendor!Max

LEMMA AnswersAreAskedHolds == CaptureInv => Vendor!AnswersAreAsked
<1> SUFFICES ASSUME CaptureInv, NEW c \in DOMAIN stored, Vendor!Numbered(stored[c].records),
                    NEW i \in DOMAIN Vendor!Dialogues(stored[c]), NEW r, NEW q,
                    r = Vendor!Dialogues(stored[c])[i].of,
                    q = Vendor!Dialogues(stored[c])[i].request,
                    q # None, r.status # None, q.command # None, q.family = "modern"
             PROVE  r.command[4] = q.command[4] /\ r.semantic = q.semantic
  BY DEF Vendor!AnswersAreAsked
<1>1. PICK source : source = FileOf[c].source
  OBVIOUS
<1>2. PICK raws : raws = Vendor!RawRecords(source)
  OBVIOUS
<1>3. PICK records : records = stored[c].records
  OBVIOUS
<1>4. records = [k \in Vendor!Kept(source) |-> Vendor!Enriched(source, raws, raws[k])]
  BY <1>1, <1>2, <1>3 DEF CaptureInv, ImportOf, Vendor!EnrichAurora
<1>5. DOMAIN raws = DOMAIN records /\ DOMAIN records \subseteq Nat
  <2>1. DOMAIN raws = Vendor!Kept(source)
    BY <1>2 DEF Vendor!RawRecords
  <2>2. Vendor!Kept(source) \subseteq DOMAIN source.records
    BY DEF Vendor!Kept
  <2>3. DOMAIN source.records \subseteq Nat
    BY <1>1, RecordsHavePlaces DEF CaptureInv
  <2> QED
    BY <1>4, <2>1, <2>2, <2>3
<1>6. \A k \in DOMAIN records : records[k] = Vendor!Enriched(source, raws, raws[k])
  BY <1>4
<1>7. i \in DOMAIN records /\ r = records[i]
      /\ q = IF Vendor!Answers(r) /\ r.raw.tx # None /\ Vendor!Asked(records, r.raw.tx) # {}
             THEN records[Vendor!Max(Vendor!Asked(records, r.raw.tx))] ELSE None
  BY <1>3 DEF Vendor!Dialogues, Vendor!Timed
<1>8. PICK request : request = Vendor!RequestOf(raws, raws[i].tx)
  OBVIOUS
<1>9. /\ r.raw = raws[i] /\ r.command[4] = Vendor!Command(request.frame)
      /\ Vendor!ModernOperation(request.frame) # None =>
           r.semantic = Vendor!ModernOperation(request.frame)
  BY <1>6, <1>7, <1>8, AnswerIs
<1>10. PICK j \in Vendor!Asked(records, r.raw.tx) : TRUE
  BY <1>7
<1>11. /\ j \in DOMAIN records /\ records[j].role = "request"
       /\ records[j].raw.tx = r.raw.tx /\ r.raw.tx # None
  BY <1>7, <1>10 DEF Vendor!Asked, Vendor!Timed
<1>12. \A k \in DOMAIN records : records[k].raw = raws[k]
  <2>1. \A raw : Vendor!Enriched(source, raws, raw).raw = raw
    BY DEF Vendor!Enriched
  <2> QED
    BY <1>6, <2>1
<1>13. ASSUME NEW k \in DOMAIN records, records[k].role = "request"
       PROVE  raws[k].role = "request"
  BY <1>6, <1>13, RoleStays
<1>14. ASSUME NEW k \in DOMAIN records, raws[k].role = "request", raws[k].tx = r.raw.tx
       PROVE  k = j
  BY <1>3, <1>11, <1>12, <1>13, <1>14 DEF Vendor!Numbered
<1>15. Vendor!Max(Vendor!Asked(records, r.raw.tx)) = j
  <2>1. ASSUME NEW k \in Vendor!Asked(records, r.raw.tx)
        PROVE  k = j
    <3>1. k \in DOMAIN records /\ records[k].role = "request" /\ records[k].raw.tx = r.raw.tx
      BY DEF Vendor!Asked, Vendor!Timed
    <3> QED
      BY <1>12, <1>13, <1>14, <3>1
  <2> QED
    BY <1>5, <1>10, <1>11, <2>1, OnlyIsMax
<1>16. q = records[j]
  BY <1>7, <1>15
<1>17. request = raws[j]
  <2>1. j \in Vendor!RequestsOf(raws, raws[i].tx)
    BY <1>5, <1>9, <1>11, <1>12, <1>13 DEF Vendor!RequestsOf
  <2>2. ASSUME NEW k \in Vendor!RequestsOf(raws, raws[i].tx)
        PROVE  k = j
    BY <1>5, <1>9, <1>14 DEF Vendor!RequestsOf
  <2>3. Vendor!Max(Vendor!RequestsOf(raws, raws[i].tx)) = j
    BY <1>5, <1>11, <2>1, <2>2, OnlyIsMax
  <2> QED
    BY <1>8, <1>9, <1>11, <2>1, <2>3 DEF Vendor!RequestOf
<1>18. /\ Vendor!ModernOperation(raws[j].frame) # None
       /\ q.semantic = Vendor!ModernOperation(raws[j].frame)
       /\ q.command[4] = Vendor!Command(raws[j].frame)
  BY <1>6, <1>11, <1>16, RequestIs
<1> QED
  BY <1>9, <1>17, <1>18

LEMMA DangerSticksHolds == CaptureInv => Vendor!DangerSticks
<1> SUFFICES ASSUME CaptureInv, NEW c \in DOMAIN stored,
                    NEW r \in Vendor!Range(stored[c].records),
                    NEW q \in Vendor!Range(stored[c].records),
                    r.family = "modern", q.family = "modern",
                    \/ FileOf[c].source.identity \in Vendor!Bootloaders
                    \/ /\ q.role = "request" /\ q.raw.frame.size = 64
                       /\ Vendor!ModernOperation(q.raw.frame) = None
                       /\ q = r \/ (q.raw.tx = r.raw.tx /\ r.raw.tx # None)
             PROVE  r.dangerous
  BY DEF Vendor!DangerSticks
<1>1. PICK source : source = FileOf[c].source
  OBVIOUS
<1>2. PICK raws : raws = Vendor!RawRecords(source)
  OBVIOUS
<1>3. stored[c].records = [k \in Vendor!Kept(source) |-> Vendor!Enriched(source, raws, raws[k])]
  BY <1>1, <1>2 DEF CaptureInv, ImportOf, Vendor!EnrichAurora
<1>4. PICK i \in Vendor!Kept(source) : r = Vendor!Enriched(source, raws, raws[i])
  BY <1>3 DEF Vendor!Range
<1>5. PICK j \in Vendor!Kept(source) : q = Vendor!Enriched(source, raws, raws[j])
  BY <1>3 DEF Vendor!Range
<1>6. /\ Vendor!AuroraFamily(source, raws[i]) = "modern"
      /\ Vendor!AuroraFamily(source, raws[j]) = "modern"
  BY <1>4, <1>5 DEF Vendor!Enriched, Vendor!AuroraFamily
<1>7. r.raw = raws[i] /\ q.raw = raws[j]
      /\ r.dangerous = (\/ Vendor!DecodeModern(raws[i], raws).dangerous
                        \/ "modern" # None
                             /\ (\/ source.identity \in Vendor!Bootloaders
                                 \/ raws[i].tx \in Vendor!DangerousTransactions(source, raws)))
  BY <1>4, <1>5, <1>6 DEF Vendor!Enriched
<1>8. CASE source.identity \in Vendor!Bootloaders
  BY <1>7, <1>8, NoneIsNoFamily
<1>9. CASE /\ q.role = "request" /\ q.raw.frame.size = 64
           /\ Vendor!ModernOperation(q.raw.frame) = None
           /\ q = r \/ (q.raw.tx = r.raw.tx /\ r.raw.tx # None)
  <2>1. raws[j].role = "request"
    BY <1>5, <1>9, RoleStays
  <2>2. CASE q = r
    <3>1. Vendor!DecodeModern(raws[i], raws) = Vendor!DecodeRequest(raws[i])
          /\ Vendor!ModernOperation(raws[i].frame) = None
      BY <1>7, <1>9, <2>1, <2>2 DEF Vendor!DecodeModern
    <3>2. Vendor!DecodeRequest(raws[i]).dangerous
      BY <3>1 DEF Vendor!DecodeRequest, Vendor!Meaning
    <3> QED
      BY <1>7, <3>1, <3>2
  <2>3. CASE q.raw.tx = r.raw.tx /\ r.raw.tx # None
    <3>1. Vendor!Risky(source, raws[j])
      BY <1>6, <1>7, <1>9, <2>1 DEF Vendor!Risky
    <3>2. raws[j] \in Vendor!Range(raws)
      BY <1>2 DEF Vendor!RawRecords, Vendor!Range
    <3>3. raws[i].tx \in Vendor!DangerousTransactions(source, raws)
      BY <1>7, <2>3, <3>1, <3>2 DEF Vendor!DangerousTransactions
    <3> QED
      BY <1>7, <3>3, NoneIsNoFamily
  <2> QED
    BY <1>9, <2>2, <2>3
<1> QED
  BY <1>1, <1>8, <1>9

\* Whatever is in the files and in whatever order they are imported, reviewed, damaged and
\* imported again: accepted imports without a mark agree in all they say, what is dangerous is
\* kept with its warning, and an answer has the meaning of the request it is shown with.
THEOREM VendorEvidenceIsSound == Vendor!Spec => []EvidenceIsSound
<1>1. CaptureInv => EvidenceIsSound
  BY OneMeaningHolds, DangerSticksHolds, AnswersAreAskedHolds
     DEF EvidenceIsSound, Vendor!EvidenceIsSound
<1> QED
  BY <1>1, CaptureInit, CaptureNext, PTL DEF Vendor!Spec

================================================================================
