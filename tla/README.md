# Verification of mouse-control

mouse-control is a Linux program for gaming mice. It remaps buttons, changes the DPI, polling
rate and lighting of the hardware, follows the mouse across disconnects, learns the protocol of a
mouse it does not know, and edits its configuration in a setup application. This directory holds
TLA+ models of its resident runtime, of what writes to a mouse or learns from it, and of the setup;
TLC runs that check them on small instances; and TLAPS proofs of the most important properties for
every instance. Paths are relative to `src/src/mouse_control/` unless they begin with `docs/` or
`tests/`. `PROJECT.json` maps every definition to the lines it translates, and lists the hazards
that the properties are for.

1. The system
2. The modules
3. The runs
4. The proofs
5. What the models leave out
6. What the code does and no run shows
7. What could follow
8. Running

## 1. The system

### Processes, threads and what they share

`run_from_config` (`cli.py`) is the resident service. It starts up to five threads that share one
mouse:

| thread | code | waits on | calls |
|---|---|---|---|
| main | `MouseRemapper.run` | evdev of the grabbed mouse, or the wake coordinator | virtual device, `DpiCycler`, macro workers |
| macro worker | `MouseRemapper._macro_worker` | its queue | virtual device |
| DPI monitor | `DpiMonitorSupervisor._run` | a watcher of DPI events, or the coordinator | supervisor, cycler, notifier |
| battery monitor | `BatteryMonitorSupervisor._run` | the coordinator | supervisor, tray |
| HID reader | `LearnedHidSession._reader_loop`, `HidSession` of HID++ | the hidraw descriptor | subscribers, the waiting exchange |

They meet in the **wake coordinator** (one condition variable, a generation that counts evidence of
device activity), the **hardware supervisor** (one lock, the only reference to the backend, a
generation that counts its replacements), the **HID session** (one request lock, one waiter, one
reader) and the **virtual device** (one output lock, the keys that are down).

The **setup application** runs instead of the service: a systemd helper stops the service and
restores it afterwards, a worker thread opens the mouse while the user moves about the pages.
Laboratory **commands** are processes of their own that write to a mouse, verify, and must put it
back. All of them meet in the **stores** of what was learned (files replaced by rename) and in the
**mouse**, whose register or descriptor several processes may use at once, and whose user may press
its DPI button or unplug it at any time.

### Inventory

| component | state | operations | hard behaviour | what makes it correct | module |
|---|---|---|---|---|---|
| wake coordinator (`runtime_wake.py`), three retry loops | state, generation, latency sample, shutdown | input, device event, reconnect, wait, stop | a signal between capture and wait, or inside a section of the lock; teardown against late reports | no lost wake-up, a stop is not evidence, teardown ends the monitors | RuntimeWake |
| hardware supervisor (`hardware/supervisor.py`) | backend, generation, preferred adapter, desired settings | rebind, reconcile, watch, record, close | two consumers of one failure, half-finished rebinds, weaker adapters | one live backend, no double rebind, no downgrade | HardwareSupervisor |
| learned HID session (`learned_hid_session.py`) | stop flag, descriptor, waiter, request lock | exchange, reader loop, dispatch, close | late, reordered, missing answers; a stop between any two steps | one exchange at a time, every stop wakes the waiter, an answer goes to one place | LearnedHidSession, ExchangeService |
| automatic backend (`hardware/discovery_backend.py`) | what is bound of what was learned, sessions, last DPI | bind, rebind, watch, get, set, close | events and answers on one node; a late answer after a time-out; a binding replaced below a watcher | no event is an answer and no answer an event; what it says was so | LearnedBackend |
| DPI events (`discovery_backend.py`, `read_only_dpi_cycle.py`, `notifications.py`, `DpiCycler`) | baseline, RESYNC/LIVE, watcher queue, last popup | decode, dispatch, idle, cycle, rebind | reports and echoes against writes, reconnect bursts | the popup shows the mouse's DPI, a replacement starts silently | DpiEvents |
| remapper (`remapper.py`) | virtual device, pressed keys, held chords and their counts, macro queue | events, chords, macros, disconnect, cleanup | a worker that outlives its join, failing writes, a cleanup between the steps of a chord | no key stays down after a cleanup, chords share modifiers | MouseRemapper |
| HID++ session and driver (`hidpp.py`, `hid_session.py`, `hidpp_driver.py`) | feature indexes, waiter, reader, shown state | look-up, ask, verified write, watch | requests of other processes, time-outs, unplugging | an answer is to the question asked; a confirmed value was in force | HidppSession |
| native Razer (`native_razer.py`, `hardware/native_razer.py`) | bound interface, open descriptors | find the responder, read, verified write, teach | one register that two processes share | a confirmed value was in force; only the owner stays open | NativeRazer |
| transaction engine, learned transports | outcome of each step, completed set | authorise, run, retry, verify | a retry after an unknown side effect | at most one effect per step, a done transaction was verified | TransactionEngine |
| laboratory commands (`*_cli.py`, `research_probe.py`) | original setting, cleanup, result file | promote, replay, trace, probe | failure or Ctrl-C in any step, then in the cleanup | the mouse is restored or the user told; what a promotion asks for was measured | HardwareCommands |
| stores of what was learned | files, temporary files | learn, measure, promote, save, look up | a crash between write and rename, hand edits, two units of a model | whole documents, for the unit they were learned on, with earned authority | LearnedStores |
| passive reading (`temporal_dialogue.py`, `logical_record.py`) | requests, bursts, partial records | observe, assemble, expire | late and repeated reports, reconnects, interleaved streams | an answer goes to another request only where its own cannot be known, a record is cut whole | Dialogue, LogicalRecords |
| USB capture (`trace/`) | buffer, pending submissions, transactions | capture, pair, close | lost events, reused identities, a clock set back | each event in one transaction, pairs are true unless two events were lost, anomalies real | UsbCapture |
| recognition (`protocol_repertoire.py`, `protocol_grammar.py`) | evidence, decision | observe, decide | families that look alike, evidence in any order | a recognized family leads on its own evidence | Recognition |
| automatic discovery (`discovery_engine.py`, `device_topology.py`, ...) | topology, profiles, plan | discover, restore, validate, save | firmware changes, replugging, promotion in between | writable was proven on this unit or model, no bootloader is asked | Discovery |
| guided learning (`guided_discovery.py`, `learning_session.py`, ...) | samples, controls, measured cycle, profile | sample, calibrate, learn, learn again, save | presses too many or too few, another stage than expected, counters and pulses | a calibration is true of the mouse | GuidedLearning |
| Discovery Lab (`discovery_lab.py`, `lab_orchestrator.py`, `information_gain.py`) | hypotheses, captures, findings | plan, capture, analyse, revise | users who do otherwise, a stage that outlasts the press | what is correlated follows the action, plans lead and end | DiscoveryLab |
| vendor captures (`vendor_capture.py`, `lamzu_aurora.py`) | preview, stored imports, reviews | import, decode, stage, review, load | conflicts, damage, dangerous commands | accepted evidence has one meaning, danger sticks | VendorCapture |
| persistence ladder (`persistence_verifier.py`) | effects, readings, assessment | classify, stop, plan, restore | missed and stale readings, the host re-applying | claims are true, tests are earned, restoration is asked | Persistence |
| setup application (`setup_tui*.py`, `setup_flow.py`, `setup_entry.py`) | worker, open backend, edit, staged choices, pages | select, adopt, edit, test, commit, roll back | a late backend, a replaced mouse, a probe's own session, errors and kills | a mouse is handed over, an unedited mouse keeps its DPI, leaving ends | SetupSession, SetupPages |
| service and foreground session (`foreground_session.py`, `service.py`) | unit, recorded state | prepare, stop, restore | crashes between steps | the service ends as it was, or as chosen | SetupSession |
| updater (`updater.py`) | candidate, file, service | inspect, download, verify, install, restart | failure of each step, a second installer | what is reported happened | Updater |
| battery and tray, notifier and async queue, HID descriptors, lighting, timing and integrity inference, topology tables, measurement tools, command line, support | desktop objects, tables | calls to desktop and kernel, sequential parsing | little | formats | not modelled (section 5) |

## 2. The modules

Each module states one component: state as `VARIABLES`, one action per operation or atomic
section, constants for sets and bounds. An MC module gives kinds, tables and small instances, a
`.cfg` the values, a Proofs module the theorems. A step is what happens between two points where
another actor can interfere: a whole method under its lock is one action, a lock taken twice is
two. An operator whose comment starts with "Faulty variant" is not used by the specification: it
is the form of the definition after it that a plausible bug would have, kept to show that the
property named in `PROJECT.json` notices the difference.

### The resident runtime

**RuntimeWake.** The coordinator's condition (`wait`, `notify_all`, the generation test), the
recorder of wake latencies, and the loops of remapper, DPI and battery threads as far as they
wait, retry and report. `pc[t] = "blocked"` is membership of the condition's wait set. The signal
handler runs `stop()` on the main thread between any two of its steps, its sections of the lock
included, because the condition's lock is re-entrant: so `wait()`, `activity()` and
`reconnecting()` are two steps each on the main thread, and one step on the others, which no handler
interrupts. `unavailable()` is called by the DPI thread only. Time is the flag `quiet` and a time-out
that may expire in any state where a thread blocks. `evidence` is a history variable: what the
device did since the thread's last attempt began.

**HardwareSupervisor.** The backend object by address (`Ids`), what it is (`kind`), what has
not been closed (`open`), and a rebind in its four steps (build, admit, prepare, install) under
the lock, with every refusal and exception path. The monitors, the cycler and teardown act
between the steps exactly when the code lets them without the lock. An address may be reused once
no reference is left.

**LearnedHidSession** and **ExchangeService.** The request lock, the waiter, the reader and the
kernel's queue; a device that answers late, out of order or not at all; a descriptor number that
is reused after close. ExchangeService is the promise to clients without reader or device: one
exchange at a time, none admitted after the session stops, success only with the asked shape. The
`INSTANCE` at the end of LearnedHidSession is the refinement mapping.

**MouseRemapper.** The main thread's event handling, where `_handle_chord` works without the lock:
count, store, press and release of each key are steps of their own. Workers play macros; the output
lock is held for the length of a tap or of a cleanup; a worker may outlive the join of one second;
writes fail. `_release_pressed_keys` takes two steps for each key of the chords it gives back (read
and store of the count), one for the pressed keys, one for `_held_chords.clear()` and one for
`_chord_key_counts.clear()` (remapper.py 407-437), so that a chord may be pressed between any two of
them; the KeyError of a missing count leaves the cleanup, and on the main thread `run`.

**DpiEvents.** A calibrated `hid_state` source from report to popup: reader (decode in two
steps, because the phase is read after the report is marked), watcher queue, generation test,
monitor with the cycle lock, cycler with write, readback, record and announcement, and rebinds by
both monitors, which replace the backend, keep the old one, or fail. Sources are tracked or legacy,
on the shared session or on a descriptor of their own.

**LearnedBackend.** What the automatic backend binds of the learned profiles, operations, rates and
triggers (by model, unit, number of matching nodes, interface and authority), which of them or
which adapter each call asks, which nodes get a shared session, and the packets of a node on which
events and answers arrive together: `wire` holds what the mouse sent, `owed` the answers that a
timed-out request will still get. `mistakes` records who took a packet that was not his.

### What writes to a mouse

**TransactionEngine.** Declared transactions as constants; authorisation, prerequisites, the steps
with their retries, and an adapter whose attempt may be lost, refused, or applied without an
answer, over a mouse whose user changes the setting at any time.

**HardwareCommands.** Eleven commands as scripts (`Script(command)`) with a cleanup. A step may
fail after any part of its effect; the cleanup closes what is open and restores the mouse, or
warns. The trait of the mouse (its mode, what it takes, what a wrongly learned operation makes of a
value) varies. The two probes arm their rollback after the write, `write_promotion` after its first
one; what each command promises is stated separately.

**HidppSession**, **NativeRazer.** The two native protocols, each with a second process that uses
the same mouse: for HID++ a disturbance on the wire, for Razer a register that both write.

**LearnedStores.** Learning, measuring, promoting and saving in the steps between which a command
may die; look-up with the binding to a unit; hand edits, damage and firmware updates.

**Laboratory** puts side by side the parts with theorems (HardwareCommands, LearnedStores,
NativeRazer, UsbCapture, Dialogue) and names what they promise, so that its run and its proofs
speak of the same formulas.

### What is read and concluded

**Dialogue**, **LogicalRecords**, **UsbCapture**: three assemblers. Each carries the truth along
(the request that caused a report, the place of every byte, the number of a transfer) where the
code cannot see it, so that attribution can be compared with it.

**Recognition**, **Discovery**, **GuidedLearning**, **DiscoveryLab**, **VendorCapture**,
**Persistence**: each gives the mouse a hidden truth (its family, what its bytes show, how its
stages follow, how it keeps a setting), lets a user act with a bounded number of slips, and compares
what the code concludes with the truth. Bytes are their meaning ("stage", "press", "count", ...).

### The setup

**SetupSession.** One setup from the systemd unit around it to the mouse it edits: helper, worker,
adoption, binding, rediscovery, button capture, editor, commit and roll back, with failing reads,
writes and saves and a kill at any point. A DPI is a pair, of which the setup records X. `busy` is
what the main loop does meanwhile: a research probe writes to the mouse through a session of its own
while the main backend is open, a polling measurement grabs the node beside it, and only the button
editor closes the backend first. **SetupPages**: navigation, rows, returns and Lab
views. **Updater**: one update of every kind of installation.

### How they compose

RuntimeWake abstracts hardware to "an attempt succeeds or fails"; HardwareSupervisor abstracts
waiting to "may end at any time"; DpiEvents takes the supervisor's generation and lock as given by
HardwareSupervisor and the session as a reader with a queue, as given by LearnedHidSession;
LearnedBackend takes an exchange as given by TransactionEngine and LearnedHidSession, and what it
binds as given by LearnedStores. Every abstraction admits more behaviours than the module it stands
for, so what holds here does not lean on an unmodelled order.

**MCLaboratory** and **MCSetup** check many small parts that share nothing but the user. The
variable `subject` names the part that moves in a behaviour; the others keep one initial
choice. The states of a run are the sum of those of its parts, not their product, and each
property speaks of the part whose name its conjunct gives. The parts of MCLaboratory read and write
hardware; those of MCSetup are what a user runs and learns from the setup's pages. **Laboratory** and
**Setup** below them put together the parts with theorems for both TLC and the proofs (in Setup:
SetupSession, Updater, Discovery, Persistence, Recognition, VendorCapture).

## 3. The runs

Those that pass:

| run | checks | shows |
|---|---|---|
| runtime_wake | NoLostWake, WakeIsEvidence | three threads and a signal between any two steps: no wait sleeps through evidence, no monitor through teardown, a stop is never taken for evidence |
| runtime_wake_live | ShutdownTerminates, EvidenceIsServed | without any time-out, teardown ends both monitors and evidence ends their waits |
| hardware_supervisor | OneLiveBackend, ReplacementIsDue, SessionWatcherFollows | generic, learned and two native backends, two rebinds: nothing leaks, nothing is replaced twice or traded down, a watcher on a session leaves a replaced backend without any device event |
| learned_hid_session | EachAnswerOnce, ImplementsService, StopEndsSession | two clients, two requests, any order of answers and of failures |
| mouse_remapper | CleanedUp, ChordsOwnTheirKeys | two chords with a common modifier, a key, a macro of both chords' keys, one worker that outlives its join, one failing write |
| dpi_events | ShownIsCurrent, ReplacementIsSilent, ChangeIsShown | presses, repeats, echoes, cycles, failed exchanges and a rebind over three kinds of source; a DPI at which the mouse stays is shown in the end, or remembered |
| laboratory | LaboratoryTypeOK, ChangesOnce, DoneIsVerified, EndsRestoredOrWarned, PromotionIsEarned, LookupIsSound, RegisterIsShared, TransfersAreAccounted, AttributionIsSound, RecordsAreWhole, HidppSessionIsSound, BackendIsSound | nine parts: engine, commands, stores, dialogue, records, HID++, Razer, USB capture, automatic backend |
| setup | SetupTypeOK, MouseIsHandedOver, ServiceAsBefore, UneditedKeepsDpi, LeavingEnds, ReportedUpdateIsReal, WritableWasProven, BootloaderIsLeftAlone, LadderIsSound, RecognizedLeads, EvidenceIsSound, CalibrationIsTrue, ConclusionsLead | nine parts: setup, pages, updater, recognition, discovery, guided learning, Discovery Lab, vendor captures, persistence ladder |

Several of these properties end where the code's own guarantee ends, and their comments say where.
What the code does beyond that line is listed in section 6, in most cases under the same name:

| property | what it does not claim |
|---|---|
| NoLostWake | the main thread's wait through a stop |
| ReplacementIsDue | that no rebind begins after the teardown has |
| SessionWatcherFollows | a watcher on its own descriptor |
| CleanedUp, ChordsOwnTheirKeys | a cleanup that raised; anything after a failed write (the run mouse_remapper_raises shows it) |
| ShownIsCurrent | legacy sources, and states in `doubt` (section 5) |
| ReplacementIsSilent | the old backend after a failed rebind; the shared session (the run dpi_events_shared shows it) |
| EndsRestoredOrWarned | a probe that fails; `write_promotion` before it arms its restoration |
| PromotionIsEarned | the values of a DPI operation beside the start and one target, which become PROVEN with them |
| RegisterIsShared | a reading on a mouse whose register does not show that a request waits |
| TransfersAreAccounted | a pair where both the end and the next submission were lost |
| AttributionIsSound | an untagged answer while its own request does not wait within the window |
| HidppSessionIsSound | the features' indexes, and a watcher that catches up, after a mishap |
| WritableWasProven | that the interfaces of a restored learned profile are the proven ones |
| UneditedKeepsDpi | Y, and a mouse that a probe was run on |
| LadderIsSound | the class of the session itself, restoration after a stale reading |
| CalibrationIsTrue | which stage a lookup that was learned again from another stage names; counters; ordinary use when there are no controls |
| ConclusionsLead | that a stage which every report holds is found |

Four more runs show a disagreement between the code and what the repository says of it; each
checks that one statement and TLC finds it violated:

| run | statement | what the code does |
|---|---|---|
| hardware_supervisor_desired | a reconnect reapplies the last DPI | a rebind between the cycler's write and its record applies the one before |
| mouse_remapper_raises | keys are released during cleanup, including failure paths | a failed macro's cleanup clears chords and counts around a chord's store, and the next cleanup raises KeyError |
| dpi_events_shared | the stream after a reconnect is silent | the reader looks at the phase after marking the report, which lets the watcher end the resync in between |
| setup_cancel | a cancelled setup restores temporary DPI tests | a rediscovery or a button capture after an accepted edit makes the tested value the one to restore |

### Bounds

*Runtime.* Threads are the real ones (three, or the two monitors; two clients stand for any number,
as they meet only at one lock). `MaxGeneration` bounds the evidence, or the rebinds, of one
behaviour: one wake generation is enough for a signal to fall between any two steps of any
thread, two for a signal after a served one; two rebinds let each monitor replace what the other
one watches, a view be two generations old, and the address of the first backend be reused by the
third (three addresses: current, candidate, and one a watcher still holds). The four kinds of
backend are the ones that the code treats differently: generic, learned and watched on its
session, native and watched on a descriptor of its own (a learned source beside a native adapter
without events), and another native one on another path, which can be read. One rebind of them
without hardware button is enough for the disagreement about the desired DPI, with two stages. `MaxSamples = 1` exercises the full deque. In LearnedHidSession two requests are
what a late answer needs, and a queue of one packet keeps a second one waiting outside. In
MouseRemapper one worker may outlive its join and meet the next session (that several may is left to
the proofs, which hold for any number); `MaxQueue` bounds the macros waiting, and sentinels beyond
one per worker started are dropped because no one can take them. In DpiEvents two stages
distinguish old from new; one report on the wire, one in the reader's hands and one queued state let
an echo, a press and a cycle overlap in any order.

*Laboratory.* Seven transactions cover every class of safety, a retry, a prerequisite, a
verified and an unverified one; two values tell a change from none. Commands run once, over three
values, in every mode of the mouse. The stores hold two models with three mice, one without a
fingerprint. Dialogue has two requests, one reconnect and three instants, enough for a request to
be answered after the next one was sent; LogicalRecords three frames on two streams, so that a
record is cut by another's frame. HID++ has one command, two presses and one disturbance (one
time-out, or one request of another process; of the indexes and of a watcher that catches up only
the undisturbed session is claimed); Razer one call per
process with two attempts each, so that either may overwrite the other's request between writing
and reading. UsbCapture has two identities, two transfers and two captures, so that an identity is
reused with a lost end. The backend has twelve worlds (events and answers that differ by report,
by length, or not; a trigger; two nodes of an interface; adapters before and after; another
unit's profile), one call, one press and one change of what is bound.

*Setup.* Two mice with different DPI, one of them another on each axis; one visited page in the
history (`MaxHistory`) with a return to it. Recognition has four families of which two share a
shape, over two observations. Discovery has two units of one model and two commands in between, so
that what was learned or stored on one is looked up by the other. Guided learning has six mice
that differ in what their channels show, two passes, three sessions and one slip; the lab three mice
and two runs; vendor captures eight files of which two are imported; the ladder five mice, five users
and five observed effects.

`CHECK_DEADLOCK FALSE` appears where the system really stops: a command ends, the user leaves, and
in DpiEvents a monitor whose generations are used up may wait for a mouse that is silent.

### Fairness

Threads run: a thread with an enabled step takes one (`WF`). Nothing the environment does is
assumed: no device event, no report, no answer, no failure, and no retry time-out. Where a lock
is released again and again (`SF` in DpiEvents, a conjunction of steps in HardwareSupervisor),
the waiting thread eventually gets it, which is what Python's locks give in practice: the
holders are other threads of one process that block on input in between. In RuntimeWake the
signal handler's `stop` follows the shutdown flag, as both are set by the teardown in `cli.py`. In
SetupSession the worker's bounded operations, the teardown, systemd's queued stop and its
`ExecStopPost` end; the user is not assumed to do anything.

## 4. The proofs

Every proof is checked by TLAPS, with Z3, Zenon and LS4, for every value of the constants
within the stated assumptions.

**RuntimeWakeProofs**: TypeOK of the module, NoLostWake, WakeIsEvidence. The invariant adds
that a captured generation is never ahead of the coordinator's; that unserved evidence always
shows as a newer generation and, until the teardown begins, nothing else does; that a thread in the
wait set, or on its way there, has nothing unserved, and a monitor in it means that the coordinator
runs (`SleepersAreServed`); and that only the main thread is ever interrupted in a section of the
lock. This is what "capture before the attempt, test under the lock, notify all" amounts to, and
for the main thread and a stop it is not enough (section 6).

**HardwareSupervisorProofs**: TypeOK, OneLiveBackend, RebindIsCurrent, GenerationNamesBackend,
ReplacementIsDue. The invariant ties a place inside rebind to the lock (`LockInv`), says
which object each place may hold and that it is open (`CandidateInv`, `OpenInv`), and that the
preferred adapter is always that of the current backend (`PreferredInv`). ReplacementIsDue, a
property of steps, follows from it: the step that installs a backend holds the lock since it saw
the generation it was called for (RebindIsCurrent), and admitted no weaker adapter.

**LearnedHidSessionProofs**: TypeOK, NoInternalError, StopWakesWaiter, EachAnswerOnce, and that the
session implements ExchangeService for any number of clients. The invariant ties the waiter to the
lock, and every packet a waiter holds to the shape it asked for; each step then maps to a step of
the service or to a stutter. EachAnswerOnce is not inductive: it says nothing of an answer before it
is returned. `OnceInv` lists the places where an answer can be (owed by the device, in the queue, in
the reader's hands, in a waiter, a result, with the subscribers) and says that it is in one of them
at most. What arrives from another file, on a descriptor number that was reused, is no answer at all:
`StrayInv` and `FailedInv` say that it is never returned, as a session that stopped has failed its
waiter.

**MouseRemapperProofs**: TypeOK and CleanedUp, for any mapping, macro and number of workers and
of failing writes. The invariant says that only the holder of the output lock is inside a tap or a
cleanup, so at most one worker has keys pressed, and that `_pressed_keys` is what is down
for as long as the virtual device is open: so what the cleanup releases is all there is. TypeOK
needs that a chord has keys and that a worker in a tap has a step (`InHand`), and contains that a
chord's count never goes below zero; `Cleared` follows a cleanup through its clears. A cleanup that
raised is not one that was completed, so CleanedUp says nothing of it. ChordsOwnTheirKeys compares
the counts with the chords that are held. While nothing failed and the device is there (`SoundInv`:
no worker cleans up) the counts are exact but for the chord that is being counted (its keys still to
go) and with one to spare for the chord that is being given back (`ExactInv`), and a key of
chords only is down while its count is not zero. The lemmas about `With` say what a chord more or
less does to the number of chords with a key; that the keys of one chord differ is part of
`MappingAssumption`, as `parse_action` refuses a repetition.

**DpiEventsProofs**: TypeOK, ReplacementIsSilent and ShownIsCurrent. For the first two the invariant
follows the first report of a replacement from decoder to handler, and says that a generation leaves
RESYNC only after it has heard something. ShownIsCurrent speaks of states at rest only; `TrackedInv`
says what leads there, as a chain from the mouse to the popup: the newest report on the wire is the
DPI of the mouse (`NewestInv`), the newest state in the queue is what the tracker knows (`LatestInv`),
the target a cycle is about to announce is known, still to be heard or followed by something newer
(`TargetInv`), and with nothing in hand the DPI shown last is the tracker's, or one it will yet
hear of (`ShownInv`). At rest nothing is coming, so both ends of the chain are equal. The exceptions
in it are those of the property, `missed` and `doubt`.

**SetupProofs**: of the setup, the types, ServiceAsBefore, MouseIsHandedOver and UneditedKeepsDpi,
for any mice and DPI values. `StepInv` says at which stages there are a record, a thread, an edit
and a grab. `FoundInv` follows the service from what was found through what was recorded to what is
restored, so that a kill at any step ends alike. `AloneInv` gives an open backend to the thread
until it is adopted and to the application from then on, lets a probe's session open only beside the
adopted one, and says that a service that ran is down before the first one opens. `OwnInv` says that
every DPI value held for a mouse that was not edited, in the hands of the thread or as the one to
restore, is that of the mouse's own X axis; a mouse that a probe has changed counts as edited
(`ProbeInv`).
*Update.* ReportedUpdateIsReal, for any versions. `ReleaseInv` carries the newer release from the
question to the file that was verified and from there to what is installed when a step leads to
"success". `TargetInv` says that the identity of an AppImage only grows, so that after a second
installer it is larger than the one seen before the download and the last look fails; and that
nothing is in place until then.
*Discovery.* WritableWasProven, for any finite set of device nodes, any answers and any learned
operations. `DiscoveryInv` is the property together with its counterpart for the stored profiles:
each was proven on its own model and unit, by its own responder. What a fresh look calls writable is
among the proofs of that moment (`FreshIsProven`), and a profile is restored only for its own unit,
or for its model where one of the two cannot be told apart; one with a responder only where that is
the one member that looks as it did (`RestoredIsSound`, `OnlyMember`). Of a stored profile without a
responder nothing is compared, so nothing is claimed of the interfaces of its learned capabilities.
BootloaderIsLeftAlone says nothing of how devices are put together, so it is not enough that the
device is refused: `GroupIsOfOneProduct` shows that the interfaces of a group are all of one
product, and `DeviceIsOfOneProduct` that several groups are joined only when they have the product
of the mouse that was selected, or when they are one after all, because no two units have one name
(`PathsDiffer`). That the interfaces of a unit are of one product, and that a Bluetooth address is
one unit's, is `NodesAreOfUnits`.
*Persistence.* LadderIsSound, for any mice, users and experiments. `LadderInv` says what each
reading of the ladder says truly (`ItemOf`): of its level, that the setting outlived it; of the
mouse, that it keeps the setting without the host; of what came before, that every milder level was
passed, unless the user saved the setting. The assessment is a function of the readings, so the
three parts follow from them (`ClaimsAreTrueHolds`, `TestsAreEarnedHolds`,
`RestorationIsAskedHolds`); and a planned test adds a reading of the kind, because the plan was
earned.
*Recognition.* RecognizedLeads, for any finite set of families, any mouse and any evidence. A score
is the number of points of a finite set (`PointsAreFinite`), so it is a number, and of finitely many
candidates one comes first (`OneComesFirst`: the one whose set of better ones is least under strict
inclusion). A family that is ahead of the runner-up by the margin is then the first itself and ahead
of every other (`LeaderLeads`). This needs a margin above zero; the code accepts zero, with which a
family that only ties with the first would be recognized, but nothing passes another margin than the
default, 3. Without its identity a mouse has the same points for its reports and evidence of no more
categories (`IdentityOnlySupports`), so who is good without it is good with it.
*Vendor captures.* EvidenceIsSound, for any files. Marks are computed once, with what the store
holds at that moment, and never again; that accepted imports agree all the same is `CaptureInv`.
What an import says depends on its file alone (`ClashIs`), so a review changes nothing; imports that
load and bear no mark agree in pairs; and the one on the page agrees with all that load, which until
it is staged can only become fewer. A file that was damaged is no longer compared with, and so it is
itself compared when it is imported again. The other two parts speak of one file:
`DangerSticksHolds` of the two passes of the decoder, `AnswersAreAskedHolds` of an answer and the
request with its number, where the numbers of the requests differ.

**LaboratoryProofs**: EndsRestoredOrWarned and PromotionIsEarned of the commands and LookupIsSound of the stores, without any assumption on the
constants; RegisterIsShared, TransfersAreAccounted and AttributionIsSound.
*Commands.* A first group of lemmas expands the eleven scripts and shows that each keeps a few rules
(`Kept`): the original state is recorded at one step, writes come after it and before the rollback,
only a promotion saves PROVEN and as its last step. Everything else goes by the rules: the mouse is
as it was found until the record and the record is what was found (`RecordInv`); from then on to the
rollback the cleanup is armed, and a command that ended has restored, warned or been cut short
(`RestoreInv`, whose `Special` commands are the probes and `write_promotion`, which arm later); a
probe that measured the value it found after its rollback has it in force (`ProbeInv`); a mouse with
a rate per mode keeps the Onboard one (`ModesInv`), without which the restoration of the Host rate
would not be enough; what the script has measured is in `proved` (`MeasuredInv`), and the file says
PROVEN only after the last step (`ProvenInv`).
*Stores.* `StoreInv` says that every document, in a file, in the hands of a command or in a
temporary file, is `Honest`: what its evidence calls an agreement was measured on its model. Setting
a status, adding a rate, damage and crashes do not touch the evidence, and the gate that is run
again on every look-up asks the evidence to cover the rates.
*Razer.* RegisterIsShared, for any number of processes, interfaces and attempts. Both processes
write one register and read it back, so an answer may be the other's. `RazerInv` says that a
confirmed value was in force since the call began, on every mouse, and that a reading was, on a
mouse whose register shows that a request waits (`AnswerInv`); there, too, a rate is written in both
its parts (`RateInv`); and that an interface is owned only if it answered, and alone (`OwnerInv`).
The assumptions say which operations there are and that each interface is listed once.
*USB capture.* TransfersAreAccounted, for any traffic, loss and number of captures. `BusInv` carries
the number of the transfer along, which the code does not see: the events of one identity come in
their order (`OrderInv`); what waits for its end is the last submission of its identity that was
seen (`WaitInv`); transactions pair two events of one transfer, say why they do not, or are of two
transfers between which both an end and a submission were lost (`TransactionInv`); and every event
that was read is in one transaction, or waits (`OnceInv`).
*Dialogue.* AttributionIsSound, for any two ways of reading. `TalkInv` says that a request waits
once and has not ended; that the responses of a burst came in order, in time and on its connection
(`BurstInv`); and that a tag that is unique on its connection names the request that waits, so that
an answer with that tag is given to the request that caused it; any other answer goes to the one
request of its shape that waits within the window, and to none when there are several (`ResultInv`).

**TransactionEngineProofs**: TypeOK, ChangesOnce and DoneIsVerified, for any declared transactions,
retries, authorizations and values. The invariant says of a run under way that the steps still to be
executed have changed nothing (`Once`): a step that may have had its effect is never the current
one again, as an attempt with a possible effect ends the step or the run. And it says that a verified
transaction passes its last step only by reading after the last change (`ReadLast`).

The assumptions are named in the modules: bounds are natural numbers, distinguished values are not
members of the sets they extend, the mapping is what `parse_action` lets through, a verified
transaction ends with a reading and the change of the polling rate begins with the takeover
(`learned_hid_transport.py`, `learned_polling_transport.py`).

Each of these invariants was checked by TLC on a small instance before it was proved.

Only model-checked, not proved:

- every liveness property (the prover does not reason about fairness and ENABLED), and the
  disagreements, which are single behaviours;
- LaboratoryTypeOK and SetupTypeOK, which put together the types of many parts; those of the
  engine and of the setup session are proved, and those of the commands and stores are, as far as their
  properties need them, part of `Shape` and `StoreInv`;
- RecordsAreWhole computes over the bytes of a stream with folds; HidppSessionIsSound
  is not inductive in a useful way, because what a time-out leaves behind in the queue decides
  about the next requests and the bound of one disturbance is part of what is promised; BackendIsSound
  holds by what is true of the twelve worlds, each of which is an assumption on a constant;
- CalibrationIsTrue and ConclusionsLead evaluate recorded sequences with recursive operators; their results need induction over data, which the installed provers cannot do.

## 5. What the models leave out

- Real time: a time-out may expire whenever an actor waits. Delays of macros are steps. The
  statistics of timing experiments are not modelled.
- Bytes of reports and requests: a packet is a shape and the request that caused it, a report is
  the value or the meaning it decodes to.
- In RuntimeWake, the uevent parser, the netlink socket and the percentile summary; in
  HardwareSupervisor, reconciliation of the polling rate, the evdev observer, and the delegated
  getters, which are one call under the lock; in MouseRemapper, repeat events of chords (ignored
  by the code), parsing, and the search for the device; in DpiEvents, the evdev and trigger
  sources, onboard stages, and the notification client.
- ShownIsCurrent is stated of tracked sources: for a legacy one an echo decoded before a write and
  delivered after it has the last word. It also excludes, through `doubt`, a state lost with a
  failed rebind and one shown between a cycle's readback and its announcement; both are listed
  as hazards.
- HID++: the decoding of DPI lists, names and batteries, the receiver's slots.
- Setup: macros, lighting and polling choices, which are staged like the DPI but have no live test;
  drawing and prompts.
- Routing and power analysis of captures: their results are labels nobody acts on.

Not modelled at all, with the reason: **battery and tray** (its waiting is in RuntimeWake; the rest
is a D-Bus object), **notifier and async queue** (desktop and kernel calls), **HID sessions and
reports** (a sequential parser of descriptors), **lighting** (one write; its restoration is in
HardwareSupervisor), **protocol inference** (sequential computations over captured bytes whose results
stay candidates until a modelled part confirms them), **capture, traces and replay** (file
formats), **topology, capabilities and profiles** (tables; what they decide is a constant),
**mapping and measurement tools** (timing statistics), **command line** and **support** (parsing
of arguments and printing).

## 6. What the code does and no run shows

Seen while modelling. Each is admitted by a model or outside of it, and no property above says
otherwise. The first list is of disagreements with what the repository says of itself; in the models
they can be reproduced.

| property beside it | what the code does | what the repository says |
|---|---|---|
| NoLostWake | SIGTERM runs `MouseRemapper.stop` on the main thread (`remapper.py` 481-488), and the condition's lock is re-entrant: between the test of the predicate and the place in the list of waiters (`runtime_wake.py` 204) `stop()` notifies nobody, and the thread sleeps until `retry_interval` is over | `tests/test_runtime_wake.py` 158, test_shutdown_interrupts_event_driven_wait_without_polling, stops from another thread |
| WakeIsEvidence | `activity()` and `reconnecting()` test STOPPING and then assign the state (`runtime_wake.py` 172); on the main thread the handler's STOPPING is overwritten. The loops end because they look at the event too | "late activity cannot revive a stopped coordinator" (`docs/PROJECT_STATUS.md` 101-102) |
| ReplacementIsDue | monitors test the event and the coordinator and rebind in a later step (`notifications.py` 241): a teardown in between is followed by one more rebind | "Regression coverage proves teardown performs no backend reselection" (`docs/PROJECT_STATUS.md` 104) |
| SessionWatcherFollows | the loop on a descriptor of its own looks at the shutdown event only (`hardware/discovery_backend.py` 1252): it reads on below a replaced backend, and what it decodes is discarded | "The stale descriptor watcher closes before a fresh write-disabled Discovery backend resolves the current device" (`docs/PROJECT_STATUS.md` 901) |
| ReplacementIsSilent | when the rebind fails or is refused (`hardware/supervisor.py` 300-312) the old backend is watched again in LIVE with its old baseline, and the first report of the mouse that came back is shown | "Each replacement watcher establishes a silent RESYNC baseline before it enters LIVE notification handling" (`RELEASE_NOTES.md` 428-429) |
| EndsRestoredOrWarned | `changed = True`, on which a probe's rollback depends, is set only after the write was confirmed (`research_probe.py` 196, 379): a write that reached the mouse and raised leaves the target, without a word | "The same generic session will restore {original} DPI before the probe completes." (`research_probe.py` 176) |
| HidppSessionIsSound | a look-up's answer is known by the root feature, function 0 and one software number (`hidpp.py` 277): a late one, or that of another process, resolves the next feature | "correlates command replies" (`docs/PROJECT_STATUS.md` 1025-1026); "always resolved live through ROOT" (`hidpp_driver.py` 3-4) |
| TransfersAreAccounted | a completion pairs with whatever submission waits under its identity (`trace/transaction_assembler.py` 123), also when the end of that one and the submission of its own were lost | "Reuse, capture boundaries, missing submits, and mismatched metadata are retained as explicit anomalies" (`trace/transaction_assembler.py` 19-21) |
| WritableWasProven | `find` gives a profile that is bound to a unit without comparing models (`device_profiles.py` 310), and `restore_result` compares members only for a profile with a responder: a learned one is restored although the interfaces have changed | "Corrupt, ambiguous, changed-member, and different-instance records fall back safely." (`docs/PROJECT_STATUS.md` 744-748) |
| CalibrationIsTrue | learning again labels the presses with the saved stages in order, whatever stage the mouse is at (`guided_discovery.py` 428); a byte that counts the presses is taken for a register of the stage (`transition_sources.py` 87) | the page calls both absolute notifications, which synchronize safely |
| ConclusionsLead | the control is captured at the stage that the presses left, so a byte which every report holds "reproduces" an action's value (`discovery_lab.py` 1521) and is not correlated | "controlled-action correlations separated from the negative control" (`docs/DISCOVERY_LAB.md` 49) |
| UneditedKeepsDpi | of a DPI for each axis X is kept (`setup_flow.py` 97) and written to both; cancelling and moving on restore without asking whether the mouse was edited | "cancelling setup restores the original DPI when possible" (`RELEASE_NOTES.md` 654-655) |

What follows has no such quotation.

*Automatic backend.* `set_polling_rate` through an adapter ignores `allow_writes=False`
(`hardware/discovery_backend.py` 957; `set_dpi` tests it at 843). `get_dpi_state` gives the last
known DPI as confirmed after a failed read. Reports that nobody watches and that look like an answer
can be taken for one. A watcher that starts on a closed backend opens the node itself and takes a late
answer for an event. The signature that decides about a rebind leaves out learned values.
Nothing in the program seeds `ReadOnlyDpiCycleTracker`, so a binding that has only a trigger never
synchronises.

*Supervisor.* The record of lit backends uses object addresses (`hardware/supervisor.py` 265): a
replacement at a reused address is not lit again. A late event may reach a watcher that was detached
between the test of the generation and the call it guards.

*HID sessions.* A client whose request got two answers may be given either. *HID++.* After two mishaps
a stale reply could confirm a write. *Razer.* With a register that keeps the old answer while a request
waits, a reading may be an older one, and the second part of an extended rate write may be answered by
the first's. A responder missed because another process keeps the register busy hides an ambiguity.

*USB capture.* A payload longer than the maximum raises and ends the capture; a replugged mouse silently
leaves the selection.

*Passive reading.* A burst of an older generation is reported as ended by a quiet interval; a reply
later than the window is attributed to a newer untagged request of its shape.

*Discovery.* An unanswered interface leads to an empty profile that is saved and restored. A removed
learned operation stays writable in a cached profile. Profiles of twins share a file name.
`ProtocolDetectionError` for a bootloader is not caught by `discovery_cli.py`.

*Guided learning.* Learning again has no controls, so that a trigger may be one that ordinary use sets
off. A missed press duplicates a stage; a cycle of one stage raises when it is bound; a mouse of two
stages gives two samples.

*Discovery Lab.* The expert page shows the next plan but `_run_discovery_lab` starts a fresh one
(`setup_tui_curses.py` 1389). Reports sent only on a press have no baseline. A rolling
counter is reported as correlated. The follow-up plan for power ignores exclusions.

*Vendor captures.* Conflicts are marked only on the newer import, and a conflict among older ones also
marks an unrelated new one. Answers are paired with the last request of a reused transaction id. A
stored document with a bad field raises a plain `ValueError`, so `load_all_safe` fails for all.

*Persistence.* Restoration uses the reading of the highest level, not the latest. The idle rung accepts
a stale reading. An effect that reverted still continues the ladder.

*Stores and commands.* A store file that cannot be decoded hides all others; a demonstration overwrites
a PROVEN operation; `write_promotion` that fails between its first write and the arming of its
restoration leaves the start DPI without a word (`write_promotion_cli.py` 217).

## 7. What could follow

- A statement of HidppSessionIsSound for any number of disturbances, and its proof.
- That `run` ends well when it is told to and no write has failed: it follows from exact counts,
  together with what every cleanup has still to give back.
- The evdev and trigger sources in DpiEvents; a composition of HardwareSupervisor with RuntimeWake's
  coordinator in place of "a wait may end".
- Two commands, or a command and the service, on one mouse.

## 8. Running

    tlc -workers 2 -config MCMouseRemapper.cfg MCMouseRemapper
    tlapm MouseRemapperProofs.tla

The largest runs have 1.6 million states; MCSetup takes about two minutes, MCLaboratory,
MCHardwareSupervisor and MCDpiEvents about one, the others less; the proofs of LaboratoryProofs take about three minutes, those of SetupProofs and
MouseRemapperProofs one or two, the others less.
