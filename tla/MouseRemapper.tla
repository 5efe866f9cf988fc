------------------------------ MODULE MouseRemapper ------------------------------
(***********************************************************************************)
(* The remapper of remapper.py: the main thread translates the events of a grabbed *)
(* mouse into key events of a virtual device, worker threads play macros on the    *)
(* same device, and disconnects and teardown release what is held.                 *)
(*                                                                                 *)
(*   remapper.py  MouseRemapper                                                    *)
(*                                                                                 *)
(* Worker n is started with the n-th queue, queue 0 is that of __init__.  A macro  *)
(* is a sequence of steps, a step the sequence of the keys it taps; a delay is the *)
(* time a worker spends between two steps.                                         *)
(* lock is the lock of _emit, _tap_action and _release_pressed_keys.  _handle_chord *)
(* does its own work without it, so that a worker's cleanup runs between its steps. *)
(* The mouse may send any event of any button.  A write of a macro fails once the  *)
(* virtual device is closed, and at most MaxFailures times before; the other       *)
(* writes succeed.  MaxWorkers and MaxQueue bound starts and queues.               *)
(***********************************************************************************)
EXTENDS Naturals, Sequences, FiniteSets

CONSTANTS
  Buttons, Keys,
  Mapping,      \* the mappings: [kind, keys] of each button
  Macro,        \* the steps of the macro of the macro buttons
  Sentinel,     \* the None in a queue
  MaxWorkers, MaxQueue, MaxFailures

Workers == 1..MaxWorkers
NoOne == 0
MainThread == MaxWorkers + 1

ASSUME BoundsAssumption ==
  MaxWorkers \in Nat /\ MaxQueue \in Nat /\ MaxFailures \in Nat

\* What parse_action lets through: a chord has keys, all different (remapper.py 101-107).
ASSUME MappingAssumption ==
  /\ Mapping \in [Buttons -> [kind : {"key", "chord", "macro"}, keys : Seq(Keys)]]
  /\ \A b \in Buttons : \A i, j \in DOMAIN Mapping[b].keys :
       Mapping[b].keys[i] = Mapping[b].keys[j] => i = j
  /\ \A b \in Buttons : Mapping[b].kind = "chord" => Mapping[b].keys # <<>>
  /\ Macro \in Seq(Seq(Keys)) /\ Sentinel # Macro

VARIABLES
  shutdown,    \* shutdown_event
  main,        \* where the main thread is
  ending,      \* is it in the finally clause of run
  op, todo, read,       \* _handle_chord: press or release, the keys left, the count read
  device,      \* is a device grabbed
  ui,          \* is the virtual device open
  down,        \* the keys that are down on the virtual device
  pressed,     \* _pressed_keys
  held,        \* _held_chords
  counts,      \* _chord_key_counts, 0 where there is no entry
  lock,        \* the thread that holds the output lock
  cancel,      \* _macro_cancel
  queues, started,      \* all queues; the number of the current one, _macro_queue
  thread,      \* _macro_thread
  worker,      \* where each worker is
  listens,     \* the queue it waits on
  steps,       \* what it has yet to play
  tapped,      \* the keys its tap has pressed and not yet released
  phase,       \* what _release_pressed_keys, of the lock's holder, does next
  snapshot, giving, left,   \* the chords and the keys it has yet to release; the count read
  failures     \* how many writes have failed while the device was open

mainVars   == <<main, ending, op, todo, read>>
chordVars  == <<held, counts>>
keyVars    == <<down, pressed>>
macroVars  == <<cancel, queues, started, thread>>
workerVars == <<worker, listens, steps, tapped>>
cleanVars  == <<phase, snapshot, giving, left>>
vars == <<shutdown, mainVars, device, ui, keyVars, chordVars, lock, macroVars, workerVars,
          cleanVars, failures>>

MainPlaces == {"acquire", "ready", "count", "apply", "store", "emit", "stop", "join",
               "release", "cleanup", "close", "closeUi", "raised", "ended"}
WorkerPlaces == {"none", "top", "get", "play", "ready", "tap", "brokenTap", "fail",
                 "cleanup", "ended"}

MainType ==
  /\ shutdown \in BOOLEAN /\ ending \in BOOLEAN
  /\ main \in MainPlaces
  /\ op \in {"press", "release"} /\ todo \in Seq(Keys) /\ read \in Nat
  /\ device \in BOOLEAN /\ ui \in BOOLEAN

OutputType ==
  /\ down \subseteq Keys /\ pressed \subseteq Keys
  /\ held \subseteq Buttons
  /\ counts \in [Keys -> Nat]
  /\ lock \in Workers \cup {NoOne, MainThread}
  /\ phase \in {"idle", "chords", "keys", "entry", "held", "counts"}
  /\ snapshot \subseteq Buttons /\ giving \in Seq(Keys) /\ left \in Nat

MacroType ==
  /\ cancel \in BOOLEAN
  /\ queues \in [0..MaxWorkers -> Seq({Macro, Sentinel})]
  /\ started \in 0..MaxWorkers /\ thread \in 0..started
  /\ worker \in [Workers -> WorkerPlaces]
  /\ listens \in [Workers -> 0..MaxWorkers]
  /\ steps \in [Workers -> Seq(Seq(Keys))]
  /\ tapped \in [Workers -> SUBSET Keys]
  /\ failures \in 0..MaxFailures

\* Every variable has its type.
TypeOK == MainType /\ OutputType /\ MacroType

Init ==
  /\ shutdown = FALSE /\ ending = FALSE
  /\ main = "acquire" /\ op = "press" /\ todo = <<>> /\ read = 0
  /\ device = FALSE /\ ui = FALSE
  /\ down = {} /\ pressed = {} /\ held = {} /\ counts = [k \in Keys |-> 0]
  /\ lock = NoOne
  /\ cancel = FALSE /\ queues = [n \in 0..MaxWorkers |-> <<>>]
  /\ started = 0 /\ thread = NoOne
  /\ worker = [w \in Workers |-> "none"] /\ listens = [w \in Workers |-> 0]
  /\ steps = [w \in Workers |-> <<>>] /\ tapped = [w \in Workers |-> {}]
  /\ phase = "idle" /\ snapshot = {} /\ giving = <<>> /\ left = 0 /\ failures = 0

KeySet(s) == {s[i] : i \in DOMAIN s}
Backwards(s) == [i \in DOMAIN s |-> s[Len(s) + 1 - i]]

\* _emit, with the lock taken in the same step.
Press(K)   == down' = down \cup K /\ pressed' = pressed \cup K
Release(K) == down' = down \ K /\ pressed' = pressed \ K

-----------------------------------------------------------------------------------
(* The main thread: the loop of run and _handle                                    *)

\* A device is found and grabbed; the virtual device is made the first time.
Acquire ==
  /\ main = "acquire" /\ ~shutdown
  /\ main' = "ready"
  /\ device' = TRUE /\ ui' = TRUE
  /\ UNCHANGED <<shutdown, ending, op, todo, read, keyVars, chordVars, lock, macroVars,
                 workerVars, cleanVars, failures>>

\* The loop looks at the shutdown event.
LeaveLoop ==
  /\ shutdown
  /\ main \in {"acquire", "ready"}
  /\ main' = "stop" /\ ending' = TRUE
  /\ UNCHANGED <<shutdown, op, todo, read, device, ui, keyVars, chordVars, lock, macroVars,
                 workerVars, cleanVars, failures>>

Disconnect ==
  /\ main = "ready"
  /\ main' = "stop"
  /\ UNCHANGED <<shutdown, ending, op, todo, read, device, ui, keyVars, chordVars, lock,
                 macroVars, workerVars, cleanVars, failures>>

\* A button mapped to a key, or passed through: press, repeat or release.
HandleKey(b) ==
  /\ main = "ready" /\ lock = NoOne
  /\ Mapping[b].kind = "key"
  /\ LET K == KeySet(Mapping[b].keys) IN Press(K) \/ Release(K)
  /\ UNCHANGED <<shutdown, mainVars, device, ui, chordVars, lock, macroVars, workerVars,
                 cleanVars, failures>>

\* _handle_chord; a repeated press and a stray release are ignored.
ChordPressed(b) ==
  /\ main = "ready"
  /\ Mapping[b].kind = "chord" /\ b \notin held
  /\ main' = "count"
  /\ op' = "press" /\ todo' = Mapping[b].keys
  /\ held' = held \cup {b}
  /\ UNCHANGED <<shutdown, ending, read, device, ui, keyVars, counts, lock, macroVars,
                 workerVars, cleanVars, failures>>

ChordReleased(b) ==
  /\ main = "ready"
  /\ Mapping[b].kind = "chord" /\ b \in held
  /\ main' = "count"
  /\ op' = "release"
  /\ todo' = Backwards(Mapping[b].keys)
  /\ held' = held \ {b}
  /\ UNCHANGED <<shutdown, ending, read, device, ui, keyVars, counts, lock, macroVars,
                 workerVars, cleanVars, failures>>

\* The count of the next key is read without the lock ...
Count ==
  /\ main = "count"
  /\ op = "release" => counts[Head(todo)] > 0
  /\ main' = "apply"
  /\ read' = IF op = "press" THEN counts[Head(todo)] ELSE counts[Head(todo)] - 1
  /\ UNCHANGED <<shutdown, ending, op, todo, device, ui, keyVars, chordVars, lock, macroVars,
                 workerVars, cleanVars, failures>>

NextKey ==
  /\ todo' = Tail(todo) /\ read' = 0
  /\ op' = IF Len(todo) = 1 THEN "press" ELSE op
  /\ main' = IF Len(todo) = 1 THEN "ready" ELSE "count"

\* The key stays as it is: it is, or remains, held by another chord.
OthersHold == read > 0

StoredCount == IF op = "press" THEN read + 1 ELSE read

\* ... a press that finds none presses the key ...
Apply ==
  /\ main = "apply" /\ op = "press" /\ ~OthersHold
  /\ lock = NoOne
  /\ main' = "store"
  /\ Press({Head(todo)})
  /\ UNCHANGED <<shutdown, ending, op, todo, read, device, ui, chordVars, lock, macroVars,
                 workerVars, cleanVars, failures>>

\* ... and then the count is stored, without the lock again ...
Store ==
  /\ main = "store" \/ (main = "apply" /\ OthersHold)
  /\ counts' = [counts EXCEPT ![Head(todo)] = StoredCount]
  /\ NextKey
  /\ UNCHANGED <<shutdown, ending, device, ui, keyVars, held, lock, macroVars, workerVars,
                 cleanVars, failures>>

\* ... by a release before it is released: the entry is deleted without the lock.
Forget ==
  /\ main = "apply" /\ op = "release" /\ ~OthersHold
  /\ counts[Head(todo)] > 0
  /\ main' = "emit"
  /\ counts' = [counts EXCEPT ![Head(todo)] = StoredCount]
  /\ UNCHANGED <<shutdown, ending, op, todo, read, device, ui, keyVars, held, lock,
                 macroVars, workerVars, cleanVars, failures>>

GiveBack ==
  /\ main = "emit" /\ lock = NoOne
  /\ Release({Head(todo)})
  /\ NextKey
  /\ UNCHANGED <<shutdown, ending, device, ui, chordVars, lock, macroVars, workerVars,
                 cleanVars, failures>>

\* The entry has gone: the KeyError leaves run through its finally clause.
MissingCount ==
  /\ main = "count" \/ (main = "apply" /\ ~OthersHold)
  /\ op = "release" /\ counts[Head(todo)] = 0
  /\ main' = "stop" /\ ending' = TRUE
  /\ op' = "press" /\ todo' = <<>> /\ read' = 0
  /\ UNCHANGED <<shutdown, device, ui, keyVars, chordVars, lock, macroVars,
                 workerVars, cleanVars, failures>>

WorkerAlive == thread # NoOne /\ worker[thread] # "ended"

\* A macro button: the macro is queued for the worker that is alive.
QueueMacro(b) ==
  /\ main = "ready" /\ Mapping[b].kind = "macro"
  /\ WorkerAlive
  /\ Len(queues[started]) < MaxQueue
  /\ queues' = [queues EXCEPT ![started] = Append(@, Macro)]
  /\ UNCHANGED <<shutdown, mainVars, device, ui, keyVars, chordVars, lock, cancel, started,
                 thread, workerVars, cleanVars, failures>>

\* A macro button: a worker is started on a new queue.
StartWorker(b) ==
  /\ main = "ready" /\ Mapping[b].kind = "macro"
  /\ ~WorkerAlive
  /\ started < MaxWorkers
  /\ cancel' = FALSE
  /\ started' = started + 1 /\ thread' = started + 1
  /\ worker' = [worker EXCEPT ![started + 1] = "top"]
  /\ queues' = [queues EXCEPT ![started + 1] = <<Macro>>]
  /\ UNCHANGED <<shutdown, mainVars, device, ui, keyVars, chordVars, lock, listens, steps,
                 tapped, cleanVars, failures>>

-----------------------------------------------------------------------------------
(* The main thread: disconnect and teardown                                        *)

\* A queue collects a sentinel per disconnect; each worker started takes at most one.
Stopped(q) ==
  IF Len(SelectSeq(q, LAMBDA e : e = Sentinel)) < started THEN Append(q, Sentinel) ELSE q

StopMacros ==
  /\ main = "stop"
  /\ main' = "join"
  /\ cancel' = TRUE
  /\ queues' = [queues EXCEPT ![started] = Stopped(@)]
  /\ UNCHANGED <<shutdown, ending, op, todo, read, device, ui, keyVars, chordVars, lock,
                 started, thread, workerVars, cleanVars, failures>>

\* The join ends with the worker or, after a second, without it.
Join ==
  /\ main = "join"
  /\ main' = "release"
  /\ thread' = NoOne
  /\ UNCHANGED <<shutdown, ending, op, todo, read, device, ui, keyVars, chordVars, lock,
                 cancel, queues, started, workerVars, cleanVars, failures>>

\* _release_pressed_keys begins; without a virtual device it only forgets.
StartsReleasing(t) ==
  /\ lock = NoOne /\ lock' = t
  /\ phase' = "chords"
  /\ snapshot' = IF ui THEN held ELSE {}
  /\ UNCHANGED <<giving, left>>

MainCleansUp ==
  /\ main = "release"
  /\ main' = "cleanup"
  /\ StartsReleasing(MainThread)
  /\ UNCHANGED <<shutdown, ending, op, todo, read, device, ui, keyVars, chordVars, macroVars,
                 workerVars, failures>>

CloseDevice ==
  /\ main = "close"
  /\ main' = IF ending THEN "closeUi" ELSE "acquire"
  /\ device' = FALSE
  /\ UNCHANGED <<shutdown, ending, op, todo, read, ui, keyVars, chordVars, lock, macroVars,
                 workerVars, cleanVars, failures>>

\* The virtual device goes, and its keys with it.
CloseUi ==
  /\ main = "closeUi"
  /\ main' = "ended"
  /\ ui' = FALSE /\ down' = {}
  /\ UNCHANGED <<shutdown, ending, op, todo, read, device, pressed, chordVars, lock,
                 macroVars, workerVars, cleanVars, failures>>

\* The cleanup of the finally clause has raised: run is left with the devices open, until
\* the process ends.
RunRaises ==
  /\ main = "raised"
  /\ main' = "ended"
  /\ device' = FALSE /\ ui' = FALSE /\ down' = {}
  /\ UNCHANGED <<shutdown, ending, op, todo, read, pressed, chordVars, lock, macroVars,
                 workerVars, cleanVars, failures>>

SignalArrives ==
  /\ ~shutdown
  /\ shutdown' = TRUE
  /\ UNCHANGED <<mainVars, device, ui, keyVars, chordVars, lock, macroVars, workerVars,
                 cleanVars, failures>>

Main ==
  \/ Acquire \/ LeaveLoop \/ Disconnect
  \/ \E b \in Buttons : \/ HandleKey(b) \/ ChordPressed(b) \/ ChordReleased(b)
                        \/ QueueMacro(b) \/ StartWorker(b)
  \/ Count \/ Apply \/ Store \/ Forget \/ GiveBack \/ MissingCount
  \/ StopMacros \/ Join \/ MainCleansUp \/ CloseDevice \/ CloseUi \/ RunRaises

-----------------------------------------------------------------------------------
(* A macro worker                                                                  *)

Goes(w, from, to) == worker[w] = from /\ worker' = [worker EXCEPT ![w] = to]

\* The loop of _macro_worker: whatever queue is current is waited on.
LoopTop(w) ==
  /\ Goes(w, "top", IF shutdown THEN "ended" ELSE "get")
  /\ listens' = [listens EXCEPT ![w] = IF shutdown THEN 0 ELSE started]
  /\ UNCHANGED <<shutdown, mainVars, device, ui, keyVars, chordVars, lock, macroVars, steps,
                 tapped, cleanVars, failures>>

Get(w) ==
  LET q == queues[listens[w]] IN
  /\ q # <<>>
  /\ Goes(w, "get", IF Head(q) = Sentinel THEN "ended" ELSE "play")
  /\ steps' = [steps EXCEPT ![w] = IF Head(q) = Sentinel THEN <<>> ELSE Macro]
  /\ queues' = [queues EXCEPT ![listens[w]] = Tail(@)]
  /\ listens' = [listens EXCEPT ![w] = 0]
  /\ UNCHANGED <<shutdown, mainVars, device, ui, keyVars, chordVars, lock, cancel, started,
                 thread, tapped, cleanVars, failures>>

\* _play_macro: the macro is over or interrupted, also out of a delay.
PlayEnds(w) ==
  /\ steps[w] = <<>> \/ cancel \/ shutdown
  /\ Goes(w, "play", "top")
  /\ steps' = [steps EXCEPT ![w] = <<>>]
  /\ UNCHANGED <<shutdown, mainVars, device, ui, keyVars, chordVars, lock, macroVars,
                 listens, tapped, cleanVars, failures>>

\* Neither event is set: the step will be tapped, whenever the lock is granted.
PlayStep(w) ==
  /\ steps[w] # <<>> /\ ~cancel /\ ~shutdown
  /\ Goes(w, "play", "ready")
  /\ UNCHANGED <<shutdown, mainVars, device, ui, keyVars, chordVars, lock, macroVars,
                 listens, steps, tapped, cleanVars, failures>>

\* Faulty variant: the tap gives the lock back between its presses and its releases.
LockBriefly(w) == NoOne

\* The lock is kept until the tap is over.
LockOfTap(w) == w

\* _tap_action: the keys that nobody holds are pressed.
TapPress(w) ==
  LET K == KeySet(Head(steps[w])) \ pressed IN
  /\ Goes(w, "ready", "tap")
  /\ lock = NoOne /\ (ui \/ K = {})
  /\ lock' = LockOfTap(w)
  /\ Press(K)
  /\ tapped' = [tapped EXCEPT ![w] = K]
  /\ UNCHANGED <<shutdown, mainVars, device, ui, chordVars, macroVars, listens, steps,
                 cleanVars, failures>>

\* A write of _tap_action raises, after some of the keys have been pressed.
TapBreaks(w) ==
  /\ lock = NoOne
  /\ ui => failures < MaxFailures
  /\ Goes(w, "ready", "brokenTap")
  /\ lock' = LockOfTap(w)
  /\ \E n \in DOMAIN Head(steps[w]) :
       LET K == {Head(steps[w])[i] : i \in 1..(n - 1)} \ pressed
       IN /\ Head(steps[w])[n] \notin pressed
          /\ ui \/ K = {}
          /\ Press(K) /\ tapped' = [tapped EXCEPT ![w] = K]
  /\ failures' = IF ui THEN failures + 1 ELSE failures
  /\ UNCHANGED <<shutdown, mainVars, device, ui, chordVars, macroVars, listens, steps,
                 cleanVars>>

\* Its finally clause; on a device that has been closed it raises as well.
TapRelease(w) ==
  /\ worker[w] \in {"tap", "brokenTap"}
  /\ worker' = [worker EXCEPT ![w] =
                  IF worker[w] = "tap" /\ (ui \/ tapped[w] = {}) THEN "play" ELSE "fail"]
  /\ IF ui THEN Release(tapped[w]) ELSE UNCHANGED keyVars
  /\ lock' = NoOne
  /\ steps' = [steps EXCEPT ![w] = Tail(@)]
  /\ tapped' = [tapped EXCEPT ![w] = {}]
  /\ UNCHANGED <<shutdown, mainVars, device, ui, chordVars, macroVars, listens, cleanVars,
                 failures>>

\* One of its own writes raises: the keys from that one on stay down.
TapReleaseBreaks(w) ==
  /\ worker[w] \in {"tap", "brokenTap"}
  /\ ui /\ failures < MaxFailures
  /\ worker' = [worker EXCEPT ![w] = "fail"]
  /\ lock' = NoOne
  /\ \E n \in DOMAIN Head(steps[w]) :
       LET kept == tapped[w] \cap {Head(steps[w])[i] : i \in 1..n} IN
       /\ Head(steps[w])[n] \in tapped[w]
       /\ Release(tapped[w] \ kept)
       /\ tapped' = [tapped EXCEPT ![w] = kept]
  /\ steps' = [steps EXCEPT ![w] = Tail(@)]
  /\ failures' = failures + 1
  /\ UNCHANGED <<shutdown, mainVars, device, ui, chordVars, macroVars, listens, cleanVars>>

\* The exception is caught: _release_pressed_keys, by the worker.
CleanupBegins(w) ==
  /\ Goes(w, "fail", "cleanup")
  /\ StartsReleasing(w)
  /\ UNCHANGED <<shutdown, mainVars, device, ui, keyVars, chordVars, macroVars, listens,
                 steps, tapped, failures>>

Worker(w) ==
  \/ LoopTop(w) \/ Get(w) \/ PlayEnds(w) \/ PlayStep(w)
  \/ TapPress(w) \/ TapBreaks(w) \/ TapRelease(w) \/ TapReleaseBreaks(w)
  \/ CleanupBegins(w)

-----------------------------------------------------------------------------------
(* _release_pressed_keys, by the thread that holds the lock for it: the main thread *)
(* is between two events, or the cleanup is a worker's and the main thread anywhere *)

\* The thread goes on, or the exception leaves: run, or the worker's thread.
Leaves(raises) ==
  /\ lock' = NoOne /\ phase' = "idle" /\ snapshot' = {} /\ giving' = <<>> /\ left' = 0
  /\ IF lock = MainThread
       THEN /\ main' = IF ~raises THEN "close" ELSE IF ending THEN "raised" ELSE "stop"
            /\ ending' = (ending \/ raises)
            /\ UNCHANGED <<worker, tapped>>
       ELSE /\ worker' = [worker EXCEPT ![lock] = IF raises THEN "ended" ELSE "top"]
            /\ tapped' = [tapped EXCEPT ![lock] = {}]
            /\ UNCHANGED <<main, ending>>
  /\ UNCHANGED <<shutdown, op, todo, read, device, ui, keyVars, held, macroVars, listens,
                 steps, failures>>

\* A chord of the snapshot, from its last key to its first, if it is still held.
GiveChord ==
  /\ phase = "chords"
  /\ \E b \in snapshot :
       /\ snapshot' = snapshot \ {b}
       /\ held' = held \ {b}
       /\ IF b \in held THEN phase' = "keys" /\ giving' = Backwards(Mapping[b].keys)
                        ELSE UNCHANGED <<phase, giving>>
  /\ UNCHANGED <<shutdown, mainVars, device, ui, keyVars, counts, lock, macroVars, workerVars,
                 left, failures>>

GiveRead ==
  /\ phase = "keys" /\ counts[Head(giving)] > 0
  /\ phase' = "entry"
  /\ left' = counts[Head(giving)] - 1
  /\ UNCHANGED <<shutdown, mainVars, device, ui, keyVars, chordVars, lock, macroVars,
                 workerVars, snapshot, giving, failures>>

\* The count is stored, or the entry deleted and the key released.
GiveStore ==
  /\ phase = "entry"
  /\ left > 0 \/ counts[Head(giving)] > 0
  /\ counts' = [counts EXCEPT ![Head(giving)] = left]
  /\ IF left > 0 THEN UNCHANGED keyVars ELSE Release({Head(giving)})
  /\ phase' = IF Len(giving) = 1 THEN "chords" ELSE "keys"
  /\ giving' = Tail(giving) /\ left' = 0
  /\ UNCHANGED <<shutdown, mainVars, device, ui, held, lock, macroVars, workerVars, snapshot,
                 failures>>

\* There is no entry: the KeyError.
GiveRaises ==
  /\ phase = "keys" \/ (phase = "entry" /\ left = 0)
  /\ counts[Head(giving)] = 0
  /\ Leaves(TRUE)
  /\ UNCHANGED counts

\* Faulty variant: nothing is released but the chords.
ReleasedKeysNone == {}

\* What is released once the chords are.
ReleasedKeys == pressed

ClearPressed ==
  /\ phase = "chords" /\ snapshot = {}
  /\ phase' = "held"
  /\ down' = down \ ReleasedKeys /\ pressed' = {}
  /\ tapped' = [w \in Workers |-> {}]
  /\ UNCHANGED <<shutdown, mainVars, device, ui, chordVars, lock, macroVars, worker, listens,
                 steps, snapshot, giving, left, failures>>

ClearHeld ==
  /\ phase = "held"
  /\ phase' = "counts"
  /\ held' = {}
  /\ UNCHANGED <<shutdown, mainVars, device, ui, keyVars, counts, lock, macroVars, workerVars,
                 snapshot, giving, left, failures>>

ClearCounts ==
  /\ phase = "counts"
  /\ counts' = [k \in Keys |-> 0]
  /\ Leaves(FALSE)

Cleanup ==
  \/ GiveChord \/ GiveRead \/ GiveStore \/ GiveRaises
  \/ ClearPressed \/ ClearHeld \/ ClearCounts

\* The process has ended; the workers are daemons.
Terminated == main = "ended" /\ UNCHANGED vars

Next ==
  \/ Main
  \/ SignalArrives
  \/ \E w \in Workers : Worker(w)
  \/ Cleanup
  \/ Terminated

Spec == Init /\ [][Next]_vars

-----------------------------------------------------------------------------------
(* Properties                                                                      *)

TappedKeys == UNION {tapped[w] : w \in Workers}
ChordsWith(k) == {b \in held : k \in KeySet(Mapping[b].keys)}
KeyButtons(k) == {b \in Buttons : Mapping[b].kind = "key" /\ k \in KeySet(Mapping[b].keys)}

\* Once the cleanup of a disconnect or of the teardown has been completed no synthetic key
\* stays down, whatever a macro was doing and even if one of its writes failed; only a
\* macro that outlived its join may be in the middle of a tap, or about to clean up after
\* a failed one (RELEASE_NOTES.md 298-300, 667-668).
CleanedUp ==
  main \in {"acquire", "close", "closeUi", "ended"} => down \subseteq TappedKeys

\* Between two events, and as long as no macro failed, a key that chords use is down
\* exactly while one of them is held, taps apart: chords share modifiers, and a macro
\* neither releases a held key nor leaves one behind (remapper.py 300-301, 417-437).
ChordsOwnTheirKeys ==
  main = "ready" /\ failures = 0 =>
    \A k \in Keys : KeyButtons(k) = {} =>
      (k \in down \ TappedKeys <=> ChordsWith(k) # {})

\* "Synthetic keys and buttons are released after each step and during cleanup, including
\* failure paths" (RELEASE_NOTES.md 299-300).  run is not left with a key down: false, for
\* a worker's cleanup forgets the counts of a chord that is just being pressed (remapper.py
\* 414-415), and the cleanup of the teardown raises over it before it has released the rest.
TeardownReleases == main = "raised" => down \subseteq TappedKeys
==================================================================================
