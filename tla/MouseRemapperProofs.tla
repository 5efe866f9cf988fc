-------------------------- MODULE MouseRemapperProofs --------------------------
(* For every mapping, macro and number of workers: the variables keep their      *)
(* types, no key stays down after a cleanup that was completed, and, until a     *)
(* write fails, a chord's keys are down while one of its buttons is.             *)
EXTENDS MouseRemapper, FiniteSetTheorems, TLAPS

Tapping == {"tap", "brokenTap"}
Writing == {"count", "apply", "store", "emit"}

\* A handler and a cleanup have keys to go, and a worker that taps has a step to tap.
InHand ==
  /\ main \in Writing => todo # <<>>
  /\ phase \in {"keys", "entry"} => giving # <<>>
  /\ \A w \in Workers : worker[w] \in {"ready"} \cup Tapping => steps[w] # <<>>

\* Only a thread that holds the lock is inside a tap or a cleanup.
LockIsHeld ==
  /\ main = "cleanup" <=> lock = MainThread
  /\ phase # "idle" => lock # NoOne /\ (lock \in Workers => worker[lock] = "cleanup")
  /\ \A w \in Workers :
       /\ worker[w] \in Tapping \cup {"cleanup"} => lock = w
       /\ tapped[w] # {} => worker[w] \in Tapping \cup {"fail", "cleanup"}

\* The workers are started one after the other.
NotYetStarted == \A w \in Workers : w > started => worker[w] = "none"

\* _pressed_keys is what is down, for as long as the virtual device is open.
PressedIsDown ==
  /\ ui => pressed = down
  /\ ~ui => down = {}
  /\ ~ui /\ main # "ended" => pressed = {}

\* Events are handled with the virtual device open.
HandlesOpen == main \in {"ready"} \cup Writing => ui

\* What a cleanup has cleared stays so until it is over, and no chord is held before the
\* device is open again.
Cleared ==
  /\ phase \in {"held", "counts"} => pressed = {} /\ \A w \in Workers : tapped[w] = {}
  /\ phase = "counts" /\ lock = MainThread => held = {}
  /\ main \in {"acquire", "close", "closeUi"} => held = {} /\ phase \notin {"keys", "entry"}
  /\ main = "ended" => ~ui

\* Only the buttons of chords are held.
ChordsHeld == \A b \in held : Mapping[b].keys # <<>>

IInv ==
  /\ TypeOK /\ InHand /\ LockIsHeld /\ NotYetStarted /\ PressedIsDown /\ HandlesOpen /\ Cleared
  /\ ChordsHeld /\ CleanedUp

-----------------------------------------------------------------------------------
(* Keys and sequences                                                              *)

LEMMA Owners == NoOne \notin Workers /\ MainThread \notin Workers /\ MainThread # NoOne
  BY BoundsAssumption DEF NoOne, Workers, MainThread

LEMMA Empty == <<>> \in Seq(Keys) /\ <<>> \in Seq(Seq(Keys)) /\ <<>> \in Seq({Macro, Sentinel})
  OBVIOUS

LEMMA KeySetType == ASSUME NEW s \in Seq(Keys) PROVE KeySet(s) \subseteq Keys
  BY DEF KeySet

\* The keys of a button, also from the last to the first.
LEMMA KeysType ==
  ASSUME NEW b \in Buttons
  PROVE  /\ Mapping[b].keys \in Seq(Keys)
         /\ Backwards(Mapping[b].keys) \in Seq(Keys)
         /\ Mapping[b].keys # <<>> => Backwards(Mapping[b].keys) # <<>>
         /\ Mapping[b].kind = "chord" => Mapping[b].keys # <<>>
<1> DEFINE s == Mapping[b].keys
<1>1. s \in Seq(Keys) /\ (Mapping[b].kind = "chord" => s # <<>>)
  BY MappingAssumption
<1> HIDE DEF s
<1> DEFINE r == Backwards(s)
<1> USE DEF Backwards
<1>2. r \in Seq(Keys)
  <2>1. Len(s) \in Nat /\ DOMAIN s = 1..Len(s)
    BY <1>1
  <2>2. \A i \in 1..Len(s) : s[Len(s) + 1 - i] \in Keys
    BY <1>1, <2>1
  <2>3. r \in [1..Len(s) -> Keys]
    BY <2>1, <2>2
  <2> QED
    BY <2>1, <2>3
<1>3. s # <<>> => r # <<>>
  <2>1. DOMAIN r = DOMAIN s
    OBVIOUS
  <2>2. s # <<>> => DOMAIN s # {}
    BY <1>1
  <2> QED
    BY <2>1, <2>2
<1> QED
  BY <1>1, <1>2, <1>3 DEF s

LEMMA TailType ==
  ASSUME NEW S, NEW s \in Seq(S), s # <<>>
  PROVE  Head(s) \in S /\ Tail(s) \in Seq(S) /\ Len(Tail(s)) = Len(s) - 1
  OBVIOUS

-----------------------------------------------------------------------------------
(* The steps                                                                       *)

LEMMA InitIInv == Init => IInv
<1> SUFFICES ASSUME Init PROVE IInv
  OBVIOUS
<1>1. MainType
  BY Empty DEF Init, MainType, MainPlaces
<1>2. OutputType
  BY Empty DEF Init, OutputType
<1>3. MacroType
  <2>1. queues \in [0..MaxWorkers -> Seq({Macro, Sentinel})]
    BY Empty DEF Init
  <2>2. steps \in [Workers -> Seq(Seq(Keys))]
    BY Empty DEF Init
  <2>3. started \in 0..MaxWorkers /\ thread \in 0..started /\ failures \in 0..MaxFailures
    BY BoundsAssumption DEF Init, NoOne
  <2>4. listens \in [Workers -> 0..MaxWorkers] /\ worker \in [Workers -> WorkerPlaces]
    BY BoundsAssumption DEF Init, WorkerPlaces
  <2> QED
    BY <2>1, <2>2, <2>3, <2>4 DEF Init, MacroType
<1>4. InHand /\ LockIsHeld /\ NotYetStarted /\ PressedIsDown /\ HandlesOpen /\ Cleared /\ ChordsHeld
      /\ CleanedUp
  BY Owners DEF Init, InHand, LockIsHeld, NotYetStarted, PressedIsDown, HandlesOpen, Cleared,
     ChordsHeld, CleanedUp, Writing, Tapping
<1> QED
  BY <1>1, <1>2, <1>3, <1>4 DEF IInv, TypeOK

\* A step of the main thread outside of the cleanup that leaves the workers alone.
LEMMA MainKeepsWorkers ==
  ASSUME IInv, UNCHANGED <<lock, macroVars, workerVars, cleanVars, failures>>,
         main # "cleanup", main' # "cleanup"
  PROVE  /\ MacroType' /\ LockIsHeld' /\ NotYetStarted'
         /\ TappedKeys' = TappedKeys
         /\ (main' \in Writing => todo' # <<>>) => InHand'
<1> USE DEF macroVars, workerVars, cleanVars
<1>1. MacroType'
  BY DEF IInv, TypeOK, MacroType
<1>2. LockIsHeld' /\ NotYetStarted' /\ TappedKeys' = TappedKeys
  BY DEF IInv, LockIsHeld, NotYetStarted, TappedKeys
<1>3. (main' \in Writing => todo' # <<>>) => InHand'
  BY DEF IInv, InHand
<1> QED
  BY <1>1, <1>2, <1>3

\* The loop of run and what follows it: no key is pressed.
LEMMA LoopIInv ==
  IInv /\ (Acquire \/ LeaveLoop \/ Disconnect \/ CloseDevice \/ CloseUi \/ RunRaises) => IInv'
<1> SUFFICES ASSUME IInv, Acquire \/ LeaveLoop \/ Disconnect \/ CloseDevice \/ CloseUi \/ RunRaises
             PROVE  IInv'
  OBVIOUS
<1> USE DEF Acquire, LeaveLoop, Disconnect, CloseDevice, CloseUi, RunRaises
<1>1. /\ UNCHANGED <<pressed, chordVars, lock, macroVars, workerVars, cleanVars, failures>>
      /\ main # "cleanup" /\ main' # "cleanup" /\ main' \notin Writing
      /\ down' = down \/ (down' = {} /\ ui' = FALSE /\ main' = "ended")
  BY DEF keyVars, Writing
<1>2. MacroType' /\ LockIsHeld' /\ NotYetStarted' /\ TappedKeys' = TappedKeys /\ InHand'
  BY <1>1, MainKeepsWorkers
<1>3. MainType'
  BY DEF IInv, TypeOK, MainType, MainPlaces
<1>4. OutputType'
  BY <1>1 DEF IInv, TypeOK, OutputType, chordVars, cleanVars
<1>5. PressedIsDown' /\ HandlesOpen'
  BY <1>1 DEF IInv, PressedIsDown, HandlesOpen, Writing, keyVars
<1>6. CleanedUp'
  BY <1>1, <1>2 DEF IInv, CleanedUp, PressedIsDown, keyVars
<1>7. Cleared' /\ ChordsHeld'
  BY <1>1 DEF IInv, Cleared, ChordsHeld, chordVars, cleanVars, workerVars
<1> QED
  BY <1>2, <1>3, <1>4, <1>5, <1>6, <1>7 DEF IInv, TypeOK

LEMMA SignalIInv == IInv /\ SignalArrives => IInv'
BY DEF SignalArrives, mainVars, chordVars, keyVars, macroVars, workerVars, cleanVars, IInv, TypeOK,
       MainType, OutputType, MacroType, InHand, LockIsHeld, NotYetStarted, PressedIsDown,
       HandlesOpen, Cleared, ChordsHeld, CleanedUp, TappedKeys

LEMMA HandleKeyIInv == IInv /\ (\E b \in Buttons : HandleKey(b)) => IInv'
<1> SUFFICES ASSUME IInv, NEW b \in Buttons, HandleKey(b) PROVE IInv'
  OBVIOUS
<1> USE DEF HandleKey
<1> DEFINE K == KeySet(Mapping[b].keys)
<1>1. K \subseteq Keys
  BY KeysType, KeySetType
<1>2. UNCHANGED <<main, ending, op, todo, read>> /\ main = "ready"
  BY DEF mainVars
<1>3. MacroType' /\ LockIsHeld' /\ NotYetStarted' /\ InHand'
  BY <1>2, MainKeepsWorkers DEF Writing
<1>4. MainType' /\ HandlesOpen'
  BY <1>2 DEF IInv, TypeOK, MainType, HandlesOpen
<1>5. Press(K) \/ Release(K)
  OBVIOUS
<1> HIDE DEF K
<1>6. OutputType'
  BY <1>1, <1>5 DEF IInv, TypeOK, OutputType, chordVars, cleanVars, Press, Release
<1>7. PressedIsDown'
  BY <1>2, <1>5 DEF IInv, PressedIsDown, HandlesOpen, Press, Release
<1>8. CleanedUp'
  BY <1>2 DEF CleanedUp
<1>9. Cleared' /\ ChordsHeld'
  <2>1. phase = "idle"
    BY <1>2 DEF IInv, LockIsHeld
  <2> QED
    BY <1>2, <2>1 DEF IInv, Cleared, ChordsHeld, chordVars, cleanVars
<1> QED
  BY <1>3, <1>4, <1>6, <1>7, <1>8, <1>9 DEF IInv, TypeOK

\* _handle_chord begins.
LEMMA ChordIInv ==
  IInv /\ (\E b \in Buttons : ChordPressed(b) \/ ChordReleased(b)) => IInv'
<1> SUFFICES ASSUME IInv, NEW b \in Buttons, ChordPressed(b) \/ ChordReleased(b) PROVE IInv'
  OBVIOUS
<1>1. /\ main = "ready" /\ main' = "count"
      /\ UNCHANGED <<shutdown, ending, read, device, ui, keyVars, counts, lock, macroVars,
                     workerVars, cleanVars, failures>>
      /\ op' \in {"press", "release"}
      /\ held' \in {held \cup {b}, held \ {b}}
  BY DEF ChordPressed, ChordReleased
<1>2. todo' \in Seq(Keys) /\ todo' # <<>>
  BY KeysType DEF ChordPressed, ChordReleased
<1>3. MacroType' /\ LockIsHeld' /\ NotYetStarted' /\ InHand'
  BY <1>1, <1>2, MainKeepsWorkers
<1>4. MainType'
  BY <1>1, <1>2 DEF IInv, TypeOK, MainType, MainPlaces
<1>5. OutputType'
  BY <1>1 DEF IInv, TypeOK, OutputType, keyVars, cleanVars
<1>6. PressedIsDown' /\ HandlesOpen' /\ CleanedUp'
  BY <1>1 DEF IInv, PressedIsDown, HandlesOpen, CleanedUp, Writing, keyVars
<1>7. Cleared' /\ ChordsHeld'
  <2>1. lock # MainThread
    BY <1>1 DEF IInv, LockIsHeld
  <2>2. b \notin held => Mapping[b].keys # <<>>
    BY KeysType DEF ChordPressed, ChordReleased
  <2> QED
    BY <1>1, <2>1, <2>2 DEF IInv, Cleared, ChordsHeld, keyVars, workerVars, cleanVars
<1> QED
  BY <1>3, <1>4, <1>5, <1>6, <1>7 DEF IInv, TypeOK

\* The next key of the chord, or the end of it.
LEMMA NextKeyType ==
  ASSUME IInv, main \in Writing, NextKey, UNCHANGED <<shutdown, ending, device, ui>>
  PROVE  /\ MainType' /\ HandlesOpen'
         /\ main' \in {"ready", "count"}
         /\ main' \in Writing => todo' # <<>>
<1>1. todo \in Seq(Keys) /\ todo # <<>>
  BY DEF IInv, TypeOK, MainType, InHand
<1>2. todo' \in Seq(Keys) /\ Len(todo') = Len(todo) - 1
  BY <1>1, TailType DEF NextKey
<1>3. main' \in {"ready", "count"} /\ (main' = "count" => Len(todo) # 1)
  BY DEF NextKey
<1>4. main' \in Writing => todo' # <<>>
  BY <1>1, <1>2, <1>3 DEF Writing
<1>5. MainType'
  BY <1>2, <1>3 DEF IInv, TypeOK, MainType, MainPlaces, NextKey
<1>6. HandlesOpen'
  BY DEF IInv, HandlesOpen, Writing
<1> QED
  BY <1>3, <1>4, <1>5, <1>6

LEMMA CountIInv == IInv /\ Count => IInv'
<1> SUFFICES ASSUME IInv, Count PROVE IInv'
  OBVIOUS
<1> USE DEF Count
<1>1. todo \in Seq(Keys) /\ todo # <<>> /\ Head(todo) \in Keys
  BY TailType DEF IInv, TypeOK, MainType, InHand, Writing
<1>2. read' \in Nat
  BY <1>1 DEF IInv, TypeOK, MainType, OutputType
<1>3. MacroType' /\ LockIsHeld' /\ NotYetStarted' /\ InHand'
  BY <1>1, MainKeepsWorkers
<1>4. MainType'
  BY <1>2 DEF IInv, TypeOK, MainType, MainPlaces
<1>5. OutputType' /\ PressedIsDown' /\ HandlesOpen' /\ CleanedUp' /\ Cleared' /\ ChordsHeld'
  BY DEF IInv, TypeOK, OutputType, PressedIsDown, HandlesOpen, CleanedUp, Cleared, ChordsHeld, Writing,
         keyVars, chordVars, workerVars, cleanVars
<1> QED
  BY <1>3, <1>4, <1>5 DEF IInv, TypeOK

\* The count is stored or taken away; the key is pressed, released or stays as it is.
LEMMA StoreIInv == IInv /\ (Apply \/ Store \/ Forget \/ GiveBack) => IInv'
<1> SUFFICES ASSUME IInv, Apply \/ Store \/ Forget \/ GiveBack PROVE IInv'
  OBVIOUS
<1>1. /\ main \in Writing
      /\ UNCHANGED <<shutdown, ending, device, ui, held, lock, macroVars, workerVars,
                     cleanVars, failures>>
  BY DEF Apply, Store, Forget, GiveBack, Writing, chordVars
<1>2. todo \in Seq(Keys) /\ todo # <<>> /\ Head(todo) \in Keys
  BY <1>1, TailType DEF IInv, TypeOK, MainType, InHand
<1>3. /\ MainType' /\ HandlesOpen'
      /\ main' \in {"ready"} \cup Writing
      /\ main' \in Writing => todo' # <<>>
  <2>1. CASE Forget \/ Apply
    BY <2>1, <1>2 DEF Forget, Apply, IInv, TypeOK, MainType, MainPlaces, HandlesOpen, Writing
  <2>2. CASE Store \/ GiveBack
    <3>1. NextKey
      BY <2>2 DEF Store, GiveBack
    <3> QED
      BY <3>1, <1>1, NextKeyType DEF Writing
  <2> QED
    BY <2>1, <2>2
<1>4. MacroType' /\ LockIsHeld' /\ NotYetStarted' /\ InHand'
  BY <1>1, <1>3, MainKeepsWorkers DEF Writing
<1>5. \/ UNCHANGED <<down, pressed>>
      \/ /\ lock = NoOne
         /\ \/ down' = down \cup {Head(todo)} /\ pressed' = pressed \cup {Head(todo)}
            \/ down' = down \ {Head(todo)} /\ pressed' = pressed \ {Head(todo)}
  BY DEF Apply, Store, Forget, GiveBack, Press, Release, keyVars
<1>6. counts' \in [Keys -> Nat]
  <2>1. CASE Store \/ Forget
    <3>1. StoredCount \in Nat
      BY DEF StoredCount, IInv, TypeOK, MainType
    <3> QED
      BY <2>1, <3>1 DEF Store, Forget, IInv, TypeOK, OutputType
  <2>2. CASE Apply \/ GiveBack
    BY <2>2 DEF Apply, GiveBack, IInv, TypeOK, OutputType, chordVars
  <2> QED
    BY <2>1, <2>2
<1>7. OutputType'
  BY <1>1, <1>2, <1>5, <1>6 DEF IInv, TypeOK, OutputType, cleanVars
<1>8. PressedIsDown'
  BY <1>1, <1>5 DEF IInv, PressedIsDown, HandlesOpen
<1>9. CleanedUp'
  BY <1>3 DEF CleanedUp, Writing
<1>10. Cleared' /\ ChordsHeld'
  <2>1. lock = NoOne => phase = "idle"
    BY DEF IInv, LockIsHeld
  <2> QED
    BY <1>1, <1>3, <1>5, <2>1 DEF IInv, Cleared, ChordsHeld, Writing, workerVars, cleanVars
<1> QED
  BY <1>3, <1>4, <1>7, <1>8, <1>9, <1>10 DEF IInv, TypeOK

LEMMA MissingCountIInv == IInv /\ MissingCount => IInv'
<1> SUFFICES ASSUME IInv, MissingCount PROVE IInv'
  OBVIOUS
<1> USE DEF MissingCount
<1>1. MacroType' /\ LockIsHeld' /\ NotYetStarted' /\ InHand'
  BY MainKeepsWorkers DEF Writing
<1>2. MainType'
  BY Empty DEF IInv, TypeOK, MainType, MainPlaces
<1>3. OutputType' /\ PressedIsDown' /\ HandlesOpen' /\ CleanedUp' /\ Cleared' /\ ChordsHeld'
  BY DEF IInv, TypeOK, OutputType, PressedIsDown, HandlesOpen, CleanedUp, Cleared, ChordsHeld, Writing,
         keyVars, chordVars, workerVars, cleanVars
<1> QED
  BY <1>1, <1>2, <1>3 DEF IInv, TypeOK

LEMMA StartMacroIInv ==
  IInv /\ (\E b \in Buttons : QueueMacro(b) \/ StartWorker(b)) => IInv'
<1> SUFFICES ASSUME IInv, NEW b \in Buttons, QueueMacro(b) \/ StartWorker(b) PROVE IInv'
  OBVIOUS
<1>1. /\ main = "ready"
      /\ UNCHANGED <<shutdown, main, ending, op, todo, read, device, ui, down, pressed, held,
                     counts, lock, listens, steps, tapped, phase, snapshot, giving, left, failures>>
  BY DEF QueueMacro, StartWorker, mainVars, keyVars, chordVars, workerVars, cleanVars
<1>2. /\ started \in Nat /\ MaxWorkers \in Nat /\ started <= MaxWorkers
      /\ thread \in 0..started
  BY BoundsAssumption DEF IInv, TypeOK, MacroType
<1>3. \/ worker' = worker /\ started' = started /\ thread' = thread
      \/ /\ worker' = [worker EXCEPT ![started + 1] = "top"]
         /\ started' = started + 1 /\ thread' = started + 1 /\ started + 1 \in Workers
  BY <1>2 DEF QueueMacro, StartWorker, workerVars, Workers
<1>4. cancel' \in BOOLEAN /\ started' \in 0..MaxWorkers /\ thread' \in 0..started'
  <2>1. cancel' \in BOOLEAN
    BY DEF IInv, TypeOK, MacroType, QueueMacro, StartWorker
  <2> QED
    BY <1>2, <1>3, <2>1 DEF Workers
<1>5. worker' \in [Workers -> WorkerPlaces]
  BY <1>3 DEF IInv, TypeOK, MacroType, WorkerPlaces
<1>6. queues' \in [0..MaxWorkers -> Seq({Macro, Sentinel})]
  <2>1. <<Macro>> \in Seq({Macro, Sentinel})
    OBVIOUS
  <2>2. started \in 0..MaxWorkers /\ queues[started] \in Seq({Macro, Sentinel})
    BY DEF IInv, TypeOK, MacroType
  <2>3. Append(queues[started], Macro) \in Seq({Macro, Sentinel})
    BY <2>2
  <2> QED
    BY <2>1, <2>3 DEF QueueMacro, StartWorker, IInv, TypeOK, MacroType
<1>7. MacroType'
  BY <1>1, <1>4, <1>6, <1>5 DEF IInv, TypeOK, MacroType
<1>8. MainType' /\ OutputType' /\ PressedIsDown' /\ HandlesOpen' /\ CleanedUp' /\ Cleared' /\ ChordsHeld'
  BY <1>1 DEF IInv, TypeOK, MainType, OutputType, PressedIsDown, HandlesOpen, CleanedUp, Cleared, ChordsHeld
<1>9. NotYetStarted'
  <2> SUFFICES ASSUME NEW w \in Workers, w > started' PROVE worker'[w] = "none"
    BY DEF NotYetStarted
  <2> QED
    BY <1>2, <1>3 DEF IInv, NotYetStarted, TypeOK, MacroType, Workers
<1>10. LockIsHeld' /\ InHand'
  <2>1. started + 1 \in Workers => worker[started + 1] = "none"
    BY <1>2 DEF IInv, NotYetStarted
  <2>2. \A w \in Workers : \/ worker'[w] = worker[w]
                           \/ worker'[w] = "top" /\ worker[w] = "none"
    BY <1>3, <2>1 DEF IInv, TypeOK, MacroType
  <2> QED
    BY <1>1, <2>2, Owners DEF IInv, LockIsHeld, InHand, Tapping, Writing
<1> QED
  BY <1>7, <1>8, <1>9, <1>10 DEF IInv, TypeOK

\* _stop_macros.
LEMMA StopMacrosIInv == IInv /\ (StopMacros \/ Join) => IInv'
<1> SUFFICES ASSUME IInv, StopMacros \/ Join PROVE IInv'
  OBVIOUS
<1> USE DEF StopMacros, Join
<1>1. /\ main' \in {"join", "release"}
      /\ UNCHANGED <<shutdown, ending, op, todo, read, device, ui, down, pressed, held,
                     counts, lock, started, worker, listens, steps, tapped, phase, snapshot,
                     giving, left, failures>>
  BY DEF keyVars, chordVars, workerVars, cleanVars
<1>2. queues' \in [0..MaxWorkers -> Seq({Macro, Sentinel})]
  <2>1. started \in 0..MaxWorkers /\ queues[started] \in Seq({Macro, Sentinel})
    BY DEF IInv, TypeOK, MacroType
  <2>2. Stopped(queues[started]) \in Seq({Macro, Sentinel})
    BY <2>1 DEF Stopped
  <2> QED
    BY <2>2 DEF IInv, TypeOK, MacroType
<1>3. cancel' \in BOOLEAN /\ thread' \in 0..started
  <2>1. started \in Nat
    BY BoundsAssumption DEF IInv, TypeOK, MacroType
  <2>2. thread \in 0..started
    BY DEF IInv, TypeOK, MacroType
  <2>3. thread' = thread \/ thread' = 0
    BY DEF NoOne
  <2>4. thread' \in 0..started
    BY <2>1, <2>2, <2>3
  <2>5. cancel' \in BOOLEAN
    BY Zenon DEF IInv, TypeOK, MacroType
  <2> QED
    BY <2>4, <2>5
<1>4. MacroType'
  BY <1>1, <1>2, <1>3 DEF IInv, TypeOK, MacroType
<1>5. MainType' /\ OutputType'
  BY <1>1 DEF IInv, TypeOK, MainType, MainPlaces, OutputType
<1>6. InHand' /\ LockIsHeld' /\ NotYetStarted'
  BY <1>1 DEF IInv, InHand, LockIsHeld, NotYetStarted, Writing
<1>7. PressedIsDown' /\ HandlesOpen' /\ CleanedUp' /\ Cleared' /\ ChordsHeld'
  BY <1>1 DEF IInv, PressedIsDown, HandlesOpen, CleanedUp, Cleared, ChordsHeld, Writing
<1> QED
  BY <1>4, <1>5, <1>6, <1>7 DEF IInv, TypeOK

-----------------------------------------------------------------------------------
(* The workers                                                                     *)

\* A step of a worker moves nobody else.
LEMMA GoesType ==
  ASSUME IInv, NEW w \in Workers, NEW to \in WorkerPlaces, worker[w] # "none",
         worker' = [worker EXCEPT ![w] = to], UNCHANGED started
  PROVE  /\ worker' \in [Workers -> WorkerPlaces]
         /\ \A x \in Workers : worker'[x] = IF x = w THEN to ELSE worker[x]
         /\ NotYetStarted'
  BY DEF IInv, TypeOK, MacroType, NotYetStarted

\* A step of a worker that leaves the keys alone and the lock with whoever has it.
LEMMA WorkerLoopIInv ==
  ASSUME IInv, NEW w \in Workers, LoopTop(w) \/ Get(w) \/ PlayEnds(w) \/ PlayStep(w)
  PROVE  IInv'
<1>1. UNCHANGED <<shutdown, main, ending, op, todo, read, device, ui, down, pressed, held,
                  counts, lock, cancel, started, thread, tapped, phase, snapshot, giving, left,
                  failures>>
  BY DEF LoopTop, Get, PlayEnds, PlayStep, mainVars, keyVars, chordVars, macroVars, cleanVars
<1>2. PICK to \in {"get", "play", "top", "ready", "ended"} :
        worker' = [worker EXCEPT ![w] = to]
  BY DEF LoopTop, Get, PlayEnds, PlayStep, Goes
<1>3. worker[w] \in {"top", "get", "play"}
  BY DEF LoopTop, Get, PlayEnds, PlayStep, Goes
<1>4. /\ worker' \in [Workers -> WorkerPlaces]
      /\ \A x \in Workers : worker'[x] = IF x = w THEN to ELSE worker[x]
      /\ NotYetStarted'
  BY <1>1, <1>2, <1>3, GoesType DEF WorkerPlaces
<1>5. queues' \in [0..MaxWorkers -> Seq({Macro, Sentinel})]
  <2>1. CASE Get(w)
    <3>1. queues[listens[w]] \in Seq({Macro, Sentinel})
      BY DEF IInv, TypeOK, MacroType
    <3>2. Tail(queues[listens[w]]) \in Seq({Macro, Sentinel})
      BY <2>1, <3>1, TailType DEF Get
    <3> QED
      BY <2>1, <3>2 DEF Get, IInv, TypeOK, MacroType
  <2>2. CASE ~Get(w)
    BY <2>2 DEF LoopTop, PlayEnds, PlayStep, macroVars, IInv, TypeOK, MacroType
  <2> QED
    BY <2>1, <2>2
<1>6. listens' \in [Workers -> 0..MaxWorkers]
  <2>1. 0 \in 0..MaxWorkers /\ started \in 0..MaxWorkers
    BY BoundsAssumption DEF IInv, TypeOK, MacroType
  <2> QED
    BY <2>1 DEF LoopTop, Get, PlayEnds, PlayStep, IInv, TypeOK, MacroType
<1>7. /\ steps' \in [Workers -> Seq(Seq(Keys))]
      /\ \A x \in Workers : x # w => steps'[x] = steps[x]
      /\ to = "ready" => steps'[w] # <<>>
  <2>1. Macro \in Seq(Seq(Keys)) /\ <<>> \in Seq(Seq(Keys))
    BY MappingAssumption, Empty
  <2>2. /\ steps' \in [Workers -> Seq(Seq(Keys))]
        /\ \A x \in Workers : x # w => steps'[x] = steps[x]
    BY <2>1 DEF LoopTop, Get, PlayEnds, PlayStep, IInv, TypeOK, MacroType
  <2>3. to = "ready" => worker'[w] = "ready"
    BY <1>4
  <2>4. to = "ready" => steps'[w] # <<>>
    BY <1>3, <2>3 DEF LoopTop, Get, PlayEnds, PlayStep, Goes, IInv, TypeOK, MacroType
  <2> QED
    BY <2>2, <2>4
<1>8. MacroType'
  BY <1>1, <1>4, <1>5, <1>6, <1>7 DEF IInv, TypeOK, MacroType
<1>9. LockIsHeld' /\ InHand'
  BY <1>1, <1>3, <1>4, <1>7 DEF IInv, LockIsHeld, InHand, Tapping
<1>10. TappedKeys' = TappedKeys
  BY <1>1 DEF TappedKeys
<1>11. MainType' /\ OutputType' /\ PressedIsDown' /\ HandlesOpen' /\ CleanedUp' /\ Cleared' /\ ChordsHeld'
  BY <1>1, <1>10 DEF IInv, TypeOK, MainType, OutputType, PressedIsDown, HandlesOpen, CleanedUp,
                     Cleared, ChordsHeld
<1> QED
  BY <1>4, <1>8, <1>9, <1>11 DEF IInv, TypeOK

\* The keys that a tap presses, all or the first of them.
LEMMA StepKeys ==
  ASSUME IInv, NEW w \in Workers, worker[w] \in {"ready"} \cup Tapping
  PROVE  /\ steps[w] \in Seq(Seq(Keys)) /\ steps[w] # <<>>
         /\ Head(steps[w]) \in Seq(Keys) /\ Tail(steps[w]) \in Seq(Seq(Keys))
<1>1. steps[w] \in Seq(Seq(Keys)) /\ steps[w] # <<>>
  BY DEF IInv, TypeOK, MacroType, InHand
<1> QED
  BY <1>1, TailType

\* A tap begins: the lock is free, so nobody else is inside one.
LEMMA TapIInv ==
  ASSUME IInv, NEW w \in Workers, TapPress(w) \/ TapBreaks(w)
  PROVE  IInv'
<1>1. /\ worker[w] = "ready" /\ lock = NoOne /\ lock' = w
      /\ UNCHANGED <<shutdown, main, ending, op, todo, read, device, ui, held, counts, cancel,
                     queues, started, thread, listens, steps, phase, snapshot, giving, left>>
  BY DEF TapPress, TapBreaks, Goes, LockOfTap, mainVars, chordVars, macroVars, cleanVars
<1>2. PICK to \in Tapping : worker' = [worker EXCEPT ![w] = to]
  BY DEF TapPress, TapBreaks, Goes, Tapping
<1>3. /\ worker' \in [Workers -> WorkerPlaces]
      /\ \A x \in Workers : worker'[x] = IF x = w THEN to ELSE worker[x]
      /\ NotYetStarted'
  BY <1>1, <1>2, GoesType DEF WorkerPlaces, Tapping
<1>4. PICK K \in SUBSET Keys :
        /\ ui \/ K = {}
        /\ down' = down \cup K /\ pressed' = pressed \cup K
        /\ tapped' = [tapped EXCEPT ![w] = K]
  <2>1. Head(steps[w]) \in Seq(Keys)
    BY <1>1, StepKeys
  <2>2. CASE TapPress(w)
    <3>1. KeySet(Head(steps[w])) \ pressed \subseteq Keys
      BY <2>1, KeySetType
    <3> QED
      BY <2>2, <3>1 DEF TapPress, Press
  <2>3. CASE TapBreaks(w)
    <3>1. PICK n \in DOMAIN Head(steps[w]) :
            LET K == {Head(steps[w])[i] : i \in 1..(n - 1)} \ pressed
            IN /\ ui \/ K = {}
               /\ Press(K) /\ tapped' = [tapped EXCEPT ![w] = K]
      BY <2>3 DEF TapBreaks
    <3>2. {Head(steps[w])[i] : i \in 1..(n - 1)} \subseteq Keys
      BY <2>1
    <3> QED
      BY <3>1, <3>2 DEF Press
  <2> QED
    BY <2>2, <2>3
<1>5. /\ tapped' \in [Workers -> SUBSET Keys]
      /\ \A x \in Workers : tapped'[x] = IF x = w THEN K ELSE tapped[x]
  BY <1>4 DEF IInv, TypeOK, MacroType
<1>6. failures' \in 0..MaxFailures
  BY BoundsAssumption DEF TapPress, TapBreaks, IInv, TypeOK, MacroType, MainType
<1>7. MacroType'
  BY <1>1, <1>3, <1>5, <1>6 DEF IInv, TypeOK, MacroType
<1>8. MainType' /\ OutputType'
  BY <1>1, <1>4 DEF IInv, TypeOK, MainType, OutputType
<1>9. InHand' /\ LockIsHeld'
  BY <1>1, <1>2, <1>3, <1>5, Owners DEF IInv, InHand, LockIsHeld, Tapping
<1>10. PressedIsDown' /\ HandlesOpen'
  BY <1>1, <1>4 DEF IInv, PressedIsDown, HandlesOpen
<1>11. TappedKeys' = TappedKeys \cup K
  <2>1. tapped[w] = {}
    BY <1>1 DEF IInv, LockIsHeld, Tapping
  <2> QED
    BY <1>5, <2>1 DEF TappedKeys
<1>12. CleanedUp'
  BY <1>1, <1>4, <1>11 DEF IInv, CleanedUp
<1>13. Cleared' /\ ChordsHeld'
  BY <1>1 DEF IInv, Cleared, ChordsHeld, LockIsHeld
<1> QED
  BY <1>3, <1>7, <1>8, <1>9, <1>10, <1>12, <1>13 DEF IInv, TypeOK

\* A tap ends: what it gives back is what it has pressed, or the last keys of it.
LEMMA TapReleaseIInv ==
  ASSUME IInv, NEW w \in Workers, TapRelease(w) \/ TapReleaseBreaks(w)
  PROVE  IInv'
<1>1. /\ worker[w] \in Tapping /\ lock = w /\ lock' = NoOne
      /\ UNCHANGED <<shutdown, main, ending, op, todo, read, device, ui, held, counts, cancel,
                     queues, started, thread, listens, phase, snapshot, giving, left>>
      /\ steps' = [steps EXCEPT ![w] = Tail(@)]
  BY DEF TapRelease, TapReleaseBreaks, Tapping, mainVars, chordVars, macroVars, cleanVars, IInv,
         LockIsHeld
<1>2. PICK to \in {"play", "fail"} : worker' = [worker EXCEPT ![w] = to]
  BY DEF TapRelease, TapReleaseBreaks
<1>3. /\ worker' \in [Workers -> WorkerPlaces]
      /\ \A x \in Workers : worker'[x] = IF x = w THEN to ELSE worker[x]
      /\ NotYetStarted'
  BY <1>1, <1>2, GoesType DEF WorkerPlaces, Tapping
<1>4. /\ steps' \in [Workers -> Seq(Seq(Keys))]
      /\ \A x \in Workers : x # w => steps'[x] = steps[x]
  <2>1. Tail(steps[w]) \in Seq(Seq(Keys))
    BY <1>1, StepKeys
  <2> QED
    BY <1>1, <2>1 DEF IInv, TypeOK, MacroType
<1>5. PICK kept \in SUBSET tapped[w] :
        /\ tapped' = [tapped EXCEPT ![w] = kept]
        /\ kept # {} => to = "fail"
        /\ \/ ui /\ down' = down \ (tapped[w] \ kept) /\ pressed' = pressed \ (tapped[w] \ kept)
           \/ ~ui /\ UNCHANGED <<down, pressed>>
  <2>1. CASE TapRelease(w)
    <3>1. \/ ui /\ down' = down \ (tapped[w] \ {}) /\ pressed' = pressed \ (tapped[w] \ {})
          \/ ~ui /\ UNCHANGED <<down, pressed>>
      BY <2>1 DEF TapRelease, Release, keyVars, IInv, TypeOK, MainType
    <3> QED
      BY <2>1, <3>1 DEF TapRelease
  <2>2. CASE TapReleaseBreaks(w)
    <3>1. PICK n \in DOMAIN Head(steps[w]) :
            LET kept == tapped[w] \cap {Head(steps[w])[i] : i \in 1..n} IN
            Release(tapped[w] \ kept) /\ tapped' = [tapped EXCEPT ![w] = kept]
      BY <2>2 DEF TapReleaseBreaks
    <3> DEFINE K == tapped[w] \cap {Head(steps[w])[i] : i \in 1..n}
    <3>2. worker'[w] = "fail" /\ ui
      BY <2>2 DEF TapReleaseBreaks, IInv, TypeOK, MacroType
    <3>3. to = "fail" /\ K \subseteq tapped[w]
      BY <1>3, <3>2
    <3> QED
      BY <3>1, <3>2, <3>3 DEF Release
  <2> QED
    BY <2>1, <2>2
<1>6. /\ tapped' \in [Workers -> SUBSET Keys]
      /\ \A x \in Workers : tapped'[x] = IF x = w THEN kept ELSE tapped[x]
  BY <1>5 DEF IInv, TypeOK, MacroType
<1>7. failures' \in 0..MaxFailures
  BY BoundsAssumption DEF TapRelease, TapReleaseBreaks, IInv, TypeOK, MacroType
<1>8. MacroType'
  BY <1>1, <1>3, <1>4, <1>6, <1>7 DEF IInv, TypeOK, MacroType
<1>9. MainType' /\ OutputType'
  BY <1>1, <1>5 DEF IInv, TypeOK, MainType, OutputType
<1>10. InHand'
  BY <1>1, <1>2, <1>3, <1>4 DEF IInv, InHand, Tapping
<1>11. LockIsHeld'
  BY <1>1, <1>3, <1>5, <1>6, Owners DEF IInv, LockIsHeld, Tapping
<1>12. PressedIsDown'
  BY <1>1, <1>5 DEF IInv, PressedIsDown
<1>13. HandlesOpen' /\ Cleared' /\ ChordsHeld'
  BY <1>1, Owners DEF IInv, HandlesOpen, Cleared, ChordsHeld, LockIsHeld, Tapping
<1>14. CleanedUp'
  <2>1. TappedKeys \ (tapped[w] \ kept) \subseteq TappedKeys'
    BY <1>6 DEF TappedKeys
  <2> QED
    BY <1>1, <1>5, <2>1 DEF IInv, CleanedUp, PressedIsDown
<1> QED
  BY <1>3, <1>8, <1>9, <1>10, <1>11, <1>12, <1>13, <1>14 DEF IInv, TypeOK

LEMMA CleanupBeginsIInv ==
  ASSUME IInv, NEW w \in Workers, CleanupBegins(w)
  PROVE  IInv'
<1> USE DEF CleanupBegins, StartsReleasing
<1>1. /\ worker[w] = "fail" /\ lock = NoOne /\ lock' = w /\ phase' = "chords"
      /\ worker' = [worker EXCEPT ![w] = "cleanup"]
      /\ snapshot' \in {held, {}}
      /\ UNCHANGED <<shutdown, main, ending, op, todo, read, device, ui, down, pressed, held,
                     counts, cancel, queues, started, thread, listens, steps, tapped, giving,
                     left, failures>>
  BY DEF Goes, mainVars, keyVars, chordVars, macroVars
<1>2. /\ worker' \in [Workers -> WorkerPlaces]
      /\ \A x \in Workers : worker'[x] = IF x = w THEN "cleanup" ELSE worker[x]
      /\ NotYetStarted'
  BY <1>1, GoesType DEF WorkerPlaces
<1> HIDE DEF CleanupBegins, StartsReleasing
<1>3. MacroType'
  BY <1>1, <1>2 DEF IInv, TypeOK, MacroType
<1>4. MainType' /\ OutputType'
  BY <1>1 DEF IInv, TypeOK, MainType, OutputType
<1>5. InHand' /\ LockIsHeld'
  BY <1>1, <1>2, Owners DEF IInv, InHand, LockIsHeld, Tapping
<1>6. TappedKeys' = TappedKeys
  BY <1>1 DEF TappedKeys
<1>7. PressedIsDown' /\ HandlesOpen' /\ CleanedUp' /\ Cleared' /\ ChordsHeld'
  BY <1>1, <1>6 DEF IInv, PressedIsDown, HandlesOpen, CleanedUp, Cleared, ChordsHeld
<1> QED
  BY <1>2, <1>3, <1>4, <1>5, <1>7 DEF IInv, TypeOK

-----------------------------------------------------------------------------------
(* The cleanup                                                                     *)

LEMMA MainCleansUpIInv == IInv /\ MainCleansUp => IInv'
<1> SUFFICES ASSUME IInv, MainCleansUp PROVE IInv'
  OBVIOUS
<1>1. /\ main = "release" /\ main' = "cleanup"
      /\ lock = NoOne /\ lock' = MainThread /\ phase' = "chords"
      /\ snapshot' \in {held, {}}
      /\ UNCHANGED <<shutdown, ending, op, todo, read, device, ui, down, pressed, held, counts,
                     macroVars, worker, listens, steps, tapped, giving, left, failures>>
  BY DEF MainCleansUp, StartsReleasing, keyVars, chordVars, workerVars
<1>2. MacroType'
  BY <1>1 DEF IInv, TypeOK, MacroType, macroVars
<1>3. MainType' /\ OutputType'
  BY <1>1 DEF IInv, TypeOK, MainType, MainPlaces, OutputType
<1>4. InHand' /\ NotYetStarted'
  BY <1>1 DEF IInv, InHand, NotYetStarted, Writing, macroVars
<1>5. LockIsHeld'
  BY <1>1, Owners DEF IInv, LockIsHeld
<1>6. PressedIsDown' /\ HandlesOpen' /\ CleanedUp' /\ Cleared' /\ ChordsHeld'
  BY <1>1 DEF IInv, PressedIsDown, HandlesOpen, CleanedUp, Cleared, ChordsHeld, Writing
<1> QED
  BY <1>2, <1>3, <1>4, <1>5, <1>6 DEF IInv, TypeOK

\* The chords of the snapshot, their keys, and what is forgotten: keys are only given back.
LEMMA GivesIInv ==
  IInv /\ (GiveChord \/ GiveRead \/ GiveStore \/ ClearPressed \/ ClearHeld) => IInv'
<1> SUFFICES ASSUME IInv, GiveChord \/ GiveRead \/ GiveStore \/ ClearPressed \/ ClearHeld
             PROVE  IInv'
  OBVIOUS
<1>1. /\ phase # "idle" /\ phase' # "idle"
      /\ UNCHANGED <<shutdown, main, ending, op, todo, read, device, ui, lock, cancel, queues,
                     started, thread, worker, listens, steps, failures>>
  BY DEF GiveChord, GiveRead, GiveStore, ClearPressed, ClearHeld, mainVars, macroVars, workerVars
<1>2. phase \in {"keys", "entry"} => /\ giving \in Seq(Keys) /\ giving # <<>>
                                    /\ Head(giving) \in Keys /\ Tail(giving) \in Seq(Keys)
                                    /\ Len(Tail(giving)) = Len(giving) - 1
  BY TailType DEF IInv, TypeOK, OutputType, InHand
<1>3. /\ \E K \in SUBSET Keys : down' = down \ K /\ pressed' = pressed \ K
      /\ counts' \in [Keys -> Nat] /\ held' \subseteq held /\ left' \in Nat
      /\ snapshot' \subseteq Buttons /\ giving' \in Seq(Keys)
      /\ phase' \in {"chords", "keys", "entry", "held", "counts"}
      /\ phase' \in {"keys", "entry"} => giving' # <<>>
      /\ phase' \in {"keys", "entry"} => phase \in {"keys", "entry"} \/ held # {}
  <2>1. down = down \ {} /\ pressed = pressed \ {} /\ {} \in SUBSET Keys
    OBVIOUS
  <2>2. CASE GiveChord
    <3>1. PICK b \in snapshot :
            /\ snapshot' = snapshot \ {b} /\ held' = held \ {b}
            /\ IF b \in held THEN phase' = "keys" /\ giving' = Backwards(Mapping[b].keys)
                              ELSE UNCHANGED <<phase, giving>>
      BY <2>2 DEF GiveChord
    <3>2. b \in Buttons
      BY DEF IInv, TypeOK, OutputType
    <3>3. b \in held => Mapping[b].keys # <<>>
      BY DEF IInv, ChordsHeld
    <3>4. giving' \in Seq(Keys) /\ (b \in held => giving' # <<>>)
      BY <3>1, <3>2, <3>3, KeysType DEF IInv, TypeOK, OutputType
    <3>5. UNCHANGED <<down, pressed, counts, left>> /\ phase = "chords"
      BY <2>2 DEF GiveChord, keyVars
    <3>6. snapshot' \subseteq Buttons /\ held' \subseteq held
      BY <3>1 DEF IInv, TypeOK, OutputType
    <3>7. /\ phase' \in {"chords", "keys"}
          /\ phase' = "keys" => b \in held
      BY <3>1, <3>5
    <3> QED
      BY <2>1, <3>4, <3>5, <3>6, <3>7 DEF IInv, TypeOK, OutputType
  <2>3. CASE GiveRead
    <3>1. left' \in Nat
      BY <1>2, <2>3 DEF GiveRead, IInv, TypeOK, OutputType
    <3> QED
      BY <1>2, <2>1, <2>3, <3>1 DEF GiveRead, keyVars, chordVars, IInv, TypeOK, OutputType
  <2>4. CASE GiveStore
    <3>1. \E K \in SUBSET Keys : down' = down \ K /\ pressed' = pressed \ K
      BY <1>2, <2>1, <2>4 DEF GiveStore, Release, keyVars
    <3>2. counts' \in [Keys -> Nat]
      BY <1>2, <2>4 DEF GiveStore, IInv, TypeOK, OutputType
    <3>3. Len(giving) # 1 => Tail(giving) # <<>>
      <4> DEFINE n == Len(giving)
                 t == Tail(giving)
      <4>1. giving # <<>> /\ n \in Nat /\ t \in Seq(Keys) /\ Len(t) = n - 1
        BY <1>2, <2>4 DEF GiveStore
      <4> HIDE DEF n, t
      <4>2. t = <<>> => n = 1
        BY <4>1
      <4> QED
        BY <4>2 DEF n, t
    <3> QED
      BY <1>2, <2>4, <3>1, <3>2, <3>3 DEF GiveStore, IInv, TypeOK, OutputType
  <2>5. CASE ClearPressed
    <3>1. down' = down \ pressed /\ pressed' = pressed \ pressed /\ pressed \in SUBSET Keys
      BY <2>5 DEF ClearPressed, ReleasedKeys, IInv, TypeOK, OutputType
    <3> QED
      BY <2>5, <3>1 DEF ClearPressed, chordVars, IInv, TypeOK, OutputType
  <2>6. CASE ClearHeld
    BY <2>1, <2>6 DEF ClearHeld, keyVars, IInv, TypeOK, OutputType
  <2> QED
    BY <2>2, <2>3, <2>4, <2>5, <2>6
<1>4. /\ tapped' \in [Workers -> SUBSET Keys]
      /\ \A w \in Workers : tapped'[w] \subseteq tapped[w]
      /\ tapped' = tapped \/ (ClearPressed /\ \A w \in Workers : tapped'[w] = {})
  BY DEF GiveChord, GiveRead, GiveStore, ClearPressed, ClearHeld, workerVars, IInv, TypeOK,
         MacroType
<1>5. MacroType' /\ NotYetStarted'
  BY <1>1, <1>4 DEF IInv, TypeOK, MacroType, NotYetStarted
<1>6. MainType' /\ OutputType'
  BY <1>1, <1>3 DEF IInv, TypeOK, MainType, OutputType
<1>7. InHand'
  BY <1>1, <1>3 DEF IInv, InHand
<1>8. LockIsHeld'
  BY <1>1, <1>4 DEF IInv, LockIsHeld
<1>9. PressedIsDown' /\ HandlesOpen'
  BY <1>1, <1>3 DEF IInv, PressedIsDown, HandlesOpen
<1>10. CleanedUp'
  <2>1. CASE ClearPressed
    <3>1. down' = {}
      BY <2>1 DEF ClearPressed, ReleasedKeys, IInv, PressedIsDown, TypeOK, MainType
    <3> QED
      BY <3>1 DEF CleanedUp
  <2>2. CASE ~ClearPressed
    <3>1. TappedKeys' = TappedKeys
      BY <1>4, <2>2 DEF TappedKeys
    <3> QED
      BY <1>1, <1>3, <3>1 DEF IInv, CleanedUp
  <2> QED
    BY <2>1, <2>2
<1>11. Cleared'
  <2>1. phase' \in {"held", "counts"} => pressed' = {} /\ \A w \in Workers : tapped'[w] = {}
    <3>1. CASE ClearPressed
      BY <1>4, <3>1 DEF ClearPressed
    <3>2. CASE ClearHeld
      BY <3>2 DEF ClearHeld, keyVars, workerVars, IInv, Cleared
    <3>3. CASE GiveChord \/ GiveRead \/ GiveStore
      BY <3>3 DEF GiveChord, GiveRead, GiveStore
    <3> QED
      BY <3>1, <3>2, <3>3
  <2>2. phase' = "counts" => held' = {}
    BY <1>1 DEF GiveChord, GiveRead, GiveStore, ClearPressed, ClearHeld
  <2> QED
    BY <1>1, <1>3, <2>1, <2>2 DEF IInv, Cleared
<1>12. ChordsHeld'
  BY <1>3 DEF IInv, ChordsHeld
<1> QED
  BY <1>5, <1>6, <1>7, <1>8, <1>9, <1>10, <1>11, <1>12 DEF IInv, TypeOK

\* The cleanup is over, or its KeyError leaves run or the worker's thread.
LEMMA LeavesIInv == IInv /\ (GiveRaises \/ ClearCounts) => IInv'
<1> SUFFICES ASSUME IInv, GiveRaises \/ ClearCounts PROVE IInv'
  OBVIOUS
<1>1. PICK raises \in BOOLEAN :
        /\ Leaves(raises)
        /\ raises => phase \in {"keys", "entry"} /\ UNCHANGED counts
        /\ ~raises => phase = "counts" /\ counts' = [k \in Keys |-> 0]
  BY DEF GiveRaises, ClearCounts
<1> USE DEF Leaves
<1>2. /\ phase # "idle" /\ lock' = NoOne /\ phase' = "idle" /\ snapshot' = {}
      /\ giving' = <<>> /\ left' = 0
      /\ UNCHANGED <<shutdown, op, todo, read, device, ui, down, pressed, held, cancel, queues,
                     started, thread, listens, steps, failures>>
  BY <1>1 DEF keyVars, macroVars
<1>3. counts' \in [Keys -> Nat]
  BY <1>1 DEF IInv, TypeOK, OutputType
<1>4. OutputType'
  BY <1>2, <1>3, Empty DEF IInv, TypeOK, OutputType
<1>5. CASE lock = MainThread
  <2>1. /\ main = "cleanup" /\ UNCHANGED <<worker, tapped>>
        /\ main' = IF ~raises THEN "close" ELSE IF ending THEN "raised" ELSE "stop"
        /\ ending' = (ending \/ raises)
    BY <1>1, <1>5 DEF IInv, LockIsHeld
  <2> HIDE DEF Leaves
  <2>2. MainType'
    BY <1>2, <2>1 DEF IInv, TypeOK, MainType, MainPlaces
  <2>3. MacroType' /\ NotYetStarted'
    BY <1>2, <2>1 DEF IInv, TypeOK, MacroType, NotYetStarted
  <2>4. InHand'
    BY <1>2, <2>1 DEF IInv, InHand, Writing
  <2>5. LockIsHeld'
    BY <1>2, <1>5, <2>1, Owners DEF IInv, LockIsHeld
  <2>6. PressedIsDown' /\ HandlesOpen' /\ ChordsHeld'
    BY <1>2, <2>1 DEF IInv, PressedIsDown, HandlesOpen, ChordsHeld, Writing
  <2>7. ~raises => held = {} /\ down = {}
    BY <1>1, <1>5 DEF IInv, Cleared, PressedIsDown, TypeOK, MainType
  <2>8. CleanedUp' /\ Cleared'
    BY <1>2, <2>1, <2>7 DEF CleanedUp, Cleared
  <2> QED
    BY <1>4, <2>2, <2>3, <2>4, <2>5, <2>6, <2>8 DEF IInv, TypeOK
<1>6. CASE lock # MainThread
  <2>1. lock \in Workers /\ worker[lock] = "cleanup"
    BY <1>2, <1>6 DEF IInv, LockIsHeld, TypeOK, OutputType
  <2>2. PICK to \in {"ended", "top"} :
          /\ worker' = [worker EXCEPT ![lock] = to]
          /\ tapped' = [tapped EXCEPT ![lock] = {}]
          /\ UNCHANGED <<main, ending>>
    BY <1>1, <1>6
  <2> HIDE DEF Leaves
  <2>3. /\ worker' \in [Workers -> WorkerPlaces]
        /\ \A x \in Workers : worker'[x] = IF x = lock THEN to ELSE worker[x]
        /\ NotYetStarted'
    BY <1>2, <2>1, <2>2, GoesType DEF WorkerPlaces
  <2>4. /\ tapped' \in [Workers -> SUBSET Keys]
        /\ \A x \in Workers : tapped'[x] = IF x = lock THEN {} ELSE tapped[x]
    BY <2>1, <2>2 DEF IInv, TypeOK, MacroType
  <2>5. MainType' /\ MacroType'
    BY <1>2, <2>2, <2>3, <2>4 DEF IInv, TypeOK, MainType, MacroType
  <2>6. InHand'
    BY <1>2, <2>1, <2>2, <2>3 DEF IInv, InHand, Tapping
  <2>7. LockIsHeld'
    BY <1>2, <1>6, <2>1, <2>2, <2>3, <2>4, Owners DEF IInv, LockIsHeld, Tapping
  <2>8. PressedIsDown' /\ HandlesOpen' /\ Cleared' /\ ChordsHeld'
    BY <1>2, <2>2 DEF IInv, PressedIsDown, HandlesOpen, Cleared, ChordsHeld
  <2>9. CleanedUp'
    <3> SUFFICES ASSUME main \in {"acquire", "close", "closeUi", "ended"}
                 PROVE  down' \subseteq TappedKeys'
      BY <2>2 DEF CleanedUp
    <3>1. CASE main = "ended"
      BY <1>2, <3>1 DEF IInv, Cleared, PressedIsDown
    <3>2. CASE main # "ended"
      <4>1. phase = "counts"
        BY <1>1, <3>2 DEF IInv, Cleared
      <4>2. pressed = {}
        BY <4>1 DEF IInv, Cleared
      <4> QED
        BY <1>2, <4>2 DEF IInv, PressedIsDown, TypeOK, MainType
    <3> QED
      BY <3>1, <3>2
  <2> QED
    BY <1>4, <2>3, <2>5, <2>6, <2>7, <2>8, <2>9 DEF IInv, TypeOK
<1> QED
  BY <1>5, <1>6

-----------------------------------------------------------------------------------
(* The theorems                                                                    *)

LEMMA NextIInv == IInv /\ [Next]_vars => IInv'
<1> SUFFICES ASSUME IInv, [Next]_vars PROVE IInv'
  OBVIOUS
<1>1. CASE Main
  BY <1>1, LoopIInv, HandleKeyIInv, ChordIInv, StartMacroIInv, CountIInv, StoreIInv,
     MissingCountIInv, StopMacrosIInv, MainCleansUpIInv DEF Main
<1>2. CASE SignalArrives
  BY <1>2, SignalIInv
<1>3. ASSUME NEW w \in Workers, Worker(w) PROVE IInv'
  BY <1>3, WorkerLoopIInv, TapIInv, TapReleaseIInv, CleanupBeginsIInv DEF Worker
<1>4. CASE Cleanup
  BY <1>4, GivesIInv, LeavesIInv DEF Cleanup
<1>5. CASE UNCHANGED vars
  BY <1>5 DEF vars, mainVars, chordVars, keyVars, macroVars, workerVars, cleanVars, IInv, TypeOK,
     MainType, OutputType, MacroType, InHand, LockIsHeld, NotYetStarted, PressedIsDown,
     HandlesOpen, Cleared, ChordsHeld, CleanedUp, TappedKeys
<1> QED
  BY <1>1, <1>2, <1>3, <1>4, <1>5 DEF Next, Terminated

LEMMA RemapperInvariant == Spec => []IInv
  BY InitIInv, NextIInv, PTL DEF Spec

\* The variables keep their types: a count never goes below zero, for any mapping.
THEOREM RemapperType == Spec => []TypeOK
<1>1. IInv => TypeOK
  BY DEF IInv
<1> QED
  BY <1>1, RemapperInvariant, PTL

\* After a disconnect or a teardown no synthetic key stays down, except those of a
\* macro that outlived its join and is in the middle of a tap, for any mapping, macro
\* and number of workers and of failing writes.
THEOREM RemapperCleanedUp == Spec => []CleanedUp
<1>1. IInv => CleanedUp
  BY DEF IInv
<1> QED
  BY <1>1, RemapperInvariant, PTL
-----------------------------------------------------------------------------------
(* Chords and the counts of their keys                                             *)

Users(k) == Cardinality(ChordsWith(k))

Counting == main \in {"count", "apply", "store"}

\* The keys that a handler has yet to count, or to give back.
Uncounted == IF Counting /\ op = "press" THEN KeySet(todo) ELSE {}
Unreturned ==
  IF Counting /\ op = "release" THEN KeySet(todo)
  ELSE IF main = "emit" THEN KeySet(Tail(todo)) ELSE {}

\* The keys of a chord differ, and finitely many chords are held.
ChordInv ==
  /\ IsFiniteSet(held)
  /\ \A i, j \in DOMAIN todo : todo[i] = todo[j] => i = j
  /\ main = "emit" => op = "release"
  /\ main = "store" => op = "press" /\ read = 0

\* Workers run with the virtual device open until the teardown, and only a write that
\* failed or the end of the device breaks a tap.
Sound == failures = 0 /\ main # "ended"
SoundInv ==
  /\ main # "ended" /\ ~ui => started = 0
  /\ Sound => \A w \in Workers : worker[w] \notin {"brokenTap", "fail", "cleanup"}

\* Until then, from the end of a cleanup to the next, the counts are exact, and a key of
\* chords only is down while it is counted.
Exact(k) ==
  /\ counts[k] = IF k \in Uncounted THEN Users(k) - 1
                 ELSE IF k \in Unreturned THEN Users(k) + 1 ELSE Users(k)
  /\ k \in Uncounted => Users(k) > 0
  /\ main \in {"apply", "store"} /\ k = Head(todo) =>
       read = IF op = "press" THEN counts[k] ELSE counts[k] - 1
  /\ main = "emit" /\ k = Head(todo) => counts[k] = 0
  /\ KeyButtons(k) = {} =>
       IF main = "store" /\ k = Head(todo) THEN k \in down \ TappedKeys
       ELSE ~(main = "emit" /\ k = Head(todo)) => (k \in down \ TappedKeys <=> counts[k] > 0)

Counted == {"acquire", "ready", "close", "closeUi"} \cup Writing
ExactInv == Sound /\ main \in Counted => \A k \in Keys : Exact(k)

Distinct(s) == \A i, j \in DOMAIN s : s[i] = s[j] => i = j
With(H, k) == {b \in H : k \in KeySet(Mapping[b].keys)}

LEMMA WithGrows ==
  ASSUME NEW H, IsFiniteSet(H), NEW b, b \notin H, NEW k
  PROVE  /\ IsFiniteSet(H \cup {b})
         /\ Cardinality(With(H \cup {b}, k)) =
              IF k \in KeySet(Mapping[b].keys) THEN Cardinality(With(H, k)) + 1
                                               ELSE Cardinality(With(H, k))
<1>1. IsFiniteSet(H \cup {b})
  BY FS_AddElement
<1>2. IsFiniteSet(With(H, k)) /\ b \notin With(H, k)
  BY FS_Subset DEF With
<1>3. With(H \cup {b}, k) = IF k \in KeySet(Mapping[b].keys) THEN With(H, k) \cup {b}
                                                             ELSE With(H, k)
  BY DEF With
<1> QED
  BY <1>1, <1>2, <1>3, FS_AddElement

LEMMA WithShrinks ==
  ASSUME NEW H, IsFiniteSet(H), NEW b \in H, NEW k
  PROVE  /\ IsFiniteSet(H \ {b})
         /\ Cardinality(With(H, k)) =
              IF k \in KeySet(Mapping[b].keys) THEN Cardinality(With(H \ {b}, k)) + 1
                                               ELSE Cardinality(With(H \ {b}, k))
<1>1. IsFiniteSet(H \ {b}) /\ H = (H \ {b}) \cup {b} /\ b \notin H \ {b}
  BY FS_Subset
<1> QED
  BY <1>1, WithGrows

LEMMA WithCounts ==
  ASSUME NEW H, IsFiniteSet(H), NEW k
  PROVE  /\ Cardinality(With(H, k)) \in Nat
         /\ Cardinality(With(H, k)) = 0 <=> With(H, k) = {}
         /\ Cardinality(With({}, k)) = 0
<1>1. IsFiniteSet(With(H, k)) /\ With({}, k) = {}
  BY FS_Subset DEF With
<1> QED
  BY <1>1, FS_CardinalityType, FS_EmptySet

LEMMA UsersIsWith == \A k : ChordsWith(k) = With(held, k)
BY DEF ChordsWith, With

\* The keys of a button differ, in either order.
LEMMA KeysDistinct ==
  ASSUME NEW b \in Buttons
  PROVE  LET keys == Mapping[b].keys
             back == Backwards(keys)
         IN Distinct(keys) /\ Distinct(back) /\ KeySet(back) = KeySet(keys)
<1> DEFINE s == Mapping[b].keys
<1>1. s \in Seq(Keys) /\ Distinct(s)
  BY MappingAssumption DEF Distinct
<1> HIDE DEF s
<1> DEFINE n == Len(s)
           r == Backwards(s)
<1>2. n \in Nat /\ DOMAIN s = 1..n /\ DOMAIN r = 1..n
  BY <1>1 DEF Backwards
<1>3. \A i \in 1..n : r[i] = s[n + 1 - i] /\ n + 1 - i \in 1..n
  BY <1>2 DEF Backwards
<1> HIDE DEF n, r
<1>4. Distinct(r)
  <2> SUFFICES ASSUME NEW i \in 1..n, NEW j \in 1..n, r[i] = r[j] PROVE i = j
    BY <1>2 DEF Distinct
  <2>1. n + 1 - i = n + 1 - j
    BY <1>1, <1>2, <1>3 DEF Distinct
  <2> QED
    BY <1>2, <2>1
<1>5. KeySet(r) = KeySet(s)
  <2>1. \A i \in 1..n : n + 1 - (n + 1 - i) = i
    BY <1>2
  <2>2. \A i \in 1..n : s[i] = r[n + 1 - i] /\ n + 1 - i \in 1..n
    BY <1>2, <1>3, <2>1
  <2> QED
    BY <1>2, <1>3, <2>2 DEF KeySet
<1> QED
  BY <1>1, <1>4, <1>5 DEF s, r, n

LEMMA TailDistinct ==
  ASSUME NEW S, NEW s \in Seq(S), s # <<>>, Distinct(s)
  PROVE  /\ Head(s) \in KeySet(s) /\ Head(s) \in S /\ KeySet(s) \subseteq S
         /\ KeySet(Tail(s)) = KeySet(s) \ {Head(s)}
         /\ Distinct(Tail(s)) /\ Tail(s) \in Seq(S)
         /\ Len(s) = 1 => Tail(s) = <<>> /\ KeySet(Tail(s)) = {}
<1> DEFINE n == Len(s)
           t == Tail(s)
<1>1. /\ n \in Nat /\ n >= 1 /\ DOMAIN s = 1..n /\ Head(s) = s[1]
      /\ t \in Seq(S) /\ Len(t) = n - 1 /\ DOMAIN t = 1..(n - 1)
      /\ \A i \in 1..(n - 1) : t[i] = s[i + 1] /\ i + 1 \in 1..n /\ i + 1 # 1
  OBVIOUS
<1> HIDE DEF n, t
<1>2. \A i \in 2..n : i - 1 \in 1..(n - 1) /\ s[i] = t[i - 1]
  BY <1>1
<1>3. Head(s) \in KeySet(s) /\ KeySet(s) \subseteq S
  BY <1>1 DEF KeySet, n
<1>4. Distinct(t)
  <2> SUFFICES ASSUME NEW i \in 1..(n - 1), NEW j \in 1..(n - 1), t[i] = t[j] PROVE i = j
    BY <1>1 DEF Distinct
  <2>1. i + 1 = j + 1
    BY SMTT(20), <1>1 DEF Distinct
  <2> QED
    BY <1>1, <2>1
<1>5. KeySet(t) \subseteq KeySet(s) \ {Head(s)}
  BY <1>1 DEF KeySet, Distinct
<1>6. ASSUME NEW x \in KeySet(s), x # Head(s) PROVE x \in KeySet(t)
  <2>1. PICK i \in 1..n : x = s[i]
    BY <1>1 DEF KeySet
  <2>2. i \in 2..n
    BY <1>1, <1>6, <2>1
  <2> QED
    BY <1>1, <1>2, <2>1, <2>2 DEF KeySet
<1>7. n = 1 => t = <<>> /\ KeySet(t) = {}
  BY <1>1 DEF KeySet
<1> QED
  BY <1>1, <1>3, <1>4, <1>5, <1>6, <1>7 DEF n, t

ChordIInvs == IInv /\ ChordInv

\* The types the counting relies on.
LEMMA CountTypes ==
  ASSUME ChordIInvs
  PROVE  /\ counts \in [Keys -> Nat] /\ read \in Nat /\ todo \in Seq(Keys)
         /\ held \subseteq Buttons /\ IsFiniteSet(held)
         /\ op \in {"press", "release"}
         /\ main \in Writing => /\ todo # <<>> /\ Head(todo) \in KeySet(todo)
                                /\ Head(todo) \in Keys
                                /\ KeySet(Tail(todo)) = KeySet(todo) \ {Head(todo)}
                                /\ Distinct(Tail(todo))
                                /\ Len(todo) = 1 => KeySet(Tail(todo)) = {}
         /\ \A k \in Keys : Users(k) \in Nat /\ (Users(k) = 0 <=> ChordsWith(k) = {})
<1>1. /\ counts \in [Keys -> Nat] /\ read \in Nat /\ todo \in Seq(Keys)
      /\ held \subseteq Buttons /\ IsFiniteSet(held) /\ op \in {"press", "release"}
      /\ main \in Writing => todo # <<>>
      /\ Distinct(todo)
  BY DEF ChordIInvs, IInv, TypeOK, MainType, OutputType, InHand, ChordInv, Distinct
<1>2. \A k \in Keys : Users(k) \in Nat /\ (Users(k) = 0 <=> ChordsWith(k) = {})
  BY <1>1, WithCounts, UsersIsWith DEF Users
<1> QED
  BY <1>1, <1>2, TailDistinct

\* A step of a handler or around it, or one that takes chords away.
LEMMA ChordKept ==
  ASSUME ChordIInvs, held' \subseteq held,
         \/ UNCHANGED <<main, op, todo, read>>
         \/ main' \notin Writing /\ todo' \in {todo, <<>>}
  PROVE  ChordInv'
<1>1. IsFiniteSet(held')
  BY FS_Subset DEF ChordIInvs, ChordInv
<1> QED
  BY <1>1 DEF ChordIInvs, ChordInv, Writing

LEMMA ChordBegins ==
  ASSUME ChordIInvs, NEW b \in Buttons, ChordPressed(b) \/ ChordReleased(b)
  PROVE  ChordInv'
<1>1. main' = "count" /\ IsFiniteSet(held')
  BY WithGrows, FS_Subset DEF ChordPressed, ChordReleased, ChordIInvs, ChordInv
<1>2. Distinct(todo')
  BY KeysDistinct DEF ChordPressed, ChordReleased
<1> QED
  BY <1>1, <1>2 DEF ChordInv, Distinct

LEMMA UsersShrink ==
  ASSUME ChordIInvs, NEW b \in held, held' = held \ {b}, NEW k \in Keys
  PROVE  /\ Users(k)' \in Nat
         /\ Users(k) = IF k \in KeySet(Mapping[b].keys) THEN Users(k)' + 1 ELSE Users(k)'
<1>1. Users(k)' = Cardinality(With(held \ {b}, k)) /\ Users(k) = Cardinality(With(held, k))
  BY DEF Users, ChordsWith, With
<1>2. IsFiniteSet(held)
  BY CountTypes
<1>3. /\ IsFiniteSet(held \ {b})
      /\ Cardinality(With(held, k)) =
           IF k \in KeySet(Mapping[b].keys) THEN Cardinality(With(held \ {b}, k)) + 1
                                            ELSE Cardinality(With(held \ {b}, k))
  BY <1>2, WithShrinks
<1>4. Cardinality(With(held \ {b}, k)) \in Nat
  BY <1>3, WithCounts
<1> QED
  BY <1>1, <1>3, <1>4

\* The handler goes on to the next key.
LEMMA NextKeySets ==
  ASSUME ChordIInvs, main \in Writing, NextKey
  PROVE  /\ (\A i, j \in DOMAIN todo' : todo'[i] = todo'[j] => i = j)
         /\ main' \in {"ready", "count"}
         /\ Uncounted' = IF op = "press" THEN KeySet(todo) \ {Head(todo)} ELSE {}
         /\ Unreturned' = IF op = "release" THEN KeySet(todo) \ {Head(todo)} ELSE {}
<1>1. /\ todo' = Tail(todo) /\ op' = IF Len(todo) = 1 THEN "press" ELSE op
      /\ main' = IF Len(todo) = 1 THEN "ready" ELSE "count"
  BY DEF NextKey
<1>2. KeySet(todo') = KeySet(todo) \ {Head(todo)} /\ Distinct(todo')
  BY <1>1, CountTypes
<1>3. Len(todo) = 1 => KeySet(todo) \ {Head(todo)} = {}
  BY CountTypes
<1>4. KeySet(todo)' = KeySet(todo) \ {Head(todo)}
  BY <1>2 DEF KeySet
<1>5. op \in {"press", "release"}
  BY CountTypes
<1> QED
  BY <1>1, <1>2, <1>3, <1>4, <1>5 DEF Distinct, Uncounted, Unreturned, Counting

LEMMA HandlerChord ==
  ASSUME ChordIInvs, Count \/ Apply \/ Store \/ Forget \/ GiveBack
  PROVE  ChordInv'
<1>1. IsFiniteSet(held')
  BY DEF Count, Apply, Store, Forget, GiveBack, chordVars, ChordIInvs, ChordInv
<1>2. CASE Count \/ Forget
  BY <1>1, <1>2 DEF Count, Forget, ChordIInvs, ChordInv
<1>3. CASE Apply
  BY <1>1, <1>3, CountTypes DEF Apply, OthersHold, ChordIInvs, ChordInv
<1>4. CASE Store \/ GiveBack
  <2>1. main \in Writing /\ NextKey
    BY <1>4 DEF Store, GiveBack, Writing
  <2> QED
    BY <1>1, <2>1, NextKeySets DEF ChordInv
<1> QED
  BY <1>2, <1>3, <1>4

LEMMA ChordNext == ChordIInvs /\ [Next]_vars => ChordIInvs'
<1> SUFFICES ASSUME ChordIInvs, [Next]_vars PROVE ChordInv'
  BY NextIInv DEF ChordIInvs
<1> USE DEF mainVars
<1>1. CASE Main
  <2>1. CASE Acquire \/ LeaveLoop \/ Disconnect \/ MissingCount \/ CloseDevice \/ CloseUi
             \/ RunRaises \/ StopMacros \/ Join \/ MainCleansUp
    BY <2>1, ChordKept DEF Acquire, LeaveLoop, Disconnect, MissingCount, CloseDevice, CloseUi,
                           RunRaises, StopMacros, Join, MainCleansUp, Writing, chordVars
  <2>2. ASSUME NEW b \in Buttons, HandleKey(b) \/ QueueMacro(b) \/ StartWorker(b)
        PROVE  ChordInv'
    BY <2>2, ChordKept DEF HandleKey, QueueMacro, StartWorker, chordVars
  <2> QED
    BY <1>1, <2>1, <2>2, ChordBegins, HandlerChord DEF Main
<1>2. CASE SignalArrives \/ UNCHANGED vars
  BY <1>2, ChordKept DEF SignalArrives, vars, chordVars
<1>3. ASSUME NEW w \in Workers, Worker(w) PROVE ChordInv'
  <2>1. UNCHANGED <<mainVars, chordVars>>
    BY <1>3 DEF Worker, LoopTop, Get, PlayEnds, PlayStep, TapPress, TapBreaks, TapRelease,
                TapReleaseBreaks, CleanupBegins, StartsReleasing
  <2> QED
    BY <2>1, ChordKept DEF chordVars
<1>4. CASE Cleanup
  <2>1. CASE GiveRaises \/ ClearCounts
    <3>1. PICK raises \in BOOLEAN : Leaves(raises)
      BY <2>1 DEF GiveRaises, ClearCounts
    <3>2. held' = held /\ UNCHANGED <<op, todo, read>>
      BY <3>1 DEF Leaves
    <3>3. main' = main \/ main' \in {"close", "raised", "stop"}
      BY <3>1 DEF Leaves
    <3> QED
      BY <3>2, <3>3, ChordKept DEF Writing
  <2>2. CASE GiveChord \/ GiveRead \/ GiveStore \/ ClearPressed \/ ClearHeld
    <3>1. held' \subseteq held /\ UNCHANGED <<main, op, todo, read>>
      BY <2>2 DEF GiveChord, GiveRead, GiveStore, ClearPressed, ClearHeld, chordVars
    <3> QED
      BY <3>1, ChordKept
  <2> QED
    BY <1>4, <2>1, <2>2 DEF Cleanup
<1> QED
  BY <1>1, <1>2, <1>3, <1>4 DEF Next, Terminated

LEMMA InitChord == Init => ChordIInvs
<1> SUFFICES ASSUME Init PROVE ChordInv
  BY InitIInv DEF ChordIInvs
<1> QED
  BY FS_EmptySet DEF Init, ChordInv

-----------------------------------------------------------------------------------
(* While nothing has failed, the counts are exact                                  *)

ExactIInv == ChordIInvs /\ SoundInv /\ ExactInv

\* A failure is not undone, and run does not end twice.
LEMMA SoundBefore == IInv /\ [Next]_vars /\ Sound' => Sound
<1> SUFFICES ASSUME IInv, [Next]_vars, Sound' PROVE Sound
  OBVIOUS
<1>1. failures \in Nat /\ failures' = 0 /\ main' # "ended"
  BY BoundsAssumption DEF Sound, IInv, TypeOK, MacroType
<1>2. failures' = failures \/ failures' = failures + 1
  BY DEF Next, vars, Main, Worker, Cleanup, Terminated, Acquire, LeaveLoop, Disconnect, HandleKey, ChordPressed, ChordReleased, QueueMacro,
         StartWorker, Count, Apply, Store, Forget, GiveBack, MissingCount, StopMacros, Join,
         MainCleansUp, CloseDevice, CloseUi, RunRaises, SignalArrives, LoopTop, Get, PlayEnds, PlayStep,
         TapPress, TapBreaks, TapRelease, TapReleaseBreaks, CleanupBegins, GiveChord, GiveRead, GiveStore,
         GiveRaises, ClearPressed, ClearHeld, ClearCounts, Leaves
<1>3. main = "ended" => main' = main
  <2>1. main = "ended" => lock # MainThread
    BY DEF IInv, LockIsHeld
  <2> QED
    BY <2>1 DEF Next, vars, mainVars, Main, Worker, Cleanup, Terminated, Acquire, LeaveLoop, Disconnect, HandleKey, ChordPressed, ChordReleased, QueueMacro,
         StartWorker, Count, Apply, Store, Forget, GiveBack, MissingCount, StopMacros, Join,
         MainCleansUp, CloseDevice, CloseUi, RunRaises, SignalArrives, LoopTop, Get, PlayEnds, PlayStep,
         TapPress, TapBreaks, TapRelease, TapReleaseBreaks, CleanupBegins, GiveChord, GiveRead, GiveStore,
         GiveRaises, ClearPressed, ClearHeld, ClearCounts, Leaves
<1> QED
  BY <1>1, <1>2, <1>3 DEF Sound

\* Where nothing has failed, a worker that runs finds the device open and breaks no tap.
LEMMA SoundWorker ==
  ASSUME IInv, SoundInv, Sound, NEW w \in Workers, worker[w] # "none"
  PROVE  ui /\ worker[w] \notin {"brokenTap", "fail", "cleanup"}
<1>1. w <= started
  <2>1. w \in Nat /\ started \in Nat
    BY BoundsAssumption DEF Workers, IInv, TypeOK, MacroType
  <2> QED
    BY <2>1 DEF IInv, NotYetStarted
<1>2. started # 0
  BY <1>1 DEF Workers
<1> QED
  BY <1>2 DEF SoundInv, Sound, IInv, TypeOK, MainType

LEMMA SoundNext == IInv /\ SoundInv /\ [Next]_vars => SoundInv'
<1> SUFFICES ASSUME IInv, SoundInv, [Next]_vars PROVE SoundInv'
  OBVIOUS
<1> DEFINE Broken == {"brokenTap", "fail", "cleanup"}
<1>1. Sound' => Sound
  BY SoundBefore
<1>2. CASE \E b \in Buttons : StartWorker(b)
  <2>1. /\ main = "ready" /\ main' = main /\ ui' = ui /\ ui
        /\ worker' = [worker EXCEPT ![started + 1] = "top"]
    BY <1>2 DEF StartWorker, mainVars, IInv, HandlesOpen
  <2>2. \A x \in Workers : worker'[x] = worker[x] \/ worker'[x] = "top"
    BY <2>1 DEF IInv, TypeOK, MacroType
  <2> QED
    BY <1>1, <2>1, <2>2 DEF SoundInv
<1>3. CASE (Main /\ ~(\E b \in Buttons : StartWorker(b))) \/ SignalArrives \/ UNCHANGED vars
  <2>1. started' = started /\ worker' = worker
    BY <1>3 DEF vars, macroVars, workerVars, Main, Acquire, LeaveLoop, Disconnect, HandleKey,
                ChordPressed, ChordReleased, QueueMacro, Count, Apply, Store, Forget, GiveBack,
                MissingCount, StopMacros, Join, MainCleansUp, CloseDevice, CloseUi, RunRaises,
                SignalArrives
  <2>2. main' # "ended" /\ ~ui' => main # "ended" /\ ~ui
    BY <1>3 DEF vars, mainVars, Main, Acquire, LeaveLoop, Disconnect, HandleKey,
                ChordPressed, ChordReleased, QueueMacro, Count, Apply, Store, Forget, GiveBack,
                MissingCount, StopMacros, Join, MainCleansUp, CloseDevice, CloseUi, RunRaises,
                SignalArrives
  <2> QED
    BY <1>1, <2>1, <2>2 DEF SoundInv
<1>4. ASSUME NEW w \in Workers, Worker(w) PROVE SoundInv'
  <2>1. started' = started /\ main' = main /\ ui' = ui
    BY <1>4 DEF Worker, macroVars, mainVars, LoopTop, Get, PlayEnds, PlayStep, TapPress,
                TapBreaks, TapRelease, TapReleaseBreaks, CleanupBegins
  <2>2. ASSUME Sound' PROVE \A x \in Workers : worker'[x] \notin Broken
    <3>1. Sound
      BY <1>1, <2>2
    <3>2. \A x \in Workers : worker[x] # "none" => ui /\ worker[x] \notin Broken
      BY <3>1, SoundWorker
    <3>3. \A x \in Workers : worker[x] \notin Broken
      BY <3>1 DEF SoundInv
    <3>4. worker[w] # "none"
      BY <1>4 DEF Worker, Goes, LoopTop, Get, PlayEnds, PlayStep, TapPress, TapBreaks, TapRelease,
                  TapReleaseBreaks, CleanupBegins
    <3>5. ~TapBreaks(w) /\ ~TapReleaseBreaks(w)
      <4>1. failures = 0 /\ failures' = 0 /\ ui
        BY <2>2, <3>1, <3>2, <3>4 DEF Sound
      <4> QED
        BY <4>1 DEF TapBreaks, TapReleaseBreaks
    <3>6. ~CleanupBegins(w)
      BY <3>3 DEF CleanupBegins, Goes
    <3>7. \E to \in WorkerPlaces \ Broken : worker' = [worker EXCEPT ![w] = to]
      <4>1. CASE LoopTop(w) \/ Get(w) \/ PlayEnds(w) \/ PlayStep(w) \/ TapPress(w)
        BY <4>1 DEF LoopTop, Get, PlayEnds, PlayStep, TapPress, Goes, WorkerPlaces
      <4>2. CASE TapRelease(w)
        BY <3>2, <3>3, <3>4, <4>2 DEF TapRelease, WorkerPlaces
      <4> QED
        BY <1>4, <3>5, <3>6, <4>1, <4>2 DEF Worker
    <3> QED
      BY <3>3, <3>7 DEF IInv, TypeOK, MacroType
  <2> QED
    BY <2>1, <2>2 DEF SoundInv
<1>5. CASE Cleanup
  <2>1. started' = started /\ ui' = ui /\ (main' # "ended" => main # "ended")
    <3>1. main = "ended" => lock # MainThread
      BY DEF IInv, LockIsHeld
    <3> QED
      BY <1>5, <3>1 DEF Cleanup, macroVars, mainVars, GiveChord, GiveRead, GiveStore, GiveRaises,
                        ClearPressed, ClearHeld, ClearCounts, Leaves
  <2>2. ASSUME Sound' PROVE \A x \in Workers : worker'[x] \notin Broken
    <3>1. \A x \in Workers : worker[x] \notin Broken
      BY <1>1, <2>2 DEF SoundInv
    <3>2. lock = MainThread
      <4>1. phase # "idle"
        BY <1>5 DEF Cleanup, GiveChord, GiveRead, GiveStore, GiveRaises, ClearPressed, ClearHeld,
                    ClearCounts
      <4> QED
        BY <3>1, <4>1 DEF IInv, LockIsHeld, TypeOK, OutputType
    <3>3. worker' = worker
      BY <1>5, <3>2 DEF Cleanup, GiveChord, GiveRead, GiveStore, GiveRaises, ClearPressed,
                        ClearHeld, ClearCounts, Leaves, workerVars
    <3> QED
      BY <3>1, <3>3
  <2> QED
    BY <2>1, <2>2 DEF SoundInv
<1> QED
  BY <1>2, <1>3, <1>4, <1>5 DEF Next, Terminated

\* What is down is not touched for the keys of chords, and neither is what they count.
LEMMA ExactKept ==
  ASSUME ExactIInv, [Next]_vars, UNCHANGED chordVars,
         \/ UNCHANGED <<main, op, todo, read>>
         \/ main \in Counted \ Writing /\ main' \in Counted \ Writing,
         \A k \in Keys : KeyButtons(k) = {} =>
           (k \in (down \ TappedKeys)' <=> k \in down \ TappedKeys)
  PROVE  ExactInv'
<1> SUFFICES ASSUME Sound', main' \in Counted, NEW k \in Keys PROVE Exact(k)'
  BY DEF ExactInv
<1>1. Exact(k)
  BY SoundBefore DEF ExactIInv, ChordIInvs, ExactInv
<1>2. Users(k)' = Users(k) /\ counts'[k] = counts[k]
  BY DEF chordVars, Users, ChordsWith
<1>3. KeyButtons(k)' = KeyButtons(k)
  BY DEF KeyButtons
<1>4. Uncounted' = Uncounted /\ Unreturned' = Unreturned
  BY DEF Uncounted, Unreturned, Counting, Writing, KeySet
<1>5. (k \in (down \ TappedKeys)' <=> k \in down \ TappedKeys) \/ KeyButtons(k) # {}
  OBVIOUS
<1> QED
  BY <1>1, <1>2, <1>3, <1>4, <1>5 DEF Exact, Writing

\* Nobody taps while the lock is free, and what is tapped is what the lock's owner taps.
LEMMA TappedByOwner ==
  ASSUME IInv, SoundInv, Sound
  PROVE  /\ lock = NoOne => TappedKeys = {}
         /\ \A w \in Workers : lock = w => TappedKeys = tapped[w]
         /\ \A x \in Workers : tapped[x] # {} => lock = x
<1>1. \A x \in Workers : tapped[x] # {} => lock = x
  BY DEF IInv, LockIsHeld, SoundInv
<1> QED
  BY <1>1, Owners DEF TappedKeys

\* A tap presses only keys that are up, and releases them all.
LEMMA TapExact ==
  ASSUME ExactIInv, NEW w \in Workers,
         TapPress(w) \/ TapBreaks(w) \/ TapRelease(w) \/ TapReleaseBreaks(w)
  PROVE  ExactInv'
<1> SUFFICES ASSUME Sound' PROVE ExactInv'
  BY DEF ExactInv
<1>1. IInv /\ SoundInv /\ [Next]_vars /\ Sound
  BY SoundBefore DEF ExactIInv, ChordIInvs, Next, Worker
<1>2. ui /\ worker[w] \notin {"brokenTap", "fail", "cleanup"}
  <2>1. worker[w] # "none"
    BY DEF TapPress, TapBreaks, TapRelease, TapReleaseBreaks, Goes
  <2> QED
    BY <1>1, <2>1, SoundWorker
<1>3. ~TapBreaks(w) /\ ~TapReleaseBreaks(w)
  BY <1>1, <1>2 DEF TapBreaks, TapReleaseBreaks, Sound
<1>4. pressed = down /\ tapped \in [Workers -> SUBSET Keys]
  BY <1>1, <1>2 DEF IInv, PressedIsDown, TypeOK, MacroType
<1>5. (down \ TappedKeys)' = down \ TappedKeys
  <2>1. CASE TapPress(w)
    <3>1. PICK K \in SUBSET Keys :
            /\ K \cap pressed = {} /\ down' = down \cup K
            /\ tapped' = [tapped EXCEPT ![w] = K]
      <4>1. Head(steps[w]) \in Seq(Keys)
        BY <1>1, <2>1, StepKeys DEF TapPress, Goes
      <4>2. KeySet(Head(steps[w])) \ pressed \subseteq Keys
        BY <4>1, KeySetType
      <4> QED
        BY <2>1, <4>2 DEF TapPress, Press
    <3>2. TappedKeys = {} /\ lock = NoOne
      BY <1>1, <2>1, TappedByOwner DEF TapPress
    <3>3. TappedKeys' = K
      BY <1>4, <3>1, <3>2 DEF TappedKeys
    <3> QED
      BY <1>4, <3>1, <3>2, <3>3
  <2>2. CASE TapRelease(w)
    <3>1. lock = w
      BY <1>1, <2>2 DEF TapRelease, IInv, LockIsHeld, Tapping
    <3>2. TappedKeys = tapped[w]
      BY <1>1, <3>1, TappedByOwner
    <3>3. down' = down \ tapped[w] /\ tapped' = [tapped EXCEPT ![w] = {}]
      BY <1>2, <2>2 DEF TapRelease, Release
    <3>4. TappedKeys' = {}
      <4>1. \A x \in Workers : x # w => tapped[x] = {}
        BY <1>1, <3>1, TappedByOwner
      <4>2. \A x \in Workers : tapped'[x] = {}
        BY <1>4, <3>3, <4>1
      <4> QED
        BY <4>2 DEF TappedKeys
    <3> QED
      BY <3>2, <3>3, <3>4
  <2> QED
    BY <1>3, <2>1, <2>2
<1>6. UNCHANGED chordVars /\ UNCHANGED <<main, op, todo, read>>
  BY DEF TapPress, TapBreaks, TapRelease, TapReleaseBreaks, mainVars
<1> QED
  BY <1>1, <1>5, <1>6, ExactKept

\* An event of another thread's, or of a button that has no chord.
LEMMA QuietExact ==
  ASSUME ExactIInv, [Next]_vars,
         \/ Acquire \/ CloseDevice \/ SignalArrives \/ UNCHANGED vars
         \/ \E b \in Buttons : HandleKey(b) \/ QueueMacro(b) \/ StartWorker(b)
         \/ \E w \in Workers : LoopTop(w) \/ Get(w) \/ PlayEnds(w) \/ PlayStep(w)
  PROVE  ExactInv'
<1>1. /\ UNCHANGED <<chordVars, tapped>>
      /\ \/ UNCHANGED <<main, op, todo, read>>
         \/ main \in Counted \ Writing /\ main' \in Counted \ Writing
  BY DEF Acquire, CloseDevice, SignalArrives, vars, HandleKey, QueueMacro, StartWorker, LoopTop,
         Get, PlayEnds, PlayStep, Counted, Writing, mainVars, workerVars
<1>2. TappedKeys' = TappedKeys
  BY <1>1 DEF TappedKeys
<1>3. ASSUME NEW k \in Keys, KeyButtons(k) = {} PROVE k \in down' <=> k \in down
  <2>1. CASE \E b \in Buttons : HandleKey(b)
    <3>1. PICK b \in Buttons : HandleKey(b)
      BY <2>1
    <3>2. k \notin KeySet(Mapping[b].keys)
      BY <1>3, <3>1 DEF HandleKey, KeyButtons
    <3> QED
      BY <3>1, <3>2 DEF HandleKey, Press, Release
  <2>2. CASE ~(\E b \in Buttons : HandleKey(b))
    <3>1. down' = down
      BY <2>2 DEF Acquire, CloseDevice, SignalArrives, vars, QueueMacro, StartWorker, LoopTop, Get, PlayEnds, PlayStep, keyVars
    <3> QED
      BY <3>1
  <2> QED
    BY <2>1, <2>2
<1> QED
  BY <1>1, <1>2, <1>3, ExactKept

\* A step that leaves the handlers, or one of the cleanup before its end.
LEMMA UncountedExact == ASSUME main' \notin Counted PROVE ExactInv'
BY DEF ExactInv, Counted, Writing

\* What the handlers rely on.
LEMMA ExactFacts ==
  ASSUME ExactIInv, [Next]_vars, Sound', main \in Counted
  PROVE  /\ Sound /\ IInv /\ SoundInv /\ ChordIInvs
         /\ \A k \in Keys : Exact(k) /\ Users(k) \in Nat /\ counts[k] \in Nat
         /\ main \in Writing => Head(todo) \in Keys /\ Head(todo) \in KeySet(todo)
         /\ op \in {"press", "release"} /\ read \in Nat
<1>1. Sound /\ IInv /\ SoundInv /\ ChordIInvs
  BY SoundBefore DEF ExactIInv, ChordIInvs
<1>2. \A k \in Keys : Exact(k)
  BY <1>1 DEF ExactIInv, ExactInv
<1> QED
  BY <1>1, <1>2, CountTypes

\* A chord's button: nothing is counted yet.
LEMMA ChordExact ==
  ASSUME ExactIInv, NEW b \in Buttons, ChordPressed(b) \/ ChordReleased(b)
  PROVE  ExactInv'
<1> SUFFICES ASSUME Sound', NEW k \in Keys PROVE Exact(k)'
  BY DEF ExactInv
<1> DEFINE K == KeySet(Mapping[b].keys)
<1>1. /\ main = "ready" /\ main' = "count" /\ counts' = counts /\ down' = down
      /\ tapped' = tapped
  BY DEF ChordPressed, ChordReleased, keyVars, workerVars
<1>2. [Next]_vars
  BY DEF Next, Main
<1>3. /\ ChordIInvs /\ Exact(k) /\ Users(k) \in Nat
      /\ Uncounted = {} /\ Unreturned = {}
  BY <1>1, <1>2, ExactFacts DEF Counted, Uncounted, Unreturned, Counting
<1>4. counts[k] = Users(k) /\ (KeyButtons(k) = {} => (k \in down \ TappedKeys <=> counts[k] > 0))
  BY <1>1, <1>3 DEF Exact
<1>5. (down \ TappedKeys)' = down \ TappedKeys /\ KeyButtons(k)' = KeyButtons(k)
  BY <1>1 DEF TappedKeys, KeyButtons
<1>6. CASE ChordPressed(b)
  <2>1. /\ b \notin held /\ held' = held \cup {b}
        /\ Uncounted' = K /\ Unreturned' = {}
    BY <1>6 DEF ChordPressed, Uncounted, Unreturned, Counting
  <2>2. Users(k)' = IF k \in K THEN Users(k) + 1 ELSE Users(k)
    BY <1>3, <2>1, CountTypes, WithGrows, UsersIsWith DEF Users, ChordsWith, With
  <2> HIDE DEF K
  <2> QED
    BY <1>1, <1>3, <1>4, <1>5, <2>1, <2>2 DEF Exact
<1>7. CASE ChordReleased(b)
  <2>1. /\ b \in held /\ held' = held \ {b}
        /\ Uncounted' = {} /\ Unreturned' = K
    <3>1. KeySet(todo') = K /\ b \in held /\ held' = held \ {b} /\ op' = "release"
      BY <1>7, KeysDistinct DEF ChordReleased
    <3> QED
      BY <1>1, <3>1 DEF Uncounted, Unreturned, Counting, KeySet
  <2>2. Users(k)' \in Nat /\ Users(k) = IF k \in K THEN Users(k)' + 1 ELSE Users(k)'
    BY <1>3, <2>1, UsersShrink
  <2> HIDE DEF K
  <2> QED
    BY <1>1, <1>3, <1>4, <1>5, <2>1, <2>2 DEF Exact
<1> QED
  BY <1>6, <1>7

\* The count is there when it is read: a release never misses it.
LEMMA CountExact ==
  ASSUME ExactIInv, Count
  PROVE  ExactInv'
<1> SUFFICES ASSUME Sound', NEW k \in Keys PROVE Exact(k)'
  BY DEF ExactInv
<1> DEFINE h == Head(todo)
<1>1. [Next]_vars
  BY DEF Next, Main
<1>2. /\ main = "count" /\ main' = "apply" /\ op' = op /\ todo' = todo
      /\ counts' = counts /\ held' = held /\ down' = down /\ tapped' = tapped
      /\ read' = IF op = "press" THEN counts[h] ELSE counts[h] - 1
  BY DEF Count, chordVars, keyVars, workerVars
<1>3. /\ h \in Keys /\ Exact(k) /\ Exact(h) /\ Users(k) \in Nat /\ Users(h) \in Nat
      /\ counts[k] \in Nat /\ op \in {"press", "release"}
  BY <1>1, <1>2, ExactFacts DEF Counted, Writing
<1>4. Uncounted' = Uncounted /\ Unreturned' = Unreturned
  BY <1>2 DEF Uncounted, Unreturned, Counting, KeySet
<1>5. /\ Users(k)' = Users(k) /\ KeyButtons(k)' = KeyButtons(k)
      /\ (down \ TappedKeys)' = down \ TappedKeys
  BY <1>2 DEF Users, ChordsWith, KeyButtons, TappedKeys
<1> QED
  BY <1>2, <1>3, <1>4, <1>5 DEF Exact

\* The count read is still the count when it is stored, and the key is pressed with the
\* first count and released with the last.
LEMMA StoreExact ==
  ASSUME ExactIInv, Apply \/ Store \/ Forget \/ GiveBack
  PROVE  ExactInv'
<1> SUFFICES ASSUME Sound', NEW k \in Keys PROVE Exact(k)'
  BY DEF ExactInv
<1> DEFINE h == Head(todo)
<1>1. [Next]_vars /\ main \in Writing /\ main \in Counted
  BY DEF Next, Main, Apply, Store, Forget, GiveBack, Writing, Counted
<1>2. /\ h \in Keys /\ Exact(k) /\ Exact(h) /\ Users(k) \in Nat /\ Users(h) \in Nat
      /\ counts[k] \in Nat /\ op \in {"press", "release"} /\ read \in Nat
      /\ h \in KeySet(todo) /\ ChordIInvs /\ IInv /\ SoundInv /\ Sound
  BY <1>1, ExactFacts
<1>3. /\ Users(k)' = Users(k) /\ KeyButtons(k)' = KeyButtons(k)
      /\ TappedKeys' = TappedKeys /\ (lock = NoOne => TappedKeys = {})
  <2>1. held' = held /\ tapped' = tapped
    BY DEF Apply, Store, Forget, GiveBack, chordVars, workerVars
  <2> QED
    BY <1>2, <2>1, TappedByOwner DEF Users, ChordsWith, KeyButtons, TappedKeys
<1>4. counts \in [Keys -> Nat]
  BY <1>2, CountTypes
<1>5. CASE Apply
  <2>1. /\ main = "apply" /\ main' = "store" /\ op = "press" /\ op' = op /\ todo' = todo
        /\ read = 0 /\ read' = read /\ counts' = counts
        /\ lock = NoOne /\ down' = down \cup {h}
    BY <1>2, <1>5 DEF Apply, OthersHold, chordVars, Press
  <2>2. Uncounted' = Uncounted /\ Unreturned' = Unreturned
    BY <2>1 DEF Uncounted, Unreturned, Counting, KeySet
  <2>3. CASE k = h
    BY <1>2, <1>3, <2>1, <2>2, <2>3 DEF Exact
  <2>4. CASE k # h
    <3>1. k \in down' <=> k \in down
      BY <2>1, <2>4
    <3> QED
      BY <1>2, <1>3, <2>1, <2>2, <2>4, <3>1 DEF Exact
  <2> QED
    BY <2>3, <2>4
<1>6. CASE Store
  <2>1. /\ NextKey /\ down' = down
        /\ \/ main = "store" /\ op = "press" /\ read = 0
           \/ main = "apply" /\ read > 0
        /\ counts' = [counts EXCEPT ![h] = IF op = "press" THEN read + 1 ELSE read]
    BY <1>2, <1>6 DEF Store, StoredCount, OthersHold, keyVars, ChordIInvs, ChordInv
  <2>2. /\ Uncounted = IF op = "press" THEN KeySet(todo) ELSE {}
        /\ Unreturned = IF op = "release" THEN KeySet(todo) ELSE {}
        /\ Uncounted' = Uncounted \ {h} /\ Unreturned' = Unreturned \ {h}
        /\ main' \in {"ready", "count"}
    BY <1>1, <1>2, <2>1, NextKeySets DEF Uncounted, Unreturned, Counting
  <2>3. CASE k = h
    <3>1. counts'[k] = IF op = "press" THEN read + 1 ELSE read
      BY <1>4, <2>1, <2>3
    <3>2. read = IF op = "press" THEN counts[k] ELSE counts[k] - 1
      BY <1>2, <2>1, <2>3 DEF Exact
    <3>3. counts'[k] = Users(k)
      BY <1>2, <2>2, <2>3, <3>1, <3>2 DEF Exact
    <3>4. counts'[k] > 0
      BY <1>2, <2>1, <3>1
    <3>5. KeyButtons(k) = {} => k \in down \ TappedKeys
      BY <1>2, <2>1, <2>3, <3>2 DEF Exact
    <3> QED
      BY <1>3, <2>1, <2>2, <2>3, <3>3, <3>4, <3>5 DEF Exact
  <2>4. CASE k # h
    <3>1. counts'[k] = counts[k]
      BY <1>4, <2>1, <2>4
    <3> QED
      BY <1>2, <1>3, <2>1, <2>2, <2>4, <3>1 DEF Exact
  <2> QED
    BY <2>3, <2>4
<1>7. CASE Forget
  <2>1. /\ main = "apply" /\ main' = "emit" /\ op = "release" /\ op' = op /\ todo' = todo
        /\ counts' = [counts EXCEPT ![h] = read] /\ read = 0 /\ down' = down
    BY <1>2, <1>7 DEF Forget, StoredCount, OthersHold, keyVars
  <2>2. /\ Uncounted = {} /\ Uncounted' = {} /\ Unreturned = KeySet(todo)
        /\ Unreturned' = KeySet(todo) \ {h}
    <3>1. KeySet(Tail(todo)) = KeySet(todo) \ {h}
      BY <1>1, <1>2, CountTypes
    <3> QED
      BY <2>1, <3>1 DEF Uncounted, Unreturned, Counting, KeySet
  <2>3. CASE k = h
    BY <1>2, <1>3, <1>4, <2>1, <2>2, <2>3 DEF Exact
  <2>4. CASE k # h
    <3>1. counts'[k] = counts[k]
      BY <1>4, <2>1, <2>4
    <3> QED
      BY <1>2, <1>3, <2>1, <2>2, <2>4, <3>1 DEF Exact
  <2> QED
    BY <2>3, <2>4
<1>8. CASE GiveBack
  <2>1. /\ main = "emit" /\ NextKey /\ counts' = counts /\ op = "release"
        /\ lock = NoOne /\ down' = down \ {h}
    BY <1>2, <1>8 DEF GiveBack, chordVars, Release, ChordIInvs, ChordInv
  <2>2. /\ Uncounted = {} /\ Unreturned = KeySet(todo) \ {h}
        /\ Uncounted' = {} /\ Unreturned' = Unreturned /\ main' \in {"ready", "count"}
    BY <1>1, <1>2, <2>1, NextKeySets, CountTypes DEF Uncounted, Unreturned, Counting
  <2> QED
    BY <1>2, <1>3, <2>1, <2>2 DEF Exact
<1> QED
  BY <1>5, <1>6, <1>7, <1>8

\* The cleanup: when it is over nothing is counted and nothing is down.
LEMMA CleanupExact ==
  ASSUME ExactIInv, Cleanup
  PROVE  ExactInv'
<1> SUFFICES ASSUME Sound', main' \in Counted, NEW k \in Keys PROVE Exact(k)'
  BY DEF ExactInv
<1>1. Sound /\ IInv /\ SoundInv
  BY SoundBefore DEF ExactIInv, ChordIInvs, Next
<1>2. phase # "idle"
  BY DEF Cleanup, GiveChord, GiveRead, GiveStore, GiveRaises, ClearPressed, ClearHeld, ClearCounts
<1>3. lock = MainThread /\ main = "cleanup"
  BY <1>1, <1>2 DEF SoundInv, IInv, LockIsHeld, TypeOK, OutputType
<1>4. ClearCounts
  <2>1. ~(GiveChord \/ GiveRead \/ GiveStore \/ ClearPressed \/ ClearHeld)
    BY <1>3 DEF GiveChord, GiveRead, GiveStore, ClearPressed, ClearHeld, mainVars, Counted, Writing
  <2>2. ~GiveRaises
    BY <1>3 DEF GiveRaises, Leaves, Counted, Writing
  <2> QED
    BY <2>1, <2>2 DEF Cleanup
<1>5. main' = "close" /\ counts'[k] = 0 /\ held' = held /\ down' = down
  BY <1>3, <1>4 DEF ClearCounts, Leaves, keyVars
<1>6. held = {} /\ down = {}
  BY <1>1, <1>3, <1>4 DEF ClearCounts, IInv, Cleared, PressedIsDown, TypeOK, MainType
<1>7. Users(k)' = 0
  BY <1>5, <1>6, WithCounts, FS_EmptySet DEF Users, ChordsWith, With
<1>8. Uncounted' = {} /\ Unreturned' = {}
  BY <1>5 DEF Uncounted, Unreturned, Counting
<1> QED
  BY <1>5, <1>6, <1>7, <1>8 DEF Exact

LEMMA ExactNext == ExactIInv /\ [Next]_vars => ExactIInv'
<1> SUFFICES ASSUME ExactIInv, [Next]_vars PROVE ExactInv'
  BY ChordNext, SoundNext DEF ExactIInv, ChordIInvs
<1>1. CASE Main
  <2>1. CASE LeaveLoop \/ Disconnect \/ MissingCount \/ StopMacros \/ Join \/ MainCleansUp \/ CloseUi
             \/ RunRaises
    <3>1. main' \notin Counted
      BY <2>1 DEF LeaveLoop, Disconnect, MissingCount, StopMacros, Join, MainCleansUp, CloseUi,
                  RunRaises, Counted, Writing
    <3> QED
      BY <3>1, UncountedExact
  <2> QED
    BY <1>1, <2>1, QuietExact, ChordExact, CountExact, StoreExact DEF Main
<1>2. CASE SignalArrives \/ UNCHANGED vars
  BY <1>2, QuietExact
<1>3. ASSUME NEW w \in Workers, Worker(w) PROVE ExactInv'
  <2>1. CASE CleanupBegins(w)
    <3>1. ~Sound
      BY <2>1 DEF CleanupBegins, Goes, ExactIInv, SoundInv
    <3> QED
      BY <3>1, SoundBefore DEF ExactInv, ExactIInv, ChordIInvs
  <2> QED
    BY <1>3, <2>1, QuietExact, TapExact DEF Worker
<1>4. CASE Cleanup
  BY <1>4, CleanupExact
<1> QED
  BY <1>1, <1>2, <1>3, <1>4 DEF Next, Terminated

LEMMA InitExact == Init => ExactIInv
<1> SUFFICES ASSUME Init PROVE SoundInv /\ ExactInv
  BY InitChord DEF ExactIInv
<1>1. \A k \in Keys : Users(k) = 0 /\ counts[k] = 0
  BY WithCounts, FS_EmptySet DEF Init, Users, ChordsWith, With
<1>2. main = "acquire" /\ down = {} /\ Uncounted = {} /\ Unreturned = {}
  BY DEF Init, Uncounted, Unreturned, Counting
<1>3. SoundInv
  BY DEF Init, SoundInv
<1> QED
  BY <1>1, <1>2, <1>3 DEF ExactInv, Exact

\* Between two events, while nothing has failed, a key that only chords use is down
\* exactly while a chord with it is held, taps apart: for any mapping, any number of
\* chords that share keys, and any number of workers that play any macro.
THEOREM RemapperChordsOwnTheirKeys == Spec => []ChordsOwnTheirKeys
<1>1. ExactIInv => ChordsOwnTheirKeys
  <2> SUFFICES ASSUME ExactIInv, main = "ready", failures = 0, NEW k \in Keys,
                      KeyButtons(k) = {}
               PROVE  k \in down \ TappedKeys <=> ChordsWith(k) # {}
    BY DEF ChordsOwnTheirKeys
  <2>1. Uncounted = {} /\ Unreturned = {} /\ Sound /\ main \in Counted
    BY DEF Uncounted, Unreturned, Counting, Counted, Sound
  <2>2. Exact(k)
    BY <2>1 DEF ExactIInv, ExactInv
  <2>3. Users(k) \in Nat /\ (Users(k) = 0 <=> ChordsWith(k) = {})
    BY CountTypes DEF ExactIInv
  <2> QED
    BY <2>1, <2>2, <2>3 DEF Exact
<1> QED
  BY <1>1, InitExact, ExactNext, PTL DEF Spec

================================================================================
