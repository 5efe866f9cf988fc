----------------------------- MODULE HidppSession -----------------------------
(* One HID++ session (hid_session.py) and the driver above it (hidpp_driver.py): threads  *)
(* take turns to ask the mouse, one thread reads its answers and its events. An answer is   *)
(* known by the feature's index and the function asked, and by the software's number,        *)
(* which every process of this program shares. The mouse answers in order, late or never.    *)
EXTENDS Integers, Sequences, SequencesExt, Functions

CONSTANTS
  Features,    \* the features that are looked up, in order
  Index,       \* where this mouse has each of them, 0 for one it lacks
  Stages,      \* the DPI of each of its stages
  Rates,       \* the polling rates
  MaxCommands, MaxPresses, MaxDisturbances, \* bounds on commands, button presses, mishaps
  None

VARIABLES
  dpi, stage, rate, plugged, \* the mouse
  wire,        \* requests on their way to it
  input,       \* its reports, not yet read
  features,    \* the indexes that were found
  call,        \* what each thread is doing, and how far it is
  waiter,      \* whose answer is awaited
  stopped, closed, reader, \* the session
  queue,       \* stages that the watcher was told
  shown,       \* what the watcher told the user last
  outcome,     \* of the last command
  since,       \* what the mouse was set to since the last command was written
  disturbances, \* requests that timed out, and requests of other processes
  commands, presses \* so far

vars == <<dpi, stage, rate, plugged, wire, input, features, call, waiter, stopped, closed, reader,
          queue, shown, outcome, since, disturbances, commands, presses>>

mouseVars == <<dpi, stage, rate, plugged>>
bounds == <<commands, presses>>

Threads == {"caller", "watcher"}
Root == 0
Lookup == 0
GetDpi == 2
SetDpi == 3
GetRate == 1
SetRate == 2
StageEvent == 1

-----------------------------------------------------------------------------
(* What a thread asks                                                         *)

Request(index, function, value) == [index |-> index, function |-> function, value |-> value]

Idle == [op |-> "none", at |-> "idle", step |-> 0, value |-> None]
Begin(op, value) == [op |-> op, at |-> "call", step |-> 1, value |-> value]

\* The request of a call's step: a feature to look up, a write and the reading that verifies it.
Asked(c) ==
  CASE c.op = "connect" -> Request(Root, Lookup, Features[c.step])
    [] c.op = "watch" -> Request(features["dpi"], GetDpi, 0)
    [] c.op = "set" -> IF c.step = 1 THEN Request(features["dpi"], SetDpi, c.value)
                       ELSE Request(features["dpi"], GetDpi, 0)
    [] c.op = "rate" -> IF c.step = 1 THEN Request(features["rate"], SetRate, c.value)
                        ELSE Request(features["rate"], GetRate, 0)

Connected == call["caller"].op # "connect" /\ features["dpi"] # None
Busy(t) == call[t].at # "idle"

-----------------------------------------------------------------------------
(* Requests (HidSession.request)                                              *)

\* The thread's call goes on with an answer, or with None when the request failed.
Continue(t, answer) ==
  LET c == call[t]
      Next1 == [c EXCEPT !.at = "call", !.step = @ + 1]
      Becomes(n) == call' = [call EXCEPT ![t] = n]
      End(o) == Becomes(Idle) /\ outcome' = o /\ UNCHANGED <<features, shown, queue>>
  IN CASE c.op = "connect" ->
            /\ features' = IF answer \in {None, 0} THEN features
                           ELSE [features EXCEPT ![Features[c.step]] = answer]
            /\ Becomes(IF c.step < Len(Features) THEN Next1 ELSE Idle)
            /\ UNCHANGED <<outcome, shown, queue>>
       [] c.op = "watch" ->
            /\ Becomes(IF answer = None THEN [Idle EXCEPT !.at = "ended"] ELSE Idle)
            /\ shown' = IF answer = None THEN shown ELSE <<answer, c.value>>
            /\ UNCHANGED <<features, outcome, queue>>
       [] c.op \in {"set", "rate"} /\ answer = None -> End([c EXCEPT !.at = "failed"])
       [] c.op \in {"set", "rate"} /\ answer # None /\ c.step = 1 ->
            Becomes(Next1) /\ UNCHANGED <<features, outcome, shown, queue>>
       [] OTHER -> End([c EXCEPT !.at = IF answer = c.value THEN "confirmed" ELSE "differs"])

\* One request at a time; a session that has stopped takes none.
Register(t) ==
  /\ call[t].at = "call" /\ waiter = None
  /\ IF stopped THEN Continue(t, None) /\ UNCHANGED waiter
     ELSE /\ waiter' = [by |-> t, request |-> Asked(call[t]), answer |-> None, error |-> FALSE]
          /\ call' = [call EXCEPT ![t].at = "registered"]
          /\ UNCHANGED <<features, outcome, shown, queue>>
  /\ UNCHANGED <<mouseVars, wire, input, stopped, closed, reader, since, disturbances, bounds>>

Write(t) ==
  /\ call[t].at = "registered"
  /\ IF closed \/ ~plugged
     THEN waiter' = None /\ Continue(t, None) /\ UNCHANGED <<wire, since>>
     ELSE /\ wire' = Append(wire, waiter.request)
          /\ call' = [call EXCEPT ![t].at = "waiting"]
          /\ since' = IF call[t].op \in {"set", "rate"} /\ call[t].step = 1 THEN {} ELSE since
          /\ UNCHANGED <<waiter, features, outcome, shown, queue>>
  /\ UNCHANGED <<mouseVars, input, stopped, closed, reader, disturbances, bounds>>

Return(t) ==
  /\ call[t].at = "waiting" /\ (waiter.error \/ waiter.answer # None)
  /\ waiter' = None
  /\ Continue(t, IF waiter.error THEN None ELSE waiter.answer)
  /\ UNCHANGED <<mouseVars, wire, input, stopped, closed, reader, since, disturbances, bounds>>

\* The answer may still come.
TimeOut(t) ==
  /\ call[t].at = "waiting" /\ ~waiter.error /\ waiter.answer = None
  /\ disturbances < MaxDisturbances /\ disturbances' = disturbances + 1
  /\ waiter' = None
  /\ Continue(t, None)
  /\ UNCHANGED <<mouseVars, wire, input, stopped, closed, reader, since, bounds>>

-----------------------------------------------------------------------------
(* The reader (HidSession._read_loop)                                         *)

\* Faulty variant: an answer is known by its feature alone.
AnswersOfFeature(report, request) == report.kind = "reply" /\ report.index = request.index

Answers(report, request) ==
  report.kind = "reply" /\ report.index = request.index /\ report.function = request.function

Refuses(report, request) ==
  report.kind = "error" /\ report.index = request.index /\ report.function = request.function

\* A report goes to the thread that waits for it, any other to the watcher's callback, which
\* keeps the events of the mouse's profiles.
Dispatch(report) ==
  IF waiter # None /\ Refuses(report, waiter.request)
  THEN waiter' = [waiter EXCEPT !.error = TRUE] /\ UNCHANGED queue
  ELSE IF waiter # None /\ Answers(report, waiter.request)
  THEN waiter' = [waiter EXCEPT !.answer = report.value] /\ UNCHANGED queue
  ELSE /\ queue' = IF report.kind = "event" /\ report.index = features["profiles"]
                      /\ call["watcher"].at \notin {"off", "ended"}
                   THEN Append(queue, report.value) ELSE queue
       /\ UNCHANGED waiter

Read ==
  /\ reader = "reading" /\ ~stopped /\ input # <<>>
  /\ Dispatch(Head(input)) /\ input' = Tail(input)
  /\ UNCHANGED <<mouseVars, wire, features, call, stopped, closed, reader, shown, outcome, since,
                 disturbances, bounds>>

\* The session was stopped or the mouse is gone: the thread that waits is woken.
ReaderEnds ==
  /\ reader = "reading" /\ (stopped \/ ~plugged)
  /\ reader' = "ended" /\ stopped' = TRUE /\ closed' = TRUE
  /\ waiter' = IF waiter = None THEN None ELSE [waiter EXCEPT !.error = TRUE]
  /\ UNCHANGED <<mouseVars, wire, input, features, call, queue, shown, outcome, since, disturbances,
                 bounds>>

\* The supervisor drops this backend, at any time.
Close ==
  /\ ~stopped /\ Connected
  /\ stopped' = TRUE /\ closed' = TRUE
  /\ UNCHANGED <<mouseVars, wire, input, features, call, waiter, reader, queue, shown, outcome,
                 since, disturbances, bounds>>

-----------------------------------------------------------------------------
(* The driver (Hidpp20Driver)                                                 *)

Init ==
  /\ stage = 1 /\ dpi = Stages[1] /\ rate \in Rates /\ plugged = TRUE
  /\ wire = <<>> /\ input = <<>>
  /\ features = [f \in {Features[i] : i \in DOMAIN Features} |-> None]
  /\ call = [caller |-> Begin("connect", None), watcher |-> [Idle EXCEPT !.at = "off"]]
  /\ waiter = None /\ stopped = FALSE /\ closed = FALSE /\ reader = "reading"
  /\ queue = <<>> /\ shown = None /\ outcome = None /\ since = {}
  /\ disturbances = 0 /\ commands = 0 /\ presses = 0

Command(op, value) ==
  /\ Connected /\ ~Busy("caller") /\ commands < MaxCommands
  /\ op = "rate" => features["rate"] # None
  /\ call' = [call EXCEPT !["caller"] = Begin(op, value)]
  /\ outcome' = None /\ commands' = commands + 1
  /\ UNCHANGED <<mouseVars, wire, input, features, waiter, stopped, closed, reader, queue, shown,
                 since, disturbances, presses>>

\* The watcher subscribes, if the profiles tell of stages.
Watch ==
  /\ Connected /\ features["profiles"] # None /\ call["watcher"].at = "off"
  /\ call' = [call EXCEPT !["watcher"] = Idle]
  /\ UNCHANGED <<mouseVars, wire, input, features, waiter, stopped, closed, reader, queue, shown,
                 outcome, since, disturbances, bounds>>

\* A stage that was told only starts a reading: the mouse is asked for its DPI.
TakeStage ==
  /\ call["watcher"].at = "idle"
  /\ IF stopped
     THEN call' = [call EXCEPT !["watcher"].at = "ended"] /\ UNCHANGED queue
     ELSE /\ queue # <<>> /\ queue' = Tail(queue)
          /\ call' = [call EXCEPT !["watcher"] = Begin("watch", Head(queue))]
  /\ UNCHANGED <<mouseVars, wire, input, features, waiter, stopped, closed, reader, shown,
                 outcome, since, disturbances, bounds>>

-----------------------------------------------------------------------------
(* The mouse, its user, and other processes of this program                    *)

Reply(request, kind, value) ==
  [kind |-> kind, index |-> request.index, function |-> request.function, value |-> value]

\* The meaning of a function depends on the feature that has the index.
Execute ==
  /\ plugged /\ wire # <<>> /\ wire' = Tail(wire)
  /\ LET r == Head(wire)
         At(f, function) == r.index = Index[f] /\ r.function = function
     IN CASE r.index = Root ->
               /\ input' = Append(input, Reply(r, "reply", Index[r.value]))
               /\ UNCHANGED <<dpi, rate, since>>
          [] At("dpi", GetDpi) ->
               input' = Append(input, Reply(r, "reply", dpi)) /\ UNCHANGED <<dpi, rate, since>>
          [] At("dpi", SetDpi) ->
               /\ dpi' = r.value /\ since' = since \cup {dpi'}
               /\ input' = Append(input, Reply(r, "reply", r.value)) /\ UNCHANGED rate
          [] At("rate", GetRate) ->
               input' = Append(input, Reply(r, "reply", rate)) /\ UNCHANGED <<dpi, rate, since>>
          [] At("rate", SetRate) ->
               /\ rate' = r.value /\ since' = since \cup {rate'}
               /\ input' = Append(input, Reply(r, "reply", r.value)) /\ UNCHANGED dpi
          [] OTHER ->
               input' = Append(input, Reply(r, "error", None)) /\ UNCHANGED <<dpi, rate, since>>
  /\ UNCHANGED <<stage, plugged, features, call, waiter, stopped, closed, reader, queue, shown,
                 outcome, disturbances, bounds>>

\* A request is lost: it will time out.
Lose ==
  /\ wire # <<>> /\ disturbances < MaxDisturbances /\ wire' = Tail(wire)
  /\ UNCHANGED <<mouseVars, input, features, call, waiter, stopped, closed, reader, queue, shown,
                 outcome, since, disturbances, bounds>>

Press ==
  /\ plugged /\ presses < MaxPresses /\ presses' = presses + 1
  /\ stage' = (stage % Len(Stages)) + 1 /\ dpi' = Stages[stage'] /\ since' = since \cup {dpi'}
  /\ input' = Append(input, Reply(Request(Index["profiles"], StageEvent, 0), "event", stage'))
  /\ UNCHANGED <<rate, plugged, wire, features, call, waiter, stopped, closed, reader, queue,
                 shown, outcome, disturbances, commands>>

Unplug ==
  /\ plugged /\ Connected /\ plugged' = FALSE /\ wire' = <<>> /\ input' = <<>>
  /\ UNCHANGED <<dpi, stage, rate, features, call, waiter, stopped, closed, reader, queue, shown,
                 outcome, since, disturbances, bounds>>

\* Another process looks up a feature, or reads or writes the DPI: all see the answer.
Foreign(request) ==
  /\ plugged /\ disturbances < MaxDisturbances /\ disturbances' = disturbances + 1
  /\ wire' = Append(wire, request)
  /\ UNCHANGED <<mouseVars, input, features, call, waiter, stopped, closed, reader, queue, shown,
                 outcome, since, bounds>>

Next ==
  \/ \E t \in Threads : Register(t) \/ Write(t) \/ Return(t) \/ TimeOut(t)
  \/ Read \/ ReaderEnds \/ Close \/ Watch \/ TakeStage \/ Execute \/ Lose \/ Press \/ Unplug
  \/ \E v \in Range(Stages) : Command("set", v)
  \/ \E v \in Rates : Command("rate", v)
  \/ Foreign(Request(Index["dpi"], SetDpi, Stages[1])) \/ Foreign(Request(Index["dpi"], GetDpi, 0))
  \/ Foreign(Request(Root, Lookup, "dpi"))

Spec == Init /\ [][Next]_vars

-----------------------------------------------------------------------------
(* Properties                                                                 *)

TypeOK ==
  /\ stage \in DOMAIN Stages /\ plugged \in BOOLEAN /\ stopped \in BOOLEAN /\ closed \in BOOLEAN
  /\ reader \in {"reading", "ended"} /\ disturbances \in 0..MaxDisturbances
  /\ \A t \in Threads :
       call[t].at \in {"off", "idle", "call", "registered", "waiting", "ended"}
  /\ waiter # None => call[waiter.by].at \in {"registered", "waiting"}

\* What was confirmed was in force after it was written, even if one request timed out or one
\* of another process crossed. Without such a mishap a write that was refused had been undone,
\* by a press of the button, and a feature is where it was found.
AnswersAreOwn ==
  /\ (outcome # None /\ outcome.at = "confirmed" /\ disturbances <= 1) => outcome.value \in since
  /\ (outcome # None /\ outcome.at = "differs" /\ disturbances = 0) =>
       outcome.op = "set" /\ since \ {outcome.value} # {}
  /\ disturbances = 0 => \A f \in DOMAIN features : features[f] \in {None, Index[f]}

\* Without a mishap: when nothing is left to read, the user was shown the DPI and the stage of
\* the last press, unless a command has changed the DPI.
WatcherCatchesUp ==
  (/\ disturbances = 0 /\ ~stopped /\ plugged /\ commands = 0
   /\ call["watcher"].at = "idle" /\ queue = <<>> /\ input = <<>> /\ shown # None)
  => shown = <<dpi, stage>>

\* Nobody waits for a reader that has ended.
EndedReaderWakes == reader = "ended" /\ waiter # None => waiter.error

SessionIsSound == AnswersAreOwn /\ WatcherCatchesUp /\ EndedReaderWakes
=============================================================================
