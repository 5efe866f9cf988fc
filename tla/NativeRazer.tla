----------------------------- MODULE NativeRazer ------------------------------
(* The native Razer backend (native_razer.py, hardware/native_razer.py). A request is put    *)
(* into a register of the mouse and its answer is read from there, a few times if need be.    *)
(* The register is one for all: two processes of the program, the service and a command, put   *)
(* their requests over each other's, and an answer is known only by the command it answers.     *)
EXTENDS Integers, Sequences, FiniteSetsExt, Functions

CONSTANTS
  Interfaces,  \* of the mouse, in order
  Dpis, Rates, \* values of the settings
  Attempts,    \* readings of one answer
  Operations,  \* of each process
  MaxCalls, MaxPresses, \* bounds on each process's calls, on presses of the DPI button
  None

VARIABLES
  responders,  \* the interfaces that answer
  extended,    \* a rate is written in two parts
  marks,       \* the register shows that a request waits
  dpi, rate,   \* the settings; a rate has two parts
  pending,     \* the request in the register
  register,    \* the answer in it
  call,        \* what each process is doing
  open, bound, \* its interfaces
  outcome,     \* of its last call
  since,       \* what the mouse was set to since the call began
  calls, presses \* so far

vars == <<responders, extended, marks, dpi, rate, pending, register, call, open, bound, outcome,
          since, calls, presses>>

device == <<responders, extended, marks>>

Processes == DOMAIN Operations

-----------------------------------------------------------------------------
(* What a call asks, in order                                                 *)

Command(name, argument, value) == [name |-> name, argument |-> argument, value |-> value]
Firmware == Command("firmware", None, None)
GetDpi == Command("get_dpi", None, None)
GetRate == Command("get_rate", None, None)
Battery == <<Command("battery", None, None), Command("charging", None, None)>>

SetRate(value) ==
  IF extended THEN <<Command("set_rate", 0, value), Command("set_rate", 1, value)>>
  ELSE <<Command("set_rate", 1, value)>>

Requests(op, value) ==
  CASE op = "bind" -> [i \in DOMAIN Interfaces |-> Firmware]
    [] op = "get_dpi" -> <<GetDpi>>
    [] op = "get_rate" -> <<GetRate>>
    [] op = "battery" -> Battery
    [] op = "set_dpi" -> <<Command("set_dpi", None, value), GetDpi>>
    [] op = "set_rate" -> SetRate(value) \o <<GetRate>>
    [] op = "teach" -> <<GetDpi, GetRate>> \o Battery

Writes == {"set_dpi", "set_rate"}
OfDpi == {"set_dpi", "get_dpi"}
OfRate == {"set_rate", "get_rate"}

ArgumentsOf(op) == CASE op = "set_dpi" -> Dpis [] op = "set_rate" -> Rates [] OTHER -> {None}

Doing(op, at, step, left, value, found) ==
  [op |-> op, at |-> at, step |-> step, left |-> left, value |-> value, found |-> found]
Idle == Doing("none", "idle", 0, 0, None, {})

Asked(p) == Requests(call[p].op, call[p].value)[call[p].step]

-----------------------------------------------------------------------------
(* Calls                                                                      *)

Owner(found) == IF Cardinality(found) = 1 THEN CHOOSE i \in found : TRUE ELSE None

\* Exactly one interface may answer: it is kept, the others are closed.
Bind(p, found) ==
  LET owner == Owner(found)
  IN /\ bound' = [bound EXCEPT ![p] = owner]
     /\ open' = [open EXCEPT ![p] = IF owner = None THEN {} ELSE found]
     /\ outcome' = [outcome EXCEPT ![p] =
                      [op |-> "bind", value |-> owner,
                       is |-> IF owner # None THEN "bound"
                              ELSE IF found = {} THEN "unavailable" ELSE "ambiguous"]]

\* The call goes on with an answer, or with None when the query failed. A search and a teacher
\* go on without; a write is verified by its last query.
Continue(p, answer) ==
  LET c == call[p]
      last == c.step = Len(Requests(c.op, c.value))
      found == IF answer = None THEN c.found ELSE c.found \cup {Interfaces[c.step]}
      End(is, value) ==
        /\ call' = [call EXCEPT ![p] = Idle]
        /\ outcome' = [outcome EXCEPT ![p] = [op |-> c.op, value |-> value, is |-> is]]
        /\ UNCHANGED <<open, bound>>
      More(with) ==
        /\ call' = [call EXCEPT ![p] = Doing(c.op, "send", c.step + 1, c.left, c.value, with)]
        /\ UNCHANGED <<open, bound, outcome>>
  IN \/ c.op = "bind" /\ last /\ Bind(p, found) /\ call' = [call EXCEPT ![p] = Idle]
     \/ c.op = "bind" /\ ~last /\ More(found)
     \/ c.op \notin {"bind", "teach"} /\ answer = None /\ End("failed", c.value)
     \/ c.op # "bind" /\ ~last /\ (answer # None \/ c.op = "teach") /\ More(c.found)
     \/ /\ c.op \in Writes /\ last /\ answer # None
        /\ End(IF answer = c.value THEN "confirmed" ELSE "differs", c.value)
     \/ /\ c.op \notin Writes \cup {"bind"} /\ last /\ (answer # None \/ c.op = "teach")
        /\ End("read", answer)

\* The processes have found the owner, if there is one; one that has closed searches again.
Init ==
  /\ responders \in SUBSET Range(Interfaces) /\ extended \in BOOLEAN /\ marks \in BOOLEAN
  /\ dpi = Min(Dpis) /\ rate = [part \in 0..1 |-> Min(Rates)]
  /\ pending = None /\ register = [name |-> "none", value |-> None]
  /\ call = [p \in Processes |-> Idle]
  /\ bound = [p \in Processes |-> Owner(responders)]
  /\ open = [p \in Processes |-> IF bound[p] = None THEN {} ELSE responders]
  /\ outcome = [p \in Processes |-> None] /\ since = [p \in Processes |-> {}]
  /\ calls = [p \in Processes |-> 0] /\ presses = 0

\* A call binds the mouse first if it is not bound.
Begin(p, op, value) ==
  /\ call[p].at = "idle" /\ calls[p] < MaxCalls
  /\ IF op \in {"bind", "teach"} THEN bound[p] = None ELSE bound[p] # None
  /\ op = "teach" => responders # {}
  /\ call' = [call EXCEPT ![p] = Doing(op, "send", 1, 0, value, {})]
  /\ open' = IF op = "bind" THEN [open EXCEPT ![p] = Range(Interfaces)] ELSE open
  /\ outcome' = [outcome EXCEPT ![p] = None]
  /\ calls' = [calls EXCEPT ![p] = @ + 1]
  /\ since' = [since EXCEPT ![p] = IF op \in OfDpi THEN {dpi}
                                   ELSE IF op \in OfRate THEN {rate[1]} ELSE {}]
  /\ UNCHANGED <<device, dpi, rate, pending, register, bound, presses>>

\* The request takes the place of the one in the register.
SetFeature(p) ==
  /\ call[p].at = "send"
  /\ IF call[p].op = "bind" /\ Interfaces[call[p].step] \notin responders
     THEN Continue(p, None) /\ UNCHANGED <<pending, register>>
     ELSE /\ pending' = Asked(p)
          /\ register' = IF marks THEN [name |-> "busy", value |-> None] ELSE register
          /\ LET c == call[p]
             IN call' = [call EXCEPT ![p] =
                           Doing(c.op, "poll", c.step, Attempts, c.value, c.found)]
          /\ UNCHANGED <<open, bound, outcome>>
  /\ UNCHANGED <<device, dpi, rate, since, calls, presses>>

\* Faulty variant: the first answer is taken that the mouse has ready.
DecodeAnyResponse(p) ==
  \/ register.name = "unsupported" /\ Continue(p, None)
  \/ register.name \notin {"unsupported", "busy"} /\ Continue(p, register.value)
  \/ /\ register.name = "busy"
     /\ IF call[p].left = 1 THEN Continue(p, None)
        ELSE call' = [call EXCEPT ![p].left = @ - 1] /\ UNCHANGED <<open, bound, outcome>>

\* A busy mouse, or the answer to another command, is asked again.
DecodeResponse(p) ==
  \/ register.name = "unsupported" /\ Continue(p, None)
  \/ register.name = Asked(p).name /\ Continue(p, register.value)
  \/ /\ register.name \notin {"unsupported", Asked(p).name}
     /\ IF call[p].left = 1 THEN Continue(p, None)
        ELSE call' = [call EXCEPT ![p].left = @ - 1] /\ UNCHANGED <<open, bound, outcome>>

GetFeature(p) ==
  /\ call[p].at = "poll"
  /\ DecodeResponse(p)
  /\ UNCHANGED <<device, dpi, rate, pending, register, since, calls, presses>>

Close(p) ==
  /\ call[p].at = "idle" /\ bound[p] # None
  /\ bound' = [bound EXCEPT ![p] = None] /\ open' = [open EXCEPT ![p] = {}]
  /\ outcome' = [outcome EXCEPT ![p] = None] /\ since' = [since EXCEPT ![p] = {}]
  /\ UNCHANGED <<device, dpi, rate, pending, register, call, calls, presses>>

-----------------------------------------------------------------------------
(* The mouse and its user                                                     *)

\* A process that is in a call on a setting sees its new value.
Sees(ops, value) ==
  since' = [p \in Processes |-> IF call[p].op \in ops THEN since[p] \cup {value} ELSE since[p]]

Execute ==
  /\ pending # None /\ pending' = None
  /\ LET Answer(value) == register' = [name |-> pending.name, value |-> value]
     IN \/ pending.name = "get_dpi" /\ Answer(dpi) /\ UNCHANGED <<dpi, rate, since>>
        \/ pending.name = "get_rate" /\ Answer(rate[1]) /\ UNCHANGED <<dpi, rate, since>>
        \/ /\ pending.name = "set_dpi"
           /\ dpi' = pending.value /\ Sees(OfDpi, dpi') /\ Answer(dpi') /\ UNCHANGED rate
        \/ /\ pending.name = "set_rate"
           /\ rate' = [rate EXCEPT ![pending.argument] = pending.value]
           /\ Sees(OfRate, rate'[1]) /\ Answer(pending.value) /\ UNCHANGED dpi
        \/ pending.name = "firmware" /\ Answer("ok") /\ UNCHANGED <<dpi, rate, since>>
        \/ /\ pending.name \in {"battery", "charging"}
           /\ Answer("ok") \/ register' = [name |-> "unsupported", value |-> None]
           /\ UNCHANGED <<dpi, rate, since>>
  /\ UNCHANGED <<device, call, open, bound, outcome, calls, presses>>

Press ==
  /\ presses < MaxPresses /\ presses' = presses + 1
  /\ \E d \in Dpis \ {dpi} : dpi' = d /\ Sees(OfDpi, d)
  /\ UNCHANGED <<device, rate, pending, register, call, open, bound, outcome, calls>>

Next ==
  \/ \E p \in Processes :
       \/ SetFeature(p) \/ GetFeature(p) \/ Close(p)
       \/ \E op \in Operations[p] \cup {"bind"} : \E value \in ArgumentsOf(op) : Begin(p, op, value)
  \/ Execute \/ Press

Spec == Init /\ [][Next]_vars

-----------------------------------------------------------------------------
(* Properties                                                                 *)

TypeOK ==
  /\ dpi \in Dpis /\ rate \in [0..1 -> Rates]
  /\ \A p \in Processes : /\ call[p].at \in {"idle", "send", "poll"}
                          /\ bound[p] \in Range(Interfaces) \cup {None}
                          /\ open[p] \subseteq Range(Interfaces)

Ended(p, op, is) ==
  IF outcome[p] = None THEN FALSE ELSE outcome[p].op = op /\ outcome[p].is = is

\* Whatever the other process puts into the register, however long the mouse takes, and also
\* where the register keeps an old answer: what is confirmed was in force after the call began.
ConfirmedWasInForce ==
  \A p \in Processes :
    /\ Ended(p, "set_dpi", "confirmed") => outcome[p].value \in since[p]
    /\ Ended(p, "set_rate", "confirmed") => outcome[p].value \in since[p]

\* A mouse whose register shows that a request waits: what is read of it was in force after the
\* call began, though the other process asks the same. A register that keeps the answer to an
\* earlier request may give that one.
ReadingIsCurrent ==
  marks => \A p \in Processes :
    /\ Ended(p, "get_dpi", "read") => outcome[p].value \in since[p]
    /\ Ended(p, "get_rate", "read") => outcome[p].value \in since[p]

Alone(p, op) == \A q \in Processes \ {p} : op \notin Operations[q]

\* Of such a mouse a process that alone sets rates has written the whole of one it confirms.
RateIsWhole ==
  marks => \A p \in Processes :
    (extended /\ Ended(p, "set_rate", "confirmed") /\ Alone(p, "set_rate"))
      => rate = [part \in 0..1 |-> outcome[p].value]

\* Between two calls only the interface that answered alone is open.
OnlyOwnerIsOpen ==
  \A p \in Processes : call[p].at = "idle" =>
    /\ open[p] = IF bound[p] = None THEN {} ELSE {bound[p]}
    /\ bound[p] # None => bound[p] \in responders

\* Two processes share the register: a confirmed write is never a foreign answer alone, and a
\* mouse that shows a waiting request tells neither of them an old value.
RegisterIsShared == ConfirmedWasInForce /\ ReadingIsCurrent /\ RateIsWhole /\ OnlyOwnerIsOpen
=============================================================================
