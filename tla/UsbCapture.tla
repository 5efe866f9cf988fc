------------------------------ MODULE UsbCapture ------------------------------
(* A mouse's transfers as the kernel's monitor shows them (trace/usbmon.py,       *)
(* trace/models.py) and as they are paired (trace/transaction_assembler.py). The    *)
(* kernel gives a few identities to its transfers over and over, its monitor shows   *)
(* the whole bus, from the middle of transfers on, and drops what it has no room for. *)
EXTENDS Integers, Sequences, FiniteSets

CONSTANTS
  Urbs,        \* identities of transfers in flight
  Endpoints,
  EndTypes,    \* how a transfer ends
  Room,        \* of the monitor's buffer
  MaxTransfers, MaxCaptures, MaxDisturbances, \* bounds on the transfers, on the captures,
               \* on new addresses of the mouse and changes of the clock
  None

VARIABLES
  address,     \* of the mouse; the bus's other device has address 0
  flying,      \* the transfer that an identity stands for
  clock,
  buffer,      \* events not yet read
  capture,     \* the one that runs
  pending, seen, \* the assembler's
  transactions, \* that it has assembled
  given,       \* observations it was given
  transfers, captures, disturbances \* so far

vars == <<address, flying, clock, buffer, capture, pending, seen, transactions, given,
          transfers, captures, disturbances>>

bus == <<address, flying, clock, transfers, disturbances>>
assembler == <<pending, seen, transactions, given>>

Init ==
  /\ address = 1 /\ flying = [u \in Urbs |-> None] /\ clock = 1
  /\ buffer = <<>> /\ capture = None
  /\ pending = {} /\ seen = {} /\ transactions = {} /\ given = {}
  /\ transfers = 0 /\ captures = 0 /\ disturbances = 0

-----------------------------------------------------------------------------
(* The bus                                                                    *)

\* The monitor shows an event to the capture that runs, if it has room.
Log(urb, type, transfer, large) ==
  LET event == [urb |-> urb, type |-> type, transfer |-> transfer.number, time |-> clock,
                address |-> transfer.address, endpoint |-> transfer.endpoint, large |-> large]
  IN /\ buffer' = IF capture # None /\ Len(buffer) < Room THEN Append(buffer, event) ELSE buffer
     /\ UNCHANGED <<address, clock, capture, assembler, captures, disturbances>>

Submit(u) ==
  /\ flying[u] = None /\ transfers < MaxTransfers /\ transfers' = transfers + 1
  /\ \E to \in {0, address}, e \in Endpoints :
       LET transfer == [number |-> transfers + 1, address |-> to, endpoint |-> e]
       IN flying' = [flying EXCEPT ![u] = transfer] /\ Log(u, "submit", transfer, FALSE)

End(u) ==
  /\ flying[u] # None /\ flying' = [flying EXCEPT ![u] = None]
  /\ \E type \in EndTypes, large \in BOOLEAN : Log(u, type, flying[u], large)
  /\ UNCHANGED transfers

\* It matters while a capture runs.
Disturb ==
  /\ capture # None /\ disturbances < MaxDisturbances /\ disturbances' = disturbances + 1

\* The mouse is plugged in again.
Move ==
  /\ Disturb
  /\ \A u \in Urbs : flying[u] = None \/ (flying[u] # None /\ flying[u].address = 0)
  /\ address' = address + 1
  /\ UNCHANGED <<flying, clock, buffer, capture, assembler, transfers, captures>>

SetBack ==
  /\ Disturb /\ clock' = clock - 1
  /\ UNCHANGED <<address, flying, buffer, capture, assembler, transfers, captures>>

-----------------------------------------------------------------------------
(* The assembler                                                              *)

Completions == {"complete", "error"}

\* Faulty variant: transfers wait in every capture alike.
IdentityOfUrb(item) == <<item.urb>>

Identity(item) == <<item.capture, item.urb>>

Transaction(submit, completion, anomaly) ==
  LET early == submit # None /\ completion # None /\ completion.time < submit.time
  IN [submit |-> submit, completion |-> completion,
      anomaly |-> IF early /\ anomaly = None THEN "event_mismatch" ELSE anomaly]

Mismatch(submit, item) == submit.address # item.address \/ submit.endpoint # item.endpoint

\* A submission waits for its end; an observation that was given before is left out.
Add(item) ==
  LET before == {o \in pending : Identity(o) = Identity(item)}
      submit == IF before = {} THEN None ELSE CHOOSE o \in before : TRUE
      wrong  == IF before = {} THEN "missing_submit"
                ELSE IF Mismatch(submit, item) THEN "event_mismatch" ELSE None
  IN /\ seen' = seen \cup {item} /\ given' = given \cup {item}
     /\ \/ item \in seen /\ UNCHANGED <<pending, transactions>>
        \/ /\ item \notin seen /\ item.type = "submit"
           /\ pending' = (pending \ before) \cup {item}
           /\ transactions' = transactions \cup {Transaction(o, None, "reused_urb") : o \in before}
        \/ /\ item \notin seen /\ item.type \in Completions
           /\ pending' = pending \ before
           /\ transactions' = transactions \cup {Transaction(submit, item, wrong)}
        \/ /\ item \notin seen /\ item.type \notin Completions \cup {"submit"}
           /\ transactions' = transactions \cup {Transaction(None, item, "event_mismatch")}
           /\ UNCHANGED pending

\* What still waits is given up.
Boundary(items, anomaly) ==
  /\ items # {} /\ pending' = pending \ items
  /\ transactions' = transactions \cup {Transaction(o, None, anomaly) : o \in items}
  /\ UNCHANGED <<bus, buffer, capture, seen, given, captures>>

CaptureBoundary ==
  \E c \in 1..captures :
    /\ capture = None \/ (capture # None /\ capture.id # c)
    /\ Boundary({o \in pending : o.capture = c}, "capture_boundary")

Finish == capture = None /\ Boundary(pending, "missing_completion")

-----------------------------------------------------------------------------
(* Captures                                                                   *)

Start ==
  /\ capture = None /\ captures < MaxCaptures /\ captures' = captures + 1
  /\ capture' = [id |-> captures + 1, selection |-> address, sequence |-> 0]
  /\ UNCHANGED <<bus, buffer, assembler>>

Ends == capture' = None /\ buffer' = <<>>

\* An event as the capture numbers it.
Observation(event) ==
  [urb |-> event.urb, type |-> event.type, transfer |-> event.transfer, time |-> event.time,
   address |-> event.address, endpoint |-> event.endpoint, large |-> event.large,
   capture |-> capture.id, sequence |-> capture.sequence]

\* An event that is longer than a read is an error; one of another device is skipped.
Read ==
  /\ capture # None /\ buffer # <<>>
  /\ LET event == Head(buffer)
     IN IF event.large THEN Ends /\ UNCHANGED assembler
        ELSE /\ buffer' = Tail(buffer) /\ capture' = [capture EXCEPT !.sequence = @ + 1]
             /\ IF event.address = capture.selection
                THEN Add(Observation(event)) ELSE UNCHANGED assembler
  /\ UNCHANGED <<bus, captures>>

\* The limit is reached, or the caller closes the capture.
Stop ==
  /\ capture # None /\ Ends
  /\ UNCHANGED <<bus, assembler, captures>>

\* What was recorded is assembled again.
Again ==
  /\ \E o \in given : Add(o)
  /\ UNCHANGED <<bus, buffer, capture, captures>>

Next ==
  \/ \E u \in Urbs : Submit(u) \/ End(u)
  \/ Move \/ SetBack \/ Start \/ Read \/ Stop \/ Again \/ CaptureBoundary \/ Finish

Spec == Init /\ [][Next]_vars

-----------------------------------------------------------------------------
(* Properties                                                                 *)

TypeOK ==
  /\ Len(buffer) <= Room /\ seen = given /\ pending \subseteq given
  /\ \A t \in transactions :
       /\ t.submit \in given \cup {None} /\ t.completion \in given \cup {None}
       /\ t.anomaly \in {None, "missing_submit", "missing_completion", "reused_urb",
                         "event_mismatch", "capture_boundary"}

\* The capture has no such event of the transfer that it can read.
Unobserved(o, types) ==
  ~\E p \in given : p.capture = o.capture /\ p.transfer = o.transfer /\ p.type \in types

Parts(t) == {t.submit, t.completion} \ {None}

\* Whatever is observed, however often and in however many captures, is in one transaction
\* or waits to be: nothing is dropped silently and nothing is counted twice.
EachOnce ==
  \A o \in given :
    Cardinality({t \in transactions : o \in Parts(t)}) + (IF o \in pending THEN 1 ELSE 0) = 1

\* A submission and an end that are paired without an anomaly are of one capture and endpoint
\* and in order, and of one transfer, wherever the capture holds the end of the first or the
\* submission of the second.
PairsAreTrue ==
  \A t \in transactions :
    t.anomaly = None =>
      /\ t.submit.capture = t.completion.capture /\ t.submit.endpoint = t.completion.endpoint
      /\ t.submit.time <= t.completion.time
      /\ \/ t.submit.transfer = t.completion.transfer
         \/ Unobserved(t.submit, Completions) /\ Unobserved(t.completion, {"submit"})

\* An event is said to be missing only if it is.
AnomaliesAreReal ==
  \A t \in transactions :
    /\ t.anomaly = "missing_submit" => Unobserved(t.completion, {"submit"})
    /\ t.anomaly \in {"missing_completion", "reused_urb", "capture_boundary"}
         => Unobserved(t.submit, Completions)

\* What a capture holds is accounted for, once; nothing of it is paired with a foreign end or
\* said to be missing.
TransfersAreAccounted == EachOnce /\ PairsAreTrue /\ AnomaliesAreReal

=============================================================================
