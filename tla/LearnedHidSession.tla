---------------------------- MODULE LearnedHidSession ----------------------------
(***********************************************************************************)
(* The session that owns one hidraw interface: one reader thread, and any number   *)
(* of client threads that each write a request and wait for the packet that        *)
(* matches it.                                                                     *)
(*                                                                                 *)
(*   learned_hid_session.py  LearnedHidSession                                     *)
(*   hid_session.py          HidrawIo                                              *)
(*                                                                                 *)
(* A packet is the shape that a matcher sees and the request that caused it (0 for *)
(* none).  The device answers a request once, late or never, in any order.  The    *)
(* descriptor number of a closed interface may come to denote another open file.   *)
(* Requests are numbered up to MaxRequests, the kernel's queue holds MaxQueue      *)
(* packets.                                                                        *)
(***********************************************************************************)
EXTENDS Naturals, Sequences

CONSTANTS
  Clients,      \* threads that call exchange
  Shapes,       \* what a matcher can tell apart in a reply
  Event,        \* the shape of a packet that no matcher accepts
  MaxRequests, MaxQueue,
  NoOne, Nothing, Failed

ASSUME ClientsAssumption == NoOne \notin Clients
ASSUME ShapesAssumption == Event \notin Shapes
ASSUME BoundsAssumption == MaxRequests \in Nat /\ MaxQueue \in Nat

Packets == [shape : Shapes \cup {Event}, cause : 0..MaxRequests]

ASSUME NothingAssumption ==
  Nothing \notin Packets /\ Failed \notin Packets /\ Nothing # Failed

VARIABLES
  stop,        \* _stop.is_set()
  file,        \* what the descriptor number denotes: "own" until _io.close()
  waiter,      \* _waiter: the client whose _RawWaiter it is
  lock,        \* the holder of _request_lock
  reader,      \* where the reader thread is
  taken,       \* the packet the reader is dispatching
  subscribed,  \* is there a subscriber
  pc,          \* where each client is
  shape,       \* the matcher of its exchange
  number,      \* the number of its request, 0 before the write
  event, packet, error,    \* its _RawWaiter
  result,      \* how its last exchange ended
  requests,    \* how many requests have been written
  owed,        \* the requests the device may still answer
  incoming,    \* the packets in the kernel's queue
  attached,    \* is the device connected
  delivered    \* history: the packets handed to the subscriber

sessionVars == <<stop, file, waiter, lock, subscribed>>
readerVars  == <<reader, taken>>
waiterVars  == <<event, packet, error>>
clientVars  == <<pc, shape, number, result>>
deviceVars  == <<requests, owed, incoming, attached>>
vars == <<sessionVars, readerVars, waiterVars, clientVars, deviceVars, delivered>>

ClientPlaces == {"idle", "arm", "write", "wait", "woken", "clear"}
ReaderPlaces == {"check", "select", "read", "dispatch", "deliver", "fail", "ended"}

SessionType ==
  /\ stop \in BOOLEAN
  /\ file \in {"own", "closed", "other"}
  /\ waiter \in Clients \cup {NoOne}
  /\ lock \in Clients \cup {NoOne}
  /\ subscribed \in BOOLEAN
  /\ reader \in ReaderPlaces
  /\ taken \in Packets \cup {Nothing}

ClientType ==
  /\ pc \in [Clients -> ClientPlaces]
  /\ shape \in [Clients -> Shapes]
  /\ number \in [Clients -> 0..MaxRequests]
  /\ event \in [Clients -> BOOLEAN]
  /\ packet \in [Clients -> Packets \cup {Nothing}]
  /\ error \in [Clients -> BOOLEAN]
  /\ result \in [Clients -> Packets \cup {Nothing, Failed}]

DeviceType ==
  /\ requests \in 0..MaxRequests
  /\ owed \in SUBSET Packets
  /\ incoming \in Seq(Packets)
  /\ attached \in BOOLEAN
  /\ delivered \in SUBSET Packets

\* Every variable has its type.
TypeOK == SessionType /\ ClientType /\ DeviceType

Init ==
  /\ stop = FALSE /\ file = "own"
  /\ waiter = NoOne /\ lock = NoOne
  /\ reader = "check" /\ taken = Nothing
  /\ subscribed = FALSE
  /\ pc = [c \in Clients |-> "idle"]
  /\ shape \in [Clients -> Shapes]
  /\ number = [c \in Clients |-> 0]
  /\ event = [c \in Clients |-> FALSE]
  /\ packet = [c \in Clients |-> Nothing]
  /\ error = [c \in Clients |-> FALSE]
  /\ result = [c \in Clients |-> Nothing]
  /\ requests = 0 /\ owed = {} /\ incoming = <<>> /\ attached = TRUE
  /\ delivered = {}

Move(c, from, to) == pc[c] = from /\ pc' = [pc EXCEPT ![c] = to]

-----------------------------------------------------------------------------------
(* What _fail_session and close do under the state lock.                           *)

\* Faulty variant: the waiter is left to its time-out.
WakeNobody == UNCHANGED waiterVars

\* The waiter, unless it has an error already, gets one and is woken.
WakeWaiter ==
  IF waiter # NoOne /\ ~error[waiter]
    THEN /\ error' = [error EXCEPT ![waiter] = TRUE]
         /\ event' = [event EXCEPT ![waiter] = TRUE]
         /\ UNCHANGED packet
    ELSE UNCHANGED waiterVars

EndSession ==
  /\ stop' = TRUE
  /\ WakeWaiter
  /\ file' = IF file = "own" THEN "closed" ELSE file

-----------------------------------------------------------------------------------
(* exchange                                                                        *)

LockFree == lock = NoOne

\* The request lock is granted and a fresh _RawWaiter built.
Begin(c) ==
  /\ LockFree
  /\ stop \/ requests < MaxRequests
  /\ Move(c, "idle", "arm")
  /\ lock' = c
  /\ \E s \in Shapes : shape' = [shape EXCEPT ![c] = s]
  /\ number' = [number EXCEPT ![c] = 0]
  /\ event' = [event EXCEPT ![c] = FALSE]
  /\ packet' = [packet EXCEPT ![c] = Nothing]
  /\ error' = [error EXCEPT ![c] = FALSE]
  /\ result' = [result EXCEPT ![c] = Nothing]
  /\ UNCHANGED <<stop, file, waiter, subscribed, readerVars, deviceVars, delivered>>

\* The session is closed: the exchange raises.
ArmRefused(c) ==
  /\ stop
  /\ Move(c, "arm", "idle")
  /\ lock' = NoOne
  /\ result' = [result EXCEPT ![c] = Failed]
  /\ UNCHANGED <<stop, file, waiter, subscribed, readerVars, waiterVars, shape, number,
                 deviceVars, delivered>>

\* The waiter is installed before the request is written.
Arm(c) ==
  /\ ~stop
  /\ Move(c, "arm", "write")
  /\ waiter' = c
  /\ UNCHANGED <<stop, file, lock, subscribed, readerVars, waiterVars, shape, number,
                 result, deviceVars, delivered>>

\* os.write on the descriptor number; on its own interface the device may answer.
Write(c) ==
  /\ file # "closed"
  /\ Move(c, "write", "wait")
  /\ requests' = requests + 1
  /\ number' = [number EXCEPT ![c] = requests + 1]
  /\ owed' = IF file = "own"
               THEN owed \cup {[shape |-> shape[c], cause |-> requests + 1]}
               ELSE owed
  /\ UNCHANGED <<sessionVars, readerVars, waiterVars, shape, result, incoming, attached,
                 delivered>>

\* The write raises OSError, which fails the session.
WriteFails(c) ==
  /\ file = "closed" \/ ~attached
  /\ Move(c, "write", "clear")
  /\ EndSession
  /\ result' = [result EXCEPT ![c] = Failed]
  /\ UNCHANGED <<waiter, lock, subscribed, readerVars, shape, number, deviceVars,
                 delivered>>

WaitReturns(c) ==
  /\ event[c]
  /\ Move(c, "wait", "woken")
  /\ UNCHANGED <<sessionVars, readerVars, waiterVars, shape, number, result, deviceVars,
                 delivered>>

TimesOut(c) ==
  /\ ~event[c]
  /\ Move(c, "wait", "clear")
  /\ result' = [result EXCEPT ![c] = Failed]
  /\ UNCHANGED <<sessionVars, readerVars, waiterVars, shape, number, deviceVars,
                 delivered>>

\* An error has precedence over a packet.
Result(c) ==
  /\ Move(c, "woken", "clear")
  /\ result' = [result EXCEPT ![c] =
                  IF error[c] \/ packet[c] = Nothing THEN Failed ELSE packet[c]]
  /\ UNCHANGED <<sessionVars, readerVars, waiterVars, shape, number, deviceVars,
                 delivered>>

\* The finally clause removes the waiter if it is still this exchange's.
Cleared(c) == IF waiter = c THEN NoOne ELSE waiter

\* The finally clause and the release of the request lock.
End(c) ==
  /\ Move(c, "clear", "idle")
  /\ waiter' = Cleared(c)
  /\ lock' = NoOne
  /\ UNCHANGED <<stop, file, subscribed, readerVars, waiterVars, shape, number, result,
                 deviceVars, delivered>>

Exchange(c) ==
  \/ Begin(c) \/ ArmRefused(c) \/ Arm(c) \/ Write(c) \/ WriteFails(c)
  \/ WaitReturns(c) \/ TimesOut(c) \/ Result(c) \/ End(c)

-----------------------------------------------------------------------------------
(* The reader thread                                                               *)

ReaderMoves(from, to) == reader = from /\ reader' = to

Check ==
  /\ ReaderMoves("check", IF stop THEN "fail" ELSE "select")
  /\ UNCHANGED <<sessionVars, taken, waiterVars, clientVars, deviceVars, delivered>>

\* select: a call under way outlives the close of its descriptor.
Waiting  == incoming # <<>> \/ ~attached
Readable == file # "own" \/ Waiting

SelectTimesOut ==
  /\ file # "own" \/ ~Waiting
  /\ ReaderMoves("select", "check")
  /\ UNCHANGED <<sessionVars, taken, waiterVars, clientVars, deviceVars, delivered>>

SelectReady ==
  /\ Readable
  /\ ReaderMoves("select", "read")
  /\ UNCHANGED <<sessionVars, taken, waiterVars, clientVars, deviceVars, delivered>>

\* os.read on the descriptor number: the next packet, the end of the device, an
\* error on a closed number, or a packet of another file.
ReadPacket ==
  /\ file = "own" /\ incoming # <<>>
  /\ ReaderMoves("read", "dispatch")
  /\ taken' = Head(incoming)
  /\ incoming' = Tail(incoming)
  /\ UNCHANGED <<sessionVars, waiterVars, clientVars, requests, owed, attached,
                 delivered>>

ReadFails ==
  /\ file = "closed" \/ (file = "own" /\ incoming = <<>>)
  /\ ReaderMoves("read", "fail")
  /\ UNCHANGED <<sessionVars, taken, waiterVars, clientVars, deviceVars, delivered>>

ReadStray ==
  /\ file = "other"
  /\ ReaderMoves("read", "dispatch")
  /\ \E s \in Shapes \cup {Event} : taken' = [shape |-> s, cause |-> 0]
  /\ UNCHANGED <<sessionVars, waiterVars, clientVars, deviceVars, delivered>>

\* Faulty variant: any packet is taken for the reply.
MatchesAny == waiter # NoOne

\* _dispatch under the state lock: the waiter's matcher is asked first.
Matches == waiter # NoOne /\ taken.shape = shape[waiter]

\* Faulty variant: a reply is handed to the subscribers as well.
DispatchBoth ==
  /\ ReaderMoves("dispatch", IF subscribed THEN "deliver" ELSE "check")
  /\ Matches
  /\ packet' = [packet EXCEPT ![waiter] = taken]
  /\ event' = [event EXCEPT ![waiter] = TRUE]
  /\ taken' = IF subscribed THEN taken ELSE Nothing
  /\ UNCHANGED <<sessionVars, error, clientVars, deviceVars, delivered>>

DispatchReply ==
  /\ ReaderMoves("dispatch", "check")
  /\ Matches
  /\ packet' = [packet EXCEPT ![waiter] = taken]
  /\ event' = [event EXCEPT ![waiter] = TRUE]
  /\ taken' = Nothing
  /\ UNCHANGED <<sessionVars, error, clientVars, deviceVars, delivered>>

\* The matcher raises: the exchange fails and the packet is dropped.
MatcherRaises ==
  /\ waiter # NoOne
  /\ ReaderMoves("dispatch", "check")
  /\ error' = [error EXCEPT ![waiter] = TRUE]
  /\ event' = [event EXCEPT ![waiter] = TRUE]
  /\ taken' = Nothing
  /\ UNCHANGED <<sessionVars, packet, clientVars, deviceVars, delivered>>

\* The callbacks are copied ...
DispatchEvent ==
  /\ reader = "dispatch" /\ ~Matches
  /\ IF subscribed
       THEN reader' = "deliver" /\ UNCHANGED taken
       ELSE reader' = "check" /\ taken' = Nothing
  /\ UNCHANGED <<sessionVars, waiterVars, clientVars, deviceVars, delivered>>

\* ... and called without the lock; an exception of theirs changes nothing here.
Deliver ==
  /\ ReaderMoves("deliver", "check")
  /\ delivered' = delivered \cup {taken}
  /\ taken' = Nothing
  /\ UNCHANGED <<sessionVars, waiterVars, clientVars, deviceVars>>

\* The finally clause of _read_loop.
ReaderEnds ==
  /\ ReaderMoves("fail", "ended")
  /\ EndSession
  /\ UNCHANGED <<waiter, lock, subscribed, taken, clientVars, deviceVars, delivered>>

Reader ==
  \/ Check \/ SelectTimesOut \/ SelectReady \/ ReadPacket \/ ReadFails \/ ReadStray
  \/ DispatchReply \/ MatcherRaises \/ DispatchEvent \/ Deliver \/ ReaderEnds

-----------------------------------------------------------------------------------
(* The session's owner, its subscriber and the world outside                       *)

\* close(), up to the join of the reader, which has a time-out.
Close ==
  /\ ~stop \/ file = "own"
  /\ EndSession
  /\ UNCHANGED <<waiter, lock, subscribed, readerVars, clientVars, deviceVars, delivered>>

Subscribe ==
  /\ ~stop /\ ~subscribed
  /\ subscribed' = TRUE
  /\ UNCHANGED <<stop, file, waiter, lock, readerVars, waiterVars, clientVars, deviceVars,
                 delivered>>

Unsubscribe ==
  /\ subscribed
  /\ subscribed' = FALSE
  /\ UNCHANGED <<stop, file, waiter, lock, readerVars, waiterVars, clientVars, deviceVars,
                 delivered>>

Answer ==
  /\ attached /\ Len(incoming) < MaxQueue
  /\ \E p \in owed : owed' = owed \ {p} /\ incoming' = Append(incoming, p)
  /\ UNCHANGED <<sessionVars, readerVars, waiterVars, clientVars, requests, attached,
                 delivered>>

SendEvent ==
  /\ attached /\ Len(incoming) < MaxQueue
  /\ incoming' = Append(incoming, [shape |-> Event, cause |-> 0])
  /\ UNCHANGED <<sessionVars, readerVars, waiterVars, clientVars, requests, owed, attached,
                 delivered>>

Disconnect ==
  /\ attached
  /\ attached' = FALSE
  /\ UNCHANGED <<sessionVars, readerVars, waiterVars, clientVars, requests, owed, incoming,
                 delivered>>

\* The process opens another file and gets the number of the closed one.
NumberReused ==
  /\ file = "closed"
  /\ file' = "other"
  /\ UNCHANGED <<stop, waiter, lock, subscribed, readerVars, waiterVars, clientVars,
                 deviceVars, delivered>>

Outside == Close \/ Subscribe \/ Unsubscribe \/ Answer \/ SendEvent \/ Disconnect \/ NumberReused

Next == (\E c \in Clients : Exchange(c)) \/ Reader \/ Outside

Spec == Init /\ [][Next]_vars

-----------------------------------------------------------------------------------
(* Properties                                                                      *)

\* Whoever holds the request lock finds no waiter installed: the internal error of
\* exchange is never raised (learned_hid_session.py 165-168).
NoInternalError == \A c \in Clients : pc[c] = "arm" => waiter = NoOne

\* A session that has stopped has woken its waiter: no exchange sleeps through a
\* disconnect or a close (learned_hid_session.py 129-137, 257-266).
StopWakesWaiter == stop /\ waiter # NoOne => event[waiter]

\* An answer goes to one place: it is returned by one exchange or delivered to the
\* subscribers, never both, never twice (learned_hid_session.py 45-49).
EachAnswerOnce ==
  \A c \in Clients : result[c] \in Packets =>
    /\ result[c] \notin delivered
    /\ \A d \in Clients \ {c} : result[d] # result[c]

\* What the session promises its clients.
Service == INSTANCE ExchangeService WITH
  open     <- ~stop,
  active   <- lock,
  admitted <- \E c \in Clients : pc[c] \in {"write", "wait", "woken", "clear"},
  asked    <- shape,
  answer   <- [c \in Clients |-> IF pc[c] = "idle" THEN result[c] ELSE Nothing]

\* The session implements that promise: one exchange at a time, none admitted after
\* the session stops, and success only with a packet of the shape asked for.
ImplementsService == Service!Spec

\* Once the session stops, without any time-out the exchange under way returns and
\* the reader ends.
StopEndsSession == stop ~> waiter = NoOne /\ reader = "ended"

\* The late reply to a request that timed out becomes an event: it is never taken for
\* the reply to a later request (tests/test_learned_hid_session.py 174).
LateReplyIsAnEvent ==
  \A c \in Clients : result[c] \in Packets => result[c].cause = number[c]

\* Threads run; no time-out of a wait and no answer of the device is relied on.
Fairness ==
  /\ \A c \in Clients :
       WF_vars(ArmRefused(c) \/ Arm(c) \/ Write(c) \/ WriteFails(c) \/ WaitReturns(c)
               \/ Result(c) \/ End(c))
  /\ WF_vars(Reader)

FairSpec == Spec /\ Fairness
==================================================================================
