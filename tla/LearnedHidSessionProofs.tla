------------------------- MODULE LearnedHidSessionProofs -------------------------
(***********************************************************************************)
(* For every set of clients, every set of shapes and every bound, LearnedHidSession*)
(* keeps its types, raises no internal error, lets no exchange sleep through a     *)
(* disconnect, gives each answer to one exchange and implements ExchangeService.   *)
(***********************************************************************************)
EXTENDS LearnedHidSession, TLAPS

InTry == {"write", "wait", "woken", "clear"}

\* The request lock is held by the thread inside exchange ...
LockInv == \A c \in Clients : pc[c] # "idle" <=> lock = c

\* ... and the waiter installed belongs to the thread inside its try block.
WaiterInv == \A c \in Clients : pc[c] \in InTry <=> waiter = c

\* What a waiter holds, and what its exchange returns, has the shape asked for.
Answers(c, p) == p \in Packets /\ p.shape = shape[c]
PacketInv == \A c \in Clients : packet[c] = Nothing \/ Answers(c, packet[c])
ResultInv ==
  \A c \in Clients : pc[c] = "clear" => result[c] = Failed \/ Answers(c, result[c])

\* An error never stays behind a wait.
ErrorInv == \A c \in Clients : error[c] => event[c]

\* The reader has a packet while it dispatches one.
TakenInv == reader \in {"dispatch", "deliver"} => taken \in Packets

\* An open session admits an exchange only within the bound on requests.
BudgetInv ==
  \A c \in Clients :
    /\ pc[c] = "arm" => stop \/ requests < MaxRequests
    /\ pc[c] = "write" => requests < MaxRequests

IInv ==
  /\ SessionType /\ ClientType /\ DeviceType
  /\ LockInv /\ WaiterInv /\ StopWakesWaiter
  /\ PacketInv /\ ResultInv /\ ErrorInv /\ TakenInv /\ BudgetInv

-----------------------------------------------------------------------------------
LEMMA InitIInv == Init => IInv
<1> SUFFICES ASSUME Init PROVE IInv
  OBVIOUS
<1> 0 \in 0..MaxRequests
  BY BoundsAssumption
<1>1. SessionType /\ ClientType
  BY DEF Init, SessionType, ClientType, ReaderPlaces, ClientPlaces
<1>2. DeviceType
  <2>1. <<>> \in Seq(Packets) /\ {} \in SUBSET Packets
    OBVIOUS
  <2> QED
    BY <2>1 DEF Init, DeviceType
<1>3. LockInv /\ WaiterInv /\ StopWakesWaiter
  BY ClientsAssumption DEF Init, LockInv, WaiterInv, StopWakesWaiter, InTry
<1>4. PacketInv /\ ResultInv /\ ErrorInv /\ TakenInv /\ BudgetInv
  BY DEF Init, PacketInv, ResultInv, ErrorInv, TakenInv, BudgetInv
<1> QED
  BY <1>1, <1>2, <1>3, <1>4 DEF IInv

-----------------------------------------------------------------------------------
(* Steps of the clients                                                            *)

LEMMA BeginStep == ASSUME IInv, NEW c \in Clients, Begin(c) PROVE IInv'
<1> USE DEF IInv, Begin, Move, LockFree, readerVars, deviceVars
<1>1. SessionType' /\ ClientType' /\ DeviceType'
  BY BoundsAssumption DEF SessionType, ClientType, DeviceType, ClientPlaces
<1>2. LockInv' /\ WaiterInv' /\ StopWakesWaiter'
  BY ClientsAssumption
     DEF LockInv, WaiterInv, StopWakesWaiter, InTry, ClientType, SessionType
<1>3. PacketInv' /\ ResultInv' /\ ErrorInv'
  BY DEF PacketInv, ResultInv, ErrorInv, Answers, ClientType
<1>4. TakenInv' /\ BudgetInv'
  BY DEF TakenInv, BudgetInv, ClientType
<1> QED
  BY <1>1, <1>2, <1>3, <1>4

LEMMA ArmStep == ASSUME IInv, NEW c \in Clients, Arm(c) \/ ArmRefused(c) PROVE IInv'
<1> USE DEF IInv, Arm, ArmRefused, Move, readerVars, waiterVars, deviceVars
<1>1. SessionType' /\ ClientType' /\ DeviceType'
  BY DEF SessionType, ClientType, DeviceType, ClientPlaces
<1>2. LockInv' /\ WaiterInv' /\ StopWakesWaiter'
  BY ClientsAssumption
     DEF LockInv, WaiterInv, StopWakesWaiter, InTry, ClientType, SessionType
<1>3. PacketInv' /\ ResultInv' /\ ErrorInv'
  BY DEF PacketInv, ResultInv, ErrorInv, Answers, ClientType
<1>4. TakenInv' /\ BudgetInv'
  BY DEF TakenInv, BudgetInv, ClientType
<1> QED
  BY <1>1, <1>2, <1>3, <1>4

LEMMA WriteStep == ASSUME IInv, NEW c \in Clients, Write(c) PROVE IInv'
<1> USE DEF IInv, Write, Move, sessionVars, readerVars, waiterVars
<1>1. requests + 1 \in 0..MaxRequests
  BY BoundsAssumption DEF BudgetInv, DeviceType
<1>2. SessionType' /\ ClientType'
  BY <1>1 DEF SessionType, ClientType, ClientPlaces
<1>3. DeviceType'
  <2>1. [shape |-> shape[c], cause |-> requests + 1] \in Packets
    BY <1>1 DEF ClientType, Packets
  <2>2. owed' \in SUBSET Packets
    BY <2>1 DEF DeviceType
  <2> QED
    BY <1>1, <2>2 DEF DeviceType
<1>4. LockInv' /\ WaiterInv' /\ StopWakesWaiter'
  BY DEF LockInv, WaiterInv, StopWakesWaiter, InTry, ClientType
<1>5. PacketInv' /\ ResultInv' /\ ErrorInv' /\ TakenInv'
  BY DEF PacketInv, ResultInv, ErrorInv, Answers, ClientType, TakenInv
<1>6. BudgetInv'
  BY DEF BudgetInv, LockInv, ClientType
<1> QED
  BY <1>2, <1>3, <1>4, <1>5, <1>6

\* What ends the session leaves its waiter woken.
LEMMA EndSessionStep ==
  ASSUME IInv, EndSession, UNCHANGED <<waiter, lock, shape>>,
         \/ UNCHANGED <<pc, result>>
         \/ \E c \in Clients : /\ pc[c] = "write" /\ pc' = [pc EXCEPT ![c] = "clear"]
                               /\ result' = [result EXCEPT ![c] = Failed],
         TakenInv', requests' = requests, subscribed' = subscribed,
         reader' \in ReaderPlaces, taken' = taken, number' = number, DeviceType'
  PROVE  IInv'
<1> USE DEF IInv, EndSession, WakeWaiter, waiterVars
<1>1. SessionType'
  BY DEF SessionType
<1>2. ClientType'
  BY DEF ClientType, SessionType, ClientPlaces
<1>3. LockInv' /\ WaiterInv'
  BY DEF LockInv, WaiterInv, InTry, ClientType
<1>4. StopWakesWaiter' /\ ErrorInv'
  BY DEF StopWakesWaiter, ErrorInv, ClientType, SessionType
<1>5. PacketInv' /\ ResultInv'
  BY DEF PacketInv, ResultInv, Answers, ClientType
<1>6. BudgetInv'
  BY DEF BudgetInv, ClientType
<1> QED
  BY <1>1, <1>2, <1>3, <1>4, <1>5, <1>6

LEMMA WriteFailsStep == ASSUME IInv, NEW c \in Clients, WriteFails(c) PROVE IInv'
<1>1. TakenInv' /\ DeviceType' /\ reader' \in ReaderPlaces
  BY DEF IInv, WriteFails, TakenInv, DeviceType, SessionType, readerVars, deviceVars
<1> QED
  BY <1>1, EndSessionStep DEF WriteFails, Move, readerVars, deviceVars

LEMMA WaitStep ==
  ASSUME IInv, NEW c \in Clients, WaitReturns(c) \/ TimesOut(c) \/ Result(c)
  PROVE  IInv'
<1> USE DEF IInv, WaitReturns, TimesOut, Result, Move, sessionVars, readerVars, waiterVars,
            deviceVars
<1>1. SessionType' /\ DeviceType'
  BY DEF SessionType, DeviceType
<1>2. ClientType'
  BY DEF ClientType, ClientPlaces
<1>3. LockInv' /\ WaiterInv' /\ StopWakesWaiter'
  BY DEF LockInv, WaiterInv, StopWakesWaiter, InTry, ClientType
<1>4. PacketInv' /\ ErrorInv'
  BY DEF PacketInv, ErrorInv, Answers
<1>5. ResultInv'
  BY DEF PacketInv, ResultInv, Answers, ClientType
<1>6. TakenInv' /\ BudgetInv'
  BY DEF TakenInv, BudgetInv, ClientType
<1> QED
  BY <1>1, <1>2, <1>3, <1>4, <1>5, <1>6

LEMMA EndStep == ASSUME IInv, NEW c \in Clients, End(c) PROVE IInv'
<1> USE DEF IInv, End, Cleared, Move, readerVars, waiterVars, deviceVars
<1>1. SessionType' /\ ClientType' /\ DeviceType'
  BY DEF SessionType, ClientType, DeviceType, ClientPlaces
<1>2. LockInv' /\ WaiterInv' /\ StopWakesWaiter'
  BY ClientsAssumption
     DEF LockInv, WaiterInv, StopWakesWaiter, InTry, ClientType, SessionType
<1>3. PacketInv' /\ ResultInv' /\ ErrorInv'
  BY DEF PacketInv, ResultInv, ErrorInv, Answers, ClientType
<1>4. TakenInv' /\ BudgetInv'
  BY DEF TakenInv, BudgetInv, ClientType
<1> QED
  BY <1>1, <1>2, <1>3, <1>4

-----------------------------------------------------------------------------------
(* Steps of the reader and of the world outside                                    *)

\* A step that moves no client, ends no session and wakes only with a packet or an
\* error.
LEMMA OtherStep ==
  ASSUME IInv, SessionType', DeviceType', TakenInv',
         event' \in [Clients -> BOOLEAN], error' \in [Clients -> BOOLEAN],
         packet' \in [Clients -> Packets \cup {Nothing}],
         UNCHANGED <<stop, waiter, lock, clientVars, requests>>,
         \A c \in Clients : event[c] => event'[c],
         PacketInv', ErrorInv'
  PROVE  IInv'
<1> USE DEF IInv, clientVars
<1>1. ClientType'
  BY DEF ClientType
<1>2. LockInv' /\ WaiterInv' /\ ResultInv' /\ BudgetInv'
  BY DEF LockInv, WaiterInv, ResultInv, Answers, BudgetInv
<1>3. StopWakesWaiter'
  BY DEF StopWakesWaiter, SessionType
<1> QED
  BY <1>1, <1>2, <1>3

\* A step that leaves the waiters alone as well.
LEMMA QuietStep ==
  ASSUME IInv, SessionType', DeviceType', TakenInv',
         UNCHANGED <<stop, waiter, lock, clientVars, waiterVars, requests>>
  PROVE  IInv'
<1>1. PacketInv' /\ ErrorInv'
  BY DEF IInv, PacketInv, ErrorInv, Answers, clientVars, waiterVars
<1>2. /\ event' \in [Clients -> BOOLEAN] /\ error' \in [Clients -> BOOLEAN]
      /\ packet' \in [Clients -> Packets \cup {Nothing}]
  BY DEF IInv, ClientType, waiterVars
<1> QED
  BY <1>1, <1>2, OtherStep DEF waiterVars

LEMMA ReaderStep == ASSUME IInv, Reader PROVE IInv'
<1> USE DEF ReaderMoves, sessionVars
<1>1. CASE Check \/ SelectTimesOut \/ SelectReady \/ ReadFails
  <2>1. SessionType' /\ DeviceType' /\ TakenInv'
    BY <1>1 DEF IInv, SessionType, DeviceType, TakenInv, ReaderPlaces, Check, SelectTimesOut,
                SelectReady, ReadFails, deviceVars
  <2> QED
    BY <1>1, <2>1, QuietStep
       DEF Check, SelectTimesOut, SelectReady, ReadFails, deviceVars
<1>2. CASE ReadPacket
  <2>1. Head(incoming) \in Packets /\ Tail(incoming) \in Seq(Packets)
    BY <1>2 DEF IInv, ReadPacket, DeviceType
  <2>2. SessionType' /\ DeviceType' /\ TakenInv'
    BY <1>2, <2>1 DEF IInv, SessionType, DeviceType, TakenInv, ReaderPlaces, ReadPacket
  <2> QED
    BY <1>2, <2>2, QuietStep DEF ReadPacket
<1>3. CASE ReadStray
  <2>1. taken' \in Packets
    BY <1>3, BoundsAssumption DEF ReadStray, Packets
  <2>2. SessionType' /\ DeviceType' /\ TakenInv'
    BY <1>3, <2>1 DEF IInv, SessionType, DeviceType, TakenInv, ReaderPlaces, ReadStray,
                      deviceVars
  <2> QED
    BY <1>3, <2>2, QuietStep DEF ReadStray, deviceVars
<1>4. CASE DispatchReply \/ MatcherRaises
  <2>1. taken \in Packets /\ waiter \in Clients
    BY <1>4 DEF IInv, DispatchReply, MatcherRaises, Matches, TakenInv, SessionType
  <2>2. SessionType' /\ DeviceType' /\ TakenInv'
    BY <1>4 DEF IInv, SessionType, DeviceType, TakenInv, ReaderPlaces, DispatchReply,
                MatcherRaises, deviceVars
  <2>3. /\ event' \in [Clients -> BOOLEAN] /\ error' \in [Clients -> BOOLEAN]
        /\ packet' \in [Clients -> Packets \cup {Nothing}]
    BY <1>4, <2>1 DEF IInv, ClientType, DispatchReply, MatcherRaises
  <2>4. PacketInv' /\ ErrorInv' /\ \A c \in Clients : event[c] => event'[c]
    BY <1>4, <2>1 DEF IInv, ClientType, DispatchReply, MatcherRaises, PacketInv, ErrorInv,
                      Answers, Matches, clientVars
  <2> QED
    BY <1>4, <2>2, <2>3, <2>4, OtherStep DEF DispatchReply, MatcherRaises, deviceVars
<1>5. CASE DispatchEvent \/ Deliver
  <2>1. taken \in Packets
    BY <1>5 DEF IInv, DispatchEvent, Deliver, TakenInv
  <2>2. SessionType' /\ DeviceType' /\ TakenInv'
    BY <1>5, <2>1 DEF IInv, SessionType, DeviceType, TakenInv, ReaderPlaces, DispatchEvent,
                      Deliver, deviceVars
  <2> QED
    BY <1>5, <2>2, QuietStep DEF DispatchEvent, Deliver, deviceVars
<1>6. CASE ReaderEnds
  <2>1. TakenInv' /\ DeviceType' /\ reader' \in ReaderPlaces
    BY <1>6 DEF IInv, ReaderEnds, TakenInv, DeviceType, ReaderPlaces, deviceVars
  <2> QED
    BY <1>6, <2>1, EndSessionStep DEF ReaderEnds, clientVars, deviceVars
<1> QED
  BY <1>1, <1>2, <1>3, <1>4, <1>5, <1>6 DEF Reader

LEMMA OutsideStep == ASSUME IInv, Outside PROVE IInv'
<1>1. CASE Close
  <2>1. TakenInv' /\ DeviceType' /\ reader' \in ReaderPlaces
    BY <1>1 DEF IInv, Close, TakenInv, DeviceType, SessionType, readerVars, deviceVars
  <2> QED
    BY <1>1, <2>1, EndSessionStep DEF Close, clientVars, readerVars, deviceVars
<1>2. CASE Subscribe \/ Unsubscribe \/ NumberReused \/ Disconnect
  <2>1. SessionType' /\ DeviceType' /\ TakenInv'
    BY <1>2 DEF IInv, SessionType, DeviceType, TakenInv, Subscribe, Unsubscribe,
                NumberReused, Disconnect, sessionVars, readerVars, deviceVars
  <2> QED
    BY <1>2, <2>1, QuietStep
       DEF Subscribe, Unsubscribe, NumberReused, Disconnect, sessionVars, deviceVars
<1>3. CASE Answer \/ SendEvent
  <2>1. [shape |-> Event, cause |-> 0] \in Packets
    BY BoundsAssumption DEF Packets
  <2>2. incoming' \in Seq(Packets) /\ owed' \in SUBSET Packets
    BY <1>3, <2>1 DEF IInv, DeviceType, Answer, SendEvent
  <2>3. SessionType' /\ DeviceType' /\ TakenInv'
    BY <1>3, <2>2 DEF IInv, SessionType, DeviceType, TakenInv, Answer, SendEvent,
                      sessionVars, readerVars
  <2> QED
    BY <1>3, <2>3, QuietStep DEF Answer, SendEvent, sessionVars
<1> QED
  BY <1>1, <1>2, <1>3 DEF Outside

LEMMA StepIInv == ASSUME IInv, [Next]_vars PROVE IInv'
<1>1. ASSUME NEW c \in Clients, Exchange(c) PROVE IInv'
  BY <1>1, BeginStep, ArmStep, WriteStep, WriteFailsStep, WaitStep, EndStep DEF Exchange
<1>2. CASE UNCHANGED vars
  <2>1. SessionType' /\ DeviceType' /\ TakenInv'
    BY <1>2 DEF vars, IInv, SessionType, DeviceType, TakenInv, sessionVars, readerVars,
                deviceVars
  <2> QED
    BY <1>2, <2>1, QuietStep DEF vars, sessionVars, deviceVars
<1> QED
  BY <1>1, <1>2, ReaderStep, OutsideStep DEF Next

THEOREM SessionInvariant == Spec => []IInv
BY InitIInv, StepIInv, PTL DEF Spec

\* Every variable keeps its type, however many clients exchange packets.
THEOREM SessionTypes == Spec => []TypeOK
<1>1. IInv => TypeOK
  BY DEF IInv, TypeOK
<1> QED
  BY <1>1, SessionInvariant, PTL

\* The thread that holds the request lock finds no waiter: exchange never raises its
\* internal error.
THEOREM SessionNoInternalError == Spec => []NoInternalError
<1>1. IInv => NoInternalError
  BY DEF IInv, NoInternalError, LockInv, WaiterInv, InTry, SessionType
<1> QED
  BY <1>1, SessionInvariant, PTL

\* A session that has stopped has woken its waiter, by whichever thread it was ended.
THEOREM SessionStopWakesWaiter == Spec => []StopWakesWaiter
<1>1. IInv => StopWakesWaiter
  BY DEF IInv
<1> QED
  BY <1>1, SessionInvariant, PTL

-----------------------------------------------------------------------------------
(* The session implements ExchangeService.                                         *)

Admitted == \E c \in Clients : pc[c] \in InTry

Outcome == [c \in Clients |-> IF pc[c] = "idle" THEN result[c] ELSE Nothing]

LEMMA InitImplements == Init => Service!Init
BY DEF Init, Service!Init

\* A step that changes nothing the service speaks of.
LEMMA Stutters ==
  ASSUME IInv, UNCHANGED <<stop, lock, shape>>,
         \/ UNCHANGED <<pc, result>>
         \/ \E c \in Clients : /\ pc[c] \in InTry /\ pc'[c] \in InTry
                               /\ pc' = [pc EXCEPT ![c] = pc'[c]]
                               /\ \A d \in Clients \ {c} : result'[d] = result[d]
  PROVE  UNCHANGED Service!vars
<1>1. Outcome' = Outcome /\ Admitted' = Admitted
  BY DEF IInv, ClientType, InTry, Outcome, Admitted
<1> QED
  BY <1>1 DEF Service!vars, Outcome, Admitted, InTry

\* The end of the session is the only change to what the service calls open.
LEMMA EndSessionShuts ==
  ASSUME IInv, stop' = TRUE, UNCHANGED <<lock, shape>>,
         \/ UNCHANGED <<pc, result>>
         \/ \E c \in Clients : /\ pc[c] \in InTry /\ pc'[c] \in InTry
                               /\ pc' = [pc EXCEPT ![c] = pc'[c]]
                               /\ \A d \in Clients \ {c} : result'[d] = result[d]
  PROVE  [Service!Next]_(Service!vars)
<1>1. CASE stop
  <2>1. stop' = stop
    BY <1>1 DEF IInv, SessionType
  <2> QED
    BY <2>1, Stutters
<1>2. CASE ~stop
  <2>1. Outcome' = Outcome /\ Admitted' = Admitted
    BY DEF IInv, ClientType, InTry, Outcome, Admitted
  <2>2. Service!Shut
    BY <1>2, <2>1 DEF Service!Shut, Outcome, Admitted, InTry
  <2> QED
    BY <2>2 DEF Service!Next
<1> QED
  BY <1>1, <1>2

LEMMA ClientImplements ==
  ASSUME IInv, NEW c \in Clients, Exchange(c)
  PROVE  [Service!Next]_(Service!vars)
<1> USE DEF Move
<1>0. \A d \in Clients : d # c /\ lock \in {c, NoOne} => pc[d] = "idle"
  BY ClientsAssumption DEF IInv, LockInv
<1>1. CASE Begin(c)
  <2>1. ~Admitted /\ ~Admitted'
    BY <1>0, <1>1 DEF Begin, LockFree, IInv, ClientType, Admitted, InTry
  <2>2. Outcome' = [Outcome EXCEPT ![c] = Nothing]
    BY <1>1 DEF Begin, IInv, ClientType, Outcome
  <2>3. Service!Ask(c)
    BY <1>1, <2>1, <2>2 DEF Begin, LockFree, Service!Ask, Outcome, Admitted, InTry
  <2> QED
    BY <2>3 DEF Service!Next
<1>2. CASE ArmRefused(c)
  <2>1. ~Admitted /\ ~Admitted' /\ lock = c
    BY <1>0, <1>2 DEF ArmRefused, IInv, LockInv, ClientType, Admitted, InTry
  <2>2. Outcome' = [Outcome EXCEPT ![c] = Failed]
    BY <1>2 DEF ArmRefused, IInv, ClientType, Outcome
  <2>3. Service!Fail(c)
    BY <1>2, <2>1, <2>2
       DEF ArmRefused, Service!Fail, Service!Finish, Outcome, Admitted, InTry
  <2> QED
    BY <2>3 DEF Service!Next
<1>3. CASE Arm(c)
  <2>1. ~Admitted /\ Admitted' /\ lock = c
    BY <1>0, <1>3 DEF Arm, IInv, LockInv, ClientType, Admitted, InTry
  <2>2. Outcome' = Outcome
    BY <1>3 DEF Arm, IInv, ClientType, Outcome
  <2>3. Service!Admit(c)
    BY <1>3, <2>1, <2>2 DEF Arm, Service!Admit, Outcome, Admitted, InTry
  <2> QED
    BY <2>3 DEF Service!Next
<1>4. CASE Write(c) \/ WaitReturns(c) \/ TimesOut(c) \/ Result(c)
  BY <1>4, Stutters
     DEF Write, WaitReturns, TimesOut, Result, InTry, IInv, ClientType, sessionVars
<1>5. CASE WriteFails(c)
  BY <1>5, EndSessionShuts DEF WriteFails, EndSession, InTry, IInv, ClientType
<1>6. CASE End(c)
  <2>1. Admitted /\ ~Admitted' /\ lock = c
    BY <1>0, <1>6 DEF End, IInv, LockInv, ClientType, Admitted, InTry
  <2>2. Outcome' = [Outcome EXCEPT ![c] = result[c]]
    BY <1>6 DEF End, IInv, ClientType, Outcome
  <2>3. Service!Finish(c, result[c])
    BY <1>6, <2>1, <2>2 DEF End, Service!Finish, Outcome, Admitted, InTry
  <2>4. result[c] = Failed \/ Answers(c, result[c])
    BY <1>6 DEF End, IInv, ResultInv
  <2>5. CASE result[c] = Failed
    <3>1. Service!Fail(c)
      BY <2>3, <2>5 DEF Service!Fail, Service!Finish
    <3> QED
      BY <3>1 DEF Service!Next
  <2>6. CASE Answers(c, result[c])
    <3>1. Service!Succeed(c)
      <4>1. \E d \in Clients : pc[d] \in {"write", "wait", "woken", "clear"}
        BY <2>1 DEF Admitted, InTry
      <4>2. result[c] \in Packets /\ result[c].shape = shape[c]
        BY <2>6 DEF Answers
      <4> QED
        BY <2>3, <4>1, <4>2 DEF Service!Succeed, Service!Finish
    <3> QED
      BY <3>1 DEF Service!Next
  <2> QED
    BY <2>4, <2>5, <2>6
<1> QED
  BY <1>1, <1>2, <1>3, <1>4, <1>5, <1>6 DEF Exchange

LEMMA OtherImplements ==
  ASSUME IInv, Reader \/ Outside \/ UNCHANGED vars
  PROVE  [Service!Next]_(Service!vars)
<1>1. CASE ReaderEnds \/ Close
  BY <1>1, EndSessionShuts DEF ReaderEnds, Close, EndSession, clientVars
<1>2. CASE ~(ReaderEnds \/ Close)
  <2>1. UNCHANGED <<stop, lock, clientVars>>
    BY <1>2 DEF Reader, Outside, vars, Check, SelectTimesOut, SelectReady, ReadPacket,
                ReadFails, ReadStray, DispatchReply, MatcherRaises, DispatchEvent, Deliver,
                Subscribe, Unsubscribe, Answer, SendEvent, Disconnect, NumberReused,
                sessionVars
  <2> QED
    BY <2>1, Stutters DEF clientVars
<1> QED
  BY <1>1, <1>2

\* Clients that see only the outcome of exchanges cannot tell the session, with its
\* reader thread and its waiter, from a service that answers one request at a time.
THEOREM SessionImplementsService == Spec => ImplementsService
<1>1. IInv /\ [Next]_vars => [Service!Next]_(Service!vars)
  BY ClientImplements, OtherImplements DEF Next
<1> QED
  BY <1>1, InitImplements, SessionInvariant, PTL DEF Spec, ImplementsService, Service!Spec

-----------------------------------------------------------------------------------
(* An answer goes to one place.                                                    *)

Real(p) == p \in Packets /\ p.cause # 0
Trying(c) == pc[c] \in {"write", "wait", "woken"}

\* The places of a packet on its way, and where it ends.
Queued(p) == \E i \in 1..Len(incoming) : incoming[i] = p
Held(p)   == \E c \in Clients : Trying(c) /\ packet[c] = p
Returned(p) == \E c \in Clients : result[c] = p
Spent(p)  == p \in delivered \/ Returned(p)
Placed(p) == p \in owed \/ Queued(p) \/ taken = p \/ Held(p) \/ Spent(p)

\* A stopped session has failed its waiter, ...
FailedInv ==
  /\ file # "own" => stop
  /\ stop /\ waiter # NoOne => error[waiter]

\* ... so what another file sent is never returned: only the answers to requests are.
StrayInv ==
  /\ \A c \in Clients : pc[c] = "arm" => packet[c] = Nothing
  /\ \A i \in 1..Len(incoming) : Real(incoming[i]) \/ incoming[i].shape = Event
  /\ taken \in Packets => Real(taken) \/ taken.shape = Event \/ stop
  /\ \A c \in Clients : Trying(c) /\ packet[c] # Nothing => Real(packet[c]) \/ error[c]
  /\ \A p \in owed : Real(p)
  /\ \A c \in Clients : result[c] \in Packets => Real(result[c])

\* An answer is to a request that has been written, and in one place at most.
Once(p) ==
  /\ Placed(p) => p.cause <= requests
  /\ p \in owed => ~Queued(p) /\ taken # p /\ ~Held(p) /\ ~Spent(p)
  /\ Queued(p) => taken # p /\ ~Held(p) /\ ~Spent(p)
  /\ taken = p => ~Held(p) /\ ~Spent(p)
  /\ Held(p) => ~Spent(p)
  /\ p \in delivered => ~Returned(p)
  /\ \A c, d \in Clients : result[c] = p /\ result[d] = p => c = d
  /\ \A i, j \in 1..Len(incoming) : incoming[i] = p /\ incoming[j] = p => i = j
OnceInv == \A p \in Packets : p.cause # 0 => Once(p)

AnswerInv == FailedInv /\ StrayInv /\ OnceInv

LEMMA InitAnswers == Init => AnswerInv
<1> SUFFICES ASSUME Init PROVE AnswerInv
  OBVIOUS
<1> USE DEF Init
<1>1. FailedInv /\ StrayInv
  BY NothingAssumption DEF FailedInv, StrayInv, Trying
<1>2. \A p \in Packets : ~Placed(p)
  BY NothingAssumption DEF Placed, Queued, Held, Spent, Returned, Trying
<1>3. OnceInv
  BY <1>2, NothingAssumption DEF OnceInv, Once, Placed, Queued, Held, Spent, Returned, Trying
<1> QED
  BY <1>1, <1>3 DEF AnswerInv

LEMMA FailedNext == IInv /\ FailedInv /\ [Next]_vars => FailedInv'
<1> SUFFICES ASSUME IInv, FailedInv, [Next]_vars PROVE FailedInv'
  OBVIOUS
<1> USE DEF FailedInv
<1>0. waiter \in Clients \cup {NoOne} /\ error \in [Clients -> BOOLEAN] /\ stop \in BOOLEAN
  BY DEF IInv, SessionType, ClientType
<1>1. ASSUME EndSession, UNCHANGED waiter PROVE FailedInv'
  BY <1>0, <1>1 DEF EndSession, WakeWaiter, waiterVars
<1>2. ASSUME UNCHANGED <<stop, file>>,
             waiter' # NoOne => waiter' = waiter \/ ~stop,
             \A c \in Clients : error[c] /\ waiter = c => error'[c]
      PROVE  FailedInv'
  BY <1>0, <1>2
<1>3. ASSUME NEW c \in Clients, Exchange(c) PROVE FailedInv'
  <2>1. CASE Begin(c)
    <3>1. waiter # c
      BY <2>1 DEF Begin, Move, IInv, WaiterInv, InTry
    <3> QED
      BY <1>0, <1>2, <2>1, <3>1 DEF Begin
  <2>2. CASE WriteFails(c)
    BY <1>1, <2>2 DEF WriteFails
  <2>3. CASE ~(Begin(c) \/ WriteFails(c))
    BY <1>0, <1>2, <1>3, <2>3
       DEF Exchange, ArmRefused, Arm, Write, WaitReturns, TimesOut, Result, End, Cleared,
           waiterVars, sessionVars
  <2> QED
    BY <2>1, <2>2, <2>3
<1>4. CASE Reader
  <2>1. CASE ReaderEnds
    BY <1>1, <2>1 DEF ReaderEnds
  <2>2. CASE DispatchReply \/ MatcherRaises
    BY <1>0, <1>2, <2>2 DEF DispatchReply, MatcherRaises, sessionVars
  <2>3. CASE ~(ReaderEnds \/ DispatchReply \/ MatcherRaises)
    <3>1. UNCHANGED <<sessionVars, waiterVars>>
      BY <1>4, <2>3 DEF Reader, Check, SelectTimesOut, SelectReady, ReadPacket, ReadFails,
                        ReadStray, DispatchEvent, Deliver
    <3> QED
      BY <1>2, <3>1 DEF sessionVars, waiterVars
  <2> QED
    BY <2>1, <2>2, <2>3
<1>5. CASE Outside
  <2>1. CASE Close
    BY <1>1, <2>1 DEF Close
  <2>2. CASE NumberReused
    BY <2>2 DEF NumberReused, waiterVars
  <2>3. CASE ~(Close \/ NumberReused)
    BY <1>2, <1>5, <2>3 DEF Outside, Subscribe, Unsubscribe, Answer, SendEvent, Disconnect,
                            sessionVars, waiterVars
  <2> QED
    BY <2>1, <2>2, <2>3
<1>6. CASE UNCHANGED vars
  BY <1>6 DEF vars, sessionVars, waiterVars
<1> QED
  BY <1>3, <1>4, <1>5, <1>6 DEF Next

LEMMA StrayNext == IInv /\ FailedInv /\ StrayInv /\ [Next]_vars => StrayInv'
<1> SUFFICES ASSUME IInv, FailedInv, StrayInv, [Next]_vars PROVE StrayInv'
  OBVIOUS
<1>0. /\ waiter \in Clients \cup {NoOne} /\ incoming \in Seq(Packets)
      /\ pc \in [Clients -> ClientPlaces]
      /\ packet \in [Clients -> Packets \cup {Nothing}]
      /\ error \in [Clients -> BOOLEAN]
      /\ result \in [Clients -> Packets \cup {Nothing, Failed}]
  BY DEF IInv, SessionType, ClientType, DeviceType
<1> USE DEF StrayInv, Trying
\* Most steps leave the packets where they are, or drop them.
<1>1. ASSUME UNCHANGED <<owed, incoming, packet>>,
             taken' \in {taken, Nothing}, stop => stop',
             \A c \in Clients : result'[c] \in {result[c], Nothing, Failed},
             \A c \in Clients : pc'[c] = "arm" => pc[c] = "arm",
             \A c \in Clients : Trying(c)' => Trying(c) \/ packet[c] = Nothing,
             \A c \in Clients : Trying(c) /\ error[c] => error'[c]
      PROVE  StrayInv'
  BY <1>0, <1>1, NothingAssumption
<1>2. ASSUME NEW c \in Clients, Exchange(c) PROVE StrayInv'
  <2>1. CASE Begin(c)
    BY <1>0, <2>1, NothingAssumption DEF Begin, Move, readerVars, deviceVars
  <2>2. CASE Write(c)
    <3>1. requests + 1 \in 0..MaxRequests /\ requests \in Nat
      BY <2>2, BoundsAssumption DEF Write, Move, IInv, BudgetInv, DeviceType
    <3>2. Real([shape |-> shape[c], cause |-> requests + 1])
      BY <3>1 DEF Real, Packets, IInv, ClientType
    <3> QED
      BY <1>0, <2>2, <3>2 DEF Write, Move, sessionVars, readerVars, waiterVars
  <2>3. CASE Result(c)
    BY <1>0, <2>3, NothingAssumption
       DEF Result, Move, sessionVars, readerVars, waiterVars, deviceVars
  <2>4. CASE WriteFails(c)
    <3>1. /\ UNCHANGED <<owed, incoming, packet, taken>> /\ stop'
          /\ pc' = [pc EXCEPT ![c] = "clear"] /\ result' = [result EXCEPT ![c] = Failed]
          /\ \A d \in Clients : error[d] => error'[d]
      BY <1>0, <2>4 DEF WriteFails, Move, EndSession, WakeWaiter, waiterVars, readerVars,
                        deviceVars
    <3> QED
      BY <1>0, <1>1, <3>1
  <2>5. CASE ArmRefused(c) \/ Arm(c) \/ WaitReturns(c) \/ TimesOut(c) \/ End(c)
    BY <1>0, <1>1, <2>5
       DEF ArmRefused, Arm, WaitReturns, TimesOut, End, Move, sessionVars, readerVars,
           waiterVars, deviceVars
  <2> QED
    BY <1>2, <2>1, <2>2, <2>3, <2>4, <2>5 DEF Exchange
<1>3. CASE Reader
  <2> USE DEF clientVars
  <2>1. CASE ReadPacket
    <3>1. Head(incoming) = incoming[1] /\ 1 \in 1..Len(incoming)
      BY <1>0, <2>1 DEF ReadPacket
    <3>2. \A i \in 1..Len(incoming') : incoming'[i] = incoming[i + 1]
                                       /\ i + 1 \in 1..Len(incoming)
      BY <1>0, <2>1 DEF ReadPacket
    <3> QED
      BY <2>1, <3>1, <3>2 DEF ReadPacket, sessionVars, waiterVars
  <2>2. CASE ReadStray
    BY <2>2 DEF ReadStray, FailedInv, sessionVars, waiterVars, deviceVars
  <2>3. CASE DispatchReply
    <3>1. taken \in Packets /\ taken.shape = shape[waiter] /\ waiter \in Clients
      BY <1>0, <2>3 DEF DispatchReply, ReaderMoves, Matches, IInv, TakenInv
    <3>2. taken.shape # Event
      BY <3>1, ShapesAssumption DEF IInv, ClientType
    <3>3. Real(taken) \/ error[waiter]
      BY <3>1, <3>2, ClientsAssumption DEF FailedInv
    <3>4. pc[waiter] # "arm"
      BY <3>1 DEF IInv, WaiterInv, InTry
    <3> QED
      BY <1>0, <2>3, <3>1, <3>3, <3>4, NothingAssumption DEF DispatchReply, sessionVars, deviceVars
  <2>4. CASE ReaderEnds
    <3>1. /\ UNCHANGED <<owed, incoming, packet, taken, pc, result>> /\ stop'
          /\ \A d \in Clients : error[d] => error'[d]
      BY <1>0, <2>4 DEF ReaderEnds, EndSession, WakeWaiter, waiterVars, deviceVars
    <3> QED
      BY <1>0, <1>1, <3>1
  <2>5. CASE ~(ReadPacket \/ ReadStray \/ DispatchReply \/ ReaderEnds)
    <3>1. /\ UNCHANGED <<owed, incoming, packet, pc, result, stop>>
          /\ taken' \in {taken, Nothing}
          /\ \A d \in Clients : error[d] => error'[d]
      BY <1>0, <1>3, <2>5
         DEF Reader, Check, SelectTimesOut, SelectReady, ReadFails, MatcherRaises,
             DispatchEvent, Deliver, sessionVars, waiterVars, deviceVars
    <3> QED
      BY <1>0, <1>1, <3>1
  <2> QED
    BY <2>1, <2>2, <2>3, <2>4, <2>5
<1>4. CASE Outside
  <2> USE DEF clientVars
  <2>1. CASE Answer \/ SendEvent
    <3>1. PICK p \in Packets :
            /\ Real(p) \/ p.shape = Event
            /\ incoming' = Append(incoming, p)
            /\ owed' \subseteq owed
            /\ UNCHANGED <<sessionVars, readerVars, waiterVars, clientVars>>
      <4>1. CASE Answer
        BY <4>1 DEF Answer, IInv, DeviceType
      <4>2. CASE SendEvent
        <5>1. [shape |-> Event, cause |-> 0] \in Packets
          BY BoundsAssumption DEF Packets
        <5> QED
          BY <4>2, <5>1 DEF SendEvent
      <4> QED
        BY <2>1, <4>1, <4>2
    <3>2. \A i \in 1..Len(incoming') : \/ i \in 1..Len(incoming) /\ incoming'[i] = incoming[i]
                                       \/ incoming'[i] = p
      BY <1>0, <3>1
    <3> QED
      BY <3>1, <3>2 DEF sessionVars, readerVars, waiterVars
  <2>2. CASE Close
    <3>1. /\ UNCHANGED <<owed, incoming, packet, taken, pc, result>> /\ stop'
          /\ \A d \in Clients : error[d] => error'[d]
      BY <1>0, <2>2 DEF Close, EndSession, WakeWaiter, waiterVars, deviceVars, readerVars
    <3> QED
      BY <1>0, <1>1, <3>1
  <2>3. CASE Subscribe \/ Unsubscribe \/ Disconnect \/ NumberReused
    BY <1>0, <1>1, <2>3 DEF Subscribe, Unsubscribe, Disconnect, NumberReused, sessionVars,
                            readerVars, waiterVars, deviceVars
  <2> QED
    BY <1>4, <2>1, <2>2, <2>3 DEF Outside
<1>5. CASE UNCHANGED vars
  BY <1>5, <1>1, <1>0 DEF vars, sessionVars, readerVars, waiterVars, clientVars, deviceVars
<1> QED
  BY <1>2, <1>3, <1>4, <1>5 DEF Next

\* Where an answer may be after a step: where it was, further on, or nowhere.
LEMMA OnceKept ==
  ASSUME IInv, NEW p \in Packets, Once(p), requests' \in Nat, requests <= requests',
         p \in owed' => p \in owed, incoming' = incoming,
         taken' = p => taken = p, Held(p)' => Held(p),
         p \in delivered' => p \in delivered,
         \A c \in Clients : result'[c] = p => result[c] = p
  PROVE  Once(p)'
<1>1. Queued(p)' <=> Queued(p)
  BY DEF Queued
<1>2. Returned(p)' => Returned(p)
  BY DEF Returned
<1>3. p.cause \in Nat /\ requests \in Nat
  BY BoundsAssumption DEF Packets, IInv, DeviceType
<1> QED
  BY <1>1, <1>2, <1>3 DEF Once, Placed, Spent

LEMMA ClientOnce ==
  ASSUME IInv, StrayInv, NEW p \in Packets, p.cause # 0, Once(p),
         NEW c \in Clients, Exchange(c)
  PROVE  Once(p)'
<1>0. /\ pc \in [Clients -> ClientPlaces] /\ requests \in Nat /\ p.cause \in Nat
      /\ packet \in [Clients -> Packets \cup {Nothing}]
      /\ result \in [Clients -> Packets \cup {Nothing, Failed}]
      /\ p # Nothing /\ p # Failed
  BY BoundsAssumption, NothingAssumption DEF IInv, ClientType, DeviceType, Packets
<1>1. CASE Write(c)
  <2> DEFINE q == [shape |-> shape[c], cause |-> requests + 1]
  <2>1. /\ pc' = [pc EXCEPT ![c] = "wait"] /\ pc[c] = "write" /\ requests' = requests + 1
        /\ UNCHANGED <<incoming, taken, packet, result, delivered>>
        /\ owed' \in {owed, owed \cup {q}}
    BY <1>1 DEF Write, Move, readerVars, waiterVars
  <2>2. Held(p)' => Held(p)
    BY <1>0, <2>1 DEF Held, Trying
  <2>3. CASE p = q
    <3>1. p.cause = requests + 1
      BY <2>3
    <3>2. ~Placed(p)
      BY <1>0, <3>1 DEF Once
    <3>3. ~Queued(p)' /\ taken' # p /\ ~Held(p)' /\ ~Spent(p)' /\ ~Returned(p)'
      BY <2>1, <2>2, <3>2 DEF Placed, Queued, Spent, Returned
    <3>4. p.cause <= requests'
      BY <1>0, <2>1, <3>1
    <3> QED
      BY <2>1, <3>3, <3>4 DEF Once, Queued, Spent, Returned
  <2>4. CASE p # q
    <3>1. p \in owed' => p \in owed
      BY <2>1, <2>4
    <3>2. requests' \in Nat /\ requests <= requests'
      BY <1>0, <2>1
    <3> QED
      BY <2>1, <2>2, <3>1, <3>2, OnceKept
  <2> QED
    BY <2>3, <2>4
<1>2. CASE Result(c)
  <2>1. /\ pc' = [pc EXCEPT ![c] = "clear"] /\ pc[c] = "woken"
        /\ UNCHANGED <<owed, incoming, taken, packet, delivered, requests>>
        /\ \/ result' = [result EXCEPT ![c] = Failed]
           \/ result' = [result EXCEPT ![c] = packet[c]]
    BY <1>2 DEF Result, Move, readerVars, waiterVars, deviceVars
  <2>2. Held(p)' => Held(p)
    BY <1>0, <2>1 DEF Held, Trying
  <2>3. CASE result'[c] = p
    <3>1. packet[c] = p /\ Held(p) /\ result' = [result EXCEPT ![c] = p]
      BY <1>0, <2>1, <2>3 DEF Held, Trying
    <3>2. ~Held(p)'
      BY <1>0, <2>1 DEF Held, Trying, IInv, WaiterInv, InTry
    <3>3. ~Queued(p)' /\ taken' # p /\ p \notin owed' /\ p \notin delivered'
      BY <2>1, <3>1 DEF Once, Queued, Spent
    <3>4. \A d \in Clients : result'[d] = p => d = c
      BY <1>0, <3>1 DEF Once, Spent, Returned
    <3>5. p.cause <= requests'
      BY <2>1, <3>1 DEF Once, Placed
    <3> QED
      BY <3>2, <3>3, <3>4, <3>5 DEF Once, Queued
  <2>4. CASE result'[c] # p
    <3>1. \A d \in Clients : result'[d] = p => result[d] = p
      BY <1>0, <2>1, <2>4
    <3> QED
      BY <1>0, <2>1, <2>2, <3>1, OnceKept
  <2> QED
    BY <2>3, <2>4
<1>3. CASE ~(Write(c) \/ Result(c))
  <2>1. UNCHANGED <<owed, incoming, taken, delivered, requests>>
    BY <1>3 DEF Exchange, Begin, ArmRefused, Arm, WriteFails, WaitReturns, TimesOut, End,
                readerVars, deviceVars
  <2>2. \A d \in Clients : result'[d] = p => result[d] = p
    BY <1>0, <1>3 DEF Exchange, Begin, ArmRefused, Arm, WriteFails, WaitReturns, TimesOut, End
  <2>3. Held(p)' => Held(p)
    <3>1. CASE Begin(c)
      BY <1>0, <3>1 DEF Begin, Move, Held, Trying
    <3>2. CASE Arm(c)
      BY <1>0, <3>2 DEF Arm, Move, Held, Trying, StrayInv, waiterVars
    <3>3. CASE WriteFails(c)
      <4>1. packet' = packet
        BY <3>3 DEF WriteFails, EndSession, WakeWaiter, waiterVars
      <4> QED
        BY <1>0, <3>3, <4>1 DEF WriteFails, Move, Held, Trying
    <3>4. CASE ArmRefused(c) \/ WaitReturns(c) \/ TimesOut(c) \/ End(c)
      BY <1>0, <3>4 DEF ArmRefused, WaitReturns, TimesOut, End, Move, Held, Trying, waiterVars
    <3> QED
      BY <1>3, <3>1, <3>2, <3>3, <3>4 DEF Exchange
  <2> QED
    BY <1>0, <2>1, <2>2, <2>3, OnceKept
<1> QED
  BY <1>1, <1>2, <1>3

LEMMA ReaderOnce ==
  ASSUME IInv, NEW p \in Packets, p.cause # 0, Once(p), Reader
  PROVE  Once(p)'
<1>0. /\ incoming \in Seq(Packets) /\ requests \in Nat /\ p # Nothing
      /\ waiter \in Clients \cup {NoOne}
      /\ packet \in [Clients -> Packets \cup {Nothing}]
  BY BoundsAssumption, NothingAssumption DEF IInv, SessionType, ClientType, DeviceType
<1>1. CASE ReadPacket
  <2>1. /\ taken' = incoming[1] /\ Len(incoming) >= 1
        /\ Len(incoming') = Len(incoming) - 1
        /\ \A i \in 1..Len(incoming') : incoming'[i] = incoming[i + 1]
        /\ UNCHANGED <<owed, packet, pc, result, delivered, requests>>
    BY <1>0, <1>1 DEF ReadPacket, waiterVars, clientVars
  <2>2. Len(incoming) \in Nat
    BY <1>0
  <2> DEFINE n == Len(incoming)
             m == Len(incoming')
  <2>3. /\ n \in Nat /\ n >= 1 /\ m = n - 1
        /\ \A i \in 1..m : i + 1 \in 1..n /\ i + 1 # 1 /\ incoming'[i] = incoming[i + 1]
    BY <2>1, <2>2
  <2> HIDE DEF n, m
  <2>4. (Held(p)' <=> Held(p)) /\ (Spent(p)' <=> Spent(p)) /\ (Returned(p)' <=> Returned(p))
    BY <2>1 DEF Held, Trying, Spent, Returned
  <2>5. \A i, j \in 1..n : incoming[i] = p /\ incoming[j] = p => i = j
    BY DEF Once, n
  <2>6. \A i, j \in 1..m : incoming'[i] = p /\ incoming'[j] = p => i = j
    <3> SUFFICES ASSUME NEW i \in 1..m, NEW j \in 1..m, incoming'[i] = p, incoming'[j] = p
                 PROVE  i = j
      OBVIOUS
    <3>1. i + 1 = j + 1
      BY <2>3, <2>5
    <3> QED
      BY <2>3, <3>1
  <2>7. Queued(p)' => Queued(p)
    BY <2>3 DEF Queued, n, m
  <2>8. incoming[1] = p => Queued(p) /\ ~Queued(p)'
    BY <2>3, <2>5 DEF Queued, n, m
  <2> QED
    BY <2>1, <2>4, <2>6, <2>7, <2>8 DEF Once, Placed, Spent, m
<1>2. CASE ReadStray
  <2>1. taken' # p /\ UNCHANGED <<owed, incoming, packet, pc, result, delivered, requests>>
    BY <1>2 DEF ReadStray, waiterVars, clientVars, deviceVars
  <2>2. Held(p)' <=> Held(p)
    BY <2>1 DEF Held, Trying
  <2> QED
    BY <1>0, <2>1, <2>2, OnceKept
<1>3. CASE DispatchReply
  <2>1. /\ waiter \in Clients /\ taken' = Nothing
        /\ packet' = [packet EXCEPT ![waiter] = taken]
        /\ UNCHANGED <<owed, incoming, pc, result, delivered, requests>>
    BY <1>0, <1>3 DEF DispatchReply, Matches, clientVars, deviceVars
  <2>2. Held(p)' => Held(p) \/ taken = p
    BY <1>0, <2>1 DEF Held, Trying
  <2>3. CASE taken = p
    <3>1. p \notin owed' /\ ~Queued(p)' /\ taken' # p /\ ~Spent(p)' /\ ~Returned(p)'
      BY <1>0, <2>1, <2>3 DEF Once, Queued, Spent, Returned
    <3>2. p.cause <= requests'
      BY <2>1, <2>3 DEF Once, Placed
    <3> QED
      BY <3>1, <3>2 DEF Once, Placed, Queued, Spent, Returned
  <2>4. CASE taken # p
    BY <1>0, <2>1, <2>2, <2>4, OnceKept
  <2> QED
    BY <2>3, <2>4
<1>4. CASE Deliver
  <2>1. /\ taken' = Nothing /\ delivered' = delivered \cup {taken}
        /\ UNCHANGED <<owed, incoming, packet, pc, result, requests>>
    BY <1>4 DEF Deliver, waiterVars, clientVars, deviceVars
  <2>2. Held(p)' <=> Held(p)
    BY <2>1 DEF Held, Trying
  <2>3. CASE taken = p
    <3>1. p \notin owed' /\ ~Queued(p)' /\ taken' # p /\ ~Held(p)' /\ ~Returned(p)'
      BY <1>0, <2>1, <2>2, <2>3 DEF Once, Queued, Spent, Returned
    <3>2. p.cause <= requests'
      BY <2>1, <2>3 DEF Once, Placed
    <3> QED
      BY <3>1, <3>2 DEF Once, Placed, Queued, Spent, Returned
  <2>4. CASE taken # p
    BY <1>0, <2>1, <2>2, <2>4, OnceKept
  <2> QED
    BY <2>3, <2>4
<1>5. CASE ~(ReadPacket \/ ReadStray \/ DispatchReply \/ Deliver)
  <2>1. /\ UNCHANGED <<owed, incoming, pc, result, delivered, requests>>
        /\ taken' \in {taken, Nothing}
    BY <1>5 DEF Reader, Check, SelectTimesOut, SelectReady, ReadFails, MatcherRaises,
                DispatchEvent, ReaderEnds, clientVars, deviceVars
  <2>2. packet' = packet
    BY <1>5 DEF Reader, Check, SelectTimesOut, SelectReady, ReadFails, MatcherRaises,
                DispatchEvent, ReaderEnds, EndSession, WakeWaiter, waiterVars
  <2>3. Held(p)' <=> Held(p)
    BY <2>1, <2>2 DEF Held, Trying
  <2> QED
    BY <1>0, <2>1, <2>3, OnceKept
<1> QED
  BY <1>1, <1>2, <1>3, <1>4, <1>5

LEMMA OutsideOnce ==
  ASSUME IInv, NEW p \in Packets, p.cause # 0, Once(p), Outside
  PROVE  Once(p)'
<1>0. incoming \in Seq(Packets) /\ Len(incoming) \in Nat /\ requests \in Nat
  BY BoundsAssumption DEF IInv, DeviceType
<1>1. /\ UNCHANGED <<taken, packet, pc, result, delivered, requests>>
      /\ Held(p)' <=> Held(p)
      /\ Spent(p)' <=> Spent(p)
      /\ Returned(p)' <=> Returned(p)
  <2>1. UNCHANGED <<taken, packet, pc, result, delivered, requests>>
    BY DEF Outside, Close, EndSession, WakeWaiter, Subscribe, Unsubscribe, Answer, SendEvent,
           Disconnect, NumberReused, readerVars, waiterVars, clientVars, deviceVars
  <2> QED
    BY <2>1 DEF Held, Trying, Spent, Returned
<1>2. CASE Answer \/ SendEvent
  <2>1. PICK q : /\ incoming' = Append(incoming, q)
                 /\ \/ q \in owed /\ owed' = owed \ {q}
                    \/ q.cause = 0 /\ owed' = owed
    BY <1>2 DEF Answer, SendEvent
  <2> DEFINE n == Len(incoming)
  <2>2. /\ n \in Nat /\ Len(incoming') = n + 1
        /\ \A i \in 1..n : incoming'[i] = incoming[i]
        /\ incoming'[n + 1] = q
    BY <1>0, <2>1
  <2> HIDE DEF n
  <2>3. CASE q = p
    <3>1. p \in owed /\ p \notin owed'
      BY <2>1, <2>3
    <3>2. \A i \in 1..n : incoming[i] # p
      BY <3>1 DEF Once, Queued, n
    <3>3. \A i \in 1..(n + 1) : incoming'[i] = p => i = n + 1
      BY <2>2, <3>2
    <3> QED
      BY <1>1, <2>2, <3>1, <3>3 DEF Once, Placed, Spent
  <2>4. CASE q # p
    <3>1. \A i \in 1..(n + 1) : incoming'[i] = p => i \in 1..n /\ incoming[i] = p
      BY <2>2, <2>4
    <3>2. Queued(p)' => Queued(p)
      BY <2>2, <3>1 DEF Queued, n
    <3>3. p \in owed' => p \in owed
      BY <2>1
    <3>4. \A i, j \in 1..Len(incoming') : incoming'[i] = p /\ incoming'[j] = p => i = j
      BY <2>2, <3>1 DEF Once, n
    <3> QED
      BY <1>1, <3>2, <3>3, <3>4 DEF Once, Placed, Spent
  <2> QED
    BY <2>3, <2>4
<1>3. CASE ~(Answer \/ SendEvent)
  <2>1. UNCHANGED <<owed, incoming>>
    BY <1>3 DEF Outside, Close, Subscribe, Unsubscribe, Disconnect, NumberReused, deviceVars
  <2> QED
    BY <1>0, <1>1, <2>1, OnceKept
<1> QED
  BY <1>2, <1>3

LEMMA AnswersNext == IInv /\ AnswerInv /\ [Next]_vars => AnswerInv'
<1> SUFFICES ASSUME IInv, AnswerInv, [Next]_vars PROVE AnswerInv'
  OBVIOUS
<1> USE DEF AnswerInv
<1>1. ASSUME NEW p \in Packets, p.cause # 0 PROVE Once(p)'
  <2>1. Once(p)
    BY <1>1 DEF OnceInv
  <2>2. CASE UNCHANGED vars
    <3>1. Held(p)' <=> Held(p)
      BY <2>2 DEF vars, waiterVars, clientVars, Held, Trying
    <3>2. requests \in Nat
      BY BoundsAssumption DEF IInv, DeviceType
    <3> QED
      BY <2>1, <2>2, <3>1, <3>2, OnceKept DEF vars, readerVars, clientVars, deviceVars
  <2> QED
    BY <1>1, <2>1, <2>2, ClientOnce, ReaderOnce, OutsideOnce DEF Next
<1>2. OnceInv'
  BY <1>1 DEF OnceInv
<1> QED
  BY <1>2, FailedNext, StrayNext

\* An answer of the device is returned by one exchange or handed to the subscribers, and
\* never both, for any number of clients, requests and packets under way, also when a
\* request has timed out before its answer came or the descriptor number is reused.
THEOREM SessionEachAnswerOnce == Spec => []EachAnswerOnce
<1>1. AnswerInv => EachAnswerOnce
  <2> SUFFICES ASSUME AnswerInv, NEW c \in Clients, result[c] \in Packets
               PROVE  /\ result[c] \notin delivered
                      /\ \A d \in Clients \ {c} : result[d] # result[c]
    BY DEF EachAnswerOnce
  <2>1. Once(result[c])
    BY DEF AnswerInv, StrayInv, OnceInv, Real
  <2> QED
    BY <2>1 DEF Once, Returned
<1> QED
  BY <1>1, InitAnswers, AnswersNext, InitIInv, StepIInv, PTL DEF Spec

=================================================================================
