----------------------------- MODULE ExchangeService -----------------------------
(***********************************************************************************)
(* What a HID session promises the threads that exchange packets through it, with  *)
(* no reader thread, no waiter and no device: exchanges happen one at a time, an   *)
(* exchange is admitted only while the session is open, and it ends either with a  *)
(* packet of the shape it asked for or with a failure.                             *)
(***********************************************************************************)
CONSTANTS Clients, Shapes, Packets, NoOne, Nothing, Failed

VARIABLES
  open,      \* may exchanges be admitted
  active,    \* the client whose exchange is under way, or NoOne
  admitted,  \* has it been admitted
  asked,     \* the shape of each client's last exchange
  answer     \* its outcome: Nothing while it is under way

vars == <<open, active, admitted, asked, answer>>

Init ==
  /\ open = TRUE
  /\ active = NoOne
  /\ admitted = FALSE
  /\ asked \in [Clients -> Shapes]
  /\ answer = [c \in Clients |-> Nothing]

Ask(c) ==
  /\ active = NoOne
  /\ active' = c
  /\ \E s \in Shapes : asked' = [asked EXCEPT ![c] = s]
  /\ answer' = [answer EXCEPT ![c] = Nothing]
  /\ UNCHANGED <<open, admitted>>

Admit(c) ==
  /\ active = c /\ open /\ ~admitted
  /\ admitted' = TRUE
  /\ UNCHANGED <<open, active, asked, answer>>

Finish(c, outcome) ==
  /\ active = c
  /\ active' = NoOne
  /\ admitted' = FALSE
  /\ answer' = [answer EXCEPT ![c] = outcome]
  /\ UNCHANGED <<open, asked>>

Succeed(c) == admitted /\ \E p \in Packets : p.shape = asked[c] /\ Finish(c, p)

Fail(c) == Finish(c, Failed)

Shut ==
  /\ open
  /\ open' = FALSE
  /\ UNCHANGED <<active, admitted, asked, answer>>

Next == Shut \/ \E c \in Clients : Ask(c) \/ Admit(c) \/ Succeed(c) \/ Fail(c)

Spec == Init /\ [][Next]_vars
==================================================================================
