-------------------------- MODULE TransactionEngine --------------------------
(* The engine that runs a declared protocol transaction over an adapter        *)
(* (transaction_engine.py), the learned DPI adapter (learned_hid_transport.py)  *)
(* and the learned polling transport (learned_polling_transport.py).            *)
(*                                                                            *)
(* A run executes the steps of one transaction against a mouse whose buttons   *)
(* may change its setting at any time. An attempt may be lost, refused, or     *)
(* applied without an answer; the adapter tells the engine whether it may have *)
(* had an effect. Bytes, frames and delays are abstracted.                     *)
EXTENDS Integers, Sequences

CONSTANTS Transactions, \* names of the declared transactions
          Steps,        \* the steps of each
          Safety,       \* its declared class
          Needs,        \* transactions that must have been completed before
          Verified,     \* the transactions whose readback must be the target
          Rate,         \* the learned change of the polling rate
          Grants,       \* the authorizations that callers give
          Values, None

Classes == {"read_only", "reversible", "persistent", "dangerous", "unknown"}
Permissions == {"passive", "active", "reversible", "persistent", "dangerous"}

\* A step: what it does, whether its transport sends a report, how often it is
\* retried, and whether a condition on its result is tested.
StepRecords == [kind : {"wait", "take", "write", "read"}, sends : BOOLEAN,
                retries : Nat, checks : BOOLEAN]

ASSUME DeclaredTransactions ==
  /\ Steps \in [Transactions -> Seq(StepRecords)]
  /\ Safety \in [Transactions -> Classes]
  /\ Needs \in [Transactions -> SUBSET Transactions]
  /\ Verified \subseteq Transactions /\ Rate \in Transactions
  /\ Grants \subseteq SUBSET Permissions
  /\ None \notin Values

\* Conditions are tested on replies that were read, never on a write; and only
\* the change of the polling rate takes a mouse over, in its first step.
ASSUME WritesAreUnconditional ==
  \A t \in Transactions : \A i \in DOMAIN Steps[t] :
    /\ Steps[t][i].checks => Steps[t][i].kind = "read"
    /\ Steps[t][i].kind = "take" => t = Rate /\ i = 1

\* The change of the polling rate begins with the takeover.
ASSUME TakesFirst == Len(Steps[Rate]) > 0 /\ Steps[Rate][1].kind = "take"

\* What is verified is read after the last write.
ASSUME VerifiedReadsLast ==
  \A t \in Verified : Len(Steps[t]) > 0 /\ Steps[t][Len(Steps[t])].kind = "read"

VARIABLES
  device,     \* the value the mouse has
  host,       \* it takes its polling rate from the host
  granted,    \* the permissions of the run
  run, phase, \* the transaction and what became of it
  step,       \* index of its current step
  attempt,    \* attempts of that step that were made
  target,     \* the requested value
  readback,   \* what the context holds as read from the mouse
  effects,    \* how often each step of the run changed the mouse
  afterWrite, \* readback was taken after the run's last effect
  completed   \* transactions whose run ended well, with this context

vars == <<device, host, granted, run, phase, step, attempt, target, readback, effects,
          afterWrite, completed>>
order == <<granted, run, target>>

NoEffects(t) == [i \in DOMAIN Steps[t] |-> 0]
Changed == effects' = [effects EXCEPT ![step] = @ + 1] /\ afterWrite' = FALSE

Init ==
  /\ device \in Values /\ host \in BOOLEAN
  /\ granted = {} /\ run = Rate /\ phase = "idle" /\ step = 1 /\ attempt = 0
  /\ target = None /\ readback = None
  /\ effects = NoEffects(Rate) /\ afterWrite = FALSE /\ completed = {}

-----------------------------------------------------------------------------
(* The gate                                                                   *)

Sends(t) == \E i \in DOMAIN Steps[t] : Steps[t][i].sends

Authorized(t, permissions) ==
  CASE Safety[t] = "unknown" -> FALSE
    [] Safety[t] = "read_only" -> (IF Sends(t) THEN "active" ELSE "passive") \in permissions
    [] OTHER -> Safety[t] \in permissions

\* Prerequisites are looked up in the context's completed transactions.
Ready(t) == Needs[t] \subseteq completed

\* The branch for a mouse that is taken over already leaves the takeover out.
FirstStep(t) == IF t = Rate /\ host THEN 2 ELSE 1

\* A refusal raises before anything is sent, and changes nothing.
Begin(t, permissions, v) ==
  /\ phase # "running"
  /\ Authorized(t, permissions) /\ Ready(t)
  /\ phase' = "running" /\ run' = t /\ granted' = permissions /\ target' = v
  /\ step' = FirstStep(t) /\ attempt' = 0 /\ afterWrite' = FALSE
  /\ effects' = NoEffects(t)
  /\ UNCHANGED <<device, host, readback, completed>>

-----------------------------------------------------------------------------
(* The steps                                                                  *)

Current == Steps[run][step]
Executing(kind) == phase = "running" /\ step <= Len(Steps[run]) /\ Current.kind = kind

NextStep == step' = step + 1 /\ attempt' = 0 /\ UNCHANGED phase
Fails == phase' = "failed" /\ UNCHANGED <<step, attempt>>

\* Another attempt is made as long as the step's budget lasts.
RetriesOrFails ==
  IF attempt < Current.retries THEN attempt' = attempt + 1 /\ UNCHANGED <<phase, step>> ELSE Fails

Wait == /\ Executing("wait")
        /\ NextStep
        /\ UNCHANGED <<device, host, order, readback, effects, afterWrite, completed>>

\* What the mouse does with a request that reached it.
Applies ==
  /\ host' = (host \/ Current.kind = "take")
  /\ device' = (IF Current.kind = "write" THEN target ELSE device)
  /\ Changed
Ignores == UNCHANGED <<device, host, effects, afterWrite>>

Changing == Executing("take") \/ Executing("write")

\* The reply to a change arrived. It may have been accepted without any effect.
Acknowledged ==
  /\ Changing
  /\ Applies \/ Ignores
  /\ NextStep
  /\ UNCHANGED <<order, readback, completed>>

\* Faulty variant: the budget decides alone.
MayResendWithinBudget(sideEffect) == TRUE
MayResend(sideEffect) == ~sideEffect

\* The adapter asks for a retry and says whether the change may have happened.
AsksRetry(sideEffect) ==
  /\ Changing
  /\ Ignores \/ (sideEffect /\ Applies)
  /\ IF MayResend(sideEffect) THEN RetriesOrFails ELSE Fails
  /\ UNCHANGED <<order, readback, completed>>

\* The transport raises: a timeout, a lost device, a refused value. The request
\* may have reached the mouse all the same.
Breaks ==
  /\ Changing
  /\ Ignores \/ Applies
  /\ Fails
  /\ UNCHANGED <<order, readback, completed>>

Met(value) == Current.checks => value = target

Read ==
  /\ Executing("read")
  /\ readback' = device /\ afterWrite' = TRUE
  /\ IF Met(device) THEN NextStep ELSE RetriesOrFails
  /\ UNCHANGED <<device, host, order, effects, completed>>

ReadFails ==
  /\ Executing("read")
  /\ RetriesOrFails \/ Fails
  /\ UNCHANGED <<device, host, order, readback, effects, afterWrite, completed>>

\* Faulty variant: the acknowledgement of the last step is taken for the proof.
VerifiesNothing(t) == TRUE
Verifies(t) == t \in Verified => readback = target

Finish ==
  /\ phase = "running" /\ step > Len(Steps[run])
  /\ IF Verifies(run) THEN phase' = "done" /\ completed' = completed \cup {run}
                      ELSE phase' = "failed" /\ UNCHANGED completed
  /\ UNCHANGED <<device, host, order, step, attempt, readback, effects, afterWrite>>

\* The user presses the DPI button, or the mouse is plugged in again.
UserChanges ==
  /\ device' \in Values
  /\ UNCHANGED <<host, order, phase, step, attempt, readback, effects, afterWrite, completed>>
Replugged ==
  /\ host' = FALSE
  /\ UNCHANGED <<device, order, phase, step, attempt, readback, effects, afterWrite, completed>>

Next ==
  \/ \E t \in Transactions, p \in Grants, v \in Values : Begin(t, p, v)
  \/ Wait \/ Acknowledged \/ Breaks \/ Read \/ ReadFails \/ Finish
  \/ \E s \in BOOLEAN : AsksRetry(s)
  \/ UserChanges \/ Replugged

Spec == Init /\ [][Next]_vars

-----------------------------------------------------------------------------
(* Properties                                                                 *)

TypeOK ==
  /\ device \in Values /\ host \in BOOLEAN
  /\ granted \subseteq Permissions
  /\ run \in Transactions /\ phase \in {"idle", "running", "done", "failed"}
  /\ step \in Nat \ {0} /\ attempt \in Nat
  /\ effects \in [DOMAIN Steps[run] -> Nat]
  /\ {target, readback} \subseteq Values \cup {None}
  /\ afterWrite \in BOOLEAN
  /\ completed \subseteq Transactions

\* However often a step of a run is retried, it changes the mouse at most once: a request
\* that may have been applied is not sent again (transaction_engine.py:199-228).
ChangesOnce == \A i \in DOMAIN effects : effects[i] <= 1

\* A run that ended well read the target from the mouse after its last change.
DoneIsVerified == phase = "done" /\ run \in Verified => afterWrite /\ readback = target

=============================================================================
