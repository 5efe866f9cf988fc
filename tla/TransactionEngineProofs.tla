----------------------- MODULE TransactionEngineProofs -----------------------
(* The engine changes a mouse at most once per step, and ends a verified        *)
(* transaction well only after its last change was read back: for every set of   *)
(* declared transactions, authorizations and values.                              *)
EXTENDS TransactionEngine, TLAPS

\* A run that is under way has a target.
HasTarget == phase = "running" => target \in Values

\* What is still to be executed has changed nothing, what was executed once at most.
Once ==
  \A i \in DOMAIN effects :
    /\ effects[i] <= 1
    /\ phase = "running" /\ step <= i => effects[i] = 0

\* A verified transaction leaves its last step with a reading.
ReadLast ==
  phase = "running" /\ run \in Verified /\ step > Len(Steps[run]) => afterWrite

IInv == TypeOK /\ HasTarget /\ Once /\ ReadLast /\ DoneIsVerified

\* The steps of a transaction are numbered.
LEMMA StepsAreNumbered ==
  ASSUME NEW t \in Transactions
  PROVE  /\ DOMAIN Steps[t] = 1..Len(Steps[t]) /\ Len(Steps[t]) \in Nat
         /\ \A i \in DOMAIN Steps[t] : Steps[t][i] \in StepRecords
<1>1. Steps[t] \in Seq(StepRecords)
  BY DeclaredTransactions
<1> QED
  BY <1>1

\* A transaction starts at its first step or after its takeover, and a verified one before
\* its end.
LEMMA FirstStepType ==
  ASSUME NEW t \in Transactions
  PROVE  /\ FirstStep(t) \in Nat \ {0}
         /\ t \in Verified => FirstStep(t) <= Len(Steps[t])
<1>1. FirstStep(t) \in {1, 2}
  BY DEF FirstStep
<1>2. ASSUME t \in Verified PROVE FirstStep(t) <= Len(Steps[t])
  <2>1. Len(Steps[t]) \in Nat /\ Len(Steps[t]) > 0 /\ Steps[t][Len(Steps[t])].kind = "read"
    BY <1>2, StepsAreNumbered, VerifiedReadsLast
  <2>2. CASE t = Rate
    <3>1. Steps[t][1].kind = "take"
      BY <2>2, TakesFirst
    <3>2. Len(Steps[t]) # 1
      BY <2>1, <3>1
    <3>3. \A n \in Nat : n > 0 /\ n # 1 => n >= 2
      OBVIOUS
    <3>4. Len(Steps[t]) >= 2
      BY <2>1, <3>2, <3>3
    <3> QED
      BY <2>1, <3>4 DEF FirstStep
  <2>3. CASE t # Rate
    BY <2>1, <2>3 DEF FirstStep
  <2> QED
    BY <2>2, <2>3
<1> QED
  BY <1>1, <1>2

-----------------------------------------------------------------------------
(* The initial state and the start of a run                                   *)

LEMMA InitInvariant == Init => IInv
<1> SUFFICES ASSUME Init PROVE IInv
  OBVIOUS
<1>1. Rate \in Transactions /\ effects = [i \in DOMAIN Steps[Rate] |-> 0]
  BY DeclaredTransactions DEF Init, NoEffects
<1>2. effects \in [DOMAIN Steps[Rate] -> Nat]
  BY <1>1
<1>3. TypeOK
  <2>1. /\ device \in Values /\ host \in BOOLEAN /\ granted \subseteq Permissions
        /\ run \in Transactions /\ phase \in {"idle", "running", "done", "failed"}
        /\ step \in Nat \ {0} /\ attempt \in Nat
    BY <1>1 DEF Init
  <2>2. effects \in [DOMAIN Steps[run] -> Nat]
    BY <1>2 DEF Init
  <2>3. /\ {target, readback} \subseteq Values \cup {None}
        /\ afterWrite \in BOOLEAN /\ completed \subseteq Transactions
    BY DEF Init
  <2> QED
    BY <2>1, <2>2, <2>3 DEF TypeOK
<1>4. HasTarget /\ Once /\ ReadLast /\ DoneIsVerified
  BY <1>1 DEF Init, HasTarget, Once, ReadLast, DoneIsVerified
<1> QED
  BY <1>3, <1>4 DEF IInv

LEMMA BeginInvariant ==
  ASSUME IInv, NEW t \in Transactions, NEW p \in Grants, NEW v \in Values, Begin(t, p, v)
  PROVE  IInv'
<1>1. FirstStep(t) \in Nat \ {0} /\ (t \in Verified => FirstStep(t) <= Len(Steps[t]))
  BY FirstStepType
<1>2. Len(Steps[t]) \in Nat /\ p \subseteq Permissions
  BY StepsAreNumbered, DeclaredTransactions
<1>3. effects' = [i \in DOMAIN Steps[t] |-> 0] /\ effects' \in [DOMAIN Steps[t] -> Nat]
  BY DEF Begin, NoEffects
<1>4. TypeOK'
  BY <1>1, <1>2, <1>3 DEF Begin, IInv, TypeOK
<1>5. Once' /\ HasTarget' /\ DoneIsVerified'
  BY <1>3 DEF Begin, Once, HasTarget, DoneIsVerified
<1>6. ReadLast'
  BY <1>1, <1>2 DEF Begin, ReadLast
<1> QED
  BY <1>4, <1>5, <1>6 DEF IInv

-----------------------------------------------------------------------------
(* What a step does                                                           *)

\* A step that is executed is one of its run's, has changed nothing yet, and is the last
\* of a verified run only if it reads.
LEMMA ExecutedStep ==
  ASSUME IInv, NEW kind, Executing(kind)
  PROVE  /\ run \in Transactions /\ phase = "running" /\ target \in Values
         /\ DOMAIN effects = 1..Len(Steps[run]) /\ Len(Steps[run]) \in Nat
         /\ step \in DOMAIN effects /\ effects[step] = 0
         /\ run \in Verified /\ kind # "read" => step < Len(Steps[run])
<1>1. /\ run \in Transactions /\ phase = "running" /\ step \in Nat \ {0}
      /\ step <= Len(Steps[run]) /\ DOMAIN effects = DOMAIN Steps[run]
      /\ Steps[run][step].kind = kind
  BY DEF IInv, TypeOK, Executing, Current
<1>2. DOMAIN effects = 1..Len(Steps[run]) /\ Len(Steps[run]) \in Nat
  BY <1>1, StepsAreNumbered
<1>3. step \in DOMAIN effects
  BY <1>1, <1>2
<1>4. effects[step] = 0
  BY <1>1, <1>2, <1>3 DEF IInv, Once
<1>5. run \in Verified /\ kind # "read" => step # Len(Steps[run])
  BY <1>1, VerifiedReadsLast
<1> QED
  BY <1>1, <1>2, <1>3, <1>4, <1>5 DEF IInv, HasTarget

\* A step that sends nothing, or whose request was ignored, and that ends, is repeated or
\* fails, keeps the invariant; if it did not read, it is not the last of a verified run.
LEMMA QuietStep ==
  ASSUME IInv, NEW kind, Executing(kind), kind # "read",
         Ignores, UNCHANGED <<order, readback, completed>>,
         NextStep \/ RetriesOrFails \/ Fails
  PROVE  IInv'
<1>1. /\ run \in Transactions /\ phase = "running" /\ target \in Values
      /\ DOMAIN effects = 1..Len(Steps[run]) /\ Len(Steps[run]) \in Nat
      /\ step \in DOMAIN effects
      /\ run \in Verified => step < Len(Steps[run])
  BY ExecutedStep
<1>2. UNCHANGED <<device, host, effects, afterWrite, granted, run, target, readback, completed>>
  BY DEF Ignores, order
<1>3. /\ step' \in {step, step + 1} /\ phase' \in {"running", "failed"} /\ attempt' \in Nat
  BY <1>1 DEF NextStep, RetriesOrFails, Fails, IInv, TypeOK
<1>4. TypeOK'
  BY <1>1, <1>2, <1>3 DEF IInv, TypeOK
<1>5. Once'
  BY <1>1, <1>2, <1>3 DEF IInv, Once
<1>6. ReadLast' /\ HasTarget' /\ DoneIsVerified'
  BY <1>1, <1>2, <1>3 DEF ReadLast, HasTarget, DoneIsVerified
<1> QED
  BY <1>4, <1>5, <1>6 DEF IInv

\* A request that is applied is not sent again: the step ends or the run fails.
LEMMA ChangingStep ==
  ASSUME IInv, NEW kind, Executing(kind), kind # "read",
         Applies, UNCHANGED <<order, readback, completed>>,
         NextStep \/ Fails
  PROVE  IInv'
<1>1. /\ run \in Transactions /\ phase = "running" /\ target \in Values
      /\ DOMAIN effects = 1..Len(Steps[run]) /\ Len(Steps[run]) \in Nat
      /\ step \in DOMAIN effects /\ effects[step] = 0
      /\ run \in Verified => step < Len(Steps[run])
  BY ExecutedStep
<1>2. /\ UNCHANGED <<granted, run, target, readback, completed>>
      /\ device' \in Values /\ host' \in BOOLEAN /\ afterWrite' = FALSE
      /\ effects' = [effects EXCEPT ![step] = 1]
  BY <1>1 DEF Applies, Changed, order, IInv, TypeOK
<1>3. /\ \/ step' = step + 1 /\ phase' = "running"
         \/ step' = step /\ phase' = "failed"
      /\ attempt' \in Nat
  BY <1>1 DEF NextStep, Fails, IInv, TypeOK
<1>4. TypeOK'
  <2>1. effects' \in [DOMAIN Steps[run'] -> Nat]
    BY <1>2 DEF IInv, TypeOK
  <2>2. /\ device' \in Values /\ host' \in BOOLEAN /\ granted' \subseteq Permissions
        /\ run' \in Transactions /\ phase' \in {"idle", "running", "done", "failed"}
        /\ step' \in Nat \ {0} /\ attempt' \in Nat
    BY <1>1, <1>2, <1>3 DEF IInv, TypeOK
  <2>3. /\ {target', readback'} \subseteq Values \cup {None}
        /\ afterWrite' \in BOOLEAN /\ completed' \subseteq Transactions
    BY <1>2 DEF IInv, TypeOK
  <2> QED
    BY <2>1, <2>2, <2>3 DEF TypeOK
<1>5. Once'
  BY <1>1, <1>2, <1>3 DEF IInv, Once, TypeOK
<1>6. ReadLast' /\ HasTarget' /\ DoneIsVerified'
  BY <1>1, <1>2, <1>3 DEF ReadLast, HasTarget, DoneIsVerified
<1> QED
  BY <1>4, <1>5, <1>6 DEF IInv

\* A reading, or a failed one, changes nothing of the mouse, and the step ends only if it read.
LEMMA ReadingStep ==
  ASSUME IInv, Executing("read"), UNCHANGED <<device, host, order, effects, completed>>,
         readback' \in Values \cup {None},
         \/ afterWrite' = TRUE /\ (NextStep \/ RetriesOrFails)
         \/ UNCHANGED afterWrite /\ (RetriesOrFails \/ Fails)
  PROVE  IInv'
<1>1. /\ run \in Transactions /\ phase = "running" /\ target \in Values
      /\ DOMAIN effects = 1..Len(Steps[run]) /\ Len(Steps[run]) \in Nat
      /\ step \in DOMAIN effects
  BY ExecutedStep
<1>2. UNCHANGED <<device, host, effects, granted, run, target, completed>>
  BY DEF order
<1>3. /\ step' \in {step, step + 1} /\ phase' \in {"running", "failed"} /\ attempt' \in Nat
      /\ afterWrite' \in BOOLEAN
      /\ step' = step \/ afterWrite' = TRUE
  <2>1. step' \in {step, step + 1} /\ phase' \in {"running", "failed"} /\ attempt' \in Nat
    BY <1>1 DEF NextStep, RetriesOrFails, Fails, IInv, TypeOK
  <2>2. afterWrite' = TRUE \/ (afterWrite' = afterWrite /\ step' = step)
    BY DEF RetriesOrFails, Fails
  <2>3. afterWrite \in BOOLEAN
    BY DEF IInv, TypeOK
  <2> QED
    BY <2>1, <2>2, <2>3
<1>4. TypeOK'
  BY <1>1, <1>2, <1>3 DEF IInv, TypeOK
<1>5. Once'
  BY <1>1, <1>2, <1>3 DEF IInv, Once
<1>6. ReadLast' /\ HasTarget' /\ DoneIsVerified'
  BY <1>1, <1>2, <1>3 DEF ReadLast, HasTarget, DoneIsVerified
<1> QED
  BY <1>4, <1>5, <1>6 DEF IInv

LEMMA FinishInvariant == ASSUME IInv, Finish PROVE IInv'
<1>1. UNCHANGED <<device, host, granted, run, target, step, attempt, readback, effects, afterWrite>>
  BY DEF Finish, order
<1>2. \/ phase' = "done" /\ completed' = completed \cup {run} /\ Verifies(run)
      \/ phase' = "failed" /\ completed' = completed
  BY DEF Finish
<1>3. TypeOK'
  BY <1>1, <1>2 DEF IInv, TypeOK
<1>4. Once' /\ HasTarget' /\ ReadLast'
  BY <1>1, <1>2 DEF IInv, Once, HasTarget, ReadLast
<1>5. DoneIsVerified'
  BY <1>1, <1>2 DEF IInv, ReadLast, Finish, Verifies, DoneIsVerified
<1> QED
  BY <1>3, <1>4, <1>5 DEF IInv

\* The user and the plug touch the mouse, not the run.
LEMMA OutsideInvariant ==
  ASSUME IInv, device' \in Values, host' \in BOOLEAN,
         UNCHANGED <<granted, run, target, phase, step, attempt, readback, effects, afterWrite,
                     completed>>
  PROVE  IInv'
<1>1. TypeOK'
  BY DEF IInv, TypeOK
<1>2. Once' /\ HasTarget' /\ ReadLast' /\ DoneIsVerified'
  BY DEF IInv, Once, HasTarget, ReadLast, DoneIsVerified
<1> QED
  BY <1>1, <1>2 DEF IInv

-----------------------------------------------------------------------------
(* The invariant and the theorems                                             *)

LEMMA StepInvariant == IInv /\ [Next]_vars => IInv'
<1> SUFFICES ASSUME IInv, [Next]_vars PROVE IInv'
  OBVIOUS
<1>1. ASSUME NEW t \in Transactions, NEW p \in Grants, NEW v \in Values, Begin(t, p, v)
      PROVE  IInv'
  BY <1>1, BeginInvariant
<1>2. CASE Wait
  <2>1. Ignores /\ UNCHANGED <<order, readback, completed>>
    BY <1>2 DEF Wait, Ignores
  <2> QED
    BY <1>2, <2>1, QuietStep DEF Wait
<1>3. CASE Acknowledged
  <2>1. PICK kind \in {"take", "write"} : Executing(kind)
    BY <1>3 DEF Acknowledged, Changing
  <2>2. CASE Applies
    BY <1>3, <2>1, <2>2, ChangingStep DEF Acknowledged
  <2>3. CASE Ignores
    BY <1>3, <2>1, <2>3, QuietStep DEF Acknowledged
  <2> QED
    BY <1>3, <2>2, <2>3 DEF Acknowledged
<1>4. ASSUME NEW s \in BOOLEAN, AsksRetry(s) PROVE IInv'
  <2>1. PICK kind \in {"take", "write"} : Executing(kind)
    BY <1>4 DEF AsksRetry, Changing
  <2>2. CASE s /\ Applies
    <3>1. Fails
      BY <1>4, <2>2 DEF AsksRetry, MayResend
    <3> QED
      BY <1>4, <2>1, <2>2, <3>1, ChangingStep DEF AsksRetry
  <2>3. CASE Ignores
    BY <1>4, <2>1, <2>3, QuietStep DEF AsksRetry
  <2> QED
    BY <1>4, <2>2, <2>3 DEF AsksRetry
<1>5. CASE Breaks
  <2>1. PICK kind \in {"take", "write"} : Executing(kind)
    BY <1>5 DEF Breaks, Changing
  <2>2. CASE Applies
    BY <1>5, <2>1, <2>2, ChangingStep DEF Breaks
  <2>3. CASE Ignores
    BY <1>5, <2>1, <2>3, QuietStep DEF Breaks
  <2> QED
    BY <1>5, <2>2, <2>3 DEF Breaks
<1>6. CASE Read
  <2>1. readback' \in Values \cup {None}
    BY <1>6 DEF Read, IInv, TypeOK
  <2> QED
    BY <1>6, <2>1, ReadingStep DEF Read
<1>7. CASE ReadFails
  <2>1. readback' \in Values \cup {None}
    BY <1>7 DEF ReadFails, IInv, TypeOK
  <2> QED
    BY <1>7, <2>1, ReadingStep DEF ReadFails
<1>8. CASE Finish
  BY <1>8, FinishInvariant
<1>9. CASE UserChanges
  <2>1. device' \in Values /\ host' \in BOOLEAN
    BY <1>9 DEF UserChanges, IInv, TypeOK
  <2> QED
    BY <1>9, <2>1, OutsideInvariant DEF UserChanges, order
<1>10. CASE Replugged
  <2>1. device' \in Values /\ host' \in BOOLEAN
    BY <1>10 DEF Replugged, IInv, TypeOK
  <2> QED
    BY <1>10, <2>1, OutsideInvariant DEF Replugged, order
<1>11. CASE UNCHANGED vars
  <2>1. device' \in Values /\ host' \in BOOLEAN
    BY <1>11 DEF vars, IInv, TypeOK
  <2> QED
    BY <1>11, <2>1, OutsideInvariant DEF vars
<1> QED
  BY <1>1, <1>2, <1>3, <1>4, <1>5, <1>6, <1>7, <1>8, <1>9, <1>10, <1>11 DEF Next

LEMMA Invariant == Spec => []IInv
<1>1. Init => IInv
  BY InitInvariant
<1>2. IInv /\ [Next]_vars => IInv'
  BY StepInvariant
<1> QED
  BY <1>1, <1>2, PTL DEF Spec

\* Every variable keeps its type, whatever transactions are declared.
THEOREM EngineType == Spec => []TypeOK
<1>1. IInv => TypeOK
  BY DEF IInv
<1> QED
  BY <1>1, Invariant, PTL

\* A request that may have been applied is never sent again, so that no step changes the
\* mouse twice (transaction_engine.py:199-228).
THEOREM EngineChangesOnce == Spec => []ChangesOnce
<1>1. IInv => ChangesOnce
  BY DEF IInv, Once, ChangesOnce
<1> QED
  BY <1>1, Invariant, PTL

\* A verified transaction ends well only with the target read back after its last change
\* (learned_hid_transport.py, learned_polling_transport.py).
THEOREM EngineDoneIsVerified == Spec => []DoneIsVerified
<1>1. IInv => DoneIsVerified
  BY DEF IInv
<1> QED
  BY <1>1, Invariant, PTL

=============================================================================
