----------------------------- MODULE Persistence -----------------------------
(* The ladder of persistence tests (persistence_verifier.py, the evidence of           *)
(* discovery_lab.py): after a setting of the mouse was changed, its state is read again  *)
(* after a pause, a reread, a reconnection, a power cycle, and what the readings say is   *)
(* concluded. The mouse may forget the setting, the host may apply it again, and a        *)
(* reading may be missed or be an old one.                                                *)
EXTENDS Integers, Sequences, FiniteSetsExt

CONSTANTS
  Mice,        \* what the change does to each of them, when it is forgotten, who keeps it
  Experiments, \* what may have been observed of the change
  Users,       \* what they own and accept: [receiver, power, disruption : BOOLEAN, cost : Nat]
  MaxTests,    \* bound on tests
  None

VARIABLES
  mouse, user,
  value,       \* the setting: "old", or "new" after the change
  reported,    \* what the mouse told before, which an old reading repeats
  committed,   \* the user has saved the setting in the mouse
  effects, persistence, \* the evidence
  kept,        \* levels after which the setting was still there
  assessment

vars == <<mouse, user, value, reported, committed, effects, persistence, kept, assessment>>

-----------------------------------------------------------------------------
(* The rungs                                                                  *)

Idle == 1
Reread == 2
Reconnect == 3
Receiver == 4
PowerCycle == 5
Levels == Idle..PowerCycle

Disruptive == {Reconnect, Receiver, PowerCycle}

HumanCost == <<3, 2, 8, 11, 13>>

Class == <<"session", "session", "reconnect", "receiver_reconnect", "power_cycle">>

-----------------------------------------------------------------------------
(* Did the change take effect?                                                *)

\* An experiment holds acknowledgements, the values of a correlated field, those of a physical
\* measurement before and after, and the states that were read or pushed, with their age.
DeriveEffect(experiment) ==
  LET Of(freshness) ==
        {i \in DOMAIN experiment.states : experiment.states[i].freshness = freshness}
      Newest(indices) == experiment.states[Max(indices)].value
      field == experiment.field
      physical == experiment.physical
  IN [before |-> IF field = None THEN None ELSE field[1],
      after |-> IF Of("fresh") # {} THEN Newest(Of("fresh"))
                ELSE IF Of("stale") # {} THEN Newest(Of("stale"))
                ELSE IF field = None THEN None ELSE field[2],
      freshness |-> IF Of("fresh") # {} THEN "fresh"
                    ELSE IF Of("stale") # {} THEN "stale" ELSE "unknown",
      reported |-> field # None \/ Of("fresh") # {},
      physical |-> IF physical = None THEN "unknown"
                   ELSE IF physical[1] # physical[2] THEN "effective" ELSE "not_effective"]

NoEvidence ==
  [before |-> None, after |-> None, freshness |-> "unknown", reported |-> FALSE,
   physical |-> "unknown"]

\* The newest fresh evidence, the newest of all when none is fresh.
Decisive(evidence) ==
  LET fresh == {i \in DOMAIN evidence : evidence[i].freshness = "fresh"}
  IN IF evidence = <<>> THEN NoEvidence
     ELSE evidence[Max(IF fresh # {} THEN fresh ELSE DOMAIN evidence)]

EffectState(evidence) ==
  IF evidence.reported /\ evidence.physical = "not_effective" THEN "not_effective"
  ELSE IF evidence.physical \in {"reverted", "effective"} THEN evidence.physical
  ELSE IF evidence.reported THEN "reported" ELSE "unknown"

-----------------------------------------------------------------------------
(* How long does it last?                                                     *)

\* Faulty variant: an old reading proves as much as a fresh one.
SurvivedAtAnyAge(item) == IF item.reverts THEN FALSE ELSE item.survived

\* What a reading proves: one of a reread or more must be fresh.
Survived(item) ==
  IF item.reverts THEN FALSE
  ELSE IF item.survived = TRUE /\ item.level >= Reread /\ item.freshness # "fresh" THEN None
  ELSE item.survived

NextLevel(strongest) ==
  IF strongest = 0 THEN Idle
  ELSE IF strongest \in {Idle, Reread} THEN strongest + 1
  ELSE IF strongest = Reconnect /\ user.receiver THEN Receiver
  ELSE IF strongest \in {Reconnect, Receiver} /\ user.power THEN PowerCycle
  ELSE None

\* The items are in the order of their levels, those of a level in the order of the tests.
Precedes(items, i, j) ==
  items[i].level < items[j].level \/ (items[i].level = items[j].level /\ i <= j)

LastOf(items) ==
  LET highest == {i \in DOMAIN items : \A j \in DOMAIN items : items[j].level <= items[i].level}
  IN items[Max(highest)]

\* The first item after which the user saved the setting, or else applied it, if there is one.
Activating(items) ==
  LET commits == {i \in DOMAIN items : items[i].commit}
  IN IF commits # {} THEN commits ELSE {i \in DOMAIN items : items[i].apply}

Activation(items) ==
  {items[i] : i \in {i \in Activating(items) :
                       \A j \in Activating(items) : Precedes(items, i, j)}}

Effective(evidence, items) ==
  IF \E e \in Activation(items) : e.survived = TRUE /\ e.physical THEN "effective"
  ELSE EffectState(Decisive(evidence))

Classifications(evidence, items) ==
  LET decisive == Decisive(evidence)
      activated == \E e \in Activation(items) : e.survived = TRUE
      commits == \E i \in DOMAIN items : items[i].commit
      applies == \E i \in DOMAIN items : items[i].apply
      told == decisive.reported /\ decisive.physical # "effective"
      lasting == {i \in DOMAIN items : Survived(items[i]) = TRUE /\ items[i].level \in Levels}
      reverted == {i \in DOMAIN items : Survived(items[i]) = FALSE}
      host == \E i \in DOMAIN items : items[i].host
      device == \E i \in DOMAIN items : /\ items[i].level = PowerCycle /\ items[i].survived = TRUE
                                        /\ items[i].freshness = "fresh"
  IN {Class[items[i].level] : i \in lasting}
     \cup (IF reverted # {} THEN {"reverted"} ELSE {})
     \cup (IF \E i \in reverted : items[i].level <= Reconnect THEN {"volatile"} ELSE {})
     \cup (IF activated /\ commits THEN {"commit_required"} ELSE {})
     \cup (IF activated /\ applies THEN {"apply_required"} ELSE {})
     \cup (IF activated /\ commits /\ told THEN {"volatile_until_commit"} ELSE {})
     \cup {IF host THEN "host_stored" ELSE IF device THEN "device_stored" ELSE "unknown_storage"}

\* The highest level that is confirmed, 0 without one.
Strongest(items) ==
  Max({0} \cup {items[i].level : i \in {i \in DOMAIN items : Survived(items[i]) = TRUE}})

\* The reason to stop, and the level to test next, None when there is none.
StopAndPlan(evidence, items) ==
  LET strongest == Strongest(items)
      level == NextLevel(strongest)
      Stop(reason) == [stop |-> reason, plan |-> None]
  IN IF Effective(evidence, items) \in {"unknown", "reported", "not_effective"}
       THEN Stop("effect_not_confirmed")
     ELSE IF Activating(items) # {} THEN Stop("commit_requirement_identified")
     ELSE IF \E i \in DOMAIN items : Survived(items[i]) = FALSE THEN Stop("state_reverted")
     ELSE IF strongest >= PowerCycle THEN Stop("power_cycle_persistence_confirmed")
     ELSE IF level = None THEN Stop("no_safe_test")
     ELSE IF level \in Disruptive /\ ~user.disruption THEN Stop("user_declined")
     ELSE IF HumanCost[level] > user.cost THEN Stop("no_safe_test")
     ELSE [stop |-> IF strongest = Reconnect THEN "reconnect_persistence_confirmed"
                    ELSE "effect_confirmed",
           plan |-> level]

\* The user is asked to restore the setting when the last reading is not the original.
Restoration(evidence, items) ==
  LET original == Decisive(evidence).before
      current == IF items = <<>> THEN Decisive(evidence).after ELSE LastOf(items).after
      restored == \E i \in DOMAIN items : items[i].restored /\ items[i].after = original
  IN original # None /\ current # None /\ original # current /\ ~restored

Verify(evidence, items) ==
  [effective |-> Effective(evidence, items),
   classes |-> Classifications(evidence, items),
   strongest |-> Strongest(items),
   stop |-> StopAndPlan(evidence, items).stop,
   plan |-> StopAndPlan(evidence, items).plan,
   restore |-> Restoration(evidence, items)]

-----------------------------------------------------------------------------
(* The tests                                                                  *)

\* What was observed is so: a field and fresh states show the change where the mouse reports
\* it, a measurement where it takes effect; an old state shows anything.
Observable(experiment) ==
  LET shown == IF mouse.reports THEN "new" ELSE "old"
  IN /\ experiment.field = None \/ (mouse.reports /\ experiment.field = <<"old", "new">>)
     /\ experiment.physical \in {None, <<0, IF mouse.takes THEN 1 ELSE 0>>}
     /\ \A i \in DOMAIN experiment.states :
          experiment.states[i].freshness = "fresh" => experiment.states[i].value = shown

Init ==
  /\ mouse \in Mice /\ user \in Users
  /\ value = "new" /\ committed = FALSE
  /\ effects = <<>> /\ persistence = <<>> /\ kept = {}
  /\ reported \in {"old", "new"}
  /\ assessment = Verify(<<>>, <<>>)

Observe(experiment) ==
  /\ effects = <<>> /\ Observable(experiment)
  /\ effects' = <<DeriveEffect(experiment)>>
  /\ assessment' = Verify(effects', persistence)
  /\ UNCHANGED <<mouse, user, value, reported, committed, persistence, kept>>

\* The setting after a step: forgotten, kept, or applied again by the host.
Forgets(level, saved) ==
  value = "new" /\ level >= mouse.forgets /\ ~(saved /\ mouse.saves)
Reapplies(level, saved) == Forgets(level, saved) /\ mouse.host /\ level \in Disruptive

\* What is recorded of a test: what was read after it, and what the user saw or did.
Item(level, read, commits, applies, reverts, host, measured) ==
  [level |-> level, after |-> read.after, freshness |-> read.freshness,
   survived |-> IF read.after = None THEN None ELSE read.after = "new",
   commit |-> commits, apply |-> applies, reverts |-> reverts, host |-> host,
   restored |-> FALSE, physical |-> measured]

Restored ==
  [level |-> Idle, after |-> "old", freshness |-> "fresh", survived |-> None,
   commit |-> FALSE, apply |-> FALSE, reverts |-> FALSE, host |-> FALSE,
   restored |-> TRUE, physical |-> FALSE]

\* The setting after the mouse went through a test.
Outcome(level, saved) ==
  IF Forgets(level, saved) /\ ~Reapplies(level, saved) THEN "old" ELSE value

\* The state is read, or repeated from before, or missed.
Readings(now) ==
  {[after |-> now, freshness |-> "fresh"], [after |-> reported, freshness |-> "stale"],
   [after |-> None, freshness |-> "unknown"]}

\* One test: the mouse goes through it, and the user may notice that the setting is forgotten
\* and measure what a saved one does.
Reads(level, saved, commits, applies) ==
  LET now == Outcome(level, saved)
  IN /\ value' = now
     /\ kept' = IF now = "new" THEN kept \cup {level} ELSE kept
     /\ \E read \in Readings(now), noticed \in BOOLEAN, measured \in BOOLEAN :
          /\ measured => (commits \/ applies) /\ mouse.takes /\ now = "new"
          /\ reported' = IF read.freshness = "fresh" THEN now ELSE reported
          /\ persistence' = Append(persistence,
               Item(level, read, commits, applies,
                    noticed /\ Forgets(level, saved) /\ ~Reapplies(level, saved),
                    Reapplies(level, saved), measured))
     /\ assessment' = Verify(effects, persistence')

Test ==
  /\ assessment.plan # None /\ Len(persistence) < MaxTests
  /\ Reads(assessment.plan, committed, FALSE, FALSE)
  /\ UNCHANGED <<mouse, user, committed, effects>>

\* The user makes the change once more, saves or applies it, and the state is read again.
Commit(level) ==
  /\ assessment.stop \in {"state_reverted", "effect_not_confirmed"} /\ effects # <<>>
  /\ value = "new" /\ ~committed /\ Len(persistence) < MaxTests
  /\ committed' = TRUE
  /\ \E commits \in BOOLEAN : Reads(level, TRUE, commits, ~commits)
  /\ UNCHANGED <<mouse, user, effects>>

ChangeAgain ==
  /\ assessment.stop = "state_reverted" /\ value = "old" /\ ~committed
  /\ value' = "new"
  /\ UNCHANGED <<mouse, user, reported, committed, effects, persistence, kept, assessment>>

\* The user restores the setting, or says so, and the state is read.
Restore ==
  /\ assessment.restore /\ Len(persistence) < MaxTests
  /\ value' = "old" /\ reported' = "old"
  /\ persistence' = Append(persistence, Restored)
  /\ assessment' = Verify(effects, persistence')
  /\ UNCHANGED <<mouse, user, committed, effects, kept>>

Next ==
  \/ Test \/ ChangeAgain \/ Restore
  \/ \E experiment \in Experiments : Observe(experiment)
  \/ \E level \in Levels : Commit(level)

Spec == Init /\ [][Next]_vars

-----------------------------------------------------------------------------
(* Properties                                                                 *)

TypeOK ==
  /\ mouse \in Mice /\ user \in Users
  /\ value \in {"old", "new"} /\ reported \in {"old", "new"} /\ committed \in BOOLEAN
  /\ kept \subseteq Levels /\ Len(effects) <= 1 /\ Len(persistence) <= MaxTests
  /\ assessment.plan \in Levels \cup {None} /\ assessment.strongest \in 0..PowerCycle

\* Whatever is read, missed or repeated: the effect is confirmed only where there is one; the
\* setting outlived the strongest level from a reread on, and every level beyond the session
\* (a reconnection and what follows) that it is said to; and the mouse is said to store the
\* setting only if it does without the host. A pause is confirmed by a reading of any age, so
\* that "session" alone may be said of a setting that is gone.
ClaimsAreTrue ==
  /\ assessment.effective = "effective" => mouse.takes
  /\ \A level \in Reread..PowerCycle :
       Class[level] # "session" /\ Class[level] \in assessment.classes => level \in kept
  /\ assessment.strongest >= Reread => assessment.strongest \in kept
  /\ "device_stored" \in assessment.classes =>
       mouse.forgets > PowerCycle \/ (committed /\ mouse.saves)

\* A test that disturbs the user is proposed to one who accepts it, and after every milder
\* one that the user can make was passed; none is proposed while the effect is in doubt.
TestsAreEarned ==
  LET level == assessment.plan
  IN level # None =>
       /\ level \in Disruptive => user.disruption
       /\ level = Receiver => user.receiver
       /\ level = PowerCycle => user.power
       /\ HumanCost[level] <= user.cost
       /\ mouse.takes
       /\ \A l \in Reread..(level - 1) : l \in kept \/ (l = Receiver /\ ~user.receiver)

\* When the last and highest reading is fresh and the original is known, the user is asked to
\* restore the setting if and only if it is changed.
RestorationIsAsked ==
  LET last == persistence[Len(persistence)]
  IN /\ effects # <<>> /\ persistence # <<>>
     /\ effects[1].before # None
     /\ \A i \in DOMAIN persistence : persistence[i].level <= last.level
     /\ last.freshness = "fresh" /\ last.after = value
     => (assessment.restore <=>
           value = "new" /\ \A i \in DOMAIN persistence : ~persistence[i].restored)

LadderIsSound == ClaimsAreTrue /\ TestsAreEarned /\ RestorationIsAsked
=============================================================================
