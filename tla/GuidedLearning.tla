---------------------------- MODULE GuidedLearning ----------------------------
(* Learning what the DPI button does by watching it (guided_discovery.py): five   *)
(* guided samples, or the physical stages measured with a ruler between presses     *)
(* (calibrated_discovery.py), and from both where the stage can be read or a press   *)
(* recognized (learning_session.py, event_correlation.py, contrastive_inference.py, *)
(* transition_sources.py), saved as a calibrated profile (calibrated_profiles.py).   *)
(* A channel is one byte of an input or feature report, or one event code; a sample  *)
(* is the sequence of values that each channel took, an empty one for none.          *)
EXTENDS Integers, Sequences, SequencesExt, FiniteSets, FiniteSetsExt, Functions

CONSTANTS
  Mice,        \* whose identity is certain and whose DPI nothing can write yet
  Cycle,       \* CPI of each mouse's stages, in order: two or more, which differ by more
               \* than SamePhysicalStage tolerates
  ChannelsOf,  \* its channels: [id, source, signal, use]; source "hid", "feature", "key" or
               \* "code", signal "stage", "pulse" or "count", use what ordinary use sends
  Errors,      \* of one measurement of the CPI
  Passes,      \* measurements of a stage
  MaxStages,
  MaxSessions, \* bound on learning sessions and presses between them
  MaxSlips,    \* bound on what the user does otherwise than told
  None

VARIABLES
  device,   \* the mouse
  stage,    \* it runs at
  count,    \* what a counting channel shows
  hidden,   \* the HID channels whose node cannot be opened
  task,     \* "idle", "guided", "first" (calibration) or "again" (transitions only)
  options,  \* [teacher, full, told] of a guided session; told: the CPI before and after
            \* each sample that the teacher has read
  controls, samples,
  states,   \* measured stages
  profile,  \* the calibrated profile, None without one
  outcome,  \* how the last session ended
  sessions, slips,
  learnt    \* history: "first" for what was learned with the ruler, "placed" for what was
            \* learned again from the first stage on by a user who did as told, or "other"

vars == <<device, stage, count, hidden, task, options, controls, samples, states, profile,
          outcome, sessions, slips, learnt>>

cycle == Cycle[device]
Channels == ChannelsOf[device]
Hid == {c \in Channels : c.source = "hid"}
Evdev == {c \in Channels : c.source \in {"key", "code"}}

-----------------------------------------------------------------------------
(* The mouse and its user                                                     *)

After(presses) == ((stage + presses - 1) % Len(cycle)) + 1

\* What a press makes a channel send.
Signal(c, presses) ==
  CASE c.source = "feature" ->
         IF c.signal = "stage" /\ After(presses) # stage THEN <<stage, After(presses)>>
         ELSE IF c.signal = "count" /\ presses > 0 THEN <<count, count + presses>> ELSE <<>>
    [] c.signal = "stage" -> [i \in 1..presses |-> After(i)]
    [] c.signal = "count" -> [i \in 1..presses |-> count + i]
    [] c.signal = "pulse" -> FlattenSeq([i \in 1..presses |-> <<1, 0>>])

\* A sample has what can be read; diff_feature_snapshots has what has changed.
Sample(Sends(_)) ==
  [c \in Channels |-> IF c \in hidden THEN <<>> ELSE Sends(c)]

QuietSample == Sample(LAMBDA c : <<>>)
UseSample == Sample(LAMBDA c : c.use)
PressSample(presses) == Sample(LAMBDA c : Signal(c, presses))

-----------------------------------------------------------------------------
(* Candidates                                                                 *)

Changes(seq) == {p \in {<<seq[i], seq[i + 1]>> : i \in 1..(Len(seq) - 1)} : p[1] # p[2]}
Shown(c, of) == {i \in DOMAIN of : of[i][c] # <<>>}

\* Streams that carried the same in three actions or more are one stream.
Mirrors(c, d, of) ==
  c = d \/ (Cardinality(Shown(c, of)) >= 3 /\ \A i \in DOMAIN of : of[i][c] = of[i][d])
Canonical(c, of) ==
  CHOOSE d \in Hid : Mirrors(c, d, of) /\ \A e \in Hid : Mirrors(c, e, of) => d.id <= e.id

\* Channels with momentary transitions in so many actions.
Triggers(of, minimum) ==
  {Canonical(c, of) : c \in {d \in Hid :
     Cardinality({i \in DOMAIN of : Changes(of[i][d]) # {}}) >= minimum}}

Discriminative(of, against) == Triggers(of, 2) \ Triggers(against, 1)

Enough(of, against) == Len(of) >= 3 /\ Len(against) >= 2

\* Report shapes that every action and no control has.
GuidedShapes(of, against) ==
  IF Enough(of, against)
  THEN {c \in Hid : Shown(c, of) = DOMAIN of /\ Shown(c, against) = {}} ELSE {}

\* Transitions that every action and no control has.
Distinctive(c, of, against) ==
  {t \in Changes(of[1][c]) : /\ \A i \in DOMAIN of : t \in Changes(of[i][c])
                             /\ \A i \in DOMAIN against : t \notin Changes(against[i][c])}

RefineTeacherFree(of, against) ==
  IF Enough(of, against)
  THEN {c \in Triggers(of, Len(of)) : Distinctive(c, of, against) # {}} ELSE {}

\* Whether an action was identified; a teacher's samples are not refined.
ActionIdentified(of, against, teacher) ==
  IF ~teacher /\ Enough(of, against)
  THEN GuidedShapes(of, against) \cup RefineTeacherFree(of, against) # {}
  ELSE IF against = <<>> THEN Triggers(of, 2) # {} ELSE Discriminative(of, against) # {}

-----------------------------------------------------------------------------
(* Transition sources                                                         *)

Abs(n) == IF n < 0 THEN -n ELSE n

\* The one lookup from raw values to labels, none when they conflict or are one.
ConfiguredMapping(raw, labels) ==
  IF /\ Len(raw) = Len(labels) /\ Cardinality(Range(raw)) >= 2
     /\ \A i, j \in DOMAIN raw : raw[i] = raw[j] => labels[i] = labels[j]
  THEN {[r \in Range(raw) |-> labels[CHOOSE i \in DOMAIN raw : raw[i] = r]]} ELSE {}

Lasts(c, of) == [i \in DOMAIN of |-> Last(of[i][c])]

\* The single active value that returns to a baseline.
PressRelease(seq) ==
  IF Len(seq) < 2 THEN {}
  ELSE LET active == Range(Front(seq)) \ {Last(seq)}
       IN IF Cardinality(active) = 1 THEN {<<a, Last(seq)>> : a \in active} ELSE {}

\* The motif that all samples share.
Motif(c, of) == {m \in PressRelease(of[1][c]) : \A i \in DOMAIN of : m \in PressRelease(of[i][c])}

Source(kind, c, map, motif) == [kind |-> kind, channel |-> c, map |-> map, motif |-> motif]

Absolutes(kind, candidates, of, labels) ==
  UNION {{Source(kind, c, m, None) : m \in ConfiguredMapping(Lasts(c, of), labels)} :
           c \in {d \in candidates : Shown(d, of) = DOMAIN of}}
Momentary(kind, candidates, of) ==
  UNION {{Source(kind, c, None, m) : m \in Motif(c, of)} :
           c \in {d \in candidates : Shown(d, of) = DOMAIN of}}

Unused(against) == {c \in Evdev : Shown(c, against) = {}}

\* The mirrors of a stream are one candidate, which has to be action-specific.
RawMappings(of, labels, shapes) ==
  Absolutes("hid_state", {Canonical(c, of) : c \in Hid} \cap shapes, of, labels)

Features(of, labels) ==
  Absolutes("feature_state", {c \in Channels : c.source = "feature"}, of, labels)

\* What a teacher that read the CPI after each sample labels.
TeacherValues(of, told) ==
  Absolutes("dpi_value",
            {Canonical(c, of) : c \in Hid} \cup {c \in Channels : c.source = "feature"},
            of, [i \in DOMAIN told |-> told[i][2]])

\* The teacher saw the CPI change in every sample that it read.
TeacherTrigger(of, against, told) ==
  /\ Discriminative(of, against) # {} /\ Len(told) >= 2
  /\ \A i \in DOMAIN told : told[i][1] # told[i][2]

Rank == [hid_state |-> 0, feature_state |-> 1, evdev_absolute_stage |-> 2, hid_pattern |-> 10,
         hid_value |-> 11, evdev_cycle_trigger |-> 20]

\* The strongest rank that has exactly one source.
SelectPreferred(sources) ==
  LET at(r) == {s \in sources : Rank[s.kind] = r}
      unique == {r \in Range(Rank) : Cardinality(at(r)) = 1}
  IN IF unique = {} THEN {} ELSE at(Min(unique))

InferTransitionSources(of, labels, against) ==
  LET shapes == GuidedShapes(of, against)
  IN SelectPreferred(
       RawMappings(of, labels, shapes) \cup Features(of, labels)
         \cup Absolutes("evdev_absolute_stage", Unused(against), of, labels)
         \cup Momentary("hid_pattern", shapes, of)
         \cup Momentary("hid_value", RefineTeacherFree(of, against), of)
         \cup Momentary("evdev_cycle_trigger",
                        {c \in Unused(against) : c.source = "key"}, of))

-----------------------------------------------------------------------------
(* Calibration                                                                *)

\* Python rounds a half to the even quotient.
Round(n, by) ==
  LET q == n \div by  r == 2 * (n % by)
  IN IF r > by \/ (r = by /\ q % 2 = 1) THEN q + 1 ELSE q

RoundedStageLabel(cpi) == Max({50, 50 * Round(cpi, 50)})

SamePhysicalStage(a, b) == 100 * Abs(a.cpi - b.cpi) <= 12 * Max({a.cpi, b.cpi})

Validated(measured) ==
  \A i \in DOMAIN measured :
    measured[i].high /\ 100 * Abs(measured[i].cpi - measured[i].label) <= 15 * measured[i].label

Labels(measured) == [i \in DOMAIN measured |-> measured[i].label]

\* Faulty variant: a press is paired with the stage that it left.
LeftStates(measured) == Front(measured)

ResultingStates(measured) == Tail(measured)

WrapObserved(measured) == Len(measured) >= 3 /\ SamePhysicalStage(Last(measured), measured[1])

ProfileData(measured, sources) ==
  [order |-> Labels(Front(measured)), states |-> measured, sources |-> sources]

\* Saved as confirmed only if the first and the last label are one.
Reusable(p) == Last(p.states).label = p.order[1] /\ Cardinality(Range(p.order)) >= 2

FindCalibratedProfile == profile # None /\ (profile.sources # {} \/ Reusable(profile))

-----------------------------------------------------------------------------

Empty(cs, ss, ms) == cs = <<>> /\ ss = <<>> /\ ms = <<>>

Init ==
  /\ device \in Mice /\ stage \in DOMAIN cycle /\ count = 0
  /\ hidden = {}
  /\ task = "idle" /\ options = None /\ Empty(controls, samples, states)
  /\ profile = None /\ outcome = None /\ sessions = 0 /\ slips = 0 /\ learnt = "first"

Mouse == <<device, hidden>>
Learned == <<profile, outcome, sessions, learnt, options>>
Recorded == <<controls, samples, states>>

Press(presses) ==
  /\ stage' = After(presses) /\ count' = count + presses
  /\ slips' = slips + (IF presses = 1 THEN 0 ELSE 1) /\ slips' <= MaxSlips

\* Between sessions.
PressAlone ==
  /\ task = "idle" /\ sessions < MaxSessions /\ sessions' = sessions + 1
  /\ Press(1)
  /\ UNCHANGED <<Mouse, task, options, Recorded, profile, outcome, learnt>>

\* Permissions of one node change.
Permit(c) ==
  /\ c \in Hid /\ slips < MaxSlips /\ slips' = slips + 1
  /\ hidden' = IF c \in hidden THEN hidden \ {c} ELSE hidden \cup {c}
  /\ UNCHANGED <<device, stage, count, task, Recorded, Learned>>

Begin(kind) ==
  /\ task = "idle" /\ sessions < MaxSessions /\ sessions' = sessions + 1
  /\ task' = kind /\ outcome' = None
  /\ UNCHANGED <<Mouse, stage, count, controls, samples, profile, slips>>

\* The guided samples may have a teacher; full asks for access to every node.
BeginGuided(teacher, full) ==
  /\ Hid # {} /\ Begin("guided")
  /\ full => hidden = {}
  /\ options' = [teacher |-> teacher, full |-> full, told |-> <<>>]
  /\ UNCHANGED <<states, learnt>>

\* A profile that has a source, or a mouse without hidraw nodes, needs no session.
BeginDeep ==
  /\ Hid # {}
  /\ \/ /\ FindCalibratedProfile /\ profile.sources = {}
        /\ Begin("again")
        /\ states' = profile.states
        /\ learnt' = IF SamePhysicalStage(profile.states[1], [cpi |-> cycle[stage]])
                     THEN "placed" ELSE "other"
     \/ /\ ~FindCalibratedProfile
        /\ Begin("first")
        /\ states' = states /\ learnt' = "first"
  /\ UNCHANGED options

\* A prompt is refused, the session raises, or it is complete.
End(result) ==
  task' = "idle" /\ outcome' = result /\ options' = None /\ Empty(controls', samples', states')

Cancel ==
  /\ task # "idle" /\ End([kind |-> "cancelled"])
  /\ UNCHANGED <<Mouse, stage, count, profile, sessions, slips, learnt>>

CheckSampleAccess == options.full => hidden = {}

GuidedControl ==
  /\ task = "guided" /\ Len(controls) < 2
  /\ IF CheckSampleAccess
     THEN /\ controls' = Append(controls, IF controls = <<>> THEN QuietSample ELSE UseSample)
          /\ UNCHANGED <<task, outcome, options, samples, states>>
     ELSE End([kind |-> "permission"])
  /\ UNCHANGED <<Mouse, stage, count, profile, sessions, slips, learnt>>

GuidedSample(presses) ==
  /\ task = "guided" /\ Len(controls) = 2 /\ Len(samples) < 3
  /\ Press(presses)
  /\ IF CheckSampleAccess
     THEN /\ samples' = Append(samples, PressSample(presses))
          /\ options' = IF options.teacher
                        THEN [options EXCEPT !.told = Append(@, <<cycle[stage],
                                                                 cycle[stage']>>)]
                        ELSE options
          /\ UNCHANGED <<task, outcome, controls, states>>
     ELSE End([kind |-> "permission"])
  /\ UNCHANGED <<Mouse, profile, sessions, learnt>>

\* Nothing is saved.
FinishGuided ==
  /\ task = "guided" /\ Len(samples) = 3
  /\ End([kind |-> "guided",
          identified |-> ActionIdentified(samples, controls, options.teacher),
          values |-> IF options.teacher THEN TeacherValues(samples, options.told) ELSE {},
          validated |-> TeacherTrigger(samples, controls, options.told)])
  /\ UNCHANGED <<Mouse, stage, count, profile, sessions, slips, learnt>>

\* The passes of one stage: their median, and whether they agree.
Calibrate(error, high) ==
  /\ task = "first" /\ Len(states) = Len(samples)
  /\ LET cpi == cycle[stage] + error
     IN states' = Append(states, [label |-> RoundedStageLabel(cpi), cpi |-> cpi, high |-> high])
  /\ controls' = controls \o [i \in 1..Passes |-> UseSample]
  /\ slips' = slips + (IF error = 0 THEN 0 ELSE 1) + (IF high THEN 0 ELSE 1) /\ slips' <= MaxSlips
  /\ UNCHANGED <<Mouse, stage, count, task, samples, Learned>>

Advance(presses) ==
  /\ task = "first" /\ Len(states) = Len(samples) + 1
  /\ Len(samples) < MaxStages /\ ~WrapObserved(states)
  /\ Press(presses)
  /\ samples' = Append(samples, PressSample(presses))
  /\ UNCHANGED <<Mouse, task, controls, states, Learned>>

\* The profile is saved when the cycle has wrapped with confidence.
FinishFirst ==
  /\ task = "first" /\ Len(states) = Len(samples) + 1
  /\ WrapObserved(states) \/ Len(samples) = MaxStages
  /\ LET resulting == ResultingStates(states)
         saved == WrapObserved(states) /\ Validated(resulting)
     IN /\ profile' = IF saved
                      THEN ProfileData(states, InferTransitionSources(samples, Labels(resulting),
                                                                      controls))
                      ELSE profile
        /\ End([kind |-> IF saved THEN "saved" ELSE "unsaved",
                identified |-> ActionIdentified(samples, controls, FALSE)])
  /\ UNCHANGED <<Mouse, stage, count, sessions, slips, learnt>>

TransitionAgain(presses) ==
  /\ task = "again" /\ Len(samples) < Len(profile.order)
  /\ Press(presses)
  /\ samples' = Append(samples, PressSample(presses))
  /\ UNCHANGED <<Mouse, task, controls, states, Learned>>

\* The samples are taken to have entered the stages of the profile, in order.
FinishAgain ==
  /\ task = "again" /\ Len(samples) = Len(profile.order)
  /\ LET sources == InferTransitionSources(samples, Labels(ResultingStates(states)), <<>>)
     IN /\ profile' = IF sources = {} THEN profile ELSE ProfileData(states, sources)
        /\ End([kind |-> IF sources = {} THEN "unsaved" ELSE "saved",
                identified |-> ActionIdentified(samples, <<>>, FALSE)])
  /\ learnt' = IF slips = 0 THEN learnt ELSE "other"
  /\ UNCHANGED <<Mouse, stage, count, sessions, slips>>

Next ==
  \/ PressAlone \/ Cancel \/ GuidedControl \/ FinishGuided \/ FinishFirst \/ FinishAgain
  \/ BeginDeep
  \/ \E c \in Hid : Permit(c)
  \/ \E teacher, full \in BOOLEAN : BeginGuided(teacher, full)
  \/ \E presses \in 0..2 : GuidedSample(presses) \/ Advance(presses) \/ TransitionAgain(presses)
  \/ \E error \in Errors, high \in BOOLEAN : Calibrate(error, high)

Spec == Init /\ [][Next]_vars

-----------------------------------------------------------------------------
(* Properties                                                                 *)

\* The variables have their types.
TypeOK ==
  /\ device \in Mice /\ stage \in DOMAIN cycle /\ count \in Nat
  /\ hidden \subseteq Hid /\ task \in {"idle", "guided", "first", "again"}
  /\ \A s \in Range(controls) \cup Range(samples) : DOMAIN s = Channels
  /\ \A s \in Range(states) : s.label \in Nat
  /\ profile = None \/ Cardinality(profile.sources) <= 1
  /\ slips \in 0..MaxSlips /\ learnt \in {"first", "placed", "other"}

\* A label is the stage's CPI up to the error of a measurement and the rounding.
Names(label, cpi) == \E e \in Errors : Abs(label - (cpi + e)) <= 25

\* The whole cycle, from the stage it was measured at first.
TrueCycle(order) ==
  \E first \in DOMAIN cycle :
    /\ Len(order) = Len(cycle)
    /\ \A i \in DOMAIN order :
         Names(order[i], cycle[((first + i - 2) % Len(cycle)) + 1])

\* The lookup of a source is the mouse's: what it shows at a stage is called by that stage.
TrueLookup(s) == \A i \in DOMAIN s.map : Names(s.map[i], cycle[i])

\* The lookup calls the stages in their order, from another stage on than the mouse does.
RotatedLookup(s) ==
  \E k \in DOMAIN cycle : \A i \in DOMAIN s.map :
    Names(s.map[i], cycle[((i + k - 2) % Len(cycle)) + 1])

\* What is learned with the ruler is true of the mouse. However often the user presses, a
\* channel that shows the stage maps it to the stage the mouse runs at; learned again, it does
\* where the user did as told from the first stage on. From another it only keeps their order:
\* the stages are called as they were saved, from the first (guided_discovery.py:412-428).
\* A trigger that is learned with the ruler is not set off by ordinary use; one that is learned
\* again may be, for nothing but presses is captured then. What a teacher labels is what the
\* mouse runs at. A user who did as told gets the mouse's whole cycle. Nothing is claimed of a
\* channel that counts and is taken for one that shows the stage (transition_sources.py:87).
CalibrationIsTrue ==
  /\ (outcome # None /\ outcome.kind = "guided") =>
       \A s \in outcome.values : s.channel.signal = "stage" =>
         \A i \in DOMAIN s.map : s.map[i] = cycle[i]
  /\ profile # None =>
    /\ slips = 0 => TrueCycle(profile.order)
    /\ \A s \in profile.sources :
         /\ s.channel.signal = "stage" /\ s.map # None =>
              IF learnt # "other" THEN TrueLookup(s) ELSE slips = 0 => RotatedLookup(s)
         /\ (s.kind \in {"hid_pattern", "evdev_cycle_trigger"} /\ learnt = "first") =>
              s.motif \notin PressRelease(s.channel.use)

=============================================================================
