---------------------------- MODULE DiscoveryLab ----------------------------
(* The Discovery Lab (discovery_lab.py, lab_orchestrator.py, information_gain.py): *)
(* an action is planned that tells the hypotheses apart, the mouse is captured      *)
(* while the user leaves it alone, acts, waits and does something else, the fields   *)
(* of its reports are compared between these intervals, and the hypotheses revised.   *)
(* The user may refuse a prompt or do otherwise than told. A field is one byte of a   *)
(* stream: "beat" reports come with every capture, "event" reports when the mouse is   *)
(* used, "feature" reports are read before and after.                                   *)
EXTENDS Integers, Sequences, SequencesExt, FiniteSets, FiniteSetsExt, Functions

CONSTANTS
  Mice,
  StagesOf,   \* how many DPI stages a mouse has
  FieldsOf,   \* its fields: [id, stream, offset, shows]; shows is what changes the byte:
              \* "stage" (it holds the DPI stage), an act of the user, "count" or "still"
  Questions,  \* sequences of hypotheses which callers ask about
  MaxRuns,    \* bound on experiments of one investigation
  MaxSlips,   \* bound on what the user does otherwise than told
  None

VARIABLES
  mouse, stage, count,
  plan,        \* of the running experiment, None without one
  captures,    \* its captures so far
  verified,    \* whether the physical verification has been done
  experiment,  \* the last result, None without one
  done,        \* actions of this investigation
  runs, slips,
  told         \* history: in this experiment the user did as told

vars == <<mouse, stage, count, plan, captures, verified, experiment, done, runs, slips, told>>

Fields == FieldsOf[mouse]

-----------------------------------------------------------------------------
(* Actions that a plan may ask for; BOUNDED_ENGINE_STEP is one a caller adds   *)

Template(order, safety, cost, tags) ==
  [order |-> order, safety |-> safety, cost |-> cost, tags |-> tags]

ActionTemplates ==
  [CHARGING_TRANSITION |-> Template(1, "physical", 7, {"charging", "power"}),
   CONNECT_DISCONNECT |-> Template(2, "physical", 10, {"lifecycle", "receiver", "reconnect"}),
   DPI_STAGE_CHANGE |-> Template(3, "physical", 3, {"dpi", "stage", "dependency"}),
   GENERIC_BUTTON_PRESS |-> Template(4, "physical", 3, {"button", "report"}),
   IDLE_PERSISTENCE |-> Template(5, "passive", 3, {"persistence", "idle", "freshness"}),
   MANUAL_RESTORE |-> Template(6, "physical", 5, {"restoration"}),
   MOUSE_MOVEMENT |-> Template(7, "physical", 3, {"movement", "polling"}),
   MULTI_DPI_STAGE_SEQUENCE |->
     Template(8, "physical", 7, {"dpi", "stage", "dependency", "sequence"}),
   OTHER_CHILD_ROUTE_CONTROL |->
     Template(9, "physical", 7, {"routing", "other-child", "negative-control"}),
   POWER_CYCLE_PERSISTENCE |-> Template(10, "physical", 13, {"persistence", "lifecycle", "power"}),
   PROTOCOL_REREAD |-> Template(11, "passive", 2, {"persistence", "reread", "freshness"}),
   QUIET_BASELINE |-> Template(12, "passive", 2, {"baseline", "periodic", "freshness"}),
   RECEIVER_RECONNECT_PERSISTENCE |->
     Template(13, "physical", 11, {"persistence", "lifecycle", "receiver", "reconnect"}),
   RECONNECT_PERSISTENCE |-> Template(14, "physical", 8, {"persistence", "lifecycle", "reconnect"}),
   VENDOR_POWER_STATE_CHANGE |->
     Template(15, "vendor", 6, {"battery", "charging", "power", "vendor"}),
   VENDOR_SETTING_CHANGE |-> Template(16, "vendor", 9, {"vendor", "dpi", "polling", "profile"}),
   BOUNDED_ENGINE_STEP |-> Template(17, "bounded", 3, {"dpi"})]

Tags(a) == ActionTemplates[a].tags
SafeAutomaticClasses == {"passive", "physical", "vendor"}

\* What the user is asked to do.
Does(a) ==
  CASE a \in {"DPI_STAGE_CHANGE", "MULTI_DPI_STAGE_SEQUENCE"} -> {"press"}
    [] a = "GENERIC_BUTTON_PRESS" -> {"click"}
    [] a = "MOUSE_MOVEMENT" -> {"move"}
    [] OTHER -> {}

Hypothesis(id, topic, predicted, field) ==
  [id |-> id, topic |-> topic, predicted |-> predicted, field |-> field,
   disposition |-> "unresolved"]

InitialLabHypotheses ==
  LET Common(step, series) ==
        [QUIET_BASELINE |-> "stable", MOUSE_MOVEMENT |-> "movement-only",
         GENERIC_BUTTON_PRESS |-> "button-only",
         DPI_STAGE_CHANGE |-> step, MULTI_DPI_STAGE_SEQUENCE |-> series]
  IN <<Hypothesis("dpi-direct", "dpi", Common("numeric-step", "numeric-series"), None),
       Hypothesis("dpi-stage", "dpi", Common("index-step", "small-cycle"), None),
       Hypothesis("button-report", "dpi", Common("button-pulse", "repeated-pulse"), None)>>

-----------------------------------------------------------------------------
(* Planning                                                                   *)

Topics(hypotheses) == {h.topic : h \in ToSet(hypotheses)}

\* Every hypothesis predicts what the action does, and they do not all agree.
Informative(hypotheses, a) ==
  /\ Len(hypotheses) >= 2
  /\ \A h \in ToSet(hypotheses) : a \in DOMAIN h.predicted
  /\ \E g, h \in ToSet(hypotheses) : g.predicted[a] # h.predicted[a]

\* Grows with the entropy that is left once the action's outcome is known: hypotheses
\* weigh the same, so it is the logarithm of this product, divided by their number.
Remaining(hypotheses, a) ==
  LET Agreeing(o) == Cardinality({i \in DOMAIN hypotheses : hypotheses[i].predicted[a] = o})
      Outcomes == {h.predicted[a] : h \in ToSet(hypotheses)}
  IN FoldSet(LAMBDA o, product : product * Agreeing(o)^Agreeing(o), 1, Outcomes)

\* The highest gain, then the lowest cost, then the first name.
ChooseExperiment(hypotheses, safe) ==
  LET Key(a) == <<Remaining(hypotheses, a), ActionTemplates[a].cost, ActionTemplates[a].order>>
      Before(k, l) == \E i \in 1..3 : k[i] < l[i] /\ \A j \in 1..(i - 1) : k[j] = l[j]
      ranked == {a \in safe : Informative(hypotheses, a)}
  IN IF ranked = {} THEN None
     ELSE CHOOSE a \in ranked : \A b \in ranked \ {a} : Before(Key(a), Key(b))

Cheapest(actions) ==
  CHOOSE a \in actions : \A b \in actions \ {a} :
    \/ ActionTemplates[a].cost < ActionTemplates[b].cost
    \/ /\ ActionTemplates[a].cost = ActionTemplates[b].cost
       /\ ActionTemplates[a].order < ActionTemplates[b].order

RepeatCount(a, hypotheses) ==
  CASE "persistence" \in Tags(a) -> 1
    [] /\ "persistence" \notin Tags(a)
       /\ Topics(hypotheses) \cap {"timing", "periodic", "polling"} # {} -> 5
    [] /\ "persistence" \notin Tags(a)
       /\ Topics(hypotheses) \cap {"timing", "periodic", "polling"} = {} ->
         IF a = "MULTI_DPI_STAGE_SEQUENCE" THEN 3 ELSE 2

NegativeControl(a) == IF "dpi" \in Tags(a) THEN "MOUSE_MOVEMENT" ELSE "QUIET_BASELINE"

\* The instruments that need the user: a CPI or a polling measurement.
Verifiers(a, hypotheses) == {"dpi", "polling"} \cap (Tags(a) \cup Topics(hypotheses))

PlanNextExperiment(hypotheses, offered, authorized) ==
  LET targets == SelectSeq(hypotheses, LAMBDA h : h.disposition # "rejected")
      safe == {a \in offered : \/ ActionTemplates[a].safety \in SafeAutomaticClasses
                               \/ ActionTemplates[a].safety = "bounded" /\ a \in authorized}
      relevant == {a \in safe : Topics(targets) \cap Tags(a) # {}}
      chosen == ChooseExperiment(targets, safe)
      action == IF chosen = None /\ Len(targets) <= 1 /\ relevant # {} THEN Cheapest(relevant)
                ELSE chosen
  IN [targets |-> targets, candidates |-> safe, action |-> action,
      repeats |-> IF action = None THEN 0 ELSE RepeatCount(action, targets),
      control |-> IF action = None THEN {} ELSE Does(NegativeControl(action)),
      verifiers |-> IF action = None THEN {} ELSE Verifiers(action, targets)]

\* The first instrument: three repeats of a labelled press, and no hypotheses.
DifferentialLab ==
  [targets |-> <<>>, candidates |-> {}, action |-> "DPI_STAGE_CHANGE", repeats |-> 3,
   control |-> {"move", "click"}, verifiers |-> {}]

CapturePlan(p) ==
  <<"baseline">> \o [i \in 1..p.repeats |-> "action"] \o <<"post_action", "negative_control">>

-----------------------------------------------------------------------------
(* What a capture contains                                                    *)

Acts == {"press", "click", "move"}
After(acts) == IF "press" \in acts THEN (stage % StagesOf[mouse]) + 1 ELSE stage

Value(f, acts, later) ==
  CASE f.shows = "stage" -> IF later THEN After(acts) ELSE stage
    [] f.shows = "count" -> (count + IF later THEN 1 ELSE 0) % 256
    [] f.shows \in Acts -> IF later /\ f.shows \in acts THEN 1 ELSE 0
    [] OTHER -> 0

Sampled(f, acts) ==
  LET before == Value(f, acts, FALSE)
      after == Value(f, acts, TRUE)
  IN CASE f.stream = "beat" -> <<before, after>>
       [] f.stream = "event" -> IF acts = {} THEN <<>> ELSE <<after>>
       [] f.stream = "feature" -> IF before = after THEN <<>> ELSE <<before, after>>

\* What a field showed in all captures of an interval.
FieldValues(f, interval) ==
  UNION {ToSet(c.values[f]) : c \in {c \in ToSet(captures) : c.interval = interval}}

AllValues(f) == FlattenSeq([i \in DOMAIN captures |-> captures[i].values[f]])

-----------------------------------------------------------------------------
(* Analysis                                                                   *)

\* Faulty variant: the action is compared with the control alone.
DiffersFromControl(f) ==
  LET action == FieldValues(f, "action") IN
  action # {} /\ action # FieldValues(f, "negative_control")

ActionChanged(f) ==
  LET action == FieldValues(f, "action")
      baseline == FieldValues(f, "baseline")
  IN action # {} /\ baseline # {} /\ action # baseline

ControlSeparates(f) ==
  LET negative == FieldValues(f, "negative_control") IN
  \/ negative = {}
  \/ negative = FieldValues(f, "baseline")
  \/ negative \cap FieldValues(f, "action") = {}

\* A Feature byte is compared before and after each interval, not between intervals.
Correlated(f) ==
  IF f.stream = "feature"
  THEN FieldValues(f, "action") # {} /\ FieldValues(f, "negative_control") = {}
  ELSE ActionChanged(f) /\ ControlSeparates(f)

Contradicted(f) ==
  IF f.stream = "feature"
  THEN FieldValues(f, "action") # {} /\ FieldValues(f, "negative_control") # {}
  ELSE ActionChanged(f) /\ ~ControlSeparates(f)

\* At least three values, and the same step between any two.
CounterCandidate(f) ==
  LET values == AllValues(f)
      deltas == {(values[i + 1] - values[i]) % 256 : i \in 1..(Len(values) - 1)}
  IN f.stream # "feature" /\ Cardinality(ToSet(values)) >= 3 /\ Cardinality(deltas) = 1
     /\ deltas # {0}

StatusCandidate(f) ==
  /\ Cardinality(ToSet(AllValues(f))) \in 2..8
  /\ \/ f.stream = "feature"
     \/ \A i \in ToSet(CapturePlan(plan)) : Cardinality(FieldValues(f, i)) <= 2

\* What the page recommends next: the correlated fields as hypotheses about their bytes.
Recommend(fields) ==
  LET Byte == [f \in fields |-> f.offset]
      Status == [f \in fields |-> StatusCandidate(f)]
      Left(v) == FoldSet(LAMBDA x, product :
                           LET n == Cardinality({f \in fields : v[f] = x}) IN product * n^n,
                         1, Range(v))
      Splits(v) == Cardinality(Range(v)) > 1
  IN IF fields = {} THEN "repeat-controlled-action"
     ELSE IF Splits(Byte) /\ (Splits(Status) => Left(Byte) < Left(Status))
          THEN "repeat-controlled-action"
     ELSE IF Splits(Status) THEN "idle-persistence-check"
     ELSE "alternate-negative-control"

\* What the evidence makes of a hypothesis: that of its field, or of all fields.
Update(h, fields) ==
  LET of == IF h.field = None THEN fields ELSE {f \in fields : f.id = h.field}
      positives == \E f \in of : Correlated(f)
      negatives == \E f \in of : Contradicted(f)
  IN CASE positives /\ negatives -> "conflicted"
       [] positives /\ ~negatives ->
            IF h.disposition = "strengthened" THEN "supported" ELSE "strengthened"
       [] ~positives /\ negatives -> "rejected"
       [] ~positives /\ ~negatives -> IF h.field = None THEN "unresolved" ELSE "weakened"

StopReason(updated) ==
  LET viable == {h \in ToSet(updated) : h.disposition \notin {"rejected", "weakened"}}
      strong == {h \in viable : h.disposition \in {"supported", "strengthened"}}
  IN CASE \E h \in viable : h.disposition = "conflicted" -> "conflict_found"
       [] (\A h \in viable : h.disposition # "conflicted")
          /\ Cardinality(strong) = 1 /\ Cardinality(viable) = 1 -> "hypothesis_resolved"
       [] OTHER -> None

NextPlan(updated) == PlanNextExperiment(updated, plan.candidates \ {plan.action}, {})

Analysed ==
  LET fields == {f \in Fields : AllValues(f) # <<>>}
      updated == [i \in DOMAIN plan.targets |->
                    [plan.targets[i] EXCEPT !.disposition = Update(plan.targets[i], fields)]]
      stop == StopReason(updated)
      next == IF stop # None \/ updated = <<>> THEN None
              ELSE NextPlan(updated)
      correlated == {f \in fields : Correlated(f)}
  IN [action |-> plan.action, updated |-> updated, correlated |-> correlated,
      counters |-> {f \in fields : CounterCandidate(f)},
      contradicted |-> {f \in fields : Contradicted(f)},
      recommended |-> Recommend(correlated),
      stop |-> IF next # None /\ next.action = None THEN "insufficient_safe_actions" ELSE stop,
      next |-> next]

-----------------------------------------------------------------------------
(* Behaviour                                                                  *)

Init ==
  /\ mouse \in Mice
  /\ stage \in 1..StagesOf[mouse]
  /\ count = 0
  /\ plan = None /\ captures = <<>> /\ verified = FALSE
  /\ experiment = None /\ done = {}
  /\ runs = 0 /\ slips = 0 /\ told = TRUE

ExecutePlan(p) ==
  /\ plan = None /\ runs < MaxRuns
  /\ p.action # None
  /\ ActionTemplates[p.action].safety \in SafeAutomaticClasses
  /\ plan' = p /\ captures' = <<>> /\ verified' = (p.verifiers = {})
  /\ runs' = runs + 1 /\ told' = TRUE
  /\ UNCHANGED <<mouse, stage, count, experiment, slips>>

\* A new investigation: the setup page asks the initial hypotheses whatever went before,
\* the analyzer none, another caller its own.
Investigate ==
  /\ \E q \in Questions \cup {InitialLabHypotheses} :
       ExecutePlan(PlanNextExperiment(q, DOMAIN ActionTemplates, {}))
  /\ done' = {}

RunDifferentialLab == ExecutePlan(DifferentialLab) /\ done' = {}

\* A caller of the orchestrator runs the plan it was left with.
Follow ==
  /\ experiment # None /\ experiment.stop = None /\ experiment.next # None
  /\ ExecutePlan(experiment.next)
  /\ done' = done \cup {experiment.action}

Interval == CapturePlan(plan)[Len(captures) + 1]
Asked ==
  CASE Interval = "action" -> Does(plan.action)
    [] Interval = "negative_control" -> plan.control
    [] OTHER -> {}

\* The prompt is accepted and the mouse observed; the user may do something else.
ObserveAction ==
  /\ plan # None /\ Len(captures) < Len(CapturePlan(plan))
  /\ \E acts \in SUBSET Acts :
       /\ acts # Asked => slips < MaxSlips
       /\ slips' = slips + IF acts = Asked THEN 0 ELSE 1
       /\ told' = (told /\ acts = Asked)
       /\ captures' = Append(captures, [interval |-> Interval,
                                        values |-> [f \in Fields |-> Sampled(f, acts)]])
       /\ stage' = After(acts)
  /\ count' = count + 2
  /\ UNCHANGED <<mouse, plan, verified, experiment, done, runs>>

\* Between two prompts the mouse goes on sending.
Unobserved ==
  /\ plan # None /\ captures # <<>> /\ slips < MaxSlips
  /\ count' = count + 1 /\ slips' = slips + 1 /\ told' = FALSE
  /\ UNCHANGED <<mouse, stage, plan, captures, verified, experiment, done, runs>>

Captured == plan # None /\ Len(captures) = Len(CapturePlan(plan))

\* The measurements of a plan's instruments; their prompts may be refused too.
Verify ==
  /\ Captured /\ ~verified
  /\ verified' = TRUE
  /\ UNCHANGED <<mouse, stage, count, plan, captures, experiment, done, runs, slips, told>>

Conclude ==
  /\ Captured /\ verified
  /\ experiment' = Analysed
  /\ plan' = None
  /\ UNCHANGED <<mouse, stage, count, captures, verified, done, runs, slips, told>>

\* Nothing of a cancelled experiment is kept.
Cancel ==
  /\ plan # None /\ ~(Captured /\ verified)
  /\ plan' = None /\ captures' = <<>>
  /\ UNCHANGED <<mouse, stage, count, verified, experiment, done, runs, slips, told>>

Next ==
  \/ Investigate \/ RunDifferentialLab \/ Follow
  \/ ObserveAction \/ Unobserved \/ Verify \/ Conclude \/ Cancel

Spec == Init /\ [][Next]_vars

-----------------------------------------------------------------------------
(* Properties                                                                 *)

TypeOK ==
  /\ mouse \in Mice /\ stage \in 1..StagesOf[mouse] /\ count \in Nat
  /\ plan # None => plan.action \in DOMAIN ActionTemplates
  /\ Len(captures) <= 8 /\ verified \in BOOLEAN
  /\ experiment # None =>
       /\ experiment.correlated \subseteq Fields
       /\ experiment.stop \in {None, "conflict_found", "hypothesis_resolved",
                               "insufficient_safe_actions"}
       /\ experiment.recommended \in {"repeat-controlled-action", "idle-persistence-check",
                                      "alternate-negative-control"}
  /\ done \subseteq DOMAIN ActionTemplates
  /\ runs \in 0..MaxRuns /\ slips \in 0..MaxSlips /\ told \in BOOLEAN

Answers(f, action) ==
  \/ f.shows \in Does(action)
  \/ f.shows = "stage" /\ "press" \in Does(action)

Fresh == experiment # None /\ plan = None /\ captures # <<>> /\ told

\* When the user did as told, a byte that is reported as correlated follows the action or
\* counts; and one that shows an act and returns, or is a Feature byte that holds the stage, is
\* reported (_rank_stream_fields, _rank_feature_transitions). Of a byte that holds the stage in
\* every periodic report nothing is claimed: the control, at a stage the presses left the mouse
\* in, shares its value, and the code takes that for a contradiction (discovery_lab.py:1521).
CorrelationIsTrue ==
  Fresh =>
    /\ \A f \in experiment.correlated : Answers(f, experiment.action) \/ f.shows = "count"
    /\ \A f \in Fields :
         /\ Answers(f, experiment.action)
         /\ (f.stream = "beat" /\ f.shows \in Acts) \/ (f.stream = "feature" /\ f.shows = "stage")
         => f \in experiment.correlated

\* When the user did as told and no byte counts, a question is only resolved in favour of a
\* byte that follows the action (_stop_reason), by whatever steps it got there; and the next
\* plan of an investigation is one it has not yet done, safe, and tells its hypotheses apart
\* (plan_next_experiment), so investigations end.
PlansLead ==
  /\ (Fresh /\ experiment.stop = "hypothesis_resolved" /\ \A f \in Fields : f.shows # "count") =>
       \A i \in DOMAIN experiment.updated :
         LET h == experiment.updated[i] IN
         h.disposition \in {"supported", "strengthened"} /\ h.field # None =>
           \E f \in Fields : f.id = h.field /\ Answers(f, experiment.action)
  /\ (experiment # None /\ plan = None /\ experiment.stop = None /\ experiment.next # None) =>
       LET a == experiment.next.action IN
       /\ a \notin done \cup {experiment.action}
       /\ ActionTemplates[a].safety \in SafeAutomaticClasses
       /\ Informative(experiment.next.targets, a) \/ Len(experiment.next.targets) <= 1

\* What an investigation concludes and asks next.
ConclusionsLead == CorrelationIsTrue /\ PlansLead
=============================================================================
