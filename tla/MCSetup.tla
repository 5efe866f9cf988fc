------------------------------ MODULE MCSetup ------------------------------
(* The setup and what a user learns of a mouse from its pages, on small instances. *)
(* These share nothing but the user, so one of them moves, the subject, and the     *)
(* others stay where they start.                                                    *)
EXTENDS Setup, TLC

CONSTANTS m1, m2, low, high, NDevices, NStages, MaxHistory

VARIABLES subject,
          section, history, returning, row, deviceRow, bound, can, views

MCDevices == {m1, m2}
MCStart == m1 :> <<low, high>> @@ m2 :> <<high, high>>

pageVars == <<section, history, returning, row, deviceRow, bound, can, views>>

P == INSTANCE SetupPages

-----------------------------------------------------------------------------
(* Which family a mouse speaks                                                *)

Signature(shape, required, weight, fixed) ==
  [shape |-> shape, required |-> required, weight |-> weight, placed |-> fixed]
Discriminator(name, weight, category, of) ==
  [name |-> name, weight |-> weight, category |-> category, mode |-> of]

MCRepertoire ==
  <<[signatures |-> <<Signature("a", TRUE, 6, FALSE)>>, vendors |-> {"v"}, products |-> {"p"},
     identityRequired |-> FALSE, minimum |-> 6,
     recipe |-> [kind |-> "exchange", categories |-> 3, low |-> 1, high |-> 2,
                 checks |-> {Discriminator("length", 3, "frame", "all"),
                             Discriminator("checksum", 3, "integrity", "all"),
                             Discriminator("sequence", 2, "relationship", "any")}]],
    [signatures |-> <<Signature("a", TRUE, 6, TRUE)>>, vendors |-> {}, products |-> {"p"},
     identityRequired |-> FALSE, minimum |-> 6,
     recipe |-> [kind |-> "burst", categories |-> 3, low |-> 1, high |-> 2]],
    [signatures |-> <<Signature("b", FALSE, 4, TRUE)>>, vendors |-> {"v"}, products |-> {"q"},
     identityRequired |-> TRUE, minimum |-> 3,
     recipe |-> [kind |-> "record", categories |-> 4, low |-> 1, high |-> 2]],
    [signatures |-> <<Signature("a", FALSE, 4, FALSE)>>, vendors |-> {}, products |-> {},
     identityRequired |-> FALSE, minimum |-> 4, recipe |-> [kind |-> None]]>>

MCMice == [vendor : {"v", None}, product : {"p", "q"}, shapes : {{"a"}, {"a", "b"}}]

-----------------------------------------------------------------------------
(* Two units of one model, one of which the user may not see the events of     *)

Node(owner, type, number, uniq, usb, visible) ==
  [unit |-> owner, type |-> type, number |-> number, vendor |-> "v", product |-> "p",
   phys |-> None, uniq |-> uniq, usb |-> usb, open |-> visible]

MCNodes == {Node(m1, "evdev", 0, "s1", TRUE, TRUE), Node(m1, "hidraw", 1, "s1", TRUE, TRUE),
            Node(m1, "hidraw", 2, None, TRUE, TRUE),
            Node(m2, "evdev", 0, "s2", FALSE, FALSE), Node(m2, "hidraw", 1, "s2", FALSE, TRUE),
            Node(m2, "hidraw", 2, "s2", FALSE, TRUE)}

\* Two smaller ones, and one alone.
MCReplies == {[dpi |-> "write"], [dpi |-> "read"]}

-----------------------------------------------------------------------------
(* Six mice to learn from: a stage byte and a pulse in one report with other keys;   *)
(* a feature; a pulse that a button sends too; two mirrored streams; one whose every   *)
(* channel is in ordinary use; and one that only counts its presses             *)

Channel(id, source, signal, use) == [id |-> id, source |-> source, signal |-> signal, use |-> use]

MCCycles ==
  <<<<800, 1600, 3200>>, <<400, 800>>, <<400, 800, 1600>>, <<400, 800, 1600>>, <<400, 800, 1600>>,
    <<400, 800, 1600>>>>

MCChannels ==
  <<{Channel(1, "hid", "stage", <<>>), Channel(2, "hid", "pulse", <<2, 0>>)},
    {Channel(1, "hid", "pulse", <<>>), Channel(2, "feature", "stage", <<>>)},
    {Channel(1, "hid", "pulse", <<1, 0>>), Channel(2, "key", "pulse", <<>>),
     Channel(3, "code", "stage", <<>>)},
    {Channel(1, "hid", "stage", <<>>), Channel(2, "hid", "stage", <<>>),
     Channel(3, "key", "pulse", <<>>)},
    {Channel(1, "hid", "count", <<1, 0>>), Channel(2, "key", "pulse", <<1, 0>>),
     Channel(3, "code", "stage", <<7>>)},
    {Channel(1, "hid", "count", <<>>)}>>

VARIABLES pupil, level, counter, hidden, task, options, controls, samples, stages,
          calibrated, lesson, sessions, slips, learnt

guidedVars == <<pupil, level, counter, hidden, task, options, controls, samples, stages,
                calibrated, lesson, sessions, slips, learnt>>

G == INSTANCE GuidedLearning WITH
       device <- pupil, stage <- level, count <- counter, states <- stages,
       profile <- calibrated, outcome <- lesson, Mice <- 1..6, Cycle <- MCCycles,
       ChannelsOf <- MCChannels, Errors <- {0, 30}, Passes <- 2, MaxStages <- 4,
       MaxSessions <- 3, MaxSlips <- 1

-----------------------------------------------------------------------------
(* Three mice in the discovery lab: two that report their stage, one that counts.   *)
(* An experiment is about two of their bytes, or one.                                *)

Byte(i, stream, shows) == [id |-> i, stream |-> stream, offset |-> i % 2, shows |-> shows]

MCFields ==
  <<{Byte(1, "beat", "stage"), Byte(2, "beat", "press"), Byte(3, "beat", "move"),
     Byte(4, "feature", "stage"), Byte(5, "event", "press")},
    {Byte(1, "beat", "stage"), Byte(2, "event", "stage"), Byte(3, "feature", "stage"),
     Byte(4, "beat", "still")},
    {Byte(1, "beat", "count"), Byte(2, "beat", "press"), Byte(3, "feature", "move")}>>

VARIABLES bench, notch, beats, intended, recordings, confirmed, findings, tried, trials,
          mistakes, obeyed

labVars == <<bench, notch, beats, intended, recordings, confirmed, findings, tried, trials,
             mistakes, obeyed>>

About(one, two) ==
  LET of(i, own, stray, probe) ==
        [id |-> i, topic |-> "dpi", field |-> i, disposition |-> "unresolved",
         predicted |-> [DPI_STAGE_CHANGE |-> own, MULTI_DPI_STAGE_SEQUENCE |-> "same",
                        MOUSE_MOVEMENT |-> stray, BOUNDED_ENGINE_STEP |-> probe]]
  IN <<of(one, "a", "x", "u"), of(two, "b", "y", "v")>>

Lab == INSTANCE DiscoveryLab WITH
       mouse <- bench, stage <- notch, count <- beats, plan <- intended, captures <- recordings,
       verified <- confirmed, experiment <- findings, done <- tried, runs <- trials,
       slips <- mistakes, told <- obeyed, Mice <- 1..3, StagesOf <- <<2, 3, 2>>,
       FieldsOf <- MCFields, Questions <- {About(1, 2), About(2, 3), <<About(1, 2)[1]>>},
       MaxRuns <- 2, MaxSlips <- 1

-----------------------------------------------------------------------------
(* Eight files of vendor captures: a conversation; dangerous and unknown commands; two *)
(* that name one report differently, the second of them of another family than the old *)
(* mouse; one whose events are longer; a bootloader's; one in two formats at once.      *)

Frame(size, bytes) == [size |-> size, bytes |-> bytes]
Modern(to, page, number) == Frame(64, <<0, 0, to, 2, page, number>>)
Answer(first, to, page, number) == Frame(64, <<first, 0, to, 2, page, number>>)

Record(tx, way, type, id, frame) ==
  [parses |-> TRUE, tx |-> tx, way |-> way, type |-> type, id |-> id, role |-> "unknown",
   family |-> None, label |-> None, frame |-> frame, timed |-> TRUE, length |-> frame.size]
Out(tx, frame) == Record(tx, "out", "feature", None, frame)
In(tx, frame) == Record(tx, "in", "feature", None, frame)
Event(bytes) == Record(None, "in", "input", 4, Frame(16, bytes))
Named(label) == [Event(<<4, 9>>) EXCEPT !.label = label]

File(identity, family, content) ==
  [formats |-> {"json"}, parses |-> TRUE, prohibited |-> FALSE,
   source |-> [identity |-> identity, family |-> family, records |-> content]]

MCFiles ==
  [talk |-> File(<<14256, 33>>, None,
     <<Out(1, Modern(2, 1, 129)), In(1, Frame(65, <<0, 161, 0, 2, 2, 1, 129>>)),
       Out(2, Modern(2, 1, 2)), In(2, Answer(7, 2, 1, 2)), In(2, Answer(161, 2, 1, 3)),
       Out(3, Modern(2, 0, 129)), Event(<<4, 1, 1, 3, 32, 3, 32>>), Event(<<4, 9>>),
       Event(<<4, 9>>)>>),
   threat |-> File(<<14256, 33>>, None,
     <<Out(1, Modern(2, 0, 13)), In(1, Answer(200, 2, 0, 13)),
       Out(2, Modern(2, 9, 9)), In(2, Answer(161, 2, 9, 9)),
       [In(3, Modern(1, 1, 1)) EXCEPT !.role = "status"],
       [Out(4, Frame(3, <<1, 2, 3>>)) EXCEPT !.parses = FALSE]>>),
   wheel |-> File(<<None, None>>, "modern", <<Named("wheel"), Event(<<4, 3, 50, 1>>)>>),
   dial |-> File(<<13652, 1>>, "modern", <<Named("dial")>>),
   long |-> File(<<1, 1>>, None,
     <<[Event(<<4, 2>>) EXCEPT !.family = "modern", !.length = 20]>>),
   old |-> File(<<13652, 1>>, None,
     <<Record(1, "out", "output", 8, Frame(16, <<8>>)),
       Record(None, "in", "input", 8, Frame(16, <<4>>)),
       Record(None, "in", "input", 8, Frame(16, <<99>>))>>),
   boot |-> File(<<14256, 24>>, None,
     <<Out(1, Modern(2, 1, 129)), Out(1, Modern(2, 1, 130)), In(1, Answer(161, 2, 1, 129)),
       Event(<<4, 2>>)>>),
   both |-> [File(<<1, 1>>, None, <<>>) EXCEPT !.formats = {"json", "jsonl"}]]

MCCaptures == DOMAIN MCFiles

-----------------------------------------------------------------------------
(* Five mice that keep a new setting differently, and users who accept more or less   *)

Keeps(takes, reports, forgets, again, saves) ==
  [takes |-> takes, reports |-> reports, forgets |-> forgets, host |-> again, saves |-> saves]
Accepts(receiver, power, disruption, cost) ==
  [receiver |-> receiver, power |-> power, disruption |-> disruption, cost |-> cost]
Observed(field, physical, states) == [field |-> field, physical |-> physical, states |-> states]

NewState == [value |-> "new", freshness |-> "fresh"]
OldState == [value |-> "old", freshness |-> "stale"]

MCTestMice ==
  {Keeps(TRUE, TRUE, 6, FALSE, FALSE), Keeps(TRUE, FALSE, 3, FALSE, TRUE),
   Keeps(TRUE, TRUE, 5, TRUE, FALSE), Keeps(FALSE, TRUE, 6, FALSE, FALSE),
   Keeps(TRUE, TRUE, 1, FALSE, TRUE)}

MCTestUsers ==
  {Accepts(TRUE, TRUE, TRUE, 15), Accepts(FALSE, TRUE, TRUE, 15),
   Accepts(FALSE, FALSE, TRUE, 15), Accepts(TRUE, TRUE, FALSE, 15),
   Accepts(TRUE, TRUE, TRUE, 10)}

MCTestExperiments ==
  {Observed(None, <<0, 1>>, <<>>),
   Observed(<<"old", "new">>, <<0, 1>>, <<OldState>>),
   Observed(<<"old", "new">>, <<0, 0>>, <<NewState>>),
   Observed(<<"old", "new">>, None, <<NewState, OldState>>),
   Observed(<<"old", "new">>, <<0, 1>>, <<>>)}

-----------------------------------------------------------------------------
(* One part moves                                                             *)

Parts == {"setup", "pages", "updater", "recognition", "discovery", "guided", "lab", "captures",
          "ladder"}

\* A part that is not the subject makes one choice at its start.
Starting(part, init, choice) == init /\ (subject = part \/ choice)

MCInit ==
  /\ subject \in Parts
  /\ Starting("setup", Init, cursor = m1 /\ service = "inactive")
  /\ Starting("pages", P!Init, deviceRow = 0 /\ can = {})
  /\ Starting("updater", U!Init, kind = "pip" /\ running = None)
  /\ Starting("recognition", Who!Init, mouse = [vendor |-> None, product |-> "p", shapes |-> {"a"}])
  /\ V!Init
  /\ Starting("guided", G!Init, pupil = 1 /\ level = 1)
  /\ Starting("lab", Lab!Init, bench = 1 /\ notch = 1)
  /\ Vendor!Init
  /\ Starting("ladder", Ladder!Init,
              reported = "old" /\ tested = Keeps(TRUE, TRUE, 6, FALSE, FALSE)
              /\ user = Accepts(TRUE, TRUE, TRUE, 15))

MCNext ==
  /\ IF subject = "setup" THEN Next ELSE UNCHANGED vars
  /\ IF subject = "pages" THEN P!Next ELSE UNCHANGED pageVars
  /\ IF subject = "updater" THEN U!Next ELSE UNCHANGED updateVars
  /\ IF subject = "recognition" THEN Who!Next ELSE UNCHANGED recognitionVars
  /\ IF subject = "discovery" THEN V!Next ELSE UNCHANGED discoveryVars
  /\ IF subject = "guided" THEN G!Next ELSE UNCHANGED guidedVars
  /\ IF subject = "lab" THEN Lab!Next ELSE UNCHANGED labVars
  /\ IF subject = "captures" THEN Vendor!Next ELSE UNCHANGED captureVars
  /\ IF subject = "ladder" THEN Ladder!Next ELSE UNCHANGED ladderVars
  /\ UNCHANGED subject

MCSpec == MCInit /\ [][MCNext]_<<subject, vars, pageVars, updateVars, recognitionVars,
                                 discoveryVars, guidedVars, labVars, captureVars, ladderVars>>
            /\ WF_vars(ServiceStops) /\ WF_vars(Working) /\ WF_vars(Leaving) /\ WF_vars(Restore)

\* Only the session of the setup.
SessionSpec == subject = "setup" /\ MCSpec

-----------------------------------------------------------------------------

\* The type invariant of the part that moves.
SetupTypeOK ==
  CASE subject = "setup" -> TypeOK
    [] subject = "pages" -> P!TypeOK
    [] subject = "updater" -> U!TypeOK
    [] subject = "recognition" -> Who!TypeOK
    [] subject = "discovery" -> V!TypeOK
    [] subject = "guided" -> G!TypeOK
    [] subject = "lab" -> Lab!TypeOK
    [] subject = "captures" -> Vendor!TypeOK
    [] subject = "ladder" -> Ladder!TypeOK

\* GuidedLearning: the stages that were measured with a ruler, and what is learned of the
\* channels that show them, are the mouse's, for a mouse that is learned again from its first
\* stage on; and a trigger is not set off by ordinary use.
CalibrationIsTrue == subject = "guided" => G!CalibrationIsTrue

\* DiscoveryLab: of a user who did as told, a byte that an experiment reports follows the
\* action or counts, and an act that returns and a Feature byte of the stage are reported; a
\* question is resolved in favour of a byte that follows the action, and the next plan is one
\* that was not done, safe, and tells its hypotheses apart.
ConclusionsLead == subject = "lab" => Lab!ConclusionsLead

=============================================================================
