---------------------------- MODULE LaboratoryProofs ----------------------------
(* What the laboratory leaves behind, for any mouse and any values. A command, however  *)
(* it ends, leaves the mouse as it was or says so, and calls PROVEN only what was       *)
(* measured; a lookup in what was learned hands out nothing that it should not; and what *)
(* is read of a Razer mouse, of a bus and of a dialogue is so.                          *)
(*                                                                                      *)
(* The commands' proofs rest on a few rules that every script of a command keeps        *)
(* (Kept): where it records the original state, writes, rolls back and saves. Each      *)
(* script is expanded once, and the invariant goes by these rules. The stores' proof    *)
(* rests on the honesty of a document, which no edit, crash or damage takes from it;    *)
(* the Razer mouse's (RazerInv) on when a value was the mouse's that a reader holds; the *)
(* bus's (BusInv) on the order of the events of one identity, of which only the last can *)
(* wait; the dialogue's (TalkInv) on requests that wait once and have not ended.        *)
EXTENDS Laboratory, FiniteSetTheorems, TLAPS

-----------------------------------------------------------------------------------
(* What the scripts have in common.                                                *)

Targets == {Base, First, Second}
\* The steps that change the mouse on the way.
Writes == {"teach", "onboard", "replay"}

\* The commands that arm the restoration by a step of their own.
Special == H!Probes \cup {"write_promotion"}

\* What a step of a script can be.
DoKinds ==
  {"prepare", "bind", "record", "need", "clear", "teach", "onboard", "check", "release", "open",
   "replay", "measure", "observe", "shut", "rollback", "promote", "corpus", "demonstrate"}
Steps == [do : DoKinds, to : Targets \cup {Absent}]

\* The step at which a command records the original state.
RecordStep(c) == IF c = "polling_probe" THEN 2 ELSE 3

\* Step i of the script of command c keeps the rules that the commands share.
Kept(c, i) ==
  LET step == H!Script(c)[i]
  IN  /\ step.do = "record" <=> i = RecordStep(c)
      /\ step.do \in Writes \cup {"rollback"} => i > RecordStep(c)
      /\ step.do \in {"teach", "replay"} => step.to \in Targets
      /\ c = "polling_promotion" /\ step.do \in Writes => i < 17
      /\ step.do = "need" => c \in Special /\ RecordStep(c) < i /\ i < 9
      /\ step.do = "clear" => c \in H!Probes
      /\ step.do = "rollback" <=> c = "polling_promotion" /\ i = 17
      /\ step.do = "promote" => \/ c = "write_promotion" /\ i = 11
                                \/ c = "polling_promotion" /\ i = 18

\* The script of command c has this length, and each step of it keeps the rules.
KeepsTo(c, length) ==
  /\ Len(H!Script(c)) = length
  /\ \A i \in 1..length : Kept(c, i)

LEMMA StepsAreSteps ==
  /\ \A does \in DoKinds : H!Plain(does) \in Steps
  /\ \A does \in DoKinds, v \in Targets : H!Aim(does, v) \in Steps
  BY DEF H!Plain, H!Aim, Steps

LEMMA ReplaysAreSteps ==
  /\ H!Replays(First) \in Seq(Steps) /\ H!Replays(Second) \in Seq(Steps)
  /\ H!Replays(Base) \in Seq(Steps)
  /\ H!ProbeReplays \in Seq(Steps)
  BY StepsAreSteps DEF H!Replays, H!ProbeReplays, DoKinds, Targets

LEMMA WriteTraceKept ==
  KeepsTo("write_trace", 6)
<1>1. H!Script("write_trace") = H!WriteTrace
  BY DEF H!Script, H!Scripts
<1> QED
  BY <1>1 DEF H!WriteTrace, H!Plain, H!Aim, KeepsTo, Kept, RecordStep, Targets, Writes,
         Special, H!Probes

LEMMA PollingHostTraceKept ==
  KeepsTo("polling_host_trace", 12)
<1>1. H!Script("polling_host_trace") = H!PollingHostTrace
  BY DEF H!Script, H!Scripts
<1> QED
  BY <1>1 DEF H!PollingHostTrace, H!Plain, H!Aim, KeepsTo, Kept, RecordStep, Targets, Writes,
         Special, H!Probes

LEMMA PollingTraceKept ==
  KeepsTo("polling_trace", 10)
<1>1. H!Script("polling_trace") = H!PollingTrace
  BY DEF H!Script, H!Scripts
<1> QED
  BY <1>1 DEF H!PollingTrace, H!Plain, H!Aim, KeepsTo, Kept, RecordStep, Targets, Writes,
         Special, H!Probes

LEMMA PollingVerifyKept ==
  KeepsTo("polling_verify", 9)
<1>1. H!Script("polling_verify") = H!PollingVerify
  BY DEF H!Script, H!Scripts
<1> QED
  BY <1>1 DEF H!PollingVerify, H!Plain, H!Aim, KeepsTo, Kept, RecordStep, Targets, Writes,
         Special, H!Probes

LEMMA WritePromotionKept ==
  /\ KeepsTo("write_promotion", 11)
  /\ H!Script("write_promotion")[6] = H!Aim("measure", Base)
  /\ H!Script("write_promotion")[10] = H!Aim("measure", First)
<1>1. H!Script("write_promotion") = H!WritePromotion
  BY DEF H!Script, H!Scripts
<1>2. <<H!Plain("prepare"), H!Plain("bind"), H!Plain("record"), H!Aim("teach", Base),
        H!Plain("need"), H!Aim("measure", Base), H!Plain("release"), H!Plain("open")>>
        \in Seq(Steps)
  BY StepsAreSteps DEF DoKinds, Targets
<1>3. <<H!Plain("promote")>> \in Seq(Steps)
  BY StepsAreSteps DEF DoKinds, Targets
<1> QED
  BY <1>1, <1>2, <1>3, ReplaysAreSteps
     DEF H!WritePromotion, H!Replays,
         H!Plain, H!Aim, KeepsTo, Kept, RecordStep, Targets, Writes,
         Special, H!Probes

LEMMA DpiGeneralizationKept ==
  KeepsTo("dpi_generalization", 12)
<1>1. H!Script("dpi_generalization") = H!DpiGeneralization
  BY DEF H!Script, H!Scripts
<1>2. <<H!Plain("prepare"), H!Plain("bind"), H!Plain("record"), H!Aim("teach", Base),
        H!Aim("measure", Base), H!Plain("release"), H!Plain("open"), H!Aim("replay", Base)>>
        \in Seq(Steps)
  BY StepsAreSteps DEF DoKinds, Targets
<1> QED
  BY <1>1, <1>2, ReplaysAreSteps
     DEF H!DpiGeneralization, H!Replays,
         H!Plain, H!Aim, KeepsTo, Kept, RecordStep, Targets, Writes,
         Special, H!Probes

LEMMA PollingPromotionKept ==
  /\ KeepsTo("polling_promotion", 18)
  /\ H!Script("polling_promotion")[10] = H!Aim("measure", First)
  /\ H!Script("polling_promotion")[12] = H!Aim("measure", Second)
  /\ H!Script("polling_promotion")[14] = H!Aim("measure", Base)
<1>1. H!Script("polling_promotion") = H!PollingPromotion
  BY DEF H!Script, H!Scripts
<1>2. H!PollingPromotionStarts \in Seq(Steps)
  BY StepsAreSteps DEF H!PollingPromotionStarts, DoKinds, Targets
<1>3. <<H!Plain("shut"), H!Plain("bind"), H!Plain("rollback"), H!Plain("promote")>> \in Seq(Steps)
  BY StepsAreSteps DEF DoKinds, Targets
<1> QED
  BY <1>1, <1>2, <1>3, ReplaysAreSteps
     DEF H!PollingPromotion, H!PollingPromotionStarts, H!PollingPromotionProves,
         H!Replays,
         H!Plain, H!Aim, KeepsTo, Kept, RecordStep, Targets, Writes,
         Special, H!Probes

LEMMA PollingReplayKept ==
  KeepsTo("polling_replay", 8)
<1>1. H!Script("polling_replay") = H!PollingReplay
  BY DEF H!Script, H!Scripts
<1>2. <<H!Plain("prepare"), H!Plain("bind"), H!Plain("record"), H!Plain("onboard"),
        H!Plain("release"), H!Plain("open")>> \in Seq(Steps)
  BY StepsAreSteps DEF DoKinds, Targets
<1> QED
  BY <1>1, <1>2, ReplaysAreSteps
     DEF H!PollingReplay, H!Replays,
         H!Plain, H!Aim, KeepsTo, Kept, RecordStep, Targets, Writes,
         Special, H!Probes

LEMMA PollingStateMachineKept ==
  KeepsTo("polling_state_machine", 10)
<1>1. H!Script("polling_state_machine") = H!PollingStateMachine
  BY DEF H!Script, H!Scripts
<1>2. <<H!Plain("prepare"), H!Plain("bind"), H!Plain("record"), H!Plain("onboard"),
        H!Plain("release"), H!Plain("open")>> \in Seq(Steps)
  BY StepsAreSteps DEF DoKinds, Targets
<1> QED
  BY <1>1, <1>2, ReplaysAreSteps
     DEF H!PollingStateMachine, H!Replays,
         H!Plain, H!Aim, KeepsTo, Kept, RecordStep, Targets, Writes,
         Special, H!Probes

LEMMA DpiProbeKept ==
  /\ KeepsTo("dpi_probe", 10)
  /\ H!Script("dpi_probe")[9] = H!Plain("clear")
  /\ H!Script("dpi_probe")[10] = H!Aim("measure", Base)
<1>1. H!Script("dpi_probe") = H!DpiProbe
  BY DEF H!Script, H!Scripts
<1>2. <<H!Plain("prepare"), H!Plain("open"), H!Plain("record"), H!Aim("measure", Base)>>
        \in Seq(Steps)
  BY StepsAreSteps DEF DoKinds, Targets
<1>3. <<H!Aim("measure", Base)>> \in Seq(Steps)
  BY StepsAreSteps DEF DoKinds, Targets
<1> QED
  BY <1>1, <1>2, <1>3, ReplaysAreSteps
     DEF H!DpiProbe, H!ProbeReplays,
         H!Plain, H!Aim, KeepsTo, Kept, RecordStep, Targets, Writes,
         Special, H!Probes

LEMMA PollingProbeKept ==
  /\ KeepsTo("polling_probe", 10)
  /\ H!Script("polling_probe")[9] = H!Plain("clear")
  /\ H!Script("polling_probe")[10] = H!Aim("measure", Base)
<1>1. H!Script("polling_probe") = H!PollingProbe
  BY DEF H!Script, H!Scripts
<1>2. <<H!Plain("prepare"), H!Plain("record"), H!Aim("measure", Base), H!Plain("open")>>
        \in Seq(Steps)
  BY StepsAreSteps DEF DoKinds, Targets
<1>3. <<H!Aim("measure", Base)>> \in Seq(Steps)
  BY StepsAreSteps DEF DoKinds, Targets
<1> QED
  BY <1>1, <1>2, <1>3, ReplaysAreSteps
     DEF H!PollingProbe, H!ProbeReplays,
         H!Plain, H!Aim, KeepsTo, Kept, RecordStep, Targets, Writes,
         Special, H!Probes

-----------------------------------------------------------------------------------
(* What a command keeps in order to leave the mouse as it found it.                *)

Shape ==
  /\ command \in H!Commands /\ pc \in Nat \ {0}
  /\ at \in {"run", "closing", "restoring", "ended"}
  /\ trait \in [own : BOOLEAN, takes : BOOLEAN, accepts : SUBSET Targets]
  /\ mode \in H!Modes /\ value \in [H!Modes -> Targets]
  /\ found \in [mode : H!Modes, value : Targets]
  /\ restore \in BOOLEAN /\ warned \in BOOLEAN /\ abandoned \in BOOLEAN

\* A mouse without a rate per mode applies one value; on one with it, a rate command
\* writes the Host rate only. A polling operation accepts the rates that its promotion
\* measures.
ModesInv ==
  /\ command = "polling_promotion" => trait.accepts = Targets
  /\ command \in H!DpiCommands => ~trait.own
  /\ ~trait.own => value["host"] = value["onboard"]
  /\ trait.own /\ found.mode = "onboard" => value["onboard"] = found.value

\* Before the original state is recorded it is in force; what is recorded is what was
\* found.
RecordInv ==
  /\ pc <= RecordStep(command) => H!Restored /\ ~restore
  /\ pc > RecordStep(command) => original = found

\* The rollback of a promotion is its last step but one.
RolledBack == command = "polling_promotion" /\ pc > 17

\* Once a command may have changed the mouse, its cleanup will restore it or warn; the
\* promotion of a DPI write, once it has armed that.
RestoreInv ==
  /\ command \notin Special =>
       /\ RecordStep(command) < pc /\ ~RolledBack => restore
       /\ RolledBack => H!Restored /\ ~restore
  /\ at = "ended" /\ command \notin H!Probes /\ (command \in Special => restore)
       => H!Restored \/ warned \/ abandoned

\* A probe disarms its emergency rollback and then measures the value it found.
ProbeInv ==
  command \in H!Probes =>
    /\ found.value = Base
    /\ pc > 9 => ~restore
    /\ pc > 10 => H!Live = Base

\* What a script has measured so far was found in force.
MeasuredInv ==
  \A i \in 1..Len(H!Script(command)) :
    i < pc /\ H!Script(command)[i].do = "measure" => H!Script(command)[i].to \in proved

\* A PROVEN operation is the last thing that a promotion saves.
ProvenInv ==
  file = "proven" => \/ command = "write_promotion" /\ pc > 11
                     \/ command = "polling_promotion" /\ pc > 18

HInv == Shape /\ ModesInv /\ RecordInv /\ RestoreInv /\ ProbeInv /\ MeasuredInv /\ ProvenInv

-----------------------------------------------------------------------------------
(* The steps of a script.                                                          *)

LEMMA ScriptsKept ==
  ASSUME NEW c \in H!Commands
  PROVE  \E length \in Nat : KeepsTo(c, length)
<1>1. c \in {"write_promotion", "dpi_generalization", "write_trace", "dpi_probe",
             "polling_promotion", "polling_replay", "polling_state_machine",
             "polling_host_trace", "polling_trace", "polling_verify", "polling_probe"}
  BY DEF H!Commands, H!DpiCommands, H!RateCommands
<1>2. {6, 8, 9, 10, 11, 12, 18} \subseteq Nat
  OBVIOUS
<1> QED
  BY <1>1, <1>2, WritePromotionKept, DpiGeneralizationKept, WriteTraceKept, DpiProbeKept,
     PollingPromotionKept, PollingReplayKept, PollingStateMachineKept, PollingHostTraceKept,
     PollingTraceKept, PollingVerifyKept, PollingProbeKept, Zenon

\* The step at which a command is keeps the rules, and does one thing.
LEMMA AtKept ==
  ASSUME Shape, NEW does, H!At(does)
  PROVE  /\ pc \in 1..Len(H!Script(command)) /\ Len(H!Script(command)) \in Nat
         /\ Kept(command, pc) /\ H!Script(command)[pc].do = does
         /\ RecordStep(command) \in {2, 3}
         /\ at = "run"
<1>1. command \in H!Commands /\ pc \in Nat \ {0}
  BY DEF Shape
<1>2. at = "run" /\ pc <= Len(H!Script(command)) /\ H!Script(command)[pc].do = does
  BY DEF H!At, H!Running
<1>3. PICK length \in Nat : KeepsTo(command, length)
  BY <1>1, ScriptsKept
<1> QED
  BY <1>1, <1>2, <1>3 DEF KeepsTo, RecordStep

\* A step that advances and leaves the mouse, the record and the file as they are.
Unobtrusive ==
  H!Prepare \/ H!Bind \/ H!Check \/ H!Release \/ H!OpenAdapter \/ H!Observe \/ H!ShutAdapter

\* The end of a step keeps what was measured before it.
LEMMA MeasuredBefore ==
  ASSUME Shape, MeasuredInv, NEW does, H!At(does), pc' = pc + 1, command' = command,
         proved \subseteq proved',
         does = "measure" => H!Goal \in proved'
  PROVE  MeasuredInv'
<1>1. pc \in 1..Len(H!Script(command)) /\ H!Script(command)[pc].do = does
  BY AtKept
<1>2. ASSUME NEW i \in 1..Len(H!Script(command)), i < pc + 1,
             H!Script(command)[i].do = "measure"
      PROVE  H!Script(command)[i].to \in proved'
  <2>1. CASE i < pc
    BY <1>2, <2>1 DEF MeasuredInv
  <2>2. CASE i = pc
    BY <1>1, <1>2, <2>2 DEF H!Goal
  <2> QED
    BY <1>1, <1>2, <2>1, <2>2
<1> QED
  BY <1>2 DEF MeasuredInv

-----------------------------------------------------------------------------------
(* The mouse.                                                                      *)

\* A value written to the mouse in mode m is in force there.
LEMMA PutFacts ==
  ASSUME Shape, ModesInv, NEW m \in H!Modes, NEW v \in Targets
  PROVE  /\ H!Put(m, v) \in [H!Modes -> Targets] /\ H!Put(m, v)[m] = v
         /\ ~trait.own => H!Put(m, v) = [n \in H!Modes |-> v]
         /\ trait.own /\ m = "host" => H!Put(m, v)["onboard"] = value["onboard"]
<1>1. value \in [H!Modes -> Targets] /\ trait.own \in BOOLEAN
  BY DEF Shape
<1> QED
  BY <1>1 DEF H!Put, H!Modes

\* What a step or a failed step may write: a DPI in the mode the mouse is in, a rate in
\* Host mode.
Written ==
  \/ UNCHANGED <<mode, value>>
  \/ mode' \in H!Modes /\ value' = value
  \/ /\ mode' \in H!Modes
     /\ \E v \in Targets : value' = H!Put(H!WriteMode, v)

LEMMA WrittenKeeps ==
  ASSUME Shape, ModesInv, Written, UNCHANGED <<command, trait, found>>
  PROVE  /\ mode' \in H!Modes /\ value' \in [H!Modes -> Targets] /\ ModesInv'
<1>1. CASE UNCHANGED value
  BY <1>1 DEF Written, Shape, ModesInv
<1>2. CASE \E v \in Targets : value' = H!Put(H!WriteMode, v)
  <2>1. PICK v \in Targets : value' = H!Put(H!WriteMode, v)
    BY <1>2
  <2>2. H!WriteMode \in H!Modes /\ (command \notin H!DpiCommands => H!WriteMode = "host")
    BY DEF H!WriteMode, H!Modes, Shape
  <2>3. /\ value' \in [H!Modes -> Targets]
        /\ ~trait.own => value' = [n \in H!Modes |-> v]
        /\ trait.own /\ H!WriteMode = "host" => value'["onboard"] = value["onboard"]
    BY <2>1, <2>2, PutFacts
  <2>4. mode' \in H!Modes
    BY DEF Written, Shape
  <2> QED
    BY <2>2, <2>3, <2>4 DEF ModesInv, H!Modes
<1> QED
  BY <1>1, <1>2 DEF Written

\* The restoration puts back what was found; a probe only asks for the value.
LEMMA PutBackRestores ==
  ASSUME Shape, ModesInv, original = found, H!PutBack, UNCHANGED <<command, trait, found>>
  PROVE  /\ Written
         /\ command \notin H!Probes => H!Restored'
<1>1. /\ found.mode \in H!Modes /\ found.value \in Targets /\ mode \in H!Modes
      /\ trait.own \in BOOLEAN
  BY DEF Shape
<1>2. H!WriteMode \in H!Modes /\ (command \notin H!DpiCommands => H!WriteMode = "host")
  BY DEF H!WriteMode, H!Modes, Shape
<1>3. \/ UNCHANGED <<mode, value>> /\ command \in H!Probes
      \/ value' = H!Put(H!WriteMode, found.value) /\ mode' \in {H!WriteMode, found.mode}
  BY DEF H!PutBack
<1>4. Written
  BY <1>1, <1>2, <1>3 DEF Written
<1>5. ASSUME command \notin H!Probes PROVE H!Restored'
  <2>1. mode' = found.mode
    BY <1>5 DEF H!PutBack
  <2>2. value' = H!Put(H!WriteMode, found.value)
    BY <1>3, <1>5
  <2>3. CASE ~trait.own
    <3>1. value' = [n \in H!Modes |-> found.value]
      BY <1>1, <1>2, <2>3, <2>2, PutFacts
    <3> QED
      BY <1>1, <2>1, <3>1 DEF H!Restored, H!Live
  <2>4. CASE trait.own
    <3>1. command \notin H!DpiCommands /\ H!WriteMode = "host"
      BY <1>2, <2>4 DEF ModesInv
    <3>2. value'["host"] = found.value /\ value'["onboard"] = value["onboard"]
      BY <1>1, <2>4, <2>2, <3>1, PutFacts DEF H!Modes
    <3>3. value'[found.mode] = found.value
      BY <1>1, <2>4, <3>2 DEF ModesInv, H!Modes
    <3> QED
      BY <2>1, <3>3 DEF H!Restored, H!Live
  <2> QED
    BY <1>1, <2>3, <2>4
<1> QED
  BY <1>4, <1>5

-----------------------------------------------------------------------------------
(* Each action                                                                     *)

\* The counter and the file of a step that is not a save.
LEMMA CounterNext ==
  ASSUME HInv, NEW does, H!At(does), H!Advance, file' = file
  PROVE  /\ pc' \in Nat \ {0} /\ pc' = pc + 1 /\ pc \in 1..Len(H!Script(command))
         /\ Kept(command, pc) /\ H!Script(command)[pc].do = does
         /\ RecordStep(command) \in {2, 3}
         /\ at = "run" /\ at' = "run" /\ command' = command
         /\ command' \in H!Commands /\ RecordStep(command)' = RecordStep(command)
         /\ ProvenInv'
<1>1. /\ pc \in 1..Len(H!Script(command)) /\ Len(H!Script(command)) \in Nat
      /\ Kept(command, pc) /\ H!Script(command)[pc].do = does
      /\ RecordStep(command) \in {2, 3} /\ at = "run"
  BY AtKept DEF HInv
<1>2. pc' = pc + 1 /\ command' = command /\ at' = at
  BY DEF H!Advance
<1>3. command \in H!Commands /\ pc \in Nat \ {0}
  BY DEF HInv, Shape
<1> QED
  BY <1>1, <1>2, <1>3 DEF HInv, ProvenInv, RecordStep

\* The last two steps of a probe.
LEMMA ProbeEnds ==
  ASSUME command \in H!Probes
  PROVE  /\ Len(H!Script(command)) = 10
         /\ H!Script(command)[9].do = "clear"
         /\ H!Script(command)[10].do = "measure" /\ H!Script(command)[10].to = Base
<1>1. command = "dpi_probe" \/ command = "polling_probe"
  BY DEF H!Probes
<1>2. CASE command = "dpi_probe"
  BY <1>2, DpiProbeKept DEF KeepsTo, H!Plain, H!Aim
<1>3. CASE command = "polling_probe"
  BY <1>3, PollingProbeKept DEF KeepsTo, H!Plain, H!Aim
<1> QED
  BY <1>1, <1>2, <1>3

LEMMA QuietNext == HInv /\ Unobtrusive => HInv'
<1> SUFFICES ASSUME HInv, Unobtrusive PROVE HInv'
  OBVIOUS
<1>1. PICK does \in {"prepare", "bind", "check", "release", "open", "observe", "shut"} :
        H!At(does) /\ H!Advance
  BY DEF Unobtrusive, H!Prepare, H!Bind, H!Check, H!Release, H!OpenAdapter, H!Observe, H!ShutAdapter
<1>2. UNCHANGED <<trait, found, mode, value, original, restore, proved, file, warned, abandoned>>
  BY DEF Unobtrusive, H!Prepare, H!Bind, H!Check, H!Release, H!OpenAdapter, H!Observe,
         H!ShutAdapter,
         H!dev, H!book
<1>3. /\ pc' \in Nat \ {0} /\ pc' = pc + 1 /\ pc \in 1..Len(H!Script(command))
      /\ Kept(command, pc) /\ H!Script(command)[pc].do = does
      /\ RecordStep(command) \in {2, 3}
      /\ at = "run" /\ at' = "run" /\ command' = command
      /\ command' \in H!Commands /\ RecordStep(command)' = RecordStep(command)
      /\ ProvenInv'
  BY <1>1, <1>2, CounterNext
<1>4. Shape' /\ ModesInv'
  BY <1>2, <1>3 DEF HInv, Shape, ModesInv
<1>5. MeasuredInv'
  BY <1>1, <1>2, <1>3, MeasuredBefore DEF HInv
<1>6. pc # RecordStep(command) /\ (command = "polling_promotion" => pc # 17)
  BY <1>1, <1>3 DEF Kept
<1>7. RecordInv' /\ RestoreInv'
  BY <1>2, <1>3, <1>6 DEF HInv, RecordInv, RestoreInv, RolledBack, H!Restored, H!Live
<1>8. command \in H!Probes => pc # 9 /\ pc # 10
  BY <1>1, <1>3, ProbeEnds
<1>9. ProbeInv'
  BY <1>2, <1>3, <1>8 DEF HInv, ProbeInv, H!Live
<1> QED
  BY <1>3, <1>4, <1>5, <1>7, <1>9 DEF HInv

LEMMA ArmNext == HInv /\ (H!Record \/ H!Need \/ H!Clear) => HInv'
<1> SUFFICES ASSUME HInv, H!Record \/ H!Need \/ H!Clear PROVE HInv'
  OBVIOUS
<1>1. PICK does \in {"record", "need", "clear"} : H!At(does) /\ H!Advance
  BY DEF H!Record, H!Need, H!Clear
<1>2. UNCHANGED <<trait, found, mode, value, proved, file, warned, abandoned>>
  BY DEF H!Record, H!Need, H!Clear, H!dev
<1>3. /\ pc' \in Nat \ {0} /\ pc' = pc + 1 /\ pc \in 1..Len(H!Script(command))
      /\ Kept(command, pc) /\ H!Script(command)[pc].do = does
      /\ RecordStep(command) \in {2, 3}
      /\ at = "run" /\ at' = "run" /\ command' = command
      /\ command' \in H!Commands /\ RecordStep(command)' = RecordStep(command)
      /\ ProvenInv'
  BY <1>1, <1>2, CounterNext
<1>4. restore' \in BOOLEAN
  BY DEF H!Record, H!Need, H!Clear
<1>5. Shape' /\ ModesInv'
  BY <1>2, <1>3, <1>4 DEF HInv, Shape, ModesInv
<1>6. MeasuredInv'
  BY <1>1, <1>2, <1>3, MeasuredBefore DEF HInv
<1>7. CASE H!Record
  <2>1. pc = RecordStep(command)
    BY <1>3, <1>7 DEF H!Record, H!At, Kept
  <2>2. H!Restored /\ original' = [mode |-> mode, value |-> H!Live]
    BY <1>3, <1>7, <2>1 DEF H!Record, HInv, RecordInv
  <2>3. command \notin Special => restore'
    BY <1>7 DEF H!Record, Special
  <2>4. command \in H!Probes => ~restore'
    BY <1>7 DEF H!Record
  <2>5. found = [mode |-> found.mode, value |-> found.value]
    BY DEF HInv, Shape
  <2>6. original' = found
    BY <2>2, <2>5 DEF H!Restored
  <2>7. RecordInv'
    BY <1>2, <1>3, <2>1, <2>6 DEF RecordInv
  <2>8. ~RolledBack'
    BY <1>3, <2>1 DEF RolledBack
  <2>9. RestoreInv'
    BY <1>3, <2>3, <2>8 DEF RestoreInv
  <2>10. ProbeInv'
    BY <1>2, <1>3, <2>1, <2>4 DEF HInv, ProbeInv
  <2> QED
    BY <1>3, <1>5, <1>6, <2>7, <2>9, <2>10 DEF HInv
<1>8. CASE H!Need \/ H!Clear
  <2>1. command \in Special /\ pc # RecordStep(command) /\ original' = original
    BY <1>3, <1>8 DEF H!Need, H!Clear, H!At, Kept, Special
  <2>2. pc > RecordStep(command) \/ restore' = FALSE
    BY <1>3, <1>8 DEF H!Need, H!Clear, H!At, Kept
  <2>3. RecordInv'
    BY <1>2, <1>3, <2>1, <2>2 DEF HInv, RecordInv, H!Restored, H!Live
  <2>4. RestoreInv'
    BY <1>3, <2>1 DEF RestoreInv
  <2>5. CASE H!Need
    <3>1. pc < 9
      BY <1>3, <2>5 DEF H!Need, H!At, Kept
    <3> QED
      BY <1>2, <1>3, <1>5, <1>6, <2>3, <2>4, <3>1 DEF HInv, ProbeInv, H!Live
  <2>6. CASE H!Clear
    <3>1. restore' = FALSE /\ (command \in H!Probes => pc # 10)
      BY <1>3, <2>6, ProbeEnds DEF H!Clear, H!At
    <3> QED
      BY <1>2, <1>3, <1>5, <1>6, <2>3, <2>4, <3>1 DEF HInv, ProbeInv, H!Live
  <2> QED
    BY <1>8, <2>5, <2>6
<1> QED
  BY <1>7, <1>8

\* A write comes after the record and before the rollback, while the restoration of a
\* command that is not special is armed.
LEMMA WriteNext == HInv /\ (H!Teach \/ H!SetOnboard \/ H!Replay) => HInv'
<1> SUFFICES ASSUME HInv, H!Teach \/ H!SetOnboard \/ H!Replay PROVE HInv'
  OBVIOUS
<1>1. PICK does \in Writes : H!At(does) /\ H!Advance
  BY DEF H!Teach, H!SetOnboard, H!Replay, Writes
<1>2. UNCHANGED <<trait, found, original, restore, proved, file, warned, abandoned>>
  BY DEF H!Teach, H!SetOnboard, H!Replay, H!dev, H!book
<1>3. /\ pc' \in Nat \ {0} /\ pc' = pc + 1 /\ pc \in 1..Len(H!Script(command))
      /\ Kept(command, pc) /\ H!Script(command)[pc].do = does
      /\ RecordStep(command) \in {2, 3}
      /\ at = "run" /\ at' = "run" /\ command' = command
      /\ command' \in H!Commands /\ RecordStep(command)' = RecordStep(command)
      /\ ProvenInv'
  BY <1>1, <1>2, CounterNext
<1>4. Written
  <2>1. H!WriteMode \in H!Modes /\ "onboard" \in H!Modes
    BY DEF HInv, Shape, H!WriteMode, H!Modes
  <2>2. H!At("teach") \/ H!At("replay") => H!Goal \in Targets
    BY <1>3 DEF H!At, H!Goal, Kept
  <2> QED
    BY <2>1, <2>2 DEF H!Teach, H!SetOnboard, H!Replay, Written, HInv, Shape
<1>5. Shape' /\ ModesInv'
  BY <1>2, <1>3, <1>4, WrittenKeeps DEF HInv, Shape
<1>6. MeasuredInv'
  BY <1>1, <1>2, <1>3, MeasuredBefore DEF HInv, Writes
<1>7. pc > RecordStep(command) /\ (command = "polling_promotion" => pc < 17)
  BY <1>3 DEF Kept
<1>8. RecordInv' /\ RestoreInv'
  BY <1>2, <1>3, <1>7 DEF HInv, RecordInv, RestoreInv, RolledBack
<1>9. ASSUME command \in H!Probes PROVE pc # 9 /\ pc # 10 /\ pc <= 10
  <2>1. /\ Len(H!Script(command)) = 10
        /\ H!Script(command)[9].do = "clear" /\ H!Script(command)[10].do = "measure"
    BY <1>9, ProbeEnds
  <2>2. does # "clear" /\ does # "measure"
    BY DEF Writes
  <2> QED
    BY <1>3, <2>1, <2>2
<1>10. ProbeInv'
  BY <1>2, <1>3, <1>9 DEF HInv, ProbeInv
<1> QED
  BY <1>3, <1>5, <1>6, <1>8, <1>10 DEF HInv

LEMMA MeasureNext == HInv /\ H!Measure => HInv'
<1> SUFFICES ASSUME HInv, H!Measure PROVE HInv'
  OBVIOUS
<1>1. H!At("measure") /\ H!Advance /\ H!Live = H!Goal /\ proved' = proved \cup {H!Live}
  BY DEF H!Measure
<1>2. UNCHANGED <<trait, found, mode, value, original, restore, file, warned, abandoned>>
  BY DEF H!Measure, H!dev
<1>3. /\ pc' \in Nat \ {0} /\ pc' = pc + 1 /\ pc \in 1..Len(H!Script(command))
      /\ Kept(command, pc) /\ H!Script(command)[pc].do = "measure"
      /\ RecordStep(command) \in {2, 3}
      /\ at = "run" /\ at' = "run" /\ command' = command
      /\ command' \in H!Commands /\ RecordStep(command)' = RecordStep(command)
      /\ ProvenInv'
  BY <1>1, <1>2, CounterNext
<1>4. Shape' /\ ModesInv'
  BY <1>2, <1>3 DEF HInv, Shape, ModesInv
<1>5. MeasuredInv'
  BY <1>1, <1>3, MeasuredBefore DEF HInv
<1>6. pc # RecordStep(command) /\ (command = "polling_promotion" => pc # 17)
  BY <1>3 DEF Kept
<1>7. RecordInv' /\ RestoreInv'
  BY <1>2, <1>3, <1>6 DEF HInv, RecordInv, RestoreInv, RolledBack, H!Restored, H!Live
<1>8. command \in H!Probes => pc # 9 /\ (pc = 10 => H!Live = Base)
  BY <1>1, <1>3, ProbeEnds DEF H!Goal
<1>9. ProbeInv'
  BY <1>2, <1>3, <1>8 DEF HInv, ProbeInv, H!Live
<1> QED
  BY <1>3, <1>4, <1>5, <1>7, <1>9 DEF HInv

LEMMA RollbackNext == HInv /\ H!Rollback => HInv'
<1> SUFFICES ASSUME HInv, H!Rollback PROVE HInv'
  OBVIOUS
<1>1. H!At("rollback") /\ H!Advance /\ H!PutBack /\ restore' = FALSE
  BY DEF H!Rollback
<1>2. UNCHANGED <<trait, found, original, proved, file, warned, abandoned>>
  BY DEF H!Rollback
<1>3. /\ pc' \in Nat \ {0} /\ pc' = pc + 1 /\ pc \in 1..Len(H!Script(command))
      /\ Kept(command, pc) /\ H!Script(command)[pc].do = "rollback"
      /\ RecordStep(command) \in {2, 3}
      /\ at = "run" /\ at' = "run" /\ command' = command
      /\ command' \in H!Commands /\ RecordStep(command)' = RecordStep(command)
      /\ ProvenInv'
  BY <1>1, <1>2, CounterNext
<1>4. command = "polling_promotion" /\ pc = 17
  BY <1>3 DEF Kept
<1>5. original = found /\ command \notin H!Probes
  BY <1>3, <1>4 DEF HInv, RecordInv, H!Probes
<1>6. Written /\ H!Restored'
  BY <1>1, <1>2, <1>3, <1>5, PutBackRestores DEF HInv
<1>7. Shape' /\ ModesInv'
  BY <1>1, <1>2, <1>3, <1>6, WrittenKeeps DEF HInv, Shape
<1>8. MeasuredInv'
  BY <1>1, <1>2, <1>3, MeasuredBefore DEF HInv
<1>9. RecordInv' /\ RestoreInv' /\ ProbeInv'
  BY <1>1, <1>2, <1>3, <1>4, <1>5, <1>6 DEF RecordInv, RestoreInv, RolledBack, ProbeInv
<1> QED
  BY <1>3, <1>7, <1>8, <1>9 DEF HInv

\* A promotion saves as its last step, after the rollback.
LEMMA SaveNext == HInv /\ (H!Promote \/ H!SaveCorpus \/ H!Demonstrate) => HInv'
<1> SUFFICES ASSUME HInv, H!Promote \/ H!SaveCorpus \/ H!Demonstrate PROVE HInv'
  OBVIOUS
<1>1. PICK does \in {"promote", "corpus", "demonstrate"} :
        H!At(does) /\ H!Advance /\ (file' = "proven" => does = "promote")
  BY DEF H!Promote, H!SaveCorpus, H!Demonstrate, H!Save
<1>2. UNCHANGED <<trait, found, mode, value, original, restore, proved, warned, abandoned>>
  BY DEF H!Promote, H!SaveCorpus, H!Demonstrate, H!Save, H!dev
<1>3. /\ pc \in 1..Len(H!Script(command)) /\ Kept(command, pc)
      /\ H!Script(command)[pc].do = does /\ RecordStep(command) \in {2, 3} /\ at = "run"
  BY <1>1, AtKept DEF HInv
<1>4. /\ pc' \in Nat \ {0} /\ pc' = pc + 1 /\ at' = "run" /\ command' = command
      /\ RecordStep(command)' = RecordStep(command)
  BY <1>1, <1>3 DEF H!Advance, HInv, Shape, RecordStep
<1>5. Shape' /\ ModesInv'
  BY <1>2, <1>4 DEF HInv, Shape, ModesInv
<1>6. MeasuredInv'
  BY <1>1, <1>2, <1>4, MeasuredBefore DEF HInv
<1>7. pc # RecordStep(command) /\ (command = "polling_promotion" => pc # 17)
  BY <1>1, <1>3 DEF Kept
<1>8. RecordInv' /\ RestoreInv'
  BY <1>2, <1>3, <1>4, <1>7 DEF HInv, RecordInv, RestoreInv, RolledBack, H!Restored, H!Live
<1>9. command \in H!Probes => pc # 9 /\ pc # 10
  BY <1>1, <1>3, ProbeEnds
<1>10. ProbeInv'
  BY <1>2, <1>3, <1>4, <1>9 DEF HInv, ProbeInv, H!Live
<1>11. ProvenInv'
  BY <1>1, <1>3, <1>4 DEF Kept, ProvenInv
<1> QED
  BY <1>5, <1>6, <1>8, <1>10, <1>11 DEF HInv

\* A step that fails leaves what it had written, and the cleanup begins.
LEMMA FailNext == HInv /\ H!StepFails => HInv'
<1> SUFFICES ASSUME HInv, H!StepFails PROVE HInv'
  OBVIOUS
<1>1. /\ H!Running /\ at' = "closing"
      /\ UNCHANGED <<command, pc, trait, found, original, restore, proved, file, warned,
                     abandoned>>
  BY DEF H!StepFails, H!book
<1>2. command \in H!Commands /\ pc \in Nat \ {0}
  BY DEF HInv, Shape
<1>3. pc \in 1..Len(H!Script(command)) /\ Kept(command, pc) /\ RecordStep(command) \in {2, 3}
  <2>1. PICK length \in Nat : KeepsTo(command, length)
    BY <1>2, ScriptsKept
  <2> QED
    BY <1>1, <1>2, <2>1 DEF H!Running, KeepsTo, RecordStep
<1>4. MeasuredInv' /\ ProvenInv'
  BY <1>1 DEF HInv, MeasuredInv, ProvenInv
<1>5. CASE UNCHANGED <<mode, value>>
  BY <1>1, <1>4, <1>5 DEF HInv, Shape, ModesInv, RecordInv, RestoreInv, RolledBack, ProbeInv,
                          RecordStep, H!Restored, H!Live
<1>6. CASE ~UNCHANGED <<mode, value>>
  <2>1. PICK does \in Writes \cup {"rollback"} : H!At(does)
    BY <1>6 DEF H!StepFails, Writes
  <2>2. pc > RecordStep(command) /\ (command = "polling_promotion" => pc <= 17)
    BY <1>3, <2>1 DEF H!At, Kept
  <2>3. original = found
    BY <2>2 DEF HInv, RecordInv
  <2>4. Written
    <3>1. H!WriteMode \in H!Modes /\ "onboard" \in H!Modes /\ mode \in H!Modes
      BY DEF HInv, Shape, H!WriteMode, H!Modes
    <3>2. H!At("teach") \/ H!At("replay") => H!Goal \in Targets
      BY <1>3 DEF H!At, H!Goal, Kept
    <3>3. CASE (H!At("teach") \/ H!At("replay")) /\ H!PartialWrite
      BY <3>1, <3>2, <3>3 DEF H!PartialWrite, Written
    <3>4. CASE H!PartialOnboard
      BY <3>1, <3>4 DEF H!PartialOnboard, Written
    <3>5. CASE H!PutBack
      BY <1>1, <2>3, <3>5, PutBackRestores DEF HInv
    <3> QED
      BY <1>6, <3>3, <3>4, <3>5 DEF H!StepFails
  <2>5. Shape' /\ ModesInv'
    BY <1>1, <2>4, WrittenKeeps DEF HInv, Shape
  <2>6. RecordInv' /\ RestoreInv'
    BY <1>1, <1>3, <2>2 DEF HInv, RecordInv, RestoreInv, RolledBack, RecordStep
  <2>7. ASSUME command \in H!Probes PROVE pc <= 10
    <3>1. Len(H!Script(command)) = 10
      BY <2>7, ProbeEnds
    <3> QED
      BY <1>3, <3>1
  <2>8. ProbeInv'
    BY <1>1, <1>2, <2>7 DEF HInv, ProbeInv
  <2> QED
    BY <1>4, <2>5, <2>6, <2>8 DEF HInv
<1> QED
  BY <1>5, <1>6

\* The cleanup restores, or warns, or is cut short.
LEMMA CleanupNext ==
  HInv /\ (H!Completes \/ H!CloseAdapter \/ H!RestoreSucceeds \/ H!RestoreFails
             \/ H!CleanupInterrupted \/ H!NothingToRestore) => HInv'
<1> SUFFICES ASSUME HInv, H!Completes \/ H!CloseAdapter \/ H!RestoreSucceeds \/ H!RestoreFails
                            \/ H!CleanupInterrupted \/ H!NothingToRestore
             PROVE  HInv'
  OBVIOUS
<1>1. UNCHANGED <<command, pc, trait, found, original, restore, proved, file>>
  BY DEF H!Completes, H!CloseAdapter, H!RestoreSucceeds, H!RestoreFails, H!CleanupInterrupted,
         H!NothingToRestore, H!dev, H!book
<1>2. command \in H!Commands /\ pc \in Nat \ {0} /\ RecordStep(command) \in {2, 3}
  BY DEF HInv, Shape, RecordStep
<1>3. MeasuredInv' /\ ProvenInv'
  BY <1>1 DEF HInv, MeasuredInv, ProvenInv
<1>4. CASE UNCHANGED <<mode, value>> /\ at' # "ended"
  <2>1. at' \in {"closing", "restoring"} /\ UNCHANGED <<warned, abandoned>>
    BY <1>4 DEF H!Completes, H!CloseAdapter, H!RestoreSucceeds, H!RestoreFails,
                H!CleanupInterrupted, H!NothingToRestore, H!book
  <2> QED
    BY <1>1, <1>3, <1>4, <2>1
       DEF HInv, Shape, ModesInv, RecordInv, RestoreInv, RolledBack, ProbeInv, RecordStep,
           H!Restored, H!Live
<1>5. CASE H!NothingToRestore \/ H!CleanupInterrupted
  <2>1. /\ UNCHANGED <<mode, value, warned>> /\ at' = "ended"
        /\ \/ ~restore /\ abandoned' = abandoned
           \/ abandoned' = TRUE
    BY <1>5 DEF H!NothingToRestore, H!CleanupInterrupted, H!dev, H!book
  <2>2. ~restore /\ command \notin Special => H!Restored
    BY <1>2 DEF HInv, RecordInv, RestoreInv
  <2>3. RestoreInv'
    BY <1>1, <2>1, <2>2 DEF HInv, RestoreInv, RolledBack, RecordStep, H!Restored, H!Live
  <2>4. RecordInv' /\ ProbeInv' /\ ModesInv'
    BY <1>1, <2>1 DEF HInv, RecordInv, ProbeInv, ModesInv, RecordStep, H!Restored, H!Live
  <2>5. Shape'
    BY <1>1, <2>1 DEF HInv, Shape
  <2> QED
    BY <1>3, <2>3, <2>4, <2>5 DEF HInv
<1>6. CASE H!RestoreSucceeds \/ H!RestoreFails
  <2>1. /\ restore /\ at' = "ended" /\ abandoned' = abandoned
        /\ \/ H!PutBack /\ warned' = warned
           \/ warned' = TRUE
    BY <1>6 DEF H!RestoreSucceeds, H!RestoreFails, H!book
  <2>2. pc > RecordStep(command) /\ original = found
    BY <1>2, <2>1 DEF HInv, RecordInv
  <2>3. ~H!PutBack => Written
    <3>1. H!WriteMode \in H!Modes /\ mode \in H!Modes /\ original.value \in Targets
      BY <2>2 DEF HInv, Shape, H!WriteMode, H!Modes
    <3> QED
      BY <1>6, <3>1 DEF H!RestoreSucceeds, H!RestoreFails, Written
  <2>4. H!PutBack => Written /\ (command \notin H!Probes => H!Restored')
    BY <1>1, <2>2, PutBackRestores DEF HInv
  <2>5. Shape' /\ ModesInv'
    BY <1>1, <2>1, <2>3, <2>4, WrittenKeeps DEF HInv, Shape
  <2>6. ~RolledBack \/ command \in Special
    BY <2>1 DEF HInv, RestoreInv
  <2>7. RestoreInv'
    BY <1>1, <2>1, <2>4, <2>6 DEF RestoreInv, RolledBack, Special
  <2>8. RecordInv'
    BY <1>1, <1>2, <2>2 DEF RecordInv, RecordStep
  <2>9. command \in H!Probes => pc <= 9
    BY <1>2, <2>1 DEF HInv, ProbeInv
  <2>10. ProbeInv'
    BY <1>1, <1>2, <2>9 DEF HInv, ProbeInv
  <2> QED
    BY <1>3, <2>5, <2>7, <2>8, <2>10 DEF HInv
<1> QED
  BY <1>4, <1>5, <1>6 DEF H!Completes, H!CloseAdapter, H!dev

LEMMA InitHInv == H!Init => HInv
<1> SUFFICES ASSUME H!Init PROVE HInv
  OBVIOUS
<1>1. Shape
  <2>1. mode \in H!Modes /\ value \in [H!Modes -> {First, Base}]
    BY DEF H!Init
  <2>2. value \in [H!Modes -> Targets] /\ H!Live \in Targets
    BY <2>1 DEF Targets, H!Live
  <2>3. found = [mode |-> mode, value |-> H!Live]
    BY DEF H!Init
  <2>4. found \in [mode : H!Modes, value : Targets]
    BY <2>1, <2>2, <2>3
  <2>5. /\ command \in H!Commands /\ pc = 1 /\ at = "run"
        /\ trait \in [own : BOOLEAN, takes : BOOLEAN, accepts : SUBSET Targets]
        /\ restore = FALSE /\ warned = FALSE /\ abandoned = FALSE
    BY DEF H!Init, H!Accepted, Targets
  <2>6. pc \in Nat \ {0} /\ at \in {"run", "closing", "restoring", "ended"}
    BY <2>5
  <2>7. restore \in BOOLEAN /\ warned \in BOOLEAN /\ abandoned \in BOOLEAN
    BY <2>5
  <2> QED
    BY <2>1, <2>2, <2>4, <2>5, <2>6, <2>7, Zenon DEF Shape
<1>2. RecordStep(command) \in {2, 3} /\ command \in H!Commands
  BY DEF H!Init, RecordStep
<1>3. ModesInv
  BY DEF H!Init, H!Accepted, ModesInv, H!Live, Targets
<1>4. H!Restored /\ ~restore /\ pc = 1 /\ at = "run"
  BY DEF H!Init, H!Restored, H!Live
<1>5. RecordInv /\ RestoreInv
  BY <1>2, <1>4 DEF RecordInv, RestoreInv, RolledBack
<1>6. ProbeInv
  BY <1>4 DEF H!Init, ProbeInv, H!Live
<1>7. MeasuredInv /\ ProvenInv
  BY <1>4 DEF H!Init, MeasuredInv, ProvenInv
<1> QED
  BY <1>1, <1>3, <1>5, <1>6, <1>7 DEF HInv

LEMMA NextHInv == HInv /\ [H!Next]_(H!vars) => HInv'
<1> SUFFICES ASSUME HInv, [H!Next]_(H!vars) PROVE HInv'
  OBVIOUS
<1>1. CASE H!Next
  BY <1>1, QuietNext, ArmNext, WriteNext, MeasureNext, RollbackNext, SaveNext, FailNext,
     CleanupNext DEF H!Next, Unobtrusive
<1>2. CASE UNCHANGED H!vars
  BY <1>2 DEF H!vars, HInv, Shape, ModesInv, RecordInv, RestoreInv, RolledBack, ProbeInv,
              MeasuredInv, ProvenInv, RecordStep, H!Restored, H!Live
<1> QED
  BY <1>1, <1>2

LEMMA CommandsInvariant == H!Spec => []HInv
  BY InitHInv, NextHInv, PTL DEF H!Spec

\* However a laboratory command ends, also one whose writes, restoration or cleanup failed
\* half-way, the mouse has the mode and value it was found with, or the user was told, or cut
\* the cleanup short: eight commands always, write_promotion once it has armed its
\* restoration; and a probe that went through left the value that it found, although the
\* operation under test may have been learned wrongly. For any values, and whether or not the
\* mouse keeps a rate per mode or lets itself be taken (polling_promotion_cli.py,
\* write_promotion_cli.py, research_probe.py).
THEOREM CommandsEndRestoredOrWarned == H!Spec => []EndsRestoredOrWarned
<1>1. HInv => EndsRestoredOrWarned
  <2> SUFFICES ASSUME HInv PROVE EndsRestoredOrWarned
    OBVIOUS
  <2>1. at = "ended" /\ command \notin H!Probes /\ (command = "write_promotion" => restore)
          => H!Restored \/ warned \/ abandoned
    BY DEF HInv, RestoreInv, Special
  <2>2. ASSUME command \in H!Probes, pc > Len(H!Script(command))
        PROVE  H!Live = found.value
    <3>1. Len(H!Script(command)) = 10
      BY <2>2, ProbeEnds
    <3> QED
      BY <2>2, <3>1 DEF HInv, ProbeInv
  <2> QED
    BY <2>1, <2>2 DEF EndsRestoredOrWarned, H!EndsRestoredOrWarned
<1> QED
  BY <1>1, CommandsInvariant, PTL

\* What is PROVEN was measured, at any time.
ProvenIsMeasured == file = "proven" => H!Required(command) \subseteq proved

LEMMA ProvenWasMeasured == HInv => ProvenIsMeasured
<1> SUFFICES ASSUME HInv, file = "proven" PROVE H!Required(command) \subseteq proved
  BY DEF ProvenIsMeasured
<1>1. CASE command = "write_promotion"
  <2>1. pc > 11 /\ pc \in Nat
    BY <1>1 DEF HInv, ProvenInv, Shape
  <2>2. /\ Len(H!Script(command)) = 11
        /\ H!Script(command)[6] = H!Aim("measure", Base)
        /\ H!Script(command)[10] = H!Aim("measure", First)
    BY <1>1, WritePromotionKept DEF KeepsTo
  <2>3. Base \in proved /\ First \in proved
    BY <2>1, <2>2 DEF HInv, MeasuredInv, H!Aim
  <2> QED
    BY <1>1, <2>3 DEF H!Required
<1>2. CASE command = "polling_promotion"
  <2>1. pc > 18 /\ pc \in Nat
    BY <1>2 DEF HInv, ProvenInv, Shape
  <2>2. /\ Len(H!Script(command)) = 18
        /\ H!Script(command)[10] = H!Aim("measure", First)
        /\ H!Script(command)[12] = H!Aim("measure", Second)
        /\ H!Script(command)[14] = H!Aim("measure", Base)
    BY <1>2, PollingPromotionKept DEF KeepsTo
  <2>3. First \in proved /\ Second \in proved /\ Base \in proved
    BY <2>1, <2>2 DEF HInv, MeasuredInv, H!Aim
  <2> QED
    BY <1>2, <2>3 DEF HInv, ModesInv, H!Required, Targets
<1> QED
  BY <1>1, <1>2 DEF HInv, ProvenInv

LEMMA PromotesWhatIsProven ==
  ASSUME HInv, ProvenIsMeasured', H!Next, file' = "proven", file' # file
  PROVE  /\ H!Required(command) \subseteq proved
         /\ command = "polling_promotion" => H!Restored
<1>1. H!Promote
  BY DEF H!Next, H!Prepare, H!Bind, H!Record, H!Need, H!Clear, H!Teach, H!SetOnboard,
         H!Check, H!Release, H!OpenAdapter, H!Replay, H!Measure, H!Observe, H!ShutAdapter,
         H!Rollback, H!SaveCorpus, H!Demonstrate, H!Save, H!StepFails, H!Completes,
         H!CloseAdapter, H!RestoreSucceeds, H!RestoreFails, H!CleanupInterrupted,
         H!NothingToRestore, H!book
<1>2. H!At("promote")
  BY <1>1 DEF H!Promote, H!Save
<1>3. ASSUME command = "polling_promotion" PROVE H!Restored
  <2>1. Kept(command, pc) /\ H!Script(command)[pc].do = "promote"
    BY <1>2, AtKept DEF HInv
  <2>2. RolledBack /\ command \notin Special
    BY <1>3, <2>1 DEF Kept, RolledBack, Special, H!Probes
  <2> QED
    BY <2>2 DEF HInv, RestoreInv
<1>4. proved' = proved /\ command' = command /\ trait' = trait
  BY <1>1 DEF H!Promote, H!Save, H!Advance, H!dev
<1> QED
  BY <1>3, <1>4 DEF ProvenIsMeasured, H!Required

\* A DPI operation is saved as PROVEN only after the start and the target were found in force
\* by measurement, a polling operation only after every rate that it accepts was, whatever a
\* wrongly learned operation read back, and only when the mouse is back as it was found
\* (polling_promotion_cli.py, _restore_original and the save after it; write_promotion_cli.py).
THEOREM CommandsPromotionIsEarned == H!Spec => PromotionIsEarned
<1>1. HInv /\ ProvenIsMeasured' /\ [H!Next]_(H!vars)
        => [file' = "proven" =>
              /\ H!Required(command) \subseteq proved
              /\ command = "polling_promotion" => H!Restored]_file
  BY PromotesWhatIsProven DEF H!vars
<1> QED
  BY <1>1, CommandsInvariant, ProvenWasMeasured, PTL
     DEF H!Spec, PromotionIsEarned, H!PromotionIsEarned

-----------------------------------------------------------------------------------
(* What a lookup may hand out.                                                     *)

\* The control state of a measurement does not matter to its result.
Entries == [rate : Rates, branch : L!Branches \cup {Absent}, agrees : BOOLEAN]

Documents ==
  [model : Models, unit : {Unit[m] : m \in Mice}, state : {"demonstrated", "proven"},
   rates : SUBSET Rates, evidence : Seq(Entries), shape : L!Shapes]

\* Whatever the user writes into a document, the agreement in its evidence was measured.
Honest(doc, seen) ==
  /\ doc \in Documents
  /\ \A i \in DOMAIN doc.evidence :
       doc.evidence[i].agrees => doc.evidence[i].rate \in seen[doc.model]

\* A document is honest in a file, in the hands of a command and half-written.
StoreInv ==
  /\ model \in [Mice -> Models] /\ measured \in [Models -> SUBSET Rates]
  /\ branch \in L!Branches \cup {Absent}
  /\ DOMAIN files = Models
  /\ \A n \in Models : files[n] # Absent => Honest(files[n], measured)
  /\ held # Absent => Honest(held, measured)
  /\ temp # Absent => Honest(temp, measured)

\* The steps that add no evidence change nothing that makes a document honest.
LEMMA EditsAreHonest ==
  ASSUME NEW doc, NEW seen, Honest(doc, seen)
  PROVE  /\ Honest([doc EXCEPT !.state = "proven"], seen)
         /\ \A shape \in L!Shapes : Honest([doc EXCEPT !.shape = shape], seen)
         /\ \A r \in Rates : Honest([doc EXCEPT !.rates = @ \cup {r}], seen)
  BY DEF Honest, Documents

\* More measurements take nothing from a document that was honest.
LEMMA MoreIsMeasured ==
  ASSUME NEW doc, Honest(doc, measured), measured \in [Models -> SUBSET Rates],
         NEW n \in Models, NEW r \in Rates
  PROVE  Honest(doc, [measured EXCEPT ![n] = @ \cup {r}])
  BY DEF Honest, Documents

LEMMA LearnKeepsStores ==
  ASSUME StoreInv, NEW m \in Mice, NEW rates \in SUBSET Rates, L!Learn(m, rates)
  PROVE  StoreInv'
<1>1. L!Document(m, rates) \in Documents /\ L!Document(m, rates).evidence = <<>>
  BY DEF StoreInv, L!Document, Documents, L!Shapes
<1>2. Honest(L!Document(m, rates), measured)
  BY <1>1 DEF Honest
<1> QED
  BY <1>2 DEF StoreInv, L!Learn, L!outside

LEMMA MeasureKeepsStores ==
  ASSUME StoreInv, NEW r \in Rates, NEW agrees \in BOOLEAN, L!Measure(r, agrees)
  PROVE  StoreInv'
<1> DEFINE entry == [rate |-> r, branch |-> branch, agrees |-> agrees]
           longer == Append(held.evidence, entry)
<1>1. Honest(held, measured) /\ held \in Documents /\ held.model \in Models
  BY DEF StoreInv, L!Measure, Honest, Documents
<1>2. entry \in Entries
  BY DEF StoreInv, Entries
<1>3. held.evidence \in Seq(Entries)
  BY <1>1 DEF Documents
<1>4. /\ longer \in Seq(Entries)
      /\ \A i \in DOMAIN longer :
           \/ longer[i] = entry
           \/ i \in DOMAIN held.evidence /\ longer[i] = held.evidence[i]
  BY <1>2, <1>3
<1>5. \/ measured' = measured /\ ~agrees
      \/ measured' = [measured EXCEPT ![held.model] = @ \cup {r}]
  BY DEF L!Measure
<1>6. /\ measured' \in [Models -> SUBSET Rates]
      /\ \A doc : Honest(doc, measured) => Honest(doc, measured')
      /\ agrees => r \in measured'[held.model]
  BY <1>1, <1>5, MoreIsMeasured DEF StoreInv
<1>7. Honest(held', measured')
  <2>1. held' = [held EXCEPT !.evidence = longer]
    BY DEF L!Measure
  <2>2. held' \in Documents /\ held'.evidence = longer /\ held'.model = held.model
    BY <1>1, <1>4, <2>1 DEF Documents
  <2>3. ASSUME NEW i \in DOMAIN longer, longer[i].agrees
        PROVE  longer[i].rate \in measured'[held.model]
    <3>1. CASE longer[i] = entry
      BY <1>6, <2>3, <3>1
    <3>2. CASE i \in DOMAIN held.evidence /\ longer[i] = held.evidence[i]
      BY <1>1, <1>6, <2>3, <3>2 DEF Honest
    <3> QED
      BY <1>4, <3>1, <3>2
  <2> QED
    BY <2>2, <2>3 DEF Honest
<1>8. branch' \in L!Branches \cup {Absent}
  BY DEF L!Measure, L!Branches
<1> QED
  BY <1>6, <1>7, <1>8 DEF StoreInv, L!Measure

LEMMA PromoteKeepsStores == ASSUME StoreInv, L!Promote PROVE StoreInv'
  BY EditsAreHonest DEF StoreInv, L!Promote, L!outside

LEMMA SavingKeepsStores ==
  ASSUME StoreInv, L!StartSave \/ L!Sync \/ L!Replace \/ L!Dies
  PROVE  StoreInv'
<1>1. CASE L!StartSave
  BY <1>1, EditsAreHonest DEF StoreInv, L!StartSave, L!outside, L!Shapes
<1>2. CASE L!Sync
  BY <1>2, EditsAreHonest DEF StoreInv, L!Sync, L!outside, L!Shapes
<1>3. CASE L!Replace
  <2>1. temp.model \in Models /\ Honest(temp, measured)
    BY <1>3 DEF L!Replace, StoreInv, Honest, Documents
  <2> QED
    BY <1>3, <2>1 DEF StoreInv, L!Replace, L!outside
<1>4. CASE L!Dies
  BY <1>4 DEF StoreInv, L!Dies, L!outside
<1> QED
  BY <1>1, <1>2, <1>3, <1>4

LEMMA LoadKeepsStores == ASSUME StoreInv, NEW m \in Mice, L!Load(m) PROVE StoreInv'
<1>1. \E n \in Models : files[n] # Absent /\ held' = files[n]
  BY DEF L!Load, L!Result, L!Preferred, L!Matching
<1> QED
  BY <1>1 DEF StoreInv, L!Load, L!outside

LEMMA OutsideKeepsStores ==
  ASSUME StoreInv,
         \/ \E m \in Mice : L!FirmwareUpdate(m)
         \/ \E n \in Models : L!HandEdit(n) \/ L!Delete(n)
         \/ \E n \in Models, shape \in {"invalid", "undecodable"} : L!Damage(n, shape)
         \/ L!Replug
  PROVE  StoreInv'
<1>1. ASSUME NEW m \in Mice, L!FirmwareUpdate(m) PROVE StoreInv'
  BY <1>1 DEF StoreInv, L!FirmwareUpdate, L!command
<1>2. ASSUME NEW n \in Models, L!HandEdit(n) PROVE StoreInv'
  <2>1. CASE files' = [files EXCEPT ![n].state = "proven"]
    BY <1>2, <2>1, EditsAreHonest DEF StoreInv, L!HandEdit, L!outside, L!command
  <2>2. ASSUME NEW r \in Rates, files' = [files EXCEPT ![n].rates = @ \cup {r}]
        PROVE  StoreInv'
    BY <1>2, <2>2, EditsAreHonest DEF StoreInv, L!HandEdit, L!outside, L!command
  <2> QED
    BY <1>2, <2>1, <2>2 DEF L!HandEdit
<1>3. ASSUME NEW n \in Models, L!Delete(n) PROVE StoreInv'
  BY <1>3 DEF StoreInv, L!Delete, L!outside, L!command
<1>4. ASSUME NEW n \in Models, NEW shape \in {"invalid", "undecodable"}, L!Damage(n, shape)
      PROVE  StoreInv'
  <2>1. shape \in L!Shapes
    BY DEF L!Shapes
  <2> QED
    BY <1>4, <2>1, EditsAreHonest DEF StoreInv, L!Damage, L!outside, L!command
<1>5. CASE L!Replug
  BY <1>5 DEF StoreInv, L!Replug, L!outside, L!Branches
<1> QED
  BY <1>1, <1>2, <1>3, <1>4, <1>5

\* What a lookup hands out is a stored document that is valid and fits the mouse.
LEMMA LookupsFit ==
  ASSUME NEW m \in Mice, NEW doc \in L!Result(m)
  PROVE  \E n \in Models : doc = files[n] /\ doc # Absent /\ L!Valid(doc) /\ L!Fits(doc, m)
  BY DEF L!Result, L!Preferred, L!Matching

\* An operation whose evidence confirms its rates has nothing that was not measured.
LEMMA ConfirmedWasMeasured ==
  ASSUME NEW doc, Honest(doc, measured), L!Confirms(doc.evidence, doc.rates)
  PROVE  doc.rates \subseteq measured[doc.model]
<1>1. \A r \in doc.rates : \E i \in DOMAIN doc.evidence :
        doc.evidence[i].agrees /\ r = doc.evidence[i].rate
  BY DEF L!Confirms
<1> QED
  BY <1>1 DEF Honest

LEMMA HonestLookups == ASSUME StoreInv PROVE LookupIsSound
<1> SUFFICES ASSUME NEW m \in Mice, NEW doc \in L!Result(m)
             PROVE  /\ doc.shape # "half"
                    /\ /\ doc.unit # Absent
                       /\ Unit[m] # Absent \/ kind \in {"dpi", "rate", "action"}
                       => doc.unit = Unit[m]
                    /\ kind = "rate" /\ doc.state = "proven"
                         => doc.rates \subseteq measured[doc.model]
  BY DEF LookupIsSound, L!LookupIsSound
<1>1. PICK n \in Models : doc = files[n] /\ doc # Absent /\ L!Valid(doc) /\ L!Fits(doc, m)
  BY LookupsFit
<1>2. doc.shape # "half"
  BY <1>1 DEF L!Valid, L!WellFormed
<1>3. /\ doc.unit # Absent
      /\ Unit[m] # Absent \/ kind \in {"dpi", "rate", "action"}
      => doc.unit = Unit[m]
  BY <1>1 DEF L!Fits, L!MatchesPhysical, L!MatchesDevice, L!MatchesFingerprint
<1>4. Honest(doc, measured)
  BY <1>1 DEF StoreInv
<1>5. kind = "rate" /\ doc.state = "proven" => doc.rates \subseteq measured[doc.model]
  BY <1>1, <1>4, ConfirmedWasMeasured DEF L!Valid
<1> QED
  BY <1>2, <1>3, <1>5

\* What a lookup hands out is whole, belongs to a mouse that may have it, and claims no
\* rate that was not measured (learned_polling.py:651), whatever the user wrote into the
\* file or the crash left of it.
THEOREM StoresLookupIsSound == L!Spec => []LookupIsSound
<1>1. L!Init => StoreInv
  <2> SUFFICES ASSUME L!Init PROVE StoreInv
    OBVIOUS
  <2> QED
    BY DEF L!Init, StoreInv
<1>2. StoreInv /\ [L!Next]_(L!vars) => StoreInv'
  <2> SUFFICES ASSUME StoreInv, [L!Next]_(L!vars) PROVE StoreInv'
    OBVIOUS
  <2>1. CASE UNCHANGED L!vars
    BY <2>1 DEF L!vars, StoreInv
  <2>2. CASE L!Next
    BY <2>2, LearnKeepsStores, MeasureKeepsStores, PromoteKeepsStores, SavingKeepsStores,
       LoadKeepsStores, OutsideKeepsStores DEF L!Next
  <2> QED
    BY <2>1, <2>2
<1> QED
  BY <1>1, <1>2, HonestLookups, PTL DEF L!Spec


-----------------------------------------------------------------------------------
(* The register of a Razer mouse                                                   *)

Procs == DOMAIN Operations
Last(p) == Len(Razer!Requests(doing[p].op, doing[p].value))

\* Every process has a call, and a call has its fields; a rate has two parts.
RazerShape ==
  /\ doing = [p \in Procs |-> doing[p]] /\ owned = [p \in Procs |-> owned[p]]
  /\ bound = [p \in Procs |-> bound[p]] /\ concluded = [p \in Procs |-> concluded[p]]
  /\ since = [p \in Procs |-> since[p]] /\ interval = [part \in 0..1 |-> interval[part]]
  /\ \A p \in Procs :
       doing[p] = [op |-> doing[p].op, at |-> doing[p].at, step |-> doing[p].step,
                   left |-> doing[p].left, value |-> doing[p].value, found |-> doing[p].found]

\* A process is between two calls, or at one of the queries of a call of its own, which has
\* no outcome yet.
CallInv ==
  \A p \in Procs :
    \/ doing[p].at = "idle" /\ doing[p].op = "none"
    \/ /\ doing[p].at \in {"send", "poll"} /\ doing[p].step \in 1..Last(p)
       /\ doing[p].op \in Operations[p] \cup {"bind"}
       /\ concluded[p] = Absent

\* Of the last query of a call, once its request is in a register that shows it, or once the
\* register held the answer of the query before: an answer is from the time of the call.
Reading(p, name) ==
  \/ /\ doing[p].op = "set_dpi" /\ name = "get_dpi"
     /\ doing[p].step = 2
  \/ /\ doing[p].op = "set_rate" /\ name = "get_rate"
     /\ doing[p].step = Last(p)
  \/ /\ doing[p].op \in {"get_dpi", "get_rate"} /\ name = doing[p].op
     /\ marks /\ doing[p].at = "poll"

AnswerOf(p) ==
  /\ doing[p].op \in Razer!OfDpi => resolution \in since[p]
  /\ doing[p].op \in Razer!OfRate => interval[1] \in since[p]
  /\ \A name \in {"get_dpi", "get_rate"} :
       Reading(p, name) /\ register.name = name => register.value \in since[p]
  /\ Razer!Ended(p, "set_dpi", "confirmed") => concluded[p].value \in since[p]
  /\ Razer!Ended(p, "set_rate", "confirmed") => concluded[p].value \in since[p]
  /\ marks /\ Razer!Ended(p, "get_dpi", "read") => concluded[p].value \in since[p]
  /\ marks /\ Razer!Ended(p, "get_rate", "read") => concluded[p].value \in since[p]

AnswerInv == \A p \in Procs : AnswerOf(p)

\* A part of a rate that waits in the register.
RateWaits == asked # Absent /\ asked.name = "set_rate"

\* The part that a query is about waits in the register, or it is written and no other waits.
PartInv(p, n, part) ==
  doing[p].step = n /\ doing[p].at = "poll" =>
    /\ RateWaits => asked.argument = part /\ asked.value = doing[p].value
    /\ register.name = "set_rate" => interval[part] = doing[p].value /\ ~RateWaits

RateOf(p) ==
  /\ doing[p].op = "set_rate" =>
       /\ PartInv(p, 1, 0) /\ PartInv(p, 2, 1)
       /\ doing[p].step # 1 => interval[0] = doing[p].value
       /\ doing[p].step = 2 /\ doing[p].at = "send" => ~RateWaits
       /\ doing[p].step = 3 => interval[1] = doing[p].value /\ ~RateWaits
  /\ Razer!Ended(p, "set_rate", "confirmed") =>
       ~RateWaits /\ interval[0] = concluded[p].value /\ interval[1] = concluded[p].value

RateInv ==
  marks /\ extended => \A p \in Procs : Razer!Alone(p, "set_rate") => RateOf(p)

\* Only what answers is found, and only what was found alone is kept.
OwnerOf(p) ==
  IF doing[p].op = "bind"
  THEN /\ doing[p].found \subseteq responders
       /\ doing[p].at = "poll" => Interfaces[doing[p].step] \in responders
  ELSE /\ owned[p] = IF bound[p] = Absent THEN {} ELSE {bound[p]}
       /\ bound[p] # Absent => bound[p] \in responders

OwnerInv == responders \subseteq Razer!Range(Interfaces) /\ \A p \in Procs : OwnerOf(p)

RazerInv == RazerShape /\ CallInv /\ AnswerInv /\ RateInv /\ OwnerInv

\* What each kind of call asks.
Simple == {"get_dpi", "get_rate", "battery", "teach"}

LEMMA RequestsOf ==
  ASSUME NEW v
  PROVE  /\ Razer!Requests("bind", v) = [i \in DOMAIN Interfaces |-> Razer!Firmware]
         /\ Razer!Requests("get_dpi", v) = <<Razer!GetDpi>>
         /\ Razer!Requests("get_rate", v) = <<Razer!GetRate>>
         /\ Razer!Requests("battery", v) = Razer!Battery
         /\ Razer!Requests("set_dpi", v)
              = <<Razer!Command("set_dpi", Absent, v), Razer!GetDpi>>
         /\ Razer!Requests("set_rate", v) = Razer!SetRate(v) \o <<Razer!GetRate>>
         /\ Razer!Requests("teach", v) = <<Razer!GetDpi, Razer!GetRate>> \o Razer!Battery
BY Zenon DEF Razer!Requests

LEMMA RateRequests ==
  ASSUME NEW v
  PROVE  LET asks == Razer!Requests("set_rate", v)
         IN IF extended
            THEN /\ Len(asks) = 3 /\ asks[1].name = "set_rate" /\ asks[2].name = "set_rate"
                 /\ asks[3].name = "get_rate"
                 /\ asks[1].argument = 0 /\ asks[1].value = v
                 /\ asks[2].argument = 1 /\ asks[2].value = v
            ELSE Len(asks) = 2 /\ asks[1].name = "set_rate" /\ asks[2].name = "get_rate"
<1>1. Razer!Requests("set_rate", v) = Razer!SetRate(v) \o <<Razer!GetRate>>
  BY RequestsOf
<1>2. CASE extended
  <2>1. Razer!Requests("set_rate", v)
          = <<Razer!Command("set_rate", 0, v), Razer!Command("set_rate", 1, v), Razer!GetRate>>
    BY <1>1, <1>2 DEF Razer!SetRate
  <2> QED
    BY <1>2, <2>1 DEF Razer!Command, Razer!GetRate
<1>3. CASE ~extended
  <2>1. Razer!Requests("set_rate", v) = <<Razer!Command("set_rate", 1, v), Razer!GetRate>>
    BY <1>1, <1>3 DEF Razer!SetRate
  <2> QED
    BY <1>3, <2>1 DEF Razer!Command, Razer!GetRate
<1> QED
  BY <1>2, <1>3

\* No call but the writing of a rate asks for it, and each has a first query.
LEMMA OtherRequests ==
  ASSUME NEW v, NEW op \in Simple \cup {"bind", "set_dpi"}
  PROVE  LET asks == Razer!Requests(op, v)
         IN Len(asks) \in Nat \ {0} /\ \A i \in 1..Len(asks) : asks[i].name # "set_rate"
<1> USE RequestsOf DEF Razer!GetDpi, Razer!GetRate, Razer!Battery, Razer!Firmware, Razer!Command
<1>1. CASE op = "bind"
  <2>1. Len(Razer!Requests(op, v)) = Len(Interfaces)
    BY <1>1, InterfacesAreListed
  <2>2. \A i \in 1..Len(Interfaces) : Razer!Requests(op, v)[i] = Razer!Firmware
    BY <1>1, InterfacesAreListed
  <2> QED
    BY <2>1, <2>2, InterfacesAreListed
<1>2. CASE op \in {"get_dpi", "get_rate"}
  BY <1>2
<1>3. CASE op = "battery"
  BY <1>3
<1>4. CASE op = "set_dpi"
  BY <1>4
<1>5. CASE op = "teach"
  <2>1. Razer!Requests(op, v) = <<Razer!GetDpi, Razer!GetRate,
          Razer!Command("battery", Absent, Absent), Razer!Command("charging", Absent, Absent)>>
    BY <1>5
  <2> QED
    BY <2>1
<1> QED
  BY <1>1, <1>2, <1>3, <1>4, <1>5 DEF Simple

\* The queries of a reading, and of a write whose last query reads it back.
LEMMA ReadRequests ==
  ASSUME NEW v
  PROVE  /\ Len(Razer!Requests("get_dpi", v)) = 1
         /\ Razer!Requests("get_dpi", v)[1].name = "get_dpi"
         /\ Len(Razer!Requests("get_rate", v)) = 1
         /\ Razer!Requests("get_rate", v)[1].name = "get_rate"
         /\ Len(Razer!Requests("set_dpi", v)) = 2
         /\ Razer!Requests("set_dpi", v)[1].name = "set_dpi"
         /\ Razer!Requests("set_dpi", v)[2].name = "get_dpi"
BY RequestsOf DEF Razer!GetDpi, Razer!GetRate, Razer!Command

\* The number of queries is a natural number, and which query is the last.
LEMMA LastIsCounted ==
  ASSUME CallInv, NEW p \in Procs, doing[p].at # "idle"
  PROVE  Last(p) \in Nat \ {0} /\ doing[p].step \in 1..Last(p)
<1>1. doing[p].op \in Simple \cup {"bind", "set_dpi", "set_rate"}
  BY OperationsAreKnown DEF CallInv, Procs, Simple
<1>2. doing[p].step \in 1..Last(p)
  BY DEF CallInv
<1>3. CASE doing[p].op = "set_rate"
  BY <1>2, <1>3, RateRequests DEF Last
<1>4. CASE doing[p].op # "set_rate"
  BY <1>1, <1>2, <1>4, OtherRequests DEF Last
<1> QED
  BY <1>3, <1>4

\* Another process is as it was.
Others(p) ==
  \A q \in Procs \ {p} : /\ doing'[q] = doing[q] /\ concluded'[q] = concluded[q]
                         /\ owned'[q] = owned[q] /\ bound'[q] = bound[q]

\* What an answer leads to: the next query, the end of the call, or the end of a search.
MoreOf(p, a) ==
  /\ doing'[p].op = doing[p].op /\ doing'[p].value = doing[p].value
  /\ doing'[p].at = "send" /\ doing'[p].step = doing[p].step + 1 /\ doing[p].step # Last(p)
  /\ \/ doing'[p].found = doing[p].found
     \/ /\ a # Absent /\ doing[p].op = "bind"
        /\ doing'[p].found = doing[p].found \cup {Interfaces[doing[p].step]}
  /\ doing[p].op \in {"set_rate", "set_dpi"} => a # Absent
  /\ UNCHANGED <<owned, bound, concluded>>

EndOf(p, a) ==
  /\ doing'[p].op = "none" /\ doing'[p].at = "idle" /\ doing[p].op # "bind"
  /\ concluded'[p].op = doing[p].op /\ UNCHANGED <<owned, bound>>
  /\ concluded'[p].is = "confirmed" =>
       doing[p].step = Last(p) /\ concluded'[p].value = a /\ a = doing[p].value /\ a # Absent
  /\ concluded'[p].is = "read" =>
       concluded'[p].value = a /\ (doing[p].op # "teach" => a # Absent)

FoundOf(p, a) ==
  /\ doing'[p].op = "none" /\ doing'[p].at = "idle" /\ doing[p].op = "bind"
  /\ concluded'[p].op = "bind"
  /\ \E those \in {doing[p].found} \cup
                   (IF a = Absent THEN {} ELSE {doing[p].found \cup {Interfaces[doing[p].step]}}) :
       /\ bound'[p] = Razer!Owner(those)
       /\ owned'[p] = IF bound'[p] = Absent THEN {} ELSE those

LEMMA ContinueLeads ==
  ASSUME RazerShape, CallInv, NEW p \in Procs, doing[p].at # "idle", NEW a, Razer!Continue(p, a),
         interval' = interval, since' = since
  PROVE  RazerShape' /\ Others(p) /\ (MoreOf(p, a) \/ EndOf(p, a) \/ FoundOf(p, a))
<1> DEFINE c == doing[p]
           last == c.step = Len(Razer!Requests(c.op, c.value))
           fresh == IF a = Absent THEN c.found ELSE c.found \cup {Interfaces[c.step]}
           More(with) ==
             /\ doing' = [doing EXCEPT ![p] =
                            Razer!Doing(c.op, "send", c.step + 1, c.left, c.value, with)]
             /\ UNCHANGED <<owned, bound, concluded>>
           End(is, val) ==
             /\ doing' = [doing EXCEPT ![p] = Razer!Idle]
             /\ concluded' = [concluded EXCEPT ![p] = [op |-> c.op, value |-> val, is |-> is]]
             /\ UNCHANGED <<owned, bound>>
<1>1. /\ c = [op |-> c.op, at |-> c.at, step |-> c.step, left |-> c.left, value |-> c.value,
              found |-> c.found]
      /\ doing = [q \in Procs |-> doing[q]] /\ concluded = [q \in Procs |-> concluded[q]]
      /\ owned = [q \in Procs |-> owned[q]] /\ bound = [q \in Procs |-> bound[q]]
  BY DEF RazerShape
<1>2. \/ c.op = "bind" /\ last /\ Razer!Bind(p, fresh)
           /\ doing' = [doing EXCEPT ![p] = Razer!Idle]
      \/ c.op = "bind" /\ ~last /\ More(fresh)
      \/ c.op \notin {"bind", "teach"} /\ a = Absent /\ End("failed", c.value)
      \/ c.op # "bind" /\ ~last /\ (a # Absent \/ c.op = "teach") /\ More(c.found)
      \/ /\ c.op \in Razer!Writes /\ last /\ a # Absent
         /\ End(IF a = c.value THEN "confirmed" ELSE "differs", c.value)
      \/ /\ c.op \notin Razer!Writes \cup {"bind"} /\ last /\ (a # Absent \/ c.op = "teach")
         /\ End("read", a)
  BY Zenon DEF Razer!Continue
<1>3. CASE c.op = "bind" /\ last /\ Razer!Bind(p, fresh)
             /\ doing' = [doing EXCEPT ![p] = Razer!Idle]
  <2>1. /\ bound' = [bound EXCEPT ![p] = Razer!Owner(fresh)]
        /\ owned' = [owned EXCEPT ![p] = IF Razer!Owner(fresh) = Absent THEN {} ELSE fresh]
        /\ concluded' = [concluded EXCEPT ![p] =
             [op |-> "bind", value |-> Razer!Owner(fresh),
              is |-> IF Razer!Owner(fresh) # Absent THEN "bound"
                     ELSE IF fresh = {} THEN "unavailable" ELSE "ambiguous"]]
    BY <1>3, Zenon DEF Razer!Bind
  <2>2. FoundOf(p, a)
    BY <1>1, <1>3, <2>1 DEF FoundOf, Razer!Idle, Razer!Doing
  <2>3. Others(p)
    BY <1>1, <1>3, <2>1 DEF Others
  <2>4. RazerShape'
    BY <1>1, <1>3, <2>1 DEF RazerShape, Razer!Idle, Razer!Doing
  <2> QED
    BY <2>2, <2>3, <2>4
<1>4. CASE \/ c.op = "bind" /\ ~last /\ More(fresh)
           \/ c.op # "bind" /\ ~last /\ (a # Absent \/ c.op = "teach") /\ More(c.found)
  <2>1. PICK f :
          /\ doing' = [doing EXCEPT ![p] =
                         Razer!Doing(c.op, "send", c.step + 1, c.left, c.value, f)]
          /\ f = c.found \/ (f = fresh /\ c.op = "bind")
          /\ UNCHANGED <<owned, bound, concluded>> /\ ~last
          /\ c.op \in {"set_rate", "set_dpi"} => a # Absent
    <3> HIDE DEF fresh, last, c
    <3> QED
      BY <1>4
  <2>2. MoreOf(p, a)
    BY <1>1, <2>1 DEF MoreOf, Last, Razer!Doing
  <2>3. Others(p)
    BY <1>1, <2>1 DEF Others
  <2>4. RazerShape'
    BY <1>1, <2>1 DEF RazerShape, Razer!Doing
  <2> QED
    BY <2>2, <2>3, <2>4
<1>5. CASE \/ c.op \notin {"bind", "teach"} /\ a = Absent /\ End("failed", c.value)
           \/ /\ c.op \in Razer!Writes /\ last /\ a # Absent
              /\ End(IF a = c.value THEN "confirmed" ELSE "differs", c.value)
           \/ /\ c.op \notin Razer!Writes \cup {"bind"} /\ last /\ (a # Absent \/ c.op = "teach")
              /\ End("read", a)
  <2>1. PICK x, y :
          /\ doing' = [doing EXCEPT ![p] = Razer!Idle]
          /\ concluded' = [concluded EXCEPT ![p] = [op |-> c.op, value |-> x, is |-> y]]
          /\ UNCHANGED <<owned, bound>> /\ c.op # "bind"
          /\ y = "confirmed" => last /\ x = a /\ a = c.value /\ a # Absent
          /\ y = "read" => x = a /\ (c.op # "teach" => a # Absent)
    <3> HIDE DEF last
    <3> QED
      BY <1>5 DEF Razer!Writes
  <2>2. EndOf(p, a)
    BY <1>1, <2>1 DEF EndOf, Last, Razer!Idle, Razer!Doing
  <2>3. Others(p)
    BY <1>1, <2>1 DEF Others
  <2>4. RazerShape'
    BY <1>1, <2>1 DEF RazerShape, Razer!Idle, Razer!Doing
  <2> QED
    BY <2>2, <2>3, <2>4
<1> QED
  BY <1>2, <1>3, <1>4, <1>5

RazerDevice == <<responders, extended, marks>>
RazerMouse == <<resolution, interval, since>>

\* What a call asks does not change while the mouse is the same one.
LEMMA RequestsStay ==
  ASSUME UNCHANGED RazerDevice, NEW op, NEW v
  PROVE  Razer!Requests(op, v)' = Razer!Requests(op, v)
BY Zenon DEF Razer!Requests, Razer!SetRate, RazerDevice

LEMMA LastStays ==
  ASSUME UNCHANGED RazerDevice, NEW q \in Procs,
         doing'[q].op = doing[q].op, doing'[q].value = doing[q].value
  PROVE  Last(q)' = Last(q)
BY RequestsStay DEF Last

\* A call that begins or goes on is in a query of its own.
LEMMA ContinueCalls ==
  ASSUME RazerShape, CallInv, NEW p \in Procs, doing[p].at # "idle", NEW a,
         Razer!Continue(p, a), UNCHANGED <<RazerDevice, RazerMouse>>
  PROVE  CallInv'
<1>1. Others(p) /\ (MoreOf(p, a) \/ EndOf(p, a) \/ FoundOf(p, a))
  BY ContinueLeads DEF RazerMouse
<1>2. Last(p) \in Nat \ {0} /\ doing[p].step \in 1..Last(p)
  BY LastIsCounted
<1>3. SUFFICES ASSUME NEW q \in Procs
               PROVE  \/ doing'[q].at = "idle" /\ doing'[q].op = "none"
                      \/ /\ doing'[q].at \in {"send", "poll"} /\ doing'[q].step \in 1..Last(q)'
                         /\ doing'[q].op \in Operations[q] \cup {"bind"}
                         /\ concluded'[q] = Absent
  BY Zenon DEF CallInv, Procs
<1>4. CASE q # p
  <2>1. doing'[q] = doing[q] /\ concluded'[q] = concluded[q]
    BY <1>1, <1>4 DEF Others
  <2>2. Last(q)' = Last(q)
    BY <2>1, LastStays
  <2> QED
    BY <2>1, <2>2 DEF CallInv
<1>5. CASE q = p /\ MoreOf(p, a)
  <2>1. Last(q)' = Last(q)
    BY <1>5, LastStays DEF MoreOf
  <2> QED
    BY <1>2, <1>5, <2>1 DEF CallInv, MoreOf
<1>6. CASE q = p /\ (EndOf(p, a) \/ FoundOf(p, a))
  BY <1>6 DEF EndOf, FoundOf
<1> QED
  BY <1>1, <1>4, <1>5, <1>6

\* What an answer is: the value the register holds for the query that was asked.
Answered(p, a) ==
  a # Absent => /\ doing[p].at = "poll" /\ a = register.value
                /\ register.name = Razer!Asked(p).name

\* The query about a setting that the register answers.
LEMMA AskedOf ==
  ASSUME CallInv, NEW p \in Procs, doing[p].at # "idle"
  PROVE  /\ doing[p].op = "set_dpi" =>
              /\ Last(p) = 2 /\ doing[p].step \in {1, 2}
              /\ Razer!Asked(p).name = IF doing[p].step = 1 THEN "set_dpi" ELSE "get_dpi"
         /\ doing[p].op \in {"get_dpi", "get_rate"} =>
              Last(p) = 1 /\ doing[p].step = 1 /\ Razer!Asked(p).name = doing[p].op
         /\ doing[p].op = "set_rate" =>
              /\ extended => Last(p) = 3 /\ doing[p].step \in {1, 2, 3}
              /\ ~extended => Last(p) = 2 /\ doing[p].step \in {1, 2}
              /\ Razer!Asked(p).name = IF doing[p].step = Last(p) THEN "get_rate" ELSE "set_rate"
              /\ extended /\ doing[p].step # 3 =>
                   /\ Razer!Asked(p).argument = doing[p].step - 1
                   /\ Razer!Asked(p).value = doing[p].value
         /\ doing[p].op # "set_rate" => Razer!Asked(p).name # "set_rate"
<1>1. doing[p].op \in Simple \cup {"bind", "set_dpi", "set_rate"}
  BY OperationsAreKnown DEF CallInv, Procs, Simple
<1>2. doing[p].step \in 1..Last(p)
  BY DEF CallInv
<1>3. Razer!Asked(p) = Razer!Requests(doing[p].op, doing[p].value)[doing[p].step]
  BY Zenon DEF Razer!Asked
<1>4. doing[p].op # "set_rate" => Razer!Asked(p).name # "set_rate"
  BY <1>1, <1>2, <1>3, OtherRequests DEF Last
<1>5. CASE doing[p].op \in {"set_dpi", "get_dpi", "get_rate"}
  BY <1>2, <1>3, <1>4, <1>5, ReadRequests DEF Last
<1>6. CASE doing[p].op = "set_rate"
  <2> DEFINE asks == Razer!Requests("set_rate", doing[p].value)
  <2>1. IF extended
        THEN /\ Len(asks) = 3 /\ asks[1].name = "set_rate" /\ asks[2].name = "set_rate"
             /\ asks[3].name = "get_rate"
             /\ asks[1].argument = 0 /\ asks[1].value = doing[p].value
             /\ asks[2].argument = 1 /\ asks[2].value = doing[p].value
        ELSE Len(asks) = 2 /\ asks[1].name = "set_rate" /\ asks[2].name = "get_rate"
    BY RateRequests, Zenon
  <2>2. Last(p) = Len(asks) /\ Razer!Asked(p) = asks[doing[p].step]
    BY <1>3, <1>6 DEF Last
  <2> HIDE DEF asks
  <2>3. CASE extended
    <3>1. Last(p) = 3 /\ doing[p].step \in {1, 2, 3}
      BY <1>2, <2>1, <2>2, <2>3
    <3>2. Razer!Asked(p).name = IF doing[p].step = Last(p) THEN "get_rate" ELSE "set_rate"
      BY <2>1, <2>2, <2>3, <3>1
    <3>3. doing[p].step # 3 => /\ Razer!Asked(p).argument = doing[p].step - 1
                              /\ Razer!Asked(p).value = doing[p].value
      BY <2>1, <2>2, <2>3, <3>1
    <3> QED
      BY <1>6, <2>3, <3>1, <3>2, <3>3
  <2>4. CASE ~extended
    <3>1. Last(p) = 2 /\ doing[p].step \in {1, 2}
      BY <1>2, <2>1, <2>2, <2>4
    <3>2. Razer!Asked(p).name = IF doing[p].step = Last(p) THEN "get_rate" ELSE "set_rate"
      BY <2>1, <2>2, <2>4, <3>1
    <3> QED
      BY <1>6, <2>4, <3>1, <3>2
  <2> QED
    BY <2>3, <2>4
<1> QED
  BY <1>4, <1>5, <1>6

\* A process that does nothing, while what it reads stays.
LEMMA IdleAnswer ==
  ASSUME NEW q \in Procs, AnswerOf(q), UNCHANGED <<RazerDevice, RazerMouse, register>>,
         doing'[q] = doing[q], concluded'[q] = concluded[q]
  PROVE  AnswerOf(q)'
<1>1. UNCHANGED <<marks, resolution, interval, since, register>>
  BY DEF RazerDevice, RazerMouse
<1>2. Last(q)' = Last(q)
  BY LastStays
<1>3. \A name : Reading(q, name)' = Reading(q, name)
  BY <1>1, <1>2 DEF Reading
<1> QED
  BY <1>1, <1>3 DEF AnswerOf, Razer!Ended

LEMMA ContinueAnswers ==
  ASSUME RazerShape, CallInv, AnswerInv, NEW p \in Procs, doing[p].at # "idle", NEW a,
         Answered(p, a), Razer!Continue(p, a), UNCHANGED <<RazerDevice, RazerMouse, register>>
  PROVE  AnswerInv'
<1>1. Others(p) /\ (MoreOf(p, a) \/ EndOf(p, a) \/ FoundOf(p, a))
  BY ContinueLeads DEF RazerMouse
<1>2. UNCHANGED <<marks, resolution, interval, since, register>>
  BY DEF RazerDevice, RazerMouse
<1>3. SUFFICES ASSUME NEW q \in Procs
               PROVE  AnswerOf(q)'
  BY Zenon DEF AnswerInv, Procs
<1>4. CASE q # p
  BY <1>1, <1>4, IdleAnswer DEF AnswerInv, Others
<1> USE AskedOf
<1>5. CASE q = p /\ MoreOf(p, a)
  <2>1. Last(p)' = Last(p)
    BY <1>5, LastStays DEF MoreOf
  <2>2. AnswerOf(p)
    BY DEF AnswerInv
  <2>3. concluded'[p] = Absent
    BY <1>5, ContinueCalls DEF CallInv, MoreOf
  <2>4. \A name \in {"get_dpi", "get_rate"} : Reading(p, name)' => register.name # name
    BY <1>2, <1>5, <2>1 DEF Reading, MoreOf, Answered
  <2> QED
    BY <1>2, <1>5, <2>2, <2>3, <2>4 DEF AnswerOf, MoreOf, Razer!Ended
<1>6. CASE q = p /\ EndOf(p, a)
  <2>1. AnswerOf(p)
    BY DEF AnswerInv
  <2>2. \A name : ~Reading(p, name)'
    BY <1>6 DEF Reading, EndOf
  <2>3. doing[p].op \in {"set_dpi", "get_dpi"} /\ a # Absent /\ doing[p].step = Last(p)
          /\ (doing[p].op = "get_dpi" => marks) => a \in since[p]
    BY <2>1 DEF AnswerOf, Reading, Answered
  <2>4. doing[p].op \in {"set_rate", "get_rate"} /\ a # Absent /\ doing[p].step = Last(p)
          /\ (doing[p].op = "get_rate" => marks) => a \in since[p]
    BY <2>1 DEF AnswerOf, Reading, Answered
  <2>5. doing'[p].op \notin Razer!OfDpi \cup Razer!OfRate
    BY <1>6 DEF EndOf, Razer!OfDpi, Razer!OfRate
  <2>6. doing[p].op \in {"get_dpi", "get_rate"} => doing[p].step = Last(p)
    OBVIOUS
  <2>7. \A op \in {"set_dpi", "set_rate"} :
          Razer!Ended(p, op, "confirmed")' => concluded'[p].value \in since'[p]
    BY <1>2, <1>6, <2>3, <2>4 DEF EndOf, Razer!Ended
  <2>8. marks => \A op \in {"get_dpi", "get_rate"} :
          Razer!Ended(p, op, "read")' => concluded'[p].value \in since'[p]
    BY <1>2, <1>6, <2>3, <2>4, <2>6 DEF EndOf, Razer!Ended
  <2> QED
    BY <1>2, <1>6, <2>2, <2>5, <2>7, <2>8 DEF AnswerOf
<1>7. CASE q = p /\ FoundOf(p, a)
  BY <1>7 DEF FoundOf, AnswerOf, Reading, Razer!Ended, Razer!OfDpi, Razer!OfRate
<1> QED
  BY <1>1, <1>4, <1>5, <1>6, <1>7

LEMMA IdleRate ==
  ASSUME NEW q \in Procs, RateOf(q), UNCHANGED <<RazerDevice, RazerMouse, register, asked>>,
         doing'[q] = doing[q], concluded'[q] = concluded[q]
  PROVE  RateOf(q)'
BY DEF RateOf, PartInv, RateWaits, Razer!Ended, RazerDevice, RazerMouse

LEMMA ContinueRates ==
  ASSUME RazerShape, CallInv, RateInv, NEW p \in Procs, doing[p].at # "idle", NEW a,
         Answered(p, a), Razer!Continue(p, a),
         UNCHANGED <<RazerDevice, RazerMouse, register, asked>>
  PROVE  RateInv'
<1>1. Others(p) /\ (MoreOf(p, a) \/ EndOf(p, a) \/ FoundOf(p, a))
  BY ContinueLeads DEF RazerMouse
<1>2. UNCHANGED <<marks, extended, interval, register, asked>>
  BY DEF RazerDevice, RazerMouse
<1>3. SUFFICES ASSUME marks, extended, NEW q \in Procs, RateOf(q)
               PROVE  RateOf(q)'
  BY <1>2 DEF RateInv, Procs, Razer!Alone, Razer!Processes
<1>4. CASE q # p
  BY <1>1, <1>3, <1>4, IdleRate DEF Others
<1>5. CASE q = p /\ doing[p].op = "set_rate"
  <2>1. /\ Last(p) = 3 /\ doing[p].step \in {1, 2, 3}
        /\ Razer!Asked(p).name = IF doing[p].step = 3 THEN "get_rate" ELSE "set_rate"
    BY <1>3, <1>5, AskedOf
  <2>2. a # Absent /\ doing[p].step # 3 =>
          /\ ~RateWaits
          /\ interval[IF doing[p].step = 1 THEN 0 ELSE 1] = doing[p].value
    BY <1>3, <1>5, <2>1 DEF RateOf, PartInv, Answered
  <2>3. RateWaits' = RateWaits
    BY <1>2 DEF RateWaits
  <2>4. CASE MoreOf(p, a)
    <3>1. concluded'[p] = Absent
      BY <2>4, ContinueCalls DEF CallInv, MoreOf
    <3> QED
      BY <1>2, <1>3, <1>5, <2>1, <2>2, <2>3, <2>4, <3>1
      DEF RateOf, PartInv, Razer!Ended, MoreOf
  <2>5. CASE EndOf(p, a)
    <3>1. concluded'[p].is = "confirmed" =>
            /\ interval[0] = concluded'[p].value /\ interval[1] = concluded'[p].value
            /\ ~RateWaits
      BY <1>3, <1>5, <2>1, <2>5 DEF RateOf, EndOf
    <3> QED
      BY <1>2, <1>5, <2>3, <2>5, <3>1 DEF RateOf, Razer!Ended, EndOf
  <2> QED
    BY <1>1, <1>5, <2>4, <2>5 DEF FoundOf
<1>6. CASE q = p /\ doing[p].op # "set_rate"
  <2>1. ~Razer!Ended(p, "set_rate", "confirmed")'
    <3>1. CASE MoreOf(p, a)
      BY <3>1, ContinueCalls DEF CallInv, MoreOf, Razer!Ended
    <3>2. CASE EndOf(p, a) \/ FoundOf(p, a)
      BY <1>6, <3>2 DEF EndOf, FoundOf, Razer!Ended
    <3> QED
      BY <1>1, <3>1, <3>2
  <2>2. doing'[p].op # "set_rate"
    BY <1>1, <1>6 DEF MoreOf, EndOf, FoundOf
  <2> QED
    BY <1>6, <2>1, <2>2 DEF RateOf
<1> QED
  BY <1>4, <1>5, <1>6

LEMMA RazerCardinality == \A S : Razer!Cardinality(S) = Cardinality(S)
BY Zenon DEF Razer!Cardinality, Cardinality

\* The interfaces are finitely many, and an owner is the one that was found.
LEMMA InterfacesAreFinite == IsFiniteSet(Razer!Range(Interfaces))
<1> DEFINE listed == [i \in 1..Len(Interfaces) |-> Interfaces[i]]
           those == Razer!Range(Interfaces)
<1>1. IsFiniteSet(1..Len(Interfaces))
  BY FS_Interval, InterfacesAreListed
<1>2. listed \in [1..Len(Interfaces) -> those] /\ \A t \in those : \E i \in 1..Len(Interfaces) :
        listed[i] = t
  BY InterfacesAreListed DEF Razer!Range
<1>3. listed \in Surjection(1..Len(Interfaces), those)
  BY <1>2, Zenon DEF Surjection
<1> QED
  BY <1>1, <1>3, FS_Surjection

LEMMA OwnerIsFound ==
  ASSUME responders \subseteq Razer!Range(Interfaces), NEW those \in SUBSET responders,
         Razer!Owner(those) # Absent
  PROVE  those = {Razer!Owner(those)} /\ Razer!Owner(those) \in responders
<1>1. IsFiniteSet(those)
  BY InterfacesAreFinite, FS_Subset
<1>2. Cardinality(those) = 1 /\ Razer!Owner(those) = CHOOSE i \in those : TRUE
  BY RazerCardinality DEF Razer!Owner
<1>3. PICK i : those = {i}
  BY <1>1, <1>2, FS_Singleton
<1> QED
  BY <1>2, <1>3

LEMMA ContinueOwners ==
  ASSUME RazerShape, CallInv, OwnerInv, NEW p \in Procs, doing[p].at # "idle", NEW a,
         Answered(p, a), Razer!Continue(p, a), UNCHANGED <<RazerDevice, RazerMouse>>
  PROVE  OwnerInv'
<1>1. Others(p) /\ (MoreOf(p, a) \/ EndOf(p, a) \/ FoundOf(p, a))
  BY ContinueLeads DEF RazerMouse
<1>2. responders' = responders
  BY DEF RazerDevice
<1>3. SUFFICES ASSUME NEW q \in Procs
               PROVE  OwnerOf(q)'
  BY <1>2, Zenon DEF OwnerInv, Procs, Razer!Range
<1>4. OwnerOf(q)
  BY DEF OwnerInv
<1>5. CASE q # p
  BY <1>1, <1>2, <1>4, <1>5 DEF OwnerOf, Others
<1>6. CASE q = p /\ MoreOf(p, a)
  BY <1>2, <1>4, <1>6 DEF OwnerOf, MoreOf, Answered
<1>7. CASE q = p /\ EndOf(p, a)
  BY <1>2, <1>4, <1>7 DEF OwnerOf, EndOf
<1>8. CASE q = p /\ FoundOf(p, a)
  <2>1. PICK those :
          /\ those = doing[p].found
             \/ (a # Absent /\ those = doing[p].found \cup {Interfaces[doing[p].step]})
          /\ bound'[p] = Razer!Owner(those)
          /\ owned'[p] = IF bound'[p] = Absent THEN {} ELSE those
    BY <1>8 DEF FoundOf
  <2>2. those \subseteq responders
    BY <1>4, <1>8, <2>1 DEF OwnerOf, FoundOf, Answered
  <2>3. bound'[p] # Absent => those = {bound'[p]} /\ bound'[p] \in responders
    BY <2>1, <2>2, OwnerIsFound DEF OwnerInv
  <2>4. doing'[p].op # "bind"
    BY <1>8 DEF FoundOf
  <2> QED
    BY <1>2, <1>8, <2>1, <2>3, <2>4 DEF OwnerOf
<1> QED
  BY <1>1, <1>5, <1>6, <1>7, <1>8

LEMMA ContinueKeeps ==
  ASSUME RazerInv, NEW p \in Procs, doing[p].at # "idle", NEW a,
         Answered(p, a), Razer!Continue(p, a),
         UNCHANGED <<RazerDevice, RazerMouse, register, asked>>
  PROVE  RazerInv'
BY ContinueLeads, ContinueCalls, ContinueAnswers, ContinueRates, ContinueOwners
   DEF RazerInv, RazerMouse

\* A call that begins has asked nothing.
LEMMA BeginKeeps ==
  ASSUME RazerInv, NEW p \in Procs, NEW op \in Operations[p] \cup {"bind"}, NEW val,
         Razer!Begin(p, op, val)
  PROVE  RazerInv'
<1>1. /\ doing[p].at = "idle"
      /\ doing' = [doing EXCEPT ![p] = Razer!Doing(op, "send", 1, 0, val, {})]
      /\ owned' = IF op = "bind" THEN [owned EXCEPT ![p] = Razer!Range(Interfaces)] ELSE owned
      /\ concluded' = [concluded EXCEPT ![p] = Absent]
      /\ since' = [since EXCEPT ![p] = IF op \in Razer!OfDpi THEN {resolution}
                                       ELSE IF op \in Razer!OfRate THEN {interval[1]} ELSE {}]
      /\ UNCHANGED <<RazerDevice, resolution, interval, asked, register, bound>>
  BY Zenon DEF Razer!Begin, Razer!device, RazerDevice
<1>2. /\ doing = [q \in Procs |-> doing[q]] /\ concluded = [q \in Procs |-> concluded[q]]
      /\ owned = [q \in Procs |-> owned[q]] /\ since = [q \in Procs |-> since[q]]
  BY DEF RazerInv, RazerShape
<1>3. /\ doing'[p] = Razer!Doing(op, "send", 1, 0, val, {}) /\ concluded'[p] = Absent
      /\ since'[p] = IF op \in Razer!OfDpi THEN {resolution}
                     ELSE IF op \in Razer!OfRate THEN {interval[1]} ELSE {}
      /\ op # "bind" => owned'[p] = owned[p]
  BY <1>1, <1>2
<1>4. \A q \in Procs \ {p} : /\ doing'[q] = doing[q] /\ concluded'[q] = concluded[q]
                             /\ owned'[q] = owned[q] /\ since'[q] = since[q]
  BY <1>1, <1>2
<1>5. UNCHANGED <<responders, extended, marks>>
  BY <1>1 DEF RazerDevice
<1>6. doing'[p].op = op /\ doing'[p].at = "send" /\ doing'[p].step = 1
      /\ doing'[p].value = val /\ doing'[p].found = {}
  BY <1>3 DEF Razer!Doing
<1>7. op \in Simple \cup {"bind", "set_dpi", "set_rate"}
  BY OperationsAreKnown DEF Procs, Simple
<1>8. Last(p)' \in Nat \ {0}
  <2>1. Last(p)' = Len(Razer!Requests(op, val))
    BY <1>1, <1>6, RequestsStay DEF Last
  <2> QED
    BY <1>7, <2>1, OtherRequests, RateRequests
<1>9. RazerShape'
  <2>1. doing'[p] = [op |-> doing'[p].op, at |-> doing'[p].at, step |-> doing'[p].step,
                     left |-> doing'[p].left, value |-> doing'[p].value,
                     found |-> doing'[p].found]
    BY <1>3 DEF Razer!Doing
  <2> QED
    BY <1>1, <1>2, <1>4, <2>1 DEF RazerInv, RazerShape
<1>10. CallInv'
  <2>1. ASSUME NEW q \in Procs \ {p}
        PROVE  Last(q)' = Last(q)
    BY <1>1, <1>4, <2>1, LastStays
  <2> QED
    BY <1>3, <1>4, <1>6, <1>8, <2>1 DEF RazerInv, CallInv, Procs
<1>11. AnswerInv'
  <2>1. ASSUME NEW q \in Procs \ {p}
        PROVE  AnswerOf(q)'
    <3>1. Last(q)' = Last(q)
      BY <1>1, <1>4, <2>1, LastStays
    <3>2. \A name : Reading(q, name)' = Reading(q, name)
      BY <1>4, <1>5, <3>1 DEF Reading
    <3> QED
      BY <1>1, <1>4, <1>5, <3>2 DEF RazerInv, AnswerInv, AnswerOf, Razer!Ended
  <2>2. AnswerOf(p)'
    <3>1. \A name : ~Reading(p, name)'
      <4>1. op = "set_rate" => Last(p)' # 1
        <5>1. Last(p)' = Len(Razer!Requests(op, val))
          BY <1>1, <1>6, RequestsStay DEF Last
        <5> QED
          BY <5>1, RateRequests
      <4> QED
        BY <1>6, <4>1 DEF Reading
    <3>2. op \in Razer!OfRate => op \notin Razer!OfDpi
      BY DEF Razer!OfRate, Razer!OfDpi
    <3> QED
      BY <1>1, <1>3, <1>6, <3>1, <3>2 DEF AnswerOf, Razer!Ended
  <2> QED
    BY <2>1, <2>2 DEF AnswerInv, Procs
<1>12. RateInv'
  <2>1. ASSUME NEW q \in Procs, q # p => RateOf(q)
        PROVE  RateOf(q)'
    BY <1>1, <1>3, <1>4, <1>6, <2>1 DEF RateOf, PartInv, RateWaits, Razer!Ended
  <2> QED
    BY <1>5, <2>1 DEF RazerInv, RateInv, Procs, Razer!Alone, Razer!Processes
<1>13. OwnerInv'
  <2>1. ASSUME NEW q \in Procs
        PROVE  OwnerOf(q)'
    <3>1. OwnerOf(q) /\ doing[p].op = "none"
      BY <1>1 DEF RazerInv, OwnerInv, CallInv
    <3> QED
      BY <1>1, <1>3, <1>4, <1>5, <1>6, <3>1 DEF OwnerOf
  <2> QED
    BY <1>5, <2>1 DEF RazerInv, OwnerInv, Procs, Razer!Range
<1> QED
  BY <1>9, <1>10, <1>11, <1>12, <1>13 DEF RazerInv

\* A request takes the register; in one that shows it, the answer before it is gone.
LEMMA AskKeeps ==
  ASSUME RazerInv, NEW p \in Procs, doing[p].at = "send",
         doing[p].op = "bind" => Interfaces[doing[p].step] \in responders,
         asked' = Razer!Asked(p),
         register' = IF marks THEN [name |-> "busy", value |-> Absent] ELSE register,
         doing' = [doing EXCEPT ![p] = Razer!Doing(doing[p].op, "poll", doing[p].step, Attempts,
                                                   doing[p].value, doing[p].found)],
         UNCHANGED <<RazerDevice, RazerMouse, owned, bound, concluded>>
  PROVE  RazerInv'
<1>1. doing = [q \in Procs |-> doing[q]]
  BY DEF RazerInv, RazerShape
<1>2. doing'[p] = Razer!Doing(doing[p].op, "poll", doing[p].step, Attempts,
                              doing[p].value, doing[p].found)
  BY <1>1
<1>3. \A q \in Procs \ {p} : doing'[q] = doing[q]
  BY <1>1
<1>4. UNCHANGED <<responders, extended, marks, resolution, interval, since>>
  BY DEF RazerDevice, RazerMouse
<1>5. doing'[p].op = doing[p].op /\ doing'[p].at = "poll" /\ doing'[p].step = doing[p].step
      /\ doing'[p].value = doing[p].value /\ doing'[p].found = doing[p].found
  BY <1>2 DEF Razer!Doing
<1>6. ASSUME NEW q \in Procs
      PROVE  Last(q)' = Last(q)
  <2>1. doing'[q].op = doing[q].op /\ doing'[q].value = doing[q].value
    BY <1>3, <1>5
  <2> QED
    BY <2>1, LastStays
<1>7. RazerShape'
  <2>1. doing'[p] = [op |-> doing'[p].op, at |-> doing'[p].at, step |-> doing'[p].step,
                     left |-> doing'[p].left, value |-> doing'[p].value,
                     found |-> doing'[p].found]
    BY <1>2 DEF Razer!Doing
  <2>2. doing' = [q \in Procs |-> doing'[q]]
    BY <1>1
  <2> QED
    BY <1>3, <1>4, <2>1, <2>2 DEF RazerInv, RazerShape
<1>8. CallInv'
  BY <1>3, <1>5, <1>6 DEF RazerInv, CallInv, Procs
<1>9. AnswerInv'
  <2>1. ASSUME NEW q \in Procs, NEW name \in {"get_dpi", "get_rate"},
               Reading(q, name)', register'.name = name
        PROVE  Reading(q, name) /\ register' = register
    <3>1. ~marks
      BY <2>1
    <3> QED
      BY <1>3, <1>4, <1>5, <1>6, <2>1, <3>1 DEF Reading
  <2>2. ASSUME NEW q \in Procs
        PROVE  AnswerOf(q)'
    <3>1. AnswerOf(q) /\ doing'[q].op = doing[q].op
      BY <1>3, <1>5 DEF RazerInv, AnswerInv
    <3> QED
      BY <1>4, <2>1, <3>1 DEF AnswerOf, Razer!Ended
  <2> QED
    BY <2>2 DEF AnswerInv, Procs
<1>10. RateInv'
  <2>1. SUFFICES ASSUME marks, extended, NEW q \in Procs, RateOf(q), Razer!Alone(q, "set_rate")
                 PROVE  RateOf(q)'
    BY <1>4 DEF RazerInv, RateInv, Procs, Razer!Alone, Razer!Processes
  <2>2. register'.name = "busy"
    BY <2>1
  <2>3. CASE q # p
    <3>1. doing[p].op # "set_rate"
      BY <2>1, <2>3, OperationsAreKnown DEF RazerInv, CallInv, Procs, Razer!Alone, Razer!Processes
    <3>2. ~RateWaits'
      BY <3>1, AskedOf DEF RazerInv, RateWaits
    <3> QED
      BY <1>3, <1>4, <2>1, <2>2, <2>3, <3>2 DEF RateOf, PartInv, Razer!Ended
  <2>4. CASE q = p
    <3>1. ~Razer!Ended(p, "set_rate", "confirmed")'
      BY DEF RazerInv, CallInv, Razer!Ended
    <3>2. CASE doing[p].op = "set_rate"
      <4>1. /\ doing[p].step \in {1, 2, 3}
            /\ Razer!Asked(p).name = IF doing[p].step = 3 THEN "get_rate" ELSE "set_rate"
            /\ doing[p].step # 3 => /\ Razer!Asked(p).argument = doing[p].step - 1
                                    /\ Razer!Asked(p).value = doing[p].value
        BY <2>1, <3>2, AskedOf DEF RazerInv
      <4>2. doing[p].step = 3 => ~RateWaits'
        BY <4>1 DEF RateWaits
      <4>3. PartInv(p, 1, 0)' /\ PartInv(p, 2, 1)'
        BY <1>5, <2>2, <4>1 DEF PartInv
      <4>4. /\ doing[p].step # 1 => interval[0] = doing[p].value
            /\ doing[p].step = 3 => interval[1] = doing[p].value
        BY <2>1, <2>4, <3>2 DEF RateOf
      <4> QED
        BY <1>4, <1>5, <2>4, <3>1, <4>2, <4>3, <4>4 DEF RateOf
    <3>3. CASE doing[p].op # "set_rate"
      BY <1>5, <2>4, <3>1, <3>3 DEF RateOf
    <3> QED
      BY <3>2, <3>3
  <2> QED
    BY <2>3, <2>4
<1>11. OwnerInv'
  <2>1. ASSUME NEW q \in Procs
        PROVE  OwnerOf(q)'
    <3>1. OwnerOf(q)
      BY DEF RazerInv, OwnerInv
    <3> QED
      BY <1>3, <1>4, <1>5, <3>1 DEF OwnerOf
  <2> QED
    BY <1>4, <2>1 DEF RazerInv, OwnerInv, Procs, Razer!Range
<1> QED
  BY <1>7, <1>8, <1>9, <1>10, <1>11 DEF RazerInv

LEMMA SetFeatureKeeps ==
  ASSUME RazerInv, NEW p \in Procs, Razer!SetFeature(p)
  PROVE  RazerInv'
<1>1. /\ doing[p].at = "send"
      /\ IF doing[p].op = "bind" /\ Interfaces[doing[p].step] \notin responders
         THEN Razer!Continue(p, Absent) /\ UNCHANGED <<asked, register>>
         ELSE /\ asked' = Razer!Asked(p)
              /\ register' = IF marks THEN [name |-> "busy", value |-> Absent] ELSE register
              /\ doing' = [doing EXCEPT ![p] =
                   Razer!Doing(doing[p].op, "poll", doing[p].step, Attempts,
                               doing[p].value, doing[p].found)]
              /\ UNCHANGED <<owned, bound, concluded>>
      /\ UNCHANGED <<RazerDevice, RazerMouse>>
  BY Zenon DEF Razer!SetFeature, Razer!device, RazerDevice, RazerMouse
<1>2. CASE doing[p].op = "bind" /\ Interfaces[doing[p].step] \notin responders
  BY <1>1, <1>2, ContinueKeeps DEF Answered
<1>3. CASE ~(doing[p].op = "bind" /\ Interfaces[doing[p].step] \notin responders)
  BY <1>1, <1>3, AskKeeps
<1> QED
  BY <1>2, <1>3

\* A busy mouse is asked again: only the readings left change.
LEMMA AgainKeeps ==
  ASSUME RazerInv, NEW p \in Procs, doing' = [doing EXCEPT ![p].left = @ - 1],
         UNCHANGED <<RazerDevice, RazerMouse, register, asked, owned, bound, concluded>>
  PROVE  RazerInv'
<1>1. doing = [q \in Procs |-> doing[q]]
  BY DEF RazerInv, RazerShape
<1>2. doing[p] = [op |-> doing[p].op, at |-> doing[p].at, step |-> doing[p].step,
                  left |-> doing[p].left, value |-> doing[p].value, found |-> doing[p].found]
  BY DEF RazerInv, RazerShape
<1>3. doing'[p] = [doing[p] EXCEPT !.left = @ - 1]
  BY <1>1
<1>4. \A q \in Procs \ {p} : doing'[q] = doing[q]
  BY <1>1
<1>5. /\ doing'[p].op = doing[p].op /\ doing'[p].at = doing[p].at
      /\ doing'[p].step = doing[p].step /\ doing'[p].value = doing[p].value
      /\ doing'[p].found = doing[p].found
      /\ doing'[p] = [op |-> doing'[p].op, at |-> doing'[p].at, step |-> doing'[p].step,
                      left |-> doing'[p].left, value |-> doing'[p].value,
                      found |-> doing'[p].found]
  BY <1>2, <1>3
<1>6. UNCHANGED <<responders, extended, marks, resolution, interval, since>>
  BY DEF RazerDevice, RazerMouse
<1>7. ASSUME NEW q \in Procs
      PROVE  /\ doing'[q].op = doing[q].op /\ doing'[q].at = doing[q].at
             /\ doing'[q].step = doing[q].step /\ doing'[q].value = doing[q].value
             /\ doing'[q].found = doing[q].found
  BY <1>4, <1>5
<1>8. ASSUME NEW q \in Procs
      PROVE  Last(q)' = Last(q)
  BY <1>7, LastStays
<1>9. RazerShape'
  <2>1. doing' = [q \in Procs |-> doing'[q]]
    BY <1>1
  <2> QED
    BY <1>4, <1>5, <1>6, <2>1 DEF RazerInv, RazerShape
<1>10. CallInv'
  BY <1>7, <1>8 DEF RazerInv, CallInv, Procs
<1>11. AnswerInv'
  <2>1. ASSUME NEW q \in Procs
        PROVE  AnswerOf(q)'
    <3>1. \A name : Reading(q, name)' = Reading(q, name)
      BY <1>6, <1>7, <1>8 DEF Reading
    <3>2. AnswerOf(q)
      BY DEF RazerInv, AnswerInv
    <3> QED
      BY <1>6, <1>7, <3>1, <3>2 DEF AnswerOf, Razer!Ended
  <2> QED
    BY <2>1 DEF AnswerInv, Procs
<1>12. RateInv'
  <2>1. ASSUME NEW q \in Procs, RateOf(q)
        PROVE  RateOf(q)'
    BY <1>6, <1>7, <2>1 DEF RateOf, PartInv, RateWaits, Razer!Ended
  <2> QED
    BY <1>6, <2>1 DEF RazerInv, RateInv, Procs, Razer!Alone, Razer!Processes
<1>13. OwnerInv'
  <2>1. ASSUME NEW q \in Procs
        PROVE  OwnerOf(q)'
    BY <1>6, <1>7 DEF RazerInv, OwnerInv, OwnerOf
  <2> QED
    BY <1>6, <2>1 DEF RazerInv, OwnerInv, Procs, Razer!Range
<1> QED
  BY <1>9, <1>10, <1>11, <1>12, <1>13 DEF RazerInv

LEMMA GetFeatureKeeps ==
  ASSUME RazerInv, NEW p \in Procs, Razer!GetFeature(p)
  PROVE  RazerInv'
<1>1. /\ doing[p].at = "poll" /\ Razer!DecodeResponse(p)
      /\ UNCHANGED <<RazerDevice, RazerMouse, asked, register>>
  BY Zenon DEF Razer!GetFeature, Razer!device, RazerDevice, RazerMouse
<1>2. \/ Razer!Continue(p, Absent)
      \/ register.name = Razer!Asked(p).name /\ Razer!Continue(p, register.value)
      \/ /\ doing' = [doing EXCEPT ![p].left = @ - 1]
         /\ UNCHANGED <<owned, bound, concluded>>
  BY <1>1, Zenon DEF Razer!DecodeResponse
<1>3. CASE Razer!Continue(p, Absent)
  BY <1>1, <1>3, ContinueKeeps DEF Answered
<1>4. CASE register.name = Razer!Asked(p).name /\ Razer!Continue(p, register.value)
  BY <1>1, <1>4, ContinueKeeps DEF Answered
<1>5. CASE doing' = [doing EXCEPT ![p].left = @ - 1] /\ UNCHANGED <<owned, bound, concluded>>
  BY <1>1, <1>5, AgainKeeps
<1> QED
  BY <1>2, <1>3, <1>4, <1>5

LEMMA CloseKeeps ==
  ASSUME RazerInv, NEW p \in Procs, Razer!Close(p)
  PROVE  RazerInv'
<1>1. /\ doing[p].at = "idle"
      /\ bound' = [bound EXCEPT ![p] = Absent] /\ owned' = [owned EXCEPT ![p] = {}]
      /\ concluded' = [concluded EXCEPT ![p] = Absent] /\ since' = [since EXCEPT ![p] = {}]
      /\ UNCHANGED <<responders, extended, marks, resolution, interval, asked, register, doing>>
  BY Zenon DEF Razer!Close, Razer!device
<1>2. /\ concluded = [q \in Procs |-> concluded[q]] /\ since = [q \in Procs |-> since[q]]
      /\ owned = [q \in Procs |-> owned[q]] /\ bound = [q \in Procs |-> bound[q]]
  BY DEF RazerInv, RazerShape
<1>3. /\ bound'[p] = Absent /\ owned'[p] = {} /\ concluded'[p] = Absent
      /\ \A q \in Procs \ {p} : /\ bound'[q] = bound[q] /\ owned'[q] = owned[q]
                                /\ concluded'[q] = concluded[q] /\ since'[q] = since[q]
  BY <1>1, <1>2
<1>4. \A q \in Procs : Last(q)' = Last(q)
  BY <1>1, LastStays DEF RazerDevice
<1>5. doing[p].op = "none"
  BY <1>1 DEF RazerInv, CallInv
<1>6. RazerShape'
  BY <1>1, <1>2 DEF RazerInv, RazerShape
<1>7. CallInv'
  BY <1>1, <1>3, <1>4 DEF RazerInv, CallInv, Procs
<1>8. AnswerInv'
  <2>1. ASSUME NEW q \in Procs \ {p}
        PROVE  AnswerOf(q)'
    <3>1. \A name : Reading(q, name)' = Reading(q, name)
      BY <1>1, <1>4 DEF Reading
    <3>2. AnswerOf(q)
      BY DEF RazerInv, AnswerInv
    <3> QED
      BY <1>1, <1>3, <3>1, <3>2 DEF AnswerOf, Razer!Ended
  <2>2. AnswerOf(p)'
    BY <1>1, <1>3, <1>5 DEF AnswerOf, Reading, Razer!Ended, Razer!OfDpi, Razer!OfRate
  <2> QED
    BY <2>1, <2>2 DEF AnswerInv, Procs
<1>9. RateInv'
  <2>1. ASSUME NEW q \in Procs, RateOf(q)
        PROVE  RateOf(q)'
    BY <1>1, <1>3, <2>1 DEF RateOf, PartInv, RateWaits, Razer!Ended
  <2> QED
    BY <1>1, <2>1 DEF RazerInv, RateInv, Procs, Razer!Alone, Razer!Processes
<1>10. OwnerInv'
  <2>1. ASSUME NEW q \in Procs \ {p}
        PROVE  OwnerOf(q)'
    <3>1. OwnerOf(q)
      BY DEF RazerInv, OwnerInv
    <3> QED
      BY <1>1, <1>3, <3>1 DEF OwnerOf
  <2>2. OwnerOf(p)'
    BY <1>1, <1>3, <1>5 DEF OwnerOf
  <2> QED
    BY <1>1, <2>1, <2>2 DEF RazerInv, OwnerInv, Procs, Razer!Range
<1> QED
  BY <1>6, <1>7, <1>8, <1>9, <1>10 DEF RazerInv

\* What a process in a call on a setting sees.
LEMMA SeenIs ==
  ASSUME RazerInv, NEW ops, NEW v, Razer!Sees(ops, v)
  PROVE  /\ since' = [q \in Procs |-> since'[q]]
         /\ \A q \in Procs : /\ since[q] \subseteq since'[q]
                             /\ doing[q].op \in ops => v \in since'[q]
<1>1. since' = [q \in Procs |-> IF doing[q].op \in ops THEN since[q] \cup {v} ELSE since[q]]
  BY Zenon DEF Razer!Sees, Procs, Razer!Processes
<1> QED
  BY <1>1

\* What the mouse and its user do leaves the calls as they are: those of a setting see its
\* new value, and an answer is the value in force.
LEMMA MouseKeeps ==
  ASSUME RazerInv, UNCHANGED <<RazerDevice, doing, owned, bound, concluded>>,
         since' = [q \in Procs |-> since'[q]],
         interval' = [part \in 0..1 |-> interval'[part]],
         \A q \in Procs : since[q] \subseteq since'[q],
         resolution' # resolution =>
           \A q \in Procs : doing[q].op \in Razer!OfDpi => resolution' \in since'[q],
         interval'[1] # interval[1] =>
           \A q \in Procs : doing[q].op \in Razer!OfRate => interval'[1] \in since'[q],
         \/ register' = register
         \/ register'.name = "get_dpi" /\ register'.value = resolution'
         \/ register'.name = "get_rate" /\ register'.value = interval'[1]
         \/ register'.name \notin {"get_dpi", "get_rate"},
         RateInv'
  PROVE  RazerInv'
<1>1. UNCHANGED <<responders, extended, marks>>
  BY DEF RazerDevice
<1>2. \A q \in Procs : Last(q)' = Last(q)
  BY LastStays
<1>3. RazerShape'
  BY DEF RazerInv, RazerShape
<1>4. CallInv'
  BY <1>2 DEF RazerInv, CallInv, Procs
<1>5. OwnerInv'
  <2>1. ASSUME NEW q \in Procs
        PROVE  OwnerOf(q)'
    BY <1>1 DEF RazerInv, OwnerInv, OwnerOf
  <2> QED
    BY <1>1, <2>1 DEF RazerInv, OwnerInv, Procs, Razer!Range
<1>6. AnswerInv'
  <2>1. ASSUME NEW q \in Procs
        PROVE  AnswerOf(q)'
    <3>1. \A name : Reading(q, name)' = Reading(q, name)
      BY <1>1, <1>2 DEF Reading
    <3>2. AnswerOf(q) /\ since[q] \subseteq since'[q]
      BY DEF RazerInv, AnswerInv
    <3>3. doing[q].op \in Razer!OfDpi => resolution' \in since'[q]
      BY <3>2 DEF AnswerOf
    <3>4. doing[q].op \in Razer!OfRate => interval'[1] \in since'[q]
      BY <3>2 DEF AnswerOf
    <3>5. ASSUME NEW name \in {"get_dpi", "get_rate"}, Reading(q, name), register'.name = name
          PROVE  register'.value \in since'[q]
      <4>1. name = "get_dpi" => doing[q].op \in Razer!OfDpi
        BY <3>5 DEF Reading, Razer!OfDpi
      <4>2. name = "get_rate" => doing[q].op \in Razer!OfRate
        BY <3>5 DEF Reading, Razer!OfRate
      <4>3. register' = register => register'.value \in since'[q]
        BY <3>2, <3>5 DEF AnswerOf
      <4> QED
        BY <3>3, <3>4, <3>5, <4>1, <4>2, <4>3
    <3> QED
      BY <1>1, <3>1, <3>2, <3>3, <3>4, <3>5 DEF AnswerOf, Razer!Ended
  <2> QED
    BY <2>1 DEF AnswerInv, Procs
<1> QED
  BY <1>3, <1>4, <1>5, <1>6 DEF RazerInv

\* A request that is no part of a rate is carried out.
LEMMA OtherRate ==
  ASSUME RateInv, UNCHANGED <<RazerDevice, doing, concluded, interval>>,
         RateWaits' => RateWaits /\ asked' = asked,
         register' = register \/ register'.name # "set_rate"
  PROVE  RateInv'
<1>1. UNCHANGED <<extended, marks>>
  BY DEF RazerDevice
<1>2. ASSUME NEW q \in Procs, RateOf(q)
      PROVE  RateOf(q)'
  <2>1. \A n, part : PartInv(q, n, part) => PartInv(q, n, part)'
    BY DEF PartInv
  <2> QED
    BY <1>2, <2>1 DEF RateOf, Razer!Ended
<1> QED
  BY <1>1, <1>2 DEF RateInv, Procs, Razer!Alone, Razer!Processes

\* A part of a rate that waits is written.
LEMMA WrittenRate ==
  ASSUME RazerInv, UNCHANGED <<RazerDevice, doing, concluded>>, RateWaits, asked' = Absent,
         interval' = [interval EXCEPT ![asked.argument] = asked.value]
  PROVE  RateInv'
<1>1. UNCHANGED <<extended, marks>> /\ ~RateWaits'
  BY DEF RazerDevice, RateWaits
<1>2. SUFFICES ASSUME marks, extended, NEW q \in Procs, RateOf(q)
               PROVE  RateOf(q)'
  BY <1>1 DEF RazerInv, RateInv, Procs, Razer!Alone, Razer!Processes
<1>3. interval = [part \in 0..1 |-> interval[part]]
  BY DEF RazerInv, RazerShape
<1>4. ~Razer!Ended(q, "set_rate", "confirmed")'
  BY <1>2 DEF RateOf, Razer!Ended
<1>5. CASE doing[q].op = "set_rate"
  <2>1. doing[q].step \in {1, 2, 3} /\ doing[q].at \in {"send", "poll"}
    BY <1>2, <1>5, AskedOf DEF RazerInv, CallInv
  <2>2. doing[q].step = 1 \/ (doing[q].step = 2 /\ doing[q].at = "poll")
    BY <1>2, <1>5, <2>1 DEF RateOf
  <2>3. CASE doing[q].step = 1 /\ doing[q].at = "send"
    BY <1>1, <1>4, <1>5, <2>3 DEF RateOf, PartInv
  <2>4. CASE doing[q].step = 1 /\ doing[q].at = "poll"
    <3>1. asked.argument = 0 /\ asked.value = doing[q].value
      BY <1>2, <1>5, <2>4 DEF RateOf, PartInv
    <3>2. interval'[0] = doing[q].value
      BY <1>3, <3>1
    <3> QED
      BY <1>1, <1>4, <1>5, <2>4, <3>2 DEF RateOf, PartInv
  <2>5. CASE doing[q].step = 2 /\ doing[q].at = "poll"
    <3>1. asked.argument = 1 /\ asked.value = doing[q].value /\ interval[0] = doing[q].value
      BY <1>2, <1>5, <2>5 DEF RateOf, PartInv
    <3>2. interval'[1] = doing[q].value /\ interval'[0] = doing[q].value
      BY <1>3, <3>1
    <3> QED
      BY <1>1, <1>4, <1>5, <2>5, <3>2 DEF RateOf, PartInv
  <2> QED
    BY <2>1, <2>2, <2>3, <2>4, <2>5
<1>6. CASE doing[q].op # "set_rate"
  BY <1>4, <1>6 DEF RateOf
<1> QED
  BY <1>5, <1>6

LEMMA ExecuteKeeps ==
  ASSUME RazerInv, Razer!Execute
  PROVE  RazerInv'
<1>1. /\ asked # Absent /\ asked' = Absent
      /\ UNCHANGED <<RazerDevice, doing, owned, bound, concluded>>
  BY Zenon DEF Razer!Execute, Razer!device, RazerDevice
<1>2. \/ /\ asked.name = "get_dpi" /\ register' = [name |-> asked.name, value |-> resolution]
         /\ UNCHANGED <<resolution, interval, since>>
      \/ /\ asked.name = "get_rate" /\ register' = [name |-> asked.name, value |-> interval[1]]
         /\ UNCHANGED <<resolution, interval, since>>
      \/ /\ asked.name = "set_dpi" /\ register' = [name |-> asked.name, value |-> resolution']
         /\ Razer!Sees(Razer!OfDpi, resolution') /\ UNCHANGED interval
      \/ /\ asked.name = "set_rate" /\ register' = [name |-> asked.name, value |-> asked.value]
         /\ interval' = [interval EXCEPT ![asked.argument] = asked.value]
         /\ Razer!Sees(Razer!OfRate, interval'[1]) /\ UNCHANGED resolution
      \/ /\ asked.name \in {"firmware", "battery", "charging"}
         /\ \/ register' = [name |-> asked.name, value |-> "ok"]
            \/ register' = [name |-> "unsupported", value |-> Absent]
         /\ UNCHANGED <<resolution, interval, since>>
  BY Zenon DEF Razer!Execute
<1>3. /\ since = [q \in Procs |-> since[q]]
      /\ interval = [part \in 0..1 |-> interval[part]]
  BY DEF RazerInv, RazerShape
<1>4. ~RateWaits'
  BY <1>1 DEF RateWaits
<1>5. CASE asked.name \notin {"set_dpi", "set_rate"}
  <2>1. UNCHANGED <<resolution, interval, since>>
    BY <1>2, <1>5
  <2>2. \/ register'.name = "get_dpi" /\ register'.value = resolution'
        \/ register'.name = "get_rate" /\ register'.value = interval'[1]
        \/ register'.name \notin {"get_dpi", "get_rate"}
    BY <1>2, <1>5
  <2>3. register'.name # "set_rate"
    BY <1>2, <1>5
  <2>4. RateInv'
    BY <1>1, <1>4, <2>1, <2>3, OtherRate DEF RazerInv
  <2> QED
    BY <1>1, <1>3, <2>1, <2>2, <2>4, MouseKeeps
<1>6. CASE asked.name = "set_dpi"
  <2>1. /\ register'.name = "set_dpi" /\ UNCHANGED interval
        /\ Razer!Sees(Razer!OfDpi, resolution')
    BY <1>2, <1>6
  <2>2. RateInv'
    BY <1>1, <1>4, <2>1, OtherRate DEF RazerInv
  <2> QED
    BY <1>1, <1>3, <2>1, <2>2, SeenIs, MouseKeeps
<1>7. CASE asked.name = "set_rate"
  <2>1. /\ register'.name = "set_rate" /\ UNCHANGED resolution
        /\ interval' = [interval EXCEPT ![asked.argument] = asked.value]
        /\ Razer!Sees(Razer!OfRate, interval'[1])
    BY <1>2, <1>7
  <2>2. RateInv'
    BY <1>1, <1>7, <2>1, WrittenRate DEF RateWaits
  <2>3. interval' = [part \in 0..1 |-> interval'[part]]
    BY <1>3, <2>1
  <2> QED
    BY <1>1, <2>1, <2>2, <2>3, SeenIs, MouseKeeps
<1> QED
  BY <1>5, <1>6, <1>7

LEMMA PressKeeps ==
  ASSUME RazerInv, Razer!Press
  PROVE  RazerInv'
<1>1. /\ Razer!Sees(Razer!OfDpi, resolution')
      /\ UNCHANGED <<RazerDevice, interval, asked, register, doing, owned, bound, concluded>>
  BY Zenon DEF Razer!Press, Razer!device, RazerDevice
<1>2. interval = [part \in 0..1 |-> interval[part]]
  BY DEF RazerInv, RazerShape
<1>3. RateInv'
  BY <1>1, OtherRate DEF RazerInv, RateWaits
<1> QED
  BY <1>1, <1>2, <1>3, SeenIs, MouseKeeps

LEMMA RazerInvHolds == Razer!Spec => []RazerInv
<1>1. Razer!Init => RazerInv
  <2> SUFFICES ASSUME Razer!Init
               PROVE  RazerInv
    OBVIOUS
  <2>1. /\ responders \in SUBSET Razer!Range(Interfaces)
        /\ doing = [p \in Procs |-> Razer!Idle]
        /\ bound = [p \in Procs |-> Razer!Owner(responders)]
        /\ owned = [p \in Procs |-> IF bound[p] = Absent THEN {} ELSE responders]
        /\ concluded = [p \in Procs |-> Absent] /\ since = [p \in Procs |-> {}]
        /\ interval = [part \in 0..1 |-> Razer!Min(Intervals)]
    BY Zenon DEF Razer!Init, Procs, Razer!Processes
  <2>2. \A p \in Procs : doing[p] = Razer!Idle /\ concluded[p] = Absent
    BY <2>1
  <2>3. \A p \in Procs : doing[p].op = "none" /\ doing[p].at = "idle"
    BY <2>2 DEF Razer!Idle, Razer!Doing
  <2>4. RazerShape
    <3>1. \A p \in Procs :
            doing[p] = [op |-> doing[p].op, at |-> doing[p].at, step |-> doing[p].step,
                        left |-> doing[p].left, value |-> doing[p].value,
                        found |-> doing[p].found]
      BY <2>2 DEF Razer!Idle, Razer!Doing
    <3> QED
      BY <2>1, <3>1 DEF RazerShape
  <2>5. CallInv
    BY <2>3 DEF CallInv
  <2>6. AnswerInv
    BY <2>2, <2>3
    DEF AnswerInv, AnswerOf, Reading, Razer!Ended, Razer!OfDpi, Razer!OfRate
  <2>7. RateInv
    BY <2>2, <2>3 DEF RateInv, RateOf, Razer!Ended
  <2>8. OwnerInv
    <3>1. Razer!Owner(responders) # Absent =>
            /\ responders = {Razer!Owner(responders)}
            /\ Razer!Owner(responders) \in responders
      BY <2>1, OwnerIsFound
    <3> QED
      BY <2>1, <2>3, <3>1 DEF OwnerInv, OwnerOf
  <2> QED
    BY <2>4, <2>5, <2>6, <2>7, <2>8 DEF RazerInv
<1>2. RazerInv /\ [Razer!Next]_(Razer!vars) => RazerInv'
  <2> SUFFICES ASSUME RazerInv, [Razer!Next]_(Razer!vars)
               PROVE  RazerInv'
    OBVIOUS
  <2>1. CASE UNCHANGED Razer!vars
    <3>1. UNCHANGED <<RazerDevice, RazerMouse, register, asked, doing, owned, bound, concluded>>
      BY <2>1 DEF Razer!vars, RazerDevice, RazerMouse
    <3>2. interval = [part \in 0..1 |-> interval[part]] /\ since = [q \in Procs |-> since[q]]
      BY DEF RazerInv, RazerShape
    <3>3. RateInv'
      BY <3>1, OtherRate DEF RazerInv, RateWaits, RazerMouse
    <3> QED
      BY <3>1, <3>2, <3>3, MouseKeeps DEF RazerMouse
  <2>2. CASE \E p \in Razer!Processes :
               \/ Razer!SetFeature(p) \/ Razer!GetFeature(p) \/ Razer!Close(p)
               \/ \E op \in Operations[p] \cup {"bind"} :
                    \E val \in Razer!ArgumentsOf(op) : Razer!Begin(p, op, val)
    BY <2>2, SetFeatureKeeps, GetFeatureKeeps, CloseKeeps, BeginKeeps
    DEF Procs, Razer!Processes
  <2> QED
    BY <2>1, <2>2, ExecuteKeeps, PressKeeps DEF Razer!Next
<1> QED
  BY <1>1, <1>2, PTL DEF Razer!Spec

\* Two processes share the register of a Razer mouse: a confirmed write is never a foreign answer
\* alone, and a mouse that shows a waiting request tells neither an old value.
THEOREM RazerRegisterIsShared == Razer!Spec => []RegisterIsShared
<1>1. RazerInv => RegisterIsShared
  <2> SUFFICES ASSUME RazerInv
               PROVE  RegisterIsShared
    OBVIOUS
  <2>1. Razer!ConfirmedWasInForce
    BY DEF RazerInv, AnswerInv, AnswerOf, Razer!ConfirmedWasInForce, Procs, Razer!Processes
  <2>2. Razer!ReadingIsCurrent
    BY DEF RazerInv, AnswerInv, AnswerOf, Razer!ReadingIsCurrent, Procs, Razer!Processes
  <2>3. Razer!RateIsWhole
    <3>1. ASSUME marks, extended, NEW p \in Procs, Razer!Ended(p, "set_rate", "confirmed"),
                 Razer!Alone(p, "set_rate")
          PROVE  interval = [part \in 0..1 |-> concluded[p].value]
      <4>1. interval[0] = concluded[p].value /\ interval[1] = concluded[p].value
        BY <3>1 DEF RazerInv, RateInv, RateOf
      <4>2. interval = [part \in 0..1 |-> interval[part]]
        BY DEF RazerInv, RazerShape
      <4> QED
        BY <4>1, <4>2
    <3> QED
      BY <3>1 DEF Razer!RateIsWhole, Procs, Razer!Processes
  <2>4. Razer!OnlyOwnerIsOpen
    BY DEF RazerInv, CallInv, OwnerInv, OwnerOf, Razer!OnlyOwnerIsOpen, Procs, Razer!Processes
  <2> QED
    BY <2>1, <2>2, <2>3, <2>4 DEF RegisterIsShared, Razer!RegisterIsShared
<1> QED
  BY <1>1, RazerInvHolds, PTL

-----------------------------------------------------------------------------------
(* What is paired of the transfers on a bus                                        *)

Events == [urb : Urbs, type : {"submit"} \cup EndTypes, transfer : Nat, time : Int,
           address : Nat, endpoint : Endpoints, large : BOOLEAN]
Observations == [urb : Urbs, type : {"submit"} \cup EndTypes, transfer : Nat, time : Int,
                 address : Nat, endpoint : Endpoints, large : BOOLEAN,
                 capture : Nat, sequence : Nat]

\* The submissions and the ends in their order.
Key(e) == IF e.type = "submit" THEN 2 * e.transfer ELSE 2 * e.transfer + 1

Same(o, p) == o.capture = p.capture /\ o.urb = p.urb
Paired == {"submit"} \cup Usb!Completions

BusShape ==
  /\ address \in Nat /\ ticks \in Int /\ transfers \in Nat /\ captured \in Nat
  /\ flying = [u \in Urbs |-> flying[u]]
  /\ \A u \in Urbs : flying[u] # Absent =>
       /\ flying[u].number \in Nat /\ flying[u].number <= transfers
       /\ flying[u].address \in Nat /\ flying[u].endpoint \in Endpoints
  /\ buffer \in Seq(Events)
  /\ watching = Absent => buffer = <<>>
  /\ watching # Absent =>
       watching \in [id : Nat, selection : Nat, sequence : Nat] /\ watching.id = captured
  /\ noted = given /\ submitted \subseteq given /\ given \subseteq Observations
  /\ \A o \in given : o.capture <= captured

\* Of an event: its transfer was submitted, under its identity, and it is not after the end of
\* one in flight.
HappenedOf(e) ==
  /\ e.transfer <= transfers
  /\ \A u \in Urbs : flying[u] # Absent =>
       /\ e.transfer = flying[u].number => e.urb = u
       /\ e.urb = u => Key(e) <= 2 * flying[u].number

HappenedInv ==
  /\ \A u, v \in Urbs :
       flying[u] # Absent /\ flying[v] # Absent /\ flying[u].number = flying[v].number => u = v
  /\ \A i \in 1..Len(buffer) : HappenedOf(buffer[i])
  /\ \A o \in given : HappenedOf(o)

\* A transfer has one identity.
IdentityInv ==
  /\ \A i, j \in 1..Len(buffer) :
       buffer[i].transfer = buffer[j].transfer => buffer[i].urb = buffer[j].urb
  /\ \A i \in 1..Len(buffer), o \in given :
       o.transfer = buffer[i].transfer => o.urb = buffer[i].urb
  /\ \A o, p \in given : o.transfer = p.transfer => o.urb = p.urb

\* What is buffered is in order, and after all that the capture has read.
OrderInv ==
  /\ \A i, j \in 1..Len(buffer) :
       i < j /\ buffer[i].urb = buffer[j].urb => Key(buffer[i]) < Key(buffer[j])
  /\ watching # Absent =>
       \A i \in 1..Len(buffer), o \in given :
         o.capture = captured /\ o.urb = buffer[i].urb => Key(o) < Key(buffer[i])

\* What waits is the last of its identity, and what a capture has read and does not wait
\* is not.
WaitsOf(p) ==
  /\ p.type = "submit"
  /\ \A o \in given : Same(o, p) /\ o.type \in Paired => Key(o) <= Key(p)
  /\ \A o \in submitted : Same(o, p) => o = p

LeftOf(p) == \E q \in given : Same(q, p) /\ Key(p) < Key(q)

WaitInv ==
  /\ \A p \in submitted : WaitsOf(p)
  /\ watching # Absent =>
       \A p \in given : p.type = "submit" /\ p.capture = captured /\ p \notin submitted => LeftOf(p)

\* The capture of a submission has ended, or has read a later transfer of its identity.
Closed(o) ==
  watching # Absent /\ o.capture = captured =>
    \E q \in given : Same(q, o) /\ o.transfer < q.transfer

PairOf(t) ==
  /\ t.submit \in given /\ t.completion \in given
  /\ t.submit.type = "submit" /\ t.completion.type # "submit" /\ Same(t.submit, t.completion)
  /\ t.submit.endpoint = t.completion.endpoint /\ t.submit.time <= t.completion.time
  /\ \/ t.submit.transfer = t.completion.transfer
     \/ /\ t.submit.transfer < t.completion.transfer
        /\ Usb!Unobserved(t.submit, Usb!Completions)
        /\ Usb!Unobserved(t.completion, {"submit"})

Anomalies == {"missing_submit", "missing_completion", "reused_urb", "event_mismatch",
              "capture_boundary"}

TransactionOf(t) ==
  /\ t.submit \in given \cup {Absent} /\ t.completion \in given \cup {Absent}
  /\ t.anomaly = Absent => PairOf(t)
  /\ t.anomaly = "missing_submit" =>
       /\ t.completion \in given /\ t.completion.type # "submit"
       /\ Usb!Unobserved(t.completion, {"submit"})
  /\ t.anomaly \in {"missing_completion", "reused_urb", "capture_boundary"} =>
       /\ t.submit \in given /\ t.submit.type = "submit"
       /\ Usb!Unobserved(t.submit, Usb!Completions) /\ Closed(t.submit)

TransactionInv == \A t \in assembled : TransactionOf(t)

\* An observation that waits is in no transaction, any other in one.
OnceOf(o) ==
  IF o \in submitted
  THEN \A t \in assembled : o \notin Usb!Parts(t)
  ELSE \E s \in assembled : \A t \in assembled : o \in Usb!Parts(t) <=> t = s

OnceInv == \A o \in given : OnceOf(o)

BusInv ==
  BusShape /\ HappenedInv /\ IdentityInv /\ OrderInv /\ WaitInv /\ TransactionInv /\ OnceInv

LEMMA KeyOf ==
  ASSUME NEW e, e.transfer \in Nat
  PROVE  /\ Key(e) \in Nat
         /\ e.type = "submit" => Key(e) = 2 * e.transfer
         /\ e.type # "submit" => Key(e) = 2 * e.transfer + 1
         /\ 2 * e.transfer <= Key(e) /\ Key(e) <= 2 * e.transfer + 1
BY DEF Key

\* What the assembler has done of it stays so while it does nothing.
LEMMA AssemblerKept ==
  ASSUME WaitInv, TransactionInv, OnceInv,
         (watching' # Absent => watching # Absent), captured' = captured, given' = given,
         submitted' = submitted, assembled' = assembled
  PROVE  WaitInv' /\ TransactionInv' /\ OnceInv'
<1>1. WaitInv'
  BY DEF WaitInv, WaitsOf, LeftOf, Same, Key
<1>2. TransactionInv'
  BY DEF TransactionInv, TransactionOf, PairOf, Closed, Same, Usb!Unobserved
<1>3. OnceInv'
  BY DEF OnceInv, OnceOf, Usb!Parts
<1> QED
  BY <1>1, <1>2, <1>3

LEMMA BusInit == Usb!Init => BusInv
<1> SUFFICES ASSUME Usb!Init PROVE BusInv
  OBVIOUS
<1> USE DEF Usb!Init
<1>1. BusShape
  BY DEF BusShape
<1>2. HappenedInv /\ IdentityInv /\ OrderInv
  BY DEF HappenedInv, IdentityInv, OrderInv
<1>3. WaitInv /\ TransactionInv /\ OnceInv
  BY DEF WaitInv, TransactionInv, OnceInv
<1> QED
  BY <1>1, <1>2, <1>3 DEF BusInv

\* An event that is shown is the last of the buffer.
LEMMA Shown ==
  ASSUME BusShape, NEW event \in Events,
         buffer' = IF watching # Absent /\ Len(buffer) < Room THEN Append(buffer, event) ELSE buffer
  PROVE  /\ buffer' \in Seq(Events)
         /\ watching = Absent => buffer' = <<>>
         /\ Len(buffer') \in Nat
         /\ \A i \in 1..Len(buffer') :
              \/ i \in 1..Len(buffer) /\ buffer'[i] = buffer[i]
              \/ i = Len(buffer) + 1 /\ buffer'[i] = event
BY DEF BusShape

LEMMA BufferIsTyped ==
  ASSUME BusShape
  PROVE  /\ Len(buffer) \in Nat
         /\ \A i \in 1..Len(buffer) : buffer[i] \in Events /\ buffer[i].transfer \in Nat
         /\ \A o \in given : o \in Observations /\ o.transfer \in Nat
<1>1. Len(buffer) \in Nat /\ \A i \in 1..Len(buffer) : buffer[i] \in Events
  BY DEF BusShape
<1>2. given \subseteq Observations
  BY DEF BusShape
<1>3. \A e \in Events : e.transfer \in Nat
  BY DEF Events
<1>4. \A o \in Observations : o.transfer \in Nat
  BY DEF Observations
<1> QED
  BY <1>1, <1>2, <1>3, <1>4

LEMMA SubmitStep ==
  ASSUME BusInv, NEW u \in Urbs, Usb!Submit(u)
  PROVE  BusInv'
<1> USE DEF BusInv
<1>1. PICK to \in {0, address}, e \in Endpoints :
        LET transfer == [number |-> transfers + 1, address |-> to, endpoint |-> e]
        IN flying' = [flying EXCEPT ![u] = transfer] /\ Usb!Log(u, "submit", transfer, FALSE)
  BY Zenon DEF Usb!Submit
<1>21. PICK transfer : transfer = [number |-> transfers + 1, address |-> to, endpoint |-> e]
  OBVIOUS
<1>22. PICK event : event = [urb |-> u, type |-> "submit", transfer |-> transfers + 1,
                            time |-> ticks, address |-> to, endpoint |-> e, large |-> FALSE]
  OBVIOUS
<1>2. /\ buffer' = IF watching # Absent /\ Len(buffer) < Room THEN Append(buffer, event) ELSE buffer
      /\ flying' = [flying EXCEPT ![u] = transfer] /\ flying[u] = Absent
      /\ transfers' = transfers + 1
      /\ UNCHANGED <<address, ticks, watching, submitted, noted, assembled, given, captured>>
  BY <1>1, <1>21, <1>22 DEF Usb!Log, Usb!Submit, Usb!assembler
<1>3. event \in Events /\ to \in Nat
  BY <1>22 DEF Events, BusShape
<1>4. /\ buffer' \in Seq(Events) /\ (watching = Absent => buffer' = <<>>) /\ Len(buffer') \in Nat
      /\ \A i \in 1..Len(buffer') :
              \/ i \in 1..Len(buffer) /\ buffer'[i] = buffer[i]
              \/ i = Len(buffer) + 1 /\ buffer'[i] = event
  BY <1>2, <1>3, Shown
<1>5. event.transfer = transfers + 1 /\ event.urb = u /\ Key(event) = 2 * (transfers + 1)
  BY <1>22 DEF Key
<1>6. /\ \A i \in 1..Len(buffer) : buffer[i].transfer \in Nat
      /\ \A o \in given : o.transfer \in Nat
      /\ \A i \in 1..Len(buffer) : Key(buffer[i]) \in Nat /\ Key(buffer[i]) <= 2 * transfers + 1
      /\ \A o \in given : Key(o) \in Nat /\ Key(o) <= 2 * transfers + 1
      /\ transfers \in Nat /\ Len(buffer) \in Nat
  <2>1. transfers \in Nat
    BY DEF BusShape
  <2>2. \A i \in 1..Len(buffer) : buffer[i].transfer <= transfers
    BY DEF HappenedInv, HappenedOf
  <2>3. \A o \in given : o.transfer <= transfers
    BY DEF HappenedInv, HappenedOf
  <2>4. /\ Len(buffer) \in Nat /\ \A i \in 1..Len(buffer) : buffer[i].transfer \in Nat
        /\ \A o \in given : o.transfer \in Nat
    BY BufferIsTyped DEF BusInv
  <2>5. ASSUME NEW i \in 1..Len(buffer)
        PROVE  Key(buffer[i]) \in Nat /\ Key(buffer[i]) <= 2 * transfers + 1
    <3>1. buffer[i].transfer \in Nat /\ buffer[i].transfer <= transfers
      BY <2>2, <2>4
    <3>2. Key(buffer[i]) \in Nat /\ Key(buffer[i]) <= 2 * buffer[i].transfer + 1
      BY <3>1, KeyOf
    <3> QED
      BY <2>1, <3>1, <3>2
  <2>6. ASSUME NEW o \in given
        PROVE  Key(o) \in Nat /\ Key(o) <= 2 * transfers + 1
    <3>1. o.transfer \in Nat /\ o.transfer <= transfers
      BY <2>3, <2>4
    <3>2. Key(o) \in Nat /\ Key(o) <= 2 * o.transfer + 1
      BY <3>1, KeyOf
    <3> QED
      BY <2>1, <3>1, <3>2
  <2> QED
    BY <2>1, <2>4, <2>5, <2>6
<1>7. /\ \A v \in Urbs : flying'[v] = IF v = u THEN transfer ELSE flying[v]
      /\ transfer.number = transfers + 1 /\ transfer.address = to /\ transfer.endpoint = e
  BY <1>2, <1>21 DEF BusShape
<1>8. BusShape'
  <2>1. flying' = [v \in Urbs |-> flying'[v]]
    BY <1>2 DEF BusShape
  <2>2. \A v \in Urbs : flying'[v] # Absent =>
          /\ flying'[v].number \in Nat /\ flying'[v].number <= transfers'
          /\ flying'[v].address \in Nat /\ flying'[v].endpoint \in Endpoints
    BY <1>2, <1>3, <1>6, <1>7 DEF BusShape
  <2> QED
    BY <1>2, <1>4, <2>1, <2>2 DEF BusShape
<1>9. HappenedInv'
  <2>1. \A v, w \in Urbs : flying'[v] # Absent /\ flying'[w] # Absent
                             /\ flying'[v].number = flying'[w].number => v = w
    BY <1>6, <1>7 DEF BusShape, HappenedInv
  <2>2. ASSUME NEW f, f.transfer \in Nat, Key(f) \in Nat, Key(f) <= 2 * transfers + 1, HappenedOf(f)
        PROVE  HappenedOf(f)'
    BY <1>2, <1>6, <1>7, <2>2 DEF HappenedOf
  <2>3. HappenedOf(event)'
    BY <1>2, <1>5, <1>6, <1>7 DEF HappenedOf, BusShape
  <2>4. \A i \in 1..Len(buffer') : HappenedOf(buffer[i])'
    <3> SUFFICES ASSUME NEW i \in 1..Len(buffer') PROVE HappenedOf(buffer[i])'
      OBVIOUS
    <3>1. PICK f : f = buffer'[i]
      OBVIOUS
    <3>2. HappenedOf(f)'
      BY <1>4, <1>6, <2>2, <2>3, <3>1 DEF HappenedInv
    <3> QED
      BY <3>1, <3>2 DEF HappenedOf, Key
  <2>5. \A o \in given' : HappenedOf(o)'
    BY <1>2, <1>6, <2>2 DEF HappenedInv
  <2> QED
    BY <2>1, <2>4, <2>5 DEF HappenedInv
<1>10. IdentityInv'
  <2>1. /\ \A i \in 1..Len(buffer) : buffer[i].transfer <= transfers
        /\ \A o \in given : o.transfer <= transfers
    BY DEF HappenedInv, HappenedOf
  <2> QED
    <3>1. ASSUME NEW i \in 1..Len(buffer'), NEW o \in given, o.transfer = buffer'[i].transfer
          PROVE  o.urb = buffer'[i].urb
      <4>1. \/ i \in 1..Len(buffer) /\ buffer'[i] = buffer[i]
            \/ buffer'[i] = event
        BY <1>4
      <4>2. o.transfer # event.transfer
        BY <1>5, <1>6, <2>1
      <4> QED
        BY <3>1, <4>1, <4>2 DEF IdentityInv
    <3>2. ASSUME NEW i \in 1..Len(buffer'), NEW j \in 1..Len(buffer'),
                 buffer'[i].transfer = buffer'[j].transfer
          PROVE  buffer'[i].urb = buffer'[j].urb
      <4>1. \/ i \in 1..Len(buffer) /\ buffer'[i] = buffer[i]
            \/ buffer'[i] = event
        BY <1>4
      <4>2. \/ j \in 1..Len(buffer) /\ buffer'[j] = buffer[j]
            \/ buffer'[j] = event
        BY <1>4
      <4>3. \A k \in 1..Len(buffer) : buffer[k].transfer # event.transfer
        BY <1>5, <1>6, <2>1
      <4> QED
        BY <3>2, <4>1, <4>2, <4>3 DEF IdentityInv
    <3> QED
      BY <1>2, <3>1, <3>2 DEF IdentityInv
<1>11. OrderInv'
  <2>1. \A i \in 1..Len(buffer') :
          \/ /\ i \in 1..Len(buffer)
             /\ Key(buffer'[i]) = Key(buffer[i]) /\ buffer'[i].urb = buffer[i].urb
          \/ i = Len(buffer) + 1 /\ Key(buffer'[i]) = 2 * (transfers + 1)
    BY <1>4, <1>5
  <2> QED
    <3>1. ASSUME NEW i \in 1..Len(buffer'), NEW j \in 1..Len(buffer'), i < j,
                 buffer'[i].urb = buffer'[j].urb
          PROVE  Key(buffer'[i]) < Key(buffer'[j])
      <4>1. i \in 1..Len(buffer) /\ Key(buffer'[i]) = Key(buffer[i])
            /\ buffer'[i].urb = buffer[i].urb
        BY <1>4, <1>6, <2>1, <3>1
      <4>2. CASE j \in 1..Len(buffer) /\ Key(buffer'[j]) = Key(buffer[j])
                 /\ buffer'[j].urb = buffer[j].urb
        BY <3>1, <4>1, <4>2 DEF OrderInv
      <4>3. CASE Key(buffer'[j]) = 2 * (transfers + 1)
        BY <1>6, <4>1, <4>3
      <4> QED
        BY <2>1, <4>2, <4>3
    <3>2. ASSUME watching # Absent, NEW i \in 1..Len(buffer'), NEW o \in given,
                 o.capture = captured, o.urb = buffer'[i].urb
          PROVE  Key(o) < Key(buffer'[i])
      <4>1. CASE /\ i \in 1..Len(buffer) /\ Key(buffer'[i]) = Key(buffer[i])
                 /\ buffer'[i].urb = buffer[i].urb
        BY <3>2, <4>1 DEF OrderInv
      <4>2. CASE Key(buffer'[i]) = 2 * (transfers + 1)
        BY <1>6, <4>2
      <4> QED
        BY <2>1, <4>1, <4>2
    <3> QED
      BY <1>2, <3>1, <3>2 DEF OrderInv, Key
<1>12. WaitInv' /\ TransactionInv' /\ OnceInv'
  BY <1>2, AssemblerKept
<1> QED
  BY <1>8, <1>9, <1>10, <1>11, <1>12

LEMMA EndStep ==
  ASSUME BusInv, NEW u \in Urbs, Usb!End(u)
  PROVE  BusInv'
<1> USE DEF BusInv
<1>1. PICK type \in EndTypes, large \in BOOLEAN : Usb!Log(u, type, flying[u], large)
  BY Zenon DEF Usb!End
<1>2. PICK event :
        event = [urb |-> u, type |-> type, transfer |-> flying[u].number, time |-> ticks,
                 address |-> flying[u].address, endpoint |-> flying[u].endpoint, large |-> large]
  OBVIOUS
<1>3. /\ buffer' = IF watching # Absent /\ Len(buffer) < Room THEN Append(buffer, event) ELSE buffer
      /\ flying' = [flying EXCEPT ![u] = Absent] /\ flying[u] # Absent
      /\ UNCHANGED <<address, ticks, watching, submitted, noted, assembled, given, transfers,
                     captured>>
  BY <1>1, <1>2 DEF Usb!Log, Usb!End, Usb!assembler
<1>4. event \in Events
  BY <1>2, <1>3 DEF Events, BusShape
<1>5. /\ buffer' \in Seq(Events) /\ (watching = Absent => buffer' = <<>>) /\ Len(buffer') \in Nat
      /\ \A i \in 1..Len(buffer') :
              \/ i \in 1..Len(buffer) /\ buffer'[i] = buffer[i]
              \/ i = Len(buffer) + 1 /\ buffer'[i] = event
  BY <1>3, <1>4, Shown
<1>6. /\ event.transfer = flying[u].number /\ event.urb = u
      /\ Key(event) = 2 * flying[u].number + 1
  BY <1>2, EndsAreNoSubmissions DEF Key
<1>7. \A v \in Urbs : v # u => flying'[v] = flying[v]
  BY <1>3 DEF BusShape
<1>8. flying'[u] = Absent
  BY <1>3 DEF BusShape
<1>9. /\ \A i \in 1..Len(buffer) : Key(buffer[i]) \in Nat
      /\ \A o \in given : Key(o) \in Nat
      /\ flying[u].number \in Nat /\ flying[u].number <= transfers
      /\ transfers \in Nat /\ Len(buffer) \in Nat
  BY <1>3, BufferIsTyped, KeyOf DEF BusShape
<1>10. BusShape'
  <2>1. flying' = [v \in Urbs |-> flying'[v]]
    BY <1>3 DEF BusShape
  <2>2. \A v \in Urbs : flying'[v] # Absent =>
          /\ flying'[v].number \in Nat /\ flying'[v].number <= transfers'
          /\ flying'[v].address \in Nat /\ flying'[v].endpoint \in Endpoints
    BY <1>3, <1>7, <1>8 DEF BusShape
  <2> QED
    BY <1>3, <1>5, <2>1, <2>2 DEF BusShape
<1>11. HappenedInv'
  <2>1. \A v, w \in Urbs : flying'[v] # Absent /\ flying'[w] # Absent
                             /\ flying'[v].number = flying'[w].number => v = w
    BY <1>7, <1>8 DEF HappenedInv
  <2>2. ASSUME NEW f, HappenedOf(f)
        PROVE  HappenedOf(f)'
    BY <1>3, <1>7, <1>8, <2>2 DEF HappenedOf, Key
  <2>3. HappenedOf(event)'
    BY <1>3, <1>6, <1>7, <1>8, <1>9 DEF HappenedOf, HappenedInv
  <2>4. \A i \in 1..Len(buffer') : HappenedOf(buffer[i])'
    <3> SUFFICES ASSUME NEW i \in 1..Len(buffer') PROVE HappenedOf(buffer[i])'
      OBVIOUS
    <3>1. PICK f : f = buffer'[i]
      OBVIOUS
    <3>2. HappenedOf(f)'
      BY <1>5, <2>2, <2>3, <3>1 DEF HappenedInv
    <3> QED
      BY <3>1, <3>2 DEF HappenedOf, Key
  <2>5. \A o \in given' : HappenedOf(o)'
    BY <1>3, <2>2 DEF HappenedInv
  <2> QED
    BY <2>1, <2>4, <2>5 DEF HappenedInv
<1>12. /\ \A i \in 1..Len(buffer) :
            /\ buffer[i].transfer = flying[u].number => buffer[i].urb = u
            /\ buffer[i].urb = u => Key(buffer[i]) <= 2 * flying[u].number
       /\ \A o \in given :
            /\ o.transfer = flying[u].number => o.urb = u
            /\ o.urb = u => Key(o) <= 2 * flying[u].number
  BY <1>3 DEF HappenedInv, HappenedOf
<1>13. IdentityInv'
  BY <1>3, <1>5, <1>6, <1>9, <1>12 DEF IdentityInv
<1>14. OrderInv'
  <2>1. \A i, j \in 1..Len(buffer') :
          i < j /\ buffer'[i].urb = buffer'[j].urb => Key(buffer'[i]) < Key(buffer'[j])
    <3> SUFFICES ASSUME NEW i \in 1..Len(buffer'), NEW j \in 1..Len(buffer'), i < j,
                        buffer'[i].urb = buffer'[j].urb
                 PROVE  Key(buffer'[i]) < Key(buffer'[j])
      BY Zenon
    <3>1. i \in 1..Len(buffer) /\ buffer'[i] = buffer[i]
      BY <1>5, <1>9
    <3>2. j \in 1..Len(buffer) => buffer'[j] = buffer[j]
      BY <1>5, <1>9
    <3>3. j \notin 1..Len(buffer) => buffer'[j] = event
      BY <1>5
    <3>4. j \in 1..Len(buffer) => Key(buffer[i]) < Key(buffer[j])
      BY <3>1, <3>2 DEF OrderInv
    <3>5. j \notin 1..Len(buffer) => Key(buffer[i]) < Key(event)
      BY <1>6, <1>9, <1>12, <3>1, <3>3
    <3> QED
      BY <3>1, <3>2, <3>3, <3>4, <3>5
  <2>2. watching' # Absent =>
          \A i \in 1..Len(buffer'), o \in given' :
            o.capture = captured' /\ o.urb = buffer'[i].urb => Key(o) < Key(buffer'[i])
    <3> SUFFICES ASSUME watching # Absent, NEW i \in 1..Len(buffer'), NEW o \in given,
                        o.capture = captured, o.urb = buffer'[i].urb
                 PROVE  Key(o) < Key(buffer'[i])
      BY <1>3
    <3>1. i \in 1..Len(buffer) => buffer'[i] = buffer[i]
      BY <1>5, <1>9
    <3>2. i \notin 1..Len(buffer) => buffer'[i] = event
      BY <1>5
    <3>3. i \in 1..Len(buffer) => Key(o) < Key(buffer[i])
      BY <3>1 DEF OrderInv
    <3>4. i \notin 1..Len(buffer) => Key(o) < Key(event)
      BY <1>6, <1>9, <1>12, <3>2
    <3> QED
      BY <3>1, <3>2, <3>3, <3>4
  <2> QED
    BY <2>1, <2>2 DEF OrderInv, Key
<1>15. WaitInv' /\ TransactionInv' /\ OnceInv'
  BY <1>3, AssemblerKept
<1> QED
  BY <1>10, <1>11, <1>13, <1>14, <1>15

\* What is recorded of the bus and of the captures stays so while none of it changes.
LEMMA BusKept ==
  ASSUME BusShape, HappenedInv, IdentityInv, OrderInv,
         UNCHANGED <<flying, transfers, buffer, watching, captured, noted, given>>,
         address' \in Nat, ticks' \in Int, submitted' \subseteq given
  PROVE  BusShape' /\ HappenedInv' /\ IdentityInv' /\ OrderInv'
<1>1. BusShape'
  BY DEF BusShape
<1>2. HappenedInv'
  BY DEF HappenedInv, HappenedOf, Key
<1>3. IdentityInv'
  BY DEF IdentityInv
<1>4. OrderInv'
  BY DEF OrderInv, Key
<1> QED
  BY <1>1, <1>2, <1>3, <1>4

LEMMA DisturbStep ==
  ASSUME BusInv, Usb!Move \/ Usb!SetBack \/ UNCHANGED busVars
  PROVE  BusInv'
<1> USE DEF BusInv
<1>1. /\ UNCHANGED <<flying, transfers, buffer, watching, captured, noted, given, submitted,
                     assembled>>
      /\ address' = address + 1 \/ address' = address
      /\ ticks' = ticks - 1 \/ ticks' = ticks
  BY DEF Usb!Move, Usb!SetBack, Usb!Disturb, Usb!assembler, busVars
<1>2. address' \in Nat /\ ticks' \in Int /\ submitted' \subseteq given
  BY <1>1 DEF BusShape
<1>3. BusShape' /\ HappenedInv' /\ IdentityInv' /\ OrderInv'
  BY <1>1, <1>2, BusKept
<1>4. WaitInv' /\ TransactionInv' /\ OnceInv'
  BY <1>1, AssemblerKept
<1> QED
  BY <1>3, <1>4

\* A capture ends, and what was buffered is lost.
LEMMA EndsStep ==
  ASSUME BusInv, Usb!Ends,
         UNCHANGED <<address, flying, ticks, transfers, captured, submitted, noted, assembled,
                     given>>
  PROVE  BusInv'
<1> USE DEF BusInv
<1>1. watching' = Absent /\ buffer' = <<>> /\ Len(buffer') = 0
  BY DEF Usb!Ends
<1>2. BusShape'
  BY <1>1 DEF BusShape
<1>3. HappenedInv'
  BY <1>1 DEF HappenedInv, HappenedOf, Key
<1>4. IdentityInv'
  BY <1>1 DEF IdentityInv
<1>5. OrderInv'
  BY <1>1 DEF OrderInv
<1>6. WaitInv' /\ TransactionInv' /\ OnceInv'
  BY <1>1, AssemblerKept
<1> QED
  BY <1>2, <1>3, <1>4, <1>5, <1>6

\* A capture starts, of which nothing was given.
LEMMA StartStep ==
  ASSUME BusInv, Usb!Start
  PROVE  BusInv'
<1> USE DEF BusInv
<1>1. /\ watching' = [id |-> captured + 1, selection |-> address, sequence |-> 0]
      /\ captured' = captured + 1 /\ watching = Absent
      /\ UNCHANGED <<address, flying, ticks, transfers, buffer, submitted, noted, assembled, given>>
  BY DEF Usb!Start, Usb!bus, Usb!assembler
<1>2. /\ captured \in Nat /\ buffer = <<>> /\ Len(buffer) = 0
      /\ \A o \in given : o.capture # captured + 1
  BY <1>1 DEF BusShape, Observations
<1>3. BusShape'
  BY <1>1, <1>2 DEF BusShape, Observations
<1>4. HappenedInv' /\ IdentityInv' /\ OrderInv'
  <2>1. HappenedInv'
    BY <1>1 DEF HappenedInv, HappenedOf, Key
  <2>2. IdentityInv'
    BY <1>1 DEF IdentityInv
  <2>3. OrderInv'
    BY <1>1, <1>2 DEF OrderInv
  <2> QED
    BY <2>1, <2>2, <2>3
<1>5. WaitInv'
  BY <1>1, <1>2 DEF WaitInv, WaitsOf, Same, Key
<1>6. TransactionInv'
  BY <1>1, <1>2 DEF TransactionInv, TransactionOf, PairOf, Closed, Same, Usb!Unobserved
<1>7. OnceInv'
  BY <1>1 DEF OnceInv, OnceOf, Usb!Parts
<1> QED
  BY <1>3, <1>4, <1>5, <1>6, <1>7

\* A capture that runs has read nothing after this observation, which is not given yet.
Fresh(item) ==
  /\ item \in Observations /\ item \notin given
  /\ watching # Absent /\ item.capture = captured
  /\ \A o \in given : o.capture = captured /\ o.urb = item.urb => Key(o) < Key(item)
  /\ \A o \in given : o.transfer = item.transfer => o.urb = item.urb

LEMMA ObservationFields ==
  \A o \in Observations : o.transfer \in Nat /\ o.capture \in Nat /\ o.time \in Int /\ o # Absent
BY AbsentIsNothing DEF Observations

\* The end of what waits was not read.
LEMMA WaitingIsUnobserved ==
  ASSUME BusInv, NEW o \in submitted
  PROVE  o \in given /\ o.type = "submit" /\ Usb!Unobserved(o, Usb!Completions)
<1>1. o \in given /\ o.transfer \in Nat
  BY BufferIsTyped DEF BusInv, BusShape
<1>2. WaitsOf(o)
  BY Zenon DEF BusInv, WaitInv
<1>3. ASSUME NEW p \in given, p.capture = o.capture, p.transfer = o.transfer,
             p.type \in Usb!Completions
      PROVE  FALSE
  <2>1. p.urb = o.urb
    BY <1>1, <1>3 DEF BusInv, IdentityInv
  <2>2. p.type # "submit"
    BY <1>3 DEF Usb!Completions
  <2>3. Key(p) = 2 * p.transfer + 1 /\ Key(o) = 2 * o.transfer
    BY <1>1, <1>2, <1>3, <2>2, KeyOf DEF WaitsOf
  <2>4. Key(p) <= Key(o)
    BY <1>2, <1>3, <2>1 DEF WaitsOf, Same, Paired
  <2> QED
    BY <1>1, <1>3, <2>3, <2>4
<1> QED
  BY <1>1, <1>2, <1>3 DEF Usb!Unobserved, WaitsOf

\* It is not read later either, once something later of its identity was.
LEMMA NoLateEnd ==
  ASSUME BusInv, NEW item, Fresh(item), NEW o \in given, NEW q \in given, Same(q, o),
         o.transfer < q.transfer, item.capture = o.capture, item.transfer = o.transfer
  PROVE  FALSE
<1>1. o.transfer \in Nat /\ q.transfer \in Nat /\ item.transfer \in Nat
  BY BufferIsTyped, ObservationFields DEF BusInv, Fresh
<1>2. o.urb = item.urb
  BY DEF Fresh
<1>3. Key(q) < Key(item)
  BY <1>2 DEF Fresh, Same
<1>4. /\ 2 * q.transfer <= Key(q) /\ Key(item) <= 2 * item.transfer + 1
      /\ Key(q) \in Nat /\ Key(item) \in Nat
  BY <1>1, KeyOf
<1> QED
  BY <1>1, <1>3, <1>4

LEMMA NoLateSubmission ==
  ASSUME BusInv, NEW item, Fresh(item), NEW o \in given, o.type # "submit",
         item.capture = o.capture, item.transfer = o.transfer, item.type = "submit"
  PROVE  FALSE
<1>1. o.transfer \in Nat /\ item.transfer \in Nat
  BY BufferIsTyped, ObservationFields DEF BusInv, Fresh
<1>2. Key(o) < Key(item)
  BY DEF Fresh
<1>3. Key(o) = 2 * o.transfer + 1 /\ Key(item) = 2 * item.transfer
  BY <1>1, KeyOf
<1> QED
  BY <1>1, <1>2, <1>3

\* What was said of a transaction stays true when a capture reads on.
LEMMA TransactionsKept ==
  ASSUME BusInv, NEW item, Fresh(item), given' = given \cup {item}, captured' = captured,
         NEW t \in assembled
  PROVE  TransactionOf(t)'
<1>1. TransactionOf(t)
  BY Zenon DEF BusInv, TransactionInv
<1>2. /\ t.submit \in given' \cup {Absent} /\ t.completion \in given' \cup {Absent}
  BY <1>1 DEF TransactionOf
<1>3. ASSUME NEW o \in given, Closed(o) \/ \E q \in given : Same(q, o) /\ o.transfer < q.transfer,
             Usb!Unobserved(o, Usb!Completions)
      PROVE  Usb!Unobserved(o, Usb!Completions)'
  <2> SUFFICES ASSUME item.capture = o.capture, item.transfer = o.transfer PROVE FALSE
    BY <1>3 DEF Usb!Unobserved
  <2>1. PICK q \in given : Same(q, o) /\ o.transfer < q.transfer
    BY <1>3 DEF Closed, Fresh
  <2> QED
    BY <2>1, NoLateEnd
<1>4. ASSUME NEW o \in given, o.type # "submit", Usb!Unobserved(o, {"submit"})
      PROVE  Usb!Unobserved(o, {"submit"})'
  <2> SUFFICES ASSUME item.capture = o.capture, item.transfer = o.transfer, item.type = "submit"
               PROVE  FALSE
    BY <1>4 DEF Usb!Unobserved
  <2> QED
    BY <1>4, NoLateSubmission
<1>5. t.anomaly = Absent => PairOf(t)'
  <2> SUFFICES ASSUME t.anomaly = Absent PROVE PairOf(t)'
    OBVIOUS
  <2>1. PairOf(t)
    BY <1>1 DEF TransactionOf
  <2>2. Usb!Unobserved(t.submit, Usb!Completions) /\ t.submit.transfer < t.completion.transfer
          => Usb!Unobserved(t.submit, Usb!Completions)'
    BY <1>3, <2>1 DEF PairOf, Same
  <2>3. Usb!Unobserved(t.completion, {"submit"}) => Usb!Unobserved(t.completion, {"submit"})'
    BY <1>4, <2>1 DEF PairOf
  <2> QED
    BY <2>1, <2>2, <2>3 DEF PairOf, Same
<1>6. t.anomaly = "missing_submit" =>
        /\ t.completion \in given' /\ t.completion.type # "submit"
        /\ Usb!Unobserved(t.completion, {"submit"})'
  BY <1>1, <1>4 DEF TransactionOf
<1>7. t.anomaly \in {"missing_completion", "reused_urb", "capture_boundary"} =>
        /\ t.submit \in given' /\ t.submit.type = "submit"
        /\ Usb!Unobserved(t.submit, Usb!Completions)' /\ Closed(t.submit)'
  <2> SUFFICES ASSUME t.anomaly \in {"missing_completion", "reused_urb", "capture_boundary"}
               PROVE  /\ t.submit \in given' /\ t.submit.type = "submit"
                      /\ Usb!Unobserved(t.submit, Usb!Completions)' /\ Closed(t.submit)'
    OBVIOUS
  <2>1. /\ t.submit \in given /\ t.submit.type = "submit"
        /\ Usb!Unobserved(t.submit, Usb!Completions) /\ Closed(t.submit)
    BY <1>1 DEF TransactionOf
  <2>2. Closed(t.submit)'
    BY <2>1 DEF Closed, Same, Fresh
  <2> QED
    BY <1>3, <2>1, <2>2
<1> QED
  BY <1>2, <1>5, <1>6, <1>7 DEF TransactionOf

\* What waits no more, and what is given but does not wait, is in one of the new transactions.
LEMMA OnceKept ==
  ASSUME OnceInv, \A t \in assembled : Usb!Parts(t) \subseteq given,
         NEW new, NEW added, new \cap given = {}, submitted \subseteq given,
         given' = given \cup new, submitted' \subseteq submitted \cup new,
         assembled' = assembled \cup added,
         \A t \in added : Usb!Parts(t) \subseteq (submitted \cup new) \ submitted',
         \A o \in (submitted \cup new) \ submitted' :
           \E s \in added : \A t \in added : o \in Usb!Parts(t) <=> t = s
  PROVE  OnceInv'
<1> SUFFICES ASSUME NEW o \in given' PROVE OnceOf(o)'
  BY DEF OnceInv
<1>1. o \in submitted' => \A t \in assembled' : o \notin Usb!Parts(t)
  BY DEF OnceInv, OnceOf
<1>2. o \notin submitted' /\ o \in submitted \cup new =>
        \E s \in assembled' : \A t \in assembled' : o \in Usb!Parts(t) <=> t = s
  <2> SUFFICES ASSUME o \notin submitted', o \in submitted \cup new
               PROVE  \E s \in assembled' : \A t \in assembled' : o \in Usb!Parts(t) <=> t = s
    OBVIOUS
  <2>1. PICK s \in added : \A t \in added : o \in Usb!Parts(t) <=> t = s
    BY Zenon
  <2>2. \A t \in assembled : o \notin Usb!Parts(t)
    BY DEF OnceInv, OnceOf
  <2> QED
    BY <2>1, <2>2
<1>3. o \notin submitted \cup new =>
        \E s \in assembled' : \A t \in assembled' : o \in Usb!Parts(t) <=> t = s
  <2> SUFFICES ASSUME o \notin submitted \cup new
               PROVE  \E s \in assembled' : \A t \in assembled' : o \in Usb!Parts(t) <=> t = s
    OBVIOUS
  <2>1. PICK s \in assembled : \A t \in assembled : o \in Usb!Parts(t) <=> t = s
    BY DEF OnceInv, OnceOf
  <2>2. \A t \in added : o \notin Usb!Parts(t)
    BY Zenon
  <2> QED
    BY <2>1, <2>2
<1> QED
  BY <1>1, <1>2, <1>3 DEF OnceOf, Usb!Parts

LEMMA GivenUp ==
  ASSUME NEW o, NEW anomaly
  PROVE  Usb!Transaction(o, Absent, anomaly)
           = [submit |-> o, completion |-> Absent, anomaly |-> anomaly]
BY DEF Usb!Transaction

LEMMA PartsOf ==
  ASSUME NEW o, NEW p, NEW anomaly
  PROVE  Usb!Parts([submit |-> o, completion |-> p, anomaly |-> anomaly]) = {o, p} \ {Absent}
BY DEF Usb!Parts

LEMMA PartsAreGiven ==
  ASSUME BusInv
  PROVE  \A t \in assembled : Usb!Parts(t) \subseteq given
BY DEF BusInv, TransactionInv, TransactionOf, Usb!Parts

\* What still waits is given up when its capture has ended.
LEMMA BoundaryStep ==
  ASSUME BusInv, NEW items, items \subseteq submitted,
         NEW anomaly \in {"missing_completion", "capture_boundary"},
         Usb!Boundary(items, anomaly),
         \A o \in items : watching = Absent \/ o.capture # captured
  PROVE  BusInv'
<1> DEFINE added == {Usb!Transaction(o, Absent, anomaly) : o \in items}
<1>1. /\ submitted' = submitted \ items /\ assembled' = assembled \cup added
      /\ UNCHANGED <<address, flying, ticks, transfers, buffer, watching, captured, noted, given>>
  BY DEF Usb!Boundary, Usb!bus
<1>2. \A t \in added : \E o \in items :
         t = [submit |-> o, completion |-> Absent, anomaly |-> anomaly]
  BY Zenon, GivenUp
<1>3. \A o \in items : [submit |-> o, completion |-> Absent, anomaly |-> anomaly] \in added
  BY Zenon, GivenUp
<1>4. \A o \in items : /\ o \in given /\ o.type = "submit" /\ Usb!Unobserved(o, Usb!Completions)
                       /\ o # Absent
  BY WaitingIsUnobserved, ObservationFields DEF BusInv, BusShape
<1>5. anomaly # Absent
  BY AbsentIsNothing
<1> HIDE DEF added
<1>6. BusShape' /\ HappenedInv' /\ IdentityInv' /\ OrderInv'
  <2>1. address' \in Nat /\ ticks' \in Int /\ submitted' \subseteq given
    BY <1>1 DEF BusInv, BusShape
  <2> QED
    BY <1>1, <2>1, BusKept DEF BusInv
<1>7. WaitInv'
  <2>1. \A p \in submitted' : WaitsOf(p)'
    BY <1>1 DEF BusInv, WaitInv, WaitsOf, Same, Key
  <2>2. watching' # Absent =>
          \A p \in given' : p.type = "submit" /\ p.capture = captured' /\ p \notin submitted'
            => LeftOf(p)'
    BY <1>1 DEF BusInv, WaitInv, LeftOf, Same, Key
  <2> QED
    BY <2>1, <2>2 DEF WaitInv
<1>8. TransactionInv'
  <2>1. ASSUME NEW t \in assembled PROVE TransactionOf(t)'
    BY <1>1 DEF BusInv, TransactionInv, TransactionOf, PairOf, Closed, Same, Usb!Unobserved
  <2>2. ASSUME NEW t \in added PROVE TransactionOf(t)'
    <3>1. PICK o \in items : t = [submit |-> o, completion |-> Absent, anomaly |-> anomaly]
      BY <1>2, <2>2
    <3>2. t.submit = o /\ t.completion = Absent /\ t.anomaly = anomaly
      BY <3>1
    <3>3. Closed(o)' /\ Usb!Unobserved(o, Usb!Completions)'
      BY <1>1, <1>4 DEF Closed, Usb!Unobserved
    <3>4. anomaly # "missing_submit" /\ anomaly # Absent
      BY <1>5
    <3> QED
      BY <1>1, <1>4, <3>2, <3>3, <3>4 DEF TransactionOf
  <2> QED
    BY <1>1, <2>1, <2>2 DEF TransactionInv
<1>9. OnceInv'
  <2>1. \A t \in added : Usb!Parts(t) \subseteq items
    BY <1>2, PartsOf
  <2>2. \A o \in items : \E s \in added : \A t \in added : o \in Usb!Parts(t) <=> t = s
    <3> SUFFICES ASSUME NEW o \in items
                 PROVE  \E s \in added : \A t \in added : o \in Usb!Parts(t) <=> t = s
      OBVIOUS
    <3>1. PICK s \in added : s = [submit |-> o, completion |-> Absent, anomaly |-> anomaly]
      BY <1>3
    <3>2. o \in Usb!Parts(s)
      BY <1>4, <3>1, PartsOf
    <3>3. \A t \in added : o \in Usb!Parts(t) => t = s
      BY <1>2, <3>1, PartsOf
    <3> QED
      BY Zenon, <3>2, <3>3
  <2>3. (submitted \cup {}) \ submitted' = items /\ submitted \subseteq given
    BY <1>1 DEF BusInv, BusShape
  <2>4. given' = given \cup {} /\ submitted' \subseteq submitted \cup {}
    BY <1>1
  <2>5. \A t \in added : Usb!Parts(t) \subseteq (submitted \cup {}) \ submitted'
    BY <2>1, <2>3
  <2>6. \A o \in (submitted \cup {}) \ submitted' :
          \E s \in added : \A t \in added : o \in Usb!Parts(t) <=> t = s
    BY <2>2, <2>3
  <2>7. OnceInv /\ {} \cap given = {} /\ assembled' = assembled \cup added
        /\ \A t \in assembled : Usb!Parts(t) \subseteq given
    BY <1>1, PartsAreGiven DEF BusInv
  <2> QED
    BY Zenon, <2>3, <2>4, <2>5, <2>6, <2>7, OnceKept
<1> QED
  BY <1>6, <1>7, <1>8, <1>9 DEF BusInv

Before(item) == {o \in submitted : Usb!Identity(o) = Usb!Identity(item)}

\* At most one submission waits for an end.
LEMMA BeforeOf ==
  ASSUME BusInv, NEW item, Fresh(item)
  PROVE  /\ \A o \in submitted : o \in Before(item) <=> Same(o, item)
         /\ \A o \in Before(item) : /\ o \in given /\ o.type = "submit" /\ o # Absent
                                    /\ o.transfer \in Nat /\ o.time \in Int
                                    /\ Key(o) = 2 * o.transfer /\ Key(o) < Key(item)
                                    /\ Usb!Unobserved(o, Usb!Completions)
         /\ \A o, p \in Before(item) : o = p
         /\ Before(item) \subseteq submitted
<1>1. \A o \in submitted : o \in Before(item) <=> Same(o, item)
  BY DEF Before, Usb!Identity, Same
<1>2. Before(item) \subseteq submitted
  BY DEF Before
<1>3. ASSUME NEW o \in Before(item)
      PROVE  /\ o \in given /\ o.type = "submit" /\ o # Absent
             /\ o.transfer \in Nat /\ o.time \in Int
             /\ Key(o) = 2 * o.transfer /\ Key(o) < Key(item)
             /\ Usb!Unobserved(o, Usb!Completions)
  <2>1. o \in given /\ o.type = "submit" /\ Usb!Unobserved(o, Usb!Completions)
    BY <1>2, WaitingIsUnobserved
  <2>2. o \in Observations
    BY <2>1 DEF BusInv, BusShape
  <2>3. o # Absent /\ o.transfer \in Nat /\ o.time \in Int
    BY <2>2, ObservationFields
  <2>4. Same(o, item)
    BY <1>1, <1>2
  <2>5. Key(o) < Key(item)
    BY <2>1, <2>4 DEF Fresh, Same
  <2> QED
    BY <2>1, <2>3, <2>5, KeyOf
<1>4. ASSUME NEW o \in Before(item), NEW p \in Before(item) PROVE o = p
  BY <1>1, <1>2 DEF BusInv, WaitInv, WaitsOf, Same
<1> QED
  BY <1>1, <1>2, <1>3, <1>4

LEMMA WaitSubmitted ==
  ASSUME BusInv, NEW item, Fresh(item), item.type = "submit", given' = given \cup {item},
         captured' = captured, submitted' = (submitted \ Before(item)) \cup {item}
  PROVE  WaitInv'
<1>1. ASSUME NEW p \in submitted'
      PROVE  WaitsOf(p)'
  <2>1. p = item =>
          /\ \A o \in given' : Same(o, p) /\ o.type \in Paired => Key(o) <= Key(p)
          /\ \A o \in submitted' : Same(o, p) => o = p
    <3>1. \A o \in given : Same(o, item) => Key(o) < Key(item)
      BY DEF Fresh, Same
    <3>2. \A o \in given' : Key(o) \in Nat
      BY BufferIsTyped, KeyOf, ObservationFields DEF BusInv, Fresh
    <3>3. Key(item) \in Nat
      BY <3>2
    <3>4. \A o \in submitted' : Same(o, item) => o = item
      BY BeforeOf
    <3> QED
      BY <3>1, <3>2, <3>3, <3>4
  <2>2. p # item =>
          /\ p.type = "submit"
          /\ \A o \in given' : Same(o, p) /\ o.type \in Paired => Key(o) <= Key(p)
          /\ \A o \in submitted' : Same(o, p) => o = p
    <3> SUFFICES ASSUME p # item
                 PROVE  /\ p.type = "submit"
                        /\ \A o \in given' : Same(o, p) /\ o.type \in Paired => Key(o) <= Key(p)
                        /\ \A o \in submitted' : Same(o, p) => o = p
      OBVIOUS
    <3>1. p \in submitted /\ ~Same(p, item) /\ ~Same(item, p)
      BY BeforeOf DEF Same
    <3>2. WaitsOf(p)
      BY <3>1 DEF BusInv, WaitInv
    <3> QED
      BY <3>1, <3>2 DEF WaitsOf
  <2> QED
    BY <2>1, <2>2 DEF WaitsOf, Same, Key
<1>2. ASSUME NEW p \in given', p.type = "submit", p.capture = captured, p \notin submitted'
      PROVE  \E q \in given' : Same(q, p) /\ Key(p) < Key(q)
  <2>1. p \in given
    BY <1>2
  <2>2. p \in Before(item) => Same(item, p) /\ Key(p) < Key(item)
    BY BeforeOf DEF Same
  <2>3. p \notin submitted => LeftOf(p)
    BY <1>2, <2>1 DEF BusInv, WaitInv, Fresh
  <2> QED
    BY <1>2, <2>1, <2>2, <2>3 DEF LeftOf
<1> QED
  BY <1>1, <1>2 DEF WaitInv, LeftOf, Same, Key

LEMMA WaitEnded ==
  ASSUME BusInv, NEW item, Fresh(item), item.type # "submit", given' = given \cup {item},
         captured' = captured,
         \/ submitted' = submitted \ Before(item)
         \/ item.type \notin Usb!Completions /\ submitted' = submitted
  PROVE  WaitInv'
<1>1. ASSUME NEW p \in submitted'
      PROVE  WaitsOf(p)'
  <2>1. p \in submitted /\ WaitsOf(p)
    BY DEF BusInv, WaitInv
  <2>2. ~(Same(item, p) /\ item.type \in Paired)
    BY <2>1, BeforeOf DEF Same, Paired
  <2>3. /\ p.type = "submit"
        /\ \A o \in given' : Same(o, p) /\ o.type \in Paired => Key(o) <= Key(p)
        /\ \A o \in submitted' : Same(o, p) => o = p
    BY <2>1, <2>2 DEF WaitsOf
  <2> QED
    BY <2>3 DEF WaitsOf, Same, Key
<1>2. ASSUME NEW p \in given', p.type = "submit", p.capture = captured, p \notin submitted'
      PROVE  \E q \in given' : Same(q, p) /\ Key(p) < Key(q)
  <2>1. p \in given
    BY <1>2
  <2>2. p \in Before(item) => Same(item, p) /\ Key(p) < Key(item)
    BY BeforeOf DEF Same
  <2>3. p \notin submitted => LeftOf(p)
    BY <1>2, <2>1 DEF BusInv, WaitInv, Fresh
  <2> QED
    BY <1>2, <2>1, <2>2, <2>3 DEF LeftOf
<1> QED
  BY <1>1, <1>2 DEF WaitInv, LeftOf, Same, Key

\* The end that was read of a transfer whose submission was not, or of a later one than waits.
LEMMA EndWithoutSubmission ==
  ASSUME BusInv, NEW item, Fresh(item), item.type # "submit", given' = given \cup {item},
         \/ Before(item) = {}
         \/ \E s \in Before(item) : s.transfer < item.transfer
  PROVE  Usb!Unobserved(item, {"submit"})'
<1> SUFFICES ASSUME NEW p \in given, p.capture = item.capture, p.transfer = item.transfer,
                    p.type = "submit"
             PROVE  FALSE
  BY DEF Usb!Unobserved
<1>1. p.transfer \in Nat /\ item.transfer \in Nat /\ p.urb = item.urb
  BY BufferIsTyped, ObservationFields DEF BusInv, Fresh
<1>2. Key(p) = 2 * p.transfer /\ Key(item) = 2 * item.transfer + 1
  BY <1>1, KeyOf
<1>3. ASSUME Before(item) = {} PROVE FALSE
  <2>1. p \notin submitted /\ p.capture = captured
    BY <1>1, <1>3, BeforeOf DEF Same, Fresh
  <2>2. PICK q \in given : Same(q, p) /\ Key(p) < Key(q)
    BY <2>1 DEF BusInv, WaitInv, LeftOf, Fresh
  <2>3. Key(q) < Key(item) /\ Key(q) \in Nat
    BY <1>1, <2>1, <2>2, BufferIsTyped, KeyOf DEF Fresh, Same, BusInv
  <2> QED
    BY <1>1, <1>2, <2>2, <2>3
<1>4. ASSUME NEW s \in Before(item), s.transfer < item.transfer PROVE FALSE
  <2>1. Same(p, s) /\ s \in submitted /\ Key(s) = 2 * s.transfer /\ s.transfer \in Nat
    BY <1>1, BeforeOf DEF Same
  <2>2. Key(p) <= Key(s)
    BY <2>1 DEF BusInv, WaitInv, WaitsOf, Paired
  <2> QED
    BY <1>1, <1>2, <1>4, <2>1, <2>2
<1> QED
  BY <1>3, <1>4

\* A submission is given: those that wait of its identity are given up.
LEMMA AddSubmission ==
  ASSUME BusInv, NEW item, Fresh(item), item.type = "submit", given' = given \cup {item},
         captured' = captured, submitted' = (submitted \ Before(item)) \cup {item},
         assembled' = assembled
           \cup {Usb!Transaction(o, Absent, "reused_urb") : o \in Before(item)}
  PROVE  WaitInv' /\ TransactionInv' /\ OnceInv'
<1> DEFINE added == {Usb!Transaction(o, Absent, "reused_urb") : o \in Before(item)}
<1>1. \A t \in added : \E o \in Before(item) :
         t = [submit |-> o, completion |-> Absent, anomaly |-> "reused_urb"]
  BY Zenon, GivenUp
<1>2. \A o \in Before(item) :
         [submit |-> o, completion |-> Absent, anomaly |-> "reused_urb"] \in added
  BY Zenon, GivenUp
<1>3. assembled' = assembled \cup added
  OBVIOUS
<1> HIDE DEF added
<1>4. TransactionInv'
  <2>1. ASSUME NEW t \in added PROVE TransactionOf(t)'
    <3>1. PICK o \in Before(item) :
            t = [submit |-> o, completion |-> Absent, anomaly |-> "reused_urb"]
      BY <1>1, <2>1
    <3>2. t.submit = o /\ t.completion = Absent /\ t.anomaly = "reused_urb"
      BY <3>1
    <3>3. /\ o \in given /\ o.type = "submit" /\ Same(item, o) /\ Key(o) < Key(item)
          /\ Usb!Unobserved(o, Usb!Completions) /\ Key(o) = 2 * o.transfer /\ o.transfer \in Nat
      BY BeforeOf DEF Same
    <3>4. Usb!Unobserved(o, Usb!Completions)'
      BY <3>3 DEF Usb!Unobserved, Usb!Completions
    <3>5. o.transfer < item.transfer
      <4>1. item.transfer \in Nat
        BY ObservationFields DEF Fresh
      <4> QED
        BY <3>3, <4>1, KeyOf
    <3>6. Closed(o)'
      BY <3>3, <3>5 DEF Closed, Same
    <3>7. "reused_urb" # Absent
      BY AbsentIsNothing
    <3> QED
      BY <3>2, <3>3, <3>4, <3>6, <3>7 DEF TransactionOf
  <2>2. \A t \in assembled : TransactionOf(t)'
    BY TransactionsKept
  <2> QED
    BY <1>3, <2>1, <2>2 DEF TransactionInv
<1>5. OnceInv'
  <2>1. \A t \in added : Usb!Parts(t) \subseteq Before(item)
    BY <1>1, PartsOf
  <2>2. \A o \in Before(item) : \E s \in added : \A t \in added : o \in Usb!Parts(t) <=> t = s
    <3> SUFFICES ASSUME NEW o \in Before(item)
                 PROVE  \E s \in added : \A t \in added : o \in Usb!Parts(t) <=> t = s
      OBVIOUS
    <3>1. PICK s \in added : s = [submit |-> o, completion |-> Absent, anomaly |-> "reused_urb"]
      BY <1>2
    <3>2. o \in Usb!Parts(s)
      BY <3>1, PartsOf, BeforeOf
    <3>3. \A t \in added : o \in Usb!Parts(t) => t = s
      BY <1>1, <3>1, PartsOf
    <3> QED
      BY Zenon, <3>2, <3>3
  <2>3. item \notin given /\ submitted \subseteq given /\ Before(item) \subseteq submitted
    BY BeforeOf DEF BusInv, BusShape, Fresh
  <2>4. (submitted \cup {item}) \ submitted' = Before(item)
    BY <2>3
  <2>5. \A t \in added : Usb!Parts(t) \subseteq (submitted \cup {item}) \ submitted'
    BY <2>1, <2>4
  <2>6. \A o \in (submitted \cup {item}) \ submitted' :
          \E s \in added : \A t \in added : o \in Usb!Parts(t) <=> t = s
    BY <2>2, <2>4
  <2>7. /\ OnceInv /\ \A t \in assembled : Usb!Parts(t) \subseteq given
        /\ {item} \cap given = {} /\ submitted' \subseteq submitted \cup {item}
    BY <2>3, PartsAreGiven DEF BusInv
  <2> QED
    BY ZenonT(40), <1>3, <2>3, <2>5, <2>6, <2>7, OnceKept
<1>6. WaitInv'
  BY WaitSubmitted
<1> QED
  BY <1>4, <1>5, <1>6

\* One transaction is added, of an end and, perhaps, the submission that waited for it.
LEMMA AddOnce ==
  ASSUME BusInv, NEW item, Fresh(item), given' = given \cup {item}, captured' = captured,
         NEW s, NEW anomaly, assembled' = assembled \cup {Usb!Transaction(s, item, anomaly)},
         submitted' = submitted \ ({s} \ {Absent}), s = Absent \/ s \in submitted
  PROVE  OnceInv' /\ Usb!Transaction(s, item, anomaly).submit = s
                  /\ Usb!Transaction(s, item, anomaly).completion = item
<1>1. PICK t : t = Usb!Transaction(s, item, anomaly)
  OBVIOUS
<1>2. t.submit = s /\ t.completion = item
  BY <1>1 DEF Usb!Transaction
<1>3. item # Absent /\ item \notin given /\ submitted \subseteq given
  BY ObservationFields DEF Fresh, BusInv, BusShape
<1>4. Usb!Parts(t) = ({s} \ {Absent}) \cup {item}
  BY <1>2, <1>3 DEF Usb!Parts
<1>5. (submitted \cup {item}) \ submitted' = ({s} \ {Absent}) \cup {item}
  BY <1>3
<1>11. PICK added : added = {t}
  OBVIOUS
<1>6. \A r \in added : Usb!Parts(r) \subseteq (submitted \cup {item}) \ submitted'
  BY <1>4, <1>5, <1>11
<1>7. \A o \in (submitted \cup {item}) \ submitted' :
        \E r \in added : \A q \in added : o \in Usb!Parts(q) <=> q = r
  BY <1>4, <1>5, <1>11
<1>8. /\ OnceInv /\ \A r \in assembled : Usb!Parts(r) \subseteq given
      /\ {item} \cap given = {} /\ submitted' \subseteq submitted \cup {item}
      /\ assembled' = assembled \cup added
  BY <1>1, <1>3, <1>11, PartsAreGiven DEF BusInv
<1>9. OnceInv'
  <2>1. PICK new : new = {item}
    OBVIOUS
  <2>2. \A r \in added : Usb!Parts(r) \subseteq (submitted \cup new) \ submitted'
    BY <1>6, <2>1
  <2>3. \A o \in (submitted \cup new) \ submitted' :
          \E r \in added : \A q \in added : o \in Usb!Parts(q) <=> q = r
    BY <1>7, <2>1
  <2>4. new \cap given = {} /\ given' = given \cup new /\ submitted' \subseteq submitted \cup new
    BY <1>8, <2>1
  <2> QED
    BY SMTT(30), <1>3, <1>8, <2>2, <2>3, <2>4, OnceKept
<1> QED
  BY <1>1, <1>2, <1>9

\* An end is given that no submission waits for, or that is of none.
LEMMA AddUnpaired ==
  ASSUME BusInv, NEW item, Fresh(item), item.type # "submit", given' = given \cup {item},
         captured' = captured, submitted' = submitted,
         NEW anomaly,
         \/ anomaly = "event_mismatch"
         \/ anomaly = "missing_submit" /\ Before(item) = {},
         item.type \notin Usb!Completions \/ Before(item) = {},
         assembled' = assembled \cup {Usb!Transaction(Absent, item, anomaly)}
  PROVE  WaitInv' /\ TransactionInv' /\ OnceInv'
<1>1. WaitInv'
  <2>1. Before(item) = {} => submitted' = submitted \ Before(item)
    OBVIOUS
  <2> QED
    BY <2>1, WaitEnded
<1>2. PICK t : t = Usb!Transaction(Absent, item, anomaly)
  OBVIOUS
<1>3. t.submit = Absent /\ t.completion = item /\ t.anomaly = anomaly
  BY <1>2 DEF Usb!Transaction
<1>4. OnceInv'
  <2>1. submitted' = submitted \ ({Absent} \ {Absent})
    OBVIOUS
  <2> QED
    BY <2>1, AddOnce
<1>5. TransactionOf(t)'
  <2>1. anomaly # Absent
    BY AbsentIsNothing
  <2>2. anomaly = "missing_submit" => Usb!Unobserved(item, {"submit"})'
    BY EndWithoutSubmission
  <2> QED
    BY <1>3, <2>1, <2>2 DEF TransactionOf
<1>6. TransactionInv'
  BY <1>2, <1>5, TransactionsKept DEF TransactionInv
<1> QED
  BY <1>1, <1>4, <1>6

\* An end is given for which a submission waits.
LEMMA AddPaired ==
  ASSUME BusInv, NEW item, Fresh(item), item.type # "submit", given' = given \cup {item},
         captured' = captured, submitted' = submitted \ Before(item),
         NEW s \in Before(item), NEW anomaly,
         anomaly = IF Usb!Mismatch(s, item) THEN "event_mismatch" ELSE Absent,
         assembled' = assembled \cup {Usb!Transaction(s, item, anomaly)}
  PROVE  WaitInv' /\ TransactionInv' /\ OnceInv'
<1>1. WaitInv'
  BY WaitEnded
<1>2. /\ s \in submitted /\ s \in given /\ s.type = "submit" /\ s # Absent /\ Same(s, item)
      /\ s.transfer \in Nat /\ s.time \in Int /\ Key(s) = 2 * s.transfer /\ Key(s) < Key(item)
      /\ Usb!Unobserved(s, Usb!Completions) /\ Before(item) = {s}
  BY BeforeOf
<1>3. item # Absent /\ item.transfer \in Nat /\ item.time \in Int
  BY ObservationFields DEF Fresh
<1>4. OnceInv' /\ Usb!Transaction(s, item, anomaly).submit = s
               /\ Usb!Transaction(s, item, anomaly).completion = item
  <2>1. submitted' = submitted \ ({s} \ {Absent})
    BY <1>2
  <2> QED
    BY <1>2, <2>1, AddOnce
<1>5. PICK t : t = Usb!Transaction(s, item, anomaly)
  OBVIOUS
<1>6. t.submit = s /\ t.completion = item
  BY <1>4, <1>5
<1>7. /\ t.anomaly \in {"event_mismatch", Absent}
      /\ t.anomaly = Absent => ~Usb!Mismatch(s, item) /\ ~(item.time < s.time)
  BY <1>2, <1>3, <1>5, AbsentIsNothing DEF Usb!Transaction
<1>8. t.anomaly = Absent => PairOf(t)'
  <2> SUFFICES ASSUME t.anomaly = Absent PROVE PairOf(t)'
    OBVIOUS
  <2>1. s.endpoint = item.endpoint /\ s.time <= item.time
    BY <1>2, <1>3, <1>7 DEF Usb!Mismatch
  <2>2. s.transfer <= item.transfer
    BY <1>2, <1>3, KeyOf
  <2>3. s.transfer # item.transfer =>
          /\ s.transfer < item.transfer
          /\ Usb!Unobserved(s, Usb!Completions)' /\ Usb!Unobserved(item, {"submit"})'
    <3> SUFFICES ASSUME s.transfer # item.transfer
                 PROVE  /\ s.transfer < item.transfer
                        /\ Usb!Unobserved(s, Usb!Completions)'
                        /\ Usb!Unobserved(item, {"submit"})'
      OBVIOUS
    <3>1. s.transfer < item.transfer
      BY <1>2, <1>3, <2>2
    <3>2. Usb!Unobserved(s, Usb!Completions)'
      BY <1>2 DEF Usb!Unobserved
    <3>3. Usb!Unobserved(item, {"submit"})'
      BY <3>1, EndWithoutSubmission
    <3> QED
      BY <3>1, <3>2, <3>3
  <2> QED
    BY <1>2, <1>6, <2>1, <2>3 DEF PairOf
<1>9. TransactionOf(t)'
  BY <1>2, <1>6, <1>7, <1>8, AbsentIsNothing DEF TransactionOf
<1>10. TransactionInv'
  BY <1>5, <1>9, TransactionsKept DEF TransactionInv
<1> QED
  BY <1>1, <1>4, <1>10

LEMMA AddStep ==
  ASSUME BusInv, NEW item, Fresh(item), Usb!Add(item), captured' = captured
  PROVE  noted' = noted \cup {item} /\ given' = given \cup {item}
         /\ submitted' \subseteq submitted \cup {item}
         /\ WaitInv' /\ TransactionInv' /\ OnceInv'
<1> DEFINE before == {o \in submitted : Usb!Identity(o) = Usb!Identity(item)}
           submit == IF before = {} THEN Absent ELSE CHOOSE o \in before : TRUE
           wrong  == IF before = {} THEN "missing_submit"
                     ELSE IF Usb!Mismatch(submit, item) THEN "event_mismatch" ELSE Absent
<1>1. before = Before(item)
  BY DEF Before
<1>2. /\ noted' = noted \cup {item} /\ given' = given \cup {item}
      /\ \/ item \in noted
         \/ /\ item.type = "submit"
            /\ submitted' = (submitted \ before) \cup {item}
            /\ assembled' = assembled
                 \cup {Usb!Transaction(o, Absent, "reused_urb") : o \in before}
         \/ /\ item.type \in Usb!Completions /\ submitted' = submitted \ before
            /\ assembled' = assembled \cup {Usb!Transaction(submit, item, wrong)}
         \/ /\ item.type \notin Usb!Completions \cup {"submit"} /\ submitted' = submitted
            /\ assembled' = assembled \cup {Usb!Transaction(Absent, item, "event_mismatch")}
  BY Zenon DEF Usb!Add
<1>3. item \notin noted
  BY DEF Fresh, BusInv, BusShape
<1>4. ASSUME item.type = "submit", submitted' = (submitted \ before) \cup {item},
             assembled' = assembled
                 \cup {Usb!Transaction(o, Absent, "reused_urb") : o \in before}
      PROVE  WaitInv' /\ TransactionInv' /\ OnceInv'
  BY Zenon, <1>1, <1>2, <1>4, AddSubmission
<1>5. ASSUME item.type \in Usb!Completions, submitted' = submitted \ before,
             assembled' = assembled \cup {Usb!Transaction(submit, item, wrong)}
      PROVE  WaitInv' /\ TransactionInv' /\ OnceInv'
  <2>1. item.type # "submit"
    BY <1>5 DEF Usb!Completions
  <2>2. ASSUME before = {} PROVE WaitInv' /\ TransactionInv' /\ OnceInv'
    <3>1. submit = Absent /\ wrong = "missing_submit" /\ submitted' = submitted
      BY <1>5, <2>2
    <3>2. assembled' = assembled \cup {Usb!Transaction(Absent, item, "missing_submit")}
      BY Zenon, <1>5, <3>1
    <3> HIDE DEF before, submit, wrong
    <3> QED
      BY <1>1, <1>2, <2>1, <2>2, <3>1, <3>2, AddUnpaired
  <2>3. ASSUME before # {} PROVE WaitInv' /\ TransactionInv' /\ OnceInv'
    <3>1. submit \in before
      BY <2>3
    <3>2. wrong = IF Usb!Mismatch(submit, item) THEN "event_mismatch" ELSE Absent
      BY Zenon, <2>3
    <3>3. PICK s, anomaly : s \in Before(item) /\ s = submit /\ anomaly = wrong
      BY <1>1, <3>1
    <3> HIDE DEF before, submit, wrong
    <3> QED
      BY <1>1, <1>2, <1>5, <2>1, <3>2, <3>3, AddPaired
  <2> QED
    BY <2>2, <2>3
<1>6. ASSUME item.type \notin Usb!Completions \cup {"submit"}, submitted' = submitted,
             assembled' = assembled \cup {Usb!Transaction(Absent, item, "event_mismatch")}
      PROVE  WaitInv' /\ TransactionInv' /\ OnceInv'
  <2>1. PICK anomaly : anomaly = "event_mismatch"
    OBVIOUS
  <2>2. item.type # "submit" /\ item.type \notin Usb!Completions
    BY <1>6
  <2>3. assembled' = assembled \cup {Usb!Transaction(Absent, item, anomaly)}
    BY <1>6, <2>1
  <2> QED
    BY Zenon, <1>2, <1>6, <2>1, <2>2, <2>3, AddUnpaired
<1>7. submitted' \subseteq submitted \cup {item}
  BY <1>2, <1>3
<1> HIDE DEF before, submit, wrong
<1> QED
  BY Zenon, <1>2, <1>3, <1>4, <1>5, <1>6, <1>7

\* The observation of the first event of the buffer.
LEMMA ObservationOf ==
  ASSUME BusInv, watching # Absent, buffer # <<>>, NEW item,
         item = Usb!Observation(Head(buffer))
  PROVE  /\ 1 \in 1..Len(buffer) /\ Fresh(item)
         /\ item.urb = buffer[1].urb /\ item.type = buffer[1].type
         /\ item.transfer = buffer[1].transfer /\ Key(item) = Key(buffer[1])
<1>1. PICK event : event = Head(buffer)
  OBVIOUS
<1>2. 1 \in 1..Len(buffer) /\ event = buffer[1]
  BY <1>1 DEF BusInv, BusShape
<1>3. event \in Events
  BY <1>2, BufferIsTyped DEF BusInv
<1>4. watching.id \in Nat /\ watching.sequence \in Nat /\ watching.id = captured
  BY DEF BusInv, BusShape
<1>5. item = [urb |-> event.urb, type |-> event.type, transfer |-> event.transfer,
              time |-> event.time, address |-> event.address, endpoint |-> event.endpoint,
              large |-> event.large, capture |-> watching.id, sequence |-> watching.sequence]
  BY <1>1 DEF Usb!Observation
<1>6. item \in Observations
  BY <1>3, <1>4, <1>5 DEF Events, Observations
<1>7. item.urb = event.urb /\ item.type = event.type /\ item.transfer = event.transfer
      /\ item.capture = captured
  BY <1>4, <1>5
<1>8. Key(item) = Key(event)
  BY <1>7 DEF Key
<1>9. \A o \in given : o.capture = captured /\ o.urb = item.urb => Key(o) < Key(item)
  BY <1>2, <1>7, <1>8 DEF BusInv, OrderInv
<1>10. \A o \in given : o.transfer = item.transfer => o.urb = item.urb
  BY <1>2, <1>7 DEF BusInv, IdentityInv
<1>11. item \notin given
  <2>1. Key(item) \in Nat
    BY <1>6, ObservationFields, KeyOf
  <2>2. ~(Key(item) < Key(item))
    BY <2>1
  <2> QED
    BY <1>7, <1>9, <2>2
<1> QED
  BY <1>2, <1>6, <1>7, <1>8, <1>9, <1>10, <1>11 DEF Fresh

\* A capture reads on, and gives what it has read or skips it.
LEMMA ReadsOn ==
  ASSUME BusInv, watching # Absent, buffer # <<>>, buffer' = Tail(buffer),
         watching' = [watching EXCEPT !.sequence = @ + 1],
         NEW item, item = Usb!Observation(Head(buffer)),
         given' = given \/ given' = given \cup {item}, noted' = given', submitted' \subseteq given',
         UNCHANGED <<address, flying, ticks, transfers, captured>>
  PROVE  BusShape' /\ HappenedInv' /\ IdentityInv' /\ OrderInv' /\ watching' # Absent
<1>1. /\ 1 \in 1..Len(buffer) /\ Fresh(item)
      /\ item.urb = buffer[1].urb /\ item.type = buffer[1].type
      /\ item.transfer = buffer[1].transfer /\ Key(item) = Key(buffer[1])
  BY ObservationOf
<1>2. buffer \in Seq(Events) /\ Len(buffer) \in Nat
  BY DEF BusInv, BusShape
<1>3. /\ buffer' \in Seq(Events) /\ Len(buffer') = Len(buffer) - 1
      /\ \A i \in 1..Len(buffer') :
           i + 1 \in 1..Len(buffer) /\ i + 1 > 1 /\ buffer'[i] = buffer[i + 1]
  BY <1>1, <1>2
<1>4. watching' \in [id : Nat, selection : Nat, sequence : Nat] /\ watching'.id = captured
  BY DEF BusInv, BusShape
<1>5. watching' # Absent
  BY <1>4, AbsentIsNothing
<1>6. BusShape'
  <2>1. given' \subseteq Observations /\ \A o \in given' : o.capture <= captured
    BY <1>1, ObservationFields DEF Fresh, BusInv, BusShape
  <2> QED
    BY <1>3, <1>4, <1>5, <2>1 DEF BusInv, BusShape
<1>7. HappenedInv'
  <2>1. ASSUME NEW f, HappenedOf(f) PROVE HappenedOf(f)'
    BY <2>1 DEF HappenedOf, Key
  <2>2. HappenedOf(item)
    BY <1>1 DEF BusInv, HappenedInv, HappenedOf
  <2>3. \A i \in 1..Len(buffer') : HappenedOf(buffer[i])'
    <3> SUFFICES ASSUME NEW i \in 1..Len(buffer') PROVE HappenedOf(buffer[i])'
      OBVIOUS
    <3>1. PICK f : f = buffer'[i]
      OBVIOUS
    <3>2. f = buffer[i + 1] /\ i + 1 \in 1..Len(buffer)
      BY <1>3, <3>1
    <3>3. HappenedOf(buffer[i + 1])
      BY <3>2 DEF BusInv, HappenedInv
    <3>4. HappenedOf(f)'
      BY <2>1, <3>2, <3>3
    <3> QED
      BY <3>1, <3>4 DEF HappenedOf, Key
  <2>4. \A o \in given' : HappenedOf(o)'
    BY <2>1, <2>2 DEF BusInv, HappenedInv
  <2> QED
    BY <2>3, <2>4 DEF BusInv, HappenedInv
<1>8. IdentityInv'
  <2>1. \A i \in 1..Len(buffer'), o \in given' :
          o.transfer = buffer'[i].transfer => o.urb = buffer'[i].urb
    BY <1>1, <1>3 DEF BusInv, IdentityInv
  <2>2. \A i, j \in 1..Len(buffer') :
          buffer'[i].transfer = buffer'[j].transfer => buffer'[i].urb = buffer'[j].urb
    BY <1>3 DEF BusInv, IdentityInv
  <2>3. \A o, p \in given' : o.transfer = p.transfer => o.urb = p.urb
    BY <1>1 DEF BusInv, IdentityInv, Fresh
  <2> QED
    BY <2>1, <2>2, <2>3 DEF IdentityInv
<1>9. OrderInv'
  <2>1. \A i, j \in 1..Len(buffer') :
          i < j /\ buffer'[i].urb = buffer'[j].urb => Key(buffer'[i]) < Key(buffer'[j])
    <3> SUFFICES ASSUME NEW i \in 1..Len(buffer'), NEW j \in 1..Len(buffer'), i < j,
                        buffer'[i].urb = buffer'[j].urb
                 PROVE  Key(buffer'[i]) < Key(buffer'[j])
      BY Zenon
    <3>1. /\ buffer'[i] = buffer[i + 1] /\ i + 1 \in 1..Len(buffer)
          /\ buffer'[j] = buffer[j + 1] /\ j + 1 \in 1..Len(buffer) /\ i + 1 < j + 1
      BY <1>3
    <3> QED
      BY <3>1 DEF BusInv, OrderInv
  <2>2. \A i \in 1..Len(buffer'), o \in given' :
          o.capture = captured /\ o.urb = buffer'[i].urb => Key(o) < Key(buffer'[i])
    <3> SUFFICES ASSUME NEW i \in 1..Len(buffer'), NEW o \in given', o.capture = captured,
                        o.urb = buffer'[i].urb
                 PROVE  Key(o) < Key(buffer'[i])
      BY Zenon
    <3>1. buffer'[i] = buffer[i + 1] /\ i + 1 \in 1..Len(buffer) /\ 1 < i + 1
      BY <1>3
    <3>2. o \in given => Key(o) < Key(buffer[i + 1])
      BY <3>1 DEF BusInv, OrderInv
    <3>3. o = item => Key(o) < Key(buffer[i + 1])
      BY <1>1, <3>1 DEF BusInv, OrderInv
    <3> QED
      BY <3>1, <3>2, <3>3
  <2> QED
    BY <2>1, <2>2 DEF OrderInv, Key
<1> QED
  BY <1>5, <1>6, <1>7, <1>8, <1>9

LEMMA ReadStep ==
  ASSUME BusInv, Usb!Read
  PROVE  BusInv'
<1>1. PICK event, item : event = Head(buffer) /\ item = Usb!Observation(event)
  OBVIOUS
<1>2. /\ watching # Absent /\ buffer # <<>>
      /\ UNCHANGED <<address, flying, ticks, transfers, captured>>
      /\ \/ event.large /\ Usb!Ends /\ UNCHANGED Usb!assembler
         \/ /\ buffer' = Tail(buffer) /\ watching' = [watching EXCEPT !.sequence = @ + 1]
            /\ Usb!Add(item) \/ UNCHANGED Usb!assembler
  BY <1>1 DEF Usb!Read, Usb!bus
<1>3. ASSUME event.large, Usb!Ends, UNCHANGED Usb!assembler PROVE BusInv'
  BY <1>2, <1>3, EndsStep DEF Usb!assembler
<1>4. /\ Fresh(item) /\ item = Usb!Observation(Head(buffer))
      /\ noted = given /\ submitted \subseteq given
  BY <1>1, <1>2, ObservationOf DEF BusInv, BusShape
<1>5. ASSUME buffer' = Tail(buffer), watching' = [watching EXCEPT !.sequence = @ + 1],
             Usb!Add(item)
      PROVE  BusInv'
  <2>1. noted' = noted \cup {item} /\ given' = given \cup {item}
        /\ submitted' \subseteq submitted \cup {item} /\ WaitInv' /\ TransactionInv' /\ OnceInv'
    BY Zenon, <1>2, <1>4, <1>5, AddStep
  <2>2. noted' = given' /\ submitted' \subseteq given'
    BY <1>4, <2>1
  <2>3. BusShape' /\ HappenedInv' /\ IdentityInv' /\ OrderInv'
    BY Zenon, <1>2, <1>4, <1>5, <2>1, <2>2, ReadsOn
  <2> QED
    BY <2>1, <2>3 DEF BusInv
<1>6. ASSUME buffer' = Tail(buffer), watching' = [watching EXCEPT !.sequence = @ + 1],
             UNCHANGED Usb!assembler
      PROVE  BusInv'
  <2>1. given' = given /\ noted' = given' /\ submitted' \subseteq given'
        /\ submitted' = submitted /\ assembled' = assembled
    BY <1>4, <1>6 DEF Usb!assembler
  <2>2. BusShape' /\ HappenedInv' /\ IdentityInv' /\ OrderInv'
    BY Zenon, <1>2, <1>4, <1>6, <2>1, ReadsOn
  <2>3. WaitInv' /\ TransactionInv' /\ OnceInv'
    BY <1>2, <2>1, AssemblerKept DEF BusInv
  <2> QED
    BY <2>2, <2>3 DEF BusInv
<1> QED
  BY <1>2, <1>3, <1>5, <1>6

\* What was given is not assembled again.
LEMMA AgainStep ==
  ASSUME BusInv, Usb!Again
  PROVE  BusInv'
<1>1. PICK o \in given : Usb!Add(o)
  BY Zenon DEF Usb!Again
<1>2. o \in noted /\ noted = given
  BY DEF BusInv, BusShape
<1>3. /\ noted' = noted \cup {o} /\ given' = given \cup {o}
      /\ UNCHANGED <<submitted, assembled>> \/ o \notin noted
  BY Zenon, <1>1 DEF Usb!Add
<1>4. UNCHANGED busVars
  BY <1>2, <1>3 DEF Usb!Again, Usb!bus, busVars
<1> QED
  BY <1>4, DisturbStep

LEMMA BusNext == BusInv /\ [Usb!Next]_busVars => BusInv'
<1> SUFFICES ASSUME BusInv, [Usb!Next]_busVars PROVE BusInv'
  OBVIOUS
<1>1. ASSUME NEW u \in Urbs, Usb!Submit(u) \/ Usb!End(u) PROVE BusInv'
  BY <1>1, SubmitStep, EndStep
<1>2. ASSUME Usb!Stop PROVE BusInv'
  BY <1>2, EndsStep DEF Usb!Stop, Usb!bus, Usb!assembler
<1>3. ASSUME Usb!CaptureBoundary PROVE BusInv'
  <2>1. PICK c \in 1..captured :
          /\ watching = Absent \/ (watching # Absent /\ watching.id # c)
          /\ Usb!Boundary({o \in submitted : o.capture = c}, "capture_boundary")
    BY <1>3 DEF Usb!CaptureBoundary
  <2>2. PICK items, anomaly :
          items = {o \in submitted : o.capture = c} /\ anomaly = "capture_boundary"
    OBVIOUS
  <2>3. items \subseteq submitted /\ Usb!Boundary(items, anomaly)
    BY <2>1, <2>2
  <2>4. \A o \in items : watching = Absent \/ o.capture # captured
    BY <2>1, <2>2 DEF BusInv, BusShape
  <2> QED
    BY <2>2, <2>3, <2>4, BoundaryStep
<1>4. ASSUME Usb!Finish PROVE BusInv'
  <2>1. PICK anomaly : anomaly = "missing_completion"
    OBVIOUS
  <2>2. watching = Absent /\ Usb!Boundary(submitted, anomaly)
    BY <1>4, <2>1 DEF Usb!Finish
  <2> QED
    BY <2>1, <2>2, BoundaryStep
<1> QED
  BY <1>1, <1>2, <1>3, <1>4, DisturbStep, StartStep, ReadStep, AgainStep DEF Usb!Next

LEMMA BusCounts == \A S : Usb!Cardinality(S) = Cardinality(S)
BY Zenon DEF Usb!Cardinality, Cardinality

LEMMA BusInvImplies == BusInv => TransfersAreAccounted
<1> SUFFICES ASSUME BusInv PROVE TransfersAreAccounted
  OBVIOUS
<1>1. Usb!PairsAreTrue
  BY DEF BusInv, TransactionInv, TransactionOf, PairOf, Same, Usb!PairsAreTrue
<1>2. Usb!AnomaliesAreReal
  BY DEF BusInv, TransactionInv, TransactionOf, Usb!AnomaliesAreReal
<1>3. Usb!EachOnce
  <2> SUFFICES ASSUME NEW o \in given
               PROVE  Usb!Cardinality({t \in assembled : o \in Usb!Parts(t)})
                        + (IF o \in submitted THEN 1 ELSE 0) = 1
    BY Zenon DEF Usb!EachOnce
  <2>1. o \in submitted => {t \in assembled : o \in Usb!Parts(t)} = {}
    BY DEF BusInv, OnceInv, OnceOf
  <2>2. o \notin submitted => \E s : {t \in assembled : o \in Usb!Parts(t)} = {s}
    BY DEF BusInv, OnceInv, OnceOf
  <2>3. PICK sharing : sharing = {t \in assembled : o \in Usb!Parts(t)}
    OBVIOUS
  <2>4. Usb!Cardinality(sharing) = Cardinality(sharing)
    BY BusCounts
  <2>5. o \in submitted => Cardinality(sharing) = 0
    BY <2>1, <2>3, FS_EmptySet
  <2>6. o \notin submitted => Cardinality(sharing) = 1
    BY Zenon, <2>2, <2>3, FS_Singleton
  <2>7. Usb!Cardinality(sharing) + (IF o \in submitted THEN 1 ELSE 0) = 1
    BY <2>4, <2>5, <2>6
  <2> QED
    BY Zenon, <2>3, <2>7
<1> QED
  BY <1>1, <1>2, <1>3 DEF TransfersAreAccounted, Usb!TransfersAreAccounted

\* What a capture holds of the bus is accounted for, once, with no foreign end and nothing called
\* missing that is there, whatever the kernel's monitor drops.
THEOREM BusTransfersAreAccounted == Usb!Spec => []TransfersAreAccounted
<1>1. Usb!Init => BusInv
  BY BusInit
<1>2. BusInv /\ [Usb!Next]_Usb!vars => BusInv'
  BY BusNext DEF Usb!vars, busVars
<1>3. BusInv => TransfersAreAccounted
  BY BusInvImplies
<1> QED
  BY <1>1, <1>2, <1>3, PTL DEF Usb!Spec

-----------------------------------------------------------------------------------
(* What a passive reader makes of the reports                                      *)

Sent == [seq : Nat, of : Nat, channel : Channels, generation : Nat, time : Nat,
         tag : Tags \cup {Absent}, grammar : Talk!Grammars \cup {Absent}]
Responses == [time : Nat, of : Nat, generation : Nat]

TalkShape ==
  /\ clock \in Nat /\ generation \in Nat /\ ends = [n \in 1..MaxRequests |-> ends[n]]
  /\ sent \in Seq(Sent)
  /\ \A n \in 1..Len(sent) : sent[n].seq = n /\ sent[n].of = n /\ sent[n].time <= clock
  /\ known = Absent \/ known \in Int
  /\ pending # {} => reading = "dialogue"
  /\ bursts # {} => reading = "burst"

\* A request that waits is one that was sent and has not ended.
WaitingFor(request) ==
  /\ request.seq \in 1..Len(sent) /\ request = sent[request.seq]
  /\ request.seq \in DOMAIN ends => ends[request.seq] = 0

PendingInv ==
  /\ \A p \in pending : p = [request |-> p.request, busy |-> p.busy] /\ WaitingFor(p.request)
  /\ \A p, q \in pending : p.request.seq = q.request.seq => p = q

\* The responses of a burst are of its connection, in order and in time.
ResponsesOf(b) ==
  /\ b.responses \in Seq(Responses)
  /\ \A i \in 1..Len(b.responses) :
       /\ b.responses[i].generation = b.request.generation
       /\ b.request.time <= b.responses[i].time
       /\ b.responses[i].time < b.request.time + Deadline
  /\ \A i, j \in 1..Len(b.responses) : i < j => b.responses[i].time <= b.responses[j].time

BurstInv ==
  /\ \A b \in bursts :
       /\ b = [request |-> b.request, responses |-> b.responses]
       /\ WaitingFor(b.request) /\ ResponsesOf(b)
  /\ \A b, c \in bursts : b.request.seq = c.request.seq => b = c

EndsInv ==
  \A n \in DOMAIN ends : ends[n] \in {0, 1} /\ (n > Len(sent) => ends[n] = 0)

\* What a call returns.
ResultOf(r) ==
  /\ r.request # Absent /\ r.tag # Absent /\ Talk!Unique(r.of) => r.request = r.of
  /\ r.kind \in {"busy", "response"} /\ r.request # r.of => ~Talk!Waits(r.of)
  /\ r.kind = "state" => (r.accepted => r.generation = known)
  /\ "responses" \in DOMAIN r =>
       /\ DOMAIN r.responses = 1..Len(r.responses)
       /\ \A i, j \in DOMAIN r.responses :
            /\ r.responses[i].generation = sent[r.request].generation
            /\ r.responses[i].time \in sent[r.request].time..(sent[r.request].time + Deadline - 1)
            /\ i < j => r.responses[i].time <= r.responses[j].time

ResultInv == \A r \in result : ResultOf(r)

TalkInv == TalkShape /\ PendingInv /\ BurstInv /\ EndsInv /\ ResultInv

LEMMA OneIsFound ==
  ASSUME NEW S, Talk!Taken(S)
  PROVE  S # {} /\ \A x, y \in S : x = y
BY DEF Talk!Taken

LEMMA SentOf ==
  ASSUME TalkShape
  PROVE  /\ Len(sent) \in Nat /\ DOMAIN sent = 1..Len(sent)
         /\ \A n \in 1..Len(sent) :
              /\ sent[n] \in Sent /\ sent[n].time \in Nat /\ sent[n].generation \in Nat
              /\ sent[n].seq = n /\ sent[n].of = n
<1>1. Len(sent) \in Nat /\ DOMAIN sent = 1..Len(sent) /\ \A n \in 1..Len(sent) : sent[n] \in Sent
  BY DEF TalkShape
<1>2. \A r \in Sent : r.time \in Nat /\ r.generation \in Nat
  BY DEF Sent
<1> QED
  BY <1>1, <1>2 DEF TalkShape

LEMMA Grown ==
  ASSUME TalkShape, NEW item \in Sent, sent' = Append(sent, item)
  PROVE  /\ sent' \in Seq(Sent) /\ Len(sent') = Len(sent) + 1
         /\ \A n \in 1..Len(sent) : sent'[n] = sent[n]
         /\ sent'[Len(sent) + 1] = item /\ Len(sent) \in Nat
BY DEF TalkShape

\* What waits still does when a request is sent.
LEMMA StillWaits ==
  ASSUME TalkShape, NEW item \in Sent, sent' = Append(sent, item), ends' = ends,
         NEW request, WaitingFor(request)
  PROVE  WaitingFor(request)'
BY Grown DEF WaitingFor

\* Requests that wait have ended.
LEMMA EndsKept ==
  ASSUME TalkShape, EndsInv, NEW numbers, Talk!Ended(numbers),
         \A n \in numbers : n \in 1..Len(sent) /\ (n \in DOMAIN ends => ends[n] = 0),
         Len(sent') \in Nat, Len(sent) <= Len(sent')
  PROVE  /\ ends' = [n \in 1..MaxRequests |-> ends'[n]] /\ EndsInv'
         /\ DOMAIN ends' = DOMAIN ends
         /\ \A n \in DOMAIN ends : n \notin numbers => ends'[n] = ends[n]
<1>1. ends' = [n \in DOMAIN ends |-> ends[n] + (IF n \in numbers THEN 1 ELSE 0)]
  BY DEF Talk!Ended
<1>2. DOMAIN ends = 1..MaxRequests
  BY DEF TalkShape
<1>3. \A n \in DOMAIN ends : ends[n] \in {0, 1} /\ (n \notin numbers => ends'[n] = ends[n])
                             /\ (n \in numbers => ends'[n] = 1)
  BY <1>1 DEF EndsInv
<1>4. DOMAIN ends' = DOMAIN ends
  BY <1>1
<1>5. Len(sent) \in Nat /\ \A n \in DOMAIN ends : n \in Int
  BY <1>2, SentOf
<1>6. EndsInv'
  BY <1>3, <1>4, <1>5 DEF EndsInv
<1>7. ends' = [n \in 1..MaxRequests |-> ends'[n]]
  BY <1>1, <1>2
<1> QED
  BY <1>3, <1>4, <1>6, <1>7

\* What is said of a single report.
LEMMA EntrySound ==
  ASSUME NEW what, what # "state", NEW item, NEW request, NEW r,
         r = Talk!Entry(what, item, request),
         request # Absent /\ item.tag # Absent /\ Talk!Unique(item.of)' => request = item.of,
         what \in {"busy", "response"} /\ request # item.of => ~Talk!Waits(item.of)'
  PROVE  ResultOf(r)'
<1>1. r = [kind |-> what, of |-> item.of, tag |-> item.tag, request |-> request]
  BY DEF Talk!Entry
<1>2. r.kind = what /\ r.of = item.of /\ r.tag = item.tag /\ r.request = request
      /\ "responses" \notin DOMAIN r
  BY <1>1
<1>3. Talk!Unique(r.of)' <=> Talk!Unique(item.of)'
  BY <1>2
<1>4. Talk!Waits(r.of)' <=> Talk!Waits(item.of)'
  BY <1>2
<1> QED
  BY <1>2, <1>3, <1>4 DEF ResultOf

\* What is said of a burst.
LEMMA CompletedSound ==
  ASSUME TalkShape, NEW b, ResponsesOf(b),
         b.request.seq \in 1..Len(sent), b.request = sent[b.request.seq],
         b.request = sent'[b.request.seq], NEW reason, reason # "state", NEW r,
         r = Talk!Completed(b, reason)
  PROVE  ResultOf(r)'
<1>1. r = [kind |-> reason, of |-> b.request.seq, tag |-> b.request.tag,
           request |-> b.request.seq, responses |-> b.responses]
  BY DEF Talk!Completed
<1>2. /\ r.kind = reason /\ r.of = b.request.seq /\ r.request = b.request.seq
      /\ r.responses = b.responses
  BY <1>1
<1>3. sent'[r.request] = b.request /\ b.request.time \in Nat
  BY <1>2, SentOf
<1>4. /\ DOMAIN b.responses = 1..Len(b.responses)
      /\ \A i \in 1..Len(b.responses) : b.responses[i] \in Responses
  BY DEF ResponsesOf
<1>5. \A i \in 1..Len(b.responses) : b.responses[i].time \in Nat
  BY <1>4 DEF Responses
<1>6. ASSUME NEW i \in 1..Len(b.responses)
      PROVE  /\ b.responses[i].generation = b.request.generation
             /\ b.responses[i].time \in b.request.time..(b.request.time + Deadline - 1)
  BY <1>3, <1>5, DeadlineIsTime DEF ResponsesOf
<1>7. \A i, j \in 1..Len(b.responses) :
        i < j => b.responses[i].time <= b.responses[j].time
  BY DEF ResponsesOf
<1>8. /\ DOMAIN r.responses = 1..Len(r.responses)
      /\ \A i, j \in DOMAIN r.responses :
        /\ r.responses[i].generation = sent'[r.request].generation
        /\ r.responses[i].time \in sent'[r.request].time..(sent'[r.request].time + Deadline - 1)
        /\ i < j => r.responses[i].time <= r.responses[j].time
  BY <1>2, <1>3, <1>4, <1>6, <1>7
<1> QED
  BY <1>2, <1>8 DEF ResultOf

LEMMA TalkInit == Talk!Init => TalkInv
<1> SUFFICES ASSUME Talk!Init PROVE TalkInv
  OBVIOUS
<1> USE DEF Talk!Init
<1>1. TalkShape
  BY DEF TalkShape
<1>2. EndsInv
  BY DEF EndsInv
<1> QED
  BY <1>1, <1>2 DEF TalkInv, PendingInv, BurstInv, ResultInv

LEMMA ShapeKept ==
  ASSUME TalkShape, sent' \in Seq(Sent), clock <= clock', clock' \in Nat, generation' \in Nat,
         \A n \in 1..Len(sent') : sent'[n].seq = n /\ sent'[n].of = n /\ sent'[n].time <= clock',
         ends' = [n \in 1..MaxRequests |-> ends'[n]], known' = Absent \/ known' \in Int,
         pending' # {} => reading' = "dialogue", bursts' # {} => reading' = "burst"
  PROVE  TalkShape'
BY DEF TalkShape

\* A request that is sent.
SentNow(item) ==
  /\ item \in Sent /\ item.seq = Len(sent) + 1 /\ item.of = Len(sent) + 1 /\ item.time = clock
  /\ item.generation = generation

LEMMA SentKept ==
  ASSUME TalkShape, NEW item, SentNow(item), sent' = Append(sent, item), clock' = clock
  PROVE  /\ sent' \in Seq(Sent)
         /\ \A n \in 1..Len(sent') : sent'[n].seq = n /\ sent'[n].of = n /\ sent'[n].time <= clock'
         /\ Len(sent') = Len(sent) + 1 /\ Len(sent) \in Nat
<1>1. /\ sent' \in Seq(Sent) /\ Len(sent') = Len(sent) + 1
      /\ \A n \in 1..Len(sent) : sent'[n] = sent[n]
      /\ sent'[Len(sent) + 1] = item /\ Len(sent) \in Nat
  BY Grown DEF SentNow
<1>2. \A n \in 1..Len(sent) : sent[n].seq = n /\ sent[n].of = n /\ sent[n].time <= clock
  BY DEF TalkShape
<1>3. \A n \in 1..Len(sent') : n \in 1..Len(sent) \/ n = Len(sent) + 1
  BY <1>1
<1>4. item.time <= clock
  BY DEF SentNow, TalkShape
<1> QED
  BY <1>1, <1>2, <1>3, <1>4 DEF SentNow

LEMMA NewestOf ==
  ASSUME TalkShape, NEW g \in Int
  PROVE  Talk!Newest(g) \in Int
BY DEF Talk!Newest, TalkShape

\* A new request waits, and so do the others.
LEMMA SentWaits ==
  ASSUME TalkShape, EndsInv, NEW item, SentNow(item), sent' = Append(sent, item), ends' = ends
  PROVE  /\ WaitingFor(item)' /\ EndsInv' /\ ends' = [n \in 1..MaxRequests |-> ends'[n]]
<1>1. Len(sent') = Len(sent) + 1 /\ sent'[Len(sent) + 1] = item /\ Len(sent) \in Nat
  BY Grown DEF SentNow
<1>2. \A n \in DOMAIN ends : n \in Int
  BY DEF TalkShape
<1>3. EndsInv'
  BY <1>1, <1>2 DEF EndsInv
<1>4. WaitingFor(item)'
  BY <1>1, <1>2 DEF WaitingFor, EndsInv, SentNow
<1> QED
  BY <1>3, <1>4 DEF TalkShape

LEMMA PendingSent ==
  ASSUME TalkShape, PendingInv, NEW item, SentNow(item), sent' = Append(sent, item), ends' = ends,
         EndsInv,
         pending' = pending \/ pending' = pending \cup {[request |-> item, busy |-> FALSE]}
  PROVE  PendingInv'
<1>1. \A p \in pending : /\ p = [request |-> p.request, busy |-> p.busy]
                         /\ WaitingFor(p.request)' /\ p.request.seq \in 1..Len(sent)
  BY StillWaits DEF PendingInv, SentNow, WaitingFor
<1>2. WaitingFor(item)' /\ item.seq \notin 1..Len(sent)
  BY SentWaits, SentOf DEF SentNow
<1>3. PICK p : p = [request |-> item, busy |-> FALSE]
  OBVIOUS
<1>4. p.request = item /\ p = [request |-> p.request, busy |-> p.busy]
  BY <1>3
<1>5. pending' \subseteq pending \cup {p}
  BY <1>3
<1>6. \A q \in pending' : q = [request |-> q.request, busy |-> q.busy] /\ WaitingFor(q.request)'
  BY <1>1, <1>2, <1>4, <1>5
<1>7. \A q, r \in pending' : q.request.seq = r.request.seq => q = r
  BY <1>1, <1>2, <1>4, <1>5 DEF PendingInv
<1> QED
  BY <1>6, <1>7 DEF PendingInv, WaitingFor

\* A request that repeats another is not the only one with its tag.
LEMMA RepeatedTag ==
  ASSUME TalkShape, PendingInv, NEW item, SentNow(item), sent' = Append(sent, item),
         NEW p \in Talk!Candidates(item), item.tag # Absent
  PROVE  ~Talk!Unique(item.of)'
<1>1. p \in pending /\ p.request.tag = item.tag /\ p.request.generation = item.generation
  BY DEF Talk!Candidates, Talk!Compatible
<1>2. p.request.seq \in 1..Len(sent) /\ p.request = sent[p.request.seq]
  BY <1>1 DEF PendingInv, WaitingFor
<1>3. /\ sent'[p.request.seq] = p.request /\ sent'[item.of] = item
      /\ p.request.seq # item.of /\ p.request.seq \in DOMAIN sent'
  BY <1>2, Grown DEF SentNow
<1> QED
  BY <1>1, <1>3 DEF Talk!Unique

LEMMA AddOutStep ==
  ASSUME TalkInv, NEW item, SentNow(item), sent' = Append(sent, item), reading = "dialogue",
         Talk!AddOut(item) \/ Talk!Stale(item),
         UNCHANGED <<bursts, nudges, history, reading, clock, generation>>
  PROVE  TalkInv'
<1> USE DEF TalkInv
<1> DEFINE alike == Talk!Candidates(item)
           one   == Talk!Taken(alike)
           about == IF one THEN (CHOOSE p \in alike : TRUE).request.seq ELSE Absent
<1>1. ends' = ends
  BY DEF Talk!AddOut, Talk!Stale
<1>2. known' = known \/ known' = Talk!Newest(item.generation)
  BY DEF Talk!AddOut, Talk!Stale
<1>3. pending' = pending \/ pending' = pending \cup {[request |-> item, busy |-> FALSE]}
  BY DEF Talk!AddOut, Talk!Stale
<1>4. \/ result' = {Talk!Entry("poll", item, about)}
      \/ result' \subseteq {Talk!Entry("selector", item, Absent)}
      \/ result' = {Talk!Entry("stale", item, Absent)}
  BY DEF Talk!AddOut, Talk!Stale, Talk!Returns
<1>5. known' = Absent \/ known' \in Int
  BY <1>2, NewestOf DEF TalkShape, SentNow
<1>6. TalkShape'
  <2>1. /\ sent' \in Seq(Sent)
        /\ \A n \in 1..Len(sent') : sent'[n].seq = n /\ sent'[n].of = n /\ sent'[n].time <= clock'
    BY SentKept
  <2>2. clock' \in Nat /\ clock <= clock' /\ generation' \in Nat
        /\ (bursts' # {} => reading' = "burst")
    BY DEF TalkShape
  <2> QED
    BY <1>1, <1>5, <2>1, <2>2, ShapeKept, SentWaits
<1>7. PendingInv'
  BY <1>1, <1>3, PendingSent
<1>8. BurstInv'
  BY DEF BurstInv, TalkShape
<1>9. EndsInv'
  BY <1>1, SentWaits
<1>10. ResultInv'
  <2>1. about # Absent /\ item.tag # Absent => ~Talk!Unique(item.of)'
    <3> SUFFICES ASSUME about # Absent, item.tag # Absent PROVE ~Talk!Unique(item.of)'
      OBVIOUS
    <3>1. one
      OBVIOUS
    <3>2. alike # {}
      BY <3>1, OneIsFound
    <3> QED
      BY <3>2, RepeatedTag
  <2> HIDE DEF about
  <2>2. ASSUME NEW r \in result' PROVE ResultOf(r)'
    <3>1. PICK request : request = about
      OBVIOUS
    <3>2. \/ r = Talk!Entry("poll", item, request)
          \/ r = Talk!Entry("selector", item, Absent)
          \/ r = Talk!Entry("stale", item, Absent)
      BY <1>4, <2>2, <3>1
    <3> QED
      BY <2>1, <3>1, <3>2, EntrySound
  <2> QED
    BY <2>2 DEF ResultInv
<1> QED
  BY <1>6, <1>7, <1>8, <1>9, <1>10

\* The requests that were sent stay.
Grows ==
  /\ Len(sent') \in Nat /\ Len(sent) <= Len(sent')
  /\ \A n \in 1..Len(sent) : sent'[n] = sent[n]

LEMMA NothingSent ==
  ASSUME TalkShape, UNCHANGED sent
  PROVE  Grows
BY SentOf DEF Grows

LEMMA OneSent ==
  ASSUME TalkShape, NEW item, SentNow(item), sent' = Append(sent, item)
  PROVE  Grows
<1>1. Len(sent') = Len(sent) + 1 /\ Len(sent) \in Nat /\ \A n \in 1..Len(sent) : sent'[n] = sent[n]
  BY Grown DEF SentNow
<1> QED
  BY <1>1 DEF Grows

\* What is not reported as ended waits on.
LEMMA WaitsOn ==
  ASSUME TalkShape, EndsInv, Grows, NEW numbers, Talk!Ended(numbers),
         \A n \in numbers : n \in 1..Len(sent) /\ (n \in DOMAIN ends => ends[n] = 0)
  PROVE  \A request : WaitingFor(request) /\ request.seq \notin numbers => WaitingFor(request)'
<1>1. DOMAIN ends' = DOMAIN ends /\ \A n \in DOMAIN ends : n \notin numbers => ends'[n] = ends[n]
  BY EndsKept DEF Grows
<1>2. Len(sent) \in Nat
  BY SentOf
<1> QED
  BY <1>1, <1>2 DEF Grows, WaitingFor

\* The numbers of bursts are of requests that wait.
LEMMA BurstsWait ==
  ASSUME BurstInv
  PROVE  \A b \in bursts : b.request.seq \in 1..Len(sent)
                           /\ (b.request.seq \in DOMAIN ends => ends[b.request.seq] = 0)
BY DEF BurstInv, WaitingFor

\* Bursts that end are told truthfully; the others stay.
LEMMA BurstsLeft ==
  ASSUME TalkShape, EndsInv, BurstInv, Grows, NEW numbers, Talk!Ended(numbers),
         NEW gone \in SUBSET bursts, numbers = {b.request.seq : b \in gone}
  PROVE  /\ ends' = [n \in 1..MaxRequests |-> ends'[n]] /\ EndsInv'
         /\ DOMAIN ends' = DOMAIN ends
         /\ \A n \in DOMAIN ends : n \notin numbers => ends'[n] = ends[n]
         /\ \A b \in bursts \ gone : WaitingFor(b.request)' /\ b.request.seq \notin numbers
<1>1. \A n \in numbers : n \in 1..Len(sent) /\ (n \in DOMAIN ends => ends[n] = 0)
  BY BurstsWait
<1>2. \A b \in bursts \ gone : WaitingFor(b.request) /\ b.request.seq \notin numbers
  BY DEF BurstInv
<1>3. \A b \in bursts \ gone : WaitingFor(b.request)'
  BY <1>1, <1>2, WaitsOn
<1>4. /\ ends' = [n \in 1..MaxRequests |-> ends'[n]] /\ EndsInv'
      /\ DOMAIN ends' = DOMAIN ends
      /\ \A n \in DOMAIN ends : n \notin numbers => ends'[n] = ends[n]
  BY <1>1, EndsKept DEF Grows
<1> QED
  BY <1>2, <1>3, <1>4

LEMMA BurstSound ==
  ASSUME TalkShape, BurstInv, Grows, NEW b \in bursts, NEW reason, reason # "state"
  PROVE  ResultOf(Talk!Completed(b, reason))'
<1>1. PICK r : r = Talk!Completed(b, reason)
  OBVIOUS
<1>2. ResponsesOf(b) /\ b.request.seq \in 1..Len(sent) /\ b.request = sent[b.request.seq]
  BY DEF BurstInv, WaitingFor
<1>3. b.request = sent'[b.request.seq]
  BY <1>2 DEF Grows
<1>4. ResultOf(r)'
  BY <1>1, <1>2, <1>3, CompletedSound
<1> QED
  BY <1>1, <1>4 DEF Talk!Completed

LEMMA BeginBurstStep ==
  ASSUME TalkInv, NEW item, SentNow(item), sent' = Append(sent, item), reading = "burst",
         Talk!BeginBurst(item), UNCHANGED <<nudges, history, reading, clock, generation>>
  PROVE  TalkInv'
<1> USE DEF TalkInv
<1>1. PICK cut \in SUBSET bursts :
        /\ bursts' = (bursts \ cut) \cup {[request |-> item, responses |-> <<>>]}
        /\ result' = {Talk!Completed(b, "reconnect") : b \in cut}
        /\ Talk!Ended({b.request.seq : b \in cut})
  BY DEF Talk!BeginBurst, Talk!Returns, Talk!CutBy
<1>2. Grows
  BY OneSent
<1>3. PICK numbers : numbers = {b.request.seq : b \in cut}
  OBVIOUS
<1>4. Talk!Ended(numbers)
  BY <1>1, <1>3
<1>5. /\ ends' = [n \in 1..MaxRequests |-> ends'[n]] /\ EndsInv'
      /\ DOMAIN ends' = DOMAIN ends
      /\ \A n \in DOMAIN ends : n \notin numbers => ends'[n] = ends[n]
      /\ \A b \in bursts \ cut : WaitingFor(b.request)' /\ b.request.seq \notin numbers
  BY <1>2, <1>3, <1>4, BurstsLeft
<1>6. known' = Absent \/ known' \in Int
  BY NewestOf DEF TalkShape, SentNow, Talk!BeginBurst
<1>7. /\ sent' \in Seq(Sent)
      /\ \A n \in 1..Len(sent') : sent'[n].seq = n /\ sent'[n].of = n /\ sent'[n].time <= clock'
  BY SentKept
<1>8. pending = {} /\ pending' = {}
  BY DEF TalkShape, Talk!BeginBurst
<1>9. TalkShape'
  <2>1. clock' \in Nat /\ clock <= clock' /\ generation' \in Nat /\ reading' = "burst"
    BY DEF TalkShape
  <2> QED
    BY <1>5, <1>6, <1>7, <1>8, <2>1, ShapeKept
<1>10. PendingInv'
  BY <1>8 DEF PendingInv
<1>11. BurstInv'
  <2>1. PICK new : new = [request |-> item, responses |-> <<>>]
    OBVIOUS
  <2>2. new.request = item /\ new.responses = <<>>
        /\ new = [request |-> new.request, responses |-> new.responses]
    BY <2>1
  <2>3. \A b \in bursts' : b \in bursts \ cut \/ b = new
    BY <1>1, <2>1
  <2>4. Len(sent') = Len(sent) + 1 /\ sent'[Len(sent) + 1] = item /\ Len(sent) \in Nat
    BY Grown DEF SentNow
  <2>5. item.seq \notin numbers /\ \A b \in bursts : b.request.seq # item.seq
    BY <1>3, <2>4, BurstsWait DEF SentNow
  <2>6. item.seq \in DOMAIN ends => ends'[item.seq] = 0
    BY <1>5, <2>4, <2>5 DEF EndsInv, SentNow, TalkShape
  <2>7. WaitingFor(new.request)'
    BY <1>5, <2>2, <2>4, <2>6 DEF WaitingFor, SentNow
  <2>8. ResponsesOf(new)
    BY <2>2 DEF ResponsesOf
  <2>9. \A b \in bursts \ cut : b = [request |-> b.request, responses |-> b.responses]
                               /\ WaitingFor(b.request)' /\ ResponsesOf(b)
    BY <1>5 DEF BurstInv
  <2>10. \A b \in bursts' : b = [request |-> b.request, responses |-> b.responses]
                            /\ WaitingFor(b.request)' /\ ResponsesOf(b)
    BY <2>2, <2>3, <2>7, <2>8, <2>9
  <2>11. \A b, c \in bursts' : b.request.seq = c.request.seq => b = c
    BY <2>2, <2>3, <2>5 DEF BurstInv
  <2> QED
    BY <2>10, <2>11 DEF BurstInv, ResponsesOf, WaitingFor
<1>12. ResultInv'
  <2>1. ASSUME NEW r \in result' PROVE ResultOf(r)'
    <3>1. PICK b \in cut : r = Talk!Completed(b, "reconnect")
      BY <1>1
    <3>2. ResultOf(Talk!Completed(b, "reconnect"))'
      BY <1>2, BurstSound
    <3> QED
      BY <3>1, <3>2 DEF Talk!Completed
  <2> QED
    BY <2>1 DEF ResultInv
<1> QED
  BY <1>5, <1>9, <1>10, <1>11, <1>12

LEMMA BeginNudgeStep ==
  ASSUME TalkInv, NEW item, SentNow(item), sent' = Append(sent, item), reading = "state",
         Talk!BeginNudge(item),
         UNCHANGED <<pending, bursts, history, ends, reading, clock, generation>>
  PROVE  TalkInv'
<1> USE DEF TalkInv
<1>1. pending = {} /\ bursts = {} /\ result' = {}
  BY DEF TalkShape, Talk!BeginNudge
<1>2. known' = Absent \/ known' \in Int
  BY NewestOf DEF TalkShape, SentNow, Talk!BeginNudge
<1>3. EndsInv' /\ ends' = [n \in 1..MaxRequests |-> ends'[n]]
  BY SentWaits
<1>4. /\ sent' \in Seq(Sent)
      /\ \A n \in 1..Len(sent') : sent'[n].seq = n /\ sent'[n].of = n /\ sent'[n].time <= clock'
  BY SentKept
<1>5. clock' \in Nat /\ clock <= clock' /\ generation' \in Nat
  BY DEF TalkShape
<1>6. TalkShape'
  BY <1>1, <1>2, <1>3, <1>4, <1>5, ShapeKept
<1> QED
  BY <1>1, <1>3, <1>6 DEF PendingInv, BurstInv, ResultInv

LEMMA SendsStep ==
  ASSUME TalkInv, NEW channel \in Channels, NEW tag \in Tags \cup {Absent},
         NEW grammar \in Talk!Grammars \cup {Absent}, Talk!Sends(channel, tag, grammar)
  PROVE  TalkInv'
<1> DEFINE item == [seq |-> Len(sent) + 1, of |-> Len(sent) + 1, channel |-> channel,
                    generation |-> generation, time |-> clock, tag |-> tag,
                    grammar |-> grammar]
<1>1. SentNow(item)
  <2>1. Len(sent) + 1 \in Nat /\ clock \in Nat /\ generation \in Nat
    BY SentOf DEF TalkInv, TalkShape
  <2>2. item \in Sent
    BY <2>1 DEF Sent
  <2> QED
    BY <2>2 DEF SentNow
<1>2. /\ sent' = Append(sent, item) /\ UNCHANGED <<reading, clock, generation>>
      /\ \/ /\ reading = "dialogue" /\ (Talk!AddOut(item) \/ Talk!Stale(item))
            /\ UNCHANGED <<bursts, nudges, history>>
         \/ reading = "burst" /\ Talk!BeginBurst(item) /\ UNCHANGED <<nudges, history>>
         \/ /\ reading = "state" /\ Talk!BeginNudge(item)
            /\ UNCHANGED <<pending, bursts, history, ends>>
  BY DEF Talk!Sends
<1> HIDE DEF item
<1> QED
  BY <1>1, <1>2, AddOutStep, BeginBurstStep, BeginNudgeStep

\* A report of the mouse answers a request in the connection of the request.
AnswerTo(item, n) ==
  /\ n \in 1..Len(sent) /\ item.of = n /\ item.time = clock
  /\ item.generation = sent[n].generation /\ item.tag = sent[n].tag
  /\ item.channel = sent[n].channel /\ item.grammar \in {"event", sent[n].grammar}

\* What waits with the tag of a report is what the report answers.
LEMMA TagIsEnough ==
  ASSUME TalkShape, PendingInv, NEW item, NEW n, AnswerTo(item, n),
         NEW p \in Talk!Candidates(item), item.tag # Absent, Talk!Unique(n)
  PROVE  p.request.seq = n
<1>1. p \in pending /\ p.request.tag = item.tag /\ p.request.generation = item.generation
  BY DEF Talk!Candidates, Talk!Compatible
<1>2. p.request.seq \in DOMAIN sent /\ p.request = sent[p.request.seq]
  BY <1>1, SentOf DEF PendingInv, WaitingFor
<1>3. sent[p.request.seq].generation = sent[n].generation /\ sent[p.request.seq].tag = sent[n].tag
  BY <1>1, <1>2 DEF AnswerTo
<1> QED
  BY <1>2, <1>3 DEF Talk!Unique

\* A request that waits for this report, within the window, is among those that fit it.
LEMMA OwnerFits ==
  ASSUME TalkShape, PendingInv, NEW item, NEW n, AnswerTo(item, n), item.grammar # "event",
         NEW p \in pending, p.request.seq = n, clock - p.request.time \in 0..Window
  PROVE  p \in Talk!Candidates(item)
<1>1. p.request = sent[n]
  BY DEF PendingInv, WaitingFor
<1>2. Talk!Compatible(p.request, item)
  BY <1>1 DEF AnswerTo, Talk!Compatible
<1>3. p.request.tag = item.tag /\ p.request.grammar = item.grammar
  BY <1>1 DEF AnswerTo
<1> QED
  BY <1>2, <1>3 DEF Talk!Candidates

LEMMA AddInStep ==
  ASSUME TalkInv, NEW item, NEW n, AnswerTo(item, n), reading = "dialogue",
         Talk!AddIn(item) \/ Talk!Stale(item),
         UNCHANGED <<bursts, nudges, history, reading, clock, generation, sent>>
  PROVE  TalkInv'
<1> USE DEF TalkInv
<1>1. PICK p : p = CHOOSE q \in Talk!Candidates(item) : TRUE
  OBVIOUS
<1>2. known' = known \/ known' = Talk!Newest(item.generation)
  BY DEF Talk!AddIn, Talk!Stale
<1>3. known' = Absent \/ known' \in Int
  BY <1>2, NewestOf, SentOf DEF TalkShape, AnswerTo
<1>4. Talk!Taken(Talk!Candidates(item))
        => p \in Talk!Candidates(item) /\ p \in pending /\ WaitingFor(p.request)
  <2>1. \A q \in Talk!Candidates(item) : q \in pending
    BY DEF Talk!Candidates
  <2> QED
    BY <1>1, <2>1, OneIsFound DEF PendingInv
<1>5. \/ /\ UNCHANGED <<pending, ends>>
         /\ \E what \in {"event", "unrelated", "ambiguous", "stale"} :
              result' = {Talk!Entry(what, item, Absent)}
      \/ /\ Talk!Taken(Talk!Candidates(item)) /\ ends' = ends /\ item.grammar # "event"
         /\ pending' = (pending \ {p}) \cup {[p EXCEPT !.busy = TRUE]}
         /\ result' = {Talk!Entry("busy", item, p.request.seq)}
      \/ /\ Talk!Taken(Talk!Candidates(item)) /\ Talk!Ended({p.request.seq})
         /\ item.grammar # "event" /\ pending' = pending \ {p}
         /\ result' = {Talk!Entry("response", item, p.request.seq)}
  BY <1>1 DEF Talk!AddIn, Talk!Stale, Talk!Returns
<1>6. TalkInv'
  <2>1. CASE /\ UNCHANGED <<pending, ends>>
             /\ \E what \in {"event", "unrelated", "ambiguous", "stale"} :
                  result' = {Talk!Entry(what, item, Absent)}
    <3>1. TalkShape'
      BY <1>3, <2>1 DEF TalkShape
    <3>2. PendingInv' /\ EndsInv' /\ BurstInv'
      BY <2>1 DEF PendingInv, EndsInv, BurstInv, WaitingFor, ResponsesOf
    <3>3. PICK what \in {"event", "unrelated", "ambiguous", "stale"} :
            result' = {Talk!Entry(what, item, Absent)}
      BY <2>1
    <3>4. PICK r : r = Talk!Entry(what, item, Absent)
      OBVIOUS
    <3>5. ResultOf(r)'
      BY <3>4, EntrySound
    <3>6. ResultInv'
      BY <3>3, <3>4, <3>5 DEF ResultInv
    <3> QED
      BY <3>1, <3>2, <3>6
  <2>2. ASSUME NEW what \in {"busy", "response"},
               result' = {Talk!Entry(what, item, p.request.seq)},
               Talk!Taken(Talk!Candidates(item)), item.grammar # "event",
               \A q \in pending' : \E s \in pending : s.request = q.request
        PROVE  ResultInv'
    <3>1. PICK r, request : request = p.request.seq /\ r = Talk!Entry(what, item, request)
      OBVIOUS
    <3>2. item.tag # Absent /\ Talk!Unique(item.of) => request = item.of
      BY <1>4, <2>2, <3>1, TagIsEnough DEF AnswerTo
    <3>3. Talk!Unique(item.of)' => Talk!Unique(item.of)
      BY DEF Talk!Unique
    <3>4. request # item.of => ~Talk!Waits(item.of)'
      <4> SUFFICES ASSUME request # item.of, NEW q \in pending', q.request.seq = n,
                          clock - q.request.time \in 0..Window
                   PROVE  FALSE
        BY DEF Talk!Waits, AnswerTo
      <4>1. PICK s \in pending : s.request = q.request
        BY <2>2
      <4>2. s \in Talk!Candidates(item)
        BY <2>2, <4>1, OwnerFits
      <4>3. s = p
        BY <1>4, <2>2, <4>2, OneIsFound
      <4> QED
        BY <3>1, <4>1, <4>3 DEF AnswerTo
    <3>5. ResultOf(r)'
      BY <3>1, <3>2, <3>3, <3>4, EntrySound
    <3> QED
      BY <2>2, <3>1, <3>5 DEF ResultInv
  <2>3. CASE /\ Talk!Taken(Talk!Candidates(item)) /\ ends' = ends /\ item.grammar # "event"
             /\ pending' = (pending \ {p}) \cup {[p EXCEPT !.busy = TRUE]}
             /\ result' = {Talk!Entry("busy", item, p.request.seq)}
    <3>2. p \in pending /\ WaitingFor(p.request) /\ p = [request |-> p.request, busy |-> p.busy]
      BY <1>4, <2>3 DEF PendingInv
    <3>3. PICK b : b = [p EXCEPT !.busy = TRUE]
      OBVIOUS
    <3>4. b = [request |-> p.request, busy |-> TRUE]
      BY <3>2, <3>3
    <3>5. b = [request |-> b.request, busy |-> b.busy] /\ b.request = p.request
      BY <3>4
    <3>6. \A q \in pending' : q = b \/ (q \in pending /\ q # p)
      BY <2>3, <3>3
    <3>1. ResultInv'
      <4>1. \A q \in pending' : \E s \in pending : s.request = q.request
        BY <3>2, <3>5, <3>6
      <4> QED
        BY <2>2, <2>3, <4>1
    <3>7. \A request : WaitingFor(request) => WaitingFor(request)'
      BY <2>3 DEF WaitingFor
    <3>8. PendingInv'
      <4>1. \A q \in pending' : q = [request |-> q.request, busy |-> q.busy]
                                /\ WaitingFor(q.request)'
        BY <3>2, <3>5, <3>6, <3>7 DEF PendingInv
      <4>2. \A q, r \in pending' : q.request.seq = r.request.seq => q = r
        BY <3>2, <3>5, <3>6 DEF PendingInv
      <4> QED
        BY <4>1, <4>2 DEF PendingInv, WaitingFor
    <3>9. TalkShape'
      BY <1>3, <2>3 DEF TalkShape
    <3>10. EndsInv' /\ BurstInv'
      BY <2>3 DEF EndsInv, BurstInv, WaitingFor, ResponsesOf
    <3> QED
      BY <3>1, <3>8, <3>9, <3>10
  <2>4. CASE /\ Talk!Taken(Talk!Candidates(item)) /\ Talk!Ended({p.request.seq})
             /\ item.grammar # "event" /\ pending' = pending \ {p}
             /\ result' = {Talk!Entry("response", item, p.request.seq)}
    <3>1. ResultInv'
      <4>1. \A q \in pending' : \E s \in pending : s.request = q.request
        BY <2>4
      <4> QED
        BY <2>2, <2>4, <4>1
    <3>2. p \in pending /\ WaitingFor(p.request)
      BY <1>4, <2>4
    <3>3. PICK numbers : numbers = {p.request.seq}
      OBVIOUS
    <3>4. /\ Talk!Ended(numbers) /\ Grows
          /\ \A m \in numbers : m \in 1..Len(sent) /\ (m \in DOMAIN ends => ends[m] = 0)
      BY <2>4, <3>2, <3>3, NothingSent DEF WaitingFor
    <3>5. ends' = [m \in 1..MaxRequests |-> ends'[m]] /\ EndsInv'
      BY <3>4, EndsKept DEF Grows
    <3>6. \A request : WaitingFor(request) /\ request.seq \notin numbers => WaitingFor(request)'
      BY <3>4, WaitsOn
    <3>7. \A q \in pending' : q \in pending /\ q.request.seq \notin numbers
      BY <2>4, <3>2, <3>3 DEF PendingInv
    <3>8. PendingInv'
      BY <3>6, <3>7 DEF PendingInv
    <3>9. TalkShape'
      BY <1>3, <2>4, <3>5 DEF TalkShape
    <3>10. BurstInv'
      BY DEF BurstInv, TalkShape
    <3> QED
      BY <3>1, <3>5, <3>8, <3>9, <3>10
  <2> QED
    BY <1>5, <2>1, <2>3, <2>4
<1> QED
  BY <1>6

\* A report that fits a burst continues it.
LEMMA GrownBurst ==
  ASSUME TalkShape, BurstInv, NEW item, NEW n, AnswerTo(item, n), NEW b \in bursts,
         Talk!BurstMatches(b, item), NEW c,
         c = [b EXCEPT !.responses = Append(@, [time |-> item.time, of |-> item.of,
                                                generation |-> item.generation])]
  PROVE  /\ c = [request |-> c.request, responses |-> c.responses]
         /\ c.request = b.request /\ ResponsesOf(c)
<1>1. PICK new : new = [time |-> item.time, of |-> item.of, generation |-> item.generation]
  OBVIOUS
<1>2. /\ b = [request |-> b.request, responses |-> b.responses] /\ ResponsesOf(b)
      /\ WaitingFor(b.request)
  BY DEF BurstInv
<1>3. c = [request |-> b.request, responses |-> Append(b.responses, new)]
  BY <1>1, <1>2
<1>4. c.request = b.request /\ c.responses = Append(b.responses, new)
  BY <1>3
<1>5. /\ new \in Responses /\ new.time = clock /\ new.generation = item.generation /\ clock \in Nat
  BY <1>1, SentOf DEF AnswerTo, TalkShape, Responses
<1>6. b.request.time \in Nat /\ b.request \in Sent
  BY <1>2, SentOf DEF WaitingFor
<1>7. PICK s \in Seq(Responses) : s = b.responses
  BY <1>2 DEF ResponsesOf
<1>8. \A i \in 1..Len(s) : s[i].time \in Nat
  <2>1. \A i \in 1..Len(s) : s[i] \in Responses
    BY <1>7
  <2> QED
    BY <2>1 DEF Responses
<1>9. Len(s) \in Nat /\ (Len(s) = 0 <=> s = <<>>)
  BY <1>7
<1>10. /\ new.generation = b.request.generation
       /\ Talk!LastOf(b) <= new.time /\ new.time < b.request.time + Deadline
  BY <1>1, <1>5 DEF Talk!BurstMatches, AnswerTo
<1>11. /\ b.request.time <= new.time
       /\ \A i \in 1..Len(s) : s[i].time <= new.time
  <2>1. CASE s = <<>>
    BY <1>7, <1>9, <1>10, <2>1 DEF Talk!LastOf
  <2>2. CASE s # <<>>
    <3>1. Len(s) \in 1..Len(s)
      BY <1>9, <2>2
    <3>2. Talk!LastOf(b) = s[Len(s)].time
      BY <1>7, <2>2 DEF Talk!LastOf, Talk!Last
    <3>3. b.request.time <= s[Len(s)].time
      BY <1>2, <1>7, <3>1 DEF ResponsesOf
    <3>4. \A i \in 1..Len(s) : s[i].time <= s[Len(s)].time
      BY <1>2, <1>7, <1>8, <1>9, <3>1 DEF ResponsesOf
    <3> QED
      BY <1>5, <1>6, <1>8, <1>10, <3>1, <3>2, <3>3, <3>4
  <2> QED
    BY <2>1, <2>2
<1>12. PICK t : t = Append(s, new)
  OBVIOUS
<1>13. /\ t \in Seq(Responses) /\ Len(t) = Len(s) + 1 /\ t[Len(s) + 1] = new
       /\ \A i \in 1..Len(s) : t[i] = s[i]
  BY <1>5, <1>7, <1>12
<1>14. \A i \in 1..Len(t) : i \in 1..Len(s) \/ i = Len(s) + 1
  BY <1>9, <1>13
<1>15. \A i \in 1..Len(t) : /\ t[i].generation = b.request.generation
                            /\ b.request.time <= t[i].time
                            /\ t[i].time < b.request.time + Deadline
  BY <1>2, <1>7, <1>10, <1>11, <1>13, <1>14 DEF ResponsesOf
<1>16. ASSUME NEW i \in 1..Len(t), NEW j \in 1..Len(t), i < j
       PROVE  t[i].time <= t[j].time
  <2>1. i \in 1..Len(s)
    BY <1>9, <1>13, <1>16
  <2>2. CASE j \in 1..Len(s)
    BY <1>2, <1>7, <1>13, <1>16, <2>1, <2>2 DEF ResponsesOf
  <2>3. CASE j = Len(s) + 1
    BY <1>11, <1>13, <2>1, <2>3
  <2> QED
    BY <1>14, <2>2, <2>3
<1>17. c.responses = t
  BY <1>4, <1>7, <1>12
<1>18. ResponsesOf(c)
  BY <1>4, <1>13, <1>15, <1>16, <1>17 DEF ResponsesOf
<1> QED
  BY <1>3, <1>4, <1>18

LEMMA ObserveBurstStep ==
  ASSUME TalkInv, NEW item, NEW n, AnswerTo(item, n), reading = "burst",
         Talk!ObserveBurst(item),
         UNCHANGED <<nudges, history, reading, clock, generation, sent>>
  PROVE  TalkInv'
<1> USE DEF TalkInv
<1>1. PICK old : old = {b \in bursts : Talk!Expired(b, item.time)}
  OBVIOUS
<1>2. PICK cut : cut = IF known # Absent /\ item.generation > known
                         THEN Talk!CutBy(item.generation) \ old ELSE {}
  OBVIOUS
<1>3. PICK left : left = bursts \ (old \cup cut)
  OBVIOUS
<1>4. PICK near : near = IF Talk!Older(item.generation) THEN {}
                         ELSE {b \in left : Talk!BurstMatches(b, item)}
  OBVIOUS
<1>5. PICK b : b = CHOOSE c \in near : TRUE
  OBVIOUS
<1>6. PICK grown : grown = [b EXCEPT !.responses =
                              Append(@, [time |-> item.time, of |-> item.of,
                                         generation |-> item.generation])]
  OBVIOUS
<1>7. PICK full : full = (Talk!Taken(near) /\ Len(grown.responses) >= MaxResponses)
  OBVIOUS
<1>8. PICK numbers : numbers = {c.request.seq : c \in old \cup cut}
                                 \cup (IF full THEN {b.request.seq} ELSE {})
  OBVIOUS
<1>9. /\ bursts' = IF ~Talk!Taken(near) THEN left
                   ELSE IF full THEN left \ {b} ELSE (left \ {b}) \cup {grown}
      /\ result' = {Talk!Completed(c, Talk!Reason(c, item.time)) : c \in old}
                     \cup {Talk!Completed(c, "reconnect") : c \in cut}
                     \cup (IF full THEN {Talk!Completed(grown, "full")} ELSE {})
      /\ Talk!Ended(numbers)
      /\ known' = IF known # Absent /\ item.generation > known THEN item.generation ELSE known
      /\ UNCHANGED pending
  BY <1>1, <1>2, <1>3, <1>4, <1>5, <1>6, <1>7, <1>8 DEF Talk!ObserveBurst, Talk!Returns
<1>10. old \subseteq bursts /\ cut \subseteq bursts /\ left \subseteq bursts
  BY <1>1, <1>2, <1>3 DEF Talk!CutBy
<1>11. Talk!Taken(near) => b \in near /\ b \in left /\ Talk!BurstMatches(b, item)
  BY <1>4, <1>5, OneIsFound
<1>12. Talk!Taken(near) => /\ grown = [request |-> grown.request, responses |-> grown.responses]
                           /\ grown.request = b.request /\ ResponsesOf(grown)
  <2> SUFFICES ASSUME Talk!Taken(near)
               PROVE  /\ grown = [request |-> grown.request, responses |-> grown.responses]
                      /\ grown.request = b.request /\ ResponsesOf(grown)
    OBVIOUS
  <2>1. b \in bursts /\ Talk!BurstMatches(b, item)
    BY <1>10, <1>11
  <2> QED
    BY SMTT(30), <1>6, <2>1, GrownBurst
<1>13. full => Talk!Taken(near)
  BY <1>7
<1>14. \A m \in numbers : m \in 1..Len(sent) /\ (m \in DOMAIN ends => ends[m] = 0)
  BY <1>8, <1>10, <1>11, <1>13, BurstsWait
<1>15. Grows
  BY NothingSent
<1>16. ends' = [m \in 1..MaxRequests |-> ends'[m]] /\ EndsInv'
  BY <1>9, <1>14, <1>15, EndsKept DEF Grows
<1>17. \A request : WaitingFor(request) /\ request.seq \notin numbers => WaitingFor(request)'
  BY <1>9, <1>14, <1>15, WaitsOn
<1>18. known' = Absent \/ known' \in Int
  BY <1>9, SentOf DEF TalkShape, AnswerTo
<1>19. TalkShape'
  <2>1. pending' = {}
    BY <1>9 DEF TalkShape
  <2>2. /\ sent' \in Seq(Sent) /\ clock' \in Nat /\ clock <= clock' /\ generation' \in Nat
        /\ \A m \in 1..Len(sent') : sent'[m].seq = m /\ sent'[m].of = m /\ sent'[m].time <= clock'
    BY DEF TalkShape
  <2> QED
    BY <1>16, <1>18, <2>1, <2>2, ShapeKept
<1>20. PendingInv'
  BY <1>9 DEF PendingInv, TalkShape
<1>21. BurstInv'
  <2>1. \A c \in bursts' : \/ c \in left /\ (Talk!Taken(near) => c # b)
                           \/ c = grown /\ Talk!Taken(near) /\ ~full
    BY <1>9
  <2>2. \A c \in left : /\ c = [request |-> c.request, responses |-> c.responses]
                        /\ WaitingFor(c.request) /\ ResponsesOf(c)
                        /\ \A d \in old \cup cut : c.request.seq # d.request.seq
                        /\ \A d \in left : c.request.seq = d.request.seq => c = d
    BY <1>3, <1>10 DEF BurstInv
  <2>3. \A c \in left : (Talk!Taken(near) => c # b) \/ ~full => WaitingFor(c.request)'
    BY <1>8, <1>11, <1>13, <1>17, <2>2
  <2>4. Talk!Taken(near) /\ ~full => WaitingFor(grown.request)'
    BY <1>11, <1>12, <2>3
  <2>5. \A c \in bursts' : /\ c = [request |-> c.request, responses |-> c.responses]
                           /\ WaitingFor(c.request)' /\ ResponsesOf(c)
    BY <1>12, <2>1, <2>2, <2>3, <2>4
  <2>6. \A c \in left : Talk!Taken(near) /\ c # b => c.request.seq # grown.request.seq
    BY <1>11, <1>12, <2>2
  <2>7. \A c, d \in bursts' : c.request.seq = d.request.seq => c = d
    BY <2>1, <2>2, <2>6
  <2> QED
    BY <2>5, <2>7 DEF BurstInv, ResponsesOf, WaitingFor
<1>22. ResultInv'
  <2>1. \A c : Talk!Reason(c, item.time) # "state"
    BY DEF Talk!Reason
  <2>2. \A c \in old : ResultOf(Talk!Completed(c, Talk!Reason(c, item.time)))'
    <3> SUFFICES ASSUME NEW c \in old
                 PROVE ResultOf(Talk!Completed(c, Talk!Reason(c, item.time)))'
      OBVIOUS
    <3>1. PICK reason : reason = Talk!Reason(c, item.time)
      OBVIOUS
    <3>2. PICK r : r = Talk!Completed(c, reason)
      OBVIOUS
    <3>3. ResponsesOf(c) /\ c.request.seq \in 1..Len(sent) /\ c.request = sent[c.request.seq]
      BY <1>10 DEF BurstInv, WaitingFor
    <3>4. ResultOf(r)'
      BY <2>1, <3>1, <3>2, <3>3, CompletedSound
    <3> QED
      BY <3>1, <3>2, <3>4
  <2>3. \A c \in cut : ResultOf(Talk!Completed(c, "reconnect"))'
    BY <1>10, <1>15, BurstSound
  <2>4. full => ResultOf(Talk!Completed(grown, "full"))'
    <3> SUFFICES ASSUME full PROVE ResultOf(Talk!Completed(grown, "full"))'
      OBVIOUS
    <3>1. PICK r : r = Talk!Completed(grown, "full")
      OBVIOUS
    <3>2. grown.request.seq \in 1..Len(sent) /\ grown.request = sent[grown.request.seq]
      BY <1>10, <1>11, <1>12, <1>13 DEF BurstInv, WaitingFor
    <3>3. ResultOf(r)'
      BY <1>12, <1>13, <3>1, <3>2, CompletedSound
    <3> QED
      BY <3>1, <3>3
  <2> QED
    BY <1>9, <2>2, <2>3, <2>4 DEF ResultInv
<1> QED
  BY <1>16, <1>19, <1>20, <1>21, <1>22

LEMMA AnswersStep ==
  ASSUME TalkInv, NEW n \in DOMAIN sent, NEW status, NEW event, Talk!Answers(n, status, event)
  PROVE  TalkInv'
<1> DEFINE r == sent[n]
           item == [seq |-> n, of |-> n, channel |-> r.channel, generation |-> r.generation,
                    time |-> clock, tag |-> r.tag,
                    grammar |-> IF event THEN "event" ELSE r.grammar, status |-> status]
<1>1. AnswerTo(item, n)
  BY SentOf DEF AnswerTo, TalkInv
<1>2. /\ UNCHANGED <<reading, clock, generation, sent, nudges, history>>
      /\ \/ /\ reading = "dialogue" /\ (Talk!AddIn(item) \/ Talk!Stale(item))
            /\ UNCHANGED bursts
         \/ reading = "burst" /\ Talk!ObserveBurst(item)
  BY DEF Talk!Answers, Talk!world
<1> HIDE DEF item
<1> QED
  BY <1>1, <1>2, AddInStep, ObserveBurstStep

\* What a step leaves of a reader when nothing is sent.
LEMMA WorldKept ==
  ASSUME TalkShape, UNCHANGED <<reading, clock, generation, sent>>,
         ends' = [n \in 1..MaxRequests |-> ends'[n]], known' = Absent \/ known' \in Int,
         pending' \subseteq pending, bursts' \subseteq bursts
  PROVE  TalkShape'
<1>1. pending' # {} => pending # {}
  OBVIOUS
<1>2. bursts' # {} => bursts # {}
  OBVIOUS
<1> QED
  BY <1>1, <1>2 DEF TalkShape

\* Requests and bursts that end together.
LEMMA EndTogether ==
  ASSUME TalkInv, UNCHANGED <<reading, clock, generation, sent>>,
         NEW lost \in SUBSET pending, NEW gone \in SUBSET bursts, NEW numbers,
         numbers = {p.request.seq : p \in lost} \cup {b.request.seq : b \in gone},
         pending' = pending \ lost, bursts' = bursts \ gone, Talk!Ended(numbers),
         known' = Absent \/ known' \in Int
  PROVE  TalkShape' /\ PendingInv' /\ BurstInv' /\ EndsInv'
<1> USE DEF TalkInv
<1>1. \A p \in pending : p.request.seq \in 1..Len(sent)
                         /\ (p.request.seq \in DOMAIN ends => ends[p.request.seq] = 0)
  BY DEF PendingInv, WaitingFor
<1>2. \A n \in numbers : n \in 1..Len(sent) /\ (n \in DOMAIN ends => ends[n] = 0)
  BY <1>1, BurstsWait
<1>3. Grows
  BY NothingSent
<1>4. ends' = [n \in 1..MaxRequests |-> ends'[n]] /\ EndsInv'
  BY <1>2, <1>3, EndsKept DEF Grows
<1>5. \A request : WaitingFor(request) /\ request.seq \notin numbers => WaitingFor(request)'
  BY <1>2, <1>3, WaitsOn
<1>6. pending = {} \/ bursts = {}
  BY DEF TalkShape
<1>7. PendingInv'
  <2>1. \A p \in pending' : p \in pending /\ p.request.seq \notin numbers
    BY <1>6 DEF PendingInv
  <2> QED
    BY <1>5, <2>1 DEF PendingInv
<1>8. BurstInv'
  <2>1. \A b \in bursts' : b \in bursts /\ b.request.seq \notin numbers
    BY <1>6 DEF BurstInv
  <2> QED
    BY <1>5, <2>1 DEF BurstInv, ResponsesOf
<1> QED
  BY <1>4, <1>7, <1>8, WorldKept

LEMMA TimedOut ==
  ASSUME NEW p, NEW what, what # "state",
         NEW r, r = Talk!Entry(what, p.request, p.request.seq), p.request.of = p.request.seq
  PROVE  ResultOf(r)'
BY EntrySound

LEMMA FinishStep ==
  ASSUME TalkInv, Talk!Finish
  PROVE  TalkInv'
<1> USE DEF TalkInv
<1>1. /\ UNCHANGED <<reading, clock, generation, sent, known, bursts>> /\ pending' = {}
      /\ result' = {Talk!Entry("timeout", p.request, p.request.seq) : p \in pending}
      /\ Talk!Ended({p.request.seq : p \in pending})
  BY DEF Talk!Finish, Talk!world, Talk!Returns
<1>2. PICK numbers : numbers = {p.request.seq : p \in pending} \cup {b.request.seq : b \in {}}
  OBVIOUS
<1>3. Talk!Ended(numbers)
  <2>1. numbers = {p.request.seq : p \in pending}
    BY <1>2
  <2> QED
    BY <1>1, <2>1
<1>4. PICK lost \in SUBSET pending : lost = pending
  OBVIOUS
<1>5. PICK gone \in SUBSET bursts : gone = {}
  OBVIOUS
<1>6. pending' = pending \ lost /\ bursts' = bursts \ gone
  BY <1>1, <1>4, <1>5
<1>7. known' = Absent \/ known' \in Int
  BY <1>1 DEF TalkShape
<1>8. TalkShape' /\ PendingInv' /\ BurstInv' /\ EndsInv'
  BY <1>1, <1>2, <1>3, <1>4, <1>5, <1>6, <1>7, EndTogether
<1>9. \A p \in pending : p.request.of = p.request.seq
  BY SentOf DEF PendingInv, WaitingFor
<1>10. ASSUME NEW r \in result' PROVE ResultOf(r)'
  <2>1. PICK p \in pending : r = Talk!Entry("timeout", p.request, p.request.seq)
    BY <1>1
  <2> QED
    BY <1>9, <2>1, TimedOut
<1> QED
  BY <1>8, <1>10 DEF ResultInv

LEMMA EndBurstStep ==
  ASSUME TalkInv, NEW b, Talk!EndBurst(b)
  PROVE  TalkInv'
<1> USE DEF TalkInv
<1>1. /\ UNCHANGED <<reading, clock, generation, sent, known, pending>>
      /\ b \in bursts /\ bursts' = bursts \ {b}
      /\ result' = {Talk!Completed(b, "explicit")} /\ Talk!Ended({b.request.seq})
  BY DEF Talk!EndBurst, Talk!world, Talk!Returns
<1>2. PICK lost \in SUBSET pending : lost = {}
  OBVIOUS
<1>3. PICK gone \in SUBSET bursts : gone = {b}
  BY <1>1
<1>4. PICK numbers :
        numbers = {p.request.seq : p \in lost} \cup {c.request.seq : c \in gone}
  OBVIOUS
<1>5. Talk!Ended(numbers)
  <2>1. numbers = {b.request.seq}
    BY <1>2, <1>3, <1>4
  <2> QED
    BY <1>1, <2>1
<1>6. pending' = pending \ lost /\ bursts' = bursts \ gone
  BY <1>1, <1>2, <1>3
<1>7. known' = Absent \/ known' \in Int
  BY <1>1 DEF TalkShape
<1>8. TalkShape' /\ PendingInv' /\ BurstInv' /\ EndsInv'
  BY <1>1, <1>4, <1>5, <1>6, <1>7, EndTogether
<1>9. ResultOf(Talk!Completed(b, "explicit"))'
  BY <1>1, NothingSent, BurstSound
<1> QED
  BY <1>1, <1>8, <1>9 DEF ResultInv

LEMMA AdvanceStep ==
  ASSUME TalkInv, Talk!AdvanceGeneration
  PROVE  TalkInv'
<1> USE DEF TalkInv
<1>1. PICK lost \in SUBSET pending, gone \in SUBSET bursts :
        /\ pending' = pending \ lost /\ bursts' = bursts \ gone
        /\ result' = {Talk!Entry("snapshot", p.request, p.request.seq) : p \in lost}
                       \cup {Talk!Completed(b, "reconnect") : b \in gone}
        /\ Talk!Ended({p.request.seq : p \in lost} \cup {b.request.seq : b \in gone})
  BY DEF Talk!AdvanceGeneration, Talk!Returns, Talk!CutBy
<1>2. UNCHANGED <<reading, clock, generation, sent>> /\ known' = generation
  BY DEF Talk!AdvanceGeneration, Talk!world
<1>3. PICK numbers :
        numbers = {p.request.seq : p \in lost} \cup {b.request.seq : b \in gone}
  OBVIOUS
<1>4. known' = Absent \/ known' \in Int
  BY <1>2 DEF TalkShape
<1>5. Talk!Ended(numbers)
  BY <1>1, <1>3
<1>6. TalkShape' /\ PendingInv' /\ BurstInv' /\ EndsInv'
  BY <1>1, <1>2, <1>3, <1>4, <1>5, EndTogether
<1>7. \A p \in pending : p.request.of = p.request.seq
  BY SentOf DEF PendingInv, WaitingFor
<1>8. ASSUME NEW r \in result' PROVE ResultOf(r)'
  <2>1. CASE \E p \in lost : r = Talk!Entry("snapshot", p.request, p.request.seq)
    <3>1. PICK p \in lost : r = Talk!Entry("snapshot", p.request, p.request.seq)
      BY <2>1
    <3> QED
      BY <1>7, <3>1, TimedOut
  <2>2. CASE \E b \in gone : r = Talk!Completed(b, "reconnect")
    <3>1. PICK b \in gone : r = Talk!Completed(b, "reconnect")
      BY <2>2
    <3>2. ResultOf(Talk!Completed(b, "reconnect"))'
      BY <1>2, NothingSent, BurstSound
    <3> QED
      BY <3>1, <3>2 DEF Talk!Completed
  <2> QED
    BY <1>1, <2>1, <2>2
<1> QED
  BY <1>6, <1>8 DEF ResultInv

\* A pushed state that is accepted is of the newest connection.
LEMMA PushesStep ==
  ASSUME TalkInv, NEW g \in 0..MaxGeneration, NEW v, NEW k, NEW acted, Talk!Pushes(g, v, k, acted)
  PROVE  TalkInv'
<1> USE DEF TalkInv
<1>1. /\ UNCHANGED <<reading, clock, generation, sent, pending, bursts, ends>>
      /\ Talk!ObserveState(g, v, k, acted)
  BY DEF Talk!Pushes, Talk!world
<1>2. known' = IF (known # Absent /\ g > known) \/ known = Absent THEN g ELSE known
  BY <1>1 DEF Talk!ObserveState
<1>3. \E freshness : \/ Talk!Older(g) /\ result' = Talk!Pushed(g, freshness, FALSE)
                     \/ ~Talk!Older(g) /\ result' = Talk!Pushed(g, freshness, TRUE)
  BY <1>1 DEF Talk!ObserveState, Talk!Returns
<1>4. g \in Int /\ (known' = Absent \/ known' \in Int)
  BY <1>2 DEF TalkShape
<1>5. ~Talk!Older(g) => known' = g
  BY <1>2, <1>4 DEF Talk!Older, TalkShape
<1>6. PICK freshness, accepted :
        result' = {[kind |-> "state", of |-> Absent, tag |-> Absent, request |-> Absent,
                    generation |-> g, freshness |-> freshness, accepted |-> accepted]}
        /\ (accepted => ~Talk!Older(g))
  BY <1>3 DEF Talk!Pushed
<1>7. \A r \in result' : /\ r.request = Absent /\ "responses" \notin DOMAIN r
                         /\ r.accepted = accepted /\ r.generation = g
  BY <1>6
<1>8. ResultInv'
  BY <1>5, <1>6, <1>7 DEF ResultInv, ResultOf
<1>9. TalkShape'
  BY <1>1, <1>4 DEF TalkShape
<1>10. PendingInv' /\ BurstInv' /\ EndsInv'
  BY <1>1 DEF PendingInv, BurstInv, EndsInv, WaitingFor, ResponsesOf
<1> QED
  BY <1>8, <1>9, <1>10

LEMMA WorldStep ==
  ASSUME TalkInv, Talk!Tick \/ Talk!Reconnect
  PROVE  TalkInv'
<1> USE DEF TalkInv
<1>1. /\ result' = {} /\ UNCHANGED <<reading, sent, known, pending, bursts, ends>>
      /\ clock' \in Nat /\ clock <= clock' /\ generation' \in Nat
  BY DEF Talk!Tick, Talk!Reconnect, TalkShape
<1>2. TalkShape'
  <2>1. \A n \in 1..Len(sent) : sent[n].time <= clock'
    BY <1>1, SentOf DEF TalkShape
  <2> QED
    BY <1>1, <2>1 DEF TalkShape
<1>3. PendingInv' /\ BurstInv' /\ EndsInv' /\ ResultInv'
  BY <1>1 DEF PendingInv, BurstInv, EndsInv, WaitingFor, ResponsesOf, ResultInv
<1> QED
  BY <1>2, <1>3

LEMMA TalkStep ==
  ASSUME TalkInv, [Talk!Next]_(Talk!vars)
  PROVE  TalkInv'
<1>1. CASE UNCHANGED Talk!vars
  <2>1. UNCHANGED <<reading, clock, generation, sent, known, pending, bursts, ends, result>>
    BY <1>1 DEF Talk!vars
  <2>2. TalkShape' /\ PendingInv' /\ BurstInv' /\ EndsInv'
    BY <2>1 DEF TalkInv, TalkShape, PendingInv, BurstInv, EndsInv, WaitingFor, ResponsesOf
  <2>3. ResultInv'
    BY <2>1 DEF TalkInv, ResultInv, ResultOf, Talk!Unique, Talk!Waits
  <2> QED
    BY <2>2, <2>3 DEF TalkInv
<1>2. CASE Talk!Next
  BY <1>2, SendsStep, AnswersStep, PushesStep, EndBurstStep, AdvanceStep, FinishStep, WorldStep
     DEF Talk!Next
<1> QED
  BY <1>1, <1>2

LEMMA TalkIsSound ==
  ASSUME TalkInv
  PROVE  AttributionIsSound
<1>1. \A n \in DOMAIN ends : ends[n] <= 1
  BY DEF TalkInv, EndsInv
<1>2. \A r \in result : ResultOf(r)
  BY DEF TalkInv, ResultInv
<1> QED
  BY <1>1, <1>2 DEF AttributionIsSound, Talk!AttributionIsSound, ResultOf

\* A request ends once, and while it waits its answer is not given to another; a burst is in
\* order, in time and of one connection.
THEOREM DialogueAttributionIsSound == Talk!Spec => []AttributionIsSound
<1>1. TalkInv /\ [Talk!Next]_(Talk!vars) => TalkInv'
  BY TalkStep
<1> QED
  BY <1>1, TalkInit, TalkIsSound, PTL DEF Talk!Spec

=============================================================================
