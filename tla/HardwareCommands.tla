-------------------------- MODULE HardwareCommands --------------------------
(* The laboratory commands that write to a real mouse and must leave it as    *)
(* they found it: *_cli.py, with native_hid.py, hidpp_driver.py, the polling   *)
(* replay adapter of polling_replay.py, the store of learned_operations.py, and *)
(* the two reversible probes of research_probe.py.                             *)
(*                                                                            *)
(* A command is a script of steps and a cleanup. A step may fail after any     *)
(* part of its effect, by an error or by the user's Ctrl-C; the cleanup then   *)
(* closes what is open and restores the mouse, or prints a warning. "value" is *)
(* the DPI for the DPI commands and the polling rate for the others.           *)
EXTENDS Integers, Sequences, FiniteSets

CONSTANTS Values,            \* DPI values or polling rates
          Base, First, Second, \* the start value and the two targets
          None

\* The probes of the setup own one learned session and no native teacher.
Probes == {"dpi_probe", "polling_probe"}
DpiCommands == {"write_promotion", "dpi_generalization", "write_trace", "dpi_probe"}
RateCommands == {"polling_promotion", "polling_replay", "polling_state_machine",
                 "polling_host_trace", "polling_trace", "polling_verify", "polling_probe"}
Commands == DpiCommands \cup RateCommands

Modes == {"onboard", "host"}
Files == {"none", "corpus", "demonstrated", "proven"}

VARIABLES
  command,   \* the program that runs
  pc,        \* its next step
  phase,     \* "run", "closing", "restoring", "ended"
  trait,     \* what is given: a mouse with its own rate per mode, one that may be taken
             \* to Host mode, the values that a learned operation accepts
  found,     \* the mode and value before the command
  mode, value, \* the control mode, and the value that each mode applies
  original,  \* what the command recorded for restoration
  restore,   \* the cleanup will restore
  native, generic, \* the native backend and the learned adapter are open
  proved,    \* values that independent measurement found in force
  file,      \* what the command's file holds
  warned,    \* a failed restoration was printed
  abandoned  \* a second Ctrl-C fell into the cleanup

vars == <<command, pc, phase, trait, found, mode, value, original, restore, native,
          generic, proved, file, warned, abandoned>>
dev == <<trait, found, mode, value>>
book == <<original, restore, proved, file, warned, abandoned>>

Live == value[mode]
Put(m, v) == IF trait.own THEN [value EXCEPT ![m] = v] ELSE [n \in Modes |-> v]

Restored == mode = found.mode /\ Live = found.value

-----------------------------------------------------------------------------
(* The scripts: what each main() does between try and finally, in order.      *)

Plain(kind) == [do |-> kind, to |-> None]
Aim(kind, v) == [do |-> kind, to |-> v]

\* A learned write and the independent measurement of its effect.
Replays(v) == <<Aim("replay", v), Aim("measure", v)>>

WritePromotion ==
  <<Plain("prepare"), Plain("bind"), Plain("record"), Aim("teach", Base), Plain("need"),
    Aim("measure", Base), Plain("release"), Plain("open")>>
    \o Replays(First) \o <<Plain("promote")>>

DpiGeneralization ==
  <<Plain("prepare"), Plain("bind"), Plain("record"), Aim("teach", Base), Aim("measure", Base),
    Plain("release"), Plain("open"), Aim("replay", Base)>>
    \o Replays(First) \o Replays(Second)

WriteTrace ==
  <<Plain("prepare"), Plain("bind"), Plain("record"), Aim("teach", First), Aim("teach", Second),
    Plain("demonstrate")>>

PollingPromotionStarts ==
  <<Plain("prepare"), Plain("bind"), Plain("record"), Aim("teach", Base), Plain("onboard"),
    Aim("check", Base), Plain("release"), Plain("open")>>

\* The baseline is one of the demonstrated rates, and every one of them is measured.
PollingPromotionProves ==
  Replays(First) \o Replays(Second) \o Replays(Base)
    \o <<Plain("shut"), Plain("bind"), Plain("rollback"), Plain("promote")>>

PollingPromotion == PollingPromotionStarts \o PollingPromotionProves

PollingReplay ==
  <<Plain("prepare"), Plain("bind"), Plain("record"), Plain("onboard"), Plain("release"),
    Plain("open")>>
    \o Replays(First)

PollingStateMachine ==
  <<Plain("prepare"), Plain("bind"), Plain("record"), Plain("onboard"), Plain("release"),
    Plain("open")>>
    \o Replays(First) \o Replays(Second)

\* Each demonstration starts from another rate in Host mode, outside the capture.
PollingHostTrace ==
  <<Plain("prepare"), Plain("bind"), Plain("record"),
    Aim("teach", Base), Aim("check", Base), Aim("teach", First), Aim("check", First),
    Aim("teach", Base), Aim("check", Base), Aim("teach", Second), Aim("check", Second),
    Plain("corpus")>>

\* Each demonstration starts from Onboard mode; the estimate decides nothing.
PollingTrace ==
  <<Plain("prepare"), Plain("bind"), Plain("record"),
    Plain("onboard"), Aim("teach", First), Plain("observe"),
    Plain("onboard"), Aim("teach", Second), Plain("observe"), Plain("corpus")>>

PollingVerify ==
  <<Plain("prepare"), Plain("bind"), Plain("record"),
    Aim("teach", First), Aim("check", First), Plain("observe"),
    Aim("teach", Second), Aim("check", Second), Plain("observe")>>

\* The emergency rollback is armed by a readback, never by the write itself.
ProbeReplays == <<Aim("replay", First), Plain("need"), Aim("measure", First),
                  Aim("replay", Base), Plain("clear")>>

DpiProbe ==
  <<Plain("prepare"), Plain("open"), Plain("record"), Aim("measure", Base)>>
    \o ProbeReplays \o <<Aim("measure", Base)>>

PollingProbe ==
  <<Plain("prepare"), Plain("record"), Aim("measure", Base), Plain("open")>>
    \o ProbeReplays \o <<Aim("measure", Base)>>

Scripts ==
  [write_promotion |-> WritePromotion, dpi_generalization |-> DpiGeneralization,
   write_trace |-> WriteTrace, dpi_probe |-> DpiProbe,
   polling_promotion |-> PollingPromotion, polling_replay |-> PollingReplay,
   polling_state_machine |-> PollingStateMachine, polling_host_trace |-> PollingHostTrace,
   polling_trace |-> PollingTrace, polling_verify |-> PollingVerify,
   polling_probe |-> PollingProbe]

Script(c) == Scripts[c]

\* The values a promotion must have seen in force: the start and the target of a DPI
\* operation, every rate of a polling operation.
Required(c) == IF c = "write_promotion" THEN {Base, First} ELSE trait.accepts

Running == phase = "run" /\ pc <= Len(Script(command))
At(kind) == Running /\ Script(command)[pc].do = kind
Goal == Script(command)[pc].to
Advance == pc' = pc + 1 /\ UNCHANGED <<command, phase>>

\* The start and target of a DPI promotion are of the demonstrated values, which may be
\* more; a polling promotion refuses rates that are not all the demonstrated ones.
Accepted(c) ==
  IF c = "write_promotion" THEN {{Base, First}, {Base, First, Second}}
  ELSE {{Base, First, Second}}

Init ==
  /\ command \in Commands
  /\ pc = 1 /\ phase = "run"
  /\ trait \in [own : BOOLEAN, takes : BOOLEAN, accepts : Accepted(command)]
  /\ command \in DpiCommands => ~trait.own
  /\ mode \in Modes
  /\ value \in [Modes -> {First, Base}]
  /\ command \in Probes => value[mode] = Base
  /\ trait.own \/ value["host"] = value["onboard"]
  /\ found = [mode |-> mode, value |-> Live]
  /\ original = None /\ restore = FALSE
  /\ native = FALSE /\ generic = FALSE /\ proved = {}
  /\ file = IF command = "write_promotion" THEN "demonstrated" ELSE "none"
  /\ warned = FALSE /\ abandoned = FALSE

-----------------------------------------------------------------------------
(* The steps                                                                  *)

\* Identity, profiles and arguments are checked; a refusal is a StepFails.
Prepare == /\ At("prepare")
           /\ Advance /\ UNCHANGED <<dev, book, native, generic>>

Bind == /\ At("bind")
        /\ native' = TRUE
        /\ Advance /\ UNCHANGED <<dev, book, generic>>

\* The promotion of a DPI write and the probes restore on a flag that a later step sets.
Record == /\ At("record")
          /\ original' = [mode |-> mode, value |-> Live]
          /\ restore' = (command \notin Probes \cup {"write_promotion"})
          /\ Advance /\ UNCHANGED <<dev, native, generic, proved, file, warned, abandoned>>

Need == /\ At("need")
        /\ restore' = TRUE
        /\ Advance
        /\ UNCHANGED <<dev, native, generic, original, proved, file, warned, abandoned>>

Clear == /\ At("clear")
         /\ restore' = FALSE
         /\ Advance
         /\ UNCHANGED <<dev, native, generic, original, proved, file, warned, abandoned>>

\* A polling rate is written in Host mode only; the mouse may not allow the takeover.
CanTake == command \in DpiCommands \/ mode = "host" \/ trait.takes
WriteMode == IF command \in DpiCommands THEN mode ELSE "host"

Teach == /\ At("teach") /\ CanTake
         /\ mode' = WriteMode
         /\ value' = Put(WriteMode, Goal)
         /\ Advance /\ UNCHANGED <<trait, found, book, native, generic>>

SetOnboard == /\ At("onboard")
              /\ mode' = "onboard"
              /\ Advance /\ UNCHANGED <<trait, found, value, book, native, generic>>

Check == /\ At("check") /\ Live = Goal
         /\ Advance /\ UNCHANGED <<dev, book, native, generic>>

Release == /\ At("release")
           /\ native' = FALSE
           /\ Advance /\ UNCHANGED <<dev, book, generic>>

OpenAdapter == /\ At("open")
               /\ generic' = TRUE
               /\ Advance /\ UNCHANGED <<dev, book, native>>

\* Faulty variant: a request with an unresolved wildcard is sent.
ReplayUnrendered ==
  /\ At("replay")
  /\ mode' = WriteMode /\ value' = Put(WriteMode, None)
  /\ Advance /\ UNCHANGED <<trait, found, book, native, generic>>

\* The readback agreed; an operation that was learned wrongly may not have written.
Replay == /\ At("replay")
          /\ \/ mode' = WriteMode /\ value' = Put(WriteMode, Goal)
             \/ UNCHANGED <<mode, value>>
          /\ Advance /\ UNCHANGED <<trait, found, book, native, generic>>

\* Faulty variant: a summary is taken without comparing it with the target.
MeasureAnything ==
  /\ At("measure")
  /\ proved' = proved \cup {Live}
  /\ Advance
  /\ UNCHANGED <<dev, native, generic, original, restore, file, warned, abandoned>>

Measure == /\ At("measure") /\ Live = Goal
           /\ proved' = proved \cup {Live}
           /\ Advance
           /\ UNCHANGED <<dev, native, generic, original, restore, file, warned, abandoned>>

Observe == /\ At("observe")
           /\ Advance /\ UNCHANGED <<dev, book, native, generic>>

ShutAdapter == /\ At("shut")
               /\ generic' = FALSE
               /\ Advance /\ UNCHANGED <<dev, book, native>>

\* set_polling_rate, then the recorded mode, then both are read back. A probe writes
\* the original value with the learned operation, which may be learned wrongly, and leaves
\* the mode.
PutBack ==
  \/ /\ command \in Probes
     /\ \/ mode' = WriteMode /\ value' = Put(WriteMode, original.value)
        \/ UNCHANGED <<mode, value>>
  \/ /\ command \notin Probes /\ CanTake
     /\ LET set == Put(WriteMode, original.value)
        IN  /\ value' = set
            /\ mode' = original.mode
            /\ command = "polling_promotion" => set[original.mode] = original.value

Rollback == /\ At("rollback")
            /\ PutBack
            /\ restore' = FALSE /\ native' = FALSE
            /\ Advance
            /\ UNCHANGED <<trait, found, generic, original, proved, file, warned, abandoned>>

\* A promoted operation keeps every value that it accepts, those also that only the
\* demonstration has shown (trait.accepts stays).
Save(kind, what) ==
  /\ At(kind)
  /\ file' = what
  /\ Advance
  /\ UNCHANGED <<dev, native, generic, original, restore, proved, warned, abandoned>>

Promote == Save("promote", "proven")
SaveCorpus == Save("corpus", "corpus")
Demonstrate == Save("demonstrate", "demonstrated")

-----------------------------------------------------------------------------
(* Failure and cleanup                                                        *)

\* What a write that raises may leave: the mode taken or rolled back, the value
\* written or not.
PartialWrite ==
  \/ UNCHANGED <<mode, value>>
  \/ /\ CanTake \/ At("replay")
     /\ mode' \in {mode, WriteMode} /\ value' \in {value, Put(WriteMode, Goal)}

PartialOnboard == mode' \in {mode, "onboard"} /\ UNCHANGED value

\* The commands that close the native backend in an inner finally.
ClosesTeacher(c) == c \notin {"write_trace", "polling_host_trace", "polling_trace",
                              "polling_verify"}

StepFails ==
  /\ Running
  /\ \/ (At("teach") \/ At("replay")) /\ PartialWrite
     \/ At("onboard") /\ PartialOnboard
     \/ At("rollback") /\ PutBack
     \/ UNCHANGED <<mode, value>>
  /\ phase' = "closing"
  /\ native' = (native /\ ~ClosesTeacher(command))
  /\ UNCHANGED <<command, pc, trait, found, generic, book>>

Completes ==
  /\ phase = "run" /\ pc > Len(Script(command))
  /\ phase' = "closing"
  /\ UNCHANGED <<command, pc, dev, book, native, generic>>

\* A probe restores through its learned session, which stays open for that.
CloseAdapter ==
  /\ phase = "closing"
  /\ generic' = (generic /\ restore /\ command \in Probes)
  /\ phase' = "restoring"
  /\ native' = (native \/ (restore /\ command \notin Probes))
  /\ UNCHANGED <<command, pc, dev, book>>

RestoreSucceeds ==
  /\ phase = "restoring" /\ restore
  /\ PutBack
  /\ phase' = "ended" /\ native' = FALSE /\ generic' = FALSE
  /\ UNCHANGED <<command, pc, trait, found, book>>

\* Faulty variant: only a restoration that could not begin is reported.
RestoreFailsSilently ==
  /\ phase = "restoring" /\ restore
  /\ warned' = ~CanTake
  /\ phase' = "ended" /\ native' = FALSE /\ generic' = FALSE
  /\ UNCHANGED <<command, pc, dev, original, restore, proved, file, abandoned>>

RestoreFails ==
  /\ phase = "restoring" /\ restore
  /\ \/ UNCHANGED <<mode, value>>
     \/ /\ CanTake \/ command \in Probes
        /\ mode' \in {mode, WriteMode} /\ value' = Put(WriteMode, original.value)
  /\ warned' = TRUE
  /\ phase' = "ended" /\ native' = FALSE /\ generic' = FALSE
  /\ UNCHANGED <<command, pc, trait, found, original, restore, proved, file, abandoned>>

\* KeyboardInterrupt is not an Exception: it leaves the cleanup without a warning.
CleanupInterrupted ==
  /\ phase \in {"closing", "restoring"}
  /\ abandoned' = TRUE
  /\ phase' = "ended" /\ native' = FALSE /\ generic' = FALSE
  /\ UNCHANGED <<command, pc, dev, original, restore, proved, file, warned>>

NothingToRestore ==
  /\ phase = "restoring" /\ ~restore
  /\ phase' = "ended" /\ native' = FALSE
  /\ UNCHANGED <<command, pc, dev, book, generic>>

Next ==
  \/ Prepare \/ Bind \/ Record \/ Need \/ Clear \/ Teach \/ SetOnboard \/ Check \/ Release
  \/ OpenAdapter
  \/ Replay \/ Measure \/ Observe \/ ShutAdapter \/ Rollback
  \/ Promote \/ SaveCorpus \/ Demonstrate
  \/ StepFails \/ Completes \/ CloseAdapter \/ RestoreSucceeds \/ RestoreFails
  \/ CleanupInterrupted \/ NothingToRestore

Spec == Init /\ [][Next]_vars

-----------------------------------------------------------------------------
(* Properties                                                                 *)

TypeOK ==
  /\ command \in Commands
  /\ pc \in Nat \ {0}
  /\ phase \in {"run", "closing", "restoring", "ended"}
  /\ trait \in [own : BOOLEAN, takes : BOOLEAN, accepts : SUBSET Values]
  /\ mode \in Modes /\ value \in [Modes -> Values]
  /\ found \in [mode : Modes, value : Values]
  /\ original \in {None} \cup [mode : Modes, value : Values]
  /\ {restore, native, generic, warned, abandoned} \subseteq BOOLEAN
  /\ proved \subseteq Values
  /\ file \in Files

\* A promotion saves its operation as PROVEN only after measurement found in force the start
\* and the target of a DPI operation, or every rate that a polling operation accepts, even if
\* the readback of a wrongly learned one lied; and a polling operation only while the mouse is
\* back in the state that was recorded. (The other values that a DPI operation accepts become
\* PROVEN with the target, unmeasured: so much the code asks, and no more.)
PromotionIsEarned ==
  [][file' = "proven" =>
       /\ Required(command) \subseteq proved
       /\ command = "polling_promotion" => Restored]_file

\* However one of the laboratory commands ends, the mouse has its original mode and value
\* again, or the user was told that it has not, unless a second Ctrl-C cut the cleanup short:
\* eight commands from their first step on, write_promotion from the step that arms its
\* restoration, which comes after its first write. The two probes promise less: one that went
\* through to its end left the value that it found in force, whatever the readback of a
\* wrongly learned operation said; of one that fails on its way nothing is claimed, for it
\* only restores what it knows that it changed (research_probe.py:196).
EndsRestoredOrWarned ==
  /\ phase = "ended" /\ command \notin Probes /\ (command = "write_promotion" => restore)
       => Restored \/ warned \/ abandoned
  /\ command \in Probes /\ pc > Len(Script(command)) => Live = found.value
=============================================================================
