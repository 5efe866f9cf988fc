------------------------------ MODULE Laboratory ------------------------------
(* What the laboratory does to a mouse and what it keeps of it: a command with  *)
(* its cleanup (HardwareCommands), and the files of what was learned            *)
(* (LearnedStores), from which the runtime and later commands take operations.  *)
(* Besides, what is read: from a Razer mouse, whose register two processes share *)
(* (NativeRazer), of the transfers on a bus (UsbCapture), and by a passive      *)
(* reader of the reports that pass (Dialogue). They share no variable: a command *)
(* has one result file, of which only the status counts, and the stores a       *)
(* command, of which what it has learned counts; the readers keep nothing.      *)
EXTENDS Integers, Sequences, FiniteSets

CONSTANTS
  Settings, Base, First, Second, \* DPI values or polling rates of the commands
  Mice, Models, Units, Unit, Twins, Rates, MinRates, MaxEvidence, \* see LearnedStores
  Interfaces, Resolutions, Intervals, Attempts, Operations, MaxCalls, MaxTouches, \* NativeRazer
  Urbs, Endpoints, EndTypes, Room, MaxTransfers, MaxCaptures, MaxDisturbances, \* UsbCapture
  Tags, Channels, Window, Quiet, Deadline, MaxResponses, NudgeWindow, MaxGap, MaxTime, MaxRequests,
  MaxGeneration, \* Dialogue
  Absent

\* The program knows these calls, and the kernel some interfaces of a mouse.
ASSUME OperationsAreKnown ==
  \A p \in DOMAIN Operations :
    Operations[p] \subseteq {"get_dpi", "set_dpi", "get_rate", "set_rate", "battery", "teach"}
ASSUME InterfacesAreListed ==
  DOMAIN Interfaces = 1..Len(Interfaces) /\ Len(Interfaces) \in Nat \ {0}

\* A transfer does not end by a submission; an observation and a capture are something, and
\* so is an anomaly.
ASSUME EndsAreNoSubmissions == "submit" \notin EndTypes
ASSUME AbsentIsNothing ==
  /\ Absent \notin [urb : Urbs, type : {"submit"} \cup EndTypes, transfer : Nat, time : Int,
                    address : Nat, endpoint : Endpoints, large : BOOLEAN,
                    capture : Nat, sequence : Nat]
  /\ Absent \notin [id : Nat, selection : Nat, sequence : Nat]
  /\ Absent \notin {"missing_submit", "missing_completion", "reused_urb", "event_mismatch",
                    "capture_boundary"}

\* Times are ticks.
ASSUME DeadlineIsTime == Deadline \in Nat

VARIABLES
  command, pc, at, trait, found, mode, value, original, restore, native, generic, proved,
  file, warned, abandoned,
  kind, model, files, branch, held, temp, measured,
  responders, extended, marks, resolution, interval, asked, register, doing, owned, bound,
  concluded, since, taken, touches,
  address, flying, ticks, buffer, watching, submitted, noted, assembled, given, transfers,
  captured, jolts,
  reading, clock, generation, sent, known, pending, bursts, nudges, history, result, ends

commandVars == <<command, pc, at, trait, found, mode, value, original, restore, native, generic,
                 proved, file, warned, abandoned>>
storeVars == <<kind, model, files, branch, held, temp, measured>>
razerVars == <<responders, extended, marks, resolution, interval, asked, register, doing, owned,
               bound, concluded, since, taken, touches>>
busVars == <<address, flying, ticks, buffer, watching, submitted, noted, assembled, given,
             transfers, captured, jolts>>
dialogueVars == <<reading, clock, generation, sent, known, pending, bursts, nudges, history,
                  result, ends>>

H == INSTANCE HardwareCommands WITH phase <- at, Values <- Settings, None <- Absent
L == INSTANCE LearnedStores WITH None <- Absent
Razer == INSTANCE NativeRazer WITH
  dpi <- resolution, rate <- interval, pending <- asked, call <- doing, open <- owned,
  outcome <- concluded, calls <- taken, presses <- touches, Dpis <- Resolutions,
  Rates <- Intervals, MaxPresses <- MaxTouches, None <- Absent
Usb == INSTANCE UsbCapture WITH
  clock <- ticks, capture <- watching, pending <- submitted, seen <- noted,
  transactions <- assembled, captures <- captured, disturbances <- jolts, None <- Absent
Talk == INSTANCE Dialogue WITH use <- reading, None <- Absent

\* However a laboratory command ends that has armed its restoration, the mouse is as it was
\* found, or the user was told or cut the cleanup short; eight of nine arm it before they
\* write. A probe that went through left the value that it found (HardwareCommands).
EndsRestoredOrWarned == H!EndsRestoredOrWarned

\* A DPI operation is saved as PROVEN after its start and one target were measured, a polling
\* operation after every rate was and while the mouse is as it was found (HardwareCommands).
PromotionIsEarned == H!PromotionIsEarned

\* What a lookup returns is whole, of the mouse's unit, and has earned its authority
\* (LearnedStores).
LookupIsSound == L!LookupIsSound

\* Two processes share the register of a Razer mouse: a confirmed write is never a foreign
\* answer alone, and a mouse that shows a waiting request tells neither an old value
\* (NativeRazer).
RegisterIsShared == Razer!RegisterIsShared

\* What a capture holds of the bus is in one transaction, with no foreign end and nothing called
\* missing that is there (UsbCapture).
TransfersAreAccounted == Usb!TransfersAreAccounted

\* An answer is given to the request that caused it or to none while that request waits, and a
\* request ends once (Dialogue).
AttributionIsSound == Talk!AttributionIsSound

===============================================================================
