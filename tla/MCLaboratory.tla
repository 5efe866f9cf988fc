---------------------------- MODULE MCLaboratory ----------------------------
(* The laboratory's parts on small instances. Each is checked alone: one of    *)
(* them moves, the subject, and the others stay where they start.              *)
EXTENDS TransactionEngine, Laboratory, TLC

CONSTANTS m1, m2, m3, u1, u2, A, B

-----------------------------------------------------------------------------
(* Transactions: the learned DPI write and read, the polling change, a write    *)
(* that is retried, one that needs it, an unclassified one, a passive listener. *)

Step(does, retries, checks) ==
  [kind |-> does, sends |-> does # "wait", retries |-> retries, checks |-> checks]

MCSteps ==
  [dpi |-> <<Step("write", 0, FALSE), Step("read", 0, TRUE)>>,
   query |-> <<Step("read", 0, FALSE)>>,
   rate |-> <<Step("take", 0, FALSE), Step("write", 0, FALSE), Step("read", 0, FALSE)>>,
   config |-> <<Step("write", 1, FALSE), Step("wait", 0, FALSE), Step("read", 1, TRUE)>>,
   light |-> <<Step("write", 1, FALSE)>>,
   erase |-> <<Step("write", 0, FALSE)>>,
   input |-> <<[Step("read", 0, FALSE) EXCEPT !.sends = FALSE]>>]

MCSafety == [dpi |-> "reversible", query |-> "read_only", rate |-> "reversible",
             config |-> "persistent", light |-> "reversible", erase |-> "unknown",
             input |-> "read_only"]

MCNeeds == [t \in DOMAIN MCSteps |->
              CASE t = "config" -> {"dpi"} [] t = "light" -> {"config"} [] OTHER -> {}]

MCGrants == {{"passive"}, {"passive", "active"}, {"passive", "reversible"}, Permissions}

-----------------------------------------------------------------------------
(* The stores: two mice that show who they are, and one that does not         *)

MCUnit == m1 :> u1 @@ m2 :> u2 @@ m3 :> None

-----------------------------------------------------------------------------
(* What a passive observer reads                                              *)

VARIABLES frames, link, newest, open, records

recordVars == <<frames, link, newest, open, records>>

R == INSTANCE LogicalRecords WITH Streams <- {1, 2}, Bytes <- {0, 1, 2}, Padding <- 0, Marker <- 2,
                                  Protected <- 1, Adjustment <- 1, MinLength <- 2, MaxLength <- 3,
                                  Wire <- 2, MaxFrames <- 3, MaxGeneration <- 1

-----------------------------------------------------------------------------
(* A HID++ mouse of two stages that another process disturbs once; and the calls of   *)
(* two processes on a Razer mouse                                                     *)

VARIABLES
  gear, slot, hertz, plugged, wire, inbound, indexes, calls, waiter, stopped, ended, reader,
  queue, display, answered, seen, disturbances, requests, presses

sessionVars == <<gear, slot, hertz, plugged, wire, inbound, indexes, calls, waiter, stopped, ended,
                 reader, queue, display, answered, seen, disturbances, requests, presses>>

Hidpp == INSTANCE HidppSession WITH
  dpi <- gear, stage <- slot, rate <- hertz, input <- inbound, features <- indexes, call <- calls,
  closed <- ended, shown <- display, outcome <- answered, since <- seen, commands <- requests,
  Features <- <<"dpi", "profiles", "rate">>, Index <- [dpi |-> 1, profiles |-> 2, rate |-> 3],
  Stages <- <<11, 12>>, Rates <- {21}, MaxCommands <- 1, MaxPresses <- 2, MaxDisturbances <- 1

MCOperations == [setup |-> {"set_dpi", "get_dpi", "teach"},
                 command |-> {"set_dpi", "set_rate", "get_rate", "battery"}]
MCInterfaces == <<1, 2>>

-----------------------------------------------------------------------------
(* Twelve mice with an automatic backend: events and answers that differ by report or   *)
(* length, or do not; a trigger; two nodes of one interface; an adapter first or last;    *)
(* another unit's profile                                                                  *)

At(number, interface, type) == [path |-> number, interface |-> interface, type |-> type]
Pattern(length, first) == [length |-> length, first |-> first]
Source(interface, type, length, report, cycle) ==
  [kind |-> IF type = "hid" THEN "hid_state" ELSE "evdev_absolute_stage", type |-> type,
   interface |-> interface, length |-> length, report |-> report, cycle |-> cycle,
   authorized |-> FALSE, values |-> <<11, 12>>]
Profile(unit, sources) == [model |-> A, unit |-> unit, sources |-> sources]
Operation(unit, interface, replies) ==
  [model |-> A, unit |-> unit, interface |-> interface, type |-> "hid", proven |-> TRUE,
   replies |-> replies]
Button(first) ==
  [model |-> A, unit |-> None, interface |-> "a", type |-> "hid",
   press |-> [length |-> 8, first |-> first, raw |-> 1]]
Emitted(interface, type, first, raw) ==
  [interface |-> interface, type |-> type, length |-> 8, first |-> first, raw |-> raw]
Driver(accepts, monitors, sets, events, rates) ==
  [accepts |-> accepts, monitors |-> monitors, writes |-> sets, events |-> events, rates |-> rates]

State8 == Source("a", "hid", 8, 4, FALSE)
AnyReport == Source("a", "hid", 8, 0, TRUE)
Key == Source("e", "evdev", 0, 7, TRUE)
Same8 == Operation(u1, "a", <<Pattern(8, 5), Pattern(8, 5)>>)
Mixed(interface) == Operation(u1, interface, <<Pattern(8, 5), Pattern(20, 5)>>)

Plain ==
  [model |-> A, unit |-> u1, ambiguous |-> FALSE, profiles |-> {Profile(u1, {State8})},
   nodes |-> {At(1, "a", "hid"), At(2, "b", "hid"), At(3, "e", "evdev")},
   operations |-> {}, pollings |-> {}, actions |-> {}, adapters |-> <<>>,
   events |-> <<Emitted("a", "hid", 4, None)>>]

MCWorlds ==
  {Plain, [Plain EXCEPT !.ambiguous = TRUE],
   [Plain EXCEPT !.operations = {Operation(u1, "a", <<Pattern(20, 5), Pattern(20, None)>>)}],
   [Plain EXCEPT !.operations = {Same8}, !.pollings = {Operation(None, "a", <<Pattern(8, None)>>)}],
   [Plain EXCEPT !.operations = {Same8},
                 !.pollings = {Operation(None, "b", <<Pattern(20, None)>>)}],
   [Plain EXCEPT !.profiles = {Profile(None, {AnyReport})}, !.operations = {Same8}],
   [Plain EXCEPT !.profiles = {}, !.operations = {Mixed("a")}, !.actions = {Button(6)},
                 !.events = <<Emitted("a", "hid", 6, 1), Emitted("a", "hid", 4, None)>>],
   [Plain EXCEPT !.operations = {Mixed("a")}, !.actions = {Button(5)},
                 !.events = <<Emitted("a", "hid", 5, 1)>>],
   [Plain EXCEPT !.operations = {Mixed("b")}, !.actions = {Button(6)},
                 !.profiles = {Profile(u2, {State8}), Profile(u1, {Key})},
                 !.events = <<Emitted("e", "evdev", 7, None)>>],
   [Plain EXCEPT !.nodes = {At(4, "a", "hid"), At(5, "a", "hid")}, !.operations = {Mixed("a")},
                 !.events = <<>>, !.profiles = {Profile(u1, {Key})},
                 !.adapters = <<Driver(FALSE, TRUE, TRUE, TRUE, TRUE),
                                Driver(TRUE, TRUE, TRUE, FALSE, FALSE)>>],
   [Plain EXCEPT !.unit = u2,
                 !.operations = {Operation(u2, "a", <<Pattern(8, 5), Pattern(20, 5)>>)},
                 !.profiles = {Profile(u1, {State8}), Profile(u2, {State8, Key})},
                 !.adapters = <<Driver(TRUE, FALSE, FALSE, TRUE, TRUE)>>],
   [Plain EXCEPT !.unit = u2,
                 !.profiles = {Profile(u1, {[State8 EXCEPT !.values = <<12, 13>>]})}]}

VARIABLES
  around, mayWrite, attached, said, channels, watcher, transaction, unanswered, packets, current,
  been, confused, moves, asks, clicks

backendVars == <<around, mayWrite, attached, said, channels, watcher, transaction, unanswered,
                 packets, current, been, confused, moves, asks, clicks>>

Backend == INSTANCE LearnedBackend WITH
  world <- around, writes <- mayWrite, bound <- attached, lastDpi <- said, sessions <- channels,
  watch <- watcher, call <- transaction, owed <- unanswered, wire <- packets, dpi <- current,
  mistakes <- confused, changes <- moves, calls <- asks, presses <- clicks,
  Worlds <- MCWorlds, Stage <- [d \in {11, 12} |-> d - 10],
  MaxChanges <- 1, MaxCalls <- 1, MaxPresses <- 1

-----------------------------------------------------------------------------
(* One part moves                                                             *)

VARIABLE subject

Parts ==
  {"engine", "commands", "stores", "dialogue", "records", "session", "razer", "bus", "backend"}

\* A part that is not the subject makes one choice at its start.
Start(part, init, choice) == init /\ (subject = part \/ choice)

\* All mice start with one model.
MCInit ==
  /\ subject \in Parts
  /\ Start("engine", Init, device = 1 /\ host = FALSE)
  /\ Start("commands", H!Init,
           command = "dpi_probe" /\ ~trait.own /\ ~trait.takes /\ mode = "host")
  /\ Start("stores", L!Init, kind = "dpi") /\ model = [m \in DOMAIN model |-> A]
  /\ Start("dialogue", Talk!Init, reading = "state")
  /\ R!Init
  /\ Hidpp!Init
  /\ Start("razer", Razer!Init, responders = {1} /\ extended = FALSE /\ marks = FALSE)
  /\ Usb!Init
  /\ Start("backend", Backend!Init, around = Plain /\ mayWrite = FALSE /\ current = 11)

\* The files of operations are checked without firmware updates.
MCNext ==
  /\ IF subject = "engine" THEN Next ELSE UNCHANGED vars
  /\ IF subject = "commands" THEN H!Next ELSE UNCHANGED commandVars
  /\ IF subject = "stores" THEN L!Next /\ (L!Operation => model' = model) ELSE UNCHANGED storeVars
  /\ IF subject = "dialogue" THEN Talk!Next ELSE UNCHANGED dialogueVars
  /\ IF subject = "records" THEN R!Next ELSE UNCHANGED recordVars
  /\ IF subject = "session" THEN Hidpp!Next ELSE UNCHANGED sessionVars
  /\ IF subject = "razer" THEN Razer!Next ELSE UNCHANGED razerVars
  /\ IF subject = "bus" THEN Usb!Next ELSE UNCHANGED busVars
  /\ IF subject = "backend" THEN Backend!Next ELSE UNCHANGED backendVars
  /\ UNCHANGED subject

MCSpec ==
  MCInit /\ [][MCNext]_<<subject, vars, commandVars, storeVars, dialogueVars, recordVars,
                          sessionVars, razerVars, busVars, backendVars>>

-----------------------------------------------------------------------------

\* The type invariant of the part that moves.
LaboratoryTypeOK ==
  CASE subject = "engine" -> TypeOK
    [] subject = "commands" -> H!TypeOK
    [] subject = "stores" -> L!TypeOK
    [] subject = "dialogue" -> Talk!TypeOK
    [] subject = "records" -> R!TypeOK
    [] subject = "session" -> Hidpp!TypeOK
    [] subject = "razer" -> Razer!TypeOK
    [] subject = "bus" -> Usb!TypeOK
    [] subject = "backend" -> Backend!TypeOK

\* A record is cut whole out of one stream of one connection, and ends with it (LogicalRecords).
RecordsAreWhole == subject = "records" => R!RecordsAreWhole

\* What a HID++ mouse is said to have confirmed was in force after it was written; undisturbed, its
\* features are where they were found and the watcher catches up with its button (HidppSession).
HidppSessionIsSound == subject = "session" => Hidpp!SessionIsSound

\* On an interface where events are watched, an answer is not shown as an event and an event does
\* not confirm (LearnedBackend).
BackendIsSound == subject = "backend" => Backend!BackendIsSound

=============================================================================
