----------------------------- MODULE SetupPages -----------------------------
(* The pages of the setup application and the keys that move among them:       *)
(* NavigationState and SetupController of setup_tui.py, and the Lab views that *)
(* setup_tui_curses.py keeps above the Lab page.                               *)
(*                                                                            *)
(* "can" is what the last discovery found; the operations behind the rows      *)
(* (SetupSession) only matter here for how they change it.                     *)
EXTENDS Integers, Sequences, SequencesExt

CONSTANTS NDevices,   \* mice offered on the first page
          NStages,    \* DPI stages in the configuration
          MaxHistory  \* bound on remembered pages

Sections == <<"DEVICE", "HARDWARE", "LAB", "DPI", "POLLING", "BUTTONS", "LIGHTING",
              "SERVICE", "UPDATE", "TOOLS", "ABOUT", "REVIEW">>
Pages == Range(Sections)
Editable == {"DPI", "POLLING", "BUTTONS", "LIGHTING"}
Views == {"groups", "tools", "detail", "vendor"}
Traits == {"dpi", "polling", "guided", "lighting", "complete", "update"}

VARIABLES section, history, returning, \* NavigationState; return_to is REVIEW or None
          row, deviceRow, bound,       \* row_cursor, device_cursor, selected_index
          can,                         \* the traits that discovery found
          views                        \* _lab_views, the last one shown

vars == <<section, history, returning, row, deviceRow, bound, can, views>>

At(s) == CHOOSE i \in DOMAIN Sections : Sections[i] = s
Clamped(i) == IF i < 1 THEN 1 ELSE IF i > Len(Sections) THEN Len(Sections) ELSE i

\* How many rows a page offers, by what the mouse can do (two rates, two zones).
RowCount(s) ==
  CASE s = "DEVICE" -> NDevices
    [] s = "HARDWARE" -> IF "guided" \in can THEN 4 ELSE 3
    [] s = "LAB" -> 4
    [] s = "DPI" -> IF "dpi" \in can THEN NStages ELSE 1
    [] s = "POLLING" -> IF "polling" \in can THEN 3 ELSE 1
    [] s = "LIGHTING" -> IF "lighting" \in can THEN 2 ELSE 1
    [] s = "SERVICE" -> 6
    [] s = "UPDATE" -> IF "update" \in can THEN 2 ELSE 1
    [] s = "TOOLS" -> 8
    [] s = "REVIEW" -> 5
    [] OTHER -> 1

\* The next and the previous configuration page: read-only pages are skipped.
NextPage(s) ==
  CASE s \in {"HARDWARE", "LAB"} /\ "dpi" \in can -> "DPI"
    [] s \in {"HARDWARE", "LAB", "DPI"} /\ "polling" \in can -> "POLLING"
    [] OTHER -> "BUTTONS"

PreviousPage(s) ==
  CASE s = "LIGHTING" -> "BUTTONS"
    [] s = "BUTTONS" /\ "polling" \in can -> "POLLING"
    [] s \in {"BUTTONS", "POLLING"} /\ "dpi" \in can -> "DPI"
    [] OTHER -> "HARDWARE"

\* NavigationState.go; past MaxHistory the oldest page is dropped, so that BACK
\* may then take its default page earlier than the program does.
Recent(h) == IF Len(h) > MaxHistory THEN Tail(h) ELSE h
Go(s, remember) ==
  /\ section' = s
  /\ history' = IF remember /\ s # section THEN Recent(Append(history, section)) ELSE history

\* Faulty variant: the cursor stays where it was on the page before.
FirstRowKept(s) == IF s = "DEVICE" THEN deviceRow ELSE row

FirstRow(s) == IF s = "DEVICE" THEN deviceRow ELSE 0

Init ==
  /\ section = "DEVICE" /\ history = <<>> /\ returning = FALSE
  /\ deviceRow \in 0..(NDevices - 1) /\ bound = deviceRow /\ row = 0
  /\ can \in SUBSET {"dpi", "polling", "lighting", "complete"} /\ views = <<>>

-----------------------------------------------------------------------------
(* Keys on a page.                                                            *)

InViews == views # <<>> /\ section = "LAB"

\* UP, DOWN, FIRST and LAST.
Move ==
  /\ ~InViews
  /\ \E r \in 0..(RowCount(section) - 1) :
       /\ r \in {0, RowCount(section) - 1, (row + 1) % RowCount(section),
                 (row - 1) % RowCount(section)}
       /\ row' = r
       /\ deviceRow' = IF section = "DEVICE" THEN r ELSE deviceRow
  /\ UNCHANGED <<section, history, returning, bound, can, views>>

\* LEFT and RIGHT leave the Lab views; an edit from the review returns to it.
LeftTarget ==
  IF section \in Editable THEN PreviousPage(section) ELSE Sections[Clamped(At(section) - 1)]
RightTarget == IF section \in {"HARDWARE", "LAB", "DPI", "POLLING"} THEN NextPage(section)
               ELSE Sections[Clamped(At(section) + 1)]
ReturnsToReview == returning /\ section \in Editable

Turn(target, remember) ==
  /\ IF ReturnsToReview
     THEN section' = "REVIEW" /\ returning' = FALSE /\ UNCHANGED history
     ELSE Go(target, remember) /\ UNCHANGED returning
  /\ row' = FirstRow(section')
  /\ views' = IF InViews THEN <<>> ELSE views
  /\ UNCHANGED <<deviceRow, bound, can>>

Left == Turn(LeftTarget, section \notin Editable)
Right == Turn(RightTarget, TRUE)

\* NavigationState.back.
BackPage ==
  IF ReturnsToReview
  THEN section' = "REVIEW" /\ returning' = FALSE /\ UNCHANGED history
  ELSE /\ IF history # <<>>
          THEN section' = Last(history) /\ history' = Front(history)
          ELSE /\ section' = IF section = "DPI" THEN "HARDWARE"
                             ELSE Sections[Clamped(At(section) - 1)]
               /\ UNCHANGED history
       /\ UNCHANGED returning

Back ==
  /\ ~InViews /\ BackPage
  /\ row' = FirstRow(section')
  /\ UNCHANGED <<deviceRow, bound, can, views>>

\* ENTER on a row that opens another page.
Opens(s) ==
  /\ ~InViews /\ Go(s, TRUE) /\ row' = FirstRow(s)
  /\ UNCHANGED <<returning, deviceRow, can, views>>

ActivateDevice ==
  /\ section = "DEVICE" /\ Opens("HARDWARE") /\ bound' = deviceRow
  /\ deviceRow = bound

\* Another mouse is bound: what the old one could do is forgotten.
ActivateOtherDevice ==
  /\ section = "DEVICE" /\ deviceRow # bound
  /\ Go("HARDWARE", TRUE) /\ row' = 0 /\ bound' = deviceRow
  /\ can' \in {c \cup (can \cap {"update"}) :
                c \in SUBSET {"dpi", "polling", "lighting", "complete"}}
  /\ UNCHANGED <<returning, deviceRow, views>>

ActivateHardware ==
  /\ section = "HARDWARE" /\ row > 0 /\ ~("guided" \in can /\ row = 2)
  /\ Opens(IF row = 1 THEN "LAB" ELSE NextPage("HARDWARE")) /\ UNCHANGED bound

ActivateLab == section = "LAB" /\ row = 3 /\ Opens(NextPage("LAB")) /\ UNCHANGED bound

ReviewRows == <<"DPI", "POLLING", "BUTTONS", "LIGHTING">>

ActivateReview ==
  /\ section = "REVIEW" /\ row > 0
  /\ Go(ReviewRows[row], TRUE) /\ returning' = TRUE /\ row' = 0
  /\ UNCHANGED <<deviceRow, bound, can, views>>

\* Tools row 5 opens the Lab with its expert view, row 6 the hardware page.
ActivateTools ==
  /\ section = "TOOLS" /\ row \in {5, 6}
  /\ Go(IF row = 5 THEN "LAB" ELSE "HARDWARE", TRUE)
  /\ row' = IF row = 5 THEN 1 ELSE 0
  /\ views' = IF row = 5 THEN Append(views, "groups") ELSE views
  /\ UNCHANGED <<returning, deviceRow, bound, can>>

-----------------------------------------------------------------------------
(* ENTER on a row whose operation changes what the mouse is known to do.       *)

Refreshed == {"dpi", "polling", "lighting"}

\* Automatic Discovery judges everything anew; it may fail and complete nothing.
Rediscover ==
  /\ section = "HARDWARE" /\ row = 0
  /\ can' \in {c \cup (can \cap {"update"}) : c \in SUBSET (Traits \ {"update"})}
  /\ ("guided" \in can' => "complete" \in can')
  /\ UNCHANGED <<section, history, returning, row, deviceRow, bound, views>>

\* Guided learning and button capture only refresh what the backend can do.
RefreshBackend ==
  /\ section = "BUTTONS" \/ (section = "HARDWARE" /\ row = 2 /\ "guided" \in can)
  /\ can' \in {c \cup (can \ Refreshed) : c \in SUBSET Refreshed}
  /\ UNCHANGED <<section, history, returning, row, deviceRow, bound, views>>

CheckUpdate ==
  /\ section = "UPDATE" /\ row = 0
  /\ can' \in {can \cup {"update"}, can \ {"update"}}
  /\ UNCHANGED <<section, history, returning, row, deviceRow, bound, views>>

-----------------------------------------------------------------------------
(* The views above the Lab page.                                               *)

\* The rows that open the expert tools and the capture import.
OpenViews ==
  /\ section = "LAB" /\ views = <<>> /\ row \in {1, 2}
  /\ views' = <<IF row = 1 THEN "groups" ELSE "vendor">>
  /\ UNCHANGED <<section, history, returning, row, deviceRow, bound, can>>

EnterView ==
  /\ InViews
  /\ views' \in CASE Last(views) = "groups" -> {Append(views, "tools")}
                  [] Last(views) = "tools" -> {Append(views, "detail")}
                  [] Last(views) = "detail" -> {views, Append(views, "vendor")}
                  [] OTHER -> {views}
  /\ UNCHANGED <<section, history, returning, row, deviceRow, bound, can>>

BackView ==
  /\ InViews /\ views' = Front(views)
  /\ UNCHANGED <<section, history, returning, row, deviceRow, bound, can>>

-----------------------------------------------------------------------------

Next ==
  \/ Move \/ Left \/ Right \/ Back
  \/ ActivateDevice \/ ActivateOtherDevice \/ ActivateHardware \/ ActivateLab
  \/ ActivateReview \/ ActivateTools
  \/ Rediscover \/ RefreshBackend \/ CheckUpdate
  \/ OpenViews \/ EnterView \/ BackView

Spec == Init /\ [][Next]_vars

\* The type of the state. The cursor is on a row that the page offers, whatever
\* discovery finds while it stands there: activate() indexes tables by it
\* (setup_tui.py:791-978).
TypeOK ==
  /\ section \in Pages /\ history \in Seq(Pages) /\ returning \in BOOLEAN
  /\ row \in 0..(RowCount(section) - 1)
  /\ deviceRow \in 0..(NDevices - 1) /\ bound \in 0..(NDevices - 1)
  /\ can \subseteq Traits /\ views \in Seq(Views)

=============================================================================
