---------------------------- MODULE VendorCapture ----------------------------
(* Import of vendor captures (vendor_capture.py, the tables of lamzu_aurora.py, the   *)
(* import page of setup_tui_curses.py): a file of recorded reports is decoded with     *)
(* what is known of the Aurora families, compared with what was imported before, shown, *)
(* and kept for review. Files may be damaged, the page closed at any time.                *)
EXTENDS Integers, Sequences, FiniteSets, FiniteSetsExt, Functions

CONSTANTS
  Captures,   \* the files that a user may import
  FileOf,     \* what is in them
  MaxImports, MaxReviews, MaxDamaged, \* bounds on stored files, reviews, damaged files
  None

VARIABLES
  preview,  \* the import that the page shows, None without one
  stored,   \* imports of the store
  damaged,  \* stored files that do not load: "skipped" or "raises"
  shown,    \* the import that the page keeps, None without one
  closed,   \* an exception has ended the page
  reviews

vars == <<preview, stored, damaged, shown, closed, reviews>>

-----------------------------------------------------------------------------
(* What is known of the Aurora families: name, target, page, read and write command *)

Operations ==
  {<<"mouse firmware", 2, 0, 129, None>>, <<"dongle firmware", 0, 0, 129, None>>,
   <<"device variant", 2, 0, 130, None>>, <<"battery", 2, 0, 131, None>>,
   <<"active profile", 2, 0, 133, 5>>, <<"sleep", 2, 0, 135, 7>>,
   <<"debounce", 2, 0, 136, 8>>, <<"polling", 2, 1, 128, 0>>,
   <<"DPI stages", 2, 1, 129, 1>>, <<"active DPI", 2, 1, 130, 2>>,
   <<"angle snapping", 2, 1, 132, 4>>, <<"LOD", 2, 1, 136, 8>>,
   <<"Motion Sync", 2, 1, 137, 9>>, <<"ripple control", 2, 1, 138, 10>>,
   <<"Competition", 2, 1, 139, 11>>, <<"maximum DPI", 2, 1, 140, None>>,
   <<"DPI split", 2, 1, 141, 13>>, <<"sensor model", 2, 1, 143, None>>,
   <<"Tracking", 2, 1, 147, 19>>, <<"Angle Tune", 2, 1, 148, 20>>,
   <<"Scroll Bhop", 2, 0, 153, 25>>, <<"Rapid Trigger", 2, 0, 154, 26>>,
   <<"DPI indicator", 2, 2, 132, 4>>, <<"stage colors", 2, 2, 129, 1>>,
   <<"receiver light", 2, 2, 128, 0>>, <<"receiver lightness", 2, 2, 130, 2>>,
   <<"button actions", 2, 3, 128, 0>>, <<"button combinations", 2, 3, 129, 1>>,
   <<"macro allocate", 2, 4, None, 1>>, <<"macro delete", 2, 4, None, 2>>,
   <<"macro write", 2, 4, None, 3>>, <<"macro size", 2, 4, 129, None>>,
   <<"macro read", 2, 4, 131, None>>, <<"routed identity", 1, 0, 139, None>>,
   <<"USB PID", 1, 0, 129, None>>}

LegacyOperations ==
  {<<"legacy battery", 4, None>>, <<"legacy firmware", 18, None>>,
   <<"legacy profile", 14, 15>>, <<"legacy flash read", 8, None>>,
   <<"legacy flash write", None, 7>>}

\* The dangerous commands that have a number: factory and profile reset, identity write.
Dangerous == {<<2, 0, 0>>, <<2, 0, 13>>, <<0, 0, 16>>}

Bootloaders == {<<14256, p>> : p \in {24, 2, 65, 51}}

\* A frame is its size and its first bytes, the first of them at 1.
Byte(frame, i) == IF i < Len(frame.bytes) THEN frame.bytes[i + 1] ELSE 0
Target(frame) == Byte(frame, 2)
Page(frame) == Byte(frame, 4)
Command(frame) == Byte(frame, 5)

\* The name of a known operation, None for another frame.
ModernOperation(frame) ==
  LET known == {o \in Operations : /\ o[2] = Target(frame) /\ o[3] = Page(frame)
                                   /\ Command(frame) \in {o[4], o[5]} \ {None}}
  IN IF frame.size # 64 \/ known = {} THEN None ELSE (CHOOSE o \in known : TRUE)[1]

DangerousModern(frame) ==
  frame.size = 64 /\ <<Target(frame), Page(frame), Command(frame)>> \in Dangerous

LegacyOperation(frame) ==
  LET known == {o \in LegacyOperations : Byte(frame, 0) \in {o[2], o[3]} \ {None}}
  IN IF frame.size = 0 \/ known = {} THEN None ELSE (CHOOSE o \in known : TRUE)[1]

\* Where the response starts in the frame: it may be preceded by one byte.
Alignments(frame, expected) ==
  {a \in {0, 1} : 5 + a < frame.size /\ Byte(frame, 5 + a) = expected}

\* What an event announces, None when it is not a valid one.
EventName(frame) ==
  LET kind == Byte(frame, 1)
      v == Byte(frame, 2)
      w == Byte(frame, 3)
  IN CASE frame.size < 2 \/ Byte(frame, 0) # 4 -> None
       [] kind = 1 /\ frame.size >= 7 -> "dpi"
       [] kind = 2 -> "profile"
       [] kind = 3 /\ frame.size >= 4 /\ v <= 100 /\ w \in {0, 1} -> "battery"
       [] kind = 6 /\ frame.size >= 3 /\ v \in {0, 1} -> "connection"
       [] kind = 7 /\ frame.size >= 3 /\ v \in {1, 2, 135, 19, 21, 23} -> "lod"
       [] kind = 8 /\ frame.size >= 3 -> "polling"
       [] kind = 13 /\ frame.size >= 4 /\ v \in {0, 1} /\ w \in {0, v} -> "performance"
       [] OTHER -> None

StatusKind(status) ==
  CASE status \in {161, 2} -> "response"
    [] status < 161 /\ status # 2 -> "busy"
    [] status > 161 -> "poll"

-----------------------------------------------------------------------------
(* Decoding                                                                   *)

\* The family of a record: its own, else what the vendor's number says.
AuroraFamily(source, r) ==
  IF r.family \in {"modern", "legacy"} THEN r.family
  ELSE IF source.identity[1] = 13652 THEN "legacy"
  ELSE IF source.identity[1] \in {14256, 14142} THEN "modern" ELSE None

\* What a report says by its way and kind, when the file does not say its role.
RoleOf(source, r) ==
  IF r.role # "unknown" \/ AuroraFamily(source, r) # "modern" THEN r.role
  ELSE IF r.way = "out" /\ r.type = "feature" THEN "request"
  ELSE IF r.way = "in" /\ r.type = "input" /\ r.id = 4 THEN "push"
  ELSE IF r.way = "in" /\ r.type = "feature" THEN "response" ELSE r.role

\* The raw records that parse, without repetitions, at their places in the file.
Kept(source) ==
  {i \in DOMAIN source.records :
     /\ source.records[i].parses
     /\ \A j \in DOMAIN source.records : j < i => source.records[j] # source.records[i]}

RawRecords(source) ==
  [i \in Kept(source) |->
     LET r == source.records[i]
         known == [r EXCEPT !.family = IF @ = None THEN source.family ELSE @]
     IN [known EXCEPT !.role = RoleOf(source, known)]]

\* The requests that bear a number, and the last of them.
RequestsOf(records, tx) ==
  {i \in DOMAIN records : records[i].role = "request" /\ records[i].tx = tx}

RequestOf(records, tx) ==
  IF tx = None \/ RequestsOf(records, tx) = {} THEN None
  ELSE records[Max(RequestsOf(records, tx))]

\* A request that is known to be dangerous, or not known.
Risky(source, r) ==
  /\ r.role = "request" /\ AuroraFamily(source, r) = "modern" /\ r.frame.size = 64
  /\ DangerousModern(r.frame) \/ ModernOperation(r.frame) = None

DangerousTransactions(source, records) ==
  {r.tx : r \in {r \in Range(records) : r.tx # None /\ Risky(source, r)}}

\* What a record is found to mean: its command (None when it is not decoded), the length
\* of its payload, and what the mouse's status byte said.
Meaning(r, semantic, dangerous) ==
  [role |-> r.role, semantic |-> semantic, dangerous |-> dangerous, command |-> None,
   length |-> r.length, status |-> None]

Answers(r) == r.role \in {"response", "status"}

\* The number of an operation: its family, target, page and command.
Number(frame, at) == <<"modern", Byte(frame, 2 + at), Byte(frame, 4 + at), Byte(frame, 5 + at)>>

DecodeRequest(r) ==
  LET operation == ModernOperation(r.frame) IN
  IF operation # None
  THEN [Meaning(r, operation, FALSE) EXCEPT !.command = Number(r.frame, 0)]
  ELSE Meaning(r, IF DangerousModern(r.frame) THEN "denied"
                  ELSE IF r.label = None THEN "unknown command" ELSE r.label, TRUE)

DecodeAnswer(r, request) ==
  LET shift == Alignments(r.frame, Command(request.frame))
      at == CHOOSE a \in shift : TRUE
      asked == ModernOperation(request.frame)
  IN IF request.frame.size = 64 /\ r.frame.size \in {64, 65} /\ Cardinality(shift) = 1
     THEN [role |-> r.role, semantic |-> IF asked = None THEN r.label ELSE asked,
           dangerous |-> FALSE, command |-> Number(r.frame, at), length |-> 64,
           status |-> Byte(r.frame, at)]
     ELSE Meaning(r, r.label, FALSE)

DecodeEvent(r) ==
  IF (r.role = "push" \/ (r.id = 4 /\ r.type = "input")) /\ EventName(r.frame) # None
  THEN [Meaning(r, EventName(r.frame), FALSE) EXCEPT !.role = "push"]
  ELSE Meaning(r, r.label, FALSE)

DecodeModern(r, records) ==
  IF r.role = "request" /\ r.frame.size = 64 THEN DecodeRequest(r)
  ELSE IF ~Answers(r) THEN DecodeEvent(r)
  ELSE IF RequestOf(records, r.tx) = None THEN Meaning(r, r.label, FALSE)
  ELSE DecodeAnswer(r, RequestOf(records, r.tx))

DecodeLegacy(r) ==
  LET operation == LegacyOperation(r.frame) IN
  IF operation # None
  THEN [Meaning(r, operation, operation \in {"legacy flash read", "legacy flash write"})
          EXCEPT !.command = <<"legacy", None, None, Byte(r.frame, 0)>>]
  ELSE IF r.frame.size > 0
  THEN Meaning(r, IF r.label = None THEN "unknown legacy command" ELSE r.label, TRUE)
  ELSE Meaning(r, r.label, FALSE)

\* Every record of a bootloader, and of a transaction that is dangerous, is dangerous.
Enriched(source, records, r) ==
  LET family == AuroraFamily(source, r)
      m == IF family = "modern" THEN DecodeModern(r, records)
           ELSE IF family = "legacy" THEN DecodeLegacy(r) ELSE Meaning(r, r.label, FALSE)
  IN [raw |-> r, family |-> IF family = None THEN r.family ELSE family,
      role |-> m.role, semantic |-> m.semantic, command |-> m.command,
      length |-> m.length, status |-> m.status,
      dangerous |-> m.dangerous
                      \/ (family # None /\ (\/ source.identity \in Bootloaders
                                           \/ r.tx \in DangerousTransactions(source, records)))]

EnrichAurora(source) ==
  [i \in Kept(source) |-> Enriched(source, RawRecords(source), RawRecords(source)[i])]

-----------------------------------------------------------------------------
(* Comparison with what was imported before: whatever is said of one thing must  *)
(* be said alike                                                              *)

CommandClaims(import) ==
  {<<r.command, r.semantic>> :
     r \in {r \in Range(import.records) : r.command # None /\ r.semantic # None}}

FrameClaims(import) ==
  {<<<<r.family, r.raw.frame>>, r.semantic>> :
     r \in {r \in Range(import.records) : r.semantic # None}}

ReportClaims(import) ==
  {<<<<r.family, r.raw.type, r.raw.id>>, r.length>> :
     r \in {r \in Range(import.records) : r.family # None /\ r.raw.id # None}}

FamilyClaims(import) ==
  LET source == FileOf[import.capture].source
  IN IF source.identity = <<None, None>> THEN {}
     ELSE {<<source.identity, f>> :
             f \in ({r.family : r \in Range(import.records)} \cup {source.family}) \ {None}}

Disagree(some, others) == \E a \in some, b \in others : a[1] = b[1] /\ a[2] # b[2]

Contradict(m, n) ==
  \/ Disagree(CommandClaims(m), CommandClaims(n))
  \/ Disagree(FrameClaims(m), FrameClaims(n))
  \/ Disagree(ReportClaims(m), ReportClaims(n))
  \/ Disagree(FamilyClaims(m), FamilyClaims(n))

Conflicts(imports) == \E m, n \in imports : Contradict(m, n)

-----------------------------------------------------------------------------
(* The import as a conversation                                               *)

\* An answer belongs to the last request of its transaction.
DialogueKind(r) ==
  IF r.role \in {"request", "push"} THEN r.role
  ELSE IF ~Answers(r) THEN None
  ELSE IF r.status = None THEN "response" ELSE StatusKind(r.status)

Timed(records) == {i \in DOMAIN records : records[i].raw.timed /\ records[i].raw.way # None}

Asked(records, tx) ==
  {i \in Timed(records) : records[i].role = "request" /\ records[i].raw.tx = tx}

Dialogues(import) ==
  LET records == import.records
      Request(r) == IF Answers(r) /\ r.raw.tx # None /\ Asked(records, r.raw.tx) # {}
                    THEN records[Max(Asked(records, r.raw.tx))] ELSE None
  IN [i \in {i \in Timed(records) : DialogueKind(records[i]) # None} |->
        [of |-> records[i], kind |-> DialogueKind(records[i]), request |-> Request(records[i])]]

-----------------------------------------------------------------------------
(* The import page and the store                                              *)

Loadable == {c \in DOMAIN stored : damaged[c] = None}

Existing == {stored[c] : c \in Loadable}

Init ==
  /\ preview = None /\ shown = None /\ closed = FALSE /\ reviews = 0
  /\ stored = [c \in {} |-> None] /\ damaged = [c \in Captures |-> None]

\* One of the two formats is found in the file, all of it parses, its source is allowed.
Accepted(file) == Cardinality(file.formats) = 1 /\ file.parses /\ ~file.prohibited

\* Faulty variant: only what a reviewer has accepted is compared.
ImportAgainstAccepted(c) ==
  LET new == [capture |-> c, records |-> EnrichAurora(FileOf[c].source),
              conflicted |-> FALSE, review |-> "unreviewed",
              duplicate |-> FALSE]
      accepted == {m \in Existing : m.review = "accepted"}
  IN IF c \in Loadable THEN [stored[c] EXCEPT !.duplicate = TRUE]
     ELSE [new EXCEPT !.conflicted = Conflicts(accepted \cup {new})]

\* A file imported before is shown as it was stored.
Import(c) ==
  LET new == [capture |-> c, records |-> EnrichAurora(FileOf[c].source),
              conflicted |-> FALSE, review |-> "unreviewed",
              duplicate |-> FALSE]
  IN IF c \in Loadable THEN [stored[c] EXCEPT !.duplicate = TRUE]
     ELSE [new EXCEPT !.conflicted = Conflicts(Existing \cup {new})]

\* A stored file that does not load is left out, or ends the page.
PreviewFile(c) ==
  /\ ~closed /\ preview = None
  /\ IF \E d \in DOMAIN stored : damaged[d] = "raises"
     THEN closed' = TRUE /\ UNCHANGED preview
     ELSE Accepted(FileOf[c]) /\ preview' = Import(c) /\ UNCHANGED closed
  /\ c \in DOMAIN stored \/ Cardinality(DOMAIN stored) < MaxImports
  /\ UNCHANGED <<stored, damaged, shown, reviews>>

Save(import) ==
  LET c == import.capture
  IN /\ stored' = [d \in DOMAIN stored \cup {c} |-> IF d = c THEN import ELSE stored[d]]
     /\ damaged' = [damaged EXCEPT ![c] = None]

\* A file that was stored when it was read is not saved again.
Stage ==
  /\ preview # None
  /\ IF preview.duplicate THEN UNCHANGED <<stored, damaged>> ELSE Save(preview)
  /\ shown' = preview.capture /\ preview' = None
  /\ UNCHANGED <<closed, reviews>>

\* The user declines, or the file cannot be written.
Decline ==
  /\ preview # None
  /\ preview' = None
  /\ UNCHANGED <<stored, damaged, shown, closed, reviews>>

\* The page forgets what it kept when the application is opened again.
Reopen ==
  /\ closed
  /\ closed' = FALSE /\ shown' = None
  /\ UNCHANGED <<preview, stored, damaged, reviews>>

\* A reviewer loads a stored import and saves it with a verdict.
Review(c) ==
  /\ reviews < MaxReviews
  /\ c \in Loadable
  /\ \E verdict \in {"accepted", "rejected"} : Save([stored[c] EXCEPT !.review = verdict])
  /\ reviews' = reviews + 1
  /\ UNCHANGED <<preview, shown, closed>>

Damage(c) ==
  /\ c \in Loadable /\ Cardinality({d \in DOMAIN stored : damaged[d] # None}) < MaxDamaged
  /\ \E how \in {"skipped", "raises"} : damaged' = [damaged EXCEPT ![c] = how]
  /\ UNCHANGED <<preview, stored, shown, closed, reviews>>

Next ==
  \/ Stage \/ Decline \/ Reopen
  \/ \E c \in Captures : PreviewFile(c) \/ Review(c) \/ Damage(c)

Spec == Init /\ [][Next]_vars

-----------------------------------------------------------------------------
(* Properties                                                                 *)

TypeOK ==
  /\ DOMAIN stored \subseteq Captures
  /\ \A c \in DOMAIN stored :
       /\ stored[c].capture = c /\ stored[c].conflicted \in BOOLEAN /\ ~stored[c].duplicate
       /\ stored[c].review \in {"unreviewed", "accepted", "rejected"}
  /\ damaged \in [Captures -> {None, "skipped", "raises"}]
  /\ preview = None \/ preview.capture \in Captures
  /\ shown \in Captures \cup {None} /\ closed \in BOOLEAN /\ reviews \in 0..MaxReviews

\* The imports whose records a caller may use as prior knowledge.
AcceptedEvidence == {m \in Existing : m.review = "accepted" /\ ~m.conflicted}

\* Whatever order files are imported, reviewed and damaged in, the evidence that a reviewer
\* accepts never gives a command two meanings, a frame two interpretations, a report two
\* lengths or a mouse two families (_conflicts, accepted_vendor_evidence).
OneMeaning == ~Conflicts(AcceptedEvidence)

\* No record of a transaction whose command is dangerous or unknown, and none of a
\* bootloader, is kept without its warning (_enrich_aurora).
DangerSticks ==
  \A c \in DOMAIN stored : \A r, q \in Range(stored[c].records) :
    (/\ r.family = "modern" /\ q.family = "modern"
     /\ \/ FileOf[c].source.identity \in Bootloaders
        \/ /\ q.role = "request" /\ q.raw.frame.size = 64 /\ ModernOperation(q.raw.frame) = None
           /\ q = r \/ (q.raw.tx = r.raw.tx /\ r.raw.tx # None))
    => r.dangerous

\* No two requests of a capture bear one number.
Numbered(records) ==
  \A i, j \in DOMAIN records :
    /\ records[i].raw.role = "request" /\ records[j].raw.role = "request"
    /\ records[i].raw.tx = records[j].raw.tx /\ records[i].raw.tx # None
    => i = j

\* Where every transaction has a number of its own, a record that is decoded as an answer
\* has the command of the request it is shown with, and the same meaning.
AnswersAreAsked ==
  \A c \in DOMAIN stored : Numbered(stored[c].records) =>
    \A i \in DOMAIN Dialogues(stored[c]) :
      LET answer == Dialogues(stored[c])[i].of
          request == Dialogues(stored[c])[i].request
      IN request # None /\ answer.status # None /\ request.command # None
           /\ request.family = "modern"
         => answer.command[4] = request.command[4] /\ answer.semantic = request.semantic

\* What vendors' captures are taken to show.
EvidenceIsSound == OneMeaning /\ DangerSticks /\ AnswersAreAsked
=============================================================================
