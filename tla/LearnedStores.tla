---------------------------- MODULE LearnedStores ----------------------------
(* The files in which Mouse Control keeps what it has learned about a mouse:   *)
(* operations (learned_operations.py, learned_polling.py), actions             *)
(* (learned_actions.py), discovery results (device_profiles.py) and            *)
(* calibrations (calibrated_profiles.py).                                      *)
(*                                                                            *)
(* A command learns something, perhaps promotes it, and saves it: a temporary  *)
(* file is written, synced and renamed. Its name is made of the model alone.   *)
(* The runtime looks a mouse up later. Between two steps the command may die,  *)
(* the user may edit or damage a file, and a firmware update may change what a *)
(* mouse is. Packet grammars and JSON are abstracted.                          *)
EXTENDS Integers, Sequences, FiniteSets

CONSTANTS Mice, Models, Units, \* Units: device-unique fingerprints
          Unit,          \* of each mouse, or None
          Twins,         \* mice whose physical identity is ambiguous
          Rates, MinRates, \* the values that may be demonstrated, and how many must be
          MaxEvidence,   \* bound on the measurements of one promotion
          None

Kinds == {"dpi", "rate", "action", "discovery", "calibration"}

Branches == {"onboard", "host"}
Measurements == [rate : Rates, branch : Branches, agrees : BOOLEAN]

\* How a file can be damaged: not JSON or not valid; not even text.
Shapes == {"whole", "half", "invalid", "undecodable"}

VARIABLES
  kind,      \* the kind of document that this behaviour is about
  model,     \* the model fingerprint of each mouse
  files,     \* what is stored for each model, as the model is the name
  branch,    \* the control state of the command's mouse, or None
  held,      \* what the command has learned or loaded
  temp,      \* the temporary file of a save in progress
  measured   \* rates that a measurement confirmed on mice of each model

vars == <<kind, model, files, branch, held, temp, measured>>
outside == <<kind, model, measured>>
command == <<branch, held, temp>>

Operation == kind \in {"dpi", "rate"}

Init ==
  /\ kind \in Kinds
  /\ model \in [Mice -> Models]
  /\ files = [n \in Models |-> None]
  /\ branch = None /\ held = None /\ temp = None
  /\ measured = [m \in Models |-> {}]

-----------------------------------------------------------------------------
(* Promotion                                                                  *)

Demonstrated(rates) == Cardinality(rates) >= MinRates

\* Every demonstrated rate is confirmed once, the first from the Onboard state and
\* the others from the Host state in which the first one left the mouse.
Confirms(evidence, rates) ==
  /\ {evidence[i].rate : i \in DOMAIN evidence} = rates
  /\ Len(evidence) = Cardinality(rates)
  /\ \A i \in DOMAIN evidence :
       /\ evidence[i].agrees
       /\ evidence[i].branch = (IF i = 1 THEN "onboard" ELSE "host")

\* The document has the fields that its kind requires.
WellFormed(doc) == doc.shape = "whole" /\ (Operation => Demonstrated(doc.rates))

\* The promotion gate is run again over what a proven polling operation holds.
Valid(doc) ==
  /\ WellFormed(doc)
  /\ kind = "rate" /\ doc.state = "proven" => Confirms(doc.evidence, doc.rates)

Document(m, rates) ==
  [model |-> model[m], unit |-> Unit[m], state |-> "demonstrated", rates |-> rates,
   evidence |-> <<>>, shape |-> "whole"]

\* A command demonstrates an operation, records an action or calibrates a mouse.
Learn(m, rates) ==
  /\ held = None /\ m \notin Twins
  /\ IF Operation THEN Demonstrated(rates) ELSE rates = {}
  /\ held' = Document(m, rates)
  /\ branch' \in (IF kind = "rate" THEN Branches ELSE {None})
  /\ UNCHANGED <<outside, files, temp>>

\* The generic write of a rate, its readback and its measurement.
Measure(r, agrees) ==
  /\ held # None /\ temp = None
  /\ kind = "rate" /\ held.state = "demonstrated" /\ Len(held.evidence) < MaxEvidence
  /\ held' = [held EXCEPT !.evidence =
                Append(@, [rate |-> r, branch |-> branch, agrees |-> agrees])]
  /\ branch' = "host"
  /\ measured' = IF agrees THEN [measured EXCEPT ![held.model] = @ \cup {r}] ELSE measured
  /\ UNCHANGED <<kind, model, files, temp>>

\* A DPI operation is promoted on one measured target, a polling operation on all.
Promote ==
  /\ held # None /\ temp = None
  /\ Operation /\ held.state = "demonstrated"
  /\ kind = "rate" => Confirms(held.evidence, held.rates)
  /\ held' = [held EXCEPT !.state = "proven"]
  /\ UNCHANGED <<outside, files, branch, temp>>

-----------------------------------------------------------------------------
(* Saving                                                                     *)

StartSave ==
  /\ held # None /\ temp = None
  /\ kind = "rate" => held.state = "proven"
  /\ Valid(held)
  /\ temp' = [held EXCEPT !.shape = "half"]
  /\ UNCHANGED <<outside, files, branch, held>>

Sync ==
  /\ temp # None /\ temp.shape = "half"
  /\ temp' = [temp EXCEPT !.shape = "whole"]
  /\ UNCHANGED <<outside, files, branch, held>>

Replace ==
  /\ temp # None /\ temp.shape = "whole"
  /\ files' = [files EXCEPT ![temp.model] = temp]
  /\ temp' = None /\ held' = None
  /\ branch' = None
  /\ UNCHANGED outside

\* An error, Ctrl-C, a crash: the temporary file is removed, or left under a name
\* that no lookup reads.
Dies ==
  /\ held # None
  /\ held' = None /\ temp' = None
  /\ branch' = None
  /\ UNCHANGED <<outside, files>>

-----------------------------------------------------------------------------
(* Looking a mouse up                                                         *)

OfModel(doc, m) == m \notin Twins /\ doc.model = model[m]

\* Faulty variant: what fits the model fits every unit of it.
MatchesModel(doc, m) == OfModel(doc, m)

\* An operation or an action that is bound to a unit needs that unit.
MatchesPhysical(doc, m) == OfModel(doc, m) /\ (doc.unit # None => doc.unit = Unit[m])

\* A calibration only refuses a mouse that shows another unit.
MatchesDevice(doc, m) == OfModel(doc, m) /\ (None \notin {doc.unit, Unit[m]} => doc.unit = Unit[m])

\* A discovery profile goes by the unit, or else by the model.
MatchesFingerprint(doc, m) ==
  \/ doc.unit # None /\ doc.unit = Unit[m]
  \/ doc.model = model[m] /\ (doc.unit # None => Unit[m] = None)

Fits(doc, m) ==
  \/ kind \in {"dpi", "rate", "action"} /\ MatchesPhysical(doc, m)
  \/ kind = "calibration" /\ MatchesDevice(doc, m)
  \/ kind = "discovery" /\ MatchesFingerprint(doc, m)

Matching(m) == {n \in Models : files[n] # None /\ Valid(files[n]) /\ Fits(files[n], m)}

\* A profile of the very unit goes before those of its model.
Preferred(m) ==
  LET own == {n \in Matching(m) : files[n].unit # None /\ files[n].unit = Unit[m]}
  IN  IF kind = "discovery" /\ own # {} THEN own ELSE Matching(m)

\* Text that cannot be decoded is no JSON error: it raises for every mouse.
Raises == \E n \in Models : files[n] # None /\ files[n].shape = "undecodable"

\* The only document that fits, if there is exactly one.
Result(m) ==
  IF Raises \/ Cardinality(Preferred(m)) # 1 THEN {} ELSE {files[n] : n \in Preferred(m)}

\* The promotion of a DPI write starts from what a lookup finds.
Load(m) ==
  /\ held = None /\ kind = "dpi"
  /\ held' \in {doc \in Result(m) : doc.state = "demonstrated"}
  /\ branch' = None
  /\ UNCHANGED <<outside, files, temp>>

-----------------------------------------------------------------------------
(* What happens to the files and the mice                                     *)

\* The user sets the status of an operation, or adds a value to it.
HandEdit(n) ==
  /\ Operation /\ files[n] # None /\ files[n].shape = "whole"
  /\ \/ files' = [files EXCEPT ![n].state = "proven"]
     \/ \E r \in Rates : files' = [files EXCEPT ![n].rates = @ \cup {r}]
  /\ UNCHANGED <<outside, command>>

Damage(n, shape) ==
  /\ files[n] # None
  /\ files' = [files EXCEPT ![n].shape = shape]
  /\ UNCHANGED <<outside, command>>

Delete(n) ==
  /\ files[n] # None
  /\ files' = [files EXCEPT ![n] = None]
  /\ UNCHANGED <<outside, command>>

\* A new descriptor is a new model fingerprint; a replugged mouse is in Onboard mode.
FirmwareUpdate(m) ==
  /\ held = None
  /\ \E other \in Models \ {model[m]} : model' = [model EXCEPT ![m] = other]
  /\ UNCHANGED <<kind, files, command, measured>>

Replug ==
  /\ branch = "host"
  /\ branch' = "onboard"
  /\ UNCHANGED <<outside, files, held, temp>>

Next ==
  \/ \E m \in Mice, rates \in SUBSET Rates : Learn(m, rates)
  \/ \E r \in Rates, agrees \in BOOLEAN : Measure(r, agrees)
  \/ Promote \/ StartSave \/ Sync \/ Replace \/ Dies \/ Replug
  \/ \E m \in Mice : Load(m) \/ FirmwareUpdate(m)
  \/ \E n \in Models : HandEdit(n) \/ Delete(n)
  \/ \E n \in Models, shape \in {"invalid", "undecodable"} : Damage(n, shape)

Spec == Init /\ [][Next]_vars

-----------------------------------------------------------------------------
(* Properties                                                                 *)

IsDocument(doc) ==
  /\ doc.model \in Models /\ doc.unit \in Units \cup {None}
  /\ doc.state \in {"demonstrated", "proven"}
  /\ doc.rates \subseteq Rates /\ doc.evidence \in Seq(Measurements)
  /\ doc.shape \in Shapes

TypeOK ==
  /\ kind \in Kinds
  /\ model \in [Mice -> Models] /\ branch \in Branches \cup {None}
  /\ DOMAIN files = Models
  /\ \A n \in Models : files[n] # None => IsDocument(files[n]) /\ files[n].model = n
  /\ \A doc \in {held, temp} \ {None} : IsDocument(doc)
  /\ measured \in [Models -> SUBSET Rates]

\* A lookup hands out nothing half-written, whenever a command died; nothing learned
\* on one unit to a mouse that shows another fingerprint, and an operation or an action
\* only to the very unit it is bound to; and no authority that was only written into the
\* file: each rate of a proven operation was measured on its model (learned_polling.py:651).
LookupIsSound ==
  \A m \in Mice : \A doc \in Result(m) :
    /\ doc.shape # "half"
    /\ doc.unit # None /\ (Unit[m] # None \/ kind \in {"dpi", "rate", "action"})
         => doc.unit = Unit[m]
    /\ kind = "rate" /\ doc.state = "proven" => doc.rates \subseteq measured[doc.model]

=============================================================================
