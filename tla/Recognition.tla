----------------------------- MODULE Recognition -----------------------------
(* Which protocol family a mouse speaks (protocol_repertoire.py and the recipes  *)
(* of protocol_grammar.py), decided from its report descriptors, its identity    *)
(* and passively read evidence that grows one observation at a time, and the     *)
(* proof state that discovery_integration.py derives from the decision.          *)
(* A family is a number, so that the order of names is that of numbers. A report  *)
(* is a shape. An observation passes every check of its family's recipe but one,  *)
(* or all: what the check compares is left out, how its results are joined is not. *)
EXTENDS Integers, Sequences, FiniteSets, FiniteSetsExt, Functions

CONSTANTS
  Repertoire,   \* a sequence of families
  Mice,         \* [vendor, product, shapes]
  Margin,       \* minimum_margin
  MaxObservations,
  None

VARIABLES
  mouse,        \* the mouse that is plugged in
  evidence,     \* the observations of each family so far
  supplied,     \* the families whose evidence the last decision was given
  verdict,      \* its result: [status, family]
  proof         \* the proof state derived from it

vars == <<mouse, evidence, supplied, verdict, proof>>

Families == DOMAIN Repertoire
Recipe(f) == Repertoire[f].recipe

-----------------------------------------------------------------------------
(* Structural candidates                                                      *)

Signatures(f) == Range(Repertoire[f].signatures)

SignatureMatches(signature, m) == signature.shape \in m.shapes

VendorMatch(f, m) == m.vendor \in Repertoire[f].vendors
ProductMatch(f, m) == m.product \in Repertoire[f].products

\* The weights of what matches are added up: each of them is so many points.
SignaturePoints(f, m) ==
  UNION {{i} \X (1..Repertoire[f].signatures[i].weight) : i \in
           {j \in DOMAIN Repertoire[f].signatures :
              SignatureMatches(Repertoire[f].signatures[j], m)}}

StructuralScore(f, m) ==
  Cardinality(SignaturePoints(f, m))
    + (IF VendorMatch(f, m) THEN 1 ELSE 0) + (IF ProductMatch(f, m) THEN 2 ELSE 0)

ExactIdentity(f, m) ==
  ProductMatch(f, m) /\ (VendorMatch(f, m) \/ Repertoire[f].vendors = {})

\* Identity alone reaches no score that a family asks for.
Matches(f, m) ==
  /\ Repertoire[f].identityRequired => VendorMatch(f, m) /\ ProductMatch(f, m)
  /\ \A s \in Signatures(f) : s.required => SignatureMatches(s, m)
  /\ StructuralScore(f, m) >= Repertoire[f].minimum

-----------------------------------------------------------------------------
(* Checks of the recipes. "all" must hold of every observation, "any" of one,    *)
(* "stream" of the set, "count" of their number.                               *)

Check(name, weight, category, mode) ==
  [name |-> name, weight |-> weight, category |-> category, mode |-> mode]

BurstChecks ==
  {Check("namespace", 4, "dialogue", "all"), Check("cardinality", 3, "dialogue", "all"),
   Check("completion", 3, "dialogue", "all"), Check("framing", 4, "relationship", "all")}

PushedChecks ==
  {Check("stream", 3, "dialogue", "stream"), Check("generation", 3, "dialogue", "all"),
   Check("namespace", 3, "frame", "all"), Check("subtype", 3, "frame", "all"),
   Check("transform", 4, "relationship", "all"), Check("count", 2, None, "count"),
   Check("freshness", 4, "dialogue", "any")}

RecordChecks ==
  {Check("stream", 3, "dialogue", "stream"), Check("namespace", 3, "frame", "all"),
   Check("complete", 4, "relationship", "all"), Check("integrity", 4, "integrity", "all"),
   Check("count", 2, None, "count"), Check("types", 4, "internal", "any"),
   Check("fields", 4, "internal", "any")}

Checks(f) ==
  IF Recipe(f).kind = "exchange" THEN Recipe(f).checks
  ELSE IF Recipe(f).kind = "burst" THEN BurstChecks
  ELSE IF Recipe(f).kind = "pushed" THEN PushedChecks ELSE RecordChecks

Passes(check, f, seen) ==
  IF check.mode = "all" THEN \A i \in DOMAIN seen : seen[i].fails # check.name
  ELSE IF check.mode = "any" THEN \E i \in DOMAIN seen : seen[i].fails # check.name
  ELSE IF check.mode = "stream" THEN Cardinality({seen[i].stream : i \in DOMAIN seen}) = 1
  ELSE Len(seen) \in Recipe(f).low..Recipe(f).high

\* Without observations nothing matches and the evidence itself is missing.
Matched(f, seen) == {c \in Checks(f) : seen # <<>> /\ Passes(c, f, seen)}
Missing(f, seen) ==
  IF seen = <<>> THEN {"evidence"} ELSE {c.name : c \in Checks(f) \ Matched(f, seen)}

\* An unwrapped record passes the integrity check without being evidence of it.
Proves(c, seen) == c.name = "integrity" => \E i \in DOMAIN seen : seen[i].wrapped

EvidenceCategories ==
  {"identity", "topology", "frame", "relationship", "dialogue", "integrity", "internal"}

Categories(f, m, seen) ==
  {k \in EvidenceCategories :
     \/ k = "frame" /\ Repertoire[f].signatures # <<>>
     \/ k = "identity" /\ ExactIdentity(f, m)
     \/ k = "topology" /\ \E s \in Signatures(f) : s.placed
     \/ \E c \in Matched(f, seen) : Proves(c, seen) /\ c.category = k}

Recognized(f, m, seen) ==
  /\ Recipe(f).kind # None
  /\ Matched(f, seen) # {} /\ Missing(f, seen) = {}
  /\ Cardinality(Categories(f, m, seen)) >= Recipe(f).categories

CheckPoints(f, seen) == UNION {{c} \X (1..c.weight) : c \in Matched(f, seen)}

Score(f, m, seen) == StructuralScore(f, m) + Cardinality(CheckPoints(f, seen))

-----------------------------------------------------------------------------
(* The decision                                                               *)

\* What the caller supplies for a family; a family that is read from bursts, states
\* or records takes part only if the caller supplies some.
Seen(f, given) == IF f \in given THEN evidence[f] ELSE <<>>

Candidates(m, given) ==
  {f \in Families : Matches(f, m) /\ (Recipe(f).kind \in {"exchange", None} \/ f \in given)}

Total(f, m, given) == Score(f, m, Seen(f, given))

\* By score, and by name among equals.
Precedes(f, g, m, given) ==
  \/ Total(f, m, given) > Total(g, m, given)
  \/ Total(f, m, given) = Total(g, m, given) /\ f < g

First(families, m, given) ==
  CHOOSE f \in families : \A g \in families \ {f} : Precedes(f, g, m, given)

\* Faulty variant: who is not recognized is no rival.
RunnerScoreOfRecognized(m, given) ==
  LET good == {f \in Candidates(m, given) : Recognized(f, m, Seen(f, given))}
      others == good \ {First(good, m, given)}
  IN IF others = {} THEN -1 ELSE Total(First(others, m, given), m, given)

\* The runner-up is the second of all candidates, be it the winner itself.
RunnerScore(m, given) ==
  LET others == Candidates(m, given) \ {First(Candidates(m, given), m, given)}
  IN IF others = {} THEN -1 ELSE Total(First(others, m, given), m, given)

Good(m, given) == {f \in Candidates(m, given) : Recognized(f, m, Seen(f, given))}

Leads(f, m, given) ==
  Good(m, given) = {f} /\ Total(f, m, given) - RunnerScore(m, given) >= Margin

Result(status, f) == [status |-> status, family |-> f]

OpenSet(m, given) ==
  LET candidates == Candidates(m, given)
      winner == First(Good(m, given), m, given)
  IN IF candidates = {} THEN Result("unknown", None)
     ELSE IF Good(m, given) = {} /\ Cardinality(candidates) = 1
            THEN Result("candidate", First(candidates, m, given))
     ELSE IF Good(m, given) # {} /\ Leads(winner, m, given) THEN Result("recognized", winner)
     ELSE Result("ambiguous", None)

ProofOf(v) == IF v.status = "recognized" THEN "recognized" ELSE "observed"

-----------------------------------------------------------------------------

Init ==
  /\ mouse \in Mice
  /\ evidence = [f \in Families |-> <<>>]
  /\ supplied = {} /\ verdict = Result("unknown", None) /\ proof = "observed"

\* Exchanges and bursts are read from one stream, and only records are wrapped.
Observations(f) ==
  [fails : {c.name : c \in Checks(f)} \cup {None},
   stream : IF Recipe(f).kind \in {"pushed", "record"} THEN {1, 2} ELSE {1},
   wrapped : IF Recipe(f).kind = "record" THEN BOOLEAN ELSE {FALSE}]

\* A capture has one more exchange, burst, state or record of a family.
Observe(f, o) ==
  /\ Recipe(f).kind # None /\ o \in Observations(f)
  /\ MapThenSumSet(LAMBDA g : Len(evidence[g]), Families) < MaxObservations
  /\ evidence' = [evidence EXCEPT ![f] = Append(@, o)]
  /\ UNCHANGED <<mouse, supplied, verdict, proof>>

\* integrate_*: the evidence of one family; others take all there is.
Recognize(given) ==
  /\ given \subseteq {f \in Families : evidence[f] # <<>>}
  /\ supplied' = given
  /\ verdict' = OpenSet(mouse, given) /\ proof' = ProofOf(verdict')
  /\ UNCHANGED <<mouse, evidence>>

Next ==
  \/ \E f \in Families : Recipe(f).kind # None /\ \E o \in Observations(f) : Observe(f, o)
  \/ \E given \in SUBSET Families : Recognize(given)

Spec == Init /\ [][Next]_vars

TypeOK ==
  /\ mouse \in Mice /\ supplied \subseteq Families
  /\ \A f \in Families : Len(evidence[f]) <= MaxObservations
  /\ verdict.status \in {"unknown", "candidate", "ambiguous", "recognized"}
  /\ verdict.family \in Families \cup {None}

Anonymous == [vendor |-> None, product |-> None, shapes |-> mouse.shapes]

\* A family is recognized on evidence of its own, none of which contradicts its
\* recipe, and it leads every other candidate by the margin; and who made the mouse
\* only supports a decision: without its identity no other family is recognized.
RecognizedLeads ==
  LET now == OpenSet(mouse, supplied)
      bare == OpenSet(Anonymous, supplied)
      f == now.family
  IN /\ now.status = "recognized" =>
          /\ f \in supplied /\ evidence[f] # <<>>
          /\ \A c \in Checks(f) : c.mode = "all" =>
               \A i \in DOMAIN evidence[f] : evidence[f][i].fails # c.name
          /\ \A g \in Candidates(mouse, supplied) \ {f} :
               Total(g, mouse, supplied) + Margin <= Total(f, mouse, supplied)
          /\ bare.status = "recognized" => bare.family = f
     /\ proof = "recognized" <=> verdict.status = "recognized"
=============================================================================
