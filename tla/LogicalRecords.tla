---------------------------- MODULE LogicalRecords ----------------------------
(* LogicalRecordReassembler of logical_record.py: records that begin with a      *)
(* marker and a length are cut out of reports of a fixed size, for several        *)
(* streams at once, over reconnects, with reports that arrive late.               *)
(* A byte is kept as its place, <<frame, offset>>, from which its value is read:  *)
(* what a record is made of stays visible. The header is the marker and the       *)
(* length; a record whose third byte is Protected ends with a checksum.           *)
EXTENDS Integers, Sequences, SequencesExt, FiniteSets

CONSTANTS Streams, Bytes, Padding, Marker, Protected, Adjustment, MinLength, MaxLength,
          Wire, MaxFrames, MaxGeneration, None

VARIABLES
  frames,        \* the reports so far: [stream, generation, payload]
  link,          \* the generation of each stream's connection
  newest,        \* the newest generation that each stream has shown, or None
  open,          \* the record being assembled for each stream and generation, or None
  records        \* what the last call returned, a sequence

vars == <<frames, link, newest, open, records>>

Payloads == [1..Wire -> Bytes]
Header == 2
Keys == Streams \X (0..MaxGeneration)

Init ==
  /\ frames = <<>> /\ link = [s \in Streams |-> 0]
  /\ newest = [s \in Streams |-> None]
  /\ open = [k \in Keys |-> None]
  /\ records = <<>>

Value(fs, place) == fs[place[1]].payload[place[2]]

\* The declared number of bytes, adjusted to that of the whole record.
DeclaredTotal(fs, data) == Value(fs, data[2]) + Adjustment

\* The length field comes before the check that it is in bounds.
InBounds(total) == MinLength <= total /\ total <= MaxLength /\ total >= Header

Sum(fs, data) == FoldLeft(LAMBDA a, p : (a + Value(fs, p)) % Cardinality(Bytes), 0, data)

\* Only a complete record is validated, and an invalid one is not complete.
IsProtected(fs, data) == Len(data) > Header /\ Value(fs, data[3]) = Protected
Integrity(fs, data, whole) ==
  IF ~IsProtected(fs, data) \/ ~whole THEN "unknown"
  ELSE IF Sum(fs, Front(data)) = Value(fs, Last(data)) THEN "valid" ELSE "invalid"

Record(fs, key, data, declared, completeness) ==
  LET integrity == Integrity(fs, data, completeness = "complete") IN
  [stream |-> key[1], generation |-> key[2], data |-> data, declared |-> declared,
   completeness |-> IF integrity = "invalid" THEN "invalid" ELSE completeness,
   integrity |-> integrity]

-----------------------------------------------------------------------------
(* add                                                                        *)

\* Faulty variant: a record of the connection before is continued.
InvalidatedNever(s, g) == FALSE

\* A report of a newer connection ends what the older one left unfinished.
Invalidated(s, g) ==
  newest[s] # None /\ g > newest[s] /\ open[<<s, newest[s]>>] # None

\* One byte: a record begins at a marker only, and what follows the end of a record
\* in its report is skipped unless it is a marker.
Consume(fs, key, state, place) ==
  LET byte     == Value(fs, place)
      data     == IF state.data = None THEN <<place>> ELSE Append(state.data, place)
      declared == IF Len(data) = Header THEN DeclaredTotal(fs, data) ELSE state.declared
      closes(c) == [state EXCEPT !.data = None, !.declared = None,
                                 !.out = Append(@, Record(fs, key, data, declared, c))]
  IN CASE state.skip -> state
       [] state.data = None /\ (byte = Padding \/ byte # Marker) -> [state EXCEPT !.skip = TRUE]
       [] Len(data) = Header /\ ~InBounds(declared) -> closes("invalid")
       [] declared = Len(data) -> closes("complete")
       [] OTHER -> [state EXCEPT !.data = data, !.declared = declared]

Add(s, g, payload) ==
  LET fs    == Append(frames, [stream |-> s, generation |-> g, payload |-> payload])
      n     == Len(fs)
      key   == <<s, g>>
      cut   == IF Invalidated(s, g) THEN open[<<s, newest[s]>>] ELSE None
      ended == IF cut = None THEN <<>>
               ELSE <<Record(fs, <<s, newest[s]>>, cut.data, cut.declared, "incomplete")>>
      begun == IF open[key] = None THEN [data |-> None, declared |-> None] ELSE open[key]
      final == FoldLeft(LAMBDA st, o : Consume(fs, key, st, <<n, o>>),
                        begun @@ [skip |-> FALSE, out |-> <<>>], [o \in 1..Wire |-> o])
      late  == newest[s] # None /\ g < newest[s]
  IN /\ n <= MaxFrames /\ g <= link[s]
     /\ frames' = fs
     /\ newest' = [newest EXCEPT ![s] = IF late THEN @ ELSE g]
     /\ records' = IF late THEN <<>> ELSE ended \o final.out
     /\ open' = IF late THEN open
                ELSE [k \in Keys |->
                       IF k = key THEN IF final.data = None THEN None
                                       ELSE [data |-> final.data, declared |-> final.declared]
                       ELSE IF cut # None /\ k = <<s, newest[s]>> THEN None ELSE open[k]]
     /\ UNCHANGED link

\* finish: what is open is reported as incomplete.
Finish ==
  LET left == {k \in Keys : open[k] # None} IN
  /\ left # {}
  /\ records' = [i \in 1..Cardinality(left) |->
       LET k == SetToSeq(left)[i]
       IN Record(frames, k, open[k].data, open[k].declared, "incomplete")]
  /\ open' = [k \in Keys |-> None]
  /\ UNCHANGED <<frames, link, newest>>

Reconnect(s) ==
  /\ link[s] < MaxGeneration
  /\ link' = [link EXCEPT ![s] = @ + 1] /\ records' = <<>>
  /\ UNCHANGED <<frames, newest, open>>

Next ==
  \/ \E s \in Streams, g \in 0..MaxGeneration, p \in Payloads : Add(s, g, p)
  \/ \E s \in Streams : Reconnect(s)
  \/ Finish

Spec == Init /\ [][Next]_vars

TypeOK ==
  /\ link \in [Streams -> 0..MaxGeneration]
  /\ \A s \in Streams : newest[s] = None \/ newest[s] <= link[s]
  /\ \A k \in Keys : open[k] # None => open[k].data # <<>>

\* The bytes that a stream sent in one connection, in order.
Places(s, g) ==
  LET own == SelectSeq([i \in DOMAIN frames |-> i],
                       LAMBDA i : frames[i].stream = s /\ frames[i].generation = g)
  IN [i \in 1..(Len(own) * Wire) |-> <<own[((i - 1) \div Wire) + 1], ((i - 1) % Wire) + 1>>]

\* A complete record is a piece of what one stream sent in one connection, without
\* gap, from a marker on and as long as it declares, whatever is interleaved with it,
\* late or cut off by a reconnect; no byte is in two records of a call, and nothing
\* stays open for an older connection.
RecordsAreWhole ==
  /\ \A r \in Range(records) : r.completeness = "complete" =>
       /\ Value(frames, r.data[1]) = Marker /\ Len(r.data) = r.declared
       /\ \E i \in 0..(Len(Places(r.stream, r.generation)) - Len(r.data)) :
            SubSeq(Places(r.stream, r.generation), i + 1, i + Len(r.data)) = r.data
  /\ \A i, j \in DOMAIN records : i # j => Range(records[i].data) \cap Range(records[j].data) = {}
  /\ \A k \in Keys : open[k] # None => k[2] = newest[k[1]]
=============================================================================
