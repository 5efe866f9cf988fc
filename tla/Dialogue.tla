------------------------------ MODULE Dialogue ------------------------------
(* DialogueAssembler of temporal_dialogue.py: which request a passively observed *)
(* report answers, which reports belong to one burst, and how fresh a state is   *)
(* that a mouse pushes by itself. A host sends requests of a few shapes, a mouse *)
(* answers some of them, late, repeatedly or never, and is reconnected; reports  *)
(* of the connection before may still be read afterwards.                        *)
(* An identity (source, device, transport, namespace, report id) is a channel;   *)
(* times are ticks; a report remembers the request that caused it in "of", which *)
(* the assembler does not see.                                                   *)
EXTENDS Integers, Sequences, FiniteSets, Functions, SequencesExt

CONSTANTS Tags, Channels, None,
          Window, Quiet, Deadline, MaxResponses, NudgeWindow, MaxGap,
          MaxTime, MaxRequests, MaxGeneration

VARIABLES
  use,                  \* what this assembler is fed: "dialogue", "burst" or "state"
  clock, generation,    \* of the capture, and of the mouse
  sent,                 \* the requests of the host, a sequence
  known,                \* the newest generation the assembler has seen, or None
  pending,              \* requests that wait for their response
  bursts,               \* requests with the responses of their burst so far
  nudges,               \* requests that may make the mouse push its state
  history,              \* the last state of each generation
  result,               \* what the last call returned
  ends                  \* how often each request was reported as ended

vars == <<use, clock, generation, sent, known, pending, bursts, nudges, history, result, ends>>
world == <<use, clock, generation, sent>>

Grammars == {"poll", "selector"}

Init ==
  /\ use \in {"dialogue", "burst", "state"}
  /\ clock = 0 /\ generation = 0 /\ sent = <<>>
  /\ known = None /\ pending = {} /\ bursts = {} /\ nudges = {}
  /\ history = [g \in 0..MaxGeneration |-> None]
  /\ result = {} /\ ends = [n \in 1..MaxRequests |-> 0]

Newest(g) == IF known = None \/ known < g THEN g ELSE known
Older(g) == known # None /\ g < known

Entry(kind, item, request) == [kind |-> kind, of |-> item.of, tag |-> item.tag, request |-> request]

Returns(entries) == result' = entries

\* Requests that the entries of a result report as ended.
Ended(numbers) == ends' = [n \in DOMAIN ends |-> ends[n] + (IF n \in numbers THEN 1 ELSE 0)]

-----------------------------------------------------------------------------
(* add: one request, one response                                             *)

\* What fits more than one request or burst belongs to none.
Taken(found) == \E p \in found : found = {p}

Compatible(r, item) ==
  /\ r.channel = item.channel /\ r.generation = item.generation
  /\ item.time - r.time \in 0..Window

\* Faulty variant: the tag is only asked for when the time leaves a choice.
CandidatesByTime(item) == {p \in pending : Compatible(p.request, item)}

\* The tag decides alone; a grammar only where some request has it.
Candidates(item) ==
  LET near  == {p \in pending : Compatible(p.request, item)}
      alike == {p \in near : p.request.grammar = item.grammar}
  IN IF item.tag # None THEN {p \in near : p.request.tag = item.tag}
     ELSE IF item.grammar # None /\ alike # {} THEN alike ELSE near

Stale(item) ==
  /\ Older(item.generation)
  /\ Returns({Entry("stale", item, None)})
  /\ UNCHANGED <<known, pending, ends>>

AddOut(item) ==
  LET found == Candidates(item)
      one   == Taken(found)
  IN /\ ~Older(item.generation)
     /\ known' = Newest(item.generation)
     /\ IF item.grammar = "poll" \/ (one /\ \A p \in found : p.busy)
          THEN /\ Returns({Entry("poll", item, IF one
                                                 THEN (CHOOSE p \in found : TRUE).request.seq
                                                 ELSE None)})
               /\ UNCHANGED pending
          ELSE /\ pending' = pending \cup {[request |-> item, busy |-> FALSE]}
               /\ Returns(IF item.grammar = "selector" THEN {Entry("selector", item, None)} ELSE {})
     /\ UNCHANGED ends

AddIn(item) ==
  LET found == Candidates(item)
      p     == CHOOSE q \in found : TRUE
  IN /\ ~Older(item.generation)
     /\ known' = Newest(item.generation)
     /\ \/ /\ item.grammar = "event"
           /\ Returns({Entry("event", item, None)}) /\ UNCHANGED <<pending, ends>>
        \/ /\ item.grammar # "event" /\ ~Taken(found)
           /\ Returns({Entry(IF found = {} THEN "unrelated" ELSE "ambiguous", item, None)})
           /\ UNCHANGED <<pending, ends>>
        \/ /\ item.grammar # "event" /\ Taken(found) /\ item.status = "busy"
           /\ pending' = (pending \ {p}) \cup {[p EXCEPT !.busy = TRUE]}
           /\ Returns({Entry("busy", item, p.request.seq)}) /\ UNCHANGED ends
        \/ /\ item.grammar # "event" /\ Taken(found) /\ item.status # "busy"
           /\ pending' = pending \ {p}
           /\ Returns({Entry("response", item, p.request.seq)}) /\ Ended({p.request.seq})

\* finish: what has no response yet has timed out.
Finish ==
  /\ pending # {}
  /\ pending' = {}
  /\ Returns({Entry("timeout", p.request, p.request.seq) : p \in pending})
  /\ Ended({p.request.seq : p \in pending})
  /\ UNCHANGED <<world, known, bursts, nudges, history>>

-----------------------------------------------------------------------------
(* Bursts                                                                     *)

LastOf(b) == IF b.responses = <<>> THEN b.request.time ELSE Last(b.responses).time

BurstMatches(b, item) ==
  /\ item.grammar # "event"
  /\ item.channel = b.request.channel /\ item.generation = b.request.generation
  /\ b.request.grammar # None => item.grammar = b.request.grammar
  /\ b.request.tag # None => item.tag = b.request.tag
  /\ LastOf(b) <= item.time /\ item.time < b.request.time + Deadline

QuietAt(b) == LastOf(b) + Quiet
DeadlineAt(b) == b.request.time + Deadline
Expired(b, now) == now >= QuietAt(b) \/ (DeadlineAt(b) <= QuietAt(b) /\ now >= DeadlineAt(b))
Reason(b, now) ==
  IF DeadlineAt(b) <= QuietAt(b) /\ now >= DeadlineAt(b) THEN "deadline" ELSE "quiet"

Completed(b, reason) ==
  [kind |-> reason, of |-> b.request.seq, tag |-> b.request.tag, request |-> b.request.seq,
   responses |-> b.responses]

CutBy(g) == {b \in bursts : b.request.generation < g}

BeginBurst(item) ==
  /\ ~Older(item.generation)
  /\ LET cut == IF known # None /\ item.generation > known THEN CutBy(item.generation) ELSE {} IN
     /\ bursts' = (bursts \ cut) \cup {[request |-> item, responses |-> <<>>]}
     /\ Returns({Completed(b, "reconnect") : b \in cut})
     /\ Ended({b.request.seq : b \in cut})
  /\ known' = Newest(item.generation)
  /\ UNCHANGED pending

\* advance_time comes first, also for a report of an older generation.
ObserveBurst(item) ==
  LET old   == {b \in bursts : Expired(b, item.time)}
      newer == known # None /\ item.generation > known
      cut   == IF newer THEN CutBy(item.generation) \ old ELSE {}
      left  == bursts \ (old \cup cut)
      found == IF Older(item.generation) THEN {} ELSE {b \in left : BurstMatches(b, item)}
      b     == CHOOSE c \in found : TRUE
      grown == [b EXCEPT !.responses = Append(@, [time |-> item.time, of |-> item.of,
                                                   generation |-> item.generation])]
      full  == Taken(found) /\ Len(grown.responses) >= MaxResponses
  IN /\ bursts' = IF ~Taken(found) THEN left
                  ELSE IF full THEN left \ {b} ELSE (left \ {b}) \cup {grown}
     /\ Returns({Completed(c, Reason(c, item.time)) : c \in old}
                  \cup {Completed(c, "reconnect") : c \in cut}
                  \cup (IF full THEN {Completed(grown, "full")} ELSE {}))
     /\ Ended({c.request.seq : c \in old \cup cut} \cup (IF full THEN {b.request.seq} ELSE {}))
     /\ known' = IF newer THEN item.generation ELSE known
     /\ UNCHANGED pending

EndBurst(b) ==
  /\ b \in bursts
  /\ bursts' = bursts \ {b}
  /\ Returns({Completed(b, "explicit")}) /\ Ended({b.request.seq})
  /\ UNCHANGED <<world, known, pending, nudges, history>>

-----------------------------------------------------------------------------
(* State that the mouse pushes                                                *)

BeginNudge(item) ==
  /\ ~Older(item.generation)
  /\ known' = Newest(item.generation)
  /\ nudges' = nudges \cup {item}
  /\ result' = {}

Pushed(generationOf, freshness, accepted) ==
  {[kind |-> "state", of |-> None, tag |-> None, request |-> None,
    generation |-> generationOf, freshness |-> freshness, accepted |-> accepted]}

\* observe_pushed_state; "acted" is the time of a controlled action of the user.
ObserveState(g, value, counter, acted) ==
  LET newer    == known # None /\ g > known
      kept     == IF newer THEN {n \in nudges : n.generation >= g} ELSE nudges
      near     == {n \in kept : n.generation = g /\ clock - n.time \in 0..NudgeWindow}
      previous == history[g]
      periodic == previous # None /\ clock - previous.time \in 0..MaxGap
      reasons  == {x \in {"nudged", "periodic", "counter", "action"} :
                     CASE x = "nudged"   -> Taken(near)
                       [] x = "periodic" -> periodic
                       [] x = "counter"  -> previous # None /\ counter > previous.counter
                       [] OTHER -> /\ acted # None /\ previous # None
                                   /\ previous.time <= acted /\ previous.value # value}
  IN /\ known' = IF newer \/ known = None THEN g ELSE known
     /\ IF Older(g)
          THEN Returns(Pushed(g, "stale", FALSE)) /\ UNCHANGED <<nudges, history>>
          ELSE /\ nudges' = IF Taken(near) THEN kept \ near ELSE kept
               /\ history' = [h \in DOMAIN history |->
                    IF h = g THEN [time |-> clock, value |-> value, counter |-> counter]
                    ELSE IF newer /\ h < g THEN None ELSE history[h]]
               /\ Returns(Pushed(g, IF reasons # {} THEN "fresh" ELSE "unknown", TRUE))

-----------------------------------------------------------------------------

AdvanceGeneration ==
  /\ ~Older(generation) /\ known # generation
  /\ known' = generation
  /\ nudges' = {n \in nudges : n.generation >= generation}
  /\ history' = [h \in DOMAIN history |-> IF h < generation THEN None ELSE history[h]]
  /\ LET lost == {p \in pending : p.request.generation < generation} IN
     /\ pending' = pending \ lost
     /\ bursts' = bursts \ CutBy(generation)
     /\ Returns({Entry("snapshot", p.request, p.request.seq) : p \in lost}
                  \cup {Completed(b, "reconnect") : b \in CutBy(generation)})
     /\ Ended({p.request.seq : p \in lost} \cup {b.request.seq : b \in CutBy(generation)})
  /\ UNCHANGED world

\* The host writes: the caller reads the report as a request, a burst or a nudge.
Sends(channel, tag, grammar) ==
  LET n    == Len(sent) + 1
      item == [seq |-> n, of |-> n, channel |-> channel, generation |-> generation,
               time |-> clock, tag |-> tag, grammar |-> grammar]
  IN /\ n <= MaxRequests
     /\ sent' = Append(sent, item)
     /\ \/ /\ use = "dialogue" /\ (AddOut(item) \/ Stale(item))
           /\ UNCHANGED <<bursts, nudges, history>>
        \/ use = "burst" /\ BeginBurst(item) /\ UNCHANGED <<nudges, history>>
        \/ /\ use = "state" /\ tag = None /\ grammar = None \* a nudge is known by its time
           /\ BeginNudge(item) /\ UNCHANGED <<pending, bursts, history, ends>>
     /\ UNCHANGED <<use, clock, generation>>

\* The mouse answers a request with its tag, in the connection of the request.
Answers(n, status, event) ==
  LET r    == sent[n]
      item == [seq |-> n, of |-> n, channel |-> r.channel, generation |-> r.generation,
               time |-> clock, tag |-> r.tag, grammar |-> IF event THEN "event" ELSE r.grammar,
               status |-> status]
  IN /\ \/ use = "dialogue" /\ (AddIn(item) \/ Stale(item)) /\ UNCHANGED bursts
        \/ use = "burst" /\ ObserveBurst(item)
     /\ UNCHANGED <<world, nudges, history>>

Pushes(g, value, counter, acted) ==
  /\ use = "state" /\ g <= generation
  /\ ObserveState(g, value, counter, acted)
  /\ UNCHANGED <<world, pending, bursts, ends>>

Tick ==
  /\ clock < MaxTime /\ clock' = clock + 1 /\ result' = {}
  /\ UNCHANGED <<use, generation, sent, known, pending, bursts, nudges, history, ends>>

\* Tags start anew with each connection.
Reconnect ==
  /\ generation < MaxGeneration /\ generation' = generation + 1 /\ result' = {}
  /\ UNCHANGED <<use, clock, sent, known, pending, bursts, nudges, history, ends>>

Next ==
  \/ \E c \in Channels, t \in Tags \cup {None}, g \in Grammars \cup {None} : Sends(c, t, g)
  \/ \E n \in DOMAIN sent, s \in {"busy", "ok"}, e \in BOOLEAN : Answers(n, s, e)
  \/ \E g \in 0..MaxGeneration, v, k \in {0, 1}, a \in {None, clock} : Pushes(g, v, k, a)
  \/ \E b \in bursts : EndBurst(b)
  \/ AdvanceGeneration \/ Finish \/ Tick \/ Reconnect

Spec == Init /\ [][Next]_vars

TypeOK ==
  /\ clock \in 0..MaxTime /\ generation \in 0..MaxGeneration
  /\ known \in {None} \cup 0..MaxGeneration
  /\ \A p \in pending : p.request \in Range(sent) /\ p.busy \in BOOLEAN
  /\ \A b \in bursts : b.request \in Range(sent) /\ Len(b.responses) < MaxResponses
  /\ nudges \subseteq Range(sent)

\* No other request of the connection has the tag of this one.
Unique(n) == \A m \in DOMAIN sent \ {n} :
  sent[m].generation = sent[n].generation => sent[m].tag # sent[n].tag

\* A request waits for its answer, and not too long already.
Waits(n) == \E p \in pending : p.request.seq = n /\ clock - p.request.time \in 0..Window

\* A request ends once, by one response, burst, time-out or reconnect; an answer is given to
\* another request than its own only where its own does not wait within the window, and never
\* where it has a tag that no other request of its connection has, though tags start anew with
\* each connection; a burst holds reports of one connection, in order, within its deadline; and
\* a pushed state that is accepted is of the newest connection that was read.
AttributionIsSound ==
  /\ \A n \in DOMAIN ends : ends[n] <= 1
  /\ \A r \in result :
       /\ r.request # None /\ r.tag # None /\ Unique(r.of) => r.request = r.of
       /\ r.kind \in {"busy", "response"} /\ r.request # r.of => ~Waits(r.of)
       /\ r.kind = "state" => (r.accepted => r.generation = known)
       /\ "responses" \in DOMAIN r => \A i, j \in DOMAIN r.responses :
            /\ r.responses[i].generation = sent[r.request].generation
            /\ r.responses[i].time \in sent[r.request].time..(sent[r.request].time + Deadline - 1)
            /\ i < j => r.responses[i].time <= r.responses[j].time
=============================================================================
