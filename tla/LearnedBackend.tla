---------------------------- MODULE LearnedBackend ----------------------------
(* The automatic backend (hardware/discovery_backend.py): what it binds of all that was   *)
(* learned of mice, whom it asks, an adapter or a learned operation, and who takes the     *)
(* packets of an interface on which events and answers arrive together.                     *)
EXTENDS Integers, Sequences, FiniteSets

CONSTANTS
  Worlds,      \* a mouse with its nodes, and what is stored and implemented for mice
  Stage,       \* the byte that stands for each DPI
  MaxChanges, MaxCalls, MaxPresses, \* bounds on changes of the world, on calls, on presses
  None

VARIABLES
  world,
  writes,      \* the backend may write
  bound,       \* what it has bound
  lastDpi,     \* what it says of the mouse
  sessions,    \* nodes on which it has a session
  watch,       \* its watcher of events
  call,        \* the transaction under way
  owed,        \* requests that the mouse has not answered
  wire,        \* packets not yet read
  dpi, been,   \* the mouse's, now and since it was bound
  mistakes,    \* packets taken for what they are not
  changes, calls, presses \* so far

vars == <<world, writes, bound, lastDpi, sessions, watch, call, owed, wire, dpi, been, mistakes,
          changes, calls, presses>>

count == <<changes, calls, presses>>

-----------------------------------------------------------------------------
(* What is bound                                                              *)

One(set) == IF Cardinality(set) = 1 THEN CHOOSE x \in set : TRUE ELSE None

\* The node that shows an interface, if it is the only one.
NodeOf(item) ==
  One({n \in world.nodes : n.interface = item.interface /\ n.type = item.type})

ProfileMatches(profile) ==
  /\ profile.model = world.model
  /\ profile.unit = None \/ world.unit = None \/ profile.unit = world.unit

\* A source that claims the right to write, or that must be asked for, is left out; of several
\* that are left none is bound.
BindingOf(profile) ==
  LET sources == {s \in profile.sources :
                    ~s.authorized /\ s.kind # "feature_state" /\ NodeOf(s) # None}
  IN IF Cardinality(sources) # 1 THEN None
     ELSE LET s == One(sources) IN [source |-> s, node |-> NodeOf(s)]

\* A learned operation is of the very unit, if it names one.
OfUnit(item) == item.model = world.model /\ (item.unit = None \/ item.unit = world.unit)

Learned(operations) ==
  LET o == One({p \in operations : p.proven /\ OfUnit(p)})
  IN IF ~writes \/ o = None THEN None
     ELSE IF NodeOf(o) = None THEN None ELSE [operation |-> o, node |-> NodeOf(o)]

\* A trigger is read on the node of the DPI operation, or not at all.
Trigger(writer) ==
  LET a == One({b \in world.actions : OfUnit(b) /\ NodeOf(b) # None})
  IN IF ~writes \/ writer = None \/ a = None THEN None
     ELSE IF NodeOf(a) = writer.node THEN [action |-> a, node |-> NodeOf(a)] ELSE None

\* The first that accepts the mouse.
Adapter ==
  LET accepting == {i \in DOMAIN world.adapters : world.adapters[i].accepts}
  IN IF accepting = {} THEN None
     ELSE world.adapters[CHOOSE i \in accepting : \A j \in accepting : i <= j]

Unbound == [open |-> TRUE, binding |-> None, dpi |-> None, rate |-> None, trigger |-> None,
            adapter |-> None]

SupportsDevice ==
  LET profile == One({p \in world.profiles : ProfileMatches(p)})
  IN IF world.ambiguous THEN [Unbound EXCEPT !.adapter = Adapter]
     ELSE [open |-> TRUE, binding |-> IF profile = None THEN None ELSE BindingOf(profile),
           dpi |-> Learned(world.operations), rate |-> Learned(world.pollings),
           trigger |-> Trigger(Learned(world.operations)), adapter |-> Adapter]

-----------------------------------------------------------------------------
(* Packets                                                                    *)

Fits(pattern, packet) ==
  pattern.length = packet.length /\ (pattern.first = None \/ pattern.first = packet.first)

Writers(node) == {k \in {"dpi", "rate"} : bound[k] # None /\ bound[k].node = node}

Replies(node) ==
  UNION {{bound[k].operation.replies[i] : i \in DOMAIN bound[k].operation.replies} :
           k \in Writers(node)}

\* Faulty variant: an answer whose report is not known is taken for a different one.
StreamLooksDisjoint ==
  \A r \in Replies(bound.binding.node) :
    r.length = bound.binding.source.length => r.first # bound.binding.source.report

\* Events are told from answers by their length or their report.
StreamIsDisjoint ==
  LET s == bound.binding.source
  IN \A r \in Replies(bound.binding.node) :
       r.length = s.length => s.report # 0 /\ r.first # None /\ r.first # s.report

TriggerIsDisjoint ==
  \A r \in Replies(bound.trigger.node) : ~Fits(r, bound.trigger.action.press)

TriggerIsSupported == bound.dpi # None /\ bound.trigger # None /\ TriggerIsDisjoint

\* The watcher takes the packet for an event.
Takes(packet) ==
  IF watch.kind = "trigger"
  THEN /\ Fits(bound.trigger.action.press, packet)
       /\ packet.raw = bound.trigger.action.press.raw
  ELSE LET s == bound.binding.source
       IN /\ packet.length = s.length /\ (s.report = 0 \/ packet.first = s.report)
          /\ packet.raw \in DOMAIN s.values
          /\ s.cycle \/ s.kind = "hid_state"

-----------------------------------------------------------------------------
(* The life of a binding                                                      *)

Init ==
  /\ world \in Worlds /\ writes \in BOOLEAN /\ dpi \in DOMAIN Stage /\ been = {dpi}
  /\ bound = Unbound /\ lastDpi = None /\ sessions = {} /\ watch = None
  /\ call = None /\ owed = {} /\ wire = <<>> /\ mistakes = {}
  /\ changes = 0 /\ calls = 0 /\ presses = 0

\* A watcher with a descriptor of its own outlives the sessions.
Alone == watch # None /\ watch.kind \in {"own", "evdev"}

DropSessions ==
  /\ sessions' = {} /\ watch' = (IF Alone THEN watch ELSE None)
  /\ wire' = SelectSeq(wire, LAMBDA p : Alone /\ p.node = watch.node)

\* What reads a node for a backend has ended when another takes its place, and the mouse has
\* answered what it was asked: finding it again takes longer.
Bind ==
  /\ call = None /\ ~Alone
  /\ bound' = SupportsDevice /\ DropSessions
  /\ lastDpi' = None /\ been' = {dpi} /\ owed' = {}
  /\ UNCHANGED <<world, writes, call, dpi, mistakes, count>>

\* The watcher is stopped.
Stop ==
  /\ watch # None /\ watch' = None
  /\ UNCHANGED <<world, writes, bound, lastDpi, sessions, call, owed, wire, dpi, been, mistakes,
                 count>>

\* What events mean is not forgotten: who has yet to watch still can.
Close ==
  /\ call = None /\ DropSessions
  /\ bound' = [Unbound EXCEPT !.open = FALSE, !.binding = bound.binding]
  /\ UNCHANGED <<world, writes, lastDpi, call, owed, dpi, been, mistakes, count>>

\* What is learned of a mouse changes, which takes longer than any answer; or the mouse is
\* plugged in elsewhere, or another takes its place.
Change ==
  /\ changes < MaxChanges /\ changes' = changes + 1
  /\ owed' = {} /\ wire' = <<>>
  /\ \E w \in Worlds \ {world} :
       /\ world' = w
       /\ IF w.nodes = world.nodes THEN call = None /\ UNCHANGED <<dpi, sessions, watch>>
          ELSE dpi' \in DOMAIN Stage /\ sessions' = {} /\ watch' = None
  /\ UNCHANGED <<writes, bound, lastDpi, call, been, mistakes, calls, presses>>

-----------------------------------------------------------------------------
(* Calls                                                                      *)

\* An adapter is asked first, a learned operation next.
Route(op) ==
  LET a == bound.adapter
      by(owns, k) == IF a # None /\ owns THEN "adapter" ELSE IF bound[k] # None THEN k ELSE None
  IN CASE op = "set dpi" -> IF writes THEN by(a # None /\ a.writes, "dpi") ELSE None
       [] op = "get dpi" -> by(a # None /\ a.monitors, "dpi")
       [] op \in {"set rate", "get rate"} -> by(a # None /\ a.rates, "rate")

\* Reading needs the last answer of an operation only.
Begin(op, value) ==
  LET by == Route(op)
  IN /\ call = None /\ calls < MaxCalls /\ calls' = calls + 1
     /\ by \in {"dpi", "rate"}
     /\ LET replies == bound[by].operation.replies
        IN call' = [op |-> op, by |-> by, node |-> bound[by].node, value |-> value,
                    replies |-> IF op = "get dpi" THEN <<replies[Len(replies)]>> ELSE replies,
                    at |-> "send"]
     /\ UNCHANGED <<world, writes, bound, lastDpi, sessions, watch, owed, wire, dpi, been, mistakes,
                    changes, presses>>

AskAdapter(value) ==
  /\ call = None /\ calls < MaxCalls /\ calls' = calls + 1
  /\ Route("set dpi") = "adapter"
  /\ dpi' = value /\ been' = been \cup {value}
  /\ UNCHANGED <<world, writes, bound, lastDpi, sessions, watch, call, owed, wire, mistakes,
                 changes, presses>>

\* The session of the node is opened if it is not open.
Send ==
  /\ call # None
  /\ call.at = "send" /\ call.node \in world.nodes
  /\ call' = [call EXCEPT !.at = "wait"] /\ owed' = owed \cup {call}
  /\ sessions' = sessions \cup {call.node}
  /\ UNCHANGED <<world, writes, bound, lastDpi, watch, wire, dpi, been, mistakes, count>>

\* What fails takes the sessions with it. What is known of the mouse stays.
Fail ==
  /\ call # None /\ call' = None /\ DropSessions
  /\ UNCHANGED <<world, writes, bound, lastDpi, owed, dpi, been, mistakes, count>>

\* Whom an event is read by.
Watch ==
  LET On(kind, node) == /\ node \in world.nodes /\ watch' = [kind |-> kind, node |-> node]
                        /\ sessions' = IF kind \in {"trigger", "shared"} THEN sessions \cup {node}
                                       ELSE sessions
      b == bound.binding
  IN /\ watch = None
     /\ bound.adapter # None => ~bound.adapter.events
     /\ \/ TriggerIsSupported /\ On("trigger", bound.trigger.node)
        \/ /\ ~TriggerIsSupported /\ b # None
           /\ \/ b.source.type = "evdev" /\ On("evdev", b.node)
              \/ b.source.type = "hid" /\ Writers(b.node) = {} /\ On("own", b.node)
              \/ /\ b.source.type = "hid" /\ Writers(b.node) # {} /\ StreamIsDisjoint
                 /\ On("shared", b.node)
     /\ UNCHANGED <<world, writes, bound, lastDpi, call, owed, wire, dpi, been, mistakes, count>>

\* A packet goes to the call that waits for its like, else to the watcher.
Read ==
  /\ wire # <<>>
  /\ LET packet == Head(wire)
         own == watch # None /\ watch.node = packet.node
         awaited == /\ call # None
                    /\ call.at = "wait" /\ call.node = packet.node
                    /\ Fits(Head(call.replies), packet)
         taken == own /\ Takes(packet)
         Mistake(of) == mistakes' = mistakes \cup {of}
     IN IF awaited
        THEN /\ IF packet.is = "reply" THEN UNCHANGED mistakes
                ELSE Mistake(IF taken THEN "event as reply" ELSE "stray event as reply")
             /\ IF Len(call.replies) > 1
                THEN /\ call' = [call EXCEPT !.replies = Tail(@), !.at = "send"]
                     /\ wire' = Tail(wire) /\ UNCHANGED <<lastDpi, sessions, watch>>
                ELSE /\ call' = None
                     /\ IF call.op = "set dpi" /\ packet.value # call.value
                        THEN DropSessions /\ UNCHANGED lastDpi
                        ELSE /\ wire' = Tail(wire) /\ UNCHANGED <<sessions, watch>>
                             /\ lastDpi' = IF call.by = "dpi" THEN packet.value ELSE lastDpi
        ELSE /\ wire' = Tail(wire) /\ UNCHANGED <<call, sessions, watch>>
             /\ IF taken /\ packet.is = "reply"
                THEN Mistake(IF bound.open THEN "reply as event" ELSE "reply as event when closed")
                ELSE UNCHANGED mistakes
             /\ lastDpi' = IF taken /\ watch.kind # "trigger" /\ ~bound.binding.source.cycle
                           THEN bound.binding.source.values[packet.raw] ELSE lastDpi
  /\ UNCHANGED <<world, writes, bound, owed, dpi, been, count>>

-----------------------------------------------------------------------------
(* The mouse                                                                  *)

Heard(node) == node \in sessions \/ (watch # None /\ watch.node = node)

\* A request is executed and answered; a write by its first answer.
Answer ==
  \E request \in owed :
    LET pattern == Head(request.replies)
        d == IF request.op = "set dpi" /\ Len(request.replies) > 1 THEN request.value ELSE dpi
        reply(first) == [node |-> request.node, length |-> pattern.length, first |-> first,
                         raw |-> 1, value |-> d, is |-> "reply"]
    IN /\ owed' = owed \ {request} /\ dpi' = d /\ been' = been \cup {d}
       /\ \E first \in IF pattern.first = None THEN {4, 5} ELSE {pattern.first} :
            wire' = IF Heard(request.node) THEN Append(wire, reply(first)) ELSE wire
       /\ UNCHANGED <<world, writes, bound, lastDpi, sessions, watch, call, mistakes, count>>

\* The user presses the DPI button: the mouse sends what it sends then.
Press ==
  /\ presses < MaxPresses /\ presses' = presses + 1
  /\ \E d \in DOMAIN Stage \ {dpi} :
       /\ dpi' = d /\ been' = been \cup {d}
       /\ LET sent == [i \in DOMAIN world.events |->
                [node |-> NodeOf(world.events[i]), length |-> world.events[i].length,
                 first |-> world.events[i].first, value |-> 0, is |-> "event",
                 raw |-> IF world.events[i].raw = None THEN Stage[d] ELSE world.events[i].raw]]
          IN wire' = wire \o SelectSeq(sent, LAMBDA p : Heard(p.node))
  /\ UNCHANGED <<world, writes, bound, lastDpi, sessions, watch, call, owed, mistakes, changes,
                 calls>>

Next ==
  \/ Bind \/ Stop \/ Close \/ Change \/ Send \/ Fail \/ Watch \/ Read \/ Answer \/ Press
  \/ \E d \in DOMAIN Stage : Begin("set dpi", d) \/ AskAdapter(d)
  \/ \E op \in {"get dpi", "set rate", "get rate"} : Begin(op, None)

Spec == Init /\ [][Next]_vars

-----------------------------------------------------------------------------
(* Properties                                                                 *)

\* The type invariant.
TypeOK ==
  /\ world \in Worlds /\ dpi \in DOMAIN Stage /\ been \subseteq DOMAIN Stage
  /\ DOMAIN bound = {"open", "binding", "dpi", "rate", "trigger", "adapter"}
  /\ mistakes \subseteq {"event as reply", "stray event as reply", "reply as event",
                    "reply as event when closed"}

\* On a node where events are watched an answer, on time or late, is never shown as a change
\* of the DPI, and an event never confirms a write or a reading.
PacketsAreApart == mistakes \subseteq {"stray event as reply", "reply as event when closed"}

\* What the backend says of a mouse was so after it was bound, whoever changed it; unless the
\* mouse sends events that nobody watches and that look like answers.
SaidWasSo == mistakes = {} => lastDpi \in been \cup {None}

\* Sessions and watchers are on nodes of what is bound, and a node has one reader.
OneReader ==
  LET nodes == {bound[k].node : k \in {k \in {"binding", "dpi", "rate", "trigger"} :
                                         bound[k] # None}}
  IN /\ sessions \subseteq nodes
     /\ Alone => watch.node \notin sessions
     /\ bound.trigger # None => bound.dpi # None /\ Writers(bound.trigger.node) # {}

\* What the automatic backend promises.
BackendIsSound == PacketsAreApart /\ SaidWasSo /\ OneReader
=============================================================================
