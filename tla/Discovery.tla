------------------------------ MODULE Discovery ------------------------------
(* Automatic discovery of one selected mouse (discovery_engine.py): the kernel's  *)
(* interfaces are grouped into physical devices (device_topology.py), a stored      *)
(* profile is restored (device_profiles.py) or the device is asked whether it      *)
(* speaks HID++ 2 (protocol_discovery.py) and what was learned about it is looked   *)
(* up, the result is validated and stored, and the next research step is planned   *)
(* (discovery_research.py). Between two discoveries mice are plugged in elsewhere,   *)
(* get new firmware, and operations are learned, promoted and removed.             *)
(* A descriptor is known by its interface and firmware; a file is its content.      *)
EXTENDS Integers, FiniteSets, FiniteSetsExt, Functions

CONSTANTS
  Nodes,       \* [unit, type, number, vendor, product, phys, uniq, usb, open]
  Vendor,      \* the one whose devices are asked for HID++ 2
  Bootloader,  \* the product that a mouse is while it gets new firmware
  Capabilities,
  MaxCommands, \* bound on discoveries, demonstrations and removals
  Replies,     \* what an interface that answers reports: capability -> access
  Updatable,   \* units that may get new firmware
  None

Units == {n.unit : n \in Nodes}

VARIABLES
  path,      \* of each unit's event node, None while it is not plugged in
  layout,    \* the firmware of each unit: "old", "loading" or "new"
  mouse,     \* the selected mouse, as it was when it was selected
  learned,   \* learned operations
  profiles,  \* stored discovery profiles
  result,    \* what the last discovery returned, None when it found no device or the
             \* world has changed
  plan,      \* the research step derived from it
  opened,    \* the interfaces that it opened
  exit,      \* the exit status of the command
  proofs,    \* history: what hardware or promotion proved to be writable
  commands   \* how many commands have run

vars == <<path, layout, mouse, learned, profiles, result, plan, opened, exit, proofs, commands>>
world == <<path, layout, mouse>>
outcome == <<result, plan, opened, exit>>

WorldChanges ==
  /\ result' = None /\ plan' = None /\ opened' = {} /\ exit' = None
  /\ UNCHANGED <<learned, profiles, proofs, commands>>

Command == commands < MaxCommands /\ commands' = commands + 1 /\ UNCHANGED world

-----------------------------------------------------------------------------
(* Topology                                                                   *)

\* A user without the permission does not see an event node.
Enumerated(root) ==
  {n \in Nodes : path[n.unit] # None /\ (n.type = "evdev" => root \/ n.open)}

ParentKey(n) == IF ~n.usb /\ n.uniq # None THEN [by |-> "uniq", key |-> n.uniq]
                ELSE [by |-> "parent", key |-> n.unit]

Product(n) == IF layout[n.unit] = "loading" THEN Bootloader ELSE n.product

\* The facts that survive a new name of the node.
Interface(n) == [type |-> n.type, vendor |-> n.vendor, product |-> Product(n),
                 number |-> n.number, layout |-> layout[n.unit]]

ModelFingerprint(nodes) ==
  [i \in {Interface(n) : n \in nodes} |-> Cardinality({n \in nodes : Interface(n) = i})]

InstanceFingerprint(nodes) ==
  LET unique == {n.uniq : n \in nodes} \ {None} IN IF unique = {} THEN None ELSE unique

Hidraw(device) == {n \in device.nodes : n.type = "hidraw"}

Group(nodes) ==
  LET anchor == CHOOSE n \in nodes : TRUE IN
  [nodes |-> nodes, vendor |-> anchor.vendor, product |-> Product(anchor),
   model |-> ModelFingerprint(nodes), instance |-> InstanceFingerprint(nodes),
   ambiguous |-> FALSE]

Groups(root) ==
  LET nodes == Enumerated(root)
  IN {Group({n \in nodes : ParentKey(n) = k}) : k \in {ParentKey(n) : n \in nodes}}

\* The group of the selected event node, else those that look like the selected mouse.
Candidates(root) ==
  LET exact == {g \in Groups(root) :
                  \E n \in g.nodes : n.type = "evdev" /\ path[n.unit] = mouse.path}
  IN IF exact # {} THEN exact
     ELSE {g \in Groups(root) :
             /\ g.vendor = mouse.vendor /\ g.product = mouse.product
             /\ mouse.phys # None => \E n \in g.nodes : n.phys = mouse.phys}

DeviceGraph(root) ==
  LET found == Candidates(root)
      nodes == UNION {g.nodes : g \in found}
  IN IF Cardinality(found) = 1 THEN CHOOSE g \in found : TRUE
     ELSE [nodes |-> nodes, vendor |-> mouse.vendor, product |-> mouse.product,
           model |-> ModelFingerprint(nodes), instance |-> None, ambiguous |-> TRUE]

\* Faulty variant: the selection is believed.
InBootloaderWhenSelected(device) == mouse.product = Bootloader

InBootloader(device) == device.product = Bootloader

-----------------------------------------------------------------------------
(* Stored profiles                                                            *)

Profile(r) == [vendor |-> r.device.vendor, product |-> r.device.product,
               model |-> r.device.model, instance |-> r.device.instance,
               protocol |-> r.protocol, responder |-> r.responder, caps |-> r.caps]

\* Files are named after the model.
Save(r) == {p \in profiles : p.model # r.device.model} \cup {Profile(r)}

\* Faulty variant: the profile of any unit of the model will do.
FindAnyUnit(device) ==
  LET model == {p \in profiles : p.model = device.model}
  IN IF Cardinality(model) = 1 THEN model ELSE {}

Find(device) ==
  LET exact == {p \in profiles : p.instance = device.instance}
      left  == IF device.instance = None THEN profiles ELSE {p \in profiles : p.instance = None}
      model == {p \in left : p.model = device.model}
  IN IF device.instance # None /\ exact # {}
     THEN IF Cardinality(exact) = 1 THEN exact ELSE {}
     ELSE IF Cardinality(model) = 1 THEN model ELSE {}

Members(i, device) == {n \in Hidraw(device) : Interface(n) = i}

\* The responder of a protocol must be exactly one current member; without a protocol no
\* interface is compared.
Restorable(p, device) ==
  /\ p.vendor = device.vendor /\ p.product = device.product
  /\ p.protocol # None => Cardinality(Members(p.responder, device)) = 1

Restored(device) == {p \in Find(device) : Restorable(p, device)}

-----------------------------------------------------------------------------
(* Fresh evidence                                                             *)

\* The single operation for this device, proven or not.
FindLearned(name, device, provenOnly) ==
  LET found == {o \in learned :
                  /\ o.name = name /\ (provenOnly => o.state = "proven")
                  /\ ~device.ambiguous /\ o.model = device.model
                  /\ o.instance # None => o.instance = device.instance}
  IN IF Cardinality(found) = 1 THEN found ELSE {}

Cap(access, proof) == [access |-> access, proof |-> proof]
NoCaps == [c \in Capabilities |-> Cap("none", None)]

\* detect: the device's own interfaces are asked, each error is one that did not answer.
Asked(device) == IF device.ambiguous \/ device.vendor # Vendor THEN {} ELSE Hidraw(device)
Ambiguous(device, answering) == device.ambiguous \/ Cardinality(answering) > 1
Responder(device, answering) ==
  IF ~Ambiguous(device, answering) /\ answering # {} THEN CHOOSE n \in answering : TRUE ELSE None

QueryKnownProtocol(reply) == [c \in Capabilities |-> Cap(reply[c], "hidpp")]

ObserveUnknownDevice(device) ==
  [c \in Capabilities |->
     IF \E o \in FindLearned(c, device, TRUE) : Cardinality(Members(o.interface, device)) = 1
     THEN Cap("write", "learned") ELSE Cap("none", None)]

\* Nothing is writable on a device that may be two, and without a protocol only
\* what was learned.
Validate(device, protocol, caps) ==
  [c \in Capabilities |->
     IF caps[c].access = "write"
        /\ (device.ambiguous \/ (protocol = None /\ caps[c].proof # "learned"))
     THEN [caps[c] EXCEPT !.access = "read"] ELSE caps[c]]

Fresh(device, answering, reply) ==
  LET node     == Responder(device, answering)
      protocol == IF node = None THEN None ELSE "hidpp2"
      physical == [device EXCEPT !.ambiguous = Ambiguous(device, answering)]
      caps     == IF protocol = None THEN ObserveUnknownDevice(physical)
                  ELSE QueryKnownProtocol(reply)
  IN [device |-> physical, protocol |-> protocol,
      responder |-> IF node = None THEN None ELSE Interface(node),
      caps |-> Validate(physical, protocol, caps), cached |-> FALSE]

FromProfile(p, device) == [device |-> device, protocol |-> p.protocol,
                           responder |-> p.responder, caps |-> p.caps, cached |-> TRUE]

-----------------------------------------------------------------------------
(* The research plan. Families are matched by a fresh look at an unknown device.  *)

Status(name, r, structural) ==
  LET demonstrated == \E o \in FindLearned(name, r.device, FALSE) : o.state = "demonstrated"
  IN CASE r.caps[name].access = "write" -> "proven"
       [] r.caps[name].access # "write" /\ r.protocol # None -> "read_only"
       [] r.caps[name].access # "write" /\ r.protocol = None /\ demonstrated -> "probe_ready"
       [] OTHER -> IF structural THEN "structural" ELSE "no_evidence"

ResearchPlan(r, structural) ==
  LET status == [c \in Capabilities |-> Status(c, r, structural)]
  IN [status |-> status,
      deeper |-> r.protocol = None
                   /\ \A c \in Capabilities : status[c] \notin {"proven", "probe_ready"}]

-----------------------------------------------------------------------------

Init ==
  /\ path = [u \in Units |-> None] /\ layout = [u \in Units |-> "old"]
  /\ mouse = None /\ learned = {} /\ profiles = {}
  /\ result = None /\ plan = None /\ opened = {} /\ exit = None
  /\ proofs = {} /\ commands = 0

\* The kernel gives out the lowest free name.
Plug(u) ==
  /\ path[u] = None
  /\ LET free == 1..Cardinality(Units) \ Range(path)
     IN \E name \in free : /\ \A other \in free : name <= other
                           /\ path' = [path EXCEPT ![u] = name]
  /\ WorldChanges /\ UNCHANGED <<layout, mouse>>

Unplug(u) ==
  /\ path[u] # None
  /\ path' = [path EXCEPT ![u] = None]
  /\ WorldChanges /\ UNCHANGED <<layout, mouse>>

Update(u) ==
  /\ u \in Updatable /\ path[u] = None /\ layout[u] # "new"
  /\ layout' = [layout EXCEPT ![u] = IF @ = "old" THEN "loading" ELSE "new"]
  /\ WorldChanges /\ UNCHANGED <<path, mouse>>

\* The list of mice leaves out those in a bootloader.
Select(n) ==
  /\ n.type = "evdev" /\ path[n.unit] # None /\ Product(n) # Bootloader
  /\ mouse' = [path |-> path[n.unit], vendor |-> n.vendor, product |-> n.product, phys |-> n.phys]
  /\ WorldChanges /\ UNCHANGED <<path, layout>>

\* An operation is demonstrated or promoted on the discovered device.
Learn(name, n, state) ==
  /\ Command
  /\ result # None /\ ~result.device.ambiguous
  /\ n \in Hidraw(result.device)
  /\ learned' = {o \in learned : o.name # name}
                  \cup {[name |-> name, model |-> result.device.model,
                         instance |-> result.device.instance,
                         interface |-> Interface(n), state |-> state]}
  /\ UNCHANGED <<profiles, outcome, proofs>>

Forget(o) ==
  /\ Command
  /\ learned' = learned \ {o}
  /\ UNCHANGED <<profiles, outcome, proofs>>

\* What the interfaces' answers and the promotions prove at this moment.
ProofsOf(device, answering, reply) ==
  {[name |-> c, model |-> device.model, instance |-> device.instance, by |-> "hidpp",
    interface |-> Interface(CHOOSE n \in answering : TRUE)] :
      c \in {c \in Capabilities : Cardinality(answering) = 1 /\ reply[c] = "write"}}
  \cup {[name |-> o.name, model |-> device.model, instance |-> device.instance,
         by |-> "learned", interface |-> o.interface] :
      o \in {o \in learned : /\ o.state = "proven" /\ o.model = device.model
                             /\ o.instance \in {None, device.instance}}}

Fails(status) ==
  /\ result' = None /\ plan' = None /\ exit' = status /\ opened' = {}
  /\ UNCHANGED <<learned, profiles, proofs>>

ExitStatus(r) == IF r.device.ambiguous THEN 2 ELSE IF Hidraw(r.device) = {} THEN 1 ELSE 0

\* discover: nobody catches the exception that a bootloader raises.
Discover(force, root) ==
  /\ Command /\ mouse # None
  /\ LET device == DeviceGraph(root) IN
     IF device.nodes = {} THEN Fails(1)
     ELSE IF InBootloader(device) THEN Fails("raised")
     ELSE IF ~force /\ ~device.ambiguous /\ Restored(device) # {}
     THEN /\ result' = FromProfile(CHOOSE p \in Restored(device) : TRUE, device)
          /\ plan' = ResearchPlan(result', FALSE)
          /\ opened' = {} /\ exit' = ExitStatus(result')
          /\ UNCHANGED <<learned, profiles, proofs>>
     ELSE \E answering \in SUBSET Asked(device), reply \in Replies, structural, saves \in BOOLEAN :
          /\ result' = Fresh(device, answering, reply)
          /\ plan' = ResearchPlan(result', structural /\ result'.protocol = None)
          /\ opened' = IF result'.protocol = None THEN Hidraw(device) ELSE Asked(device)
          /\ exit' = ExitStatus(result')
          /\ profiles' = IF saves /\ ~result'.device.ambiguous THEN Save(result') ELSE profiles
          /\ proofs' = proofs \cup (IF result'.device.ambiguous THEN {}
                                    ELSE ProofsOf(device, answering, reply))
          /\ UNCHANGED learned

\* restore_known_device: the fast path of the start, which asks nothing.
RestoreKnownDevice(root) ==
  /\ Command /\ mouse # None
  /\ LET device == DeviceGraph(root) IN
     IF device.nodes = {} \/ InBootloader(device) \/ device.ambiguous \/ Restored(device) = {}
     THEN Fails(None)
     ELSE /\ result' = FromProfile(CHOOSE p \in Restored(device) : TRUE, device)
          /\ plan' = ResearchPlan(result', FALSE)
          /\ opened' = {} /\ exit' = None
          /\ UNCHANGED <<learned, profiles, proofs>>

Next ==
  \/ \E u \in Units : Plug(u) \/ Unplug(u) \/ Update(u)
  \/ \E n \in Nodes : Select(n)
  \/ \E c \in Capabilities, n \in Nodes, s \in {"demonstrated", "proven"} : Learn(c, n, s)
  \/ \E o \in learned : Forget(o)
  \/ \E force, root \in BOOLEAN : Discover(force, root)
  \/ \E root \in BOOLEAN : RestoreKnownDevice(root)

Spec == Init /\ [][Next]_vars

TypeOK ==
  /\ path \in [Units -> (1..Cardinality(Units)) \cup {None}]
  /\ layout \in [Units -> {"old", "loading", "new"}]
  /\ \A p, q \in profiles : p.model = q.model => p = q
  /\ \A o, q \in learned : o.name = q.name => o = q
  /\ opened \subseteq Nodes

\* A proof is of this device, as it was seen then: of its model, or for a stored profile of
\* this very unit, and never of another unit that can be told from it.
ProofOfDevice(e, r) ==
  /\ \/ e.model = r.device.model
     \/ r.cached /\ e.instance = r.device.instance /\ e.instance # None
  /\ e.instance = None \/ r.device.instance = None \/ e.instance = r.device.instance

\* A capability that a discovery or a stored profile calls writable was at some time proven
\* by the hardware's own answer or by a promotion, on a device of this model or, for a stored
\* profile, on this very unit; the device is one. The interface that proved it is one of the
\* device's now, the only one of its kind if it was learned or has answered before, except
\* for a learned capability of a stored profile, for which nothing is compared
\* (device_profiles.py:303-321). That an operation was removed later is not looked at.
WritableWasProven ==
  result # None => \A c \in Capabilities : result.caps[c].access = "write" =>
    /\ ~result.device.ambiguous
    /\ \E e \in proofs :
         /\ e.name = c /\ ProofOfDevice(e, result)
         /\ e.by = "hidpp" \/ ~result.cached => e.interface \in DOMAIN result.device.model
         /\ \/ e.by = "hidpp" /\ result.cached
            \/ e.by = "learned" /\ ~result.cached
            => result.device.model[e.interface] = 1

\* No interface of a mouse in its bootloader is opened, not even to read a baseline.
BootloaderIsLeftAlone == \A n \in opened : Product(n) # Bootloader
=============================================================================
