---------------------------- MODULE Publication ----------------------------
(***************************************************************************)
(* What the fleet's clients are told: relay links (one node fronting       *)
(* another), the forwarding rules installed for them, the subscription     *)
(* groups and the files published for every group.  Operators' consoles    *)
(* and the hub monitor's timer change and republish all of this, each      *)
(* registry under its own lock and the sequence of steps under none.       *)
(* Every node serves one protocol; its port stands for all of them.        *)
(***************************************************************************)
EXTENDS Naturals, Sequences, FiniteSets, FiniteSetsExt, SequencesExt

CONSTANTS
    Spokes, Hub,    \* the machines
    Consoles,       \* processes of the terminal interface
    Timer,          \* the hub monitor's refresh loop
    GroupIds, Salts,
    FirstGroup, FirstSalt,   \* the group that is seeded
    Ports,          \* ports of the protocol; 0 when the node does not serve it
    RelayPorts,     \* ports a relay may listen on
    Changes,        \* what operators may ask for
    Exhausted,      \* machines whose quota is used up at the start
    None,
    MaxChanges,     \* bound on operations started by operators
    MaxPublishers,  \* bound on processes that publish at the same time
    MaxTrouble      \* bound on failures, crashes and quotas that run out or start anew

Hosts == Spokes \cup {Hub}
Procs == Consoles \cup {Timer}

ASSUME MachinesAssumption == IsFiniteSet(Spokes) /\ Hub \notin Spokes /\ None \notin Hosts
ASSUME ExhaustedAssumption == Exhausted \subseteq Hosts
ASSUME ProcsAssumption == Timer \notin Consoles /\ None \notin Procs
\* A protocol is configured at the largest port at first.
ASSUME PortsAssumption == \E m \in Ports : \A n \in Ports : m >= n
\* What the screens accept: machines, ports and salts of the fleet.
ASSUME ChangesAssumption ==
    \A c \in Changes : /\ c.kind = "add" => c.node \in Spokes
                       /\ c.kind \in {"link", "unlink"} => c.landing \in Hosts
                       /\ c.kind = "port" => c.port \in Ports
                       /\ c.kind = "group" => c.salt \in Salts
\* No file is told apart from a published one.
ASSUME ProfilesAssumption ==
    \A S \in SUBSET Hosts : None \notin [S -> Hosts \X (Ports \cup RelayPorts)]
ASSUME SaltsAssumption == FirstSalt \in Salts /\ FirstGroup \in GroupIds /\ None \notin GroupIds

VARIABLES
    fleet,      \* spokes that are registered and installed
    port,       \* per machine, the port it serves
    links,      \* per landing node, its relay and the port the relay listens on
    relay,      \* per machine: saved forwards, rules in the kernel, boot unit
    spent,      \* machines whose quota is used up
    seen,       \* spokes the hub's monitor snapshot shows as used up
    groups,     \* per group ID, its salt and members
    cache,      \* per spoke, the subscription body the hub has cached
    files,      \* per salt, the published endpoints of the group's members
    keys,       \* salts with a published cipher key
    marker,     \* the relay publication marker
    proc,       \* what every process is at
    overlap,    \* two processes have published at the same time
    changes, trouble

registries == <<fleet, port, links, groups>>
published == <<cache, files, keys>>
quotas == <<spent, seen>>
vars == <<registries, relay, quotas, published, marker, proc, overlap, changes, trouble>>

Idle == [pc |-> "menu", change |-> None, view |-> None, todo |-> << >>,
         specs |-> << >>, left |-> {}, asked |-> {}, bad |-> FALSE, desired |-> {},
         calm |-> FALSE]   \* whether nobody else has moved since it began

\* EnsureSeeded: opening a screen or the first refresh registers a group with
\* the whole fleet.
seedGroupMembers == [salt |-> FirstSalt, members |-> Hosts]

NoRelay == [saved |-> {}, rules |-> {}, unit |-> FALSE]

Init ==
    /\ fleet = Spokes
    /\ port = [h \in Hosts |-> Max(Ports)]
    /\ links = [h \in Hosts |-> None]
    /\ relay = [h \in Hosts |-> NoRelay]
    /\ spent = Exhausted /\ seen = {}
    /\ groups = [g \in GroupIds |-> IF g = FirstGroup THEN seedGroupMembers ELSE None]
    /\ cache = [s \in Spokes |-> None]
    /\ files = [s \in Salts |-> None] /\ keys = {}
    /\ marker = {}
    /\ proc = [p \in Procs |-> Idle]
    /\ overlap = FALSE
    /\ changes = 0 /\ trouble = 0

Trouble == trouble < MaxTrouble /\ trouble' = trouble + 1
At(p, pc) == proc[p].pc = pc
\* The fleet is not calm any more for the processes other than p.
Disturbed(p) == [q \in Procs |-> IF q = p THEN proc[q] ELSE [proc[q] EXCEPT !.calm = FALSE]]
Upd(p, r) == proc' = [Disturbed(p) EXCEPT ![p] = r]
Begin(p, pc, c, v, relays) ==
    Upd(p, [proc[p] EXCEPT !.pc = pc, !.change = c, !.view = v, !.todo = relays, !.calm = TRUE])
Done(p) == proc' = [Disturbed(p) EXCEPT ![p] = Idle]

-----------------------------------------------------------------------------
(* Relay links: relaylinks.                                                *)

IsLanding(ls, n) == ls[n] # None
ServedBy(ls, r) == {l \in Hosts : ls[l] # None /\ ls[l].relay = r}

\* validate: no self-relay, no chains, and no listening port twice on a relay.
validate(ls, l, link) ==
    /\ l # link.relay
    /\ ServedBy(ls, l) = {}
    /\ ~IsLanding(ls, link.relay)
    /\ \A m \in ServedBy(ls, link.relay) \ {l} : ls[m].rport # link.rport

Endpoints == fleet \cup {Hub}

\* RelayAvailable: the spokes by the last snapshot, the hub by its own usage.
Available(n) == IF n = Hub THEN Hub \notin spent ELSE n \notin seen

\* RelayRewrites: the links clients are sent through.
Fronted ==
    {l \in Hosts : /\ IsLanding(links, l)
                   /\ {l, links[l].relay} \subseteq Endpoints
                   /\ Available(l) /\ Available(links[l].relay)
                   /\ port[l] # 0}

\* relayPublicationState: one line per link, with the ports.
relayPublicationState ==
    {IF l \in Fronted THEN <<l, links[l].relay, links[l].rport, port[l]>> ELSE <<l>> :
        l \in {m \in Hosts : IsLanding(links, m)}}

\* The relays to reinstall; one without quota is left alone.
RelaysInUse ==
    IF \A l \in Hosts : ~IsLanding(links, l) THEN {}
    ELSE {r \in Hosts : ServedBy(links, r) # {} /\ Available(r)}

\* RelayConfigFor: a landing node that has left the fleet is an error.
Dangling(r) == ~(ServedBy(links, r) \subseteq Endpoints)
RelayConfigFor(r) ==
    {<<l, links[l].rport, port[l]>> : l \in {m \in ServedBy(links, r) : Available(m) /\ port[m] # 0}}

-----------------------------------------------------------------------------
(* Subscription groups and what is published for them.                     *)

Registered == {g \in GroupIds : groups[g] # None}
\* validateUnique.
SaltFree(g, salt) == \A h \in Registered \ {g} : groups[h].salt # salt

MembersOf(gs) == UNION {gs[g].members : g \in {h \in GroupIds : gs[h] # None}}

\* remoteSourcePartsFromBodies: a rewrite replaces the endpoints whose port it
\* names, and leaves the others as the body has them.
Entry(n, body) == IF n \in Fronted /\ body = port[n] THEN <<links[n].relay, links[n].rport>>
                  ELSE <<n, body>>

\* What a group publishes, from the bodies at hand: the hub's own settings, and
\* what the spokes sent or the cache holds.
Sources(members, bodies) ==
    {n \in members : n = Hub \/ (n \in fleet /\ bodies[n] # None)}
buildSubscriptionGroup(members, bodies) ==
    [n \in Sources(members, bodies) |-> Entry(n, IF n = Hub THEN port[Hub] ELSE bodies[n])]
\* WriteSubscriptionGroups: every group that has something to publish.
Specs(gs, bodies) ==
    LET live == {g \in GroupIds : gs[g] # None /\ Sources(gs[g].members, bodies) # {}}
    IN [s \in {gs[g].salt : g \in live} |->
          LET g == CHOOSE h \in live : gs[h].salt = s
          IN buildSubscriptionGroup(gs[g].members, bodies)]

-----------------------------------------------------------------------------
(* Operators.                                                              *)

Start(p) == At(p, "menu") /\ p \in Consoles /\ changes < MaxChanges /\ changes' = changes + 1

\* The relay screen, up to the confirmation: candidates, ports and the relays
\* to touch come from the registry as the screen loaded it.
landingCandidates(c) ==
    IF c.kind = "unlink" \/ IsLanding(links, c.landing) THEN IsLanding(links, c.landing)
    ELSE c.landing \in Endpoints /\ port[c.landing] # 0 /\ ServedBy(links, c.landing) = {}
relayCandidates(c) == c.relay \in Endpoints \ {c.landing} /\ ~IsLanding(links, c.relay)

\* AllocateForwards: a port the relay does not use, as far as the screen knows.
AllocateForwards(c) ==
    RelayPorts \ ({links[l].rport : l \in ServedBy(links, c.relay)} \cup {port[c.relay]})

planForwards(p, c) ==
    /\ c.kind \in {"link", "unlink"} /\ Start(p)
    /\ landingCandidates(c)
    /\ LET old == IF IsLanding(links, c.landing) THEN <<links[c.landing].relay>> ELSE << >>
       IN IF c.kind = "unlink"
          THEN Begin(p, "confirm", c, None, old)
          ELSE /\ relayCandidates(c)
               /\ \E rp \in AllocateForwards(c) :
                    Begin(p, "confirm", c, [relay |-> c.relay, rport |-> rp],
                          <<c.relay>> \o (IF old = <<c.relay>> THEN << >> ELSE old))
    /\ UNCHANGED <<registries, relay, quotas, published, marker, overlap, trouble>>

\* Mutated form: the plan is trusted when it is carried out.
SetUnchecked(p) ==
    LET c == proc[p].change IN
    /\ At(p, "confirm")
    /\ links' = [links EXCEPT ![c.landing] = IF c.kind = "unlink" THEN None ELSE proc[p].view]
    /\ Upd(p, [proc[p] EXCEPT !.pc = IF proc[p].todo = << >> THEN "refresh" ELSE "apply"])
    /\ UNCHANGED <<fleet, port, groups, relay, quotas, published, marker, overlap, changes, trouble>>

\* applyRelayChange's first step, relaylinks.Set or Remove, under the lock of
\* the link registry.
Set(p) ==
    LET c == proc[p].change IN
    /\ At(p, "confirm")
    /\ IF c.kind = "unlink" \/ validate(links, c.landing, proc[p].view)
       THEN /\ links' = [links EXCEPT ![c.landing] = IF c.kind = "unlink" THEN None ELSE proc[p].view]
            /\ Upd(p, [proc[p] EXCEPT !.pc = IF proc[p].todo = << >> THEN "refresh" ELSE "apply"])
       ELSE Done(p) /\ UNCHANGED links
    /\ UNCHANGED <<fleet, port, groups, relay, quotas, published, marker, overlap, changes, trouble>>

\* Add or Update of a group, under the lock of the group registry.
SetGroup(c) == /\ SaltFree(c.id, c.salt)
               /\ groups' = [groups EXCEPT ![c.id] = [salt |-> c.salt, members |-> c.members]]
\* Remove: the last group stays.
RemoveGroup(c) == /\ groups[c.id] # None /\ Registered # {c.id}
                  /\ groups' = [groups EXCEPT ![c.id] = None]

\* applyGroupChange, then a refresh.
applyGroupChange(p, c) ==
    /\ c.kind \in {"group", "ungroup"} /\ Start(p)
    /\ IF c.kind = "group" THEN SetGroup(c) ELSE RemoveGroup(c)
    /\ Begin(p, "refresh", c, None, << >>)
    /\ UNCHANGED <<fleet, port, links, relay, quotas, published, marker, overlap, trouble>>

\* A protocol's port is changed (SpokeSettings); it ends with a refresh and
\* leaves the relays to the timer.
changePort(p, c) ==
    /\ c.kind = "port" /\ Start(p)
    /\ c.node \in Endpoints
    /\ port' = [port EXCEPT ![c.node] = c.port]
    /\ Begin(p, "refresh", c, None, << >>)
    /\ UNCHANGED <<fleet, links, groups, relay, quotas, published, marker, overlap, trouble>>

\* The end of AddNode: the node is committed, then a member of its groups.
AddNode(p, c) ==
    /\ c.kind = "add" /\ Start(p)
    /\ c.node \notin fleet
    /\ fleet' = fleet \cup {c.node}
    /\ relay' = [relay EXCEPT ![c.node] = NoRelay]
    /\ Begin(p, "addmember", c, None, << >>)
    /\ UNCHANGED <<port, links, groups, quotas, published, marker, overlap, trouble>>

AddMember(p) ==
    LET c == proc[p].change IN
    /\ At(p, "addmember")
    /\ groups' = [g \in GroupIds |->
         IF g \in c.ids \cap Registered THEN [groups[g] EXCEPT !.members = @ \cup {c.node}] ELSE groups[g]]
    /\ Upd(p, [proc[p] EXCEPT !.pc = "refresh"])
    /\ UNCHANGED <<fleet, port, links, relay, quotas, published, marker, overlap, changes, trouble>>

\* detachNode, from the registry on: the spoke's entry, then its memberships,
\* then its links.  The spoke itself was uninstalled, or is out of reach.
RemoveNode(p, c) ==
    /\ c.kind = "remove" /\ Start(p)
    /\ c.node \in fleet
    /\ fleet' = fleet \ {c.node}
    /\ Begin(p, "dropmember", c, None, << >>)
    /\ UNCHANGED <<port, links, groups, relay, quotas, published, marker, overlap, trouble>>

DropMember(p) ==
    LET n == proc[p].change.node IN
    /\ At(p, "dropmember")
    /\ groups' = [g \in GroupIds |->
         IF groups[g] = None THEN None ELSE [groups[g] EXCEPT !.members = @ \ {n}]]
    /\ Upd(p, [proc[p] EXCEPT !.pc = "dropnode"])
    /\ UNCHANGED <<fleet, port, links, relay, quotas, published, marker, overlap, changes, trouble>>

\* DropNode: both the node's own link and the links it relayed; the relays
\* that still forward to it have to be told.
DropNode(p) ==
    LET n == proc[p].change.node
        orphaned == IF IsLanding(links, n) THEN <<links[n].relay>> ELSE << >> IN
    /\ At(p, "dropnode")
    /\ links' = [l \in Hosts |-> IF l = n \/ l \in ServedBy(links, n) THEN None ELSE links[l]]
    /\ Upd(p, [proc[p] EXCEPT !.pc = IF orphaned = << >> THEN "refresh" ELSE "apply", !.todo = orphaned])
    /\ UNCHANGED <<fleet, port, groups, relay, quotas, published, marker, overlap, changes, trouble>>

\* A write of a registry fails: an operator's change is refused; the tails of
\* AddNode and RemoveNode warn and go on.
RegistryFails(p) ==
    /\ proc[p].pc \in {"confirm", "addmember", "dropmember", "dropnode"}
    /\ Trouble
    /\ CASE At(p, "confirm") -> Done(p)
         [] At(p, "dropmember") -> Upd(p, [proc[p] EXCEPT !.pc = "dropnode", !.bad = TRUE])
         [] OTHER -> Upd(p, [proc[p] EXCEPT !.pc = "refresh", !.bad = TRUE])
    /\ UNCHANGED <<registries, relay, quotas, published, marker, overlap, changes>>

-----------------------------------------------------------------------------
(* The forwarding rules of one relay.                                      *)

\* The rest of the relays, or the refresh.  A console stops at the first
\* relay that fails, the timer and the removal of a node do not.
NextRelay(p, failed) ==
    IF failed /\ p \in Consoles /\ proc[p].change.kind \in {"link", "unlink"}
    THEN Done(p)
    ELSE Upd(p, [proc[p] EXCEPT !.pc = IF Len(proc[p].todo) = 1 THEN "refresh" ELSE "apply",
                 !.todo = Tail(proc[p].todo), !.bad = proc[p].bad \/ failed])

\* Applier.Apply and, for an empty configuration, Clear.
Applied(cfg) == [saved |-> cfg, rules |-> cfg, unit |-> cfg # {}]

\* ApplyRelayFor: the configuration is built from the registries as they are,
\* and sent to the relay.
ApplyRelayFor(p) ==
    LET r == Head(proc[p].todo) IN
    /\ At(p, "apply")
    /\ IF Dangling(r) \/ r \notin Endpoints
       THEN NextRelay(p, TRUE) /\ UNCHANGED relay
       ELSE NextRelay(p, FALSE) /\ relay' = [relay EXCEPT ![r] = Applied(RelayConfigFor(r))]
    /\ UNCHANGED <<registries, quotas, published, marker, overlap, changes, trouble>>

\* A command of install or Clear fails half way: Apply saves first and enables
\* the unit last, Clear clears the rules first and saves last.
Installing(now, cfg) == {[now EXCEPT !.saved = cfg], [now EXCEPT !.saved = cfg, !.rules = cfg]}
Clearing(now) == {[now EXCEPT !.rules = {}], [now EXCEPT !.rules = {}, !.unit = FALSE]}

\* The relay is out of reach, it fails half way, or its answer is lost.
ApplyFails(p) ==
    LET r == Head(proc[p].todo)
        cfg == RelayConfigFor(r)
        part == IF cfg = {} THEN Clearing(relay[r]) ELSE Installing(relay[r], cfg)
    IN
    /\ At(p, "apply") /\ ~Dangling(r) /\ r \in Endpoints /\ Trouble
    /\ \E new \in {relay[r], Applied(cfg)} \cup part : relay' = [relay EXCEPT ![r] = new]
    /\ NextRelay(p, TRUE)
    /\ UNCHANGED <<registries, quotas, published, marker, overlap, changes>>

-----------------------------------------------------------------------------
(* Publication: Controller.RefreshSubscriptions, with no lock of its own.  *)

Publishing(p) == proc[p].pc \in {"key", "file", "sweep", "sweepkeys"}

\* memberOfAnyGroup: the spokes whose subscriptions are collected.
Collected == {n \in fleet : n \in MembersOf(groups)}

\* The body fetchNodeSubscription gets, or cachedNodeSubscription holds for a
\* spoke that does not answer.
Body(n, silent) == IF n \in silent THEN cache[n] ELSE port[n]
cacheNodeSubscription(answered) == [n \in Spokes |-> IF n \in answered THEN port[n] ELSE cache[n]]
pruneSubscriptionCache(asked) == [n \in Spokes |-> IF n \in asked THEN cache[n] ELSE None]

\* The registries are read, every member spoke is asked for its subscription,
\* and what does not answer is taken from the cache, with an error at the end.
RefreshSubscriptions(p) ==
    /\ At(p, "refresh")
    /\ Cardinality({q \in Procs : Publishing(q)}) < MaxPublishers
    /\ \E silent \in {{}} \cup {{n} : n \in Collected} :
         LET bodies == [n \in Spokes |-> Body(n, silent)]
             specs == Specs(groups, bodies)
         IN /\ IF silent = {} THEN UNCHANGED trouble ELSE Trouble
            /\ cache' = cacheNodeSubscription(Collected \ silent)
            /\ Upd(p, [proc[p] EXCEPT !.pc = IF DOMAIN specs = {} THEN "sweep" ELSE "key", !.specs = specs,
                       !.left = DOMAIN specs, !.asked = Collected,
                       !.bad = \/ proc[p].bad \/ silent # {}
                               \/ Cardinality(DOMAIN specs) # Cardinality(Registered)])
    /\ overlap' = (overlap \/ \E q \in Procs \ {p} : Publishing(q))
    /\ UNCHANGED <<registries, relay, quotas, files, keys, marker, changes>>

\* The hub's own settings cannot be read: taken for a hub that is not installed
\* yet, so nothing is published and the caller is told of no error.
NothingToPublish(p) ==
    /\ At(p, "refresh") /\ Trouble
    /\ Upd(p, [proc[p] EXCEPT !.pc = "unread"])
    /\ UNCHANGED <<registries, relay, quotas, published, marker, overlap, changes>>

\* writeAuthKeyCipherKey, before the group's files.
writeAuthKeyCipherKey(p) ==
    LET s == CHOOSE t \in proc[p].left : TRUE IN
    /\ At(p, "key")
    /\ keys' = keys \cup {s}
    /\ Upd(p, [proc[p] EXCEPT !.pc = "file"])
    /\ UNCHANGED <<registries, relay, quotas, cache, files, marker, overlap, changes, trouble>>

\* Mutated form: a file that is there is taken for up to date.
WriteOnce(p) ==
    LET s == CHOOSE t \in proc[p].left : TRUE IN
    /\ At(p, "file")
    /\ files' = [files EXCEPT ![s] = IF @ = None THEN proc[p].specs[s] ELSE @]
    /\ Upd(p, [proc[p] EXCEPT !.pc = IF proc[p].left = {s} THEN "sweep" ELSE "key", !.left = proc[p].left \ {s}])
    /\ UNCHANGED <<registries, relay, quotas, cache, keys, marker, overlap, changes, trouble>>

writeSubscriptionFiles(p) ==
    LET s == CHOOSE t \in proc[p].left : TRUE IN
    /\ At(p, "file")
    /\ files' = [files EXCEPT ![s] = proc[p].specs[s]]
    /\ Upd(p, [proc[p] EXCEPT !.pc = IF proc[p].left = {s} THEN "sweep" ELSE "key", !.left = proc[p].left \ {s}])
    /\ UNCHANGED <<registries, relay, quotas, cache, keys, marker, overlap, changes, trouble>>

\* Mutated form: the keys are swept with the files still there.
SweepKeysFirst(p) ==
    /\ At(p, "sweep")
    /\ keys' = keys \cap DOMAIN proc[p].specs
    /\ Upd(p, [proc[p] EXCEPT !.pc = "sweepkeys"])
    /\ UNCHANGED <<registries, relay, quotas, cache, files, marker, overlap, changes, trouble>>

\* removeStaleSubscriptionFiles: the files, and last their keys.
removeStaleSubscriptionFiles(p) ==
    /\ At(p, "sweep")
    /\ files' = [s \in Salts |-> IF s \in DOMAIN proc[p].specs THEN files[s] ELSE None]
    /\ Upd(p, [proc[p] EXCEPT !.pc = "sweepkeys"])
    /\ UNCHANGED <<registries, relay, quotas, cache, keys, marker, overlap, changes, trouble>>

\* The end of a refresh: of the tick too unless something failed on the way.
Refreshed(p) ==
    IF p = Timer /\ ~proc[p].bad
    THEN Upd(p, [proc[p] EXCEPT !.pc = "mark", !.specs = << >>])
    ELSE Done(p)

\* The keys, and the cached bodies of the spokes that were not asked.
removeStaleTokenFiles(p) ==
    /\ At(p, "sweepkeys")
    /\ keys' = keys \cap DOMAIN proc[p].specs
    /\ cache' = pruneSubscriptionCache(proc[p].asked)
    /\ Refreshed(p)
    /\ UNCHANGED <<registries, relay, quotas, files, marker, overlap, changes, trouble>>

\* The caller of such a refresh goes on as after one that published: the tick
\* writes its marker unless something failed on the way.
ReturnUnpublished(p) ==
    /\ At(p, "unread")
    /\ marker' = IF p = Timer /\ ~proc[p].bad THEN proc[p].desired ELSE marker
    /\ Done(p)
    /\ UNCHANGED <<registries, relay, quotas, published, overlap, changes, trouble>>

\* A registry cannot be read, or a file cannot be written or removed: the
\* refresh ends there.
RefreshFails(p) ==
    /\ At(p, "refresh") \/ Publishing(p)
    /\ Trouble
    /\ Done(p)
    /\ UNCHANGED <<registries, relay, quotas, published, marker, overlap, changes>>

-----------------------------------------------------------------------------
(* The timer of the hub monitor.                                           *)

\* RefreshMonitor: the usage of every spoke; the previous figures of a spoke
\* that does not answer are kept.
RefreshMonitor ==
    /\ At(Timer, "menu")
    /\ \E silent \in {{}} \cup {{n} : n \in fleet} :
         /\ IF silent = {} THEN UNCHANGED trouble ELSE Trouble
         /\ seen' = {n \in fleet : IF n \in silent THEN n \in seen ELSE n \in spent}
    /\ Begin(Timer, "compare", None, None, << >>)
    /\ UNCHANGED <<registries, relay, spent, published, marker, overlap, changes>>

ReconcileRelayPublication ==
    /\ At(Timer, "compare")
    /\ IF relayPublicationState = marker THEN Done(Timer)
       ELSE Upd(Timer, [proc[Timer] EXCEPT !.pc = IF RelaysInUse = {} THEN "refresh" ELSE "apply",
                        !.todo = SetToSeq(RelaysInUse), !.desired = relayPublicationState])
    /\ UNCHANGED <<registries, relay, quotas, published, marker, overlap, changes, trouble>>

writeRelayPublication ==
    /\ At(Timer, "mark")
    /\ marker' = proc[Timer].desired
    /\ Done(Timer)
    /\ UNCHANGED <<registries, relay, quotas, published, overlap, changes, trouble>>

\* The process dies.
Crash(p) ==
    /\ ~At(p, "menu") /\ Trouble
    /\ Done(p)
    /\ UNCHANGED <<registries, relay, quotas, published, marker, overlap, changes>>

-----------------------------------------------------------------------------
(* The machines.                                                           *)

\* QuotaController.Stop: the rules are withdrawn with the service; a failure
\* of that is only logged.
Suspend(h) ==
    /\ h \in Endpoints \ spent /\ Trouble
    /\ spent' = spent \cup {h}
    /\ relay' = [relay EXCEPT ![h].rules = {}] \/ UNCHANGED relay
    /\ proc' = Disturbed(None)
    /\ UNCHANGED <<registries, seen, published, marker, overlap, changes>>

\* QuotaController.Start: what is saved is installed again; a failure of that
\* is only logged too.
Resume(h) ==
    /\ h \in spent /\ Trouble
    /\ spent' = spent \ {h}
    /\ relay' = [relay EXCEPT ![h].rules = relay[h].saved] \/ UNCHANGED relay
    /\ proc' = Disturbed(None)
    /\ UNCHANGED <<registries, seen, published, marker, overlap, changes>>

\* A reboot empties the kernel's tables; the boot unit runs Reapply.
Reapply(h) ==
    /\ relay[h] # NoRelay /\ Trouble
    /\ relay' = [relay EXCEPT ![h].rules = IF relay[h].unit THEN relay[h].saved ELSE {}]
    /\ proc' = Disturbed(None)
    /\ UNCHANGED <<registries, quotas, published, marker, overlap, changes>>

-----------------------------------------------------------------------------

Operator(p, c) ==
    planForwards(p, c) \/ applyGroupChange(p, c) \/ changePort(p, c) \/ AddNode(p, c) \/ RemoveNode(p, c)

Process(p) ==
    \/ Set(p) \/ AddMember(p) \/ DropMember(p) \/ DropNode(p) \/ RegistryFails(p)
    \/ ApplyRelayFor(p) \/ ApplyFails(p)
    \/ RefreshSubscriptions(p) \/ writeAuthKeyCipherKey(p) \/ writeSubscriptionFiles(p)
    \/ removeStaleSubscriptionFiles(p) \/ removeStaleTokenFiles(p) \/ RefreshFails(p)
    \/ NothingToPublish(p) \/ ReturnUnpublished(p)
    \/ Crash(p)

Next ==
    \/ \E p \in Consoles, c \in Changes : Operator(p, c)
    \/ \E p \in Procs : Process(p)
    \/ RefreshMonitor \/ ReconcileRelayPublication \/ writeRelayPublication
    \/ \E h \in Hosts : Suspend(h) \/ Resume(h) \/ Reapply(h)

Spec == Init /\ [][Next]_vars

-----------------------------------------------------------------------------
(* Properties.                                                             *)

Pcs == {"menu", "confirm", "addmember", "dropmember", "dropnode", "apply",
        "refresh", "key", "file", "sweep", "sweepkeys", "unread", "compare", "mark"}
Forwards == Hosts \X RelayPorts \X Ports
Links == [relay : Hosts, rport : RelayPorts]

\* Types; a group that is published has somebody to publish.
TypeOK ==
    /\ fleet \subseteq Spokes /\ port \in [Hosts -> Ports]
    /\ \A h \in Hosts : links[h] = None \/ links[h] \in Links
    /\ \A h \in Hosts : /\ relay[h].saved \subseteq Forwards /\ relay[h].rules \subseteq Forwards
                        /\ relay[h].unit \in BOOLEAN
    /\ spent \subseteq Hosts /\ seen \subseteq Spokes /\ keys \subseteq Salts
    /\ \A g \in Registered : groups[g].salt \in Salts /\ groups[g].members \subseteq Hosts
    /\ cache \in [Spokes -> Ports \cup {None}]
    /\ \A s \in Salts : files[s] # None =>
         /\ DOMAIN files[s] \in SUBSET Hosts \ {{}}
         /\ \A n \in DOMAIN files[s] : files[s][n] \in Hosts \X (Ports \cup RelayPorts)
    /\ \A p \in Procs : proc[p].pc \in Pcs
    /\ changes \in 0..MaxChanges /\ trouble \in 0..MaxTrouble

\* Two operators plan on lists that go stale, and nodes come and go meanwhile:
\* still no node relays for itself or fronts a node that is fronted, no relay
\* port carries two landing nodes, and no two groups share a salt, which would
\* publish one group's nodes under the other's address (relaylinks.validate,
\* subgroups.validateUnique).
RegistriesSound ==
    /\ \A l \in Hosts : IsLanding(links, l) =>
         /\ links[l].relay # l /\ ~IsLanding(links, links[l].relay)
         /\ \A m \in ServedBy(links, links[l].relay) \ {l} : links[m].rport # links[l].rport
    /\ \A g, h \in Registered : g # h => groups[g].salt # groups[h].salt

\* What the groups of the registry would publish if every spoke answered now.
Desired == Specs(groups, [n \in Spokes |-> port[n]])
Served == {s \in Salts : files[s] # None}

\* An operation that ended without an error, and with nobody else at work
\* since it began, has taken effect: a change of a link, and a tick that writes
\* its marker, have every published relay forwarding to the port its landing
\* node now has; and every group's clients are served exactly what the
\* registries describe, with one exception: RefreshSubscriptions could not read
\* the hub's own settings, published nothing and said nothing ("unread")
\* (applyRelayChange, ReconcileRelayPublication).
SuccessMeansServed ==
    [][\A p \in Procs :
         (proc[p].pc \in {"sweepkeys", "unread", "mark"} /\ proc'[p].pc = "menu"
            /\ proc[p].calm /\ ~proc[p].bad /\ trouble' = trouble) =>
           /\ ~At(p, "unread") => [s \in Served' |-> files'[s]] = Desired
           /\ (p = Timer \/ proc[p].change.kind = "link") =>
                \A l \in Fronted : (p = Timer \/ l = proc[p].change.landing) =>
                  <<l, links[l].rport, port[l]>> \in relay[links[l].relay].rules]_vars

\* The key of a group's links is written before its files and swept after them
\* (deploy/remote.go): whatever fails or dies in between, a published profile
\* has its key, as long as no two refreshes ran at once.
FilesHaveKeys == ~overlap => Served \subseteq keys

\* What ReconcileRelayPublication takes the marker for: when it matches the
\* registries and nobody is at work, it is what clients are served.
MarkerIsServed ==
    (/\ \A p \in Procs : At(p, "menu")
     /\ marker # {} /\ marker = relayPublicationState) =>
        \A s \in Served, l \in Fronted : l \in DOMAIN files[s] =>
            files[s][l] = <<links[l].relay, links[l].rport>>
=============================================================================
