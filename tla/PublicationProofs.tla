-------------------------- MODULE PublicationProofs --------------------------
(***************************************************************************)
(* For every fleet, every number of consoles and groups, and every list of *)
(* changes: the link and group registries stay sound, a published file has *)
(* its key as long as no two refreshes ran at once, and an operation that  *)
(* ends undisturbed and without an error has taken effect.                 *)
(***************************************************************************)
EXTENDS Publication, FiniteSetTheorems, TLAPS

(* What a process keeps; a link that is planned has a machine for a relay. *)
ProcRecord(r) ==
    r = [pc |-> r.pc, change |-> r.change, view |-> r.view, todo |-> r.todo, specs |-> r.specs,
         left |-> r.left, asked |-> r.asked, bad |-> r.bad, desired |-> r.desired, calm |-> r.calm]
Planned(r) == r.pc = "confirm" => r.change.kind = "unlink" \/ r.view.relay \in Hosts
GroupRecord(g) == g = [salt |-> g.salt, members |-> g.members]

ProcInv == proc = [p \in Procs |-> proc[p]] /\ \A p \in Procs : ProcRecord(proc[p]) /\ Planned(proc[p])

(* The two registries, each with what its own validation keeps.            *)
LinksInv ==
    /\ fleet \subseteq Spokes /\ links = [h \in Hosts |-> links[h]]
    /\ \A l \in Hosts : IsLanding(links, l) =>
         /\ links[l].relay \in Hosts \ {l} /\ ~IsLanding(links, links[l].relay)
         /\ \A m \in ServedBy(links, links[l].relay) \ {l} : links[m].rport # links[l].rport
GroupsInv ==
    /\ groups = [g \in GroupIds |-> groups[g]]
    /\ \A g \in Registered : GroupRecord(groups[g])
    /\ \A g, h \in Registered : g # h => groups[g].salt # groups[h].salt

(* A refresh that is alone: the key of the file it is about to write is    *)
(* there, and once it has swept the files, those left are its own.         *)
PublisherInv(p) ==
    /\ At(p, "file") => (CHOOSE t \in proc[p].left : TRUE) \in keys
    /\ At(p, "sweepkeys") => Served \subseteq DOMAIN proc[p].specs
Alone == \A p, q \in Procs : Publishing(p) /\ Publishing(q) => p = q
PublishedInv ==
    /\ overlap \in BOOLEAN /\ files = [s \in Salts |-> files[s]]
    /\ ~overlap => Alone /\ Served \subseteq keys /\ \A p \in Procs : PublisherInv(p)

IInv == ProcInv /\ LinksInv /\ GroupsInv /\ PublishedInv

-----------------------------------------------------------------------------
(* What a step leaves of the processes other than the one that takes it.   *)
Working == {"key", "file", "sweep", "sweepkeys"}
Same(q) == /\ proc'[q].pc = proc[q].pc /\ proc'[q].left = proc[q].left
           /\ proc'[q].specs = proc[q].specs
Others(p) == \A q \in Procs \ {p} : Same(q)

\* Recording a disturbance changes neither place nor work of any process.
LEMMA Disturbing ==
    ASSUME IInv, NEW p, NEW q \in Procs
    PROVE  /\ Disturbed(p) = [x \in Procs |-> Disturbed(p)[x]]
           /\ ProcRecord(Disturbed(p)[q]) /\ Planned(Disturbed(p)[q])
           /\ Disturbed(p)[q].pc = proc[q].pc /\ Disturbed(p)[q].left = proc[q].left
           /\ Disturbed(p)[q].specs = proc[q].specs
<1>1. ProcRecord(proc[q]) /\ Planned(proc[q])
    BY DEF IInv, ProcInv
<1>2. Disturbed(p)[q] = IF q = p THEN proc[q] ELSE [proc[q] EXCEPT !.calm = FALSE]
    BY DEF Disturbed
<1>3. ASSUME NEW x, x = [proc[q] EXCEPT !.calm = FALSE]
      PROVE  /\ ProcRecord(x) /\ Planned(x)
             /\ x.pc = proc[q].pc /\ x.left = proc[q].left /\ x.specs = proc[q].specs
    <2>1. /\ ProcRecord(x) /\ x.change = proc[q].change /\ x.view = proc[q].view
          /\ x.pc = proc[q].pc /\ x.left = proc[q].left /\ x.specs = proc[q].specs
        BY <1>1, <1>3 DEF ProcRecord
    <2> QED
        BY <1>1, <2>1 DEF Planned
<1>4. Disturbed(p) = [x \in Procs |-> Disturbed(p)[x]]
    BY DEF Disturbed
<1> QED
    BY <1>1, <1>2, <1>3, <1>4

\* An update of one process leaves the others at their places.
LEMMA Moving ==
    ASSUME IInv, NEW p \in Procs, NEW r, Upd(p, r), ProcRecord(r), Planned(r)
    PROVE  ProcInv' /\ proc'[p] = r /\ Others(p)
<1> DEFINE D == Disturbed(p)
<1>1. /\ D = [x \in Procs |-> D[x]]
      /\ \A q \in Procs : /\ ProcRecord(D[q]) /\ Planned(D[q]) /\ D[q].pc = proc[q].pc
                          /\ D[q].left = proc[q].left /\ D[q].specs = proc[q].specs
    BY Disturbing
<1>2. proc' = [D EXCEPT ![p] = r]
    BY DEF Upd
<1> HIDE DEF D
<1>3. proc' = [x \in Procs |-> proc'[x]] /\ proc'[p] = r /\ \A q \in Procs \ {p} : proc'[q] = D[q]
    BY <1>1, <1>2
<1>4. \A q \in Procs : ProcRecord(proc'[q]) /\ Planned(proc'[q])
    BY <1>1, <1>3
<1> QED
    BY <1>1, <1>3, <1>4 DEF ProcInv, ProcRecord, Planned, Others, Same

(* The process that takes the step is not publishing afterwards.           *)
Settles(p) == \E r : Upd(p, r) /\ ProcRecord(r) /\ Planned(r) /\ r.pc \notin Working

\* A process that is done publishes no more.
LEMMA Ending ==
    ASSUME NEW p, Done(p)
    PROVE  Settles(p)
<1>1. Upd(p, Idle)
    BY DEF Done, Upd
<1>2. ProcRecord(Idle) /\ Planned(Idle) /\ Idle.pc \notin Working
    BY DEF Idle, ProcRecord, Planned, Working
<1> QED
    BY <1>1, <1>2 DEF Settles

\* A process that begins is not publishing yet.
LEMMA Beginning ==
    ASSUME IInv, NEW p \in Procs, NEW pc, NEW c, NEW v, NEW todo, Begin(p, pc, c, v, todo), pc \notin Working,
           pc = "confirm" => c.kind = "unlink" \/ v.relay \in Hosts
    PROVE  Settles(p)
<1> DEFINE r == [proc[p] EXCEPT !.pc = pc, !.change = c, !.view = v, !.todo = todo, !.calm = TRUE]
<1>1. ProcRecord(proc[p])
    BY DEF IInv, ProcInv
<1>2. Upd(p, r)
    BY DEF Begin
<1>3. ASSUME NEW x, x = r PROVE ProcRecord(x) /\ x.pc = pc /\ Planned(x)
    <2>1. ProcRecord(x) /\ x.pc = pc /\ x.change = c /\ x.view = v
        BY <1>1, <1>3 DEF ProcRecord
    <2> QED
        BY <2>1 DEF Planned
<1> HIDE DEF r
<1> QED
    BY <1>2, <1>3 DEF Settles

(* A process goes on to a step at which nothing is published.              *)
LEMMA Onward ==
    ASSUME IInv, NEW p \in Procs, NEW pc, NEW bad, NEW todo, NEW desired, NEW specs,
           pc \notin Working \cup {"confirm"},
           \/ Upd(p, [proc[p] EXCEPT !.pc = pc])
           \/ Upd(p, [proc[p] EXCEPT !.pc = pc, !.bad = bad])
           \/ Upd(p, [proc[p] EXCEPT !.pc = pc, !.todo = todo])
           \/ Upd(p, [proc[p] EXCEPT !.pc = pc, !.todo = todo, !.bad = bad])
           \/ Upd(p, [proc[p] EXCEPT !.pc = pc, !.todo = todo, !.desired = desired])
           \/ Upd(p, [proc[p] EXCEPT !.pc = pc, !.specs = specs])
    PROVE  Settles(p)
<1>1. ProcRecord(proc[p])
    BY DEF IInv, ProcInv
<1>2. ASSUME NEW x, Upd(p, x), ProcRecord(x), x.pc = pc PROVE Settles(p)
    BY <1>2 DEF Settles, Planned
<1>3. CASE Upd(p, [proc[p] EXCEPT !.pc = pc])
    <2>1. ASSUME NEW x, x = [proc[p] EXCEPT !.pc = pc] PROVE ProcRecord(x) /\ x.pc = pc
        BY <1>1, <2>1 DEF ProcRecord
    <2> QED
        BY <1>2, <1>3, <2>1
<1>4. CASE Upd(p, [proc[p] EXCEPT !.pc = pc, !.bad = bad])
    <2>1. ASSUME NEW x, x = [proc[p] EXCEPT !.pc = pc, !.bad = bad] PROVE ProcRecord(x) /\ x.pc = pc
        BY <1>1, <2>1 DEF ProcRecord
    <2> QED
        BY <1>2, <1>4, <2>1
<1>5. CASE Upd(p, [proc[p] EXCEPT !.pc = pc, !.todo = todo])
    <2>1. ASSUME NEW x, x = [proc[p] EXCEPT !.pc = pc, !.todo = todo] PROVE ProcRecord(x) /\ x.pc = pc
        BY <1>1, <2>1 DEF ProcRecord
    <2> QED
        BY <1>2, <1>5, <2>1
<1>6. CASE Upd(p, [proc[p] EXCEPT !.pc = pc, !.todo = todo, !.bad = bad])
    <2>1. ASSUME NEW x, x = [proc[p] EXCEPT !.pc = pc, !.todo = todo, !.bad = bad] PROVE ProcRecord(x) /\ x.pc = pc
        BY <1>1, <2>1 DEF ProcRecord
    <2> QED
        BY <1>2, <1>6, <2>1
<1>7. CASE Upd(p, [proc[p] EXCEPT !.pc = pc, !.todo = todo, !.desired = desired])
    <2>1. ASSUME NEW x, x = [proc[p] EXCEPT !.pc = pc, !.todo = todo, !.desired = desired] PROVE ProcRecord(x) /\ x.pc = pc
        BY <1>1, <2>1 DEF ProcRecord
    <2> QED
        BY <1>2, <1>7, <2>1
<1>8. CASE Upd(p, [proc[p] EXCEPT !.pc = pc, !.specs = specs])
    <2>1. ASSUME NEW x, x = [proc[p] EXCEPT !.pc = pc, !.specs = specs] PROVE ProcRecord(x) /\ x.pc = pc
        BY <1>1, <2>1 DEF ProcRecord
    <2> QED
        BY <1>2, <1>8, <2>1
<1> QED
    BY <1>3, <1>4, <1>5, <1>6, <1>7, <1>8

(* Nobody begins to publish and nothing is published.                      *)
LEMMA Elsewhere ==
    ASSUME IInv, UNCHANGED <<files, keys, overlap>>,
           \A q \in Procs : Same(q) \/ proc'[q].pc \notin Working
    PROVE  PublishedInv'
<1>1. Served' = Served
    BY DEF Served
<1>2. \A q \in Procs : Publishing(q)' => Publishing(q) /\ Same(q)
    BY DEF Publishing, Working, Same
<1>3. ASSUME ~overlap PROVE Alone' /\ (Served \subseteq keys)' /\ \A q \in Procs : PublisherInv(q)'
    <2>1. Alone /\ Served \subseteq keys /\ \A q \in Procs : PublisherInv(q)
        BY <1>3 DEF IInv, PublishedInv
    <2>2. Alone'
        BY <1>2, <2>1 DEF Alone
    <2>3. ASSUME NEW q \in Procs PROVE PublisherInv(q)'
        <3>1. CASE Same(q)
            BY <1>1, <2>1, <3>1 DEF PublisherInv, At, Same
        <3>2. CASE proc'[q].pc \notin Working
            BY <3>2 DEF PublisherInv, At, Working
        <3> QED
            BY <3>1, <3>2
    <2> QED
        BY <1>1, <2>1, <2>2, <2>3
<1>4. overlap' \in BOOLEAN /\ files' = [s \in Salts |-> files'[s]]
    BY DEF IInv, PublishedInv
<1> QED
    BY <1>3, <1>4 DEF PublishedInv

(* Such a step of one process keeps everything but the registries.         *)
LEMMA Settling ==
    ASSUME IInv, NEW p \in Procs, Settles(p), UNCHANGED <<files, keys, overlap>>
    PROVE  ProcInv' /\ PublishedInv'
<1>1. PICK r : Upd(p, r) /\ ProcRecord(r) /\ Planned(r) /\ r.pc \notin Working
    BY DEF Settles
<1>2. ProcInv' /\ proc'[p] = r /\ Others(p)
    BY <1>1, Moving
<1>3. \A q \in Procs : Same(q) \/ proc'[q].pc \notin Working
    BY <1>1, <1>2 DEF Others
<1> QED
    BY <1>2, <1>3, Elsewhere

\* Unchanged links stay sound.
LEMMA LinksKept ==
    ASSUME IInv, links' = links, fleet' \subseteq Spokes
    PROVE  LinksInv'
<1>1. LinksInv
    BY DEF IInv
<1> QED
    BY <1>1 DEF LinksInv, IsLanding, ServedBy

\* Unchanged groups stay sound.
LEMMA GroupsKept ==
    ASSUME IInv, groups' = groups
    PROVE  GroupsInv'
<1>1. GroupsInv
    BY DEF IInv
<1> QED
    BY <1>1 DEF GroupsInv, Registered, GroupRecord

\* The parts make the invariant.
LEMMA Together ==
    ASSUME ProcInv', LinksInv', GroupsInv', PublishedInv'
    PROVE  IInv'
    BY DEF IInv

-----------------------------------------------------------------------------
(* Operators.                                                              *)
LEMMA DoesOperator ==
    ASSUME IInv, NEW p \in Procs, NEW c \in Changes, Operator(p, c)
    PROVE  IInv'
<1>0. fleet' \subseteq Spokes
    <2>1. fleet \subseteq Spokes
        BY DEF IInv, LinksInv
    <2> QED
        BY <2>1, ChangesAssumption
           DEF Operator, planForwards, applyGroupChange, SetGroup, RemoveGroup, changePort, AddNode, RemoveNode, registries
<1>1. UNCHANGED <<files, keys, overlap>>
    BY DEF Operator, planForwards, applyGroupChange, SetGroup, RemoveGroup, changePort, AddNode, RemoveNode, published
<1>2. CASE planForwards(p, c)
    <2>0. fleet \subseteq Spokes
        BY DEF IInv, LinksInv
    <2>1. PICK v, todo : Begin(p, "confirm", c, v, todo) /\ (c.kind = "unlink" \/ v.relay \in Hosts)
        <3>1. CASE c.kind = "unlink"
            BY <1>2, <3>1 DEF planForwards
        <3>2. CASE c.kind # "unlink"
            <4>1. PICK rp, todo : Begin(p, "confirm", c, [relay |-> c.relay, rport |-> rp], todo)
                BY <1>2, <3>2 DEF planForwards
            <4>2. c.relay \in Hosts
                BY <1>2, <3>2, <2>0 DEF planForwards, relayCandidates, Endpoints, Hosts
            <4> QED
                BY <4>1, <4>2
        <3> QED
            BY <3>1, <3>2
    <2>2. Settles(p)
        BY <2>1, Beginning DEF Working
    <2>3. links' = links /\ groups' = groups /\ fleet' \subseteq Spokes
        BY <1>2, <2>0 DEF planForwards, registries
    <2> QED
        BY <1>0, <1>1, <2>2, <2>3, Settling, LinksKept, GroupsKept, Together
<1>3. CASE applyGroupChange(p, c)
    <2>1. Begin(p, "refresh", c, None, << >>) /\ links' = links
        BY <1>3 DEF applyGroupChange, SetGroup, RemoveGroup
    <2>2. Settles(p)
        BY <2>1, Beginning DEF Working
    <2>3. GroupsInv
        BY DEF IInv
    <2>4. GroupsInv'
        <3>1. CASE c.kind = "group"
            <4>1. /\ SaltFree(c.id, c.salt)
                  /\ groups' = [groups EXCEPT ![c.id] = [salt |-> c.salt, members |-> c.members]]
                BY <1>3, <3>1 DEF applyGroupChange, SetGroup, RemoveGroup
            <4>2. /\ groups' = [g \in GroupIds |-> groups'[g]]
                  /\ \A g \in GroupIds : groups'[g] = IF g = c.id THEN [salt |-> c.salt, members |-> c.members]
                                                     ELSE groups[g]
                BY <2>3, <4>1 DEF GroupsInv
            <4>3. \A g \in Registered' : GroupRecord(groups'[g])
                BY <2>3, <4>2 DEF GroupsInv, Registered, GroupRecord
            <4>4. ASSUME NEW g \in Registered', NEW h \in Registered', g # h PROVE groups'[g].salt # groups'[h].salt
                <5>1. \A i \in Registered' \ {c.id} : i \in Registered /\ groups'[i] = groups[i]
                    BY <4>2 DEF Registered
                <5>2. \A i \in Registered' : i = c.id => groups'[i].salt = c.salt
                    BY <4>2 DEF Registered
                <5>3. \A i \in Registered \ {c.id} : groups[i].salt # c.salt
                    BY <4>1 DEF SaltFree
                <5>4. CASE g # c.id /\ h # c.id
                    BY <2>3, <4>4, <5>1, <5>4 DEF GroupsInv
                <5>5. CASE g = c.id
                    BY <4>4, <5>1, <5>2, <5>3, <5>5
                <5>6. CASE h = c.id
                    BY <4>4, <5>1, <5>2, <5>3, <5>6
                <5> QED
                    BY <5>4, <5>5, <5>6
            <4> QED
                BY <4>2, <4>3, <4>4 DEF GroupsInv
        <3>2. CASE c.kind # "group"
            <4>1. groups' = [groups EXCEPT ![c.id] = None]
                BY <1>3, <3>2 DEF applyGroupChange, SetGroup, RemoveGroup
            <4>2. /\ groups' = [g \in GroupIds |-> groups'[g]]
                  /\ \A g \in GroupIds : groups'[g] = IF g = c.id THEN None ELSE groups[g]
                BY <2>3, <4>1 DEF GroupsInv
            <4>3. \A g \in Registered' : g \in Registered /\ groups'[g] = groups[g]
                BY <4>2 DEF Registered
            <4> QED
                BY <2>3, <4>2, <4>3 DEF GroupsInv, GroupRecord
        <3> QED
            BY <3>1, <3>2
    <2> QED
        BY <1>0, <1>1, <2>1, <2>2, <2>4, Settling, LinksKept, Together
<1>4. CASE changePort(p, c)
    <2>1. Begin(p, "refresh", c, None, << >>) /\ links' = links /\ groups' = groups
        BY <1>4 DEF changePort
    <2>2. Settles(p)
        BY <2>1, Beginning DEF Working
    <2> QED
        BY <1>0, <1>1, <2>1, <2>2, Settling, LinksKept, GroupsKept, Together
<1>5. CASE AddNode(p, c)
    <2>1. Begin(p, "addmember", c, None, << >>) /\ links' = links /\ groups' = groups
        BY <1>5 DEF AddNode
    <2>2. Settles(p)
        BY <2>1, Beginning DEF Working
    <2> QED
        BY <1>0, <1>1, <2>1, <2>2, Settling, LinksKept, GroupsKept, Together
<1>6. CASE RemoveNode(p, c)
    <2>1. Begin(p, "dropmember", c, None, << >>) /\ links' = links /\ groups' = groups
        BY <1>6 DEF RemoveNode
    <2>2. Settles(p)
        BY <2>1, Beginning DEF Working
    <2> QED
        BY <1>0, <1>1, <2>1, <2>2, Settling, LinksKept, GroupsKept, Together
<1> QED
    BY <1>2, <1>3, <1>4, <1>5, <1>6 DEF Operator

(* A link that passes the validation joins a sound registry.               *)
LEMMA Linking ==
    ASSUME IInv, NEW l, NEW link, validate(links, l, link), link.relay \in Hosts,
           links' = [links EXCEPT ![l] = link], fleet' = fleet
    PROVE  LinksInv'
<1>1. LinksInv
    BY DEF IInv
<1>2. /\ links' = [h \in Hosts |-> links'[h]]
      /\ \A h \in Hosts : links'[h] = IF h = l THEN link ELSE links[h]
    BY <1>1 DEF LinksInv
<1>3. \A m \in Hosts : ~(links[m] # None /\ links[m].relay = l)
    BY DEF validate, ServedBy
<1>4. /\ l # link.relay /\ links[link.relay] = None
      /\ \A m \in Hosts \ {l} : (links[m] # None /\ links[m].relay = link.relay) => links[m].rport # link.rport
    BY DEF validate, ServedBy, IsLanding
<1>5. ASSUME NEW m \in Hosts, links'[m] # None
      PROVE  /\ links'[m].relay \in Hosts \ {m} /\ links'[links'[m].relay] = None
             /\ \A n \in Hosts \ {m} : (links'[n] # None /\ links'[n].relay = links'[m].relay)
                    => links'[n].rport # links'[m].rport
    <2>0. links'[link.relay] = links[link.relay]
        BY <1>2, <1>4
    <2>1. CASE m = l
        BY <1>2, <1>4, <2>0, <2>1
    <2>2. CASE m # l
        <3>1. links'[m] = links[m] /\ links[m] # None /\ links[m].relay # l
            BY <1>2, <1>3, <1>5, <2>2
        <3>2. /\ links[m].relay \in Hosts \ {m} /\ links[links[m].relay] = None
              /\ \A n \in Hosts \ {m} : (links[n] # None /\ links[n].relay = links[m].relay)
                    => links[n].rport # links[m].rport
            BY <1>1, <3>1 DEF LinksInv, IsLanding, ServedBy
        <3>3. links'[links[m].relay] = links[links[m].relay]
            BY <1>2, <3>1, <3>2
        <3> QED
            BY <1>2, <1>4, <2>2, <3>1, <3>2, <3>3
    <2> QED
        BY <2>1, <2>2
<1> QED
    BY <1>1, <1>2, <1>5 DEF LinksInv, IsLanding, ServedBy

(* A sound registry stays sound without some of its links.                 *)
LEMMA Unlinking ==
    ASSUME IInv, links' = [h \in Hosts |-> links'[h]], fleet' = fleet,
           \A h \in Hosts : links'[h] = None \/ links'[h] = links[h]
    PROVE  LinksInv'
<1>1. LinksInv
    BY DEF IInv
<1> QED
    BY <1>1 DEF LinksInv, IsLanding, ServedBy

(* The parts of the invariant that every action starts from.               *)
LEMMA Mine ==
    ASSUME IInv
    PROVE  /\ ProcInv /\ LinksInv /\ GroupsInv /\ PublishedInv
           /\ \A p \in Procs : ProcRecord(proc[p]) /\ Planned(proc[p])
           /\ fleet \subseteq Spokes
    BY DEF IInv, ProcInv, LinksInv

\* Set keeps the invariant.
LEMMA DoesSet ==
    ASSUME IInv, NEW p \in Procs, Set(p)
    PROVE  IInv'
<1> DEFINE c == proc[p].change
<1>1. UNCHANGED <<fleet, groups, files, keys, overlap>> /\ At(p, "confirm")
    BY DEF Set, published
<1>2. Settles(p)
    <2>1. CASE Done(p)
        BY <2>1, Ending
    <2>2. CASE ~Done(p)
        <3> DEFINE next == IF proc[p].todo = << >> THEN "refresh" ELSE "apply"
        <3>1. Upd(p, [proc[p] EXCEPT !.pc = next])
            BY <2>2 DEF Set
        <3>2. next \notin Working \cup {"confirm"}
            BY DEF Working
        <3> HIDE DEF next
        <3> QED
            BY <3>1, <3>2, Onward
    <2> QED
        BY <2>1, <2>2
<1>3. LinksInv'
    <2>1. CASE c.kind = "unlink"
        <3>1. links' = [links EXCEPT ![c.landing] = None]
            BY <2>1 DEF Set
        <3>2. /\ links' = [h \in Hosts |-> links'[h]]
              /\ \A h \in Hosts : links'[h] = None \/ links'[h] = links[h]
            BY <3>1, Mine DEF LinksInv
        <3> QED
            BY <1>1, <3>2, Unlinking
    <2>2. CASE c.kind # "unlink" /\ validate(links, c.landing, proc[p].view)
        <3>1. links' = [links EXCEPT ![c.landing] = proc[p].view]
            BY <2>2 DEF Set
        <3>2. proc[p].view.relay \in Hosts
            BY <1>1, <2>2, Mine DEF Planned, At
        <3> QED
            BY <1>1, <2>2, <3>1, <3>2, Linking
    <2>3. CASE c.kind # "unlink" /\ ~validate(links, c.landing, proc[p].view)
        <3>1. links' = links
            BY <2>3 DEF Set
        <3> QED
            BY <1>1, <3>1, Mine, LinksKept
    <2> QED
        BY <2>1, <2>2, <2>3
<1> QED
    BY <1>1, <1>2, <1>3, Settling, GroupsKept, Together

(* Members come and go; a group's salt stays.                              *)
LEMMA SaltsKept ==
    ASSUME IInv, groups' = [g \in GroupIds |-> groups'[g]],
           \A g \in Registered' : /\ g \in Registered /\ GroupRecord(groups'[g])
                                  /\ groups'[g].salt = groups[g].salt
    PROVE  GroupsInv'
    BY Mine DEF GroupsInv

\* AddMember and DropMember keep the invariant.
LEMMA DoesMembers ==
    ASSUME IInv, NEW p \in Procs, AddMember(p) \/ DropMember(p)
    PROVE  IInv'
<1>1. UNCHANGED <<fleet, links, files, keys, overlap>>
    BY DEF AddMember, DropMember, published
<1>2. \A m : \A g \in GroupIds : groups[g] # None =>
        /\ GroupRecord([groups[g] EXCEPT !.members = m])
        /\ [groups[g] EXCEPT !.members = m].salt = groups[g].salt
    BY Mine DEF GroupsInv, Registered, GroupRecord
<1>3. CASE AddMember(p)
    <2>1. Settles(p)
        <3>1. Upd(p, [proc[p] EXCEPT !.pc = "refresh"])
            BY <1>3 DEF AddMember
        <3>2. "refresh" \notin Working \cup {"confirm"}
            BY DEF Working
        <3> QED
            BY <3>1, <3>2, Onward
    <2>2. groups' = [g \in GroupIds |-> IF g \in proc[p].change.ids \cap Registered
                THEN [groups[g] EXCEPT !.members = groups[g].members \cup {proc[p].change.node}] ELSE groups[g]]
        BY <1>3 DEF AddMember
    <2>3. GroupsInv'
        <3>1. ASSUME NEW g \in Registered'
              PROVE  g \in Registered /\ GroupRecord(groups'[g]) /\ groups'[g].salt = groups[g].salt
            BY <1>2, <2>2, Mine DEF Registered, GroupsInv
        <3> QED
            BY <2>2, <3>1, SaltsKept
    <2> QED
        BY <1>1, <2>1, <2>3, Mine, Settling, LinksKept, Together
<1>4. CASE DropMember(p)
    <2>1. Settles(p)
        <3>1. Upd(p, [proc[p] EXCEPT !.pc = "dropnode"])
            BY <1>4 DEF DropMember
        <3>2. "dropnode" \notin Working \cup {"confirm"}
            BY DEF Working
        <3> QED
            BY <3>1, <3>2, Onward
    <2>2. groups' = [g \in GroupIds |-> IF groups[g] = None THEN None
                ELSE [groups[g] EXCEPT !.members = groups[g].members \ {proc[p].change.node}]]
        BY <1>4 DEF DropMember
    <2>3. GroupsInv'
        <3>1. ASSUME NEW g \in Registered'
              PROVE  g \in Registered /\ GroupRecord(groups'[g]) /\ groups'[g].salt = groups[g].salt
            BY <1>2, <2>2 DEF Registered
        <3> QED
            BY <2>2, <3>1, SaltsKept
    <2> QED
        BY <1>1, <2>1, <2>3, Mine, Settling, LinksKept, Together
<1> QED
    BY <1>3, <1>4

\* DropNode keeps the invariant.
LEMMA DoesDropNode ==
    ASSUME IInv, NEW p \in Procs, DropNode(p)
    PROVE  IInv'
<1> DEFINE n == proc[p].change.node
           orphaned == IF IsLanding(links, n) THEN <<links[n].relay>> ELSE << >>
<1>1. /\ UNCHANGED <<fleet, groups, files, keys, overlap>>
      /\ links' = [l \in Hosts |-> IF l = n \/ l \in ServedBy(links, n) THEN None ELSE links[l]]
    BY DEF DropNode, published
<1>2. Settles(p)
    <2> DEFINE next == IF orphaned = << >> THEN "refresh" ELSE "apply"
    <2>1. Upd(p, [proc[p] EXCEPT !.pc = next, !.todo = orphaned])
        BY DEF DropNode
    <2>2. next \notin Working \cup {"confirm"}
        BY DEF Working
    <2> HIDE DEF next
    <2> QED
        BY <2>1, <2>2, Onward
<1>3. LinksInv'
    BY <1>1, Unlinking
<1> QED
    BY <1>1, <1>2, <1>3, Settling, GroupsKept, Together

\* RegistryFails keeps the invariant.
LEMMA DoesRegistryFails ==
    ASSUME IInv, NEW p \in Procs, RegistryFails(p)
    PROVE  IInv'
<1>1. UNCHANGED <<fleet, links, groups, files, keys, overlap>>
    BY DEF RegistryFails, published, registries
<1>2. Settles(p)
    <2>1. CASE At(p, "confirm")
        BY <2>1, Ending DEF RegistryFails, At
    <2>2. CASE At(p, "dropmember")
        <3>1. Upd(p, [proc[p] EXCEPT !.pc = "dropnode", !.bad = TRUE])
            BY <2>2 DEF RegistryFails, At
        <3>2. "dropnode" \notin Working \cup {"confirm"}
            BY DEF Working
        <3> QED
            BY <3>1, <3>2, Onward
    <2>3. CASE ~At(p, "confirm") /\ ~At(p, "dropmember")
        <3>1. Upd(p, [proc[p] EXCEPT !.pc = "refresh", !.bad = TRUE])
            BY <2>3 DEF RegistryFails
        <3>2. "refresh" \notin Working \cup {"confirm"}
            BY DEF Working
        <3> QED
            BY <3>1, <3>2, Onward
    <2> QED
        BY <2>1, <2>2, <2>3
<1> QED
    BY <1>1, <1>2, Mine, Settling, LinksKept, GroupsKept, Together

(* The relays.                                                             *)
LEMMA RelaysGoOn ==
    ASSUME IInv, NEW p \in Procs, NEW failed, NextRelay(p, failed)
    PROVE  Settles(p)
<1>1. CASE failed /\ p \in Consoles /\ proc[p].change.kind \in {"link", "unlink"}
    BY <1>1, Ending DEF NextRelay
<1>2. CASE ~(failed /\ p \in Consoles /\ proc[p].change.kind \in {"link", "unlink"})
    <2> DEFINE next == IF Len(proc[p].todo) = 1 THEN "refresh" ELSE "apply"
    <2>1. Upd(p, [proc[p] EXCEPT !.pc = next, !.todo = Tail(proc[p].todo), !.bad = (proc[p].bad \/ failed)])
        BY <1>2 DEF NextRelay
    <2>2. next \notin Working \cup {"confirm"}
        BY DEF Working
    <2> HIDE DEF next
    <2> QED
        BY <2>1, <2>2, Onward
<1> QED
    BY <1>1, <1>2

\* ApplyRelayFor and ApplyFails keep the invariant.
LEMMA DoesApply ==
    ASSUME IInv, NEW p \in Procs, ApplyRelayFor(p) \/ ApplyFails(p)
    PROVE  IInv'
<1>1. UNCHANGED <<fleet, links, groups, files, keys, overlap>>
    BY DEF ApplyRelayFor, ApplyFails, Installing, Clearing, published, registries
<1>2. \E failed \in BOOLEAN : NextRelay(p, failed)
    BY DEF ApplyRelayFor, ApplyFails, Installing, Clearing
<1> QED
    BY <1>1, <1>2, RelaysGoOn, Mine, Settling, LinksKept, GroupsKept, Together

-----------------------------------------------------------------------------
(* Publication.  A process that publishes alone answers for its own step.  *)
LEMMA Publishes ==
    ASSUME IInv, NEW p \in Procs, Others(p), overlap' \in BOOLEAN, files' = [s \in Salts |-> files'[s]],
           ~overlap' => /\ ~overlap /\ \A q \in Procs \ {p} : ~Publishing(q)
                        /\ Served' \subseteq keys' /\ PublisherInv(p)'
    PROVE  PublishedInv'
<1>1. ASSUME ~overlap' PROVE Alone' /\ \A q \in Procs : PublisherInv(q)'
    <2>1. ASSUME NEW q \in Procs \ {p} PROVE ~Publishing(q)'
        BY <1>1, <2>1 DEF Others, Same, Publishing
    <2>2. Alone'
        BY <2>1 DEF Alone
    <2>3. ASSUME NEW q \in Procs \ {p} PROVE PublisherInv(q)'
        BY <2>1, <2>3 DEF PublisherInv, At, Publishing
    <2> QED
        BY <1>1, <2>2, <2>3
<1> QED
    BY <1>1 DEF PublishedInv

\* Without overlap, a publisher is the only one and knows what it wrote.
LEMMA AloneNow ==
    ASSUME IInv, NEW p \in Procs, Publishing(p), overlap' = overlap
    PROVE  /\ overlap' \in BOOLEAN
           /\ ~overlap' => /\ ~overlap /\ \A q \in Procs \ {p} : ~Publishing(q)
                           /\ Served \subseteq keys /\ PublisherInv(p)
    BY Mine DEF PublishedInv, Alone

\* RefreshSubscriptions keeps the invariant.
LEMMA DoesRefresh ==
    ASSUME IInv, NEW p \in Procs, RefreshSubscriptions(p)
    PROVE  IInv'
<1>1. /\ UNCHANGED <<fleet, links, groups, files, keys>>
      /\ overlap' = (overlap \/ \E q \in Procs \ {p} : Publishing(q))
    BY DEF RefreshSubscriptions, Body, cacheNodeSubscription, registries
<1>2. PICK x : /\ Upd(p, x) /\ ProcRecord(x) /\ x.pc \in {"sweep", "key"}
    <2>1. PICK silent, specs, bad :
            Upd(p, [proc[p] EXCEPT !.pc = IF DOMAIN specs = {} THEN "sweep" ELSE "key", !.specs = specs,
                                   !.left = DOMAIN specs, !.asked = Collected, !.bad = bad])
        <3>1. PICK silent \in {{}} \cup {{n} : n \in Collected} :
                LET bodies == [n \in Spokes |-> IF n \in silent THEN cache[n] ELSE port[n]]
                    specs == Specs(groups, bodies)
                IN Upd(p, [proc[p] EXCEPT !.pc = IF DOMAIN specs = {} THEN "sweep" ELSE "key", !.specs = specs,
                       !.left = DOMAIN specs, !.asked = Collected,
                       !.bad = \/ proc[p].bad \/ silent # {}
                               \/ Cardinality(DOMAIN specs) # Cardinality(Registered)])
            BY DEF RefreshSubscriptions, Body, cacheNodeSubscription
        <3> DEFINE specs == Specs(groups, [n \in Spokes |-> IF n \in silent THEN cache[n] ELSE port[n]])
                   bad == \/ proc[p].bad \/ silent # {}
                          \/ Cardinality(DOMAIN specs) # Cardinality(Registered)
        <3>2. Upd(p, [proc[p] EXCEPT !.pc = IF DOMAIN specs = {} THEN "sweep" ELSE "key", !.specs = specs,
                                     !.left = DOMAIN specs, !.asked = Collected, !.bad = bad])
            BY <3>1
        <3> HIDE DEF specs, bad
        <3> QED
            BY <3>2
    <2> DEFINE next == IF DOMAIN specs = {} THEN "sweep" ELSE "key"
               left == DOMAIN specs
    <2>2. Upd(p, [proc[p] EXCEPT !.pc = next, !.specs = specs, !.left = left, !.asked = Collected,
                                 !.bad = bad])
        BY <2>1
    <2>3. next \in {"sweep", "key"}
        OBVIOUS
    <2>4. ProcRecord(proc[p])
        BY Mine
    <2> HIDE DEF next, left
    <2>5. ASSUME NEW x, x = [proc[p] EXCEPT !.pc = next, !.specs = specs, !.left = left, !.asked = Collected,
                                 !.bad = bad]
          PROVE  ProcRecord(x) /\ x.pc = next
        BY <2>4, <2>5 DEF ProcRecord
    <2> QED
        BY <2>2, <2>3, <2>5
<1>3. Planned(x)
    BY <1>2 DEF Planned
<1>4. ProcInv' /\ proc'[p] = x /\ Others(p)
    BY <1>2, <1>3, Moving
<1>5. PublisherInv(p)' /\ Served' = Served
    BY <1>1, <1>2, <1>4 DEF PublisherInv, At, Served
<1>6. PublishedInv
    BY Mine
<1>7. PublishedInv'
    <2>1. overlap' \in BOOLEAN
        BY <1>1, <1>6 DEF PublishedInv
    <2>2. files' = [s \in Salts |-> files'[s]]
        BY <1>1, <1>6 DEF PublishedInv
    <2>3. ASSUME ~overlap' PROVE /\ ~overlap /\ \A q \in Procs \ {p} : ~Publishing(q)
                                 /\ Served' \subseteq keys' /\ PublisherInv(p)'
        BY <1>1, <1>5, <1>6, <2>3 DEF PublishedInv
    <2> QED
        BY <1>4, <2>1, <2>2, <2>3, Publishes
<1> QED
    BY <1>1, <1>4, <1>7, Mine, LinksKept, GroupsKept, Together

\* writeAuthKeyCipherKey keeps the invariant.
LEMMA DoesWriteKey ==
    ASSUME IInv, NEW p \in Procs, writeAuthKeyCipherKey(p)
    PROVE  IInv'
<1> DEFINE s == CHOOSE t \in proc[p].left : TRUE
<1>1. /\ UNCHANGED <<fleet, links, groups, files, overlap>> /\ Publishing(p)
      /\ keys' = keys \cup {s} /\ Upd(p, [proc[p] EXCEPT !.pc = "file"])
    BY DEF writeAuthKeyCipherKey, registries, Publishing, At
<1>2. ProcRecord(proc[p])
    BY Mine
<1>3. PICK x : Upd(p, x) /\ ProcRecord(x) /\ x.pc = "file" /\ x.left = proc[p].left
    <2>1. ASSUME NEW x, x = [proc[p] EXCEPT !.pc = "file"]
          PROVE  ProcRecord(x) /\ x.pc = "file" /\ x.left = proc[p].left
        BY <1>2, <2>1 DEF ProcRecord
    <2> QED
        BY <1>1, <2>1
<1>4. ProcInv' /\ proc'[p] = x /\ Others(p)
    <2>1. Planned(x)
        BY <1>3 DEF Planned
    <2> QED
        BY <1>3, <2>1, Moving
<1>5. PublisherInv(p)'
    BY <1>1, <1>3, <1>4 DEF PublisherInv, At
<1>6. PublishedInv'
    <2>1. files' = [f \in Salts |-> files'[f]] /\ Served' = Served
        BY <1>1, Mine DEF PublishedInv, Served
    <2> QED
        BY <1>1, <1>4, <1>5, <2>1, AloneNow, Publishes
<1> QED
    BY <1>1, <1>4, <1>6, Mine, LinksKept, GroupsKept, Together

\* writeSubscriptionFiles keeps the invariant.
LEMMA DoesWriteFiles ==
    ASSUME IInv, NEW p \in Procs, writeSubscriptionFiles(p)
    PROVE  IInv'
<1> DEFINE s == CHOOSE t \in proc[p].left : TRUE
           next == IF proc[p].left = {s} THEN "sweep" ELSE "key"
           left == proc[p].left \ {s}
<1>1. /\ UNCHANGED <<fleet, links, groups, keys, overlap>> /\ Publishing(p) /\ At(p, "file")
      /\ files' = [files EXCEPT ![s] = proc[p].specs[s]]
      /\ Upd(p, [proc[p] EXCEPT !.pc = next, !.left = left])
    BY DEF writeSubscriptionFiles, registries, Publishing, At
<1>2. ProcRecord(proc[p])
    BY Mine
<1>3. next \in {"sweep", "key"}
    OBVIOUS
<1>4. PublisherInv(p) => s \in keys
    BY <1>1 DEF PublisherInv
<1> HIDE DEF s, next, left
<1>5. PICK x : Upd(p, x) /\ ProcRecord(x) /\ x.pc = next
    <2>1. ASSUME NEW x, x = [proc[p] EXCEPT !.pc = next, !.left = left]
          PROVE  ProcRecord(x) /\ x.pc = next
        BY <1>2, <2>1 DEF ProcRecord
    <2> QED
        BY <1>1, <2>1
<1>6. ProcInv' /\ proc'[p] = x /\ Others(p)
    <2>1. Planned(x)
        BY <1>3, <1>5 DEF Planned
    <2> QED
        BY <1>5, <2>1, Moving
<1>7. PublisherInv(p)'
    BY <1>3, <1>5, <1>6 DEF PublisherInv, At
<1>8. PublishedInv'
    <2>1. files' = [f \in Salts |-> files'[f]] /\ Served' \subseteq Served \cup {s}
        BY <1>1, Mine DEF PublishedInv, Served
    <2> QED
        BY <1>1, <1>4, <1>6, <1>7, <2>1, AloneNow, Publishes
<1> QED
    BY <1>1, <1>6, <1>8, Mine, LinksKept, GroupsKept, Together

\* removeStaleSubscriptionFiles keeps the invariant.
LEMMA DoesSweepFiles ==
    ASSUME IInv, NEW p \in Procs, removeStaleSubscriptionFiles(p)
    PROVE  IInv'
<1>1. /\ UNCHANGED <<fleet, links, groups, keys, overlap>> /\ Publishing(p)
      /\ files' = [s \in Salts |-> IF s \in DOMAIN proc[p].specs THEN files[s] ELSE None]
      /\ Upd(p, [proc[p] EXCEPT !.pc = "sweepkeys"])
    BY DEF removeStaleSubscriptionFiles, registries, Publishing, At
<1>2. ProcRecord(proc[p])
    BY Mine
<1>3. PICK x : Upd(p, x) /\ ProcRecord(x) /\ x.pc = "sweepkeys" /\ x.specs = proc[p].specs
    <2>1. ASSUME NEW x, x = [proc[p] EXCEPT !.pc = "sweepkeys"]
          PROVE  ProcRecord(x) /\ x.pc = "sweepkeys" /\ x.specs = proc[p].specs
        BY <1>2, <2>1 DEF ProcRecord
    <2> QED
        BY <1>1, <2>1
<1>4. ProcInv' /\ proc'[p] = x /\ Others(p)
    <2>1. Planned(x)
        BY <1>3 DEF Planned
    <2> QED
        BY <1>3, <2>1, Moving
<1>5. /\ files' = [f \in Salts |-> files'[f]]
      /\ Served' \subseteq Served /\ Served' \subseteq DOMAIN proc[p].specs
    BY <1>1 DEF Served
<1>6. PublisherInv(p)'
    BY <1>3, <1>4, <1>5 DEF PublisherInv, At
<1>7. PublishedInv'
    BY <1>1, <1>4, <1>5, <1>6, AloneNow, Publishes
<1> QED
    BY <1>1, <1>4, <1>7, Mine, LinksKept, GroupsKept, Together

\* removeStaleTokenFiles keeps the invariant.
LEMMA DoesSweepKeys ==
    ASSUME IInv, NEW p \in Procs, removeStaleTokenFiles(p)
    PROVE  IInv'
<1>1. /\ UNCHANGED <<fleet, links, groups, files, overlap>> /\ Publishing(p) /\ At(p, "sweepkeys")
      /\ keys' = keys \cap DOMAIN proc[p].specs /\ Refreshed(p)
    BY DEF removeStaleTokenFiles, pruneSubscriptionCache, registries, Publishing, At
<1>2. Settles(p)
    <2>1. CASE p = Timer /\ ~proc[p].bad
        <3>1. Upd(p, [proc[p] EXCEPT !.pc = "mark", !.specs = << >>])
            BY <1>1, <2>1 DEF Refreshed
        <3>2. "mark" \notin Working \cup {"confirm"}
            BY DEF Working
        <3> QED
            BY <3>1, <3>2, Onward
    <2>2. CASE ~(p = Timer /\ ~proc[p].bad)
        BY <1>1, <2>2, Ending DEF Refreshed
    <2> QED
        BY <2>1, <2>2
<1>3. PICK x : Upd(p, x) /\ ProcRecord(x) /\ Planned(x) /\ x.pc \notin Working
    BY <1>2 DEF Settles
<1>4. ProcInv' /\ proc'[p] = x /\ Others(p)
    BY <1>3, Moving
<1>5. PublisherInv(p)'
    BY <1>3, <1>4 DEF PublisherInv, At, Working
<1>6. PublishedInv'
    <2>1. files' = [f \in Salts |-> files'[f]] /\ Served' = Served
        BY <1>1, Mine DEF PublishedInv, Served
    <2>2. PublisherInv(p) => Served \subseteq DOMAIN proc[p].specs
        BY <1>1 DEF PublisherInv
    <2> QED
        BY <1>1, <1>4, <1>5, <2>1, <2>2, AloneNow, Publishes
<1> QED
    BY <1>1, <1>4, <1>6, Mine, LinksKept, GroupsKept, Together

\* NothingToPublish keeps the invariant.
LEMMA DoesNothing ==
    ASSUME IInv, NEW p \in Procs, NothingToPublish(p)
    PROVE  IInv'
<1>1. UNCHANGED <<fleet, links, groups, files, keys, overlap>> /\ Upd(p, [proc[p] EXCEPT !.pc = "unread"])
    BY DEF NothingToPublish, published, registries
<1>2. "unread" \notin Working \cup {"confirm"}
    BY DEF Working
<1>3. Settles(p)
    BY <1>1, <1>2, Onward
<1> QED
    BY <1>1, <1>3, Mine, Settling, LinksKept, GroupsKept, Together

\* ReturnUnpublished, RefreshFails and Crash keep the invariant.
LEMMA DoesEnd ==
    ASSUME IInv, NEW p \in Procs, ReturnUnpublished(p) \/ RefreshFails(p) \/ Crash(p)
    PROVE  IInv'
<1>1. UNCHANGED <<fleet, links, groups, files, keys, overlap>> /\ Done(p)
    BY DEF ReturnUnpublished, RefreshFails, Crash, published, registries
<1> QED
    BY <1>1, Ending, Mine, Settling, LinksKept, GroupsKept, Together

\* RefreshMonitor, ReconcileRelayPublication and writeRelayPublication keep
\* the invariant.
LEMMA DoesTimer ==
    ASSUME IInv, RefreshMonitor \/ ReconcileRelayPublication \/ writeRelayPublication
    PROVE  IInv'
<1>1. /\ UNCHANGED <<fleet, links, groups, files, keys, overlap>> /\ Timer \in Procs
    BY DEF RefreshMonitor, ReconcileRelayPublication, writeRelayPublication, published, registries, Procs
<1>2. Settles(Timer)
    <2>1. CASE RefreshMonitor
        BY <1>1, <2>1, Beginning DEF RefreshMonitor, Working
    <2>2. CASE ReconcileRelayPublication
        <3>1. CASE Done(Timer)
            BY <3>1, Ending
        <3>2. CASE ~Done(Timer)
            <4> DEFINE next == IF RelaysInUse = {} THEN "refresh" ELSE "apply"
            <4>1. Upd(Timer, [proc[Timer] EXCEPT !.pc = next, !.todo = SetToSeq(RelaysInUse),
                                                 !.desired = relayPublicationState])
                BY <2>2, <3>2 DEF ReconcileRelayPublication
            <4>2. next \notin Working \cup {"confirm"}
                BY DEF Working
            <4> HIDE DEF next
            <4> QED
                BY <1>1, <4>1, <4>2, Onward
        <3> QED
            BY <3>1, <3>2
    <2>3. CASE writeRelayPublication
        BY <2>3, Ending DEF writeRelayPublication
    <2> QED
        BY <2>1, <2>2, <2>3
<1> QED
    BY <1>1, <1>2, Mine, Settling, LinksKept, GroupsKept, Together

\* Suspend, Resume and Reapply keep the invariant.
LEMMA DoesMachine ==
    ASSUME IInv, NEW h, Suspend(h) \/ Resume(h) \/ Reapply(h)
    PROVE  IInv'
<1>1. UNCHANGED <<fleet, links, groups, files, keys, overlap>> /\ proc' = Disturbed(None)
    BY DEF Suspend, Resume, Reapply, published, registries
<1>2. ProcInv'
    <2> DEFINE D == Disturbed(None)
    <2>1. D = [x \in Procs |-> D[x]]
        BY DEF Disturbed
    <2>2. \A q \in Procs : ProcRecord(D[q]) /\ Planned(D[q])
        BY Disturbing
    <2>3. proc' = D
        BY <1>1
    <2> HIDE DEF D
    <2> QED
        BY <2>1, <2>2, <2>3 DEF ProcInv, ProcRecord, Planned
<1>3. \A q \in Procs : Same(q)
    BY <1>1, Disturbing DEF Same
<1> QED
    BY <1>1, <1>2, <1>3, Mine, Elsewhere, LinksKept, GroupsKept, Together

-----------------------------------------------------------------------------
\* The invariant holds initially.
LEMMA Initially ==
    ASSUME Init
    PROVE  IInv
<1>1. ProcInv
    BY DEF Init, ProcInv, ProcRecord, Planned, Idle
<1>2. LinksInv
    BY DEF Init, LinksInv, IsLanding
<1>3. GroupsInv
    BY DEF Init, GroupsInv, Registered, GroupRecord, seedGroupMembers
<1>4. PublishedInv
    <2>1. \A p \in Procs : proc[p].pc = "menu"
        BY DEF Init, Idle
    <2> QED
        BY <2>1 DEF Init, PublishedInv, PublisherInv, Alone, Publishing, At, Served
<1> QED
    BY <1>1, <1>2, <1>3, <1>4 DEF IInv

\* Every step keeps the invariant.
LEMMA Step ==
    ASSUME IInv, [Next]_vars
    PROVE  IInv'
<1>1. CASE Next
    <2>1. ASSUME NEW p \in Consoles, NEW c \in Changes, Operator(p, c) PROVE IInv'
        BY <2>1, DoesOperator DEF Procs
    <2>2. ASSUME NEW p \in Procs, Process(p) PROVE IInv'
        BY <2>2, DoesSet, DoesMembers, DoesDropNode, DoesRegistryFails, DoesApply, DoesRefresh,
           DoesWriteKey, DoesWriteFiles, DoesSweepFiles, DoesSweepKeys, DoesNothing, DoesEnd DEF Process
    <2> QED
        BY <1>1, <2>1, <2>2, DoesTimer, DoesMachine DEF Next
<1>2. CASE UNCHANGED vars
    <2>1. UNCHANGED <<fleet, links, groups, files, keys, overlap, proc>>
        BY <1>2 DEF vars, registries, published
    <2>2. ProcInv' /\ \A q \in Procs : Same(q)
        BY <2>1, Mine DEF ProcInv, ProcRecord, Planned, Same
    <2> QED
        BY <2>1, <2>2, Mine, Elsewhere, LinksKept, GroupsKept, Together
<1> QED
    BY <1>1, <1>2

(* The invariant above holds in every reachable state.                     *)
THEOREM Invariance == Spec => []IInv
<1>1. Init => IInv
    BY Initially
<1>2. IInv /\ [Next]_vars => IInv'
    BY Step
<1> QED
    BY <1>1, <1>2, PTL DEF Spec

(* relaylinks.validate and subgroups.validateUnique, each under the lock   *)
(* of its registry, are enough: however operators' plans go stale, no link *)
(* loops, chains or shares a port, and no two groups share a salt.         *)
THEOREM RegistriesStaySound == Spec => []RegistriesSound
<1>1. IInv => RegistriesSound
    BY DEF IInv, LinksInv, GroupsInv, RegistriesSound
<1> QED
    BY <1>1, Invariance, PTL

(* Whatever fails or dies during a refresh, a published profile has its    *)
(* key, as long as no two refreshes ran at once (deploy/remote.go).        *)
THEOREM FilesKeepKeys == Spec => []FilesHaveKeys
<1>1. IInv => FilesHaveKeys
    BY DEF IInv, PublishedInv, FilesHaveKeys
<1> QED
    BY <1>1, Invariance, PTL

-----------------------------------------------------------------------------
(* What an operation that nothing disturbs has done so far.                *)

(* Where process p is when its record is r, and what the operation it      *)
(* carries out says.                                                       *)
Place(p, r) ==
    /\ r.pc = "menu" => r = Idle
    /\ r.pc \in {"confirm", "addmember", "dropmember", "dropnode"} => p \in Consoles
    /\ r.pc = "confirm" =>
         /\ r.change.kind \in {"link", "unlink"} /\ r.change.landing \in Hosts
         /\ r.change.kind = "link" => r.view \in Links /\ r.todo # << >> /\ r.todo[1] = r.view.relay
    /\ r.pc = "addmember" => r.change.kind = "add"
    /\ r.pc \in {"dropmember", "dropnode"} => r.change.kind = "remove" /\ r.change.node \in Hosts
    /\ r.todo \in Seq(Hosts)
    /\ r.pc = "apply" => r.todo # << >>

(* The relays the operation has to tell: a tick all that are in use, a     *)
(* change of a link the relay of its landing node.                         *)
Due(p, r) ==
    IF p = Timer THEN RelaysInUse
    ELSE IF r.change.kind = "link" THEN {h \in Hosts : r.change.landing \in ServedBy(links, h)}
    ELSE {}
Told(h) == relay[h].rules = RelayConfigFor(h)
Listed(r, h) == \E i \in DOMAIN r.todo : r.todo[i] = h

(* The files that are what the registries describe, and those swept.       *)
Written(S) == \A s \in S : files[s] = Desired[s]
Swept == \A s \in Salts \ DOMAIN Desired : files[s] = None

(* The relays told, the files written and those swept, place by place.     *)
RulesDone(p, r) ==
    /\ r.pc = "apply" => \A h \in Due(p, r) : Listed(r, h) \/ Told(h)
    /\ r.pc \in {"refresh", "unread", "mark"} \cup Working => \A h \in Due(p, r) : Told(h)
FilesDone(r) ==
    /\ r.pc \in Working => r.specs = Desired
    /\ r.pc \in {"key", "file"} =>
         r.left # {} /\ r.left \subseteq DOMAIN Desired /\ Written(DOMAIN Desired \ r.left)
    /\ r.pc \in {"sweep", "sweepkeys", "mark"} => Written(DOMAIN Desired)
    /\ r.pc \in {"sweepkeys", "mark"} => Swept
Effect(p, r) == r.calm /\ ~r.bad => RulesDone(p, r) /\ FilesDone(r)

(* Types that the effects rest on.                                         *)
TypesInv ==
    /\ port \in [Hosts -> Ports] /\ relay = [h \in Hosts |-> relay[h]]
    /\ \A h \in Hosts : links[h] = None \/ links[h] \in Links
    /\ \A g \in Registered : groups[g].salt \in Salts

EffectsInv == TypesInv /\ \A p \in Procs : Place(p, proc[p]) /\ Effect(p, proc[p])

-----------------------------------------------------------------------------
\* Idle processes are at their place and owe nothing.
LEMMA IdlePlace ==
    ASSUME NEW p
    PROVE  Place(p, Idle) /\ ~Idle.calm /\ ~Idle.bad /\ ProcRecord(Idle)
    BY DEF Place, Idle, ProcRecord

\* A process that somebody else disturbs stays at its place and is not calm.
LEMMA Hushed ==
    ASSUME IInv, EffectsInv, NEW q \in Procs, NEW x, x = [proc[q] EXCEPT !.calm = FALSE]
    PROVE  Place(q, x) /\ ~x.calm
<1>1. ProcRecord(proc[q]) /\ Place(q, proc[q])
    BY Mine DEF EffectsInv
<1>2. /\ ~x.calm /\ x.pc = proc[q].pc /\ x.change = proc[q].change
      /\ x.view = proc[q].view /\ x.todo = proc[q].todo /\ ProcRecord(x)
      /\ x.specs = proc[q].specs /\ x.left = proc[q].left /\ x.bad = proc[q].bad
      /\ x.desired = proc[q].desired /\ x.asked = proc[q].asked
    BY <1>1 DEF ProcRecord
<1>3. x.pc = "menu" => x = Idle
    <2>1. proc[q] = Idle => x = Idle
        <3>1. x.calm = FALSE
            BY <1>1 DEF ProcRecord
        <3> QED
            BY <1>2, <3>1 DEF Idle, ProcRecord
    <2> QED
        BY <1>1, <1>2, <2>1 DEF Place
<1> QED
    BY <1>1, <1>2, <1>3 DEF Place

(* A process that takes a step answers for its own place and effect only:  *)
(* the step disturbs all the others.                                       *)
LEMMA Own ==
    ASSUME IInv, EffectsInv, NEW p \in Procs, NEW x, Upd(p, x), TypesInv', Place(p, x), Effect(p, x)'
    PROVE  EffectsInv'
<1> DEFINE D == Disturbed(p)
<1>1. \A q \in Procs \ {p} : D[q] = [proc[q] EXCEPT !.calm = FALSE]
    BY DEF Disturbed
<1>2. proc' = [D EXCEPT ![p] = x] /\ D = [q \in Procs |-> D[q]]
    BY DEF Upd, Disturbed
<1> HIDE DEF D
<1>3. proc'[p] = x /\ \A q \in Procs \ {p} : proc'[q] = D[q]
    BY <1>2
<1>4. ASSUME NEW q \in Procs PROVE Place(q, proc'[q]) /\ Effect(q, proc[q])'
    <2>1. CASE q = p
        BY <1>3, <2>1 DEF Place, Effect, RulesDone, FilesDone, Due, Listed
    <2>2. CASE q # p
        <3>1. PICK y : y = [proc[q] EXCEPT !.calm = FALSE]
            OBVIOUS
        <3>2. proc'[q] = y
            BY <1>1, <1>3, <2>2, <3>1
        <3>3. Place(q, y) /\ ~y.calm
            BY <3>1, Hushed
        <3> QED
            BY <3>2, <3>3 DEF Effect
    <2> QED
        BY <2>1, <2>2
<1> QED
    BY <1>4 DEF EffectsInv, Place

\* A process that is done owes nothing.
LEMMA OwnDone ==
    ASSUME IInv, EffectsInv, NEW p \in Procs, Done(p), TypesInv'
    PROVE  EffectsInv'
<1>1. PICK x : x = Idle
    OBVIOUS
<1>2. Upd(p, x) /\ Place(p, x) /\ ~x.calm
    BY <1>1, IdlePlace DEF Done, Upd
<1>3. Effect(p, x)'
    BY <1>2 DEF Effect
<1> QED
    BY <1>2, <1>3, Own

\* The types stay while the registries and the relays do.
LEMMA TypesKept ==
    ASSUME EffectsInv, UNCHANGED <<port, links, groups>>, relay' = [h \in Hosts |-> relay'[h]]
    PROVE  TypesInv'
    BY DEF EffectsInv, TypesInv, Registered

\* What the registries describe stays while they do.
LEMMA ViewKept ==
    ASSUME UNCHANGED <<registries, quotas>>
    PROVE  /\ Desired' = Desired /\ RelaysInUse' = RelaysInUse
           /\ \A h : RelayConfigFor(h)' = RelayConfigFor(h) /\ ServedBy(links, h)' = ServedBy(links, h)
<1>1. UNCHANGED <<fleet, port, links, groups, spent, seen>>
    BY DEF registries, quotas
<1>2. Desired' = Desired
    BY <1>1 DEF Desired, Specs, Sources, buildSubscriptionGroup, Entry, Fronted, IsLanding, Endpoints, Available
<1>3. RelaysInUse' = RelaysInUse
    BY <1>1 DEF RelaysInUse, IsLanding, ServedBy, Available
<1>4. ASSUME NEW h PROVE RelayConfigFor(h)' = RelayConfigFor(h) /\ ServedBy(links, h)' = ServedBy(links, h)
    BY <1>1 DEF RelayConfigFor, ServedBy, Available
<1> QED
    BY <1>2, <1>3, <1>4

-----------------------------------------------------------------------------
(* Operators.                                                              *)

\* The record of a process that begins.
LEMMA Begun ==
    ASSUME IInv, NEW p \in Procs, NEW pc, NEW c, NEW v, NEW todo, Begin(p, pc, c, v, todo)
    PROVE  \E x : Upd(p, x) /\ x.pc = pc /\ x.change = c /\ x.view = v /\ x.todo = todo
<1>1. ProcRecord(proc[p])
    BY Mine
<1>2. PICK x : x = [proc[p] EXCEPT !.pc = pc, !.change = c, !.view = v, !.todo = todo, !.calm = TRUE]
    OBVIOUS
<1>3. x.pc = pc /\ x.change = c /\ x.view = v /\ x.todo = todo
    BY <1>1, <1>2 DEF ProcRecord
<1> QED
    BY <1>2, <1>3 DEF Begin

\* The record of a process that only goes to another place.
Goes(p, pc, x) ==
    /\ Upd(p, x) /\ x.pc = pc /\ x.change = proc[p].change /\ x.view = proc[p].view
    /\ x.todo = proc[p].todo /\ x.specs = proc[p].specs /\ x.left = proc[p].left
    /\ x.bad = proc[p].bad /\ x.calm = proc[p].calm

\* There is such a record.
LEMMA Gone ==
    ASSUME IInv, NEW p \in Procs, NEW pc, Upd(p, [proc[p] EXCEPT !.pc = pc])
    PROVE  \E x : Goes(p, pc, x)
<1>1. ProcRecord(proc[p])
    BY Mine
<1>2. PICK x : x = [proc[p] EXCEPT !.pc = pc]
    OBVIOUS
<1>3. /\ x.pc = pc /\ x.change = proc[p].change /\ x.view = proc[p].view
      /\ x.todo = proc[p].todo /\ x.specs = proc[p].specs /\ x.left = proc[p].left
      /\ x.bad = proc[p].bad /\ x.calm = proc[p].calm
    BY <1>1, <1>2 DEF ProcRecord
<1> QED
    BY <1>2, <1>3 DEF Goes

\* A console whose operation is not about a link has no relay to tell; at
\* these places nothing else is due yet.
LEMMA NothingDue ==
    ASSUME NEW p, NEW x, x.pc \in {"confirm", "addmember", "dropmember", "dropnode", "compare", "menu"}
                         \/ (p # Timer /\ x.change.kind # "link" /\ x.pc \in {"refresh", "apply"})
    PROVE  Effect(p, x)'
    BY DEF Effect, RulesDone, FilesDone, Due, Working

\* The relays a confirmed change lists are machines; its own comes first.
LEMMA PlansTodo ==
    ASSUME IInv, EffectsInv, NEW p \in Consoles, NEW c \in Changes, planForwards(p, c)
    PROVE  \E v, todo :
             /\ Begin(p, "confirm", c, v, todo) /\ todo \in Seq(Hosts)
             /\ c.kind = "link" => v \in Links /\ todo # << >> /\ todo[1] = v.relay
<1> DEFINE old == IF IsLanding(links, c.landing) THEN <<links[c.landing].relay>> ELSE << >>
<1>1. c.kind \in {"link", "unlink"} /\ c.landing \in Hosts
    BY ChangesAssumption DEF planForwards
<1>2. IsLanding(links, c.landing) => links[c.landing].relay \in Hosts
    BY <1>1, Mine DEF LinksInv
<1>3. old \in Seq(Hosts)
    BY <1>2
<1>4. CASE c.kind = "unlink"
    <2>1. Begin(p, "confirm", c, None, old)
        BY <1>4 DEF planForwards
    <2> QED
        BY <1>3, <1>4, <2>1
<1>5. CASE c.kind = "link"
    <2>1. PICK rp \in AllocateForwards(c) :
            Begin(p, "confirm", c, [relay |-> c.relay, rport |-> rp],
                  <<c.relay>> \o (IF old = <<c.relay>> THEN << >> ELSE old))
        BY <1>5 DEF planForwards
    <2>2. c.relay \in Hosts
        BY <1>5, Mine DEF planForwards, relayCandidates, Endpoints, Hosts
    <2>3. PICK rest : rest = IF old = <<c.relay>> THEN << >> ELSE old
        OBVIOUS
    <2>4. rest \in Seq(Hosts)
        <3>1. << >> \in Seq(Hosts)
            OBVIOUS
        <3> QED
            BY <1>3, <2>3, <3>1
    <2>5. PICK v : v = [relay |-> c.relay, rport |-> rp]
        OBVIOUS
    <2>6. v \in Links /\ v.relay = c.relay
        BY <2>1, <2>2, <2>5 DEF Links, AllocateForwards
    <2> HIDE DEF old
    <2>7. PICK todo : todo = <<c.relay>> \o rest
        OBVIOUS
    <2>8. todo \in Seq(Hosts) /\ todo # << >> /\ todo[1] = c.relay
        BY <2>2, <2>4, <2>7
    <2>9. Begin(p, "confirm", c, v, todo)
        BY <2>1, <2>3, <2>5, <2>7
    <2> QED
        BY <2>6, <2>8, <2>9
<1> QED
    BY <1>1, <1>4, <1>5

\* What an operator begins keeps the effects.
LEMMA OperatorEffect ==
    ASSUME IInv, EffectsInv, NEW p \in Consoles, NEW c \in Changes, Operator(p, c)
    PROVE  EffectsInv'
<1>0. p \in Procs /\ p # Timer /\ << >> \in Seq(Hosts)
    BY ProcsAssumption DEF Procs
<1>1. CASE planForwards(p, c)
    <2>1. PICK v, todo :
            /\ Begin(p, "confirm", c, v, todo) /\ todo \in Seq(Hosts)
            /\ c.kind = "link" => v \in Links /\ todo # << >> /\ todo[1] = v.relay
        BY <1>1, PlansTodo
    <2>2. PICK x : Upd(p, x) /\ x.pc = "confirm" /\ x.change = c /\ x.view = v /\ x.todo = todo
        BY <1>0, <2>1, Begun
    <2>3. c.kind \in {"link", "unlink"} /\ c.landing \in Hosts
        BY <1>1, ChangesAssumption DEF planForwards
    <2>4. Place(p, x)
        BY <1>0, <2>1, <2>2, <2>3 DEF Place
    <2>5. Effect(p, x)'
        BY <2>2, NothingDue
    <2>6. TypesInv'
        BY <1>1, TypesKept DEF planForwards, registries, EffectsInv, TypesInv
    <2> QED
        BY <1>0, <2>2, <2>4, <2>5, <2>6, Own
<1>2. ASSUME Begin(p, "refresh", c, None, << >>), c.kind \in {"group", "ungroup", "port"}, TypesInv'
      PROVE  EffectsInv'
    <2>1. PICK x : Upd(p, x) /\ x.pc = "refresh" /\ x.change = c /\ x.todo = << >>
        BY <1>0, <1>2, Begun
    <2>2. Place(p, x)
        BY <1>0, <2>1 DEF Place
    <2>3. Effect(p, x)'
        BY <1>0, <1>2, <2>1, NothingDue
    <2> QED
        BY <1>0, <1>2, <2>1, <2>2, <2>3, Own
<1>3. CASE applyGroupChange(p, c)
    <2>1. c.kind \in {"group", "ungroup"} /\ Begin(p, "refresh", c, None, << >>)
        BY <1>3 DEF applyGroupChange, SetGroup, RemoveGroup
    <2>2. UNCHANGED <<port, links, relay>>
        BY <1>3 DEF applyGroupChange, SetGroup, RemoveGroup
    <2>3. PICK new : groups' = [groups EXCEPT ![c.id] = new] /\ (new # None => new.salt \in Salts)
        <3>1. CASE c.kind = "group"
            <4>1. groups' = [groups EXCEPT ![c.id] = [salt |-> c.salt, members |-> c.members]]
                BY <1>3, <3>1 DEF applyGroupChange, SetGroup, RemoveGroup
            <4>2. c.salt \in Salts
                BY <3>1, ChangesAssumption
            <4>3. PICK r : r = [salt |-> c.salt, members |-> c.members]
                OBVIOUS
            <4>4. groups' = [groups EXCEPT ![c.id] = r] /\ r.salt \in Salts
                BY <4>1, <4>2, <4>3
            <4> QED
                BY <4>4
        <3>2. CASE c.kind # "group"
            BY <1>3, <3>2 DEF applyGroupChange, SetGroup, RemoveGroup
        <3> QED
            BY <3>1, <3>2
    <2>4. \A g \in GroupIds : groups'[g] = IF g = c.id THEN new ELSE groups[g]
        BY <2>3, Mine DEF GroupsInv
    <2>5. \A g \in Registered' : groups'[g].salt \in Salts
        BY <2>3, <2>4 DEF Registered, EffectsInv, TypesInv
    <2>6. TypesInv'
        BY <2>2, <2>5 DEF EffectsInv, TypesInv
    <2> QED
        BY <1>2, <2>1, <2>6
<1>4. CASE changePort(p, c)
    <2>1. /\ c.kind = "port" /\ Begin(p, "refresh", c, None, << >>)
          /\ port' = [port EXCEPT ![c.node] = c.port] /\ UNCHANGED <<links, groups, relay>>
        BY <1>4 DEF changePort
    <2>2. c.port \in Ports
        BY <2>1, ChangesAssumption
    <2>3. port' \in [Hosts -> Ports]
        BY <2>1, <2>2 DEF EffectsInv, TypesInv
    <2>4. TypesInv'
        BY <2>1, <2>3 DEF EffectsInv, TypesInv, Registered
    <2> QED
        BY <1>2, <2>1, <2>4
<1>5. CASE AddNode(p, c)
    <2>1. /\ c.kind = "add" /\ Begin(p, "addmember", c, None, << >>)
          /\ relay' = [relay EXCEPT ![c.node] = NoRelay] /\ UNCHANGED <<port, links, groups>>
        BY <1>5 DEF AddNode
    <2>2. PICK x : Upd(p, x) /\ x.pc = "addmember" /\ x.change = c /\ x.todo = << >>
        BY <1>0, <2>1, Begun
    <2>3. Place(p, x)
        BY <1>0, <2>1, <2>2 DEF Place
    <2>4. Effect(p, x)'
        BY <2>2, NothingDue
    <2>5. TypesInv'
        BY <2>1, TypesKept DEF EffectsInv, TypesInv
    <2> QED
        BY <1>0, <2>2, <2>3, <2>4, <2>5, Own
<1>6. CASE RemoveNode(p, c)
    <2>1. /\ c.kind = "remove" /\ c.node \in fleet /\ Begin(p, "dropmember", c, None, << >>)
          /\ UNCHANGED <<port, links, groups, relay>>
        BY <1>6 DEF RemoveNode
    <2>2. PICK x : Upd(p, x) /\ x.pc = "dropmember" /\ x.change = c /\ x.todo = << >>
        BY <1>0, <2>1, Begun
    <2>3. c.node \in Hosts
        BY <2>1, Mine DEF Hosts
    <2>4. Place(p, x)
        BY <1>0, <2>1, <2>2, <2>3 DEF Place
    <2>5. Effect(p, x)'
        BY <2>2, NothingDue
    <2>6. TypesInv'
        BY <2>1, TypesKept DEF EffectsInv, TypesInv
    <2> QED
        BY <1>0, <2>2, <2>4, <2>5, <2>6, Own
<1> QED
    BY <1>1, <1>3, <1>4, <1>5, <1>6 DEF Operator

-----------------------------------------------------------------------------
(* The registries.                                                         *)

\* Set keeps the effects: the relay of the new link is on the list.
LEMMA SetEffect ==
    ASSUME IInv, EffectsInv, NEW p \in Procs, Set(p)
    PROVE  EffectsInv'
<1> DEFINE c == proc[p].change
           next == IF proc[p].todo = << >> THEN "refresh" ELSE "apply"
           new == IF c.kind = "unlink" THEN None ELSE proc[p].view
<1>1. UNCHANGED <<port, groups, relay>> /\ proc[p].pc = "confirm"
    BY DEF Set, At
<1>2. /\ c.kind \in {"link", "unlink"} /\ c.landing \in Hosts /\ p \in Consoles
      /\ c.kind = "link" => proc[p].view \in Links /\ proc[p].todo # << >>
                            /\ proc[p].todo[1] = proc[p].view.relay
      /\ proc[p].todo \in Seq(Hosts)
    BY <1>1 DEF EffectsInv, Place
<1>3. CASE Done(p) /\ UNCHANGED links
    <2>1. TypesInv'
        BY <1>1, <1>3, TypesKept DEF EffectsInv, TypesInv
    <2> QED
        BY <1>3, <2>1, OwnDone
<1>4. CASE ~(Done(p) /\ UNCHANGED links)
    <2>1. links' = [links EXCEPT ![c.landing] = new] /\ Upd(p, [proc[p] EXCEPT !.pc = next])
        BY <1>4 DEF Set
    <2>2. new = None \/ new \in Links
        BY <1>2
    <2>4. next \in {"refresh", "apply"} /\ (next = "apply" => proc[p].todo # << >>)
        OBVIOUS
    <2>5. c.kind = "link" => new = proc[p].view /\ next = "apply"
        BY <1>2
    <2> HIDE DEF next, new
    <2>x. PICK x : Goes(p, next, x)
        BY <2>1, Gone
    <2>3. Upd(p, x) /\ x.pc = next /\ x.change = c /\ x.view = proc[p].view /\ x.todo = proc[p].todo
        BY <2>x DEF Goes
    <2>6. \A h \in Hosts : links'[h] = IF h = c.landing THEN new ELSE links[h]
        BY <2>1, Mine DEF LinksInv
    <2>7. TypesInv'
        BY <1>1, <2>2, <2>6 DEF EffectsInv, TypesInv, Registered
    <2>8. Place(p, x)
        BY <1>2, <2>3, <2>4 DEF Place
    <2>9. Effect(p, x)'
        <3>1. CASE c.kind # "link"
            <4>1. p # Timer
                BY <1>2, ProcsAssumption
            <4> QED
                BY <2>3, <2>4, <3>1, <4>1, NothingDue
        <3>2. CASE c.kind = "link"
            <4>1. ASSUME NEW h \in Due(p, x)' PROVE Listed(x, h)
                <5>1. h \in Hosts /\ x.change.landing \in ServedBy(links', h)
                    BY <1>2, <2>3, <3>2, ProcsAssumption DEF Due
                <5>2. links'[c.landing].relay = h
                    BY <2>3, <5>1 DEF ServedBy
                <5>3. links'[c.landing] = proc[p].view
                    BY <1>2, <2>5, <2>6, <3>2
                <5>4. x.todo[1] = h /\ 1 \in DOMAIN x.todo
                    BY <1>2, <2>3, <3>2, <5>2, <5>3
                <5> QED
                    BY <5>4 DEF Listed
            <4>2. x.pc = "apply"
                BY <2>3, <2>5, <3>2
            <4> QED
                BY <4>1, <4>2 DEF Effect, RulesDone, FilesDone, Working, Listed
        <3> QED
            BY <3>1, <3>2
    <2> QED
        BY <2>3, <2>7, <2>8, <2>9, Own
<1> QED
    BY <1>3, <1>4

\* AddMember and DropMember keep the effects.
LEMMA MembersEffect ==
    ASSUME IInv, EffectsInv, NEW p \in Procs, AddMember(p) \/ DropMember(p)
    PROVE  EffectsInv'
<1>1. UNCHANGED <<port, links, relay>>
    BY DEF AddMember, DropMember
<1>2. \A m : \A g \in GroupIds : groups[g] # None =>
        [groups[g] EXCEPT !.members = m].salt = groups[g].salt
    BY Mine DEF GroupsInv, Registered, GroupRecord
<1>3. \A g \in Registered : groups[g].salt \in Salts
    BY DEF EffectsInv, TypesInv
<1>4. ASSUME \A g \in Registered' : g \in Registered /\ groups'[g].salt = groups[g].salt
      PROVE  TypesInv'
    BY <1>1, <1>3, <1>4 DEF EffectsInv, TypesInv
<1>5. Place(p, proc[p])
    BY DEF EffectsInv
<1>6. CASE AddMember(p)
    <2>1. /\ Upd(p, [proc[p] EXCEPT !.pc = "refresh"]) /\ proc[p].pc = "addmember"
          /\ groups' = [g \in GroupIds |-> IF g \in proc[p].change.ids \cap Registered
                THEN [groups[g] EXCEPT !.members = groups[g].members \cup {proc[p].change.node}] ELSE groups[g]]
        BY <1>6 DEF AddMember, At
    <2>2. TypesInv'
        BY <1>2, <1>4, <2>1 DEF Registered
    <2>x. PICK x : Goes(p, "refresh", x)
        BY <2>1, Gone
    <2>3. Upd(p, x) /\ x.pc = "refresh" /\ x.change = proc[p].change /\ x.todo = proc[p].todo
        BY <2>x DEF Goes
    <2>4. p \in Consoles /\ proc[p].change.kind = "add" /\ proc[p].todo \in Seq(Hosts)
        BY <1>5, <2>1 DEF Place
    <2>5. Place(p, x)
        BY <2>3, <2>4 DEF Place
    <2>6. Effect(p, x)'
        BY <2>3, <2>4, ProcsAssumption, NothingDue
    <2> QED
        BY <2>2, <2>3, <2>5, <2>6, Own
<1>7. CASE DropMember(p)
    <2>1. /\ Upd(p, [proc[p] EXCEPT !.pc = "dropnode"]) /\ proc[p].pc = "dropmember"
          /\ groups' = [g \in GroupIds |-> IF groups[g] = None THEN None
                ELSE [groups[g] EXCEPT !.members = groups[g].members \ {proc[p].change.node}]]
        BY <1>7 DEF DropMember, At
    <2>2. TypesInv'
        BY <1>2, <1>4, <2>1 DEF Registered
    <2>x. PICK x : Goes(p, "dropnode", x)
        BY <2>1, Gone
    <2>3. Upd(p, x) /\ x.pc = "dropnode" /\ x.change = proc[p].change /\ x.todo = proc[p].todo
        BY <2>x DEF Goes
    <2>4. /\ p \in Consoles /\ proc[p].change.kind = "remove" /\ proc[p].change.node \in Hosts
          /\ proc[p].todo \in Seq(Hosts)
        BY <1>5, <2>1 DEF Place
    <2>5. Place(p, x)
        BY <2>3, <2>4 DEF Place
    <2>6. Effect(p, x)'
        BY <2>3, NothingDue
    <2> QED
        BY <2>2, <2>3, <2>5, <2>6, Own
<1> QED
    BY <1>6, <1>7

\* DropNode keeps the effects.
LEMMA DropNodeEffect ==
    ASSUME IInv, EffectsInv, NEW p \in Procs, DropNode(p)
    PROVE  EffectsInv'
<1> DEFINE n == proc[p].change.node
           orphaned == IF IsLanding(links, n) THEN <<links[n].relay>> ELSE << >>
           next == IF orphaned = << >> THEN "refresh" ELSE "apply"
<1>1. /\ UNCHANGED <<port, groups, relay>> /\ proc[p].pc = "dropnode"
      /\ links' = [l \in Hosts |-> IF l = n \/ l \in ServedBy(links, n) THEN None ELSE links[l]]
      /\ Upd(p, [proc[p] EXCEPT !.pc = next, !.todo = orphaned])
    BY DEF DropNode, At
<1>2. p \in Consoles /\ proc[p].change.kind = "remove" /\ n \in Hosts
    BY <1>1 DEF EffectsInv, Place
<1>3. orphaned \in Seq(Hosts) /\ next \in {"refresh", "apply"} /\ (next = "apply" => orphaned # << >>)
    <2>1. IsLanding(links, n) => links[n].relay \in Hosts
        BY <1>2, Mine DEF LinksInv
    <2> QED
        BY <2>1
<1>4. TypesInv'
    BY <1>1 DEF EffectsInv, TypesInv, Registered
<1> HIDE DEF orphaned, next
<1>5. PICK x : x = [proc[p] EXCEPT !.pc = next, !.todo = orphaned]
    OBVIOUS
<1>6. x.pc = next /\ x.todo = orphaned /\ x.change = proc[p].change
    <2>1. ProcRecord(proc[p])
        BY Mine
    <2> QED
        BY <1>5, <2>1 DEF ProcRecord
<1>7. Place(p, x)
    BY <1>2, <1>3, <1>6 DEF Place
<1>8. Effect(p, x)'
    BY <1>2, <1>3, <1>6, ProcsAssumption, NothingDue
<1> QED
    BY <1>1, <1>4, <1>5, <1>7, <1>8, Own

\* A step that failed owes nothing.
LEMMA Failed ==
    ASSUME NEW p, NEW x, x.bad
    PROVE  Effect(p, x)'
    BY DEF Effect

\* RegistryFails keeps the effects.
LEMMA RegistryFailsEffect ==
    ASSUME IInv, EffectsInv, NEW p \in Procs, RegistryFails(p)
    PROVE  EffectsInv'
<1>1. TypesInv' /\ Place(p, proc[p]) /\ ProcRecord(proc[p])
    BY TypesKept, Mine DEF RegistryFails, registries, EffectsInv, TypesInv
<1>2. CASE At(p, "confirm")
    BY <1>1, <1>2, OwnDone DEF RegistryFails, At
<1>3. ASSUME NEW pc \in {"dropnode", "refresh"}, Upd(p, [proc[p] EXCEPT !.pc = pc, !.bad = TRUE]),
             pc = "dropnode" => At(p, "dropmember")
      PROVE  EffectsInv'
    <2>1. PICK x : x = [proc[p] EXCEPT !.pc = pc, !.bad = TRUE]
        OBVIOUS
    <2>2. x.pc = pc /\ x.bad /\ x.change = proc[p].change /\ x.todo = proc[p].todo
        BY <1>1, <2>1 DEF ProcRecord
    <2>3. Place(p, x)
        BY <1>1, <1>3, <2>2 DEF Place, At
    <2>4. Effect(p, x)'
        BY <2>2, Failed
    <2> QED
        BY <1>1, <1>3, <2>1, <2>3, <2>4, Own
<1>4. CASE At(p, "dropmember")
    <2>1. Upd(p, [proc[p] EXCEPT !.pc = "dropnode", !.bad = TRUE])
        BY <1>4 DEF RegistryFails, At
    <2> QED
        BY <1>3, <1>4, <2>1
<1>5. CASE ~At(p, "confirm") /\ ~At(p, "dropmember")
    <2>1. Upd(p, [proc[p] EXCEPT !.pc = "refresh", !.bad = TRUE])
        BY <1>5 DEF RegistryFails
    <2> QED
        BY <1>3, <2>1
<1> QED
    BY <1>2, <1>4, <1>5

-----------------------------------------------------------------------------
(* The relays.                                                             *)

\* The rest of a list.
LEMMA RestOfList ==
    ASSUME NEW t \in Seq(Hosts), t # << >>
    PROVE  Tail(t) \in Seq(Hosts) /\ (Len(t) # 1 => Tail(t) # << >>)
<1>1. Len(t) \in Nat /\ Len(t) # 0
    OBVIOUS
<1>2. Tail(t) \in Seq(Hosts) /\ Len(Tail(t)) = Len(t) - 1
    BY <1>1
<1>3. Len(t) # 1 => Len(Tail(t)) # 0
    BY <1>1, <1>2
<1>4. Len(<< >>) = 0
    OBVIOUS
<1> QED
    BY <1>2, <1>3, <1>4

\* A relay that could not be told ends the operation or spoils it.
LEMMA RelayFailed ==
    ASSUME IInv, EffectsInv, NEW p \in Procs, proc[p].pc = "apply", NextRelay(p, TRUE), TypesInv'
    PROVE  EffectsInv'
<1> DEFINE next == IF Len(proc[p].todo) = 1 THEN "refresh" ELSE "apply"
<1>1. CASE Done(p)
    BY <1>1, OwnDone
<1>2. CASE ~Done(p)
    <2>1. Upd(p, [proc[p] EXCEPT !.pc = next, !.todo = Tail(proc[p].todo), !.bad = (proc[p].bad \/ TRUE)])
        BY <1>2 DEF NextRelay
    <2>2. proc[p].todo \in Seq(Hosts) /\ proc[p].todo # << >> /\ ProcRecord(proc[p])
        BY Mine DEF EffectsInv, Place
    <2>3. /\ Tail(proc[p].todo) \in Seq(Hosts) /\ next \in {"refresh", "apply"}
          /\ next = "apply" => Tail(proc[p].todo) # << >>
        BY <2>2, RestOfList
    <2> HIDE DEF next
    <2>4. PICK x : x = [proc[p] EXCEPT !.pc = next, !.todo = Tail(proc[p].todo), !.bad = (proc[p].bad \/ TRUE)]
        OBVIOUS
    <2>5. x.pc = next /\ x.todo = Tail(proc[p].todo) /\ x.bad = (proc[p].bad \/ TRUE)
        BY <2>2, <2>4 DEF ProcRecord
    <2>6. Place(p, x)
        BY <2>3, <2>5 DEF Place
    <2>7. x.bad
        BY <2>5
    <2>8. Effect(p, x)'
        BY <2>7, Failed
    <2> QED
        BY <2>1, <2>4, <2>6, <2>8, Own
<1> QED
    BY <1>1, <1>2

\* What is due stays while the registries and the operation do.
LEMMA SameDue ==
    ASSUME NEW p, NEW x, x.change = proc[p].change, UNCHANGED <<registries, quotas>>
    PROVE  Due(p, x)' = Due(p, proc[p])
<1>1. RelaysInUse' = RelaysInUse /\ \A h : ServedBy(links, h)' = ServedBy(links, h)
    BY ViewKept
<1>2. CASE p = Timer
    BY <1>1, <1>2 DEF Due
<1>3. CASE p # Timer /\ x.change.kind = "link"
    <2>1. Due(p, x)' = {h \in Hosts : x.change.landing \in ServedBy(links, h)'}
        BY <1>3 DEF Due
    <2>2. Due(p, proc[p]) = {h \in Hosts : x.change.landing \in ServedBy(links, h)}
        BY <1>3 DEF Due
    <2> QED
        BY <1>1, <2>1, <2>2
<1>4. CASE p # Timer /\ x.change.kind # "link"
    BY <1>4 DEF Due
<1> QED
    BY <1>2, <1>3, <1>4

\* A relay that has been told leaves the list.
LEMMA RelayTold ==
    ASSUME IInv, EffectsInv, NEW p \in Procs, proc[p].pc = "apply", NextRelay(p, FALSE), TypesInv',
           UNCHANGED <<registries, quotas>>, NEW r, r = Head(proc[p].todo), r \in Hosts,
           relay' = [relay EXCEPT ![r] = Applied(RelayConfigFor(r))]
    PROVE  EffectsInv'
<1> DEFINE next == IF Len(proc[p].todo) = 1 THEN "refresh" ELSE "apply"
<1>1. Upd(p, [proc[p] EXCEPT !.pc = next, !.todo = Tail(proc[p].todo), !.bad = (proc[p].bad \/ FALSE)])
    BY DEF NextRelay
<1>2. PICK todo : todo = proc[p].todo
    OBVIOUS
<1>3. todo \in Seq(Hosts) /\ todo # << >> /\ ProcRecord(proc[p]) /\ Effect(p, proc[p])
    BY <1>2, Mine DEF EffectsInv, Place
<1>4. /\ Tail(todo) \in Seq(Hosts) /\ next \in {"refresh", "apply"}
      /\ next = "apply" => Tail(todo) # << >>
    <2>1. Tail(todo) \in Seq(Hosts) /\ (Len(todo) # 1 => Tail(todo) # << >>)
        BY <1>3, RestOfList
    <2> QED
        BY <1>2, <2>1
<1>5. \A h : h # r /\ (\E i \in DOMAIN todo : todo[i] = h) =>
              next = "apply" /\ \E i \in DOMAIN Tail(todo) : Tail(todo)[i] = h
    <2>1. SUFFICES ASSUME NEW h, h # r, NEW i \in DOMAIN todo, todo[i] = h
                   PROVE  next = "apply" /\ \E j \in DOMAIN Tail(todo) : Tail(todo)[j] = h
        OBVIOUS
    <2>2. i \in 1..Len(todo) /\ todo[1] = r
        BY <1>2, <1>3
    <2>3. i - 1 \in 1..(Len(todo) - 1) /\ Len(todo) # 1
        BY <1>3, <2>1, <2>2
    <2>4. i - 1 \in DOMAIN Tail(todo) /\ Tail(todo)[i - 1] = todo[i]
        BY <1>3, <2>3
    <2> QED
        BY <1>2, <2>1, <2>3, <2>4
<1> HIDE DEF next
<1>6. PICK x : x = [proc[p] EXCEPT !.pc = next, !.todo = Tail(todo), !.bad = (proc[p].bad \/ FALSE)]
    OBVIOUS
<1>7. /\ x.pc = next /\ x.todo = Tail(todo) /\ x.bad = (proc[p].bad \/ FALSE)
      /\ x.change = proc[p].change /\ x.calm = proc[p].calm
    BY <1>3, <1>6 DEF ProcRecord
<1>8. Place(p, x)
    BY <1>4, <1>7 DEF Place
<1>9. Effect(p, x)'
    <2>1. SUFFICES ASSUME x.calm, ~x.bad, NEW h \in Due(p, x)'
                   PROVE  Told(h)' \/ (next = "apply" /\ Listed(x, h))
        BY <1>4, <1>7 DEF Effect, RulesDone, FilesDone, Working, Listed
    <2>2. ~proc[p].bad
        BY <1>7, <2>1
    <2>3. Due(p, x)' = Due(p, proc[p])
        BY <1>7, SameDue
    <2>4. Listed(proc[p], h) \/ Told(h)
        BY <1>3, <1>7, <2>1, <2>2, <2>3 DEF Effect, RulesDone
    <2>5. RelayConfigFor(h)' = RelayConfigFor(h) /\ RelayConfigFor(r)' = RelayConfigFor(r)
        BY ViewKept
    <2>6. h \in Hosts
        BY <2>1, <2>3 DEF Due, RelaysInUse
    <2>7. relay'[h] = IF h = r THEN Applied(RelayConfigFor(r)) ELSE relay[h]
        BY <2>6 DEF EffectsInv, TypesInv
    <2>8. CASE h = r
        BY <2>5, <2>7, <2>8 DEF Told, Applied
    <2>9. CASE h # r /\ Told(h)
        BY <2>5, <2>7, <2>9 DEF Told
    <2>10. CASE h # r /\ Listed(proc[p], h)
        BY <1>2, <1>5, <1>7, <2>10 DEF Listed
    <2> QED
        BY <2>4, <2>8, <2>9, <2>10
<1> QED
    BY <1>1, <1>2, <1>6, <1>8, <1>9, Own

\* ApplyRelayFor and ApplyFails keep the effects.
LEMMA ApplyEffect ==
    ASSUME IInv, EffectsInv, NEW p \in Procs, ApplyRelayFor(p) \/ ApplyFails(p)
    PROVE  EffectsInv'
<1>1. UNCHANGED <<registries, quotas>> /\ proc[p].pc = "apply"
    BY DEF ApplyRelayFor, ApplyFails, Installing, Clearing, At
<1>2. relay' = [h \in Hosts |-> relay'[h]]
    <2>1. relay = [h \in Hosts |-> relay[h]]
        BY DEF EffectsInv, TypesInv
    <2>2. relay' = relay \/ \E r, new : relay' = [relay EXCEPT ![r] = new]
        BY DEF ApplyRelayFor, ApplyFails, Installing, Clearing
    <2> QED
        BY <2>1, <2>2
<1>3. TypesInv'
    BY <1>1, <1>2, TypesKept DEF registries
<1>4. CASE NextRelay(p, TRUE)
    BY <1>1, <1>3, <1>4, RelayFailed
<1>5. CASE ~NextRelay(p, TRUE)
    <2>1. PICK r : r = Head(proc[p].todo)
        OBVIOUS
    <2>2. /\ r \in Endpoints /\ NextRelay(p, FALSE)
          /\ relay' = [relay EXCEPT ![r] = Applied(RelayConfigFor(r))]
        BY <1>5, <2>1 DEF ApplyRelayFor, ApplyFails, Installing, Clearing
    <2>3. r \in Hosts
        BY <2>2, Mine DEF Endpoints, Hosts
    <2> QED
        BY <1>1, <1>3, <2>1, <2>2, <2>3, RelayTold
<1> QED
    BY <1>4, <1>5

-----------------------------------------------------------------------------
(* Publication.                                                            *)

\* A refresh leaves the relays as they were told.
LEMMA RulesKept ==
    ASSUME NEW p, NEW x, x.change = proc[p].change, UNCHANGED <<registries, quotas, relay>>,
           proc[p].pc \in {"refresh", "unread", "mark"} \cup Working, RulesDone(p, proc[p]), x.pc # "apply"
    PROVE  RulesDone(p, x)'
<1>1. Due(p, x)' = Due(p, proc[p])
    BY SameDue
<1>2. \A h \in Due(p, proc[p]) : Told(h)
    BY DEF RulesDone
<1>3. ASSUME NEW h \in Due(p, x)' PROVE Told(h)'
    <2>1. Told(h) /\ RelayConfigFor(h)' = RelayConfigFor(h)
        BY <1>1, <1>2, ViewKept
    <2> QED
        BY <2>1 DEF Told
<1> QED
    BY <1>3 DEF RulesDone

\* What the registries describe: a profile for salts of theirs, never none.
LEMMA DesiredProfiles ==
    ASSUME IInv, EffectsInv
    PROVE  /\ Desired = [s \in DOMAIN Desired |-> Desired[s]] /\ DOMAIN Desired \subseteq Salts
           /\ \A s \in DOMAIN Desired : Desired[s] # None
<1> DEFINE bodies == [n \in Spokes |-> port[n]]
           live == {g \in GroupIds : groups[g] # None /\ Sources(groups[g].members, bodies) # {}}
           profile(s) == buildSubscriptionGroup(groups[CHOOSE h \in live : groups[h].salt = s].members, bodies)
<1>1. Desired = [s \in {groups[g].salt : g \in live} |-> profile(s)]
    BY DEF Desired, Specs
<1>2. TypesInv /\ fleet \subseteq Spokes
    BY Mine DEF EffectsInv
<1>3. \A g \in live : groups[g].salt \in Salts
    BY <1>2 DEF TypesInv, Registered
<1>4. ASSUME NEW s \in {groups[g].salt : g \in live} PROVE profile(s) # None
    <2>1. PICK members : members = groups[CHOOSE h \in live : groups[h].salt = s].members
        OBVIOUS
    <2>2. PICK S : S = Sources(members, bodies)
        OBVIOUS
    <2>3. S \subseteq Hosts
        BY <1>2, <2>2 DEF Sources, Hosts
    <2>4. ASSUME NEW n \in S
          PROVE  Entry(n, IF n = Hub THEN port[Hub] ELSE bodies[n]) \in Hosts \X (Ports \cup RelayPorts)
        <3>1. n \in Hosts /\ (n = Hub \/ n \in Spokes)
            BY <2>3 DEF Hosts
        <3>2. PICK body : body = IF n = Hub THEN port[Hub] ELSE bodies[n]
            OBVIOUS
        <3>3. body \in Ports
            BY <1>2, <3>1, <3>2 DEF TypesInv
        <3>4. n \in Fronted => links[n].relay \in Hosts /\ links[n].rport \in RelayPorts
            BY <1>2, <3>1 DEF Fronted, IsLanding, TypesInv, Links
        <3>5. Entry(n, body) \in Hosts \X (Ports \cup RelayPorts)
            BY <3>1, <3>3, <3>4 DEF Entry
        <3> QED
            BY <3>2, <3>5
    <2>5. profile(s) = [n \in S |-> Entry(n, IF n = Hub THEN port[Hub] ELSE bodies[n])]
        BY <2>1, <2>2 DEF buildSubscriptionGroup
    <2> HIDE DEF bodies, live, profile
    <2>6. profile(s) \in [S -> Hosts \X (Ports \cup RelayPorts)]
        BY <2>4, <2>5
    <2> QED
        BY <2>3, <2>6, ProfilesAssumption
<1> HIDE DEF bodies, live, profile
<1>5. DOMAIN Desired = {groups[g].salt : g \in live} /\ \A s \in DOMAIN Desired : Desired[s] = profile(s)
    BY <1>1
<1>6. Desired = [s \in DOMAIN Desired |-> Desired[s]]
    BY <1>1
<1> QED
    BY <1>3, <1>4, <1>5, <1>6

\* RefreshSubscriptions keeps the effects: with every spoke answering, what it
\* is about to write is what the registries describe.
LEMMA RefreshEffect ==
    ASSUME IInv, EffectsInv, NEW p \in Procs, RefreshSubscriptions(p)
    PROVE  EffectsInv'
<1>1. UNCHANGED <<registries, quotas, relay, files>> /\ proc[p].pc = "refresh"
    BY DEF RefreshSubscriptions, Body, cacheNodeSubscription, At
<1>2. TypesInv'
    BY <1>1, TypesKept DEF registries, EffectsInv, TypesInv
<1>3. PICK silent \in {{}} \cup {{n} : n \in Collected} :
        LET bodies == [n \in Spokes |-> IF n \in silent THEN cache[n] ELSE port[n]]
            specs == Specs(groups, bodies)
        IN Upd(p, [proc[p] EXCEPT !.pc = IF DOMAIN specs = {} THEN "sweep" ELSE "key", !.specs = specs,
               !.left = DOMAIN specs, !.asked = Collected,
               !.bad = \/ proc[p].bad \/ silent # {}
                       \/ Cardinality(DOMAIN specs) # Cardinality(Registered)])
    BY DEF RefreshSubscriptions, Body, cacheNodeSubscription
<1> DEFINE specs == Specs(groups, [n \in Spokes |-> IF n \in silent THEN cache[n] ELSE port[n]])
           bad == \/ proc[p].bad \/ silent # {}
                  \/ Cardinality(DOMAIN specs) # Cardinality(Registered)
           next == IF DOMAIN specs = {} THEN "sweep" ELSE "key"
           left == DOMAIN specs
<1>4. Upd(p, [proc[p] EXCEPT !.pc = next, !.specs = specs, !.left = left, !.asked = Collected,
                                 !.bad = bad])
    BY <1>3
<1>5. silent = {} => specs = Desired
    <2>1. silent = {} => [n \in Spokes |-> IF n \in silent THEN cache[n] ELSE port[n]] = [n \in Spokes |-> port[n]]
        OBVIOUS
    <2> QED
        BY <2>1 DEF Desired
<1>6. ~bad => ~proc[p].bad /\ silent = {}
    OBVIOUS
<1>7. next \in {"sweep", "key"} /\ (next = "sweep" <=> left = {}) /\ left = DOMAIN specs
    OBVIOUS
<1> HIDE DEF specs, bad, next, left
<1>8. PICK x : x = [proc[p] EXCEPT !.pc = next, !.specs = specs, !.left = left, !.asked = Collected,
                                 !.bad = bad]
    OBVIOUS
<1>9. /\ x.pc = next /\ x.specs = specs /\ x.left = left /\ x.bad = bad /\ x.calm = proc[p].calm
      /\ x.change = proc[p].change /\ x.todo = proc[p].todo
    <2>1. ProcRecord(proc[p])
        BY Mine
    <2> QED
        BY <1>8, <2>1 DEF ProcRecord
<1>10. Place(p, x)
    BY <1>7, <1>9 DEF Place, EffectsInv
<1>11. Effect(p, x)'
    <2>1. SUFFICES ASSUME x.calm, ~x.bad PROVE RulesDone(p, x)' /\ FilesDone(x)'
        BY DEF Effect
    <2>2. ~proc[p].bad /\ silent = {} /\ proc[p].calm
        BY <1>6, <1>9, <2>1
    <2>3. RulesDone(p, proc[p])
        BY <2>2 DEF EffectsInv, Effect
    <2>4. RulesDone(p, x)'
        BY <1>1, <1>7, <1>9, <2>3, RulesKept
    <2>5. specs = Desired /\ Desired' = Desired
        BY <1>1, <1>5, <2>2, ViewKept
    <2>6. FilesDone(x)'
        BY <1>7, <1>9, <2>5 DEF FilesDone, Written, Swept, Working
    <2> QED
        BY <2>4, <2>6
<1> QED
    BY <1>2, <1>4, <1>8, <1>10, <1>11, Own

\* writeAuthKeyCipherKey keeps the effects.
LEMMA WriteKeyEffect ==
    ASSUME IInv, EffectsInv, NEW p \in Procs, writeAuthKeyCipherKey(p)
    PROVE  EffectsInv'
<1>1. /\ UNCHANGED <<registries, quotas, relay, files>> /\ proc[p].pc = "key"
      /\ Upd(p, [proc[p] EXCEPT !.pc = "file"])
    BY DEF writeAuthKeyCipherKey, At
<1>2. TypesInv'
    BY <1>1, TypesKept DEF registries, EffectsInv, TypesInv
<1>3. PICK x : Goes(p, "file", x)
    BY <1>1, Gone
<1>4. Place(p, x)
    BY <1>3 DEF Place, EffectsInv, Goes
<1>5. Effect(p, x)'
    <2>1. SUFFICES ASSUME x.calm, ~x.bad PROVE RulesDone(p, x)' /\ FilesDone(x)'
        BY DEF Effect
    <2>2. RulesDone(p, proc[p]) /\ FilesDone(proc[p])
        BY <1>3, <2>1 DEF EffectsInv, Effect, Goes
    <2>3. x.pc = "file" /\ x.change = proc[p].change /\ x.specs = proc[p].specs /\ x.left = proc[p].left
        BY <1>3 DEF Goes
    <2>4. RulesDone(p, x)'
        BY <1>1, <2>2, <2>3, RulesKept DEF Working
    <2>5. Desired' = Desired
        BY <1>1, ViewKept
    <2>6. FilesDone(x)'
        BY <1>1, <2>2, <2>3, <2>5 DEF FilesDone, Written, Working
    <2> QED
        BY <2>4, <2>6
<1> QED
    BY <1>2, <1>3, <1>4, <1>5, Own DEF Goes

\* writeSubscriptionFiles keeps the effects: one file less is left to write.
LEMMA WriteFilesEffect ==
    ASSUME IInv, EffectsInv, NEW p \in Procs, writeSubscriptionFiles(p)
    PROVE  EffectsInv'
<1> DEFINE s == CHOOSE t \in proc[p].left : TRUE
           next == IF proc[p].left = {s} THEN "sweep" ELSE "key"
           left == proc[p].left \ {s}
<1>1. /\ UNCHANGED <<registries, quotas, relay>> /\ proc[p].pc = "file"
      /\ files' = [files EXCEPT ![s] = proc[p].specs[s]]
      /\ Upd(p, [proc[p] EXCEPT !.pc = next, !.left = left])
    BY DEF writeSubscriptionFiles, At
<1>2. TypesInv'
    BY <1>1, TypesKept DEF registries, EffectsInv, TypesInv
<1>3. next \in {"sweep", "key"} /\ left = proc[p].left \ {s} /\ (next = "key" => proc[p].left # {s})
    OBVIOUS
<1>4. next = "sweep" => left = {}
    OBVIOUS
<1>5. proc[p].left # {} => s \in proc[p].left
    OBVIOUS
<1> HIDE DEF s, next, left
<1>6. PICK x : x = [proc[p] EXCEPT !.pc = next, !.left = left]
    OBVIOUS
<1>7. /\ x.pc = next /\ x.left = left /\ x.specs = proc[p].specs /\ x.bad = proc[p].bad
      /\ x.calm = proc[p].calm /\ x.change = proc[p].change /\ x.todo = proc[p].todo
    <2>1. ProcRecord(proc[p])
        BY Mine
    <2> QED
        BY <1>6, <2>1 DEF ProcRecord
<1>8. Place(p, x)
    BY <1>3, <1>7 DEF Place, EffectsInv
<1>9. Effect(p, x)'
    <2>1. SUFFICES ASSUME x.calm, ~x.bad PROVE RulesDone(p, x)' /\ FilesDone(x)'
        BY DEF Effect
    <2>2. RulesDone(p, proc[p]) /\ FilesDone(proc[p])
        BY <1>7, <2>1 DEF EffectsInv, Effect
    <2>3. RulesDone(p, x)'
        BY <1>1, <1>3, <1>7, <2>2, RulesKept DEF Working
    <2>4. Desired' = Desired
        BY <1>1, ViewKept
    <2>5. /\ proc[p].specs = Desired /\ proc[p].left # {} /\ proc[p].left \subseteq DOMAIN Desired
          /\ Written(DOMAIN Desired \ proc[p].left)
        BY <1>1, <2>2 DEF FilesDone, Working
    <2>6. s \in proc[p].left /\ s \in Salts
        BY <1>5, <2>5, DesiredProfiles
    <2>7. \A t \in Salts : files'[t] = IF t = s THEN Desired[s] ELSE files[t]
        BY <1>1, <2>5, <2>6, Mine DEF PublishedInv
    <2>8. \A t \in DOMAIN Desired \ left : files'[t] = Desired[t]
        BY <1>3, <2>5, <2>7, DesiredProfiles DEF Written
    <2>9. next = "key" => left # {}
        BY <1>3, <2>6
    <2>10. FilesDone(x)'
        BY <1>3, <1>4, <1>7, <2>4, <2>5, <2>8, <2>9 DEF FilesDone, Written, Working
    <2> QED
        BY <2>3, <2>10
<1> QED
    BY <1>1, <1>2, <1>6, <1>8, <1>9, Own

\* removeStaleSubscriptionFiles keeps the effects: only what the registries
\* describe is left.
LEMMA SweepFilesEffect ==
    ASSUME IInv, EffectsInv, NEW p \in Procs, removeStaleSubscriptionFiles(p)
    PROVE  EffectsInv'
<1>1. /\ UNCHANGED <<registries, quotas, relay>> /\ proc[p].pc = "sweep"
      /\ files' = [s \in Salts |-> IF s \in DOMAIN proc[p].specs THEN files[s] ELSE None]
      /\ Upd(p, [proc[p] EXCEPT !.pc = "sweepkeys"])
    BY DEF removeStaleSubscriptionFiles, At
<1>2. TypesInv'
    BY <1>1, TypesKept DEF registries, EffectsInv, TypesInv
<1>3. PICK x : Goes(p, "sweepkeys", x)
    BY <1>1, Gone
<1>4. Place(p, x)
    BY <1>3 DEF Place, EffectsInv, Goes
<1>5. Effect(p, x)'
    <2>1. SUFFICES ASSUME x.calm, ~x.bad PROVE RulesDone(p, x)' /\ FilesDone(x)'
        BY DEF Effect
    <2>2. RulesDone(p, proc[p]) /\ FilesDone(proc[p])
        BY <1>3, <2>1 DEF EffectsInv, Effect, Goes
    <2>3. x.pc = "sweepkeys" /\ x.change = proc[p].change /\ x.specs = proc[p].specs
        BY <1>3 DEF Goes
    <2>4. RulesDone(p, x)'
        BY <1>1, <2>2, <2>3, RulesKept DEF Working
    <2>5. Desired' = Desired
        BY <1>1, ViewKept
    <2>6. proc[p].specs = Desired /\ Written(DOMAIN Desired)
        BY <1>1, <2>2 DEF FilesDone, Working
    <2>7. /\ \A s \in DOMAIN Desired : files'[s] = Desired[s]
          /\ \A s \in Salts \ DOMAIN Desired : files'[s] = None
        BY <1>1, <2>6, DesiredProfiles DEF Written
    <2>8. FilesDone(x)'
        BY <2>3, <2>5, <2>6, <2>7 DEF FilesDone, Written, Swept, Working
    <2> QED
        BY <2>4, <2>8
<1> QED
    BY <1>2, <1>3, <1>4, <1>5, Own DEF Goes

\* removeStaleTokenFiles keeps the effects.
LEMMA SweepKeysEffect ==
    ASSUME IInv, EffectsInv, NEW p \in Procs, removeStaleTokenFiles(p)
    PROVE  EffectsInv'
<1>1. UNCHANGED <<registries, quotas, relay, files>> /\ proc[p].pc = "sweepkeys" /\ Refreshed(p)
    BY DEF removeStaleTokenFiles, pruneSubscriptionCache, At
<1>2. TypesInv'
    BY <1>1, TypesKept DEF registries, EffectsInv, TypesInv
<1>3. CASE Done(p)
    BY <1>2, <1>3, OwnDone
<1>4. CASE ~Done(p)
    <2>1. Upd(p, [proc[p] EXCEPT !.pc = "mark", !.specs = << >>])
        BY <1>1, <1>4 DEF Refreshed
    <2>2. PICK x : x = [proc[p] EXCEPT !.pc = "mark", !.specs = << >>]
        OBVIOUS
    <2>3. /\ x.pc = "mark" /\ x.bad = proc[p].bad /\ x.calm = proc[p].calm
          /\ x.change = proc[p].change /\ x.todo = proc[p].todo
        <3>1. ProcRecord(proc[p])
            BY Mine
        <3> QED
            BY <2>2, <3>1 DEF ProcRecord
    <2>4. Place(p, x)
        BY <2>3 DEF Place, EffectsInv
    <2>5. Effect(p, x)'
        <3>1. SUFFICES ASSUME x.calm, ~x.bad PROVE RulesDone(p, x)' /\ FilesDone(x)'
            BY DEF Effect
        <3>2. RulesDone(p, proc[p]) /\ FilesDone(proc[p])
            BY <2>3, <3>1 DEF EffectsInv, Effect
        <3>3. RulesDone(p, x)'
            BY <1>1, <2>3, <3>2, RulesKept DEF Working
        <3>4. Desired' = Desired
            BY <1>1, ViewKept
        <3>5. FilesDone(x)'
            BY <1>1, <2>3, <3>2, <3>4 DEF FilesDone, Written, Swept, Working
        <3> QED
            BY <3>3, <3>5
    <2> QED
        BY <1>2, <2>1, <2>2, <2>4, <2>5, Own
<1> QED
    BY <1>3, <1>4

-----------------------------------------------------------------------------
(* The timer, the machines and the ends.                                   *)

\* The list of a finite set of machines names them all.
LEMMA ListsAll ==
    ASSUME NEW S \in SUBSET Hosts
    PROVE  /\ SetToSeq(S) \in Seq(Hosts)
           /\ \A h \in S : \E i \in DOMAIN SetToSeq(S) : SetToSeq(S)[i] = h
<1> DEFINE n == Cardinality(S)
<1>1. IsFiniteSet(S)
    <2>1. IsFiniteSet(Hosts)
        BY MachinesAssumption, FS_AddElement DEF Hosts
    <2> QED
        BY <2>1, FS_Subset
<1>2. n \in Nat /\ ExistsBijection(1..n, S)
    BY <1>1, FS_CardinalityType
<1> HIDE DEF n
<1>3. \E f \in [1..n -> S] : IsInjective(f)
    BY <1>2 DEF ExistsBijection, Bijection, Injection, IsInjective
<1>4. PICK f : f = CHOOSE g \in [1..n -> S] : IsInjective(g)
    OBVIOUS
<1>5. f \in [1..n -> S] /\ IsInjective(f)
    BY <1>3, <1>4
<1>6. f = SetToSeq(S)
    BY <1>4 DEF SetToSeq, n
<1>7. f \in Injection(1..n, S)
    BY <1>5 DEF Injection, IsInjective
<1>8. IsFiniteSet(1..n) /\ Cardinality(1..n) = n
    BY <1>2, FS_Interval
<1>9. f \in Surjection(1..n, S)
    <2>1. Cardinality(1..n) = Cardinality(S)
        BY <1>8 DEF n
    <2> QED
        BY <1>1, <1>7, <2>1, FS_Injection
<1>10. \A h \in S : \E i \in 1..n : f[i] = h
    BY <1>9 DEF Surjection
<1>11. f \in Seq(Hosts) /\ DOMAIN f = 1..n
    BY <1>2, <1>5
<1> QED
    BY <1>6, <1>10, <1>11

\* RefreshMonitor, ReconcileRelayPublication and writeRelayPublication keep
\* the effects: the tick lists every relay in use.
LEMMA TimerEffect ==
    ASSUME IInv, EffectsInv, RefreshMonitor \/ ReconcileRelayPublication \/ writeRelayPublication
    PROVE  EffectsInv'
<1>1. Timer \in Procs /\ UNCHANGED <<port, links, groups, relay>>
    BY DEF RefreshMonitor, ReconcileRelayPublication, writeRelayPublication, registries, Procs
<1>2. TypesInv'
    BY <1>1, TypesKept DEF EffectsInv, TypesInv
<1>3. CASE RefreshMonitor
    <2>1. Begin(Timer, "compare", None, None, << >>)
        BY <1>3 DEF RefreshMonitor
    <2>2. PICK x : Upd(Timer, x) /\ x.pc = "compare" /\ x.todo = << >>
        BY <1>1, <2>1, Begun
    <2>3. Place(Timer, x)
        BY <2>2 DEF Place
    <2>4. Effect(Timer, x)'
        BY <2>2, NothingDue
    <2> QED
        BY <1>1, <1>2, <2>2, <2>3, <2>4, Own
<1>4. CASE (ReconcileRelayPublication \/ writeRelayPublication) /\ Done(Timer)
    BY <1>1, <1>2, <1>4, OwnDone
<1>5. CASE ReconcileRelayPublication /\ ~Done(Timer)
    <2> DEFINE next == IF RelaysInUse = {} THEN "refresh" ELSE "apply"
               todo == SetToSeq(RelaysInUse)
    <2>1. /\ UNCHANGED <<registries, quotas>> /\ proc[Timer].pc = "compare"
          /\ Upd(Timer, [proc[Timer] EXCEPT !.pc = next, !.todo = todo, !.desired = relayPublicationState])
        BY <1>5 DEF ReconcileRelayPublication, At
    <2>2. RelaysInUse \subseteq Hosts
        BY DEF RelaysInUse
    <2>3. todo \in Seq(Hosts) /\ \A h \in RelaysInUse : \E i \in DOMAIN todo : todo[i] = h
        BY <2>2, ListsAll
    <2>4. next \in {"refresh", "apply"} /\ (next = "refresh" => RelaysInUse = {})
          /\ (next = "apply" => RelaysInUse # {})
        OBVIOUS
    <2> HIDE DEF next, todo
    <2>5. next = "apply" => todo # << >>
        BY <2>3, <2>4
    <2>6. PICK x : x = [proc[Timer] EXCEPT !.pc = next, !.todo = todo, !.desired = relayPublicationState]
        OBVIOUS
    <2>7. x.pc = next /\ x.todo = todo
        <3>1. ProcRecord(proc[Timer])
            BY <1>1, Mine
        <3> QED
            BY <2>6, <3>1 DEF ProcRecord
    <2>8. Place(Timer, x)
        BY <2>3, <2>4, <2>5, <2>7 DEF Place
    <2>9. Due(Timer, x)' = RelaysInUse
        BY <2>1, ViewKept DEF Due
    <2>10. Effect(Timer, x)'
        BY <2>3, <2>4, <2>7, <2>9 DEF Effect, RulesDone, FilesDone, Working, Listed
    <2> QED
        BY <1>1, <1>2, <2>1, <2>6, <2>8, <2>10, Own
<1> QED
    BY <1>3, <1>4, <1>5 DEF writeRelayPublication

\* Suspend, Resume and Reapply keep the effects: nobody is calm any more.
LEMMA MachineEffect ==
    ASSUME IInv, EffectsInv, NEW h \in Hosts, Suspend(h) \/ Resume(h) \/ Reapply(h)
    PROVE  EffectsInv'
<1>1. UNCHANGED <<port, links, groups>> /\ proc' = Disturbed(None)
    BY DEF Suspend, Resume, Reapply, registries
<1>2. relay' = [i \in Hosts |-> relay'[i]]
    <2>1. relay = [i \in Hosts |-> relay[i]]
        BY DEF EffectsInv, TypesInv
    <2>2. relay' = relay \/ \E new : relay' = [relay EXCEPT ![h] = new]
        BY DEF Suspend, Resume, Reapply
    <2> QED
        BY <2>1, <2>2
<1>3. TypesInv'
    BY <1>1, <1>2, TypesKept
<1>4. ASSUME NEW q \in Procs PROVE Place(q, proc'[q]) /\ Effect(q, proc[q])'
    <2>1. PICK y : y = [proc[q] EXCEPT !.calm = FALSE]
        OBVIOUS
    <2>2. proc'[q] = y
        BY <1>1, <2>1, ProcsAssumption DEF Disturbed
    <2>3. Place(q, y) /\ ~y.calm
        BY <2>1, Hushed
    <2> QED
        BY <2>2, <2>3 DEF Effect
<1> QED
    BY <1>3, <1>4 DEF EffectsInv, Place

\* NothingToPublish keeps the effects: the relays are as they were told.
LEMMA NothingEffect ==
    ASSUME IInv, EffectsInv, NEW p \in Procs, NothingToPublish(p)
    PROVE  EffectsInv'
<1>1. /\ UNCHANGED <<registries, quotas, relay>> /\ proc[p].pc = "refresh"
      /\ Upd(p, [proc[p] EXCEPT !.pc = "unread"])
    BY DEF NothingToPublish, At
<1>2. TypesInv'
    BY <1>1, TypesKept DEF registries, EffectsInv, TypesInv
<1>3. PICK x : Goes(p, "unread", x)
    BY <1>1, Gone
<1>4. Place(p, x)
    BY <1>1, <1>3 DEF Place, EffectsInv, Goes
<1>5. Effect(p, x)'
    <2>1. SUFFICES ASSUME x.calm, ~x.bad PROVE RulesDone(p, x)' /\ FilesDone(x)'
        BY DEF Effect
    <2>2. RulesDone(p, proc[p])
        BY <1>3, <2>1 DEF EffectsInv, Effect, Goes
    <2>3. x.pc = "unread" /\ x.change = proc[p].change
        BY <1>3 DEF Goes
    <2>4. RulesDone(p, x)'
        BY <1>1, <2>2, <2>3, RulesKept
    <2> QED
        BY <2>3, <2>4 DEF FilesDone, Working
<1> QED
    BY <1>2, <1>3, <1>4, <1>5, Own DEF Goes

\* ReturnUnpublished, RefreshFails and Crash keep the effects.
LEMMA EndEffect ==
    ASSUME IInv, EffectsInv, NEW p \in Procs, ReturnUnpublished(p) \/ RefreshFails(p) \/ Crash(p)
    PROVE  EffectsInv'
<1>1. UNCHANGED <<port, links, groups, relay>> /\ Done(p)
    BY DEF ReturnUnpublished, RefreshFails, Crash, registries
<1>2. TypesInv'
    BY <1>1, TypesKept DEF EffectsInv, TypesInv
<1> QED
    BY <1>1, <1>2, OwnDone

\* At first nobody owes anything.
LEMMA EffectsFirst ==
    ASSUME Init
    PROVE  EffectsInv
<1>1. Max(Ports) \in Ports
    BY PortsAssumption DEF Max
<1>2. TypesInv
    BY <1>1, SaltsAssumption DEF Init, TypesInv, Registered, seedGroupMembers
<1>3. \A p \in Procs : Place(p, proc[p]) /\ Effect(p, proc[p])
    <2>1. \A p \in Procs : proc[p] = Idle
        BY DEF Init
    <2> QED
        BY <2>1, IdlePlace DEF Effect
<1> QED
    BY <1>2, <1>3 DEF EffectsInv

\* Every step keeps the effects.
LEMMA EffectsStep ==
    ASSUME IInv, EffectsInv, [Next]_vars
    PROVE  EffectsInv'
<1>1. CASE Next
    <2>1. ASSUME NEW p \in Procs, Process(p) PROVE EffectsInv'
        BY <2>1, SetEffect, MembersEffect, DropNodeEffect, RegistryFailsEffect, ApplyEffect, RefreshEffect,
           WriteKeyEffect, WriteFilesEffect, SweepFilesEffect, SweepKeysEffect, NothingEffect, EndEffect
           DEF Process
    <2> QED
        BY <1>1, <2>1, OperatorEffect, TimerEffect, MachineEffect DEF Next
<1>2. CASE UNCHANGED vars
    <2>1. UNCHANGED <<registries, quotas, relay, files, proc>> /\ UNCHANGED <<port, links, groups>>
        BY <1>2 DEF vars, registries, published
    <2>2. TypesInv'
        BY <2>1, TypesKept DEF EffectsInv, TypesInv
    <2>3. ASSUME NEW p \in Procs PROVE Place(p, proc'[p]) /\ Effect(p, proc[p])'
        <3>1. Place(p, proc[p]) /\ Effect(p, proc[p])
            BY DEF EffectsInv
        <3>2. PICK x : x = proc[p]
            OBVIOUS
        <3>3. proc'[p] = x
            BY <2>1, <3>2
        <3>4. /\ Desired' = Desired /\ \A h : RelayConfigFor(h)' = RelayConfigFor(h)
              /\ Due(p, x)' = Due(p, proc[p])
            BY <2>1, <3>2, ViewKept, SameDue
        <3>5. Due(p, proc[p])' = Due(p, x)'
            BY <3>3 DEF Due
        <3> QED
            BY <2>1, <3>1, <3>4, <3>5 DEF Effect, RulesDone, FilesDone, Listed, Told, Written, Swept
    <2> QED
        BY <2>2, <2>3 DEF EffectsInv, Place
<1> QED
    BY <1>1, <1>2

(* In every reachable state an operation that nothing failed and nobody    *)
(* disturbed has told the relays and written the files it went past.       *)
THEOREM EffectsInvariance == Spec => []EffectsInv
<1>1. Init => EffectsInv
    BY EffectsFirst
<1>2. IInv /\ EffectsInv /\ [Next]_vars => EffectsInv'
    BY EffectsStep
<1> QED
    BY <1>1, <1>2, Invariance, PTL DEF Spec

-----------------------------------------------------------------------------
(* What an operation that ends without an error has done.                  *)

\* The step of a process leaves the others where they are.
LEMMA OthersStay ==
    ASSUME IInv, NEW q \in Procs, NEW p \in Procs \ {q}, \E r : Upd(q, r)
    PROVE  proc'[p].pc = proc[p].pc
<1> DEFINE D == Disturbed(q)
<1>1. D[p].pc = proc[p].pc /\ D = [x \in Procs |-> D[x]]
    BY Disturbing
<1>2. PICK r : proc' = [D EXCEPT ![q] = r]
    BY DEF Upd
<1> HIDE DEF D
<1> QED
    BY <1>1, <1>2

\* Every step of a process is an update of its own record.
LEMMA ProcessUpdates ==
    ASSUME NEW p, Process(p)
    PROVE  \E r : Upd(p, r)
<1>1. Done(p) => \E r : Upd(p, r)
    BY DEF Done, Upd
<1>2. \A failed \in BOOLEAN : NextRelay(p, failed) => \E r : Upd(p, r)
    BY <1>1 DEF NextRelay
<1>3. CASE Set(p) \/ AddMember(p) \/ DropMember(p) \/ DropNode(p)
    BY <1>1, <1>3 DEF Set, AddMember, DropMember, DropNode
<1>4. CASE RegistryFails(p)
    BY <1>1, <1>4 DEF RegistryFails
<1>5. CASE ApplyRelayFor(p) \/ ApplyFails(p)
    BY <1>2, <1>5 DEF ApplyRelayFor, ApplyFails, Installing, Clearing
<1>6. CASE RefreshSubscriptions(p)
    BY <1>6 DEF RefreshSubscriptions, Body, cacheNodeSubscription
<1>7. CASE writeAuthKeyCipherKey(p) \/ writeSubscriptionFiles(p) \/ removeStaleSubscriptionFiles(p)
    BY <1>7 DEF writeAuthKeyCipherKey, writeSubscriptionFiles, removeStaleSubscriptionFiles
<1>8. CASE removeStaleTokenFiles(p)
    BY <1>1, <1>8 DEF removeStaleTokenFiles, pruneSubscriptionCache, Refreshed
<1>9. CASE ReturnUnpublished(p) \/ RefreshFails(p) \/ Crash(p)
    BY <1>1, <1>9 DEF ReturnUnpublished, RefreshFails, Crash
<1>10. CASE NothingToPublish(p)
    BY <1>10 DEF NothingToPublish
<1> QED
    BY <1>3, <1>4, <1>5, <1>6, <1>7, <1>8, <1>9, <1>10 DEF Process

\* The bound on failures counts them.
LEMMA TroubleCounts ==
    ASSUME trouble \in Nat, [Next]_vars
    PROVE  trouble' \in Nat
<1>1. Trouble => trouble' \in Nat
    BY DEF Trouble
<1>2. ASSUME NEW p, NEW c, Operator(p, c) PROVE trouble' \in Nat
    BY <1>2 DEF Operator, planForwards, applyGroupChange, SetGroup, RemoveGroup, changePort, AddNode, RemoveNode
<1>3. ASSUME NEW p, Process(p) PROVE trouble' \in Nat
    <2>1. CASE Set(p) \/ AddMember(p) \/ DropMember(p) \/ DropNode(p) \/ RegistryFails(p)
        BY <1>1, <2>1 DEF Set, AddMember, DropMember, DropNode, RegistryFails
    <2>2. CASE ApplyRelayFor(p) \/ ApplyFails(p)
        BY <1>1, <2>2 DEF ApplyRelayFor, ApplyFails, Installing, Clearing
    <2>3. CASE RefreshSubscriptions(p)
        BY <1>1, <2>3 DEF RefreshSubscriptions, Body, cacheNodeSubscription
    <2>4. CASE writeAuthKeyCipherKey(p) \/ writeSubscriptionFiles(p) \/ removeStaleSubscriptionFiles(p)
               \/ removeStaleTokenFiles(p)
        BY <2>4 DEF writeAuthKeyCipherKey, writeSubscriptionFiles, removeStaleSubscriptionFiles,
                    removeStaleTokenFiles, pruneSubscriptionCache
    <2>5. CASE NothingToPublish(p) \/ ReturnUnpublished(p) \/ RefreshFails(p) \/ Crash(p)
        BY <1>1, <2>5 DEF NothingToPublish, ReturnUnpublished, RefreshFails, Crash
    <2> QED
        BY <1>3, <2>1, <2>2, <2>3, <2>4, <2>5 DEF Process
<1>4. CASE RefreshMonitor \/ ReconcileRelayPublication \/ writeRelayPublication
    BY <1>1, <1>4 DEF RefreshMonitor, ReconcileRelayPublication, writeRelayPublication
<1>5. ASSUME NEW h, Suspend(h) \/ Resume(h) \/ Reapply(h) PROVE trouble' \in Nat
    BY <1>1, <1>5 DEF Suspend, Resume, Reapply
<1>6. CASE UNCHANGED vars
    BY <1>6 DEF vars
<1> QED
    BY <1>2, <1>3, <1>4, <1>5, <1>6 DEF Next

(* A process ends from its last places without a failure only by           *)
(* finishing.                                                              *)
LEMMA Finishes ==
    ASSUME IInv, trouble \in Nat, [Next]_vars, NEW p \in Procs,
           proc[p].pc \in {"sweepkeys", "unread", "mark"}, proc'[p].pc = "menu", trouble' = trouble
    PROVE  removeStaleTokenFiles(p) \/ ReturnUnpublished(p) \/ writeRelayPublication
<1>0. ~Trouble
    BY DEF Trouble
<1>1. ASSUME NEW q \in Consoles, NEW c \in Changes, Operator(q, c) PROVE FALSE
    <2>1. proc[q].pc = "menu" /\ q \in Procs /\ \E r : Upd(q, r)
        BY <1>1 DEF Operator, planForwards, applyGroupChange, SetGroup, RemoveGroup, changePort, AddNode, RemoveNode, Start, At,
                    Begin, Procs
    <2> QED
        BY <2>1, OthersStay
<1>2. ASSUME NEW q \in Procs, Process(q) PROVE removeStaleTokenFiles(p) \/ ReturnUnpublished(p)
    <2>1. q = p
        BY <1>2, ProcessUpdates, OthersStay
    <2>2. ~RegistryFails(p) /\ ~ApplyFails(p) /\ ~RefreshFails(p) /\ ~Crash(p) /\ ~NothingToPublish(p)
        BY <1>0 DEF RegistryFails, ApplyFails, Installing, Clearing, RefreshFails, Crash, NothingToPublish
    <2>3. ~Set(p) /\ ~AddMember(p) /\ ~DropMember(p) /\ ~DropNode(p) /\ ~ApplyRelayFor(p)
        BY DEF Set, AddMember, DropMember, DropNode, ApplyRelayFor, At
    <2>4. /\ ~RefreshSubscriptions(p) /\ ~writeAuthKeyCipherKey(p) /\ ~writeSubscriptionFiles(p)
          /\ ~removeStaleSubscriptionFiles(p)
        BY DEF RefreshSubscriptions, Body, cacheNodeSubscription, writeAuthKeyCipherKey, writeSubscriptionFiles,
               removeStaleSubscriptionFiles, At
    <2> QED
        BY <1>2, <2>1, <2>2, <2>3, <2>4 DEF Process
<1>3. CASE RefreshMonitor \/ ReconcileRelayPublication
    <2>1. proc[Timer].pc \in {"menu", "compare"} /\ Timer \in Procs /\ \E r : Upd(Timer, r)
        BY <1>3 DEF RefreshMonitor, ReconcileRelayPublication, At, Procs, Begin, Done, Upd
    <2> QED
        BY <2>1, OthersStay
<1>4. ~\E h \in Hosts : Suspend(h) \/ Resume(h) \/ Reapply(h)
    BY <1>0 DEF Suspend, Resume, Reapply
<1>5. ~UNCHANGED vars
    BY DEF vars
<1> QED
    BY <1>1, <1>2, <1>3, <1>4, <1>5 DEF Next

\* What is published is what the registries describe once it is written and
\* the rest is swept.
LEMMA ServedIsDesired ==
    ASSUME IInv, EffectsInv, Written(DOMAIN Desired), Swept, files' = files
    PROVE  [s \in Served' |-> files'[s]] = Desired
<1>1. Served' = DOMAIN Desired
    BY DesiredProfiles DEF Served, Written, Swept
<1>2. \A s \in DOMAIN Desired : files'[s] = Desired[s]
    BY DEF Written
<1>3. [s \in Served' |-> files'[s]] = [s \in DOMAIN Desired |-> Desired[s]]
    BY <1>1, <1>2
<1> QED
    BY <1>3, DesiredProfiles

\* A relay that is told forwards to the landing nodes clients reach through it.
LEMMA ToldForwards ==
    ASSUME IInv, EffectsInv, NEW l \in Fronted, Told(links[l].relay)
    PROVE  <<l, links[l].rport, port[l]>> \in relay[links[l].relay].rules
<1>1. l \in Hosts /\ IsLanding(links, l) /\ Available(l) /\ port[l] # 0
    BY DEF Fronted
<1>2. l \in ServedBy(links, links[l].relay)
    BY <1>1 DEF ServedBy, IsLanding
<1> QED
    BY <1>1, <1>2 DEF Told, RelayConfigFor

\* The relay of a published link is due to the tick and to the link's change.
LEMMA FrontedDue ==
    ASSUME IInv, NEW p \in Procs, NEW l \in Fronted,
           p = Timer \/ (proc[p].change.kind = "link" /\ l = proc[p].change.landing)
    PROVE  links[l].relay \in Due(p, proc[p])
<1>1. l \in Hosts /\ links[l] # None /\ Available(links[l].relay)
    BY DEF Fronted, IsLanding
<1>2. links[l].relay \in Hosts /\ l \in ServedBy(links, links[l].relay)
    BY <1>1, Mine DEF ServedBy, IsLanding, LinksInv
<1>3. links[l].relay \in RelaysInUse
    BY <1>1, <1>2 DEF RelaysInUse, IsLanding
<1> QED
    BY <1>2, <1>3 DEF Due

(* An operation that ends without an error and undisturbed has taken       *)
(* effect (applyRelayChange, ReconcileRelayPublication): the relays of the *)
(* links it answers for forward to the ports their landing nodes have, and *)
(* unless the hub's own settings could not be read, every group's clients  *)
(* are served what the registries describe.                                *)
THEOREM SuccessServes == Spec => SuccessMeansServed
<1> DEFINE Ended(p) == /\ proc[p].pc \in {"sweepkeys", "unread", "mark"} /\ proc'[p].pc = "menu"
                       /\ proc[p].calm /\ ~proc[p].bad /\ trouble' = trouble
           Good(p) == /\ ~At(p, "unread") => [s \in Served' |-> files'[s]] = Desired
                      /\ (p = Timer \/ proc[p].change.kind = "link") =>
                           \A l \in Fronted : (p = Timer \/ l = proc[p].change.landing) =>
                             <<l, links[l].rport, port[l]>> \in relay[links[l].relay].rules
           Safe == IInv /\ EffectsInv /\ trouble \in Nat
<1>1. ASSUME Safe, [Next]_vars, NEW p \in Procs, Ended(p) PROVE Good(p)
    <2>1. files' = files
        <3>1. removeStaleTokenFiles(p) \/ ReturnUnpublished(p) \/ writeRelayPublication
            BY <1>1, Finishes
        <3> QED
            BY <3>1 DEF removeStaleTokenFiles, pruneSubscriptionCache, ReturnUnpublished, writeRelayPublication, published
    <2>2. RulesDone(p, proc[p]) /\ FilesDone(proc[p])
        BY <1>1 DEF EffectsInv, Effect
    <2>3. ~At(p, "unread") => Written(DOMAIN Desired) /\ Swept
        BY <1>1, <2>2 DEF FilesDone, At
    <2>4. \A h \in Due(p, proc[p]) : Told(h)
        BY <1>1, <2>2 DEF RulesDone, Working
    <2>5. ~At(p, "unread") => [s \in Served' |-> files'[s]] = Desired
        BY <1>1, <2>1, <2>3, ServedIsDesired
    <2>6. ASSUME NEW l \in Fronted, p = Timer \/ proc[p].change.kind = "link",
                 p = Timer \/ l = proc[p].change.landing
          PROVE  <<l, links[l].rport, port[l]>> \in relay[links[l].relay].rules
        <3>1. links[l].relay \in Due(p, proc[p])
            BY <1>1, <2>6, FrontedDue
        <3> QED
            BY <1>1, <2>4, <3>1, ToldForwards
    <2> QED
        BY <2>5, <2>6
<1>2. Safe /\ [Next]_vars =>
        [\A p \in Procs :
          (proc[p].pc \in {"sweepkeys", "unread", "mark"} /\ proc'[p].pc = "menu"
             /\ proc[p].calm /\ ~proc[p].bad /\ trouble' = trouble) =>
            /\ ~At(p, "unread") => [s \in Served' |-> files'[s]] = Desired
            /\ (p = Timer \/ proc[p].change.kind = "link") =>
                 \A l \in Fronted : (p = Timer \/ l = proc[p].change.landing) =>
                   <<l, links[l].rport, port[l]>> \in relay[links[l].relay].rules]_vars
    BY <1>1
<1>3. Spec => []Safe
    <2>1. Init => trouble \in Nat
        BY DEF Init
    <2>2. trouble \in Nat /\ [Next]_vars => (trouble \in Nat)'
        BY TroubleCounts
    <2> QED
        BY <2>1, <2>2, Invariance, EffectsInvariance, PTL DEF Spec
<1> HIDE DEF Safe
<1> QED
    BY <1>2, <1>3, PTL DEF Spec, SuccessMeansServed
=============================================================================
