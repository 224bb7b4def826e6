----------------------- MODULE FleetMembershipProofs -----------------------
(***************************************************************************)
(* The safety of adds, rollbacks and removals for every number of          *)
(* operators, machines, host names, nodes and failures.                    *)
(***************************************************************************)
EXTENDS FleetMembership, TLAPS, FiniteSetTheorems, WellFoundedInduction

(* What the locals of an operation hold at its steps.                      *)
StepInv ==
    \A o \in Operators :
        /\ pc[o] \in {"idle", "ovLoad", "ovWrite"} =>
              cur[o].host = NoId /\ cur[o].id = NoId /\ cur[o].key = NoId
        /\ pc[o] = "provision" => cur[o].key = NoId /\ cur[o].ip \in IPs
        /\ pc[o] \in (AddSteps \ {"provision"}) \cup RollbackSteps \cup DetachSteps =>
              cur[o].key \in Ids /\ cur[o].ip \in IPs
        /\ pc[o] \in {"provision", "register"} => ~cur[o].touched
        /\ pc[o] \in {"setpeer", "load", "write", "health", "install", "commit"} => cur[o].touched
        /\ pc[o] \in AddSteps => ~cur[o].failed

(* Every node ID and key belongs to one machine: the one its add was for.  *)
MachinesHome(home) ==
    \A s \in Servers :
        /\ machine[s].key # NoId => machine[s].key \in used /\ home[machine[s].key] = s
        /\ machine[s].agent # NoId => machine[s].agent \in used /\ home[machine[s].agent] = s
        /\ machine[s].owner # NoId => machine[s].owner \in used /\ home[machine[s].owner] = s
NodesHome(home) ==
    \A i \in Registered :
        /\ i \in used /\ home[i] = HostOf[reg[i].host]
        /\ reg[i].key \in used /\ home[reg[i].key] = HostOf[reg[i].host]
OperatorsHome(home) ==
    \A o \in Operators :
        /\ cur[o].id # NoId => cur[o].id \in used /\ home[cur[o].id] = Target(o)
        /\ cur[o].key # NoId => cur[o].key \in used /\ home[cur[o].key] = Target(o)
HomeOf(home) == MachinesHome(home) /\ NodesHome(home) /\ OperatorsHome(home)
HomeInv == \E home \in [used -> Servers] : HomeOf(home)

(* The steps at which an add has registered its node, and the operations   *)
(* that are adds.                                                          *)
Joining == {"setpeer", "load", "write", "health", "install", "commit"}
Adder(o) == pc[o] \in AddSteps \cup RollbackSteps

(* Another operation has worked on the node of this one.                   *)
Shared(o) == cur[o].id \in shared /\ cur[o].key \in shared

(* Two operations on one node have been noted, and are not two adds.       *)
Sole ==
    \A o \in Operators : \A q \in Operators \ {o} :
        cur[o].id # NoId /\ cur[q].id = cur[o].id => Shared(o) /\ ~(Adder(o) /\ Adder(q))

(* The registry entry of an operation is its own, and only another         *)
(* operation on the same node takes it away.                               *)
Known(o) ==
    /\ cur[o].id \in Registered
    /\ reg[cur[o].id].key = cur[o].key /\ reg[cur[o].id].host = cur[o].host

EntryAt(o) ==
    /\ pc[o] \in {"provision", "register"} =>
          cur[o].id \notin Registered /\ \A q \in Operators \ {o} : cur[q].id # cur[o].id
    /\ cur[o].id \in Registered => Known(o)
    /\ pc[o] \in {"rbLoad", "rbWrite", "rbCleanup"} => cur[o].id \notin Registered \/ cur[o].failed
    /\ pc[o] \in DetachSteps => cur[o].id \in leaving
    /\ ~Shared(o) /\ pc[o] \in Joining \cup DetachSteps => cur[o].id \in Registered
    /\ ~Shared(o) /\ pc[o] \in {"rbUninstall", "rbPeer", "rbRemove"} /\ cur[o].touched =>
          cur[o].id \in Registered

(* An add answers for a peer from its registration until its rollback has  *)
(* removed it, and to its end if a step of the rollback failed.            *)
Touches(o) ==
    \/ pc[o] \in Joining \cup {"rbUninstall", "rbPeer"} /\ cur[o].touched
    \/ pc[o] \in RollbackSteps /\ cur[o].failed
Owed == {cur[o].key : o \in {q \in Operators : Touches(q)}}

OtherKeys(i) == {reg[j].key : j \in Registered \ {i}}
BusyIds == {cur[o].id : o \in Operators}
AdderIds == {cur[o].id : o \in {q \in Operators : Adder(q)}}

(* The peer of a node is live when its add may commit.  An operation about *)
(* to drop an entry leaves a live peer only if somebody answers for it: if *)
(* told, or an add that will not commit under that entry.                  *)
LiveAt(o) ==
    pc[o] \in Joining \ {"setpeer"} /\ cur[o].key \notin shared => cur[o].key \in live
RollsBack(o) ==
    /\ pc[o] \in {"rbUninstall", "rbPeer", "rbRemove"}
    /\ ~cur[o].touched \/ pc[o] = "rbRemove"
    /\ ~cur[o].failed
PeerAt(o) ==
    RollsBack(o) /\ cur[o].id \in Registered /\ cur[o].key \in live => cur[o].key \in told \cup Owed
Answers(q, o) ==
    /\ Touches(q) /\ cur[q].key = cur[o].key
    /\ cur[q].id # cur[o].id \/ pc[q] \notin {"install", "commit"}
DropAt(o) ==
    pc[o] = "dtRemove" /\ cur[o].id \in Registered /\ cur[o].key \in live =>
        cur[o].key \in told \/ \E q \in Operators : Answers(q, o)

(* Whose every live peer is, and which peers must be live.                 *)
PeersKnown == live \subseteq RegKeys \cup told \cup Owed
PeersLive ==
    \A i \in Registered \ (leaving \cup told \cup BusyIds) :
        reg[i].installed /\ reg[i].key \notin shared => reg[i].key \in live

(* Whose every agent and every deployment is.                              *)
On(s, i) == machine[s].agent = i \/ (machine[s].owner = i /\ machine[s].runtime = "own")

AgentAt(o) ==
    /\ pc[o] = "provision" => \A s \in Servers : ~On(s, cur[o].id)
    /\ pc[o] \in DetachSteps \ {"uninstall"} =>
          \/ cur[o].id \in told /\ cur[o].key \in told
          \/ \A s \in Servers : ~On(s, cur[o].id)

AgentsKnown == \A s \in Servers, i \in Ids : On(s, i) => i \in Registered \cup told \cup AdderIds

(* What a single operator that meets no failure has written so far.        *)
ConfAt(o) ==
    /\ pc[o] \in {"write", "rbWrite", "ovWrite"} => cur[o].list = RegKeys
    /\ pc[o] = "dtWrite" => cur[o].list = OtherKeys(cur[o].id)
    /\ pc[o] \in {"dtPeer", "dtRemove"} => conf = OtherKeys(cur[o].id)
    /\ pc[o] \notin {"setpeer", "load", "write", "dtPeer", "dtRemove"} \cup
                    (RollbackSteps \ {"rbCleanup"}) => conf = RegKeys

ConfNow ==
    /\ \A o, q \in Active : o = q
    /\ \A o \in Active : ConfAt(o)
    /\ Active = {} => conf = RegKeys

ConfInv == faults = 0 /\ ~overlap => ConfNow

IInv == TypeOK /\ StepInv /\ RegistryUnique /\ HomeInv /\ ConfInv
OperatorInv ==
    \A o \in Operators : EntryAt(o) /\ LiveAt(o) /\ PeerAt(o) /\ DropAt(o) /\ AgentAt(o)
CInv == Sole /\ OperatorInv /\ PeersKnown /\ PeersLive /\ AgentsKnown

-----------------------------------------------------------------------------
(* The names of the steps.                                                 *)
LEMMA StepNames ==
    /\ AddSteps = {"provision", "register", "setpeer", "load", "write", "health", "install", "commit"}
    /\ RollbackSteps = {"rbUninstall", "rbPeer", "rbRemove", "rbLoad", "rbWrite", "rbCleanup"}
    /\ DetachSteps = {"uninstall", "dtLoad", "dtWrite", "dtPeer", "dtRemove"}
    /\ Steps = {"idle", "ovLoad", "ovWrite"} \cup AddSteps \cup RollbackSteps \cup DetachSteps
    BY DEF AddSteps, RollbackSteps, DetachSteps, Steps

(* AllocateSpokeIP has a lowest address to give when one is free.          *)
LEMMA LowestIP ==
    ASSUME FreeIPs # {}
    PROVE  Min(FreeIPs) \in IPs
<1>1. FreeIPs \subseteq Nat /\ FreeIPs \subseteq IPs
    BY OverlayAddresses DEF FreeIPs
<1>2. PICK x \in FreeIPs : \A y \in FreeIPs : <<y, x>> \notin OpToRel(<, Nat)
    BY <1>1, NatLessThanWellFounded, WFMin
<1>3. \A y \in FreeIPs : ~(y < x)
    BY <1>1, <1>2, Zenon DEF OpToRel
<1>4. \A y \in FreeIPs : x <= y
    BY <1>1, <1>3
<1> QED
    BY <1>1, <1>4 DEF Min

(* The locals of an operator, field by field.                              *)
LEMMA LocalFacts ==
    ASSUME TypeOK, NEW o \in Operators
    PROVE  /\ cur[o] \in Local /\ pc[o] \in Steps
           /\ cur[o].id \in Ids \cup {NoId} /\ cur[o].key \in Ids \cup {NoId}
           /\ cur[o].host \in Hosts \cup {NoId} /\ cur[o].ip \in IPs \cup {0}
           /\ cur[o].touched \in BOOLEAN /\ cur[o].attempted \in BOOLEAN
           /\ cur[o].failed \in BOOLEAN /\ cur[o].list \subseteq Ids
           /\ cur[o].host \in Hosts => Target(o) \in Servers
    BY HostsNameServers DEF TypeOK, Local, Target

\* What an operator between two operations holds: nothing.
LEMMA IdleFacts ==
    /\ Idle \in Local
    /\ Idle.id = NoId /\ Idle.host = NoId /\ Idle.key = NoId /\ Idle.list = {}
    /\ Idle.touched = FALSE /\ Idle.failed = FALSE /\ Idle.attempted = FALSE
    BY DEF Idle, Local

(* A registered node has an entry with a key, an address and a host.       *)
LEMMA EntryFacts ==
    ASSUME TypeOK, NEW i \in Registered
    PROVE  /\ i \in Ids /\ reg[i] \in Entry
           /\ reg[i].host \in Hosts /\ reg[i].key \in Ids /\ reg[i].ip \in IPs
           /\ HostOf[reg[i].host] \in Servers
    BY HostsNameServers DEF TypeOK, Registered, Entry

\* Registered keys and names are IDs.
LEMMA KeyFacts ==
    ASSUME TypeOK
    PROVE  RegKeys \subseteq Ids /\ Registered \subseteq Ids
    BY EntryFacts DEF RegKeys, Registered

(* What the steps on a machine leave is a machine; an install that fails   *)
(* may leave the owner record alone, a rollback takes the deployment away. *)
Owned(m, i) == [m EXCEPT !.owner = i]
Stripped(m) == [m EXCEPT !.runtime = "none"]

\* Each change of a machine leaves a well typed machine.
LEMMA MachineTypes ==
    ASSUME NEW m \in Machine, NEW i \in Ids
    PROVE  /\ Provisioned(m, i) \in Machine /\ Provisioned(m, i).key \in Ids
           /\ CleanedUp(m) \in Machine /\ AgentInstalled(m, i) \in Machine
           /\ Clean \in Machine
           /\ Owned(m, i) \in Machine /\ Stripped(m) \in Machine
    BY DEF Machine, Provisioned, CleanedUp, AgentInstalled, Clean, Owned, Stripped


\* The types and the step invariant hold initially.
LEMMA InitTypeOK == Init => TypeOK /\ StepInv
<1> SUFFICES ASSUME Init PROVE TypeOK /\ StepInv
    OBVIOUS
<1>1. machine \in [Servers -> Machine]
    BY DEF Init, Machine, Clean
<1>2. pc \in [Operators -> Steps] /\ cur \in [Operators -> Local]
      /\ \A o \in Operators : pc[o] = "idle" /\ cur[o] = Idle
    BY IdleFacts, StepNames DEF Init
<1>3. reg \in [Ids -> Entry \cup {Absent}] /\ 0 \in 0..MaxFaults
    BY MembershipBounds DEF Init
<1>4. TypeOK
    BY <1>1, <1>2, <1>3, StepNames DEF Init, TypeOK
<1>5. StepInv
    BY <1>2, IdleFacts, StepNames DEF StepInv
<1> QED
    BY <1>4, <1>5

(* The keys of nodes and operations are named after generated IDs.         *)
LEMMA KeysUsed ==
    ASSUME TypeOK, HomeInv
    PROVE  /\ \A o \in Operators : cur[o].key # NoId => cur[o].key \in used
           /\ \A o \in Operators : cur[o].id # NoId => cur[o].id \in used
           /\ \A i \in Registered : i \in used /\ reg[i].key \in used
    BY DEF HomeInv, HomeOf, MachinesHome, NodesHome, OperatorsHome

(* A process that is at a node has one.                                    *)
LEMMA OpFacts ==
    ASSUME TypeOK, StepInv, NEW o \in Operators
    PROVE  /\ pc[o] \notin {"idle", "ovLoad", "ovWrite"} =>
                 cur[o].id \in used /\ cur[o].id \in Ids /\ cur[o].host \in Hosts
                 /\ Target(o) \in Servers /\ machine[Target(o)] \in Machine
           /\ pc[o] \notin {"idle", "ovLoad", "ovWrite", "provision"} => cur[o].key \in Ids /\ cur[o].ip \in IPs
<1>1. pc[o] \in Steps
    BY DEF TypeOK
<1>2. pc[o] \notin {"idle", "ovLoad", "ovWrite"} => cur[o].id \in used /\ cur[o].host \in Hosts
    BY <1>1, StepNames DEF TypeOK
<1>3. pc[o] \notin {"idle", "ovLoad", "ovWrite", "provision"} => cur[o].key \in Ids /\ cur[o].ip \in IPs
    BY <1>1, StepNames DEF StepInv
<1> QED
    BY <1>2, <1>3, HostsNameServers DEF TypeOK, Target

(* The entry AddNode registers is an entry.                                *)
NewEntry(o) == [host |-> cur[o].host, ip |-> cur[o].ip, key |-> cur[o].key, installed |-> FALSE]

\* The entry that Add registers is well typed.
LEMMA NewEntryType ==
    ASSUME TypeOK, StepInv, NEW o \in Operators, pc[o] = "register"
    PROVE  NewEntry(o) \in Entry
    BY OpFacts DEF Entry, NewEntry

\* The entry that Add registers holds what the operator provisioned.
LEMMA NewEntryFields ==
    ASSUME NEW o \in Operators
    PROVE  /\ NewEntry(o).host = cur[o].host /\ NewEntry(o).ip = cur[o].ip
           /\ NewEntry(o).key = cur[o].key /\ NewEntry(o).installed = FALSE
    BY DEF NewEntry

(* What an update of one local leaves of the others.                       *)
Same(c, o) ==
    /\ c \in [Operators -> Local]
    /\ c[o].id = cur[o].id /\ c[o].host = cur[o].host /\ c[o].ip = cur[o].ip
    /\ \A q \in Operators \ {o} : c[q] = cur[q]

\* What the updates of an operator's own record change, field by field.
LEMMA LocalUpdates ==
    ASSUME TypeOK, NEW o \in Operators
    PROVE  /\ \A v \in Ids \cup {NoId} :
                 LET c == [cur EXCEPT ![o].key = v]
                 IN Same(c, o) /\ c[o].key = v /\ c[o].touched = cur[o].touched
                    /\ c[o].failed = cur[o].failed
           /\ LET c == [cur EXCEPT ![o].touched = TRUE]
              IN Same(c, o) /\ c[o].key = cur[o].key /\ c[o].touched = TRUE
                 /\ c[o].failed = cur[o].failed
           /\ LET c == [cur EXCEPT ![o].attempted = TRUE]
              IN Same(c, o) /\ c[o].key = cur[o].key /\ c[o].touched = cur[o].touched
                 /\ c[o].failed = cur[o].failed
           /\ LET c == [cur EXCEPT ![o].failed = TRUE]
              IN Same(c, o) /\ c[o].key = cur[o].key /\ c[o].touched = cur[o].touched
                 /\ c[o].failed = TRUE
           /\ \A v \in SUBSET Ids :
                 LET c == [cur EXCEPT ![o].list = v]
                 IN Same(c, o) /\ c[o].key = cur[o].key /\ c[o].touched = cur[o].touched
                    /\ c[o].failed = cur[o].failed /\ c[o].list = v
           /\ [cur EXCEPT ![o] = Idle] \in [Operators -> Local]
<1> DEFINE upd(l) == [cur EXCEPT ![o] = l]
<1>1. cur[o] \in Local /\ cur \in [Operators -> Local]
    BY DEF TypeOK
<1>2. \A l \in Local : l.id = cur[o].id /\ l.host = cur[o].host /\ l.ip = cur[o].ip =>
          Same(upd(l), o) /\ upd(l)[o] = l
    BY <1>1 DEF Same
<1>3. ASSUME NEW v \in Ids \cup {NoId}
      PROVE  LET c == [cur EXCEPT ![o].key = v]
             IN Same(c, o) /\ c[o].key = v /\ c[o].touched = cur[o].touched
                /\ c[o].failed = cur[o].failed
    <2> DEFINE l == [cur[o] EXCEPT !.key = v]
    <2>1. l \in Local /\ l.id = cur[o].id /\ l.host = cur[o].host /\ l.ip = cur[o].ip
          /\ l.key = v /\ l.touched = cur[o].touched /\ l.failed = cur[o].failed
        BY <1>1 DEF Local
    <2> QED
        BY <1>2, <2>1
<1>4. LET c == [cur EXCEPT ![o].touched = TRUE]
      IN Same(c, o) /\ c[o].key = cur[o].key /\ c[o].touched = TRUE /\ c[o].failed = cur[o].failed
    <2> DEFINE l == [cur[o] EXCEPT !.touched = TRUE]
    <2>1. l \in Local /\ l.id = cur[o].id /\ l.host = cur[o].host /\ l.ip = cur[o].ip
          /\ l.key = cur[o].key /\ l.touched = TRUE /\ l.failed = cur[o].failed
        BY <1>1 DEF Local
    <2> QED
        BY <1>2, <2>1
<1>5. LET c == [cur EXCEPT ![o].attempted = TRUE]
      IN Same(c, o) /\ c[o].key = cur[o].key /\ c[o].touched = cur[o].touched
         /\ c[o].failed = cur[o].failed
    <2> DEFINE l == [cur[o] EXCEPT !.attempted = TRUE]
    <2>1. l \in Local /\ l.id = cur[o].id /\ l.host = cur[o].host /\ l.ip = cur[o].ip
          /\ l.key = cur[o].key /\ l.touched = cur[o].touched /\ l.failed = cur[o].failed
        BY <1>1 DEF Local
    <2> QED
        BY <1>2, <2>1
<1>6. LET c == [cur EXCEPT ![o].failed = TRUE]
      IN Same(c, o) /\ c[o].key = cur[o].key /\ c[o].touched = cur[o].touched /\ c[o].failed = TRUE
    <2> DEFINE l == [cur[o] EXCEPT !.failed = TRUE]
    <2>1. l \in Local /\ l.id = cur[o].id /\ l.host = cur[o].host /\ l.ip = cur[o].ip
          /\ l.key = cur[o].key /\ l.touched = cur[o].touched /\ l.failed = TRUE
        BY <1>1 DEF Local
    <2> QED
        BY <1>2, <2>1
<1>7. ASSUME NEW v \in SUBSET Ids
      PROVE  LET c == [cur EXCEPT ![o].list = v]
             IN Same(c, o) /\ c[o].key = cur[o].key /\ c[o].touched = cur[o].touched
                /\ c[o].failed = cur[o].failed /\ c[o].list = v
    <2> DEFINE l == [cur[o] EXCEPT !.list = v]
    <2>1. l \in Local /\ l.id = cur[o].id /\ l.host = cur[o].host /\ l.ip = cur[o].ip
          /\ l.key = cur[o].key /\ l.touched = cur[o].touched /\ l.failed = cur[o].failed
          /\ l.list = v
        BY <1>1 DEF Local
    <2> QED
        BY <1>2, <2>1
<1> QED
    BY <1>1, <1>3, <1>4, <1>5, <1>6, <1>7, IdleFacts


-----------------------------------------------------------------------------
(* What every step does, branch by branch.                                 *)
Moved(o) == pc' \in [Operators -> Steps] /\ \A q \in Operators \ {o} : pc'[q] = pc[q]
Kept(o) ==
    /\ Same(cur', o) /\ cur'[o].key = cur[o].key
    /\ cur'[o].touched = cur[o].touched /\ cur'[o].failed = cur[o].failed
Ended(o) ==
    /\ Moved(o) /\ pc'[o] = "idle"
    /\ cur' \in [Operators -> Local] /\ cur'[o] = Idle
    /\ \A q \in Operators \ {o} : cur'[q] = cur[q]
Begun(o, i, h, k) ==
    /\ cur' \in [Operators -> Local]
    /\ cur'[o].id = i /\ cur'[o].host = h /\ cur'[o].key = k /\ cur'[o].ip \in IPs
    /\ cur'[o].touched = FALSE /\ cur'[o].failed = FALSE
    /\ \A q \in Operators \ {o} : cur'[q] = cur[q]

\* Go moves one operator and no other.
LEMMA Going ==
    ASSUME TypeOK, NEW o \in Operators, NEW step \in Steps, Go(o, step)
    PROVE  Moved(o) /\ pc'[o] = step
    BY DEF TypeOK, Go, Moved

\* End leaves one operator idle and moves no other.
LEMMA Ending ==
    ASSUME TypeOK, NEW o \in Operators, End(o)
    PROVE  Ended(o)
<1>1. Moved(o) /\ pc'[o] = "idle"
    BY StepNames DEF TypeOK, Go, Moved, End
<1> QED
    BY <1>1, IdleFacts DEF TypeOK, End, Ended

\* An operator whose record is unchanged keeps it.
LEMMA Keeping ==
    ASSUME TypeOK, NEW o \in Operators, cur' = cur
    PROVE  Kept(o)
    BY DEF TypeOK, Kept, Same

\* A rollback starts with the uninstall or with the peer.
LEMMA RollingBackGoes ==
    ASSUME TypeOK, NEW o \in Operators, Rollback(o)
    PROVE  Moved(o) /\ pc'[o] \in {"rbUninstall", "rbPeer"}
    BY StepNames DEF TypeOK, Go, Moved, Rollback

Rebuilt(o, m) ==
    /\ machine' \in [Servers -> Machine]
    /\ machine'[Target(o)] = m
    /\ \A s \in Servers \ {Target(o)} : machine'[s] = machine[s]
Entered(o, e) ==
    /\ reg' \in [Ids -> Entry \cup {Absent}]
    /\ reg'[cur[o].id] = e
    /\ \A j \in Ids \ {cur[o].id} : reg'[j] = reg[j]

\* A step on an operator's machine changes no other machine.
LEMMA Rebuilding ==
    ASSUME TypeOK, StepInv, NEW o \in Operators, pc[o] \notin {"idle", "ovLoad", "ovWrite"},
           NEW m \in Machine, machine' = [machine EXCEPT ![Target(o)] = m]
    PROVE  Rebuilt(o, m)
    BY OpFacts DEF TypeOK, Rebuilt

\* A transaction on an operator's node changes no other entry.
LEMMA Entering ==
    ASSUME TypeOK, StepInv, NEW o \in Operators, pc[o] \notin {"idle", "ovLoad", "ovWrite"},
           NEW e \in Entry \cup {Absent}, reg' = [reg EXCEPT ![cur[o].id] = e]
    PROVE  Entered(o, e)
    BY OpFacts DEF TypeOK, Entered

(* What a change of one entry does to the registry.                        *)
LEMMA Dropping ==
    ASSUME TypeOK, NEW o \in Operators, cur[o].id \in Ids, Entered(o, Absent)
    PROVE  Registered' = Registered \ {cur[o].id} /\ \A i \in Registered' : reg'[i] = reg[i]
    BY DEF Entered, Registered

\* Which nodes are registered after an entry was written.
LEMMA Recording ==
    ASSUME TypeOK, NEW o \in Operators, cur[o].id \in Ids, NEW e \in Entry, Entered(o, e)
    PROVE  /\ Registered' = Registered \cup {cur[o].id} /\ reg'[cur[o].id] = e
           /\ \A i \in Registered \ {cur[o].id} : reg'[i] = reg[i]
<1>1. e # Absent
    BY NoIdIsNoNode DEF Entry, Absent
<1> QED
    BY <1>1 DEF Entered, Registered

\* Marking a node installed changes no key, host or address.
LEMMA Installing ==
    ASSUME TypeOK, NEW o \in Operators, cur[o].id \in Registered,
           Entered(o, [reg[cur[o].id] EXCEPT !.installed = TRUE])
    PROVE  /\ Registered' = Registered
           /\ \A i \in Registered \ {cur[o].id} : reg'[i] = reg[i]
           /\ \A i \in Registered : /\ reg'[i].key = reg[i].key /\ reg'[i].host = reg[i].host
                                    /\ reg'[i].ip = reg[i].ip
<1> DEFINE e == [reg[cur[o].id] EXCEPT !.installed = TRUE]
<1>1. reg[cur[o].id] \in Entry /\ cur[o].id \in Ids
    BY EntryFacts
<1>2. /\ e \in Entry /\ e.key = reg[cur[o].id].key /\ e.host = reg[cur[o].id].host
      /\ e.ip = reg[cur[o].id].ip
    BY <1>1 DEF Entry
<1> HIDE DEF e
<1>3. Registered' = Registered \cup {cur[o].id} /\ reg'[cur[o].id] = e
      /\ \A i \in Registered \ {cur[o].id} : reg'[i] = reg[i]
    BY <1>1, <1>2, Recording DEF e
<1> QED
    BY <1>2, <1>3

\* Every ID an operator works with has been used.
LEMMA NamesUsed ==
    ASSUME TypeOK, HomeInv, NEW o \in Operators
    PROVE  Names(o) \subseteq used
    BY KeysUsed DEF Names

\* A failure is counted, within the bound.
LEMMA Failing ==
    ASSUME TypeOK, Fault
    PROVE  faults' \in 0..MaxFaults /\ faults' # 0
    BY MembershipBounds DEF TypeOK, Fault

\* The keys of all nodes but one, as the registry lists them.
LEMMA OtherKeysType ==
    ASSUME TypeOK, NEW i
    PROVE  OtherKeys(i) \in SUBSET Ids /\ OtherKeys(i) = {reg[j].key : j \in Registered \ {i}}
    BY EntryFacts DEF OtherKeys

\* What AddNode changes and leaves alone.
LEMMA DoesAddNode ==
    ASSUME TypeOK, StepInv, NEW o \in Operators, NEW i \in Ids, NEW h \in Hosts, AddNode(o, i, h)
    PROVE  /\ i \notin used
           /\ pc[o] = "idle"
           /\ pc'[o] = "provision" /\ Moved(o)
           /\ Begun(o, i, h, NoId)
           /\ used' = used \cup {i}
           /\ overlap' = (overlap \/ Active # {})
           /\ UNCHANGED <<reg, live, conf, machine, told, leaving, shared, faults>>
<1>1. pc'[o] = "provision" /\ Moved(o)
    BY Going, StepNames DEF AddNode, Begin
<1>2. [Idle EXCEPT !.id = i, !.host = h, !.ip = Min(FreeIPs)] \in Local
    BY LowestIP, IdleFacts DEF Local, Idle, AddNode, Begin
<1>3. cur' = [cur EXCEPT ![o] = [Idle EXCEPT !.id = i, !.host = h, !.ip = Min(FreeIPs)]]
    BY DEF AddNode, Begin
<1>4. Begun(o, i, h, NoId)
    BY <1>3, <1>2, LowestIP DEF Begun, Idle, TypeOK, AddNode
<1> QED
    BY <1>1, <1>2, <1>3, <1>4 DEF AddNode, Begin, Go

\* What Provision changes and leaves alone.
LEMMA DoesProvision ==
    ASSUME TypeOK, StepInv, NEW o \in Operators, Provision(o)
    PROVE  /\ pc[o] = "provision"
           /\ pc'[o] = "register" /\ Moved(o)
           /\ Same(cur', o) /\ cur'[o].touched = cur[o].touched /\ cur'[o].failed = cur[o].failed
           /\ cur'[o].key = Provisioned(machine[Target(o)], cur[o].id).key
           /\ Rebuilt(o, Provisioned(machine[Target(o)], cur[o].id))
           /\ UNCHANGED <<reg, used, live, conf, told, leaving, shared, overlap, faults>>
<1>1. pc'[o] = "register" /\ Moved(o)
    BY Going, StepNames DEF Provision
<1>2. Provisioned(machine[Target(o)], cur[o].id).key \in Ids \cup {NoId}
    BY MachineTypes, OpFacts DEF Provision
<1>3. machine'[Target(o)] = Provisioned(machine[Target(o)], cur[o].id)
    BY OpFacts DEF Provision, TypeOK
<1>4. cur' = [cur EXCEPT ![o].key = Provisioned(machine[Target(o)], cur[o].id).key]
    BY <1>3 DEF Provision, Go
<1>5. Same(cur', o) /\ cur'[o].touched = cur[o].touched /\ cur'[o].failed = cur[o].failed
      /\ cur'[o].key = Provisioned(machine[Target(o)], cur[o].id).key
    BY <1>4, LocalUpdates, <1>2 DEF Kept
<1>6. Provisioned(machine[Target(o)], cur[o].id) \in Machine
    BY OpFacts, MachineTypes DEF Provision
<1>7. ASSUME machine' = [machine EXCEPT ![Target(o)] = Provisioned(machine[Target(o)], cur[o].id)]
      PROVE  Rebuilt(o, Provisioned(machine[Target(o)], cur[o].id))
    BY <1>6, <1>7, Rebuilding, StepNames DEF Provision
<1> QED
    BY <1>1, <1>2, <1>3, <1>4, <1>5, <1>6, <1>7 DEF Provision, Go

\* What ProvisionFails changes and leaves alone.
LEMMA DoesProvisionFails ==
    ASSUME TypeOK, StepInv, NEW o \in Operators, ProvisionFails(o)
    PROVE  /\ pc[o] = "provision"
           /\ Ended(o)
           /\ faults' \in 0..MaxFaults /\ faults' # 0
           /\ \/ machine' = machine /\ told' = told
              \/ Rebuilt(o, CleanedUp(machine[Target(o)])) /\ told' = told
              \/ /\ Rebuilt(o, Provisioned(machine[Target(o)], cur[o].id))
                 /\ told' = told \cup {cur[o].id}
           /\ UNCHANGED <<reg, used, live, conf, leaving, shared, overlap>>
<1>1. Ended(o)
    BY Ending DEF ProvisionFails
<1>2. CleanedUp(machine[Target(o)]) \in Machine
    BY OpFacts, MachineTypes DEF ProvisionFails
<1>3. ASSUME machine' = [machine EXCEPT ![Target(o)] = CleanedUp(machine[Target(o)])]
      PROVE  Rebuilt(o, CleanedUp(machine[Target(o)]))
    BY <1>2, <1>3, Rebuilding, StepNames DEF ProvisionFails
<1>4. Provisioned(machine[Target(o)], cur[o].id) \in Machine
    BY OpFacts, MachineTypes DEF ProvisionFails
<1>5. ASSUME machine' = [machine EXCEPT ![Target(o)] = Provisioned(machine[Target(o)], cur[o].id)]
      PROVE  Rebuilt(o, Provisioned(machine[Target(o)], cur[o].id))
    BY <1>4, <1>5, Rebuilding, StepNames DEF ProvisionFails
<1>6. faults' \in 0..MaxFaults /\ faults' # 0
    BY Failing DEF ProvisionFails
<1> QED
    BY <1>1, <1>2, <1>3, <1>4, <1>5, <1>6 DEF ProvisionFails, End, Go

\* What Add changes and leaves alone, when ValidateNew(NewEntry(o)).
LEMMA DoesAddA ==
    ASSUME TypeOK, StepInv, NEW o \in Operators, Add(o),
           ValidateNew(NewEntry(o))
    PROVE  /\ pc[o] = "register"
           /\ pc'[o] = "setpeer" /\ Moved(o)
           /\ Same(cur', o) /\ cur'[o].key = cur[o].key /\ cur'[o].touched = TRUE /\ cur'[o].failed = cur[o].failed
           /\ Entered(o, NewEntry(o))
           /\ UNCHANGED <<used, live, conf, machine, told, leaving, shared, overlap, faults>>
<1>1. pc'[o] = "setpeer" /\ Moved(o)
    BY Going, StepNames DEF Add, NewEntry
<1>2. cur' = [cur EXCEPT ![o].touched = TRUE]
    BY DEF Add, Rollback, Go, NewEntry
<1>3. Same(cur', o) /\ cur'[o].key = cur[o].key /\ cur'[o].touched = TRUE /\ cur'[o].failed = cur[o].failed
    BY <1>2, LocalUpdates DEF Kept
<1>4. NewEntry(o) \in Entry \cup {Absent}
    BY OpFacts, NewEntryType DEF Add
<1>5. ASSUME reg' = [reg EXCEPT ![cur[o].id] = NewEntry(o)]
      PROVE  Entered(o, NewEntry(o))
    BY <1>4, <1>5, Entering, StepNames DEF Add, NewEntry
<1> QED
    BY <1>1, <1>2, <1>3, <1>4, <1>5 DEF Add, Rollback, Go, NewEntry

\* What Add changes and leaves alone, when ~ValidateNew(NewEntry(o)).
LEMMA DoesAddB ==
    ASSUME TypeOK, StepInv, NEW o \in Operators, Add(o),
           ~ValidateNew(NewEntry(o))
    PROVE  /\ pc[o] = "register"
           /\ pc'[o] \in {"rbUninstall", "rbPeer"} /\ Moved(o)
           /\ Kept(o)
           /\ UNCHANGED <<reg, used, live, conf, machine, told, leaving, shared, overlap, faults>>
<1>1. pc'[o] \in {"rbUninstall", "rbPeer"} /\ Moved(o)
    BY RollingBackGoes DEF Add, NewEntry
<1>2. cur' = cur
    BY DEF Add, Rollback, Go, NewEntry
<1>3. Kept(o)
    BY <1>2, Keeping
<1> QED
    BY <1>1, <1>2, <1>3 DEF Add, Rollback, Go, NewEntry

\* What SetPeer changes and leaves alone.
LEMMA DoesSetPeer ==
    ASSUME TypeOK, StepInv, NEW o \in Operators, SetPeer(o)
    PROVE  /\ pc[o] = "setpeer"
           /\ pc'[o] = "load" /\ Moved(o)
           /\ Kept(o)
           /\ live' = live \cup {cur[o].key}
           /\ UNCHANGED <<reg, used, conf, machine, told, leaving, shared, overlap, faults>>
<1>1. pc'[o] = "load" /\ Moved(o)
    BY Going, StepNames DEF SetPeer
<1>2. cur' = cur
    BY DEF SetPeer, Go
<1>3. Kept(o)
    BY <1>2, Keeping
<1> QED
    BY <1>1, <1>2, <1>3 DEF SetPeer, Go

\* What JoinLoad changes and leaves alone.
LEMMA DoesJoinLoad ==
    ASSUME TypeOK, StepInv, NEW o \in Operators, JoinLoad(o)
    PROVE  /\ pc[o] = "load"
           /\ pc'[o] = "write" /\ Moved(o)
           /\ Kept(o)
           /\ cur'[o].list = RegKeys
           /\ UNCHANGED <<reg, used, live, conf, machine, told, leaving, shared, overlap, faults>>
<1>1. pc'[o] = "write" /\ Moved(o)
    BY Going, StepNames DEF JoinLoad, LoadPeers
<1>2. cur' = [cur EXCEPT ![o].list = RegKeys]
    BY DEF JoinLoad, LoadPeers, Go
<1>3. RegKeys \in SUBSET Ids
    BY KeyFacts
<1>4. Kept(o) /\ cur'[o].list = RegKeys
    BY <1>2, <1>3, LocalUpdates DEF Kept
<1> QED
    BY <1>1, <1>2, <1>3, <1>4 DEF JoinLoad, LoadPeers, Go

\* What JoinWrite changes and leaves alone.
LEMMA DoesJoinWrite ==
    ASSUME TypeOK, StepInv, NEW o \in Operators, JoinWrite(o)
    PROVE  /\ pc[o] = "write"
           /\ pc'[o] = "health" /\ Moved(o)
           /\ Kept(o)
           /\ conf' = cur[o].list
           /\ UNCHANGED <<reg, used, live, machine, told, leaving, shared, overlap, faults>>
<1>1. pc'[o] = "health" /\ Moved(o)
    BY Going, StepNames DEF JoinWrite, writeHubConfig
<1>2. cur' = [cur EXCEPT ![o].list = {}]
    BY DEF JoinWrite, writeHubConfig, Go
<1>3. Kept(o)
    BY <1>2, LocalUpdates, {} \in SUBSET Ids DEF Kept
<1> QED
    BY <1>1, <1>2, <1>3 DEF JoinWrite, writeHubConfig, Go

\* What waitHealthy changes and leaves alone.
LEMMA DoesWaitHealthy ==
    ASSUME TypeOK, StepInv, NEW o \in Operators, waitHealthy(o)
    PROVE  /\ pc[o] = "health"
           /\ pc'[o] \in {"install", "rbUninstall", "rbPeer"} /\ Moved(o)
           /\ pc'[o] = "install" => Reachable(o)
           /\ Kept(o)
           /\ UNCHANGED <<reg, used, live, conf, machine, told, leaving, shared, overlap, faults>>
<1>1. pc'[o] \in {"install", "rbUninstall", "rbPeer"} /\ Moved(o)
    BY RollingBackGoes, Going, StepNames DEF waitHealthy
<1>2. cur' = cur
    BY DEF waitHealthy, Rollback, Go
<1>3. Kept(o)
    BY <1>2, Keeping
<1>4. pc'[o] = "install" => Reachable(o)
    BY RollingBackGoes DEF waitHealthy
<1> QED
    BY <1>1, <1>2, <1>3, <1>4 DEF waitHealthy, Rollback, Go

\* What installNode changes and leaves alone, when Reachable(o) /\
\* machine[Target(o)].runtime = "none".
LEMMA DoesInstallNodeA ==
    ASSUME TypeOK, StepInv, NEW o \in Operators, installNode(o),
           Reachable(o) /\ machine[Target(o)].runtime = "none"
    PROVE  /\ pc[o] = "install"
           /\ pc'[o] = "commit" /\ Moved(o)
           /\ Kept(o)
           /\ Rebuilt(o, AgentInstalled(machine[Target(o)], cur[o].id))
           /\ UNCHANGED <<reg, used, live, conf, told, leaving, shared, overlap, faults>>
<1>1. pc'[o] = "commit" /\ Moved(o)
    BY Going, StepNames DEF installNode
<1>2. cur' = [cur EXCEPT ![o].attempted = TRUE]
    BY DEF installNode, Rollback, Go
<1>3. Kept(o)
    BY <1>2, LocalUpdates DEF Kept
<1>4. AgentInstalled(machine[Target(o)], cur[o].id) \in Machine
    BY OpFacts, MachineTypes DEF installNode
<1>5. ASSUME machine' = [machine EXCEPT ![Target(o)] = AgentInstalled(machine[Target(o)], cur[o].id)]
      PROVE  Rebuilt(o, AgentInstalled(machine[Target(o)], cur[o].id))
    BY <1>4, <1>5, Rebuilding, StepNames DEF installNode
<1> QED
    BY <1>1, <1>2, <1>3, <1>4, <1>5 DEF installNode, Rollback, Go

\* What installNode changes and leaves alone, when ~(Reachable(o) /\
\* machine[Target(o)].runtime = "none").
LEMMA DoesInstallNodeB ==
    ASSUME TypeOK, StepInv, NEW o \in Operators, installNode(o),
           ~(Reachable(o) /\ machine[Target(o)].runtime = "none")
    PROVE  /\ pc[o] = "install"
           /\ pc'[o] \in {"rbUninstall", "rbPeer"} /\ Moved(o)
           /\ Kept(o)
           /\ UNCHANGED <<reg, used, live, conf, machine, told, leaving, shared, overlap, faults>>
<1>1. pc'[o] \in {"rbUninstall", "rbPeer"} /\ Moved(o)
    BY RollingBackGoes DEF installNode
<1>2. cur' = [cur EXCEPT ![o].attempted = TRUE]
    BY DEF installNode, Rollback, Go
<1>3. Kept(o)
    BY <1>2, LocalUpdates DEF Kept
<1> QED
    BY <1>1, <1>2, <1>3 DEF installNode, Rollback, Go

\* What installNodeFails changes and leaves alone.
LEMMA DoesInstallNodeFails ==
    ASSUME TypeOK, StepInv, NEW o \in Operators, installNodeFails(o)
    PROVE  /\ pc[o] = "install"
           /\ pc'[o] \in {"rbUninstall", "rbPeer"} /\ Moved(o)
           /\ Kept(o)
           /\ faults' \in 0..MaxFaults /\ faults' # 0
           /\ \/ machine' = machine
              \/ /\ Reachable(o) /\ machine[Target(o)].runtime = "none"
                 /\ Rebuilt(o, AgentInstalled(machine[Target(o)], cur[o].id))
              \/ /\ Reachable(o) /\ machine[Target(o)].runtime = "none"
                 /\ Rebuilt(o, Owned(machine[Target(o)], cur[o].id))
           /\ UNCHANGED <<reg, used, live, conf, told, leaving, shared, overlap>>
<1>1. pc'[o] \in {"rbUninstall", "rbPeer"} /\ Moved(o)
    BY RollingBackGoes DEF installNodeFails, Owned
<1>2. cur' = [cur EXCEPT ![o].attempted = TRUE]
    BY DEF installNodeFails, Rollback, Go, Fault, Owned
<1>3. Kept(o)
    BY <1>2, LocalUpdates DEF Kept
<1>4. AgentInstalled(machine[Target(o)], cur[o].id) \in Machine
    BY OpFacts, MachineTypes DEF installNodeFails
<1>5. ASSUME machine' = [machine EXCEPT ![Target(o)] = AgentInstalled(machine[Target(o)], cur[o].id)]
      PROVE  Rebuilt(o, AgentInstalled(machine[Target(o)], cur[o].id))
    BY <1>4, <1>5, Rebuilding, StepNames DEF installNodeFails
<1>6. Owned(machine[Target(o)], cur[o].id) \in Machine
    BY OpFacts, MachineTypes DEF installNodeFails
<1>7. ASSUME machine' = [machine EXCEPT ![Target(o)] = Owned(machine[Target(o)], cur[o].id)]
      PROVE  Rebuilt(o, Owned(machine[Target(o)], cur[o].id))
    BY <1>6, <1>7, Rebuilding, StepNames DEF installNodeFails, Owned
<1>8. faults' \in 0..MaxFaults /\ faults' # 0
    BY Failing DEF installNodeFails, Owned
<1> QED
    BY <1>1, <1>2, <1>3, <1>4, <1>5, <1>6, <1>7, <1>8 DEF installNodeFails, Rollback, Go, Owned

\* What Commit changes and leaves alone, when cur[o].id \in Registered.
LEMMA DoesCommitA ==
    ASSUME TypeOK, StepInv, NEW o \in Operators, Commit(o),
           cur[o].id \in Registered
    PROVE  /\ pc[o] = "commit"
           /\ Ended(o)
           /\ Entered(o, [reg[cur[o].id] EXCEPT !.installed = TRUE])
           /\ UNCHANGED <<used, live, conf, machine, told, leaving, shared, overlap, faults>>
<1>1. Ended(o)
    BY Ending DEF Commit
<1>2. [reg[cur[o].id] EXCEPT !.installed = TRUE] \in Entry \cup {Absent}
    BY OpFacts, EntryFacts DEF Commit, Entry
<1>3. ASSUME reg' = [reg EXCEPT ![cur[o].id] = [reg[cur[o].id] EXCEPT !.installed = TRUE]]
      PROVE  Entered(o, [reg[cur[o].id] EXCEPT !.installed = TRUE])
    BY <1>2, <1>3, Entering, StepNames DEF Commit
<1> QED
    BY <1>1, <1>2, <1>3 DEF Commit, Rollback, End, Go

\* What Commit changes and leaves alone, when cur[o].id \notin Registered.
LEMMA DoesCommitB ==
    ASSUME TypeOK, StepInv, NEW o \in Operators, Commit(o),
           cur[o].id \notin Registered
    PROVE  /\ pc[o] = "commit"
           /\ pc'[o] \in {"rbUninstall", "rbPeer"} /\ Moved(o)
           /\ Kept(o)
           /\ UNCHANGED <<reg, used, live, conf, machine, told, leaving, shared, overlap, faults>>
<1>1. pc'[o] \in {"rbUninstall", "rbPeer"} /\ Moved(o)
    BY RollingBackGoes DEF Commit
<1>2. cur' = cur
    BY DEF Commit, Rollback, End, Go
<1>3. Kept(o)
    BY <1>2, Keeping
<1> QED
    BY <1>1, <1>2, <1>3 DEF Commit, Rollback, End, Go

\* What AddStepFails changes and leaves alone.
LEMMA DoesAddStepFails ==
    ASSUME TypeOK, StepInv, NEW o \in Operators, AddStepFails(o)
    PROVE  /\ pc[o] \in {"register", "setpeer", "load", "write", "health", "commit"}
           /\ pc'[o] \in {"rbUninstall", "rbPeer"} /\ Moved(o)
           /\ Kept(o)
           /\ faults' \in 0..MaxFaults /\ faults' # 0
           /\ UNCHANGED <<reg, used, live, conf, machine, told, leaving, shared, overlap>>
<1>1. pc'[o] \in {"rbUninstall", "rbPeer"} /\ Moved(o)
    BY RollingBackGoes DEF AddStepFails
<1>2. cur' = cur
    BY DEF AddStepFails, Rollback, Go, Fault
<1>3. Kept(o)
    BY <1>2, Keeping
<1>4. faults' \in 0..MaxFaults /\ faults' # 0
    BY Failing DEF AddStepFails
<1> QED
    BY <1>1, <1>2, <1>3, <1>4 DEF AddStepFails, Rollback, Go

\* What AddErrorAfterCommit changes and leaves alone, when pc[o] = "register".
LEMMA DoesAddErrorAfterCommitA ==
    ASSUME TypeOK, StepInv, NEW o \in Operators, AddErrorAfterCommit(o),
           pc[o] = "register"
    PROVE  /\ pc[o] = "register"
           /\ pc'[o] \in {"rbUninstall", "rbPeer"} /\ Moved(o)
           /\ Kept(o)
           /\ faults' \in 0..MaxFaults /\ faults' # 0
           /\ ValidateNew(NewEntry(o))
           /\ Entered(o, NewEntry(o))
           /\ UNCHANGED <<used, live, conf, machine, told, leaving, shared, overlap>>
<1>1. pc'[o] \in {"rbUninstall", "rbPeer"} /\ Moved(o)
    BY RollingBackGoes DEF AddErrorAfterCommit, NewEntry
<1>2. cur' = cur
    BY DEF AddErrorAfterCommit, Rollback, Go, Fault, NewEntry
<1>3. Kept(o)
    BY <1>2, Keeping
<1>4. NewEntry(o) \in Entry \cup {Absent}
    BY OpFacts, NewEntryType DEF AddErrorAfterCommit
<1>5. ASSUME reg' = [reg EXCEPT ![cur[o].id] = NewEntry(o)]
      PROVE  Entered(o, NewEntry(o))
    BY <1>4, <1>5, Entering, StepNames DEF AddErrorAfterCommit, NewEntry
<1>6. faults' \in 0..MaxFaults /\ faults' # 0
    BY Failing DEF AddErrorAfterCommit, NewEntry
<1> QED
    BY <1>1, <1>2, <1>3, <1>4, <1>5, <1>6 DEF AddErrorAfterCommit, Rollback, Go, NewEntry

\* What AddErrorAfterCommit changes and leaves alone, when pc[o] = "commit".
LEMMA DoesAddErrorAfterCommitB ==
    ASSUME TypeOK, StepInv, NEW o \in Operators, AddErrorAfterCommit(o),
           pc[o] = "commit"
    PROVE  /\ pc[o] = "commit"
           /\ pc'[o] \in {"rbUninstall", "rbPeer"} /\ Moved(o)
           /\ Kept(o)
           /\ faults' \in 0..MaxFaults /\ faults' # 0
           /\ cur[o].id \in Registered
           /\ Entered(o, [reg[cur[o].id] EXCEPT !.installed = TRUE])
           /\ UNCHANGED <<used, live, conf, machine, told, leaving, shared, overlap>>
<1>1. pc'[o] \in {"rbUninstall", "rbPeer"} /\ Moved(o)
    BY RollingBackGoes DEF AddErrorAfterCommit
<1>2. cur' = cur
    BY DEF AddErrorAfterCommit, Rollback, Go, Fault
<1>3. Kept(o)
    BY <1>2, Keeping
<1>4. [reg[cur[o].id] EXCEPT !.installed = TRUE] \in Entry \cup {Absent}
    BY OpFacts, EntryFacts DEF AddErrorAfterCommit, Entry
<1>5. ASSUME reg' = [reg EXCEPT ![cur[o].id] = [reg[cur[o].id] EXCEPT !.installed = TRUE]]
      PROVE  Entered(o, [reg[cur[o].id] EXCEPT !.installed = TRUE])
    BY <1>4, <1>5, Entering, StepNames DEF AddErrorAfterCommit
<1>6. faults' \in 0..MaxFaults /\ faults' # 0
    BY Failing DEF AddErrorAfterCommit
<1> QED
    BY <1>1, <1>2, <1>3, <1>4, <1>5, <1>6 DEF AddErrorAfterCommit, Rollback, Go

\* What RollbackUninstall changes and leaves alone, when Reachable(o) /\
\* machine[Target(o)].owner = cur[o].id.
LEMMA DoesRollbackUninstallA ==
    ASSUME TypeOK, StepInv, NEW o \in Operators, RollbackUninstall(o),
           Reachable(o) /\ machine[Target(o)].owner = cur[o].id
    PROVE  /\ pc[o] = "rbUninstall"
           /\ pc'[o] = "rbPeer" /\ Moved(o)
           /\ Kept(o)
           /\ Rebuilt(o, Stripped(machine[Target(o)]))
           /\ UNCHANGED <<reg, used, live, conf, told, leaving, shared, overlap, faults>>
<1>1. pc'[o] = "rbPeer" /\ Moved(o)
    BY Going, StepNames DEF RollbackUninstall, Stripped
<1>2. cur' = cur
    BY DEF RollbackUninstall, Go, Stripped
<1>3. Kept(o)
    BY <1>2, Keeping
<1>4. Stripped(machine[Target(o)]) \in Machine
    BY OpFacts, MachineTypes, StepNames DEF RollbackUninstall
<1>5. ASSUME machine' = [machine EXCEPT ![Target(o)] = Stripped(machine[Target(o)])]
      PROVE  Rebuilt(o, Stripped(machine[Target(o)]))
    BY <1>4, <1>5, Rebuilding, StepNames DEF RollbackUninstall, Stripped
<1> QED
    BY <1>1, <1>2, <1>3, <1>4, <1>5 DEF RollbackUninstall, Go, Stripped

\* What RollbackUninstall changes and leaves alone, when ~(Reachable(o) /\
\* machine[Target(o)].owner = cur[o].id).
LEMMA DoesRollbackUninstallB ==
    ASSUME TypeOK, StepInv, NEW o \in Operators, RollbackUninstall(o),
           ~(Reachable(o) /\ machine[Target(o)].owner = cur[o].id)
    PROVE  /\ pc[o] = "rbUninstall"
           /\ pc'[o] = "rbPeer" /\ Moved(o)
           /\ Same(cur', o) /\ cur'[o].key = cur[o].key /\ cur'[o].touched = cur[o].touched /\ cur'[o].failed = TRUE
           /\ UNCHANGED <<reg, used, live, conf, machine, told, leaving, shared, overlap, faults>>
<1>1. pc'[o] = "rbPeer" /\ Moved(o)
    BY Going, StepNames DEF RollbackUninstall, Stripped
<1>2. cur' = [cur EXCEPT ![o].failed = TRUE]
    BY DEF RollbackUninstall, Go, Stripped
<1>3. Same(cur', o) /\ cur'[o].key = cur[o].key /\ cur'[o].touched = cur[o].touched /\ cur'[o].failed = TRUE
    BY <1>2, LocalUpdates DEF Kept
<1> QED
    BY <1>1, <1>2, <1>3 DEF RollbackUninstall, Go, Stripped

\* What RollbackPeer changes and leaves alone.
LEMMA DoesRollbackPeer ==
    ASSUME TypeOK, StepInv, NEW o \in Operators, RollbackPeer(o)
    PROVE  /\ pc[o] = "rbPeer"
           /\ pc'[o] = "rbRemove" /\ Moved(o)
           /\ Kept(o)
           /\ live' = IF cur[o].touched THEN live \ {cur[o].key} ELSE live
           /\ UNCHANGED <<reg, used, conf, machine, told, leaving, shared, overlap, faults>>
<1>1. pc'[o] = "rbRemove" /\ Moved(o)
    BY Going, StepNames DEF RollbackPeer
<1>2. cur' = cur
    BY DEF RollbackPeer, Go
<1>3. Kept(o)
    BY <1>2, Keeping
<1> QED
    BY <1>1, <1>2, <1>3 DEF RollbackPeer, Go

\* What RollbackRemove changes and leaves alone.
LEMMA DoesRollbackRemove ==
    ASSUME TypeOK, StepInv, NEW o \in Operators, RollbackRemove(o)
    PROVE  /\ pc[o] = "rbRemove"
           /\ pc'[o] = "rbLoad" /\ Moved(o)
           /\ Kept(o)
           /\ Entered(o, Absent)
           /\ UNCHANGED <<used, live, conf, machine, told, leaving, shared, overlap, faults>>
<1>1. pc'[o] = "rbLoad" /\ Moved(o)
    BY Going, StepNames DEF RollbackRemove
<1>2. cur' = cur
    BY DEF RollbackRemove, Go
<1>3. Kept(o)
    BY <1>2, Keeping
<1>4. Absent \in Entry \cup {Absent}
    BY OpFacts DEF RollbackRemove
<1>5. ASSUME reg' = [reg EXCEPT ![cur[o].id] = Absent]
      PROVE  Entered(o, Absent)
    BY <1>4, <1>5, Entering, StepNames DEF RollbackRemove
<1> QED
    BY <1>1, <1>2, <1>3, <1>4, <1>5 DEF RollbackRemove, Go

\* What RollbackLoad changes and leaves alone.
LEMMA DoesRollbackLoad ==
    ASSUME TypeOK, StepInv, NEW o \in Operators, RollbackLoad(o)
    PROVE  /\ pc[o] = "rbLoad"
           /\ pc'[o] = "rbWrite" /\ Moved(o)
           /\ Kept(o)
           /\ cur'[o].list = RegKeys
           /\ UNCHANGED <<reg, used, live, conf, machine, told, leaving, shared, overlap, faults>>
<1>1. pc'[o] = "rbWrite" /\ Moved(o)
    BY Going, StepNames DEF RollbackLoad, LoadPeers
<1>2. cur' = [cur EXCEPT ![o].list = RegKeys]
    BY DEF RollbackLoad, LoadPeers, Go
<1>3. RegKeys \in SUBSET Ids
    BY KeyFacts
<1>4. Kept(o) /\ cur'[o].list = RegKeys
    BY <1>2, <1>3, LocalUpdates DEF Kept
<1> QED
    BY <1>1, <1>2, <1>3, <1>4 DEF RollbackLoad, LoadPeers, Go

\* What RollbackWrite changes and leaves alone.
LEMMA DoesRollbackWrite ==
    ASSUME TypeOK, StepInv, NEW o \in Operators, RollbackWrite(o)
    PROVE  /\ pc[o] = "rbWrite"
           /\ pc'[o] = "rbCleanup" /\ Moved(o)
           /\ Kept(o)
           /\ conf' = cur[o].list
           /\ UNCHANGED <<reg, used, live, machine, told, leaving, shared, overlap, faults>>
<1>1. pc'[o] = "rbCleanup" /\ Moved(o)
    BY Going, StepNames DEF RollbackWrite, writeHubConfig
<1>2. cur' = [cur EXCEPT ![o].list = {}]
    BY DEF RollbackWrite, writeHubConfig, Go
<1>3. Kept(o)
    BY <1>2, LocalUpdates, {} \in SUBSET Ids DEF Kept
<1> QED
    BY <1>1, <1>2, <1>3 DEF RollbackWrite, writeHubConfig, Go

\* What RollbackCleanup changes and leaves alone.
LEMMA DoesRollbackCleanup ==
    ASSUME TypeOK, StepInv, NEW o \in Operators, RollbackCleanup(o)
    PROVE  /\ pc[o] = "rbCleanup"
           /\ Ended(o)
           /\ Rebuilt(o, CleanedUp(machine[Target(o)]))
           /\ told' = IF cur[o].failed THEN told \cup Names(o) ELSE told
           /\ UNCHANGED <<reg, used, live, conf, leaving, shared, overlap, faults>>
<1>1. Ended(o)
    BY Ending DEF RollbackCleanup
<1>2. CleanedUp(machine[Target(o)]) \in Machine
    BY OpFacts, MachineTypes DEF RollbackCleanup
<1>3. ASSUME machine' = [machine EXCEPT ![Target(o)] = CleanedUp(machine[Target(o)])]
      PROVE  Rebuilt(o, CleanedUp(machine[Target(o)]))
    BY <1>2, <1>3, Rebuilding, StepNames DEF RollbackCleanup
<1> QED
    BY <1>1, <1>2, <1>3 DEF RollbackCleanup, End, Go, Report

\* What RollbackStepFails changes and leaves alone, when pc[o] = "rbCleanup".
LEMMA DoesRollbackStepFailsA ==
    ASSUME TypeOK, StepInv, NEW o \in Operators, RollbackStepFails(o),
           pc[o] = "rbCleanup"
    PROVE  /\ Ended(o)
           /\ faults' \in 0..MaxFaults /\ faults' # 0
           /\ told' = told \cup Names(o)
           /\ UNCHANGED <<reg, used, live, conf, machine, leaving, shared, overlap>>
<1>1. Ended(o)
    BY Ending DEF RollbackStepFails
<1>2. faults' \in 0..MaxFaults /\ faults' # 0
    BY Failing DEF RollbackStepFails
<1> QED
    BY <1>1, <1>2, StepNames DEF RollbackStepFails, End, Go

\* What RollbackStepFails changes and leaves alone, when pc[o] # "rbCleanup".
LEMMA DoesRollbackStepFailsB ==
    ASSUME TypeOK, StepInv, NEW o \in Operators, RollbackStepFails(o),
           pc[o] # "rbCleanup"
    PROVE  /\ Same(cur', o) /\ cur'[o].key = cur[o].key /\ cur'[o].touched = cur[o].touched /\ cur'[o].failed = TRUE
           /\ Moved(o)
           /\ faults' \in 0..MaxFaults /\ faults' # 0
           /\ \/ pc[o] = "rbUninstall" /\ pc'[o] = "rbPeer" /\ reg' = reg
              \/ pc[o] = "rbPeer" /\ pc'[o] = "rbRemove" /\ reg' = reg
              \/ pc[o] = "rbRemove" /\ pc'[o] = "rbLoad" /\ (reg' = reg \/ Entered(o, Absent))
              \/ pc[o] \in {"rbLoad", "rbWrite"} /\ pc'[o] = "rbCleanup" /\ reg' = reg
           /\ UNCHANGED <<used, live, conf, machine, told, leaving, shared, overlap>>
<1>1. Moved(o)
    BY StepNames DEF TypeOK, Moved, RollbackStepFails, End, Go, Fault
<1>2. cur' = [cur EXCEPT ![o].failed = TRUE]
    BY DEF RollbackStepFails, End, Go, Fault
<1>3. Same(cur', o) /\ cur'[o].key = cur[o].key /\ cur'[o].touched = cur[o].touched /\ cur'[o].failed = TRUE
    BY <1>2, LocalUpdates DEF Kept
<1>4. ASSUME pc[o] = "rbUninstall" PROVE pc'[o] = "rbPeer"
    BY <1>4 DEF RollbackStepFails, Go, TypeOK
<1>5. ASSUME pc[o] = "rbPeer" PROVE pc'[o] = "rbRemove"
    BY <1>5 DEF RollbackStepFails, Go, TypeOK
<1>6. ASSUME pc[o] = "rbRemove" PROVE pc'[o] = "rbLoad"
    BY <1>6 DEF RollbackStepFails, Go, TypeOK
<1>7. ASSUME pc[o] = "rbLoad" PROVE pc'[o] = "rbCleanup"
    BY <1>7 DEF RollbackStepFails, Go, TypeOK
<1>8. ASSUME pc[o] = "rbWrite" PROVE pc'[o] = "rbCleanup"
    BY <1>8 DEF RollbackStepFails, Go, TypeOK
<1>9. pc[o] \in {"rbUninstall", "rbPeer", "rbRemove", "rbLoad", "rbWrite"}
    BY StepNames DEF RollbackStepFails
<1>10. Absent \in Entry \cup {Absent}
    BY OpFacts DEF RollbackStepFails
<1>11. ASSUME reg' = [reg EXCEPT ![cur[o].id] = Absent]
      PROVE  Entered(o, Absent)
    BY <1>10, <1>11, Entering, StepNames DEF RollbackStepFails
<1>12. faults' \in 0..MaxFaults /\ faults' # 0
    BY Failing DEF RollbackStepFails
<1> QED
    BY <1>1, <1>2, <1>3, <1>4, <1>5, <1>6, <1>7, <1>8, <1>9, <1>10, <1>11, <1>12, StepNames
    DEF RollbackStepFails, End, Go

\* What RemoveNode changes and leaves alone.
LEMMA DoesRemoveNode ==
    ASSUME TypeOK, StepInv, NEW o \in Operators, NEW i \in Ids, RemoveNode(o, i)
    PROVE  /\ i \in Registered
           /\ pc[o] = "idle"
           /\ pc'[o] = "uninstall" /\ Moved(o)
           /\ Begun(o, i, reg[i].host, reg[i].key)
           /\ leaving' = leaving \cup {i}
           /\ shared' = (IF \E p \in Active : cur[p].id = i THEN shared \cup {i, reg[i].key} ELSE shared)
           /\ told' = told
           /\ overlap' = (overlap \/ Active # {})
           /\ UNCHANGED <<reg, used, live, conf, machine, faults>>
<1>1. pc'[o] = "uninstall" /\ Moved(o)
    BY Going, StepNames DEF RemoveNode, Leave, Begin
<1>2. [Idle EXCEPT !.id = i, !.host = reg[i].host, !.ip = reg[i].ip, !.key = reg[i].key] \in Local
    BY EntryFacts, IdleFacts DEF Local, Idle, RemoveNode, Leave, Begin
<1>3. cur' = [cur EXCEPT ![o] = [Idle EXCEPT !.id = i, !.host = reg[i].host, !.ip = reg[i].ip, !.key = reg[i].key]]
    BY DEF RemoveNode, Leave, Begin
<1>4. Begun(o, i, reg[i].host, reg[i].key)
    BY <1>3, <1>2, EntryFacts DEF Begun, Idle, TypeOK, RemoveNode, ForceDetachNode, Leave
<1> QED
    BY <1>1, <1>2, <1>3, <1>4 DEF RemoveNode, Leave, Begin, Go

\* What ForceDetachNode changes and leaves alone.
LEMMA DoesForceDetachNode ==
    ASSUME TypeOK, StepInv, NEW o \in Operators, NEW i \in Ids, ForceDetachNode(o, i)
    PROVE  /\ i \in Registered
           /\ pc[o] = "idle"
           /\ pc'[o] = "dtLoad" /\ Moved(o)
           /\ Begun(o, i, reg[i].host, reg[i].key)
           /\ leaving' = leaving \cup {i}
           /\ shared' = (IF \E p \in Active : cur[p].id = i THEN shared \cup {i, reg[i].key} ELSE shared)
           /\ told' = told \cup {i, reg[i].key}
           /\ overlap' = (overlap \/ Active # {})
           /\ UNCHANGED <<reg, used, live, conf, machine, faults>>
<1>1. pc'[o] = "dtLoad" /\ Moved(o)
    BY Going, StepNames DEF ForceDetachNode, Leave, Begin
<1>2. [Idle EXCEPT !.id = i, !.host = reg[i].host, !.ip = reg[i].ip, !.key = reg[i].key] \in Local
    BY EntryFacts, IdleFacts DEF Local, Idle, ForceDetachNode, Leave, Begin
<1>3. cur' = [cur EXCEPT ![o] = [Idle EXCEPT !.id = i, !.host = reg[i].host, !.ip = reg[i].ip, !.key = reg[i].key]]
    BY DEF ForceDetachNode, Leave, Begin
<1>4. Begun(o, i, reg[i].host, reg[i].key)
    BY <1>3, <1>2, EntryFacts DEF Begun, Idle, TypeOK, RemoveNode, ForceDetachNode, Leave
<1> QED
    BY <1>1, <1>2, <1>3, <1>4 DEF ForceDetachNode, Leave, Begin, Go

\* What Uninstall changes and leaves alone, when Reachable(o).
LEMMA DoesUninstallA ==
    ASSUME TypeOK, StepInv, NEW o \in Operators, Uninstall(o),
           Reachable(o)
    PROVE  /\ pc[o] = "uninstall"
           /\ pc'[o] = "dtLoad" /\ Moved(o)
           /\ Kept(o)
           /\ Rebuilt(o, Clean)
           /\ UNCHANGED <<reg, used, live, conf, told, leaving, shared, overlap, faults>>
<1>1. pc'[o] = "dtLoad" /\ Moved(o)
    BY Going, StepNames DEF Uninstall
<1>2. cur' = cur
    BY DEF Uninstall, End, Go
<1>3. Kept(o)
    BY <1>2, Keeping
<1>4. Clean \in Machine
    BY OpFacts, MachineTypes DEF Uninstall
<1>5. ASSUME machine' = [machine EXCEPT ![Target(o)] = Clean]
      PROVE  Rebuilt(o, Clean)
    BY <1>4, <1>5, Rebuilding, StepNames DEF Uninstall
<1> QED
    BY <1>1, <1>2, <1>3, <1>4, <1>5 DEF Uninstall, End, Go

\* What Uninstall changes and leaves alone, when ~Reachable(o).
LEMMA DoesUninstallB ==
    ASSUME TypeOK, StepInv, NEW o \in Operators, Uninstall(o),
           ~Reachable(o)
    PROVE  /\ pc[o] = "uninstall"
           /\ Ended(o)
           /\ UNCHANGED <<reg, used, live, conf, machine, told, leaving, shared, overlap, faults>>
<1>1. Ended(o)
    BY Ending DEF Uninstall
<1> QED
    BY <1>1 DEF Uninstall, End, Go

\* What UninstallFails changes and leaves alone.
LEMMA DoesUninstallFails ==
    ASSUME TypeOK, StepInv, NEW o \in Operators, UninstallFails(o)
    PROVE  /\ pc[o] = "uninstall"
           /\ Ended(o)
           /\ faults' \in 0..MaxFaults /\ faults' # 0
           /\ machine' = machine \/ Rebuilt(o, Clean)
           /\ UNCHANGED <<reg, used, live, conf, told, leaving, shared, overlap>>
<1>1. Ended(o)
    BY Ending DEF UninstallFails
<1>2. Clean \in Machine
    BY OpFacts, MachineTypes DEF UninstallFails
<1>3. ASSUME machine' = [machine EXCEPT ![Target(o)] = Clean]
      PROVE  Rebuilt(o, Clean)
    BY <1>2, <1>3, Rebuilding, StepNames DEF UninstallFails
<1>4. faults' \in 0..MaxFaults /\ faults' # 0
    BY Failing DEF UninstallFails
<1> QED
    BY <1>1, <1>2, <1>3, <1>4 DEF UninstallFails, End, Go

\* What DetachLoad changes and leaves alone, when cur[o].id \in Registered.
LEMMA DoesDetachLoadA ==
    ASSUME TypeOK, StepInv, NEW o \in Operators, DetachLoad(o),
           cur[o].id \in Registered
    PROVE  /\ pc[o] = "dtLoad"
           /\ pc'[o] = "dtWrite" /\ Moved(o)
           /\ Kept(o)
           /\ cur'[o].list = OtherKeys(cur[o].id)
           /\ UNCHANGED <<reg, used, live, conf, machine, told, leaving, shared, overlap, faults>>
<1>1. pc'[o] = "dtWrite" /\ Moved(o)
    BY Going, StepNames DEF DetachLoad, LoadPeers
<1>2. cur' = [cur EXCEPT ![o].list = OtherKeys(cur[o].id)]
    BY OtherKeysType DEF DetachLoad, LoadPeers, End, Go
<1>3. OtherKeys(cur[o].id) \in SUBSET Ids
    BY KeyFacts, OtherKeysType
<1>4. Kept(o) /\ cur'[o].list = OtherKeys(cur[o].id)
    BY <1>2, <1>3, LocalUpdates DEF Kept
<1> QED
    BY <1>1, <1>2, <1>3, <1>4 DEF DetachLoad, LoadPeers, End, Go

\* What DetachLoad changes and leaves alone, when cur[o].id \notin Registered.
LEMMA DoesDetachLoadB ==
    ASSUME TypeOK, StepInv, NEW o \in Operators, DetachLoad(o),
           cur[o].id \notin Registered
    PROVE  /\ pc[o] = "dtLoad"
           /\ Ended(o)
           /\ UNCHANGED <<reg, used, live, conf, machine, told, leaving, shared, overlap, faults>>
<1>1. Ended(o)
    BY Ending DEF DetachLoad, LoadPeers
<1> QED
    BY <1>1 DEF DetachLoad, LoadPeers, End, Go

\* What DetachWrite changes and leaves alone.
LEMMA DoesDetachWrite ==
    ASSUME TypeOK, StepInv, NEW o \in Operators, DetachWrite(o)
    PROVE  /\ pc[o] = "dtWrite"
           /\ pc'[o] = "dtPeer" /\ Moved(o)
           /\ Kept(o)
           /\ conf' = cur[o].list
           /\ UNCHANGED <<reg, used, live, machine, told, leaving, shared, overlap, faults>>
<1>1. pc'[o] = "dtPeer" /\ Moved(o)
    BY Going, StepNames DEF DetachWrite, writeHubConfig
<1>2. cur' = [cur EXCEPT ![o].list = {}]
    BY DEF DetachWrite, writeHubConfig, Go
<1>3. Kept(o)
    BY <1>2, LocalUpdates, {} \in SUBSET Ids DEF Kept
<1> QED
    BY <1>1, <1>2, <1>3 DEF DetachWrite, writeHubConfig, Go

\* What DetachPeer changes and leaves alone.
LEMMA DoesDetachPeer ==
    ASSUME TypeOK, StepInv, NEW o \in Operators, DetachPeer(o)
    PROVE  /\ pc[o] = "dtPeer"
           /\ pc'[o] = "dtRemove" /\ Moved(o)
           /\ Kept(o)
           /\ live' = live \ {cur[o].key}
           /\ UNCHANGED <<reg, used, conf, machine, told, leaving, shared, overlap, faults>>
<1>1. pc'[o] = "dtRemove" /\ Moved(o)
    BY Going, StepNames DEF DetachPeer
<1>2. cur' = cur
    BY DEF DetachPeer, Go
<1>3. Kept(o)
    BY <1>2, Keeping
<1> QED
    BY <1>1, <1>2, <1>3 DEF DetachPeer, Go

\* What DetachRemove changes and leaves alone.
LEMMA DoesDetachRemove ==
    ASSUME TypeOK, StepInv, NEW o \in Operators, DetachRemove(o)
    PROVE  /\ pc[o] = "dtRemove"
           /\ Ended(o)
           /\ Entered(o, Absent)
           /\ UNCHANGED <<used, live, conf, machine, told, leaving, shared, overlap, faults>>
<1>1. Ended(o)
    BY Ending DEF DetachRemove
<1>2. Absent \in Entry \cup {Absent}
    BY OpFacts DEF DetachRemove
<1>3. ASSUME reg' = [reg EXCEPT ![cur[o].id] = Absent]
      PROVE  Entered(o, Absent)
    BY <1>2, <1>3, Entering, StepNames DEF DetachRemove
<1> QED
    BY <1>1, <1>2, <1>3 DEF DetachRemove, End, Go

\* What DetachStepFails changes and leaves alone.
LEMMA DoesDetachStepFails ==
    ASSUME TypeOK, StepInv, NEW o \in Operators, DetachStepFails(o)
    PROVE  /\ pc[o] \in {"dtLoad", "dtWrite", "dtPeer", "dtRemove"}
           /\ Ended(o)
           /\ faults' \in 0..MaxFaults /\ faults' # 0
           /\ \/ reg' = reg
              \/ pc[o] = "dtRemove" /\ Entered(o, Absent)
           /\ UNCHANGED <<used, live, conf, machine, told, leaving, shared, overlap>>
<1>1. Ended(o)
    BY Ending DEF DetachStepFails
<1>2. Absent \in Entry \cup {Absent}
    BY OpFacts DEF DetachStepFails
<1>3. ASSUME reg' = [reg EXCEPT ![cur[o].id] = Absent]
      PROVE  Entered(o, Absent)
    BY <1>2, <1>3, Entering, StepNames DEF DetachStepFails
<1>4. faults' \in 0..MaxFaults /\ faults' # 0
    BY Failing DEF DetachStepFails
<1> QED
    BY <1>1, <1>2, <1>3, <1>4 DEF DetachStepFails, End, Go

\* What EnsureOverlay changes and leaves alone.
LEMMA DoesEnsureOverlay ==
    ASSUME TypeOK, StepInv, NEW o \in Operators, EnsureOverlay(o)
    PROVE  /\ pc[o] = "idle"
           /\ pc'[o] = "ovLoad" /\ Moved(o)
           /\ cur' \in [Operators -> Local] /\ cur'[o] = Idle
           /\ \A q \in Operators \ {o} : cur'[q] = cur[q]
           /\ overlap' = (overlap \/ Active # {})
           /\ UNCHANGED <<reg, used, live, conf, machine, told, leaving, shared, faults>>
<1>1. pc'[o] = "ovLoad" /\ Moved(o)
    BY Going, StepNames DEF EnsureOverlay, Begin
<1>2. cur' \in [Operators -> Local] /\ cur'[o] = Idle
    BY IdleFacts DEF TypeOK, EnsureOverlay, Begin
<1> QED
    BY <1>1, <1>2 DEF EnsureOverlay, Begin, Go

\* What OverlayLoad changes and leaves alone.
LEMMA DoesOverlayLoad ==
    ASSUME TypeOK, StepInv, NEW o \in Operators, OverlayLoad(o)
    PROVE  /\ pc[o] = "ovLoad"
           /\ pc'[o] = "ovWrite" /\ Moved(o)
           /\ Kept(o)
           /\ cur'[o].list = RegKeys
           /\ UNCHANGED <<reg, used, live, conf, machine, told, leaving, shared, overlap, faults>>
<1>1. pc'[o] = "ovWrite" /\ Moved(o)
    BY Going, StepNames DEF OverlayLoad, LoadPeers
<1>2. cur' = [cur EXCEPT ![o].list = RegKeys]
    BY DEF OverlayLoad, LoadPeers, Go
<1>3. RegKeys \in SUBSET Ids
    BY KeyFacts
<1>4. Kept(o) /\ cur'[o].list = RegKeys
    BY <1>2, <1>3, LocalUpdates DEF Kept
<1> QED
    BY <1>1, <1>2, <1>3, <1>4 DEF OverlayLoad, LoadPeers, Go

\* What OverlayWrite changes and leaves alone.
LEMMA DoesOverlayWrite ==
    ASSUME TypeOK, StepInv, NEW o \in Operators, OverlayWrite(o)
    PROVE  /\ pc[o] = "ovWrite"
           /\ Ended(o)
           /\ conf' = cur[o].list
           /\ UNCHANGED <<reg, used, live, machine, told, leaving, shared, overlap, faults>>
<1>1. Ended(o)
    BY Ending DEF OverlayWrite
<1> QED
    BY <1>1 DEF OverlayWrite, End, Go

\* What Crash changes and leaves alone.
LEMMA DoesCrash ==
    ASSUME TypeOK, StepInv, NEW o \in Operators, Crash(o)
    PROVE  /\ pc[o] # "idle"
           /\ Ended(o)
           /\ faults' \in 0..MaxFaults /\ faults' # 0
           /\ told' = told \cup Names(o)
           /\ UNCHANGED <<reg, used, live, conf, machine, leaving, shared, overlap>>
<1>1. Ended(o)
    BY Ending DEF Crash
<1>2. faults' \in 0..MaxFaults /\ faults' # 0
    BY Failing DEF Crash
<1> QED
    BY <1>1, <1>2 DEF Crash, End, Go


-----------------------------------------------------------------------------
(* Each step keeps what the locals hold.                                   *)
LEMMA NextStepInv ==
    TypeOK /\ StepInv /\ [Next]_vars => StepInv'
<1> SUFFICES ASSUME TypeOK, StepInv, [Next]_vars
             PROVE  StepInv'
    OBVIOUS
<1>1. ASSUME NEW o \in Operators, NEW i \in Ids, NEW h \in Hosts, AddNode(o, i, h)
      PROVE  StepInv'
    <2>1. /\ i \notin used
          /\ pc[o] = "idle"
          /\ pc'[o] = "provision" /\ Moved(o)
          /\ Begun(o, i, h, NoId)
          /\ used' = used \cup {i}
          /\ overlap' = (overlap \/ Active # {})
          /\ UNCHANGED <<reg, live, conf, machine, told, leaving, shared, faults>>
        BY <1>1, DoesAddNode
    <2> QED
        BY <1>1, StepNames, LocalFacts, <2>1 DEF StepInv, Moved, Begun
<1>2. ASSUME NEW o \in Operators, Provision(o) PROVE StepInv'
    <2>1. /\ pc[o] = "provision"
          /\ pc'[o] = "register" /\ Moved(o)
          /\ Same(cur', o) /\ cur'[o].touched = cur[o].touched /\ cur'[o].failed = cur[o].failed
          /\ cur'[o].key = Provisioned(machine[Target(o)], cur[o].id).key
        BY <1>2, DoesProvision
    <2>2. cur'[o].key \in Ids
        BY <1>2, <2>1, MachineTypes, OpFacts
    <2> QED
        BY <1>2, StepNames, <2>1, <2>2 DEF StepInv, Same, Moved, Rebuilt
<1>3. ASSUME NEW o \in Operators, ProvisionFails(o) PROVE StepInv'
    BY <1>3, StepNames, DoesProvisionFails, IdleFacts DEF StepInv, Ended, Moved, Rebuilt
<1>4. ASSUME NEW o \in Operators, Add(o) PROVE StepInv'
    <2>1. CASE ValidateNew(NewEntry(o))
        <3>1. /\ pc[o] = "register"
              /\ pc'[o] = "setpeer" /\ Moved(o)
              /\ Same(cur', o) /\ cur'[o].key = cur[o].key /\ cur'[o].touched = TRUE /\ cur'[o].failed = cur[o].failed
            BY <2>1, <1>4, DoesAddA
        <3> QED
            BY <1>4, <2>1, StepNames, <3>1 DEF StepInv, Same, Moved, Entered
    <2>2. CASE ~ValidateNew(NewEntry(o))
        BY <1>4, <2>2, StepNames, DoesAddB DEF StepInv, Kept, Same, Moved
    <2> QED
        BY <2>1, <2>2
<1>5. ASSUME NEW o \in Operators, SetPeer(o) PROVE StepInv'
    BY <1>5, StepNames, DoesSetPeer DEF StepInv, Kept, Same, Moved
<1>6. ASSUME NEW o \in Operators, JoinLoad(o) PROVE StepInv'
    BY <1>6, StepNames, DoesJoinLoad DEF StepInv, Kept, Same, Moved
<1>7. ASSUME NEW o \in Operators, JoinWrite(o) PROVE StepInv'
    BY <1>7, StepNames, DoesJoinWrite DEF StepInv, Kept, Same, Moved
<1>8. ASSUME NEW o \in Operators, waitHealthy(o) PROVE StepInv'
    BY <1>8, StepNames, DoesWaitHealthy DEF StepInv, Kept, Same, Moved
<1>9. ASSUME NEW o \in Operators, installNode(o) PROVE StepInv'
    <2>1. CASE Reachable(o) /\ machine[Target(o)].runtime = "none"
        BY <1>9, <2>1, StepNames, DoesInstallNodeA DEF StepInv, Kept, Same, Moved, Rebuilt
    <2>2. CASE ~(Reachable(o) /\ machine[Target(o)].runtime = "none")
        BY <1>9, <2>2, StepNames, DoesInstallNodeB DEF StepInv, Kept, Same, Moved
    <2> QED
        BY <2>1, <2>2
<1>10. ASSUME NEW o \in Operators, installNodeFails(o) PROVE StepInv'
    <2>1. /\ pc[o] = "install"
          /\ pc'[o] \in {"rbUninstall", "rbPeer"} /\ Moved(o)
          /\ Kept(o)
        BY <1>10, DoesInstallNodeFails
    <2> QED
        BY <1>10, StepNames, <2>1 DEF StepInv, Kept, Same, Moved, Rebuilt
<1>11. ASSUME NEW o \in Operators, Commit(o) PROVE StepInv'
    <2>1. CASE cur[o].id \in Registered
        <3>1. /\ pc[o] = "commit"
              /\ Ended(o)
              /\ Entered(o, [reg[cur[o].id] EXCEPT !.installed = TRUE])
              /\ UNCHANGED <<used, live, conf, machine, told, leaving, shared, overlap, faults>>
            BY <2>1, <1>11, DoesCommitA
        <3> QED
            BY <1>11, <2>1, StepNames, IdleFacts, <3>1 DEF StepInv, Ended, Moved, Entered
    <2>2. CASE cur[o].id \notin Registered
        BY <1>11, <2>2, StepNames, DoesCommitB DEF StepInv, Kept, Same, Moved
    <2> QED
        BY <2>1, <2>2
<1>12. ASSUME NEW o \in Operators, AddStepFails(o) PROVE StepInv'
    BY <1>12, StepNames, DoesAddStepFails DEF StepInv, Kept, Same, Moved
<1>13. ASSUME NEW o \in Operators, AddErrorAfterCommit(o) PROVE StepInv'
    <2>1. CASE pc[o] = "register"
        <3>1. /\ pc[o] = "register"
              /\ pc'[o] \in {"rbUninstall", "rbPeer"} /\ Moved(o)
              /\ Kept(o)
            BY <2>1, <1>13, DoesAddErrorAfterCommitA
        <3> QED
            BY <1>13, <2>1, StepNames, <3>1 DEF StepInv, Kept, Same, Moved, Entered
    <2>2. CASE pc[o] = "commit"
        <3>1. /\ pc[o] = "commit"
              /\ pc'[o] \in {"rbUninstall", "rbPeer"} /\ Moved(o)
              /\ Kept(o)
            BY <2>2, <1>13, DoesAddErrorAfterCommitB
        <3> QED
            BY <1>13, <2>2, StepNames, <3>1 DEF StepInv, Kept, Same, Moved, Entered
    <2> QED
        BY <2>1, <2>2, <1>13 DEF AddErrorAfterCommit
<1>14. ASSUME NEW o \in Operators, RollbackUninstall(o) PROVE StepInv'
    <2>1. CASE Reachable(o) /\ machine[Target(o)].owner = cur[o].id
        <3>1. /\ pc[o] = "rbUninstall"
              /\ pc'[o] = "rbPeer" /\ Moved(o)
              /\ Kept(o)
            BY <2>1, <1>14, DoesRollbackUninstallA
        <3> QED
            BY <1>14, <2>1, StepNames, <3>1 DEF StepInv, Kept, Same, Moved, Rebuilt
    <2>2. CASE ~(Reachable(o) /\ machine[Target(o)].owner = cur[o].id)
        <3>1. /\ pc[o] = "rbUninstall"
              /\ pc'[o] = "rbPeer" /\ Moved(o)
              /\ Same(cur', o) /\ cur'[o].key = cur[o].key /\ cur'[o].touched = cur[o].touched /\ cur'[o].failed = TRUE
              /\ UNCHANGED <<reg, used, live, conf, machine, told, leaving, shared, overlap, faults>>
            BY <2>2, <1>14, DoesRollbackUninstallB
        <3> QED
            BY <1>14, <2>2, StepNames, <3>1 DEF StepInv, Same, Moved
    <2> QED
        BY <2>1, <2>2
<1>15. ASSUME NEW o \in Operators, RollbackPeer(o) PROVE StepInv'
    BY <1>15, StepNames, DoesRollbackPeer DEF StepInv, Kept, Same, Moved
<1>16. ASSUME NEW o \in Operators, RollbackRemove(o) PROVE StepInv'
    BY <1>16, StepNames, DoesRollbackRemove DEF StepInv, Kept, Same, Moved, Entered
<1>17. ASSUME NEW o \in Operators, RollbackLoad(o) PROVE StepInv'
    BY <1>17, StepNames, DoesRollbackLoad DEF StepInv, Kept, Same, Moved
<1>18. ASSUME NEW o \in Operators, RollbackWrite(o) PROVE StepInv'
    BY <1>18, StepNames, DoesRollbackWrite DEF StepInv, Kept, Same, Moved
<1>19. ASSUME NEW o \in Operators, RollbackCleanup(o) PROVE StepInv'
    BY <1>19, StepNames, DoesRollbackCleanup, IdleFacts DEF StepInv, Ended, Moved, Rebuilt
<1>20. ASSUME NEW o \in Operators, RollbackStepFails(o) PROVE StepInv'
    <2>1. CASE pc[o] = "rbCleanup"
        BY <1>20, <2>1, StepNames, DoesRollbackStepFailsA, IdleFacts DEF StepInv, Ended, Moved
    <2>2. CASE pc[o] # "rbCleanup"
        <3>1. /\ Same(cur', o) /\ cur'[o].key = cur[o].key /\ cur'[o].touched = cur[o].touched /\ cur'[o].failed = TRUE
              /\ Moved(o)
              /\ \/ pc[o] = "rbUninstall" /\ pc'[o] = "rbPeer" /\ reg' = reg
                 \/ pc[o] = "rbPeer" /\ pc'[o] = "rbRemove" /\ reg' = reg
                 \/ pc[o] = "rbRemove" /\ pc'[o] = "rbLoad" /\ (reg' = reg \/ Entered(o, Absent))
                 \/ pc[o] \in {"rbLoad", "rbWrite"} /\ pc'[o] = "rbCleanup" /\ reg' = reg
            BY <2>2, <1>20, DoesRollbackStepFailsB
        <3> QED
            BY <1>20, <2>2, StepNames, <3>1 DEF StepInv, Same, Moved, Entered
    <2> QED
        BY <2>1, <2>2
<1>21. ASSUME NEW o \in Operators, NEW i \in Ids, RemoveNode(o, i) PROVE StepInv'
    <2>1. /\ i \in Registered
          /\ pc[o] = "idle"
          /\ pc'[o] = "uninstall" /\ Moved(o)
          /\ Begun(o, i, reg[i].host, reg[i].key)
          /\ leaving' = leaving \cup {i}
          /\ shared' = (IF \E p \in Active : cur[p].id = i THEN shared \cup {i, reg[i].key} ELSE shared)
          /\ told' = told
          /\ overlap' = (overlap \/ Active # {})
          /\ UNCHANGED <<reg, used, live, conf, machine, faults>>
        BY <1>21, DoesRemoveNode
    <2> QED
        BY <1>21, StepNames, EntryFacts, <2>1 DEF StepInv, Moved, Begun
<1>22. ASSUME NEW o \in Operators, NEW i \in Ids, ForceDetachNode(o, i) PROVE StepInv'
    <2>1. /\ i \in Registered
          /\ pc[o] = "idle"
          /\ pc'[o] = "dtLoad" /\ Moved(o)
          /\ Begun(o, i, reg[i].host, reg[i].key)
          /\ leaving' = leaving \cup {i}
          /\ shared' = (IF \E p \in Active : cur[p].id = i THEN shared \cup {i, reg[i].key} ELSE shared)
          /\ told' = told \cup {i, reg[i].key}
          /\ overlap' = (overlap \/ Active # {})
          /\ UNCHANGED <<reg, used, live, conf, machine, faults>>
        BY <1>22, DoesForceDetachNode
    <2> QED
        BY <1>22, StepNames, EntryFacts, <2>1 DEF StepInv, Moved, Begun
<1>23. ASSUME NEW o \in Operators, Uninstall(o) PROVE StepInv'
    <2>1. CASE Reachable(o)
        BY <1>23, <2>1, StepNames, DoesUninstallA DEF StepInv, Kept, Same, Moved, Rebuilt
    <2>2. CASE ~Reachable(o)
        BY <1>23, <2>2, StepNames, DoesUninstallB, IdleFacts DEF StepInv, Ended, Moved
    <2> QED
        BY <2>1, <2>2
<1>24. ASSUME NEW o \in Operators, UninstallFails(o) PROVE StepInv'
    BY <1>24, StepNames, DoesUninstallFails, IdleFacts DEF StepInv, Ended, Moved, Rebuilt
<1>25. ASSUME NEW o \in Operators, DetachLoad(o) PROVE StepInv'
    <2>1. CASE cur[o].id \in Registered
        BY <1>25, <2>1, StepNames, DoesDetachLoadA DEF StepInv, Kept, Same, Moved
    <2>2. CASE cur[o].id \notin Registered
        BY <1>25, <2>2, StepNames, DoesDetachLoadB, IdleFacts DEF StepInv, Ended, Moved
    <2> QED
        BY <2>1, <2>2
<1>26. ASSUME NEW o \in Operators, DetachWrite(o) PROVE StepInv'
    BY <1>26, StepNames, DoesDetachWrite DEF StepInv, Kept, Same, Moved
<1>27. ASSUME NEW o \in Operators, DetachPeer(o) PROVE StepInv'
    BY <1>27, StepNames, DoesDetachPeer DEF StepInv, Kept, Same, Moved
<1>28. ASSUME NEW o \in Operators, DetachRemove(o) PROVE StepInv'
    BY <1>28, StepNames, DoesDetachRemove, IdleFacts DEF StepInv, Ended, Moved, Entered
<1>29. ASSUME NEW o \in Operators, DetachStepFails(o) PROVE StepInv'
    BY <1>29, StepNames, DoesDetachStepFails, IdleFacts DEF StepInv, Ended, Moved, Entered
<1>30. ASSUME NEW o \in Operators, EnsureOverlay(o) PROVE StepInv'
    BY <1>30, StepNames, DoesEnsureOverlay, IdleFacts DEF StepInv, Moved
<1>31. ASSUME NEW o \in Operators, OverlayLoad(o) PROVE StepInv'
    BY <1>31, StepNames, DoesOverlayLoad DEF StepInv, Kept, Same, Moved
<1>32. ASSUME NEW o \in Operators, OverlayWrite(o) PROVE StepInv'
    BY <1>32, StepNames, DoesOverlayWrite, IdleFacts DEF StepInv, Ended, Moved
<1>33. ASSUME NEW o \in Operators, Crash(o) PROVE StepInv'
    BY <1>33, StepNames, DoesCrash, IdleFacts DEF StepInv, Ended, Moved
<1>34. CASE UNCHANGED vars
    BY <1>34 DEF StepInv, vars
<1> QED
    BY <1>1, <1>2, <1>3, <1>4, <1>5, <1>6, <1>7, <1>8, <1>9, <1>10, <1>11, <1>12, <1>13,
           <1>14, <1>15, <1>16, <1>17, <1>18, <1>19, <1>20, <1>21, <1>22, <1>23, <1>24, <1>25,
           <1>26, <1>27, <1>28, <1>29, <1>30, <1>31, <1>32, <1>33, <1>34 DEF Next, Adding, RollingBack, Removing, Overlay
(* Every step keeps the types.                                             *)
LEMMA NextTypeOK ==
    TypeOK /\ StepInv /\ HomeInv /\ [Next]_vars => TypeOK'
<1> SUFFICES ASSUME TypeOK, StepInv, HomeInv, [Next]_vars
             PROVE  TypeOK'
    OBVIOUS
<1>1. ASSUME NEW o \in Operators, NEW i \in Ids, NEW h \in Hosts, AddNode(o, i, h)
      PROVE  TypeOK'
    <2>1. Begun(o, i, h, NoId) /\ used \subseteq used' /\ i \in used'
        BY <1>1, DoesAddNode
    <2>2. cur'[o].id \in used' /\ cur'[o].host \in Hosts
        BY <2>1 DEF Begun
    <2>3. /\ \A q \in Operators \ {o} : pc'[q] = pc[q] /\ cur'[q] = cur[q]
          /\ used \subseteq used'
        BY <1>1, DoesAddNode DEF Begun, Moved
    <2>4. \A q \in Operators : pc'[q] \in AddSteps \cup RollbackSteps \cup DetachSteps =>
              cur'[q].id \in used' /\ cur'[q].host \in Hosts
        BY <2>2, <2>3 DEF TypeOK
    <2>5. told' \subseteq used' /\ leaving' \subseteq used' /\ shared' \subseteq used' /\ used' \subseteq Ids
        BY <1>1, DoesAddNode, OpFacts, KeysUsed, EntryFacts DEF TypeOK
    <2>6. /\ pc' \in [Operators -> Steps] /\ cur' \in [Operators -> Local]
          /\ machine' \in [Servers -> Machine] /\ reg' \in [Ids -> Entry \cup {Absent}]
        BY <1>1, DoesAddNode DEF TypeOK, Moved, Begun
    <2>7. live' \subseteq Ids /\ conf' \subseteq Ids /\ overlap' \in BOOLEAN /\ faults' \in 0..MaxFaults
        BY <1>1, DoesAddNode, OpFacts, LocalFacts DEF TypeOK
    <2> QED
        BY <1>1, <2>1, <2>2, <2>3, <2>4, <2>5, <2>6, <2>7 DEF TypeOK
<1>2. ASSUME NEW o \in Operators, Provision(o) PROVE TypeOK'
    <2>1. \A q \in Operators : pc'[q] \in AddSteps \cup RollbackSteps \cup DetachSteps =>
              cur'[q].id \in used' /\ cur'[q].host \in Hosts
        BY <1>2, DoesProvision, StepNames DEF TypeOK, Same, Moved, Rebuilt
    <2>2. told' \subseteq used' /\ leaving' \subseteq used' /\ shared' \subseteq used' /\ used' \subseteq Ids
        BY <1>2, DoesProvision, OpFacts DEF TypeOK
    <2>3. /\ pc' \in [Operators -> Steps] /\ cur' \in [Operators -> Local]
          /\ machine' \in [Servers -> Machine] /\ reg' \in [Ids -> Entry \cup {Absent}]
        BY <1>2, DoesProvision DEF TypeOK, Same, Moved, Rebuilt
    <2>4. live' \subseteq Ids /\ conf' \subseteq Ids /\ overlap' \in BOOLEAN /\ faults' \in 0..MaxFaults
        BY <1>2, DoesProvision, OpFacts, LocalFacts DEF TypeOK
    <2> QED
        BY <1>2, <2>1, <2>2, <2>3, <2>4 DEF TypeOK
<1>3. ASSUME NEW o \in Operators, ProvisionFails(o) PROVE TypeOK'
    <2>1. \A q \in Operators : pc'[q] \in AddSteps \cup RollbackSteps \cup DetachSteps =>
              cur'[q].id \in used' /\ cur'[q].host \in Hosts
        BY <1>3, DoesProvisionFails, StepNames, IdleFacts DEF TypeOK, Ended, Moved, Rebuilt
    <2>2. told' \subseteq used' /\ leaving' \subseteq used' /\ shared' \subseteq used' /\ used' \subseteq Ids
        BY <1>3, DoesProvisionFails, OpFacts DEF TypeOK
    <2>3. /\ pc' \in [Operators -> Steps] /\ cur' \in [Operators -> Local]
          /\ machine' \in [Servers -> Machine] /\ reg' \in [Ids -> Entry \cup {Absent}]
        BY <1>3, DoesProvisionFails DEF TypeOK, Ended, Moved, Rebuilt
    <2>4. live' \subseteq Ids /\ conf' \subseteq Ids /\ overlap' \in BOOLEAN /\ faults' \in 0..MaxFaults
        BY <1>3, DoesProvisionFails, OpFacts, LocalFacts DEF TypeOK
    <2> QED
        BY <1>3, <2>1, <2>2, <2>3, <2>4 DEF TypeOK
<1>4. ASSUME NEW o \in Operators, Add(o) PROVE TypeOK'
    <2>1. CASE ValidateNew(NewEntry(o))
        <3>1. /\ \A q \in Operators \ {o} : pc'[q] = pc[q] /\ cur'[q] = cur[q]
              /\ used \subseteq used'
            BY <2>1, <1>4, DoesAddA DEF Same, Moved
        <3>2. pc'[o] \in AddSteps \cup RollbackSteps \cup DetachSteps =>
              cur'[o].id \in used' /\ cur'[o].host \in Hosts
            BY <2>1, <1>4, DoesAddA, StepNames DEF TypeOK, Same, Moved, Entered
        <3>3. \A q \in Operators : pc'[q] \in AddSteps \cup RollbackSteps \cup DetachSteps =>
              cur'[q].id \in used' /\ cur'[q].host \in Hosts
            BY <3>1, <3>2 DEF TypeOK
        <3>4. told' \subseteq used' /\ leaving' \subseteq used' /\ shared' \subseteq used' /\ used' \subseteq Ids
            BY <2>1, <1>4, DoesAddA, OpFacts DEF TypeOK
        <3>5. /\ pc' \in [Operators -> Steps] /\ cur' \in [Operators -> Local]
              /\ machine' \in [Servers -> Machine] /\ reg' \in [Ids -> Entry \cup {Absent}]
            BY <2>1, <1>4, DoesAddA DEF TypeOK, Same, Moved, Entered
        <3>6. live' \subseteq Ids /\ conf' \subseteq Ids /\ overlap' \in BOOLEAN /\ faults' \in 0..MaxFaults
            BY <2>1, <1>4, DoesAddA, OpFacts, LocalFacts DEF TypeOK
        <3> QED
            BY <1>4, <2>1, <3>1, <3>2, <3>3, <3>4, <3>5, <3>6 DEF TypeOK
    <2>2. CASE ~ValidateNew(NewEntry(o))
        <3>1. \A q \in Operators : pc'[q] \in AddSteps \cup RollbackSteps \cup DetachSteps =>
              cur'[q].id \in used' /\ cur'[q].host \in Hosts
            BY <2>2, <1>4, DoesAddB, StepNames DEF TypeOK, Kept, Same, Moved
        <3>2. told' \subseteq used' /\ leaving' \subseteq used' /\ shared' \subseteq used' /\ used' \subseteq Ids
            BY <2>2, <1>4, DoesAddB, OpFacts DEF TypeOK
        <3>3. /\ pc' \in [Operators -> Steps] /\ cur' \in [Operators -> Local]
              /\ machine' \in [Servers -> Machine] /\ reg' \in [Ids -> Entry \cup {Absent}]
            BY <2>2, <1>4, DoesAddB DEF TypeOK, Kept, Same, Moved
        <3>4. live' \subseteq Ids /\ conf' \subseteq Ids /\ overlap' \in BOOLEAN /\ faults' \in 0..MaxFaults
            BY <2>2, <1>4, DoesAddB, OpFacts, LocalFacts DEF TypeOK
        <3> QED
            BY <1>4, <2>2, <3>1, <3>2, <3>3, <3>4 DEF TypeOK
    <2> QED
        BY <2>1, <2>2
<1>5. ASSUME NEW o \in Operators, SetPeer(o) PROVE TypeOK'
    <2>1. \A q \in Operators : pc'[q] \in AddSteps \cup RollbackSteps \cup DetachSteps =>
              cur'[q].id \in used' /\ cur'[q].host \in Hosts
        BY <1>5, DoesSetPeer, StepNames DEF TypeOK, Kept, Same, Moved
    <2>2. told' \subseteq used' /\ leaving' \subseteq used' /\ shared' \subseteq used' /\ used' \subseteq Ids
        BY <1>5, DoesSetPeer, OpFacts DEF TypeOK
    <2>3. /\ pc' \in [Operators -> Steps] /\ cur' \in [Operators -> Local]
          /\ machine' \in [Servers -> Machine] /\ reg' \in [Ids -> Entry \cup {Absent}]
        BY <1>5, DoesSetPeer DEF TypeOK, Kept, Same, Moved
    <2>4. live' \subseteq Ids /\ conf' \subseteq Ids /\ overlap' \in BOOLEAN /\ faults' \in 0..MaxFaults
        BY <1>5, DoesSetPeer, OpFacts, LocalFacts DEF TypeOK
    <2> QED
        BY <1>5, <2>1, <2>2, <2>3, <2>4 DEF TypeOK
<1>6. ASSUME NEW o \in Operators, JoinLoad(o) PROVE TypeOK'
    <2>1. \A q \in Operators : pc'[q] \in AddSteps \cup RollbackSteps \cup DetachSteps =>
              cur'[q].id \in used' /\ cur'[q].host \in Hosts
        BY <1>6, DoesJoinLoad, StepNames DEF TypeOK, Kept, Same, Moved
    <2>2. told' \subseteq used' /\ leaving' \subseteq used' /\ shared' \subseteq used' /\ used' \subseteq Ids
        BY <1>6, DoesJoinLoad, OpFacts DEF TypeOK
    <2>3. /\ pc' \in [Operators -> Steps] /\ cur' \in [Operators -> Local]
          /\ machine' \in [Servers -> Machine] /\ reg' \in [Ids -> Entry \cup {Absent}]
        BY <1>6, DoesJoinLoad DEF TypeOK, Kept, Same, Moved
    <2>4. live' \subseteq Ids /\ conf' \subseteq Ids /\ overlap' \in BOOLEAN /\ faults' \in 0..MaxFaults
        BY <1>6, DoesJoinLoad, OpFacts, LocalFacts DEF TypeOK
    <2> QED
        BY <1>6, <2>1, <2>2, <2>3, <2>4 DEF TypeOK
<1>7. ASSUME NEW o \in Operators, JoinWrite(o) PROVE TypeOK'
    <2>1. \A q \in Operators : pc'[q] \in AddSteps \cup RollbackSteps \cup DetachSteps =>
              cur'[q].id \in used' /\ cur'[q].host \in Hosts
        BY <1>7, DoesJoinWrite, StepNames DEF TypeOK, Kept, Same, Moved
    <2>2. told' \subseteq used' /\ leaving' \subseteq used' /\ shared' \subseteq used' /\ used' \subseteq Ids
        BY <1>7, DoesJoinWrite, OpFacts DEF TypeOK
    <2>3. /\ pc' \in [Operators -> Steps] /\ cur' \in [Operators -> Local]
          /\ machine' \in [Servers -> Machine] /\ reg' \in [Ids -> Entry \cup {Absent}]
        BY <1>7, DoesJoinWrite DEF TypeOK, Kept, Same, Moved
    <2>4. live' \subseteq Ids /\ conf' \subseteq Ids /\ overlap' \in BOOLEAN /\ faults' \in 0..MaxFaults
        BY <1>7, DoesJoinWrite, OpFacts, LocalFacts DEF TypeOK
    <2> QED
        BY <1>7, <2>1, <2>2, <2>3, <2>4 DEF TypeOK
<1>8. ASSUME NEW o \in Operators, waitHealthy(o) PROVE TypeOK'
    <2>1. \A q \in Operators : pc'[q] \in AddSteps \cup RollbackSteps \cup DetachSteps =>
              cur'[q].id \in used' /\ cur'[q].host \in Hosts
        BY <1>8, DoesWaitHealthy, StepNames DEF TypeOK, Kept, Same, Moved
    <2>2. told' \subseteq used' /\ leaving' \subseteq used' /\ shared' \subseteq used' /\ used' \subseteq Ids
        BY <1>8, DoesWaitHealthy, OpFacts DEF TypeOK
    <2>3. /\ pc' \in [Operators -> Steps] /\ cur' \in [Operators -> Local]
          /\ machine' \in [Servers -> Machine] /\ reg' \in [Ids -> Entry \cup {Absent}]
        BY <1>8, DoesWaitHealthy DEF TypeOK, Kept, Same, Moved
    <2>4. live' \subseteq Ids /\ conf' \subseteq Ids /\ overlap' \in BOOLEAN /\ faults' \in 0..MaxFaults
        BY <1>8, DoesWaitHealthy, OpFacts, LocalFacts DEF TypeOK
    <2> QED
        BY <1>8, <2>1, <2>2, <2>3, <2>4 DEF TypeOK
<1>9. ASSUME NEW o \in Operators, installNode(o) PROVE TypeOK'
    <2>1. CASE Reachable(o) /\ machine[Target(o)].runtime = "none"
        <3>1. \A q \in Operators : pc'[q] \in AddSteps \cup RollbackSteps \cup DetachSteps =>
              cur'[q].id \in used' /\ cur'[q].host \in Hosts
            BY <2>1, <1>9, DoesInstallNodeA, StepNames DEF TypeOK, Kept, Same, Moved, Rebuilt
        <3>2. told' \subseteq used' /\ leaving' \subseteq used' /\ shared' \subseteq used' /\ used' \subseteq Ids
            BY <2>1, <1>9, DoesInstallNodeA, OpFacts DEF TypeOK
        <3>3. /\ pc' \in [Operators -> Steps] /\ cur' \in [Operators -> Local]
              /\ machine' \in [Servers -> Machine] /\ reg' \in [Ids -> Entry \cup {Absent}]
            BY <2>1, <1>9, DoesInstallNodeA DEF TypeOK, Kept, Same, Moved, Rebuilt
        <3>4. live' \subseteq Ids /\ conf' \subseteq Ids /\ overlap' \in BOOLEAN /\ faults' \in 0..MaxFaults
            BY <2>1, <1>9, DoesInstallNodeA, OpFacts, LocalFacts DEF TypeOK
        <3> QED
            BY <1>9, <2>1, <3>1, <3>2, <3>3, <3>4 DEF TypeOK
    <2>2. CASE ~(Reachable(o) /\ machine[Target(o)].runtime = "none")
        <3>1. \A q \in Operators : pc'[q] \in AddSteps \cup RollbackSteps \cup DetachSteps =>
              cur'[q].id \in used' /\ cur'[q].host \in Hosts
            BY <2>2, <1>9, DoesInstallNodeB, StepNames DEF TypeOK, Kept, Same, Moved
        <3>2. told' \subseteq used' /\ leaving' \subseteq used' /\ shared' \subseteq used' /\ used' \subseteq Ids
            BY <2>2, <1>9, DoesInstallNodeB, OpFacts DEF TypeOK
        <3>3. /\ pc' \in [Operators -> Steps] /\ cur' \in [Operators -> Local]
              /\ machine' \in [Servers -> Machine] /\ reg' \in [Ids -> Entry \cup {Absent}]
            BY <2>2, <1>9, DoesInstallNodeB DEF TypeOK, Kept, Same, Moved
        <3>4. live' \subseteq Ids /\ conf' \subseteq Ids /\ overlap' \in BOOLEAN /\ faults' \in 0..MaxFaults
            BY <2>2, <1>9, DoesInstallNodeB, OpFacts, LocalFacts DEF TypeOK
        <3> QED
            BY <1>9, <2>2, <3>1, <3>2, <3>3, <3>4 DEF TypeOK
    <2> QED
        BY <2>1, <2>2
<1>10. ASSUME NEW o \in Operators, installNodeFails(o) PROVE TypeOK'
    <2>1. \A q \in Operators : pc'[q] \in AddSteps \cup RollbackSteps \cup DetachSteps =>
              cur'[q].id \in used' /\ cur'[q].host \in Hosts
        BY <1>10, DoesInstallNodeFails, StepNames DEF TypeOK, Kept, Same, Moved, Rebuilt
    <2>2. told' \subseteq used' /\ leaving' \subseteq used' /\ shared' \subseteq used' /\ used' \subseteq Ids
        BY <1>10, DoesInstallNodeFails, OpFacts DEF TypeOK
    <2>3. /\ pc' \in [Operators -> Steps] /\ cur' \in [Operators -> Local]
          /\ machine' \in [Servers -> Machine] /\ reg' \in [Ids -> Entry \cup {Absent}]
        BY <1>10, DoesInstallNodeFails DEF TypeOK, Kept, Same, Moved, Rebuilt
    <2>4. live' \subseteq Ids /\ conf' \subseteq Ids /\ overlap' \in BOOLEAN /\ faults' \in 0..MaxFaults
        BY <1>10, DoesInstallNodeFails, OpFacts, LocalFacts DEF TypeOK
    <2> QED
        BY <1>10, <2>1, <2>2, <2>3, <2>4 DEF TypeOK
<1>11. ASSUME NEW o \in Operators, Commit(o) PROVE TypeOK'
    <2>1. CASE cur[o].id \in Registered
        <3>1. \A q \in Operators : pc'[q] \in AddSteps \cup RollbackSteps \cup DetachSteps =>
              cur'[q].id \in used' /\ cur'[q].host \in Hosts
            BY <2>1, <1>11, DoesCommitA, StepNames, IdleFacts DEF TypeOK, Ended, Moved, Entered
        <3>2. told' \subseteq used' /\ leaving' \subseteq used' /\ shared' \subseteq used' /\ used' \subseteq Ids
            BY <2>1, <1>11, DoesCommitA, OpFacts DEF TypeOK
        <3>3. /\ pc' \in [Operators -> Steps] /\ cur' \in [Operators -> Local]
              /\ machine' \in [Servers -> Machine] /\ reg' \in [Ids -> Entry \cup {Absent}]
            BY <2>1, <1>11, DoesCommitA DEF TypeOK, Ended, Moved, Entered
        <3>4. live' \subseteq Ids /\ conf' \subseteq Ids /\ overlap' \in BOOLEAN /\ faults' \in 0..MaxFaults
            BY <2>1, <1>11, DoesCommitA, OpFacts, LocalFacts DEF TypeOK
        <3> QED
            BY <1>11, <2>1, <3>1, <3>2, <3>3, <3>4 DEF TypeOK
    <2>2. CASE cur[o].id \notin Registered
        <3>1. \A q \in Operators : pc'[q] \in AddSteps \cup RollbackSteps \cup DetachSteps =>
              cur'[q].id \in used' /\ cur'[q].host \in Hosts
            BY <2>2, <1>11, DoesCommitB, StepNames DEF TypeOK, Kept, Same, Moved
        <3>2. told' \subseteq used' /\ leaving' \subseteq used' /\ shared' \subseteq used' /\ used' \subseteq Ids
            BY <2>2, <1>11, DoesCommitB, OpFacts DEF TypeOK
        <3>3. /\ pc' \in [Operators -> Steps] /\ cur' \in [Operators -> Local]
              /\ machine' \in [Servers -> Machine] /\ reg' \in [Ids -> Entry \cup {Absent}]
            BY <2>2, <1>11, DoesCommitB DEF TypeOK, Kept, Same, Moved
        <3>4. live' \subseteq Ids /\ conf' \subseteq Ids /\ overlap' \in BOOLEAN /\ faults' \in 0..MaxFaults
            BY <2>2, <1>11, DoesCommitB, OpFacts, LocalFacts DEF TypeOK
        <3> QED
            BY <1>11, <2>2, <3>1, <3>2, <3>3, <3>4 DEF TypeOK
    <2> QED
        BY <2>1, <2>2
<1>12. ASSUME NEW o \in Operators, AddStepFails(o) PROVE TypeOK'
    <2>1. \A q \in Operators : pc'[q] \in AddSteps \cup RollbackSteps \cup DetachSteps =>
              cur'[q].id \in used' /\ cur'[q].host \in Hosts
        BY <1>12, DoesAddStepFails, StepNames DEF TypeOK, Kept, Same, Moved
    <2>2. told' \subseteq used' /\ leaving' \subseteq used' /\ shared' \subseteq used' /\ used' \subseteq Ids
        BY <1>12, DoesAddStepFails, OpFacts DEF TypeOK
    <2>3. /\ pc' \in [Operators -> Steps] /\ cur' \in [Operators -> Local]
          /\ machine' \in [Servers -> Machine] /\ reg' \in [Ids -> Entry \cup {Absent}]
        BY <1>12, DoesAddStepFails DEF TypeOK, Kept, Same, Moved
    <2>4. live' \subseteq Ids /\ conf' \subseteq Ids /\ overlap' \in BOOLEAN /\ faults' \in 0..MaxFaults
        BY <1>12, DoesAddStepFails, OpFacts, LocalFacts DEF TypeOK
    <2> QED
        BY <1>12, <2>1, <2>2, <2>3, <2>4 DEF TypeOK
<1>13. ASSUME NEW o \in Operators, AddErrorAfterCommit(o) PROVE TypeOK'
    <2>1. CASE pc[o] = "register"
        <3>1. \A q \in Operators : pc'[q] \in AddSteps \cup RollbackSteps \cup DetachSteps =>
              cur'[q].id \in used' /\ cur'[q].host \in Hosts
            BY <2>1, <1>13, DoesAddErrorAfterCommitA, StepNames
            DEF TypeOK, Kept, Same, Moved, Entered
        <3>2. told' \subseteq used' /\ leaving' \subseteq used' /\ shared' \subseteq used' /\ used' \subseteq Ids
            BY <2>1, <1>13, DoesAddErrorAfterCommitA, OpFacts DEF TypeOK
        <3>3. /\ pc' \in [Operators -> Steps] /\ cur' \in [Operators -> Local]
              /\ machine' \in [Servers -> Machine] /\ reg' \in [Ids -> Entry \cup {Absent}]
            BY <2>1, <1>13, DoesAddErrorAfterCommitA DEF TypeOK, Kept, Same, Moved, Entered
        <3>4. live' \subseteq Ids /\ conf' \subseteq Ids /\ overlap' \in BOOLEAN /\ faults' \in 0..MaxFaults
            BY <2>1, <1>13, DoesAddErrorAfterCommitA, OpFacts, LocalFacts DEF TypeOK
        <3> QED
            BY <1>13, <2>1, <3>1, <3>2, <3>3, <3>4 DEF TypeOK
    <2>2. CASE pc[o] = "commit"
        <3>1. /\ \A q \in Operators \ {o} : pc'[q] = pc[q] /\ cur'[q] = cur[q]
              /\ used \subseteq used'
            BY <2>2, <1>13, DoesAddErrorAfterCommitB DEF Kept, Same, Moved
        <3>2. pc'[o] \in AddSteps \cup RollbackSteps \cup DetachSteps =>
              cur'[o].id \in used' /\ cur'[o].host \in Hosts
            BY <2>2, <1>13, DoesAddErrorAfterCommitB, StepNames
            DEF TypeOK, Kept, Same, Moved, Entered
        <3>3. \A q \in Operators : pc'[q] \in AddSteps \cup RollbackSteps \cup DetachSteps =>
              cur'[q].id \in used' /\ cur'[q].host \in Hosts
            BY <3>1, <3>2 DEF TypeOK
        <3>4. told' \subseteq used' /\ leaving' \subseteq used' /\ shared' \subseteq used' /\ used' \subseteq Ids
            BY <2>2, <1>13, DoesAddErrorAfterCommitB, OpFacts DEF TypeOK
        <3>5. /\ pc' \in [Operators -> Steps] /\ cur' \in [Operators -> Local]
              /\ machine' \in [Servers -> Machine] /\ reg' \in [Ids -> Entry \cup {Absent}]
            BY <2>2, <1>13, DoesAddErrorAfterCommitB DEF TypeOK, Kept, Same, Moved, Entered
        <3>6. live' \subseteq Ids /\ conf' \subseteq Ids /\ overlap' \in BOOLEAN /\ faults' \in 0..MaxFaults
            BY <2>2, <1>13, DoesAddErrorAfterCommitB, OpFacts, LocalFacts DEF TypeOK
        <3> QED
            BY <1>13, <2>2, <3>1, <3>2, <3>3, <3>4, <3>5, <3>6 DEF TypeOK
    <2> QED
        BY <2>1, <2>2, <1>13 DEF AddErrorAfterCommit
<1>14. ASSUME NEW o \in Operators, RollbackUninstall(o) PROVE TypeOK'
    <2>1. CASE Reachable(o) /\ machine[Target(o)].owner = cur[o].id
        <3>1. \A q \in Operators : pc'[q] \in AddSteps \cup RollbackSteps \cup DetachSteps =>
              cur'[q].id \in used' /\ cur'[q].host \in Hosts
            BY <2>1, <1>14, DoesRollbackUninstallA, StepNames
            DEF TypeOK, Kept, Same, Moved, Rebuilt
        <3>2. told' \subseteq used' /\ leaving' \subseteq used' /\ shared' \subseteq used' /\ used' \subseteq Ids
            BY <2>1, <1>14, DoesRollbackUninstallA, OpFacts DEF TypeOK
        <3>3. /\ pc' \in [Operators -> Steps] /\ cur' \in [Operators -> Local]
              /\ machine' \in [Servers -> Machine] /\ reg' \in [Ids -> Entry \cup {Absent}]
            BY <2>1, <1>14, DoesRollbackUninstallA DEF TypeOK, Kept, Same, Moved, Rebuilt
        <3>4. live' \subseteq Ids /\ conf' \subseteq Ids /\ overlap' \in BOOLEAN /\ faults' \in 0..MaxFaults
            BY <2>1, <1>14, DoesRollbackUninstallA, OpFacts, LocalFacts DEF TypeOK
        <3> QED
            BY <1>14, <2>1, <3>1, <3>2, <3>3, <3>4 DEF TypeOK
    <2>2. CASE ~(Reachable(o) /\ machine[Target(o)].owner = cur[o].id)
        <3>1. /\ \A q \in Operators \ {o} : pc'[q] = pc[q] /\ cur'[q] = cur[q]
              /\ used \subseteq used'
            BY <2>2, <1>14, DoesRollbackUninstallB DEF Same, Moved
        <3>2. pc'[o] \in AddSteps \cup RollbackSteps \cup DetachSteps =>
              cur'[o].id \in used' /\ cur'[o].host \in Hosts
            BY <2>2, <1>14, DoesRollbackUninstallB, StepNames DEF TypeOK, Same, Moved
        <3>3. \A q \in Operators : pc'[q] \in AddSteps \cup RollbackSteps \cup DetachSteps =>
              cur'[q].id \in used' /\ cur'[q].host \in Hosts
            BY <3>1, <3>2 DEF TypeOK
        <3>4. told' \subseteq used' /\ leaving' \subseteq used' /\ shared' \subseteq used' /\ used' \subseteq Ids
            BY <2>2, <1>14, DoesRollbackUninstallB, OpFacts DEF TypeOK
        <3>5. /\ pc' \in [Operators -> Steps] /\ cur' \in [Operators -> Local]
              /\ machine' \in [Servers -> Machine] /\ reg' \in [Ids -> Entry \cup {Absent}]
            BY <2>2, <1>14, DoesRollbackUninstallB DEF TypeOK, Same, Moved
        <3>6. live' \subseteq Ids /\ conf' \subseteq Ids /\ overlap' \in BOOLEAN /\ faults' \in 0..MaxFaults
            BY <2>2, <1>14, DoesRollbackUninstallB, OpFacts, LocalFacts DEF TypeOK
        <3> QED
            BY <1>14, <2>2, <3>1, <3>2, <3>3, <3>4, <3>5, <3>6 DEF TypeOK
    <2> QED
        BY <2>1, <2>2
<1>15. ASSUME NEW o \in Operators, RollbackPeer(o) PROVE TypeOK'
    <2>1. \A q \in Operators : pc'[q] \in AddSteps \cup RollbackSteps \cup DetachSteps =>
              cur'[q].id \in used' /\ cur'[q].host \in Hosts
        BY <1>15, DoesRollbackPeer, StepNames DEF TypeOK, Kept, Same, Moved
    <2>2. told' \subseteq used' /\ leaving' \subseteq used' /\ shared' \subseteq used' /\ used' \subseteq Ids
        BY <1>15, DoesRollbackPeer, OpFacts DEF TypeOK
    <2>3. /\ pc' \in [Operators -> Steps] /\ cur' \in [Operators -> Local]
          /\ machine' \in [Servers -> Machine] /\ reg' \in [Ids -> Entry \cup {Absent}]
        BY <1>15, DoesRollbackPeer DEF TypeOK, Kept, Same, Moved
    <2>4. live' \subseteq Ids /\ conf' \subseteq Ids /\ overlap' \in BOOLEAN /\ faults' \in 0..MaxFaults
        BY <1>15, DoesRollbackPeer, OpFacts, LocalFacts DEF TypeOK
    <2> QED
        BY <1>15, <2>1, <2>2, <2>3, <2>4 DEF TypeOK
<1>16. ASSUME NEW o \in Operators, RollbackRemove(o) PROVE TypeOK'
    <2>1. \A q \in Operators : pc'[q] \in AddSteps \cup RollbackSteps \cup DetachSteps =>
              cur'[q].id \in used' /\ cur'[q].host \in Hosts
        BY <1>16, DoesRollbackRemove, StepNames DEF TypeOK, Kept, Same, Moved, Entered
    <2>2. told' \subseteq used' /\ leaving' \subseteq used' /\ shared' \subseteq used' /\ used' \subseteq Ids
        BY <1>16, DoesRollbackRemove, OpFacts DEF TypeOK
    <2>3. /\ pc' \in [Operators -> Steps] /\ cur' \in [Operators -> Local]
          /\ machine' \in [Servers -> Machine] /\ reg' \in [Ids -> Entry \cup {Absent}]
        BY <1>16, DoesRollbackRemove DEF TypeOK, Kept, Same, Moved, Entered
    <2>4. live' \subseteq Ids /\ conf' \subseteq Ids /\ overlap' \in BOOLEAN /\ faults' \in 0..MaxFaults
        BY <1>16, DoesRollbackRemove, OpFacts, LocalFacts DEF TypeOK
    <2> QED
        BY <1>16, <2>1, <2>2, <2>3, <2>4 DEF TypeOK
<1>17. ASSUME NEW o \in Operators, RollbackLoad(o) PROVE TypeOK'
    <2>1. \A q \in Operators : pc'[q] \in AddSteps \cup RollbackSteps \cup DetachSteps =>
              cur'[q].id \in used' /\ cur'[q].host \in Hosts
        BY <1>17, DoesRollbackLoad, StepNames DEF TypeOK, Kept, Same, Moved
    <2>2. told' \subseteq used' /\ leaving' \subseteq used' /\ shared' \subseteq used' /\ used' \subseteq Ids
        BY <1>17, DoesRollbackLoad, OpFacts DEF TypeOK
    <2>3. /\ pc' \in [Operators -> Steps] /\ cur' \in [Operators -> Local]
          /\ machine' \in [Servers -> Machine] /\ reg' \in [Ids -> Entry \cup {Absent}]
        BY <1>17, DoesRollbackLoad DEF TypeOK, Kept, Same, Moved
    <2>4. live' \subseteq Ids /\ conf' \subseteq Ids /\ overlap' \in BOOLEAN /\ faults' \in 0..MaxFaults
        BY <1>17, DoesRollbackLoad, OpFacts, LocalFacts DEF TypeOK
    <2> QED
        BY <1>17, <2>1, <2>2, <2>3, <2>4 DEF TypeOK
<1>18. ASSUME NEW o \in Operators, RollbackWrite(o) PROVE TypeOK'
    <2>1. \A q \in Operators : pc'[q] \in AddSteps \cup RollbackSteps \cup DetachSteps =>
              cur'[q].id \in used' /\ cur'[q].host \in Hosts
        BY <1>18, DoesRollbackWrite, StepNames DEF TypeOK, Kept, Same, Moved
    <2>2. told' \subseteq used' /\ leaving' \subseteq used' /\ shared' \subseteq used' /\ used' \subseteq Ids
        BY <1>18, DoesRollbackWrite, OpFacts DEF TypeOK
    <2>3. /\ pc' \in [Operators -> Steps] /\ cur' \in [Operators -> Local]
          /\ machine' \in [Servers -> Machine] /\ reg' \in [Ids -> Entry \cup {Absent}]
        BY <1>18, DoesRollbackWrite DEF TypeOK, Kept, Same, Moved
    <2>4. live' \subseteq Ids /\ conf' \subseteq Ids /\ overlap' \in BOOLEAN /\ faults' \in 0..MaxFaults
        BY <1>18, DoesRollbackWrite, OpFacts, LocalFacts DEF TypeOK
    <2> QED
        BY <1>18, <2>1, <2>2, <2>3, <2>4 DEF TypeOK
<1>19. ASSUME NEW o \in Operators, RollbackCleanup(o) PROVE TypeOK'
    <2>1. \A q \in Operators : pc'[q] \in AddSteps \cup RollbackSteps \cup DetachSteps =>
              cur'[q].id \in used' /\ cur'[q].host \in Hosts
        BY <1>19, DoesRollbackCleanup, StepNames, IdleFacts DEF TypeOK, Ended, Moved, Rebuilt
    <2>2. told' \subseteq used' /\ leaving' \subseteq used' /\ shared' \subseteq used' /\ used' \subseteq Ids
        BY <1>19, DoesRollbackCleanup, OpFacts, NamesUsed DEF TypeOK
    <2>3. /\ pc' \in [Operators -> Steps] /\ cur' \in [Operators -> Local]
          /\ machine' \in [Servers -> Machine] /\ reg' \in [Ids -> Entry \cup {Absent}]
        BY <1>19, DoesRollbackCleanup DEF TypeOK, Ended, Moved, Rebuilt
    <2>4. live' \subseteq Ids /\ conf' \subseteq Ids /\ overlap' \in BOOLEAN /\ faults' \in 0..MaxFaults
        BY <1>19, DoesRollbackCleanup, OpFacts, LocalFacts DEF TypeOK
    <2> QED
        BY <1>19, <2>1, <2>2, <2>3, <2>4 DEF TypeOK
<1>20. ASSUME NEW o \in Operators, RollbackStepFails(o) PROVE TypeOK'
    <2>1. CASE pc[o] = "rbCleanup"
        <3>1. \A q \in Operators : pc'[q] \in AddSteps \cup RollbackSteps \cup DetachSteps =>
              cur'[q].id \in used' /\ cur'[q].host \in Hosts
            BY <2>1, <1>20, DoesRollbackStepFailsA, StepNames, IdleFacts DEF TypeOK, Ended, Moved
        <3>2. told' \subseteq used' /\ leaving' \subseteq used' /\ shared' \subseteq used' /\ used' \subseteq Ids
            BY <2>1, <1>20, DoesRollbackStepFailsA, OpFacts, NamesUsed DEF TypeOK
        <3>3. /\ pc' \in [Operators -> Steps] /\ cur' \in [Operators -> Local]
              /\ machine' \in [Servers -> Machine] /\ reg' \in [Ids -> Entry \cup {Absent}]
            BY <2>1, <1>20, DoesRollbackStepFailsA DEF TypeOK, Ended, Moved
        <3>4. live' \subseteq Ids /\ conf' \subseteq Ids /\ overlap' \in BOOLEAN /\ faults' \in 0..MaxFaults
            BY <2>1, <1>20, DoesRollbackStepFailsA, OpFacts, LocalFacts DEF TypeOK
        <3> QED
            BY <1>20, <2>1, <3>1, <3>2, <3>3, <3>4 DEF TypeOK
    <2>2. CASE pc[o] # "rbCleanup"
        <3>1. /\ \A q \in Operators \ {o} : pc'[q] = pc[q] /\ cur'[q] = cur[q]
              /\ used \subseteq used'
            BY <2>2, <1>20, DoesRollbackStepFailsB DEF Same, Moved
        <3>2. pc'[o] \in AddSteps \cup RollbackSteps \cup DetachSteps =>
              cur'[o].id \in used' /\ cur'[o].host \in Hosts
            BY <2>2, <1>20, DoesRollbackStepFailsB, StepNames DEF TypeOK, Same, Moved, Entered
        <3>3. \A q \in Operators : pc'[q] \in AddSteps \cup RollbackSteps \cup DetachSteps =>
              cur'[q].id \in used' /\ cur'[q].host \in Hosts
            BY <3>1, <3>2 DEF TypeOK
        <3>4. told' \subseteq used' /\ leaving' \subseteq used' /\ shared' \subseteq used' /\ used' \subseteq Ids
            BY <2>2, <1>20, DoesRollbackStepFailsB, OpFacts DEF TypeOK
        <3>5. /\ pc' \in [Operators -> Steps] /\ cur' \in [Operators -> Local]
              /\ machine' \in [Servers -> Machine] /\ reg' \in [Ids -> Entry \cup {Absent}]
            BY <2>2, <1>20, DoesRollbackStepFailsB DEF TypeOK, Same, Moved, Entered
        <3>6. live' \subseteq Ids /\ conf' \subseteq Ids /\ overlap' \in BOOLEAN /\ faults' \in 0..MaxFaults
            BY <2>2, <1>20, DoesRollbackStepFailsB, OpFacts, LocalFacts DEF TypeOK
        <3> QED
            BY <1>20, <2>2, <3>1, <3>2, <3>3, <3>4, <3>5, <3>6 DEF TypeOK
    <2> QED
        BY <2>1, <2>2
<1>21. ASSUME NEW o \in Operators, NEW i \in Ids, RemoveNode(o, i) PROVE TypeOK'
    <2>1. Begun(o, i, reg[i].host, reg[i].key) /\ used \subseteq used' /\ i \in Registered
        BY <1>21, DoesRemoveNode
    <2>2. cur'[o].id \in used' /\ cur'[o].host \in Hosts
        BY <2>1, EntryFacts, KeysUsed DEF Begun
    <2>3. /\ \A q \in Operators \ {o} : pc'[q] = pc[q] /\ cur'[q] = cur[q]
          /\ used \subseteq used'
        BY <1>21, DoesRemoveNode DEF Begun, Moved
    <2>4. \A q \in Operators : pc'[q] \in AddSteps \cup RollbackSteps \cup DetachSteps =>
              cur'[q].id \in used' /\ cur'[q].host \in Hosts
        BY <2>2, <2>3 DEF TypeOK
    <2>5. told' \subseteq used' /\ leaving' \subseteq used' /\ shared' \subseteq used' /\ used' \subseteq Ids
        BY <1>21, DoesRemoveNode, OpFacts, KeysUsed, EntryFacts DEF TypeOK
    <2>6. /\ pc' \in [Operators -> Steps] /\ cur' \in [Operators -> Local]
          /\ machine' \in [Servers -> Machine] /\ reg' \in [Ids -> Entry \cup {Absent}]
        BY <1>21, DoesRemoveNode DEF TypeOK, Moved, Begun
    <2>7. live' \subseteq Ids /\ conf' \subseteq Ids /\ overlap' \in BOOLEAN /\ faults' \in 0..MaxFaults
        BY <1>21, DoesRemoveNode, OpFacts, LocalFacts DEF TypeOK
    <2> QED
        BY <1>21, <2>1, <2>2, <2>3, <2>4, <2>5, <2>6, <2>7 DEF TypeOK
<1>22. ASSUME NEW o \in Operators, NEW i \in Ids, ForceDetachNode(o, i) PROVE TypeOK'
    <2>1. Begun(o, i, reg[i].host, reg[i].key) /\ used \subseteq used' /\ i \in Registered
        BY <1>22, DoesForceDetachNode
    <2>2. cur'[o].id \in used' /\ cur'[o].host \in Hosts
        BY <2>1, EntryFacts, KeysUsed DEF Begun
    <2>3. /\ \A q \in Operators \ {o} : pc'[q] = pc[q] /\ cur'[q] = cur[q]
          /\ used \subseteq used'
        BY <1>22, DoesForceDetachNode DEF Begun, Moved
    <2>4. \A q \in Operators : pc'[q] \in AddSteps \cup RollbackSteps \cup DetachSteps =>
              cur'[q].id \in used' /\ cur'[q].host \in Hosts
        BY <2>2, <2>3 DEF TypeOK
    <2>5. told' \subseteq used' /\ leaving' \subseteq used' /\ shared' \subseteq used' /\ used' \subseteq Ids
        BY <1>22, DoesForceDetachNode, OpFacts, KeysUsed, EntryFacts DEF TypeOK
    <2>6. /\ pc' \in [Operators -> Steps] /\ cur' \in [Operators -> Local]
          /\ machine' \in [Servers -> Machine] /\ reg' \in [Ids -> Entry \cup {Absent}]
        BY <1>22, DoesForceDetachNode DEF TypeOK, Moved, Begun
    <2>7. live' \subseteq Ids /\ conf' \subseteq Ids /\ overlap' \in BOOLEAN /\ faults' \in 0..MaxFaults
        BY <1>22, DoesForceDetachNode, OpFacts, LocalFacts DEF TypeOK
    <2> QED
        BY <1>22, <2>1, <2>2, <2>3, <2>4, <2>5, <2>6, <2>7 DEF TypeOK
<1>23. ASSUME NEW o \in Operators, Uninstall(o) PROVE TypeOK'
    <2>1. CASE Reachable(o)
        <3>1. \A q \in Operators : pc'[q] \in AddSteps \cup RollbackSteps \cup DetachSteps =>
              cur'[q].id \in used' /\ cur'[q].host \in Hosts
            BY <2>1, <1>23, DoesUninstallA, StepNames DEF TypeOK, Kept, Same, Moved, Rebuilt
        <3>2. told' \subseteq used' /\ leaving' \subseteq used' /\ shared' \subseteq used' /\ used' \subseteq Ids
            BY <2>1, <1>23, DoesUninstallA, OpFacts DEF TypeOK
        <3>3. /\ pc' \in [Operators -> Steps] /\ cur' \in [Operators -> Local]
              /\ machine' \in [Servers -> Machine] /\ reg' \in [Ids -> Entry \cup {Absent}]
            BY <2>1, <1>23, DoesUninstallA DEF TypeOK, Kept, Same, Moved, Rebuilt
        <3>4. live' \subseteq Ids /\ conf' \subseteq Ids /\ overlap' \in BOOLEAN /\ faults' \in 0..MaxFaults
            BY <2>1, <1>23, DoesUninstallA, OpFacts, LocalFacts DEF TypeOK
        <3> QED
            BY <1>23, <2>1, <3>1, <3>2, <3>3, <3>4 DEF TypeOK
    <2>2. CASE ~Reachable(o)
        <3>1. \A q \in Operators : pc'[q] \in AddSteps \cup RollbackSteps \cup DetachSteps =>
              cur'[q].id \in used' /\ cur'[q].host \in Hosts
            BY <2>2, <1>23, DoesUninstallB, StepNames, IdleFacts DEF TypeOK, Ended, Moved
        <3>2. told' \subseteq used' /\ leaving' \subseteq used' /\ shared' \subseteq used' /\ used' \subseteq Ids
            BY <2>2, <1>23, DoesUninstallB, OpFacts DEF TypeOK
        <3>3. /\ pc' \in [Operators -> Steps] /\ cur' \in [Operators -> Local]
              /\ machine' \in [Servers -> Machine] /\ reg' \in [Ids -> Entry \cup {Absent}]
            BY <2>2, <1>23, DoesUninstallB DEF TypeOK, Ended, Moved
        <3>4. live' \subseteq Ids /\ conf' \subseteq Ids /\ overlap' \in BOOLEAN /\ faults' \in 0..MaxFaults
            BY <2>2, <1>23, DoesUninstallB, OpFacts, LocalFacts DEF TypeOK
        <3> QED
            BY <1>23, <2>2, <3>1, <3>2, <3>3, <3>4 DEF TypeOK
    <2> QED
        BY <2>1, <2>2
<1>24. ASSUME NEW o \in Operators, UninstallFails(o) PROVE TypeOK'
    <2>1. \A q \in Operators : pc'[q] \in AddSteps \cup RollbackSteps \cup DetachSteps =>
              cur'[q].id \in used' /\ cur'[q].host \in Hosts
        BY <1>24, DoesUninstallFails, StepNames, IdleFacts DEF TypeOK, Ended, Moved, Rebuilt
    <2>2. told' \subseteq used' /\ leaving' \subseteq used' /\ shared' \subseteq used' /\ used' \subseteq Ids
        BY <1>24, DoesUninstallFails, OpFacts DEF TypeOK
    <2>3. /\ pc' \in [Operators -> Steps] /\ cur' \in [Operators -> Local]
          /\ machine' \in [Servers -> Machine] /\ reg' \in [Ids -> Entry \cup {Absent}]
        BY <1>24, DoesUninstallFails DEF TypeOK, Ended, Moved, Rebuilt
    <2>4. live' \subseteq Ids /\ conf' \subseteq Ids /\ overlap' \in BOOLEAN /\ faults' \in 0..MaxFaults
        BY <1>24, DoesUninstallFails, OpFacts, LocalFacts DEF TypeOK
    <2> QED
        BY <1>24, <2>1, <2>2, <2>3, <2>4 DEF TypeOK
<1>25. ASSUME NEW o \in Operators, DetachLoad(o) PROVE TypeOK'
    <2>1. CASE cur[o].id \in Registered
        <3>1. \A q \in Operators : pc'[q] \in AddSteps \cup RollbackSteps \cup DetachSteps =>
              cur'[q].id \in used' /\ cur'[q].host \in Hosts
            BY <2>1, <1>25, DoesDetachLoadA, StepNames DEF TypeOK, Kept, Same, Moved
        <3>2. told' \subseteq used' /\ leaving' \subseteq used' /\ shared' \subseteq used' /\ used' \subseteq Ids
            BY <2>1, <1>25, DoesDetachLoadA, OpFacts DEF TypeOK
        <3>3. /\ pc' \in [Operators -> Steps] /\ cur' \in [Operators -> Local]
              /\ machine' \in [Servers -> Machine] /\ reg' \in [Ids -> Entry \cup {Absent}]
            BY <2>1, <1>25, DoesDetachLoadA DEF TypeOK, Kept, Same, Moved
        <3>4. live' \subseteq Ids /\ conf' \subseteq Ids /\ overlap' \in BOOLEAN /\ faults' \in 0..MaxFaults
            BY <2>1, <1>25, DoesDetachLoadA, OpFacts, LocalFacts DEF TypeOK
        <3> QED
            BY <1>25, <2>1, <3>1, <3>2, <3>3, <3>4 DEF TypeOK
    <2>2. CASE cur[o].id \notin Registered
        <3>1. \A q \in Operators : pc'[q] \in AddSteps \cup RollbackSteps \cup DetachSteps =>
              cur'[q].id \in used' /\ cur'[q].host \in Hosts
            BY <2>2, <1>25, DoesDetachLoadB, StepNames, IdleFacts DEF TypeOK, Ended, Moved
        <3>2. told' \subseteq used' /\ leaving' \subseteq used' /\ shared' \subseteq used' /\ used' \subseteq Ids
            BY <2>2, <1>25, DoesDetachLoadB, OpFacts DEF TypeOK
        <3>3. /\ pc' \in [Operators -> Steps] /\ cur' \in [Operators -> Local]
              /\ machine' \in [Servers -> Machine] /\ reg' \in [Ids -> Entry \cup {Absent}]
            BY <2>2, <1>25, DoesDetachLoadB DEF TypeOK, Ended, Moved
        <3>4. live' \subseteq Ids /\ conf' \subseteq Ids /\ overlap' \in BOOLEAN /\ faults' \in 0..MaxFaults
            BY <2>2, <1>25, DoesDetachLoadB, OpFacts, LocalFacts DEF TypeOK
        <3> QED
            BY <1>25, <2>2, <3>1, <3>2, <3>3, <3>4 DEF TypeOK
    <2> QED
        BY <2>1, <2>2
<1>26. ASSUME NEW o \in Operators, DetachWrite(o) PROVE TypeOK'
    <2>1. \A q \in Operators : pc'[q] \in AddSteps \cup RollbackSteps \cup DetachSteps =>
              cur'[q].id \in used' /\ cur'[q].host \in Hosts
        BY <1>26, DoesDetachWrite, StepNames DEF TypeOK, Kept, Same, Moved
    <2>2. told' \subseteq used' /\ leaving' \subseteq used' /\ shared' \subseteq used' /\ used' \subseteq Ids
        BY <1>26, DoesDetachWrite, OpFacts DEF TypeOK
    <2>3. /\ pc' \in [Operators -> Steps] /\ cur' \in [Operators -> Local]
          /\ machine' \in [Servers -> Machine] /\ reg' \in [Ids -> Entry \cup {Absent}]
        BY <1>26, DoesDetachWrite DEF TypeOK, Kept, Same, Moved
    <2>4. live' \subseteq Ids /\ conf' \subseteq Ids /\ overlap' \in BOOLEAN /\ faults' \in 0..MaxFaults
        BY <1>26, DoesDetachWrite, OpFacts, LocalFacts DEF TypeOK
    <2> QED
        BY <1>26, <2>1, <2>2, <2>3, <2>4 DEF TypeOK
<1>27. ASSUME NEW o \in Operators, DetachPeer(o) PROVE TypeOK'
    <2>1. \A q \in Operators : pc'[q] \in AddSteps \cup RollbackSteps \cup DetachSteps =>
              cur'[q].id \in used' /\ cur'[q].host \in Hosts
        BY <1>27, DoesDetachPeer, StepNames DEF TypeOK, Kept, Same, Moved
    <2>2. told' \subseteq used' /\ leaving' \subseteq used' /\ shared' \subseteq used' /\ used' \subseteq Ids
        BY <1>27, DoesDetachPeer, OpFacts DEF TypeOK
    <2>3. /\ pc' \in [Operators -> Steps] /\ cur' \in [Operators -> Local]
          /\ machine' \in [Servers -> Machine] /\ reg' \in [Ids -> Entry \cup {Absent}]
        BY <1>27, DoesDetachPeer DEF TypeOK, Kept, Same, Moved
    <2>4. live' \subseteq Ids /\ conf' \subseteq Ids /\ overlap' \in BOOLEAN /\ faults' \in 0..MaxFaults
        BY <1>27, DoesDetachPeer, OpFacts, LocalFacts DEF TypeOK
    <2> QED
        BY <1>27, <2>1, <2>2, <2>3, <2>4 DEF TypeOK
<1>28. ASSUME NEW o \in Operators, DetachRemove(o) PROVE TypeOK'
    <2>1. \A q \in Operators : pc'[q] \in AddSteps \cup RollbackSteps \cup DetachSteps =>
              cur'[q].id \in used' /\ cur'[q].host \in Hosts
        BY <1>28, DoesDetachRemove, StepNames, IdleFacts DEF TypeOK, Ended, Moved, Entered
    <2>2. told' \subseteq used' /\ leaving' \subseteq used' /\ shared' \subseteq used' /\ used' \subseteq Ids
        BY <1>28, DoesDetachRemove, OpFacts DEF TypeOK
    <2>3. /\ pc' \in [Operators -> Steps] /\ cur' \in [Operators -> Local]
          /\ machine' \in [Servers -> Machine] /\ reg' \in [Ids -> Entry \cup {Absent}]
        BY <1>28, DoesDetachRemove DEF TypeOK, Ended, Moved, Entered
    <2>4. live' \subseteq Ids /\ conf' \subseteq Ids /\ overlap' \in BOOLEAN /\ faults' \in 0..MaxFaults
        BY <1>28, DoesDetachRemove, OpFacts, LocalFacts DEF TypeOK
    <2> QED
        BY <1>28, <2>1, <2>2, <2>3, <2>4 DEF TypeOK
<1>29. ASSUME NEW o \in Operators, DetachStepFails(o) PROVE TypeOK'
    <2>1. \A q \in Operators : pc'[q] \in AddSteps \cup RollbackSteps \cup DetachSteps =>
              cur'[q].id \in used' /\ cur'[q].host \in Hosts
        BY <1>29, DoesDetachStepFails, StepNames, IdleFacts DEF TypeOK, Ended, Moved, Entered
    <2>2. told' \subseteq used' /\ leaving' \subseteq used' /\ shared' \subseteq used' /\ used' \subseteq Ids
        BY <1>29, DoesDetachStepFails, OpFacts DEF TypeOK
    <2>3. /\ pc' \in [Operators -> Steps] /\ cur' \in [Operators -> Local]
          /\ machine' \in [Servers -> Machine] /\ reg' \in [Ids -> Entry \cup {Absent}]
        BY <1>29, DoesDetachStepFails DEF TypeOK, Ended, Moved, Entered
    <2>4. live' \subseteq Ids /\ conf' \subseteq Ids /\ overlap' \in BOOLEAN /\ faults' \in 0..MaxFaults
        BY <1>29, DoesDetachStepFails, OpFacts, LocalFacts DEF TypeOK
    <2> QED
        BY <1>29, <2>1, <2>2, <2>3, <2>4 DEF TypeOK
<1>30. ASSUME NEW o \in Operators, EnsureOverlay(o) PROVE TypeOK'
    <2>1. \A q \in Operators : pc'[q] \in AddSteps \cup RollbackSteps \cup DetachSteps =>
              cur'[q].id \in used' /\ cur'[q].host \in Hosts
        BY <1>30, DoesEnsureOverlay, StepNames, IdleFacts, EntryFacts, KeysUsed
        DEF TypeOK, Moved
    <2>2. told' \subseteq used' /\ leaving' \subseteq used' /\ shared' \subseteq used' /\ used' \subseteq Ids
        BY <1>30, DoesEnsureOverlay, OpFacts, KeysUsed, EntryFacts DEF TypeOK
    <2>3. /\ pc' \in [Operators -> Steps] /\ cur' \in [Operators -> Local]
          /\ machine' \in [Servers -> Machine] /\ reg' \in [Ids -> Entry \cup {Absent}]
        BY <1>30, DoesEnsureOverlay DEF TypeOK, Moved
    <2>4. live' \subseteq Ids /\ conf' \subseteq Ids /\ overlap' \in BOOLEAN /\ faults' \in 0..MaxFaults
        BY <1>30, DoesEnsureOverlay, OpFacts, LocalFacts DEF TypeOK
    <2> QED
        BY <1>30, <2>1, <2>2, <2>3, <2>4 DEF TypeOK
<1>31. ASSUME NEW o \in Operators, OverlayLoad(o) PROVE TypeOK'
    <2>1. \A q \in Operators : pc'[q] \in AddSteps \cup RollbackSteps \cup DetachSteps =>
              cur'[q].id \in used' /\ cur'[q].host \in Hosts
        BY <1>31, DoesOverlayLoad, StepNames DEF TypeOK, Kept, Same, Moved
    <2>2. told' \subseteq used' /\ leaving' \subseteq used' /\ shared' \subseteq used' /\ used' \subseteq Ids
        BY <1>31, DoesOverlayLoad, OpFacts DEF TypeOK
    <2>3. /\ pc' \in [Operators -> Steps] /\ cur' \in [Operators -> Local]
          /\ machine' \in [Servers -> Machine] /\ reg' \in [Ids -> Entry \cup {Absent}]
        BY <1>31, DoesOverlayLoad DEF TypeOK, Kept, Same, Moved
    <2>4. live' \subseteq Ids /\ conf' \subseteq Ids /\ overlap' \in BOOLEAN /\ faults' \in 0..MaxFaults
        BY <1>31, DoesOverlayLoad, OpFacts, LocalFacts DEF TypeOK
    <2> QED
        BY <1>31, <2>1, <2>2, <2>3, <2>4 DEF TypeOK
<1>32. ASSUME NEW o \in Operators, OverlayWrite(o) PROVE TypeOK'
    <2>1. \A q \in Operators : pc'[q] \in AddSteps \cup RollbackSteps \cup DetachSteps =>
              cur'[q].id \in used' /\ cur'[q].host \in Hosts
        BY <1>32, DoesOverlayWrite, StepNames, IdleFacts DEF TypeOK, Ended, Moved
    <2>2. told' \subseteq used' /\ leaving' \subseteq used' /\ shared' \subseteq used' /\ used' \subseteq Ids
        BY <1>32, DoesOverlayWrite, OpFacts DEF TypeOK
    <2>3. /\ pc' \in [Operators -> Steps] /\ cur' \in [Operators -> Local]
          /\ machine' \in [Servers -> Machine] /\ reg' \in [Ids -> Entry \cup {Absent}]
        BY <1>32, DoesOverlayWrite DEF TypeOK, Ended, Moved
    <2>4. live' \subseteq Ids /\ conf' \subseteq Ids /\ overlap' \in BOOLEAN /\ faults' \in 0..MaxFaults
        BY <1>32, DoesOverlayWrite, OpFacts, LocalFacts DEF TypeOK
    <2> QED
        BY <1>32, <2>1, <2>2, <2>3, <2>4 DEF TypeOK
<1>33. ASSUME NEW o \in Operators, Crash(o) PROVE TypeOK'
    <2>1. \A q \in Operators : pc'[q] \in AddSteps \cup RollbackSteps \cup DetachSteps =>
              cur'[q].id \in used' /\ cur'[q].host \in Hosts
        BY <1>33, DoesCrash, StepNames, IdleFacts DEF TypeOK, Ended, Moved
    <2>2. told' \subseteq used' /\ leaving' \subseteq used' /\ shared' \subseteq used' /\ used' \subseteq Ids
        BY <1>33, DoesCrash, OpFacts, NamesUsed DEF TypeOK
    <2>3. /\ pc' \in [Operators -> Steps] /\ cur' \in [Operators -> Local]
          /\ machine' \in [Servers -> Machine] /\ reg' \in [Ids -> Entry \cup {Absent}]
        BY <1>33, DoesCrash DEF TypeOK, Ended, Moved
    <2>4. live' \subseteq Ids /\ conf' \subseteq Ids /\ overlap' \in BOOLEAN /\ faults' \in 0..MaxFaults
        BY <1>33, DoesCrash, OpFacts, LocalFacts DEF TypeOK
    <2> QED
        BY <1>33, <2>1, <2>2, <2>3, <2>4 DEF TypeOK
<1>34. CASE UNCHANGED vars
    BY <1>34 DEF TypeOK, vars
<1> QED
    BY <1>1, <1>2, <1>3, <1>4, <1>5, <1>6, <1>7, <1>8, <1>9, <1>10, <1>11, <1>12, <1>13,
           <1>14, <1>15, <1>16, <1>17, <1>18, <1>19, <1>20, <1>21, <1>22, <1>23, <1>24, <1>25,
           <1>26, <1>27, <1>28, <1>29, <1>30, <1>31, <1>32, <1>33, <1>34 DEF Next, Adding, RollingBack, Removing, Overlay
(* nodes.Add validates under the registry lock, and nothing else adds.     *)
LEMMA NextUnique ==
    TypeOK /\ StepInv /\ RegistryUnique /\ [Next]_vars => RegistryUnique'
<1> SUFFICES ASSUME TypeOK, StepInv, RegistryUnique, [Next]_vars
             PROVE  RegistryUnique'
    OBVIOUS
<1>1. ASSUME NEW o \in Operators, NEW i \in Ids, NEW h \in Hosts, AddNode(o, i, h)
      PROVE  RegistryUnique'
    <2>1. reg' = reg
        BY <1>1, DoesAddNode
    <2> QED
        BY <1>1, <2>1 DEF RegistryUnique, Registered
<1>2. ASSUME NEW o \in Operators, Provision(o) PROVE RegistryUnique'
    <2>1. reg' = reg
        BY <1>2, DoesProvision
    <2> QED
        BY <1>2, <2>1 DEF RegistryUnique, Registered
<1>3. ASSUME NEW o \in Operators, ProvisionFails(o) PROVE RegistryUnique'
    <2>1. reg' = reg
        BY <1>3, DoesProvisionFails
    <2> QED
        BY <1>3, <2>1 DEF RegistryUnique, Registered
<1>4. ASSUME NEW o \in Operators, Add(o) PROVE RegistryUnique'
    <2>1. CASE ValidateNew(NewEntry(o))
        <3>1. pc[o] = "register" /\ ValidateNew(NewEntry(o)) /\ Entered(o, NewEntry(o))
            BY <2>1, <1>4, DoesAddA
        <3>2. /\ Registered' = Registered \cup {cur[o].id}
              /\ reg'[cur[o].id] = NewEntry(o)
              /\ \A i \in Registered \ {cur[o].id} : reg'[i] = reg[i]
            BY <3>1, OpFacts, NewEntryType, Recording
        <3>3. /\ reg'[cur[o].id].host = cur[o].host /\ reg'[cur[o].id].ip = cur[o].ip
              /\ reg'[cur[o].id].key = cur[o].key /\ reg'[cur[o].id].installed = FALSE
            BY <3>2, NewEntryFields
        <3> QED
            BY <1>4, <2>1, OpFacts, <3>1, <3>2, <3>3 DEF RegistryUnique, ValidateNew, NewEntry
    <2>2. CASE ~ValidateNew(NewEntry(o))
        <3>1. reg' = reg
            BY <2>2, <1>4, DoesAddB
        <3> QED
            BY <1>4, <2>2, <3>1 DEF RegistryUnique, Registered
    <2> QED
        BY <2>1, <2>2
<1>5. ASSUME NEW o \in Operators, SetPeer(o) PROVE RegistryUnique'
    <2>1. reg' = reg
        BY <1>5, DoesSetPeer
    <2> QED
        BY <1>5, <2>1 DEF RegistryUnique, Registered
<1>6. ASSUME NEW o \in Operators, JoinLoad(o) PROVE RegistryUnique'
    <2>1. reg' = reg
        BY <1>6, DoesJoinLoad
    <2> QED
        BY <1>6, <2>1 DEF RegistryUnique, Registered
<1>7. ASSUME NEW o \in Operators, JoinWrite(o) PROVE RegistryUnique'
    <2>1. reg' = reg
        BY <1>7, DoesJoinWrite
    <2> QED
        BY <1>7, <2>1 DEF RegistryUnique, Registered
<1>8. ASSUME NEW o \in Operators, waitHealthy(o) PROVE RegistryUnique'
    <2>1. reg' = reg
        BY <1>8, DoesWaitHealthy
    <2> QED
        BY <1>8, <2>1 DEF RegistryUnique, Registered
<1>9. ASSUME NEW o \in Operators, installNode(o) PROVE RegistryUnique'
    <2>1. CASE Reachable(o) /\ machine[Target(o)].runtime = "none"
        <3>1. reg' = reg
            BY <2>1, <1>9, DoesInstallNodeA
        <3> QED
            BY <1>9, <2>1, <3>1 DEF RegistryUnique, Registered
    <2>2. CASE ~(Reachable(o) /\ machine[Target(o)].runtime = "none")
        <3>1. reg' = reg
            BY <2>2, <1>9, DoesInstallNodeB
        <3> QED
            BY <1>9, <2>2, <3>1 DEF RegistryUnique, Registered
    <2> QED
        BY <2>1, <2>2
<1>10. ASSUME NEW o \in Operators, installNodeFails(o) PROVE RegistryUnique'
    <2>1. reg' = reg
        BY <1>10, DoesInstallNodeFails
    <2> QED
        BY <1>10, <2>1 DEF RegistryUnique, Registered
<1>11. ASSUME NEW o \in Operators, Commit(o) PROVE RegistryUnique'
    <2>1. CASE cur[o].id \in Registered
        <3>1. Registered' = Registered /\ \A i \in Registered :
                  reg'[i].key = reg[i].key /\ reg'[i].host = reg[i].host /\ reg'[i].ip = reg[i].ip
            BY <2>1, <1>11, DoesCommitA, Installing
        <3> QED
            BY <1>11, <2>1, <3>1 DEF RegistryUnique
    <2>2. CASE cur[o].id \notin Registered
        <3>1. reg' = reg
            BY <2>2, <1>11, DoesCommitB
        <3> QED
            BY <1>11, <2>2, <3>1 DEF RegistryUnique, Registered
    <2> QED
        BY <2>1, <2>2
<1>12. ASSUME NEW o \in Operators, AddStepFails(o) PROVE RegistryUnique'
    <2>1. reg' = reg
        BY <1>12, DoesAddStepFails
    <2> QED
        BY <1>12, <2>1 DEF RegistryUnique, Registered
<1>13. ASSUME NEW o \in Operators, AddErrorAfterCommit(o) PROVE RegistryUnique'
    <2>1. CASE pc[o] = "register"
        <3>1. pc[o] = "register" /\ ValidateNew(NewEntry(o)) /\ Entered(o, NewEntry(o))
            BY <2>1, <1>13, DoesAddErrorAfterCommitA
        <3>2. /\ Registered' = Registered \cup {cur[o].id}
              /\ reg'[cur[o].id] = NewEntry(o)
              /\ \A i \in Registered \ {cur[o].id} : reg'[i] = reg[i]
            BY <3>1, OpFacts, NewEntryType, Recording
        <3>3. /\ reg'[cur[o].id].host = cur[o].host /\ reg'[cur[o].id].ip = cur[o].ip
              /\ reg'[cur[o].id].key = cur[o].key /\ reg'[cur[o].id].installed = FALSE
            BY <3>2, NewEntryFields
        <3> QED
            BY <1>13, <2>1, OpFacts, <3>1, <3>2, <3>3 DEF RegistryUnique, ValidateNew, NewEntry
    <2>2. CASE pc[o] = "commit"
        <3>1. Registered' = Registered /\ \A i \in Registered :
                  reg'[i].key = reg[i].key /\ reg'[i].host = reg[i].host /\ reg'[i].ip = reg[i].ip
            BY <2>2, <1>13, DoesAddErrorAfterCommitB, Installing
        <3> QED
            BY <1>13, <2>2, <3>1 DEF RegistryUnique
    <2> QED
        BY <2>1, <2>2, <1>13 DEF AddErrorAfterCommit
<1>14. ASSUME NEW o \in Operators, RollbackUninstall(o) PROVE RegistryUnique'
    <2>1. CASE Reachable(o) /\ machine[Target(o)].owner = cur[o].id
        <3>1. reg' = reg
            BY <2>1, <1>14, DoesRollbackUninstallA
        <3> QED
            BY <1>14, <2>1, <3>1 DEF RegistryUnique, Registered
    <2>2. CASE ~(Reachable(o) /\ machine[Target(o)].owner = cur[o].id)
        <3>1. reg' = reg
            BY <2>2, <1>14, DoesRollbackUninstallB
        <3> QED
            BY <1>14, <2>2, <3>1 DEF RegistryUnique, Registered
    <2> QED
        BY <2>1, <2>2
<1>15. ASSUME NEW o \in Operators, RollbackPeer(o) PROVE RegistryUnique'
    <2>1. reg' = reg
        BY <1>15, DoesRollbackPeer
    <2> QED
        BY <1>15, <2>1 DEF RegistryUnique, Registered
<1>16. ASSUME NEW o \in Operators, RollbackRemove(o) PROVE RegistryUnique'
    <2>1. pc[o] \in {"rbRemove", "dtRemove"} /\ Entered(o, Absent)
        BY <1>16, DoesRollbackRemove
    <2>2. Registered' = Registered \ {cur[o].id} /\ \A i \in Registered' : reg'[i] = reg[i]
        BY <2>1, OpFacts, Dropping
    <2> QED
        BY <1>16, <2>1, <2>2 DEF RegistryUnique
<1>17. ASSUME NEW o \in Operators, RollbackLoad(o) PROVE RegistryUnique'
    <2>1. reg' = reg
        BY <1>17, DoesRollbackLoad
    <2> QED
        BY <1>17, <2>1 DEF RegistryUnique, Registered
<1>18. ASSUME NEW o \in Operators, RollbackWrite(o) PROVE RegistryUnique'
    <2>1. reg' = reg
        BY <1>18, DoesRollbackWrite
    <2> QED
        BY <1>18, <2>1 DEF RegistryUnique, Registered
<1>19. ASSUME NEW o \in Operators, RollbackCleanup(o) PROVE RegistryUnique'
    <2>1. reg' = reg
        BY <1>19, DoesRollbackCleanup
    <2> QED
        BY <1>19, <2>1 DEF RegistryUnique, Registered
<1>20. ASSUME NEW o \in Operators, RollbackStepFails(o) PROVE RegistryUnique'
    <2>1. CASE pc[o] = "rbCleanup"
        <3>1. reg' = reg
            BY <2>1, <1>20, DoesRollbackStepFailsA
        <3> QED
            BY <1>20, <2>1, <3>1 DEF RegistryUnique, Registered
    <2>2. CASE pc[o] # "rbCleanup"
        <3>1. reg' = reg \/ (pc[o] \in {"rbRemove", "dtRemove"} /\ Entered(o, Absent))
            BY <2>2, <1>20, DoesRollbackStepFailsB
        <3>2. \/ reg' = reg
              \/ Registered' = Registered \ {cur[o].id} /\ \A i \in Registered' : reg'[i] = reg[i]
            BY <3>1, OpFacts, Dropping
        <3> QED
            BY <1>20, <2>2, <3>1, <3>2 DEF RegistryUnique, Registered
    <2> QED
        BY <2>1, <2>2
<1>21. ASSUME NEW o \in Operators, NEW i \in Ids, RemoveNode(o, i) PROVE RegistryUnique'
    <2>1. reg' = reg
        BY <1>21, DoesRemoveNode
    <2> QED
        BY <1>21, <2>1 DEF RegistryUnique, Registered
<1>22. ASSUME NEW o \in Operators, NEW i \in Ids, ForceDetachNode(o, i)
      PROVE  RegistryUnique'
    <2>1. reg' = reg
        BY <1>22, DoesForceDetachNode
    <2> QED
        BY <1>22, <2>1 DEF RegistryUnique, Registered
<1>23. ASSUME NEW o \in Operators, Uninstall(o) PROVE RegistryUnique'
    <2>1. CASE Reachable(o)
        <3>1. reg' = reg
            BY <2>1, <1>23, DoesUninstallA
        <3> QED
            BY <1>23, <2>1, <3>1 DEF RegistryUnique, Registered
    <2>2. CASE ~Reachable(o)
        <3>1. reg' = reg
            BY <2>2, <1>23, DoesUninstallB
        <3> QED
            BY <1>23, <2>2, <3>1 DEF RegistryUnique, Registered
    <2> QED
        BY <2>1, <2>2
<1>24. ASSUME NEW o \in Operators, UninstallFails(o) PROVE RegistryUnique'
    <2>1. reg' = reg
        BY <1>24, DoesUninstallFails
    <2> QED
        BY <1>24, <2>1 DEF RegistryUnique, Registered
<1>25. ASSUME NEW o \in Operators, DetachLoad(o) PROVE RegistryUnique'
    <2>1. CASE cur[o].id \in Registered
        <3>1. reg' = reg
            BY <2>1, <1>25, DoesDetachLoadA
        <3> QED
            BY <1>25, <2>1, <3>1 DEF RegistryUnique, Registered
    <2>2. CASE cur[o].id \notin Registered
        <3>1. reg' = reg
            BY <2>2, <1>25, DoesDetachLoadB
        <3> QED
            BY <1>25, <2>2, <3>1 DEF RegistryUnique, Registered
    <2> QED
        BY <2>1, <2>2
<1>26. ASSUME NEW o \in Operators, DetachWrite(o) PROVE RegistryUnique'
    <2>1. reg' = reg
        BY <1>26, DoesDetachWrite
    <2> QED
        BY <1>26, <2>1 DEF RegistryUnique, Registered
<1>27. ASSUME NEW o \in Operators, DetachPeer(o) PROVE RegistryUnique'
    <2>1. reg' = reg
        BY <1>27, DoesDetachPeer
    <2> QED
        BY <1>27, <2>1 DEF RegistryUnique, Registered
<1>28. ASSUME NEW o \in Operators, DetachRemove(o) PROVE RegistryUnique'
    <2>1. pc[o] \in {"rbRemove", "dtRemove"} /\ Entered(o, Absent)
        BY <1>28, DoesDetachRemove
    <2>2. Registered' = Registered \ {cur[o].id} /\ \A i \in Registered' : reg'[i] = reg[i]
        BY <2>1, OpFacts, Dropping
    <2> QED
        BY <1>28, <2>1, <2>2 DEF RegistryUnique
<1>29. ASSUME NEW o \in Operators, DetachStepFails(o) PROVE RegistryUnique'
    <2>1. reg' = reg \/ (pc[o] \in {"rbRemove", "dtRemove"} /\ Entered(o, Absent))
        BY <1>29, DoesDetachStepFails
    <2>2. \/ reg' = reg
          \/ Registered' = Registered \ {cur[o].id} /\ \A i \in Registered' : reg'[i] = reg[i]
        BY <2>1, OpFacts, Dropping
    <2> QED
        BY <1>29, <2>1, <2>2 DEF RegistryUnique, Registered
<1>30. ASSUME NEW o \in Operators, EnsureOverlay(o) PROVE RegistryUnique'
    <2>1. reg' = reg
        BY <1>30, DoesEnsureOverlay
    <2> QED
        BY <1>30, <2>1 DEF RegistryUnique, Registered
<1>31. ASSUME NEW o \in Operators, OverlayLoad(o) PROVE RegistryUnique'
    <2>1. reg' = reg
        BY <1>31, DoesOverlayLoad
    <2> QED
        BY <1>31, <2>1 DEF RegistryUnique, Registered
<1>32. ASSUME NEW o \in Operators, OverlayWrite(o) PROVE RegistryUnique'
    <2>1. reg' = reg
        BY <1>32, DoesOverlayWrite
    <2> QED
        BY <1>32, <2>1 DEF RegistryUnique, Registered
<1>33. ASSUME NEW o \in Operators, Crash(o) PROVE RegistryUnique'
    <2>1. reg' = reg
        BY <1>33, DoesCrash
    <2> QED
        BY <1>33, <2>1 DEF RegistryUnique, Registered
<1>34. CASE UNCHANGED vars
    BY <1>34 DEF RegistryUnique, Registered, vars
<1> QED
    BY <1>1, <1>2, <1>3, <1>4, <1>5, <1>6, <1>7, <1>8, <1>9, <1>10, <1>11, <1>12, <1>13,
           <1>14, <1>15, <1>16, <1>17, <1>18, <1>19, <1>20, <1>21, <1>22, <1>23, <1>24, <1>25,
           <1>26, <1>27, <1>28, <1>29, <1>30, <1>31, <1>32, <1>33, <1>34 DEF Next, Adding, RollingBack, Removing, Overlay

(* What the steps on a machine change of it.                               *)
LEMMA MachineFields ==
    ASSUME NEW m \in Machine, NEW i
    PROVE  /\ Provisioned(m, i).key = (IF m.key = NoId THEN i ELSE m.key)
           /\ Provisioned(m, i).agent = i /\ Provisioned(m, i).owner = m.owner
           /\ Provisioned(m, i).runtime = m.runtime
           /\ CleanedUp(m).key = NoId /\ CleanedUp(m).agent = NoId /\ CleanedUp(m).owner = NoId
           /\ CleanedUp(m).runtime = m.runtime
           /\ AgentInstalled(m, i).key = m.key /\ AgentInstalled(m, i).agent = m.agent
           /\ IF m.runtime = "none"
                THEN AgentInstalled(m, i).owner = i /\ AgentInstalled(m, i).runtime = "own"
                ELSE AgentInstalled(m, i) = m
           /\ Clean.key = NoId /\ Clean.agent = NoId /\ Clean.owner = NoId /\ Clean.runtime = "none"
           /\ Owned(m, i).key = m.key /\ Owned(m, i).agent = m.agent
           /\ Owned(m, i).owner = i /\ Owned(m, i).runtime = m.runtime
    BY DEF Machine, Provisioned, CleanedUp, AgentInstalled, Clean, Owned

\* An uninstall takes the runtime and nothing else.
LEMMA StrippedFields ==
    ASSUME NEW m \in Machine
    PROVE  /\ Stripped(m).key = m.key /\ Stripped(m).agent = m.agent
           /\ Stripped(m).owner = m.owner /\ Stripped(m).runtime = "none"
    BY DEF Machine, Stripped

(* IDs and keys stay with the machine whose add generated them.            *)
LEMMA NextHomeInv ==
    TypeOK /\ StepInv /\ HomeInv /\ [Next]_vars => HomeInv'
<1> SUFFICES ASSUME TypeOK, StepInv, HomeInv, [Next]_vars
             PROVE  HomeInv'
    OBVIOUS
<1> PICK home \in [used -> Servers] : HomeOf(home)
    BY DEF HomeInv
<1>1. ASSUME NEW o \in Operators, NEW i \in Ids, NEW h \in Hosts, AddNode(o, i, h)
      PROVE  HomeInv'
    <2>1. reg' = reg /\ machine' = machine /\ used' = used \cup {i} /\ i \notin used
        BY <1>1, DoesAddNode
    <2>2. /\ \A q \in Operators \ {o} : cur'[q] = cur[q]
          /\ cur'[o].id = i /\ cur'[o].host = h /\ cur'[o].key = NoId
        BY <1>1, DoesAddNode DEF Begun
    <2>3. PICK nhome \in [used' -> Servers] : nhome[i] = HostOf[h] /\ \A j \in used : nhome[j] = home[j]
        <3>1. [j \in used' |-> IF j = i THEN HostOf[h] ELSE home[j]] \in [used' -> Servers]
            BY <2>1, HostsNameServers
        <3> QED
            BY <3>1, <2>1
    <2>4. Registered' = Registered /\ used' = used \cup {i}
        BY <2>1 DEF Registered
    <2>5. \A q \in Operators \ {o} : Target(q)' = Target(q)
        BY <2>2 DEF Target
    <2>6. Target(o)' = HostOf[h]
        BY <2>2 DEF Target
    <2>7. MachinesHome(nhome)' /\ NodesHome(nhome)'
        BY <2>1, <2>3, <2>4 DEF HomeOf, MachinesHome, NodesHome
    <2>8. OperatorsHome(nhome)'
        BY <2>1, <2>2, <2>3, <2>5, <2>6 DEF HomeOf, OperatorsHome
    <2> QED
        BY <2>3, <2>7, <2>8 DEF HomeInv, HomeOf
<1>2. ASSUME NEW o \in Operators, Provision(o) PROVE HomeInv'
    <2>1. reg' = reg
        BY <1>2, DoesProvision
    <2>2. machine[Target(o)] \in Machine /\ Target(o) \in Servers /\ cur[o].id \in Ids
        BY <1>2, DoesProvision, OpFacts, StepNames
    <2>3. /\ \A s \in Servers \ {Target(o)} : machine'[s] = machine[s]
          /\ machine'[Target(o)].key = (IF machine[Target(o)].key = NoId THEN cur[o].id ELSE machine[Target(o)].key) /\ machine'[Target(o)].agent = cur[o].id
          /\ machine'[Target(o)].owner = machine[Target(o)].owner /\ machine'[Target(o)].runtime = machine[Target(o)].runtime
        BY <1>2, DoesProvision, <2>2, MachineFields DEF Rebuilt
    <2>4. /\ \A q \in Operators \ {o} : pc'[q] = pc[q] /\ cur'[q] = cur[q]
          /\ pc[o] = "provision"
          /\ pc'[o] = "register"
          /\ cur'[o].id = cur[o].id /\ cur'[o].host = cur[o].host
          /\ cur'[o].touched = cur[o].touched /\ cur'[o].failed = cur[o].failed
          /\ cur'[o].key = (IF machine[Target(o)].key = NoId THEN cur[o].id ELSE machine[Target(o)].key)
        BY <1>2, DoesProvision, MachineFields, OpFacts DEF Same, Moved
    <2>5. used' = used
        BY <1>2, DoesProvision
    <2>6. MachinesHome(home)'
        BY <2>2, <2>3, <2>4, <2>5, OpFacts, NoIdIsNoNode DEF HomeOf, MachinesHome, OperatorsHome
    <2>7. NodesHome(home)'
        BY <2>1, <2>5, EntryFacts DEF HomeOf, NodesHome, Registered
    <2>8. OperatorsHome(home)'
        BY <2>2, <2>3, <2>4, <2>5, EntryFacts, OpFacts, NoIdIsNoNode
        DEF HomeOf, OperatorsHome, Target, MachinesHome
    <2>9. HomeOf(home)'
        BY <2>6, <2>7, <2>8 DEF HomeOf
    <2> QED
        BY <1>2, <2>1, <2>2, <2>3, <2>4, <2>5, <2>6, <2>7, <2>8, <2>9 DEF HomeInv
<1>3. ASSUME NEW o \in Operators, ProvisionFails(o) PROVE HomeInv'
    <2>1. reg' = reg
        BY <1>3, DoesProvisionFails
    <2>2. machine[Target(o)] \in Machine /\ Target(o) \in Servers /\ cur[o].id \in Ids
        BY <1>3, DoesProvisionFails, OpFacts, StepNames
    <2>3. \/ machine' = machine
          \/ /\ \A s \in Servers \ {Target(o)} : machine'[s] = machine[s]
             /\ machine'[Target(o)].key = NoId /\ machine'[Target(o)].agent = NoId /\ machine'[Target(o)].owner = NoId
          \/ /\ \A s \in Servers \ {Target(o)} : machine'[s] = machine[s]
             /\ machine'[Target(o)].key = (IF machine[Target(o)].key = NoId THEN cur[o].id ELSE machine[Target(o)].key) /\ machine'[Target(o)].agent = cur[o].id
             /\ machine'[Target(o)].owner = machine[Target(o)].owner /\ machine'[Target(o)].runtime = machine[Target(o)].runtime
        BY <1>3, DoesProvisionFails, <2>2, MachineFields DEF Rebuilt
    <2>4. /\ \A q \in Operators \ {o} : pc'[q] = pc[q] /\ cur'[q] = cur[q]
          /\ pc[o] = "provision"
          /\ pc'[o] = "idle" /\ cur'[o].id = NoId /\ cur'[o].host = NoId /\ cur'[o].key = NoId
          /\ cur'[o].touched = FALSE /\ cur'[o].failed = FALSE
        BY <1>3, DoesProvisionFails, IdleFacts DEF Ended, Moved
    <2>5. used' = used
        BY <1>3, DoesProvisionFails
    <2>6. MachinesHome(home)'
        BY <2>2, <2>3, <2>5, OpFacts, NoIdIsNoNode DEF HomeOf, MachinesHome, OperatorsHome
    <2>7. NodesHome(home)'
        BY <2>1, <2>5, EntryFacts DEF HomeOf, NodesHome, Registered
    <2>8. OperatorsHome(home)'
        BY <2>4, <2>5, EntryFacts, OpFacts, NoIdIsNoNode DEF HomeOf, OperatorsHome, Target
    <2>9. HomeOf(home)'
        BY <2>6, <2>7, <2>8 DEF HomeOf
    <2> QED
        BY <1>3, <2>1, <2>2, <2>3, <2>4, <2>5, <2>6, <2>7, <2>8, <2>9 DEF HomeInv
<1>4. ASSUME NEW o \in Operators, Add(o) PROVE HomeInv'
    <2>1. CASE ValidateNew(NewEntry(o))
        <3>1. pc[o] = "register" /\ ValidateNew(NewEntry(o)) /\ Entered(o, NewEntry(o))
            BY <2>1, <1>4, DoesAddA
        <3>2. /\ Registered' = Registered \cup {cur[o].id}
              /\ reg'[cur[o].id] = NewEntry(o)
              /\ \A i \in Registered \ {cur[o].id} : reg'[i] = reg[i]
            BY <3>1, OpFacts, NewEntryType, Recording
        <3>3. /\ reg'[cur[o].id].host = cur[o].host /\ reg'[cur[o].id].ip = cur[o].ip
              /\ reg'[cur[o].id].key = cur[o].key /\ reg'[cur[o].id].installed = FALSE
            BY <3>2, NewEntryFields
        <3>4. machine' = machine
            BY <2>1, <1>4, DoesAddA
        <3>5. /\ \A q \in Operators \ {o} : pc'[q] = pc[q] /\ cur'[q] = cur[q]
              /\ pc[o] = "register"
              /\ pc'[o] = "setpeer"
              /\ cur'[o].id = cur[o].id /\ cur'[o].host = cur[o].host /\ cur'[o].key = cur[o].key
              /\ cur'[o].touched = TRUE /\ cur'[o].failed = cur[o].failed
            BY <2>1, <1>4, DoesAddA DEF Same, Moved
        <3>6. used' = used
            BY <2>1, <1>4, DoesAddA
        <3>7. MachinesHome(home)'
            BY <3>4, <3>6 DEF HomeOf, MachinesHome
        <3>8. NodesHome(home)'
            BY <3>2, <3>3, <3>5, <3>6, EntryFacts, OpFacts, NoIdIsNoNode
            DEF HomeOf, NodesHome, OperatorsHome, Target
        <3>9. OperatorsHome(home)'
            BY <3>5, <3>6, EntryFacts, OpFacts, NoIdIsNoNode DEF HomeOf, OperatorsHome, Target
        <3>10. HomeOf(home)'
            BY <3>7, <3>8, <3>9 DEF HomeOf
        <3> QED
            BY <1>4, <2>1, <3>1, <3>2, <3>3, <3>4, <3>5, <3>6, <3>7, <3>8, <3>9, <3>10 DEF HomeInv
    <2>2. CASE ~ValidateNew(NewEntry(o))
        <3>1. reg' = reg
            BY <2>2, <1>4, DoesAddB
        <3>2. machine' = machine
            BY <2>2, <1>4, DoesAddB
        <3>3. /\ \A q \in Operators \ {o} : pc'[q] = pc[q] /\ cur'[q] = cur[q]
              /\ pc[o] = "register"
              /\ pc'[o] \in {"rbUninstall", "rbPeer"}
              /\ cur'[o].id = cur[o].id /\ cur'[o].host = cur[o].host /\ cur'[o].key = cur[o].key
              /\ cur'[o].touched = cur[o].touched /\ cur'[o].failed = cur[o].failed
            BY <2>2, <1>4, DoesAddB DEF Kept, Same, Moved
        <3>4. used' = used
            BY <2>2, <1>4, DoesAddB
        <3>5. MachinesHome(home)'
            BY <3>2, <3>4 DEF HomeOf, MachinesHome
        <3>6. NodesHome(home)'
            BY <3>1, <3>3, <3>4, EntryFacts, OpFacts, NoIdIsNoNode
            DEF HomeOf, NodesHome, Registered, OperatorsHome, Target
        <3>7. OperatorsHome(home)'
            BY <3>3, <3>4, EntryFacts, OpFacts, NoIdIsNoNode DEF HomeOf, OperatorsHome, Target
        <3>8. HomeOf(home)'
            BY <3>5, <3>6, <3>7 DEF HomeOf
        <3> QED
            BY <1>4, <2>2, <3>1, <3>2, <3>3, <3>4, <3>5, <3>6, <3>7, <3>8 DEF HomeInv
    <2> QED
        BY <2>1, <2>2
<1>5. ASSUME NEW o \in Operators, SetPeer(o) PROVE HomeInv'
    <2>1. reg' = reg
        BY <1>5, DoesSetPeer
    <2>2. machine' = machine
        BY <1>5, DoesSetPeer
    <2>3. /\ \A q \in Operators \ {o} : pc'[q] = pc[q] /\ cur'[q] = cur[q]
          /\ pc[o] = "setpeer"
          /\ pc'[o] = "load"
          /\ cur'[o].id = cur[o].id /\ cur'[o].host = cur[o].host /\ cur'[o].key = cur[o].key
          /\ cur'[o].touched = cur[o].touched /\ cur'[o].failed = cur[o].failed
        BY <1>5, DoesSetPeer DEF Kept, Same, Moved
    <2>4. used' = used
        BY <1>5, DoesSetPeer
    <2>5. MachinesHome(home)'
        BY <2>2, <2>4 DEF HomeOf, MachinesHome
    <2>6. NodesHome(home)'
        BY <2>1, <2>4, EntryFacts DEF HomeOf, NodesHome, Registered
    <2>7. OperatorsHome(home)'
        BY <2>3, <2>4, EntryFacts, OpFacts, NoIdIsNoNode DEF HomeOf, OperatorsHome, Target
    <2>8. HomeOf(home)'
        BY <2>5, <2>6, <2>7 DEF HomeOf
    <2> QED
        BY <1>5, <2>1, <2>2, <2>3, <2>4, <2>5, <2>6, <2>7, <2>8 DEF HomeInv
<1>6. ASSUME NEW o \in Operators, JoinLoad(o) PROVE HomeInv'
    <2>1. reg' = reg
        BY <1>6, DoesJoinLoad
    <2>2. machine' = machine
        BY <1>6, DoesJoinLoad
    <2>3. /\ \A q \in Operators \ {o} : pc'[q] = pc[q] /\ cur'[q] = cur[q]
          /\ pc[o] = "load"
          /\ pc'[o] = "write"
          /\ cur'[o].id = cur[o].id /\ cur'[o].host = cur[o].host /\ cur'[o].key = cur[o].key
          /\ cur'[o].touched = cur[o].touched /\ cur'[o].failed = cur[o].failed
          /\ cur'[o].list = RegKeys
        BY <1>6, DoesJoinLoad DEF Kept, Same, Moved
    <2>4. used' = used
        BY <1>6, DoesJoinLoad
    <2>5. MachinesHome(home)'
        BY <2>2, <2>4 DEF HomeOf, MachinesHome
    <2>6. NodesHome(home)'
        BY <2>1, <2>4, EntryFacts DEF HomeOf, NodesHome, Registered
    <2>7. OperatorsHome(home)'
        BY <2>3, <2>4, EntryFacts, OpFacts, NoIdIsNoNode DEF HomeOf, OperatorsHome, Target
    <2>8. HomeOf(home)'
        BY <2>5, <2>6, <2>7 DEF HomeOf
    <2> QED
        BY <1>6, <2>1, <2>2, <2>3, <2>4, <2>5, <2>6, <2>7, <2>8 DEF HomeInv
<1>7. ASSUME NEW o \in Operators, JoinWrite(o) PROVE HomeInv'
    <2>1. reg' = reg
        BY <1>7, DoesJoinWrite
    <2>2. machine' = machine
        BY <1>7, DoesJoinWrite
    <2>3. /\ \A q \in Operators \ {o} : pc'[q] = pc[q] /\ cur'[q] = cur[q]
          /\ pc[o] = "write"
          /\ pc'[o] = "health"
          /\ cur'[o].id = cur[o].id /\ cur'[o].host = cur[o].host /\ cur'[o].key = cur[o].key
          /\ cur'[o].touched = cur[o].touched /\ cur'[o].failed = cur[o].failed
        BY <1>7, DoesJoinWrite DEF Kept, Same, Moved
    <2>4. used' = used
        BY <1>7, DoesJoinWrite
    <2>5. MachinesHome(home)'
        BY <2>2, <2>4 DEF HomeOf, MachinesHome
    <2>6. NodesHome(home)'
        BY <2>1, <2>4, EntryFacts DEF HomeOf, NodesHome, Registered
    <2>7. OperatorsHome(home)'
        BY <2>3, <2>4, EntryFacts, OpFacts, NoIdIsNoNode DEF HomeOf, OperatorsHome, Target
    <2>8. HomeOf(home)'
        BY <2>5, <2>6, <2>7 DEF HomeOf
    <2> QED
        BY <1>7, <2>1, <2>2, <2>3, <2>4, <2>5, <2>6, <2>7, <2>8 DEF HomeInv
<1>8. ASSUME NEW o \in Operators, waitHealthy(o) PROVE HomeInv'
    <2>1. reg' = reg
        BY <1>8, DoesWaitHealthy
    <2>2. machine' = machine
        BY <1>8, DoesWaitHealthy
    <2>3. /\ \A q \in Operators \ {o} : pc'[q] = pc[q] /\ cur'[q] = cur[q]
          /\ pc[o] = "health"
          /\ pc'[o] \in {"install", "rbUninstall", "rbPeer"}
          /\ cur'[o].id = cur[o].id /\ cur'[o].host = cur[o].host /\ cur'[o].key = cur[o].key
          /\ cur'[o].touched = cur[o].touched /\ cur'[o].failed = cur[o].failed
        BY <1>8, DoesWaitHealthy DEF Kept, Same, Moved
    <2>4. used' = used
        BY <1>8, DoesWaitHealthy
    <2>5. MachinesHome(home)'
        BY <2>2, <2>4 DEF HomeOf, MachinesHome
    <2>6. NodesHome(home)'
        BY <2>1, <2>4, EntryFacts DEF HomeOf, NodesHome, Registered
    <2>7. OperatorsHome(home)'
        BY <2>3, <2>4, EntryFacts, OpFacts, NoIdIsNoNode DEF HomeOf, OperatorsHome, Target
    <2>8. HomeOf(home)'
        BY <2>5, <2>6, <2>7 DEF HomeOf
    <2> QED
        BY <1>8, <2>1, <2>2, <2>3, <2>4, <2>5, <2>6, <2>7, <2>8 DEF HomeInv
<1>9. ASSUME NEW o \in Operators, installNode(o) PROVE HomeInv'
    <2>1. CASE Reachable(o) /\ machine[Target(o)].runtime = "none"
        <3>1. reg' = reg
            BY <2>1, <1>9, DoesInstallNodeA
        <3>2. machine[Target(o)] \in Machine /\ Target(o) \in Servers /\ cur[o].id \in Ids
            BY <2>1, <1>9, DoesInstallNodeA, OpFacts, StepNames
        <3>3. /\ \A s \in Servers \ {Target(o)} : machine'[s] = machine[s]
              /\ machine'[Target(o)].key = machine[Target(o)].key /\ machine'[Target(o)].agent = machine[Target(o)].agent
              /\ machine'[Target(o)].owner = cur[o].id /\ machine'[Target(o)].runtime = "own"
            BY <2>1, <1>9, DoesInstallNodeA, <3>2, MachineFields DEF Rebuilt
        <3>4. /\ \A q \in Operators \ {o} : pc'[q] = pc[q] /\ cur'[q] = cur[q]
              /\ pc[o] = "install"
              /\ pc'[o] = "commit"
              /\ cur'[o].id = cur[o].id /\ cur'[o].host = cur[o].host /\ cur'[o].key = cur[o].key
              /\ cur'[o].touched = cur[o].touched /\ cur'[o].failed = cur[o].failed
            BY <2>1, <1>9, DoesInstallNodeA DEF Kept, Same, Moved
        <3>5. used' = used
            BY <2>1, <1>9, DoesInstallNodeA
        <3>6. MachinesHome(home)'
            BY <3>2, <3>3, <3>5, OpFacts, NoIdIsNoNode DEF HomeOf, MachinesHome, OperatorsHome
        <3>7. NodesHome(home)'
            BY <3>1, <3>5, EntryFacts DEF HomeOf, NodesHome, Registered
        <3>8. OperatorsHome(home)'
            BY <3>4, <3>5, EntryFacts, OpFacts, NoIdIsNoNode DEF HomeOf, OperatorsHome, Target
        <3>9. HomeOf(home)'
            BY <3>6, <3>7, <3>8 DEF HomeOf
        <3> QED
            BY <1>9, <2>1, <3>1, <3>2, <3>3, <3>4, <3>5, <3>6, <3>7, <3>8, <3>9 DEF HomeInv
    <2>2. CASE ~(Reachable(o) /\ machine[Target(o)].runtime = "none")
        <3>1. reg' = reg
            BY <2>2, <1>9, DoesInstallNodeB
        <3>2. machine' = machine
            BY <2>2, <1>9, DoesInstallNodeB
        <3>3. /\ \A q \in Operators \ {o} : pc'[q] = pc[q] /\ cur'[q] = cur[q]
              /\ pc[o] = "install"
              /\ pc'[o] \in {"rbUninstall", "rbPeer"}
              /\ cur'[o].id = cur[o].id /\ cur'[o].host = cur[o].host /\ cur'[o].key = cur[o].key
              /\ cur'[o].touched = cur[o].touched /\ cur'[o].failed = cur[o].failed
            BY <2>2, <1>9, DoesInstallNodeB DEF Kept, Same, Moved
        <3>4. used' = used
            BY <2>2, <1>9, DoesInstallNodeB
        <3>5. MachinesHome(home)'
            BY <3>2, <3>4 DEF HomeOf, MachinesHome
        <3>6. NodesHome(home)'
            BY <3>1, <3>4, EntryFacts DEF HomeOf, NodesHome, Registered
        <3>7. OperatorsHome(home)'
            BY <3>3, <3>4, EntryFacts, OpFacts, NoIdIsNoNode DEF HomeOf, OperatorsHome, Target
        <3>8. HomeOf(home)'
            BY <3>5, <3>6, <3>7 DEF HomeOf
        <3> QED
            BY <1>9, <2>2, <3>1, <3>2, <3>3, <3>4, <3>5, <3>6, <3>7, <3>8 DEF HomeInv
    <2> QED
        BY <2>1, <2>2
<1>10. ASSUME NEW o \in Operators, installNodeFails(o) PROVE HomeInv'
    <2>1. reg' = reg
        BY <1>10, DoesInstallNodeFails
    <2>2. machine[Target(o)] \in Machine /\ Target(o) \in Servers /\ cur[o].id \in Ids
        BY <1>10, DoesInstallNodeFails, OpFacts, StepNames
    <2>3. \/ machine' = machine
          \/ /\ \A s \in Servers \ {Target(o)} : machine'[s] = machine[s]
             /\ machine'[Target(o)].key = machine[Target(o)].key /\ machine'[Target(o)].agent = machine[Target(o)].agent
             /\ machine'[Target(o)].owner = cur[o].id /\ machine'[Target(o)].runtime = "own"
          \/ /\ \A s \in Servers \ {Target(o)} : machine'[s] = machine[s]
             /\ machine'[Target(o)].key = machine[Target(o)].key /\ machine'[Target(o)].agent = machine[Target(o)].agent
             /\ machine'[Target(o)].owner = cur[o].id /\ machine'[Target(o)].runtime = "none"
        BY <1>10, DoesInstallNodeFails, <2>2, MachineFields DEF Rebuilt
    <2>4. /\ \A q \in Operators \ {o} : pc'[q] = pc[q] /\ cur'[q] = cur[q]
          /\ pc[o] = "install"
          /\ pc'[o] \in {"rbUninstall", "rbPeer"}
          /\ cur'[o].id = cur[o].id /\ cur'[o].host = cur[o].host /\ cur'[o].key = cur[o].key
          /\ cur'[o].touched = cur[o].touched /\ cur'[o].failed = cur[o].failed
        BY <1>10, DoesInstallNodeFails DEF Kept, Same, Moved
    <2>5. used' = used
        BY <1>10, DoesInstallNodeFails
    <2>6. MachinesHome(home)'
        BY <2>2, <2>3, <2>5, OpFacts, NoIdIsNoNode DEF HomeOf, MachinesHome, OperatorsHome
    <2>7. NodesHome(home)'
        BY <2>1, <2>5, EntryFacts DEF HomeOf, NodesHome, Registered
    <2>8. OperatorsHome(home)'
        BY <2>4, <2>5, EntryFacts, OpFacts, NoIdIsNoNode DEF HomeOf, OperatorsHome, Target
    <2>9. HomeOf(home)'
        BY <2>6, <2>7, <2>8 DEF HomeOf
    <2> QED
        BY <1>10, <2>1, <2>2, <2>3, <2>4, <2>5, <2>6, <2>7, <2>8, <2>9 DEF HomeInv
<1>11. ASSUME NEW o \in Operators, Commit(o) PROVE HomeInv'
    <2>1. CASE cur[o].id \in Registered
        <3>1. Registered' = Registered /\ \A i \in Registered :
                  reg'[i].key = reg[i].key /\ reg'[i].host = reg[i].host /\ reg'[i].ip = reg[i].ip
            BY <2>1, <1>11, DoesCommitA, Installing
        <3>2. machine' = machine
            BY <2>1, <1>11, DoesCommitA
        <3>3. /\ \A q \in Operators \ {o} : pc'[q] = pc[q] /\ cur'[q] = cur[q]
              /\ pc[o] = "commit"
              /\ pc'[o] = "idle" /\ cur'[o].id = NoId /\ cur'[o].host = NoId /\ cur'[o].key = NoId
              /\ cur'[o].touched = FALSE /\ cur'[o].failed = FALSE
            BY <2>1, <1>11, DoesCommitA, IdleFacts DEF Ended, Moved
        <3>4. used' = used
            BY <2>1, <1>11, DoesCommitA
        <3>5. MachinesHome(home)'
            BY <3>2, <3>4 DEF HomeOf, MachinesHome
        <3>6. NodesHome(home)'
            BY <3>1, <3>4, EntryFacts DEF HomeOf, NodesHome
        <3>7. OperatorsHome(home)'
            BY <3>3, <3>4, EntryFacts, OpFacts, NoIdIsNoNode DEF HomeOf, OperatorsHome, Target
        <3>8. HomeOf(home)'
            BY <3>5, <3>6, <3>7 DEF HomeOf
        <3> QED
            BY <1>11, <2>1, <3>1, <3>2, <3>3, <3>4, <3>5, <3>6, <3>7, <3>8 DEF HomeInv
    <2>2. CASE cur[o].id \notin Registered
        <3>1. reg' = reg
            BY <2>2, <1>11, DoesCommitB
        <3>2. machine' = machine
            BY <2>2, <1>11, DoesCommitB
        <3>3. /\ \A q \in Operators \ {o} : pc'[q] = pc[q] /\ cur'[q] = cur[q]
              /\ pc[o] = "commit"
              /\ pc'[o] \in {"rbUninstall", "rbPeer"}
              /\ cur'[o].id = cur[o].id /\ cur'[o].host = cur[o].host /\ cur'[o].key = cur[o].key
              /\ cur'[o].touched = cur[o].touched /\ cur'[o].failed = cur[o].failed
            BY <2>2, <1>11, DoesCommitB DEF Kept, Same, Moved
        <3>4. used' = used
            BY <2>2, <1>11, DoesCommitB
        <3>5. MachinesHome(home)'
            BY <3>2, <3>4 DEF HomeOf, MachinesHome
        <3>6. NodesHome(home)'
            BY <3>1, <3>4, EntryFacts DEF HomeOf, NodesHome, Registered
        <3>7. OperatorsHome(home)'
            BY <3>3, <3>4, EntryFacts, OpFacts, NoIdIsNoNode DEF HomeOf, OperatorsHome, Target
        <3>8. HomeOf(home)'
            BY <3>5, <3>6, <3>7 DEF HomeOf
        <3> QED
            BY <1>11, <2>2, <3>1, <3>2, <3>3, <3>4, <3>5, <3>6, <3>7, <3>8 DEF HomeInv
    <2> QED
        BY <2>1, <2>2
<1>12. ASSUME NEW o \in Operators, AddStepFails(o) PROVE HomeInv'
    <2>1. reg' = reg
        BY <1>12, DoesAddStepFails
    <2>2. machine' = machine
        BY <1>12, DoesAddStepFails
    <2>3. /\ \A q \in Operators \ {o} : pc'[q] = pc[q] /\ cur'[q] = cur[q]
          /\ pc[o] \in {"register", "setpeer", "load", "write", "health", "commit"}
          /\ pc'[o] \in {"rbUninstall", "rbPeer"}
          /\ cur'[o].id = cur[o].id /\ cur'[o].host = cur[o].host /\ cur'[o].key = cur[o].key
          /\ cur'[o].touched = cur[o].touched /\ cur'[o].failed = cur[o].failed
        BY <1>12, DoesAddStepFails DEF Kept, Same, Moved
    <2>4. used' = used
        BY <1>12, DoesAddStepFails
    <2>5. MachinesHome(home)'
        BY <2>2, <2>4 DEF HomeOf, MachinesHome
    <2>6. NodesHome(home)'
        BY <2>1, <2>4, EntryFacts DEF HomeOf, NodesHome, Registered
    <2>7. OperatorsHome(home)'
        BY <2>3, <2>4, EntryFacts, OpFacts, NoIdIsNoNode DEF HomeOf, OperatorsHome, Target
    <2>8. HomeOf(home)'
        BY <2>5, <2>6, <2>7 DEF HomeOf
    <2> QED
        BY <1>12, <2>1, <2>2, <2>3, <2>4, <2>5, <2>6, <2>7, <2>8 DEF HomeInv
<1>13. ASSUME NEW o \in Operators, AddErrorAfterCommit(o) PROVE HomeInv'
    <2>1. CASE pc[o] = "register"
        <3>1. pc[o] = "register" /\ ValidateNew(NewEntry(o)) /\ Entered(o, NewEntry(o))
            BY <2>1, <1>13, DoesAddErrorAfterCommitA
        <3>2. /\ Registered' = Registered \cup {cur[o].id}
              /\ reg'[cur[o].id] = NewEntry(o)
              /\ \A i \in Registered \ {cur[o].id} : reg'[i] = reg[i]
            BY <3>1, OpFacts, NewEntryType, Recording
        <3>3. /\ reg'[cur[o].id].host = cur[o].host /\ reg'[cur[o].id].ip = cur[o].ip
              /\ reg'[cur[o].id].key = cur[o].key /\ reg'[cur[o].id].installed = FALSE
            BY <3>2, NewEntryFields
        <3>4. machine' = machine
            BY <2>1, <1>13, DoesAddErrorAfterCommitA
        <3>5. /\ \A q \in Operators \ {o} : pc'[q] = pc[q] /\ cur'[q] = cur[q]
              /\ pc[o] = "register"
              /\ pc'[o] \in {"rbUninstall", "rbPeer"}
              /\ cur'[o].id = cur[o].id /\ cur'[o].host = cur[o].host /\ cur'[o].key = cur[o].key
              /\ cur'[o].touched = cur[o].touched /\ cur'[o].failed = cur[o].failed
            BY <2>1, <1>13, DoesAddErrorAfterCommitA DEF Kept, Same, Moved
        <3>6. used' = used
            BY <2>1, <1>13, DoesAddErrorAfterCommitA
        <3>7. MachinesHome(home)'
            BY <3>4, <3>6 DEF HomeOf, MachinesHome
        <3>8. NodesHome(home)'
            BY <3>2, <3>3, <3>5, <3>6, EntryFacts, OpFacts, NoIdIsNoNode
            DEF HomeOf, NodesHome, OperatorsHome, Target
        <3>9. OperatorsHome(home)'
            BY <3>5, <3>6, EntryFacts, OpFacts, NoIdIsNoNode DEF HomeOf, OperatorsHome, Target
        <3>10. HomeOf(home)'
            BY <3>7, <3>8, <3>9 DEF HomeOf
        <3> QED
            BY <1>13, <2>1, <3>1, <3>2, <3>3, <3>4, <3>5, <3>6, <3>7, <3>8, <3>9, <3>10 DEF HomeInv
    <2>2. CASE pc[o] = "commit"
        <3>1. Registered' = Registered /\ \A i \in Registered :
                  reg'[i].key = reg[i].key /\ reg'[i].host = reg[i].host /\ reg'[i].ip = reg[i].ip
            BY <2>2, <1>13, DoesAddErrorAfterCommitB, Installing
        <3>2. machine' = machine
            BY <2>2, <1>13, DoesAddErrorAfterCommitB
        <3>3. /\ \A q \in Operators \ {o} : pc'[q] = pc[q] /\ cur'[q] = cur[q]
              /\ pc[o] = "commit"
              /\ pc'[o] \in {"rbUninstall", "rbPeer"}
              /\ cur'[o].id = cur[o].id /\ cur'[o].host = cur[o].host /\ cur'[o].key = cur[o].key
              /\ cur'[o].touched = cur[o].touched /\ cur'[o].failed = cur[o].failed
            BY <2>2, <1>13, DoesAddErrorAfterCommitB DEF Kept, Same, Moved
        <3>4. used' = used
            BY <2>2, <1>13, DoesAddErrorAfterCommitB
        <3>5. MachinesHome(home)'
            BY <3>2, <3>4 DEF HomeOf, MachinesHome
        <3>6. NodesHome(home)'
            BY <3>1, <3>3, <3>4, EntryFacts, OpFacts, NoIdIsNoNode
            DEF HomeOf, NodesHome, OperatorsHome, Target
        <3>7. OperatorsHome(home)'
            BY <3>3, <3>4, EntryFacts, OpFacts, NoIdIsNoNode DEF HomeOf, OperatorsHome, Target
        <3>8. HomeOf(home)'
            BY <3>5, <3>6, <3>7 DEF HomeOf
        <3> QED
            BY <1>13, <2>2, <3>1, <3>2, <3>3, <3>4, <3>5, <3>6, <3>7, <3>8 DEF HomeInv
    <2> QED
        BY <2>1, <2>2, <1>13 DEF AddErrorAfterCommit
<1>14. ASSUME NEW o \in Operators, RollbackUninstall(o) PROVE HomeInv'
    <2>1. CASE Reachable(o) /\ machine[Target(o)].owner = cur[o].id
        <3>1. reg' = reg
            BY <2>1, <1>14, DoesRollbackUninstallA
        <3>2. machine[Target(o)] \in Machine /\ Target(o) \in Servers /\ cur[o].id \in Ids
            BY <2>1, <1>14, DoesRollbackUninstallA, OpFacts, StepNames
        <3>3. /\ \A s \in Servers \ {Target(o)} : machine'[s] = machine[s]
              /\ machine'[Target(o)].key = machine[Target(o)].key /\ machine'[Target(o)].agent = machine[Target(o)].agent
              /\ machine'[Target(o)].owner = machine[Target(o)].owner /\ machine'[Target(o)].runtime = "none"
            BY <2>1, <1>14, DoesRollbackUninstallA, <3>2, StrippedFields DEF Rebuilt
        <3>4. /\ \A q \in Operators \ {o} : pc'[q] = pc[q] /\ cur'[q] = cur[q]
              /\ pc[o] = "rbUninstall"
              /\ pc'[o] = "rbPeer"
              /\ cur'[o].id = cur[o].id /\ cur'[o].host = cur[o].host /\ cur'[o].key = cur[o].key
              /\ cur'[o].touched = cur[o].touched /\ cur'[o].failed = cur[o].failed
            BY <2>1, <1>14, DoesRollbackUninstallA DEF Kept, Same, Moved
        <3>5. used' = used
            BY <2>1, <1>14, DoesRollbackUninstallA
        <3>6. MachinesHome(home)'
            BY <3>2, <3>3, <3>5, OpFacts, NoIdIsNoNode DEF HomeOf, MachinesHome, OperatorsHome
        <3>7. NodesHome(home)'
            BY <3>1, <3>5, EntryFacts DEF HomeOf, NodesHome, Registered
        <3>8. OperatorsHome(home)'
            BY <3>4, <3>5, EntryFacts, OpFacts, NoIdIsNoNode DEF HomeOf, OperatorsHome, Target
        <3>9. HomeOf(home)'
            BY <3>6, <3>7, <3>8 DEF HomeOf
        <3> QED
            BY <1>14, <2>1, <3>1, <3>2, <3>3, <3>4, <3>5, <3>6, <3>7, <3>8, <3>9 DEF HomeInv
    <2>2. CASE ~(Reachable(o) /\ machine[Target(o)].owner = cur[o].id)
        <3>1. reg' = reg
            BY <2>2, <1>14, DoesRollbackUninstallB
        <3>2. machine' = machine
            BY <2>2, <1>14, DoesRollbackUninstallB
        <3>3. /\ \A q \in Operators \ {o} : pc'[q] = pc[q] /\ cur'[q] = cur[q]
              /\ pc[o] = "rbUninstall"
              /\ pc'[o] = "rbPeer"
              /\ cur'[o].id = cur[o].id /\ cur'[o].host = cur[o].host /\ cur'[o].key = cur[o].key
              /\ cur'[o].touched = cur[o].touched /\ cur'[o].failed = TRUE
            BY <2>2, <1>14, DoesRollbackUninstallB DEF Same, Moved
        <3>4. used' = used
            BY <2>2, <1>14, DoesRollbackUninstallB
        <3>5. MachinesHome(home)'
            BY <3>2, <3>4 DEF HomeOf, MachinesHome
        <3>6. NodesHome(home)'
            BY <3>1, <3>4, EntryFacts DEF HomeOf, NodesHome, Registered
        <3>7. OperatorsHome(home)'
            BY <3>3, <3>4, EntryFacts, OpFacts, NoIdIsNoNode DEF HomeOf, OperatorsHome, Target
        <3>8. HomeOf(home)'
            BY <3>5, <3>6, <3>7 DEF HomeOf
        <3> QED
            BY <1>14, <2>2, <3>1, <3>2, <3>3, <3>4, <3>5, <3>6, <3>7, <3>8 DEF HomeInv
    <2> QED
        BY <2>1, <2>2
<1>15. ASSUME NEW o \in Operators, RollbackPeer(o) PROVE HomeInv'
    <2>1. reg' = reg
        BY <1>15, DoesRollbackPeer
    <2>2. machine' = machine
        BY <1>15, DoesRollbackPeer
    <2>3. /\ \A q \in Operators \ {o} : pc'[q] = pc[q] /\ cur'[q] = cur[q]
          /\ pc[o] = "rbPeer"
          /\ pc'[o] = "rbRemove"
          /\ cur'[o].id = cur[o].id /\ cur'[o].host = cur[o].host /\ cur'[o].key = cur[o].key
          /\ cur'[o].touched = cur[o].touched /\ cur'[o].failed = cur[o].failed
        BY <1>15, DoesRollbackPeer DEF Kept, Same, Moved
    <2>4. used' = used
        BY <1>15, DoesRollbackPeer
    <2>5. MachinesHome(home)'
        BY <2>2, <2>4 DEF HomeOf, MachinesHome
    <2>6. NodesHome(home)'
        BY <2>1, <2>4, EntryFacts DEF HomeOf, NodesHome, Registered
    <2>7. OperatorsHome(home)'
        BY <2>3, <2>4, EntryFacts, OpFacts, NoIdIsNoNode DEF HomeOf, OperatorsHome, Target
    <2>8. HomeOf(home)'
        BY <2>5, <2>6, <2>7 DEF HomeOf
    <2> QED
        BY <1>15, <2>1, <2>2, <2>3, <2>4, <2>5, <2>6, <2>7, <2>8 DEF HomeInv
<1>16. ASSUME NEW o \in Operators, RollbackRemove(o) PROVE HomeInv'
    <2>1. pc[o] \in {"rbRemove", "dtRemove"} /\ Entered(o, Absent)
        BY <1>16, DoesRollbackRemove
    <2>2. Registered' = Registered \ {cur[o].id} /\ \A i \in Registered' : reg'[i] = reg[i]
        BY <2>1, OpFacts, Dropping
    <2>3. machine' = machine
        BY <1>16, DoesRollbackRemove
    <2>4. /\ \A q \in Operators \ {o} : pc'[q] = pc[q] /\ cur'[q] = cur[q]
          /\ pc[o] = "rbRemove"
          /\ pc'[o] = "rbLoad"
          /\ cur'[o].id = cur[o].id /\ cur'[o].host = cur[o].host /\ cur'[o].key = cur[o].key
          /\ cur'[o].touched = cur[o].touched /\ cur'[o].failed = cur[o].failed
        BY <1>16, DoesRollbackRemove DEF Kept, Same, Moved
    <2>5. used' = used
        BY <1>16, DoesRollbackRemove
    <2>6. MachinesHome(home)'
        BY <2>3, <2>5 DEF HomeOf, MachinesHome
    <2>7. NodesHome(home)'
        BY <2>2, <2>5, EntryFacts DEF HomeOf, NodesHome
    <2>8. OperatorsHome(home)'
        BY <2>4, <2>5, EntryFacts, OpFacts, NoIdIsNoNode DEF HomeOf, OperatorsHome, Target
    <2>9. HomeOf(home)'
        BY <2>6, <2>7, <2>8 DEF HomeOf
    <2> QED
        BY <1>16, <2>1, <2>2, <2>3, <2>4, <2>5, <2>6, <2>7, <2>8, <2>9 DEF HomeInv
<1>17. ASSUME NEW o \in Operators, RollbackLoad(o) PROVE HomeInv'
    <2>1. reg' = reg
        BY <1>17, DoesRollbackLoad
    <2>2. machine' = machine
        BY <1>17, DoesRollbackLoad
    <2>3. /\ \A q \in Operators \ {o} : pc'[q] = pc[q] /\ cur'[q] = cur[q]
          /\ pc[o] = "rbLoad"
          /\ pc'[o] = "rbWrite"
          /\ cur'[o].id = cur[o].id /\ cur'[o].host = cur[o].host /\ cur'[o].key = cur[o].key
          /\ cur'[o].touched = cur[o].touched /\ cur'[o].failed = cur[o].failed
          /\ cur'[o].list = RegKeys
        BY <1>17, DoesRollbackLoad DEF Kept, Same, Moved
    <2>4. used' = used
        BY <1>17, DoesRollbackLoad
    <2>5. MachinesHome(home)'
        BY <2>2, <2>4 DEF HomeOf, MachinesHome
    <2>6. NodesHome(home)'
        BY <2>1, <2>4, EntryFacts DEF HomeOf, NodesHome, Registered
    <2>7. OperatorsHome(home)'
        BY <2>3, <2>4, EntryFacts, OpFacts, NoIdIsNoNode DEF HomeOf, OperatorsHome, Target
    <2>8. HomeOf(home)'
        BY <2>5, <2>6, <2>7 DEF HomeOf
    <2> QED
        BY <1>17, <2>1, <2>2, <2>3, <2>4, <2>5, <2>6, <2>7, <2>8 DEF HomeInv
<1>18. ASSUME NEW o \in Operators, RollbackWrite(o) PROVE HomeInv'
    <2>1. reg' = reg
        BY <1>18, DoesRollbackWrite
    <2>2. machine' = machine
        BY <1>18, DoesRollbackWrite
    <2>3. /\ \A q \in Operators \ {o} : pc'[q] = pc[q] /\ cur'[q] = cur[q]
          /\ pc[o] = "rbWrite"
          /\ pc'[o] = "rbCleanup"
          /\ cur'[o].id = cur[o].id /\ cur'[o].host = cur[o].host /\ cur'[o].key = cur[o].key
          /\ cur'[o].touched = cur[o].touched /\ cur'[o].failed = cur[o].failed
        BY <1>18, DoesRollbackWrite DEF Kept, Same, Moved
    <2>4. used' = used
        BY <1>18, DoesRollbackWrite
    <2>5. MachinesHome(home)'
        BY <2>2, <2>4 DEF HomeOf, MachinesHome
    <2>6. NodesHome(home)'
        BY <2>1, <2>4, EntryFacts DEF HomeOf, NodesHome, Registered
    <2>7. OperatorsHome(home)'
        BY <2>3, <2>4, EntryFacts, OpFacts, NoIdIsNoNode DEF HomeOf, OperatorsHome, Target
    <2>8. HomeOf(home)'
        BY <2>5, <2>6, <2>7 DEF HomeOf
    <2> QED
        BY <1>18, <2>1, <2>2, <2>3, <2>4, <2>5, <2>6, <2>7, <2>8 DEF HomeInv
<1>19. ASSUME NEW o \in Operators, RollbackCleanup(o) PROVE HomeInv'
    <2>1. reg' = reg
        BY <1>19, DoesRollbackCleanup
    <2>2. machine[Target(o)] \in Machine /\ Target(o) \in Servers /\ cur[o].id \in Ids
        BY <1>19, DoesRollbackCleanup, OpFacts, StepNames
    <2>3. /\ \A s \in Servers \ {Target(o)} : machine'[s] = machine[s]
          /\ machine'[Target(o)].key = NoId /\ machine'[Target(o)].agent = NoId /\ machine'[Target(o)].owner = NoId
        BY <1>19, DoesRollbackCleanup, <2>2, MachineFields DEF Rebuilt
    <2>4. /\ \A q \in Operators \ {o} : pc'[q] = pc[q] /\ cur'[q] = cur[q]
          /\ pc[o] = "rbCleanup"
          /\ pc'[o] = "idle" /\ cur'[o].id = NoId /\ cur'[o].host = NoId /\ cur'[o].key = NoId
          /\ cur'[o].touched = FALSE /\ cur'[o].failed = FALSE
        BY <1>19, DoesRollbackCleanup, IdleFacts DEF Ended, Moved
    <2>5. used' = used
        BY <1>19, DoesRollbackCleanup
    <2>6. MachinesHome(home)'
        BY <2>2, <2>3, <2>5, OpFacts, NoIdIsNoNode DEF HomeOf, MachinesHome, OperatorsHome
    <2>7. NodesHome(home)'
        BY <2>1, <2>5, EntryFacts DEF HomeOf, NodesHome, Registered
    <2>8. OperatorsHome(home)'
        BY <2>4, <2>5, EntryFacts, OpFacts, NoIdIsNoNode DEF HomeOf, OperatorsHome, Target
    <2>9. HomeOf(home)'
        BY <2>6, <2>7, <2>8 DEF HomeOf
    <2> QED
        BY <1>19, <2>1, <2>2, <2>3, <2>4, <2>5, <2>6, <2>7, <2>8, <2>9 DEF HomeInv
<1>20. ASSUME NEW o \in Operators, RollbackStepFails(o) PROVE HomeInv'
    <2>1. CASE pc[o] = "rbCleanup"
        <3>1. reg' = reg
            BY <2>1, <1>20, DoesRollbackStepFailsA
        <3>2. machine' = machine
            BY <2>1, <1>20, DoesRollbackStepFailsA
        <3>3. /\ \A q \in Operators \ {o} : pc'[q] = pc[q] /\ cur'[q] = cur[q]
              /\ pc'[o] = "idle" /\ cur'[o].id = NoId /\ cur'[o].host = NoId /\ cur'[o].key = NoId
              /\ cur'[o].touched = FALSE /\ cur'[o].failed = FALSE
            BY <2>1, <1>20, DoesRollbackStepFailsA, IdleFacts DEF Ended, Moved
        <3>4. used' = used
            BY <2>1, <1>20, DoesRollbackStepFailsA
        <3>5. MachinesHome(home)'
            BY <3>2, <3>4 DEF HomeOf, MachinesHome
        <3>6. NodesHome(home)'
            BY <3>1, <3>4, EntryFacts DEF HomeOf, NodesHome, Registered
        <3>7. OperatorsHome(home)'
            BY <3>3, <3>4, EntryFacts, OpFacts, NoIdIsNoNode DEF HomeOf, OperatorsHome, Target
        <3>8. HomeOf(home)'
            BY <3>5, <3>6, <3>7 DEF HomeOf
        <3> QED
            BY <1>20, <2>1, <3>1, <3>2, <3>3, <3>4, <3>5, <3>6, <3>7, <3>8 DEF HomeInv
    <2>2. CASE pc[o] # "rbCleanup"
        <3>1. reg' = reg \/ (pc[o] \in {"rbRemove", "dtRemove"} /\ Entered(o, Absent))
            BY <2>2, <1>20, DoesRollbackStepFailsB
        <3>2. \/ reg' = reg
              \/ Registered' = Registered \ {cur[o].id} /\ \A i \in Registered' : reg'[i] = reg[i]
            BY <3>1, OpFacts, Dropping
        <3>3. machine' = machine
            BY <2>2, <1>20, DoesRollbackStepFailsB
        <3>4. /\ \A q \in Operators \ {o} : pc'[q] = pc[q] /\ cur'[q] = cur[q]
              /\ cur'[o].id = cur[o].id /\ cur'[o].host = cur[o].host /\ cur'[o].key = cur[o].key
              /\ cur'[o].touched = cur[o].touched /\ cur'[o].failed = TRUE
              /\ (\/ pc[o] = "rbUninstall" /\ pc'[o] = "rbPeer"
                  \/ pc[o] = "rbPeer" /\ pc'[o] = "rbRemove"
                  \/ pc[o] = "rbRemove" /\ pc'[o] = "rbLoad"
                  \/ pc[o] \in {"rbLoad", "rbWrite"} /\ pc'[o] = "rbCleanup")
            BY <2>2, <1>20, DoesRollbackStepFailsB DEF Same, Moved
        <3>5. used' = used
            BY <2>2, <1>20, DoesRollbackStepFailsB
        <3>6. MachinesHome(home)'
            BY <3>3, <3>5 DEF HomeOf, MachinesHome
        <3>7. NodesHome(home)'
            BY <3>1, <3>2, <3>5, EntryFacts DEF HomeOf, NodesHome, Registered
        <3>8. OperatorsHome(home)'
            BY <3>4, <3>5, EntryFacts, OpFacts, NoIdIsNoNode DEF HomeOf, OperatorsHome, Target
        <3>9. HomeOf(home)'
            BY <3>6, <3>7, <3>8 DEF HomeOf
        <3> QED
            BY <1>20, <2>2, <3>1, <3>2, <3>3, <3>4, <3>5, <3>6, <3>7, <3>8, <3>9 DEF HomeInv
    <2> QED
        BY <2>1, <2>2
<1>21. ASSUME NEW o \in Operators, NEW i \in Ids, RemoveNode(o, i) PROVE HomeInv'
    <2>1. reg' = reg
        BY <1>21, DoesRemoveNode
    <2>2. machine' = machine
        BY <1>21, DoesRemoveNode
    <2>3. /\ \A q \in Operators \ {o} : pc'[q] = pc[q] /\ cur'[q] = cur[q]
          /\ pc[o] = "idle"
          /\ pc'[o] = "uninstall"
          /\ cur'[o].id = i /\ cur'[o].host = reg[i].host /\ cur'[o].key = reg[i].key
          /\ cur'[o].touched = FALSE /\ cur'[o].failed = FALSE
        BY <1>21, DoesRemoveNode DEF Moved, Begun
    <2>4. used' = used
        BY <1>21, DoesRemoveNode
    <2>5. MachinesHome(home)'
        BY <2>2, <2>4 DEF HomeOf, MachinesHome
    <2>6. NodesHome(home)'
        BY <2>1, <2>4, EntryFacts DEF HomeOf, NodesHome, Registered
    <2>7. OperatorsHome(home)'
        BY <1>21, DoesRemoveNode, <2>3, <2>4, EntryFacts, OpFacts, NoIdIsNoNode
        DEF HomeOf, OperatorsHome, Target, NodesHome
    <2>8. HomeOf(home)'
        BY <2>5, <2>6, <2>7 DEF HomeOf
    <2> QED
        BY <1>21, <2>1, <2>2, <2>3, <2>4, <2>5, <2>6, <2>7, <2>8 DEF HomeInv
<1>22. ASSUME NEW o \in Operators, NEW i \in Ids, ForceDetachNode(o, i) PROVE HomeInv'
    <2>1. reg' = reg
        BY <1>22, DoesForceDetachNode
    <2>2. machine' = machine
        BY <1>22, DoesForceDetachNode
    <2>3. /\ \A q \in Operators \ {o} : pc'[q] = pc[q] /\ cur'[q] = cur[q]
          /\ pc[o] = "idle"
          /\ pc'[o] = "dtLoad"
          /\ cur'[o].id = i /\ cur'[o].host = reg[i].host /\ cur'[o].key = reg[i].key
          /\ cur'[o].touched = FALSE /\ cur'[o].failed = FALSE
        BY <1>22, DoesForceDetachNode DEF Moved, Begun
    <2>4. used' = used
        BY <1>22, DoesForceDetachNode
    <2>5. MachinesHome(home)'
        BY <2>2, <2>4 DEF HomeOf, MachinesHome
    <2>6. NodesHome(home)'
        BY <2>1, <2>4, EntryFacts DEF HomeOf, NodesHome, Registered
    <2>7. OperatorsHome(home)'
        BY <1>22, DoesForceDetachNode, <2>3, <2>4, EntryFacts, OpFacts, NoIdIsNoNode
        DEF HomeOf, OperatorsHome, Target, NodesHome
    <2>8. HomeOf(home)'
        BY <2>5, <2>6, <2>7 DEF HomeOf
    <2> QED
        BY <1>22, <2>1, <2>2, <2>3, <2>4, <2>5, <2>6, <2>7, <2>8 DEF HomeInv
<1>23. ASSUME NEW o \in Operators, Uninstall(o) PROVE HomeInv'
    <2>1. CASE Reachable(o)
        <3>1. reg' = reg
            BY <2>1, <1>23, DoesUninstallA
        <3>2. machine[Target(o)] \in Machine /\ Target(o) \in Servers /\ cur[o].id \in Ids
            BY <2>1, <1>23, DoesUninstallA, OpFacts, StepNames
        <3>3. /\ \A s \in Servers \ {Target(o)} : machine'[s] = machine[s]
              /\ machine'[Target(o)].key = NoId /\ machine'[Target(o)].agent = NoId /\ machine'[Target(o)].owner = NoId
            BY <2>1, <1>23, DoesUninstallA, <3>2, MachineFields DEF Rebuilt
        <3>4. /\ \A q \in Operators \ {o} : pc'[q] = pc[q] /\ cur'[q] = cur[q]
              /\ pc[o] = "uninstall"
              /\ pc'[o] = "dtLoad"
              /\ cur'[o].id = cur[o].id /\ cur'[o].host = cur[o].host /\ cur'[o].key = cur[o].key
              /\ cur'[o].touched = cur[o].touched /\ cur'[o].failed = cur[o].failed
            BY <2>1, <1>23, DoesUninstallA DEF Kept, Same, Moved
        <3>5. used' = used
            BY <2>1, <1>23, DoesUninstallA
        <3>6. MachinesHome(home)'
            BY <3>2, <3>3, <3>5, OpFacts, NoIdIsNoNode DEF HomeOf, MachinesHome, OperatorsHome
        <3>7. NodesHome(home)'
            BY <3>1, <3>5, EntryFacts DEF HomeOf, NodesHome, Registered
        <3>8. OperatorsHome(home)'
            BY <3>4, <3>5, EntryFacts, OpFacts, NoIdIsNoNode DEF HomeOf, OperatorsHome, Target
        <3>9. HomeOf(home)'
            BY <3>6, <3>7, <3>8 DEF HomeOf
        <3> QED
            BY <1>23, <2>1, <3>1, <3>2, <3>3, <3>4, <3>5, <3>6, <3>7, <3>8, <3>9 DEF HomeInv
    <2>2. CASE ~Reachable(o)
        <3>1. reg' = reg
            BY <2>2, <1>23, DoesUninstallB
        <3>2. machine' = machine
            BY <2>2, <1>23, DoesUninstallB
        <3>3. /\ \A q \in Operators \ {o} : pc'[q] = pc[q] /\ cur'[q] = cur[q]
              /\ pc[o] = "uninstall"
              /\ pc'[o] = "idle" /\ cur'[o].id = NoId /\ cur'[o].host = NoId /\ cur'[o].key = NoId
              /\ cur'[o].touched = FALSE /\ cur'[o].failed = FALSE
            BY <2>2, <1>23, DoesUninstallB, IdleFacts DEF Ended, Moved
        <3>4. used' = used
            BY <2>2, <1>23, DoesUninstallB
        <3>5. MachinesHome(home)'
            BY <3>2, <3>4 DEF HomeOf, MachinesHome
        <3>6. NodesHome(home)'
            BY <3>1, <3>4, EntryFacts DEF HomeOf, NodesHome, Registered
        <3>7. OperatorsHome(home)'
            BY <3>3, <3>4, EntryFacts, OpFacts, NoIdIsNoNode DEF HomeOf, OperatorsHome, Target
        <3>8. HomeOf(home)'
            BY <3>5, <3>6, <3>7 DEF HomeOf
        <3> QED
            BY <1>23, <2>2, <3>1, <3>2, <3>3, <3>4, <3>5, <3>6, <3>7, <3>8 DEF HomeInv
    <2> QED
        BY <2>1, <2>2
<1>24. ASSUME NEW o \in Operators, UninstallFails(o) PROVE HomeInv'
    <2>1. reg' = reg
        BY <1>24, DoesUninstallFails
    <2>2. machine[Target(o)] \in Machine /\ Target(o) \in Servers /\ cur[o].id \in Ids
        BY <1>24, DoesUninstallFails, OpFacts, StepNames
    <2>3. \/ machine' = machine
          \/ /\ \A s \in Servers \ {Target(o)} : machine'[s] = machine[s]
             /\ machine'[Target(o)].key = NoId /\ machine'[Target(o)].agent = NoId /\ machine'[Target(o)].owner = NoId
        BY <1>24, DoesUninstallFails, <2>2, MachineFields DEF Rebuilt
    <2>4. /\ \A q \in Operators \ {o} : pc'[q] = pc[q] /\ cur'[q] = cur[q]
          /\ pc[o] = "uninstall"
          /\ pc'[o] = "idle" /\ cur'[o].id = NoId /\ cur'[o].host = NoId /\ cur'[o].key = NoId
          /\ cur'[o].touched = FALSE /\ cur'[o].failed = FALSE
        BY <1>24, DoesUninstallFails, IdleFacts DEF Ended, Moved
    <2>5. used' = used
        BY <1>24, DoesUninstallFails
    <2>6. MachinesHome(home)'
        BY <2>2, <2>3, <2>5, OpFacts, NoIdIsNoNode DEF HomeOf, MachinesHome, OperatorsHome
    <2>7. NodesHome(home)'
        BY <2>1, <2>5, EntryFacts DEF HomeOf, NodesHome, Registered
    <2>8. OperatorsHome(home)'
        BY <2>4, <2>5, EntryFacts, OpFacts, NoIdIsNoNode DEF HomeOf, OperatorsHome, Target
    <2>9. HomeOf(home)'
        BY <2>6, <2>7, <2>8 DEF HomeOf
    <2> QED
        BY <1>24, <2>1, <2>2, <2>3, <2>4, <2>5, <2>6, <2>7, <2>8, <2>9 DEF HomeInv
<1>25. ASSUME NEW o \in Operators, DetachLoad(o) PROVE HomeInv'
    <2>1. CASE cur[o].id \in Registered
        <3>1. reg' = reg
            BY <2>1, <1>25, DoesDetachLoadA
        <3>2. machine' = machine
            BY <2>1, <1>25, DoesDetachLoadA
        <3>3. /\ \A q \in Operators \ {o} : pc'[q] = pc[q] /\ cur'[q] = cur[q]
              /\ pc[o] = "dtLoad"
              /\ pc'[o] = "dtWrite"
              /\ cur'[o].id = cur[o].id /\ cur'[o].host = cur[o].host /\ cur'[o].key = cur[o].key
              /\ cur'[o].touched = cur[o].touched /\ cur'[o].failed = cur[o].failed
              /\ cur'[o].list = OtherKeys(cur[o].id)
            BY <2>1, <1>25, DoesDetachLoadA DEF Kept, Same, Moved
        <3>4. used' = used
            BY <2>1, <1>25, DoesDetachLoadA
        <3>5. MachinesHome(home)'
            BY <3>2, <3>4 DEF HomeOf, MachinesHome
        <3>6. NodesHome(home)'
            BY <3>1, <3>4, EntryFacts DEF HomeOf, NodesHome, Registered
        <3>7. OperatorsHome(home)'
            BY <3>3, <3>4, EntryFacts, OpFacts, NoIdIsNoNode DEF HomeOf, OperatorsHome, Target
        <3>8. HomeOf(home)'
            BY <3>5, <3>6, <3>7 DEF HomeOf
        <3> QED
            BY <1>25, <2>1, <3>1, <3>2, <3>3, <3>4, <3>5, <3>6, <3>7, <3>8 DEF HomeInv
    <2>2. CASE cur[o].id \notin Registered
        <3>1. reg' = reg
            BY <2>2, <1>25, DoesDetachLoadB
        <3>2. machine' = machine
            BY <2>2, <1>25, DoesDetachLoadB
        <3>3. /\ \A q \in Operators \ {o} : pc'[q] = pc[q] /\ cur'[q] = cur[q]
              /\ pc[o] = "dtLoad"
              /\ pc'[o] = "idle" /\ cur'[o].id = NoId /\ cur'[o].host = NoId /\ cur'[o].key = NoId
              /\ cur'[o].touched = FALSE /\ cur'[o].failed = FALSE
            BY <2>2, <1>25, DoesDetachLoadB, IdleFacts DEF Ended, Moved
        <3>4. used' = used
            BY <2>2, <1>25, DoesDetachLoadB
        <3>5. MachinesHome(home)'
            BY <3>2, <3>4 DEF HomeOf, MachinesHome
        <3>6. NodesHome(home)'
            BY <3>1, <3>4, EntryFacts DEF HomeOf, NodesHome, Registered
        <3>7. OperatorsHome(home)'
            BY <3>3, <3>4, EntryFacts, OpFacts, NoIdIsNoNode DEF HomeOf, OperatorsHome, Target
        <3>8. HomeOf(home)'
            BY <3>5, <3>6, <3>7 DEF HomeOf
        <3> QED
            BY <1>25, <2>2, <3>1, <3>2, <3>3, <3>4, <3>5, <3>6, <3>7, <3>8 DEF HomeInv
    <2> QED
        BY <2>1, <2>2
<1>26. ASSUME NEW o \in Operators, DetachWrite(o) PROVE HomeInv'
    <2>1. reg' = reg
        BY <1>26, DoesDetachWrite
    <2>2. machine' = machine
        BY <1>26, DoesDetachWrite
    <2>3. /\ \A q \in Operators \ {o} : pc'[q] = pc[q] /\ cur'[q] = cur[q]
          /\ pc[o] = "dtWrite"
          /\ pc'[o] = "dtPeer"
          /\ cur'[o].id = cur[o].id /\ cur'[o].host = cur[o].host /\ cur'[o].key = cur[o].key
          /\ cur'[o].touched = cur[o].touched /\ cur'[o].failed = cur[o].failed
        BY <1>26, DoesDetachWrite DEF Kept, Same, Moved
    <2>4. used' = used
        BY <1>26, DoesDetachWrite
    <2>5. MachinesHome(home)'
        BY <2>2, <2>4 DEF HomeOf, MachinesHome
    <2>6. NodesHome(home)'
        BY <2>1, <2>4, EntryFacts DEF HomeOf, NodesHome, Registered
    <2>7. OperatorsHome(home)'
        BY <2>3, <2>4, EntryFacts, OpFacts, NoIdIsNoNode DEF HomeOf, OperatorsHome, Target
    <2>8. HomeOf(home)'
        BY <2>5, <2>6, <2>7 DEF HomeOf
    <2> QED
        BY <1>26, <2>1, <2>2, <2>3, <2>4, <2>5, <2>6, <2>7, <2>8 DEF HomeInv
<1>27. ASSUME NEW o \in Operators, DetachPeer(o) PROVE HomeInv'
    <2>1. reg' = reg
        BY <1>27, DoesDetachPeer
    <2>2. machine' = machine
        BY <1>27, DoesDetachPeer
    <2>3. /\ \A q \in Operators \ {o} : pc'[q] = pc[q] /\ cur'[q] = cur[q]
          /\ pc[o] = "dtPeer"
          /\ pc'[o] = "dtRemove"
          /\ cur'[o].id = cur[o].id /\ cur'[o].host = cur[o].host /\ cur'[o].key = cur[o].key
          /\ cur'[o].touched = cur[o].touched /\ cur'[o].failed = cur[o].failed
        BY <1>27, DoesDetachPeer DEF Kept, Same, Moved
    <2>4. used' = used
        BY <1>27, DoesDetachPeer
    <2>5. MachinesHome(home)'
        BY <2>2, <2>4 DEF HomeOf, MachinesHome
    <2>6. NodesHome(home)'
        BY <2>1, <2>4, EntryFacts DEF HomeOf, NodesHome, Registered
    <2>7. OperatorsHome(home)'
        BY <2>3, <2>4, EntryFacts, OpFacts, NoIdIsNoNode DEF HomeOf, OperatorsHome, Target
    <2>8. HomeOf(home)'
        BY <2>5, <2>6, <2>7 DEF HomeOf
    <2> QED
        BY <1>27, <2>1, <2>2, <2>3, <2>4, <2>5, <2>6, <2>7, <2>8 DEF HomeInv
<1>28. ASSUME NEW o \in Operators, DetachRemove(o) PROVE HomeInv'
    <2>1. pc[o] \in {"rbRemove", "dtRemove"} /\ Entered(o, Absent)
        BY <1>28, DoesDetachRemove
    <2>2. Registered' = Registered \ {cur[o].id} /\ \A i \in Registered' : reg'[i] = reg[i]
        BY <2>1, OpFacts, Dropping
    <2>3. machine' = machine
        BY <1>28, DoesDetachRemove
    <2>4. /\ \A q \in Operators \ {o} : pc'[q] = pc[q] /\ cur'[q] = cur[q]
          /\ pc[o] = "dtRemove"
          /\ pc'[o] = "idle" /\ cur'[o].id = NoId /\ cur'[o].host = NoId /\ cur'[o].key = NoId
          /\ cur'[o].touched = FALSE /\ cur'[o].failed = FALSE
        BY <1>28, DoesDetachRemove, IdleFacts DEF Ended, Moved
    <2>5. used' = used
        BY <1>28, DoesDetachRemove
    <2>6. MachinesHome(home)'
        BY <2>3, <2>5 DEF HomeOf, MachinesHome
    <2>7. NodesHome(home)'
        BY <2>2, <2>5, EntryFacts DEF HomeOf, NodesHome
    <2>8. OperatorsHome(home)'
        BY <2>4, <2>5, EntryFacts, OpFacts, NoIdIsNoNode DEF HomeOf, OperatorsHome, Target
    <2>9. HomeOf(home)'
        BY <2>6, <2>7, <2>8 DEF HomeOf
    <2> QED
        BY <1>28, <2>1, <2>2, <2>3, <2>4, <2>5, <2>6, <2>7, <2>8, <2>9 DEF HomeInv
<1>29. ASSUME NEW o \in Operators, DetachStepFails(o) PROVE HomeInv'
    <2>1. reg' = reg \/ (pc[o] \in {"rbRemove", "dtRemove"} /\ Entered(o, Absent))
        BY <1>29, DoesDetachStepFails
    <2>2. \/ reg' = reg
          \/ Registered' = Registered \ {cur[o].id} /\ \A i \in Registered' : reg'[i] = reg[i]
        BY <2>1, OpFacts, Dropping
    <2>3. machine' = machine
        BY <1>29, DoesDetachStepFails
    <2>4. /\ \A q \in Operators \ {o} : pc'[q] = pc[q] /\ cur'[q] = cur[q]
          /\ pc[o] \in {"dtLoad", "dtWrite", "dtPeer", "dtRemove"}
          /\ pc'[o] = "idle" /\ cur'[o].id = NoId /\ cur'[o].host = NoId /\ cur'[o].key = NoId
          /\ cur'[o].touched = FALSE /\ cur'[o].failed = FALSE
        BY <1>29, DoesDetachStepFails, IdleFacts DEF Ended, Moved
    <2>5. used' = used
        BY <1>29, DoesDetachStepFails
    <2>6. MachinesHome(home)'
        BY <2>3, <2>5 DEF HomeOf, MachinesHome
    <2>7. NodesHome(home)'
        BY <2>1, <2>2, <2>5, EntryFacts DEF HomeOf, NodesHome, Registered
    <2>8. OperatorsHome(home)'
        BY <2>4, <2>5, EntryFacts, OpFacts, NoIdIsNoNode DEF HomeOf, OperatorsHome, Target
    <2>9. HomeOf(home)'
        BY <2>6, <2>7, <2>8 DEF HomeOf
    <2> QED
        BY <1>29, <2>1, <2>2, <2>3, <2>4, <2>5, <2>6, <2>7, <2>8, <2>9 DEF HomeInv
<1>30. ASSUME NEW o \in Operators, EnsureOverlay(o) PROVE HomeInv'
    <2>1. reg' = reg
        BY <1>30, DoesEnsureOverlay
    <2>2. machine' = machine
        BY <1>30, DoesEnsureOverlay
    <2>3. /\ \A q \in Operators \ {o} : pc'[q] = pc[q] /\ cur'[q] = cur[q]
          /\ pc[o] = "idle"
          /\ pc'[o] = "ovLoad"
          /\ cur'[o].id = NoId /\ cur'[o].host = NoId /\ cur'[o].key = NoId
          /\ cur'[o].touched = FALSE /\ cur'[o].failed = FALSE
        BY <1>30, DoesEnsureOverlay, IdleFacts DEF Moved
    <2>4. used' = used
        BY <1>30, DoesEnsureOverlay
    <2>5. MachinesHome(home)'
        BY <2>2, <2>4 DEF HomeOf, MachinesHome
    <2>6. NodesHome(home)'
        BY <2>1, <2>4, EntryFacts DEF HomeOf, NodesHome, Registered
    <2>7. OperatorsHome(home)'
        BY <2>3, <2>4, EntryFacts, OpFacts, NoIdIsNoNode DEF HomeOf, OperatorsHome, Target
    <2>8. HomeOf(home)'
        BY <2>5, <2>6, <2>7 DEF HomeOf
    <2> QED
        BY <1>30, <2>1, <2>2, <2>3, <2>4, <2>5, <2>6, <2>7, <2>8 DEF HomeInv
<1>31. ASSUME NEW o \in Operators, OverlayLoad(o) PROVE HomeInv'
    <2>1. reg' = reg
        BY <1>31, DoesOverlayLoad
    <2>2. machine' = machine
        BY <1>31, DoesOverlayLoad
    <2>3. /\ \A q \in Operators \ {o} : pc'[q] = pc[q] /\ cur'[q] = cur[q]
          /\ pc[o] = "ovLoad"
          /\ pc'[o] = "ovWrite"
          /\ cur'[o].id = cur[o].id /\ cur'[o].host = cur[o].host /\ cur'[o].key = cur[o].key
          /\ cur'[o].touched = cur[o].touched /\ cur'[o].failed = cur[o].failed
          /\ cur'[o].list = RegKeys
        BY <1>31, DoesOverlayLoad DEF Kept, Same, Moved
    <2>4. used' = used
        BY <1>31, DoesOverlayLoad
    <2>5. MachinesHome(home)'
        BY <2>2, <2>4 DEF HomeOf, MachinesHome
    <2>6. NodesHome(home)'
        BY <2>1, <2>4, EntryFacts DEF HomeOf, NodesHome, Registered
    <2>7. OperatorsHome(home)'
        BY <2>3, <2>4, EntryFacts, OpFacts, NoIdIsNoNode DEF HomeOf, OperatorsHome, Target
    <2>8. HomeOf(home)'
        BY <2>5, <2>6, <2>7 DEF HomeOf
    <2> QED
        BY <1>31, <2>1, <2>2, <2>3, <2>4, <2>5, <2>6, <2>7, <2>8 DEF HomeInv
<1>32. ASSUME NEW o \in Operators, OverlayWrite(o) PROVE HomeInv'
    <2>1. reg' = reg
        BY <1>32, DoesOverlayWrite
    <2>2. machine' = machine
        BY <1>32, DoesOverlayWrite
    <2>3. /\ \A q \in Operators \ {o} : pc'[q] = pc[q] /\ cur'[q] = cur[q]
          /\ pc[o] = "ovWrite"
          /\ pc'[o] = "idle" /\ cur'[o].id = NoId /\ cur'[o].host = NoId /\ cur'[o].key = NoId
          /\ cur'[o].touched = FALSE /\ cur'[o].failed = FALSE
        BY <1>32, DoesOverlayWrite, IdleFacts DEF Ended, Moved
    <2>4. used' = used
        BY <1>32, DoesOverlayWrite
    <2>5. MachinesHome(home)'
        BY <2>2, <2>4 DEF HomeOf, MachinesHome
    <2>6. NodesHome(home)'
        BY <2>1, <2>4, EntryFacts DEF HomeOf, NodesHome, Registered
    <2>7. OperatorsHome(home)'
        BY <2>3, <2>4, EntryFacts, OpFacts, NoIdIsNoNode DEF HomeOf, OperatorsHome, Target
    <2>8. HomeOf(home)'
        BY <2>5, <2>6, <2>7 DEF HomeOf
    <2> QED
        BY <1>32, <2>1, <2>2, <2>3, <2>4, <2>5, <2>6, <2>7, <2>8 DEF HomeInv
<1>33. ASSUME NEW o \in Operators, Crash(o) PROVE HomeInv'
    <2>1. reg' = reg
        BY <1>33, DoesCrash
    <2>2. machine' = machine
        BY <1>33, DoesCrash
    <2>3. /\ \A q \in Operators \ {o} : pc'[q] = pc[q] /\ cur'[q] = cur[q]
          /\ pc[o] # "idle"
          /\ pc'[o] = "idle" /\ cur'[o].id = NoId /\ cur'[o].host = NoId /\ cur'[o].key = NoId
          /\ cur'[o].touched = FALSE /\ cur'[o].failed = FALSE
        BY <1>33, DoesCrash, IdleFacts DEF Ended, Moved
    <2>4. used' = used
        BY <1>33, DoesCrash
    <2>5. MachinesHome(home)'
        BY <2>2, <2>4 DEF HomeOf, MachinesHome
    <2>6. NodesHome(home)'
        BY <2>1, <2>4, EntryFacts DEF HomeOf, NodesHome, Registered
    <2>7. OperatorsHome(home)'
        BY <2>3, <2>4, EntryFacts, OpFacts, NoIdIsNoNode DEF HomeOf, OperatorsHome, Target
    <2>8. HomeOf(home)'
        BY <2>5, <2>6, <2>7 DEF HomeOf
    <2> QED
        BY <1>33, <2>1, <2>2, <2>3, <2>4, <2>5, <2>6, <2>7, <2>8 DEF HomeInv
<1>34. CASE UNCHANGED vars
    BY <1>34
    DEF HomeOf, Target, HomeInv, Registered, MachinesHome, NodesHome, OperatorsHome, vars
<1> QED
    BY <1>1, <1>2, <1>3, <1>4, <1>5, <1>6, <1>7, <1>8, <1>9, <1>10, <1>11, <1>12, <1>13,
           <1>14, <1>15, <1>16, <1>17, <1>18, <1>19, <1>20, <1>21, <1>22, <1>23, <1>24, <1>25,
           <1>26, <1>27, <1>28, <1>29, <1>30, <1>31, <1>32, <1>33, <1>34 DEF Next, Adding, RollingBack, Removing, Overlay

-----------------------------------------------------------------------------
(* The durable configuration of an operator that works alone.              *)
LEMMA Alone ==
    ASSUME TypeOK, ConfNow, NEW o \in Operators, pc[o] # "idle"
    PROVE  ConfAt(o) /\ \A q \in Operators \ {o} : pc[q] = "idle"
    BY DEF ConfNow, Active

\* When nobody works, the durable configuration lists the registered keys.
LEMMA NobodyYet ==
    ASSUME TypeOK, ConfNow, Active = {}
    PROVE  conf = RegKeys /\ \A q \in Operators : pc[q] = "idle"
    BY DEF ConfNow, Active

\* With one operator at work, the configuration is what that one knows of it.
LEMMA StillAlone ==
    ASSUME NEW o \in Operators, \A q \in Operators \ {o} : pc'[q] = "idle", ConfAt(o)'
    PROVE  ConfNow'
<1>1. ("idle" \notin {"setpeer", "load", "write", "dtPeer", "dtRemove"} \cup
                       (RollbackSteps \ {"rbCleanup"}))
    BY StepNames
<1>2. Active' \subseteq {o}
    BY DEF Active
<1>3. Active' = {} => pc'[o] = "idle"
    BY DEF Active
<1>4. Active' = {} => conf' = RegKeys'
    BY <1>1, <1>3 DEF ConfAt
<1> QED
    BY <1>2, <1>4 DEF ConfNow

\* An unchanged registry lists the same keys.
LEMMA SameKeys ==
    ASSUME reg' = reg
    PROVE  RegKeys' = RegKeys /\ Registered' = Registered /\ \A i : OtherKeys(i)' = OtherKeys(i)
    BY DEF RegKeys, OtherKeys, Registered

(* Whoever works alone and meets no failure leaves the durable configuration *)
(* current.                                                                *)
LEMMA NextConfInv ==
    TypeOK /\ StepInv /\ ConfInv /\ [Next]_vars => ConfInv'
<1> SUFFICES ASSUME TypeOK, StepInv, ConfInv, [Next]_vars
             PROVE  ConfInv'
    OBVIOUS
<1>1. ASSUME NEW o \in Operators, NEW i \in Ids, NEW h \in Hosts, AddNode(o, i, h)
      PROVE  ConfInv'
    <2>1. /\ \A q \in Operators \ {o} : pc'[q] = pc[q]
          /\ pc[o] = "idle"
          /\ pc'[o] = "provision"
          /\ faults' = faults /\ overlap' = (overlap \/ Active # {})
          /\ conf' = conf
        BY <1>1, DoesAddNode DEF Moved, Begun
    <2>2. reg' = reg
        BY <1>1, DoesAddNode
    <2>3. RegKeys' = RegKeys /\ \A j : OtherKeys(j)' = OtherKeys(j)
        BY <2>2, SameKeys
    <2>4. ASSUME faults' = 0, ~overlap' PROVE ConfNow'
        <4>1. ConfNow /\ Active = {}
            BY <2>4, <2>1 DEF ConfInv
        <4>2. conf = RegKeys /\ \A q \in Operators \ {o} : pc'[q] = "idle"
            BY <2>1, <4>1, NobodyYet
        <4>3. ConfAt(o)'
            BY <2>1, <2>2, <2>3, <4>2, StepNames DEF ConfAt
        <4> QED
            BY <4>2, <4>3, StillAlone
    <2> QED
        BY <1>1, <2>1, <2>2, <2>3, <2>4 DEF ConfInv
<1>2. ASSUME NEW o \in Operators, Provision(o) PROVE ConfInv'
    <2>1. /\ \A q \in Operators \ {o} : pc'[q] = pc[q]
          /\ pc[o] = "provision"
          /\ pc'[o] = "register"
          /\ cur'[o].id = cur[o].id
          /\ faults' = faults /\ overlap' = overlap
          /\ conf' = conf
        BY <1>2, DoesProvision DEF Same, Moved
    <2>2. reg' = reg
        BY <1>2, DoesProvision
    <2>3. RegKeys' = RegKeys /\ \A i : OtherKeys(i)' = OtherKeys(i)
        BY <2>2, SameKeys
    <2>4. ASSUME faults' = 0, ~overlap' PROVE ConfNow'
        <4>1. ConfNow
            BY <2>4, <2>1 DEF ConfInv
        <4>2. ConfAt(o) /\ \A q \in Operators \ {o} : pc'[q] = "idle"
            BY <2>1, <4>1, Alone
        <4>3. ConfAt(o)'
            BY <2>1, <2>2, <2>3, <4>2, StepNames DEF ConfAt
        <4> QED
            BY <4>2, <4>3, StillAlone
    <2> QED
        BY <1>2, <2>1, <2>2, <2>3, <2>4 DEF ConfInv
<1>3. ASSUME NEW o \in Operators, ProvisionFails(o) PROVE ConfInv'
    <2>1. faults' # 0
        BY <1>3, DoesProvisionFails
    <2> QED
        BY <1>3, <2>1 DEF ConfInv
<1>4. ASSUME NEW o \in Operators, Add(o) PROVE ConfInv'
    <2>1. CASE ValidateNew(NewEntry(o))
        <3>1. /\ \A q \in Operators \ {o} : pc'[q] = pc[q]
              /\ pc[o] = "register"
              /\ pc'[o] = "setpeer"
              /\ cur'[o].id = cur[o].id
              /\ faults' = faults /\ overlap' = overlap
              /\ conf' = conf
            BY <2>1, <1>4, DoesAddA DEF Same, Moved
        <3>2. pc[o] = "register" /\ ValidateNew(NewEntry(o)) /\ Entered(o, NewEntry(o))
            BY <2>1, <1>4, DoesAddA
        <3>3. /\ Registered' = Registered \cup {cur[o].id}
              /\ reg'[cur[o].id] = NewEntry(o)
              /\ \A i \in Registered \ {cur[o].id} : reg'[i] = reg[i]
            BY <3>2, OpFacts, NewEntryType, Recording
        <3>4. /\ reg'[cur[o].id].host = cur[o].host /\ reg'[cur[o].id].ip = cur[o].ip
              /\ reg'[cur[o].id].key = cur[o].key /\ reg'[cur[o].id].installed = FALSE
            BY <3>3, NewEntryFields
        <3>5. ASSUME faults' = 0, ~overlap' PROVE ConfNow'
        <4>1. ConfNow
            BY <3>5, <3>1 DEF ConfInv
        <4>2. ConfAt(o) /\ \A q \in Operators \ {o} : pc'[q] = "idle"
            BY <3>1, <4>1, Alone
        <4>3. ConfAt(o)'
            BY <3>1, <3>2, <3>3, <3>4, <4>2, StepNames DEF ConfAt
        <4> QED
            BY <4>2, <4>3, StillAlone
        <3> QED
            BY <1>4, <2>1, <3>1, <3>2, <3>3, <3>4, <3>5 DEF ConfInv
    <2>2. CASE ~ValidateNew(NewEntry(o))
        <3>1. /\ \A q \in Operators \ {o} : pc'[q] = pc[q]
              /\ pc[o] = "register"
              /\ pc'[o] \in {"rbUninstall", "rbPeer"}
              /\ cur'[o].id = cur[o].id
              /\ faults' = faults /\ overlap' = overlap
              /\ conf' = conf
            BY <2>2, <1>4, DoesAddB DEF Kept, Same, Moved
        <3>2. reg' = reg
            BY <2>2, <1>4, DoesAddB
        <3>3. RegKeys' = RegKeys /\ \A i : OtherKeys(i)' = OtherKeys(i)
            BY <3>2, SameKeys
        <3>4. ASSUME faults' = 0, ~overlap' PROVE ConfNow'
        <4>1. ConfNow
            BY <3>4, <3>1 DEF ConfInv
        <4>2. ConfAt(o) /\ \A q \in Operators \ {o} : pc'[q] = "idle"
            BY <3>1, <4>1, Alone
        <4>3. ConfAt(o)'
            BY <3>1, <3>2, <3>3, <4>2, StepNames DEF ConfAt
        <4> QED
            BY <4>2, <4>3, StillAlone
        <3> QED
            BY <1>4, <2>2, <3>1, <3>2, <3>3, <3>4 DEF ConfInv
    <2> QED
        BY <2>1, <2>2
<1>5. ASSUME NEW o \in Operators, SetPeer(o) PROVE ConfInv'
    <2>1. /\ \A q \in Operators \ {o} : pc'[q] = pc[q]
          /\ pc[o] = "setpeer"
          /\ pc'[o] = "load"
          /\ cur'[o].id = cur[o].id
          /\ faults' = faults /\ overlap' = overlap
          /\ conf' = conf
        BY <1>5, DoesSetPeer DEF Kept, Same, Moved
    <2>2. reg' = reg
        BY <1>5, DoesSetPeer
    <2>3. RegKeys' = RegKeys /\ \A i : OtherKeys(i)' = OtherKeys(i)
        BY <2>2, SameKeys
    <2>4. ASSUME faults' = 0, ~overlap' PROVE ConfNow'
        <4>1. ConfNow
            BY <2>4, <2>1 DEF ConfInv
        <4>2. ConfAt(o) /\ \A q \in Operators \ {o} : pc'[q] = "idle"
            BY <2>1, <4>1, Alone
        <4>3. ConfAt(o)'
            BY <2>1, <2>2, <2>3, <4>2, StepNames DEF ConfAt
        <4> QED
            BY <4>2, <4>3, StillAlone
    <2> QED
        BY <1>5, <2>1, <2>2, <2>3, <2>4 DEF ConfInv
<1>6. ASSUME NEW o \in Operators, JoinLoad(o) PROVE ConfInv'
    <2>1. /\ \A q \in Operators \ {o} : pc'[q] = pc[q]
          /\ pc[o] = "load"
          /\ pc'[o] = "write"
          /\ cur'[o].list = RegKeys
          /\ cur'[o].id = cur[o].id
          /\ faults' = faults /\ overlap' = overlap
          /\ conf' = conf
        BY <1>6, DoesJoinLoad DEF Kept, Same, Moved
    <2>2. reg' = reg
        BY <1>6, DoesJoinLoad
    <2>3. RegKeys' = RegKeys /\ \A i : OtherKeys(i)' = OtherKeys(i)
        BY <2>2, SameKeys
    <2>4. ASSUME faults' = 0, ~overlap' PROVE ConfNow'
        <4>1. ConfNow
            BY <2>4, <2>1 DEF ConfInv
        <4>2. ConfAt(o) /\ \A q \in Operators \ {o} : pc'[q] = "idle"
            BY <2>1, <4>1, Alone
        <4>3. ConfAt(o)'
            BY <2>1, <2>2, <2>3, <4>2, StepNames DEF ConfAt
        <4> QED
            BY <4>2, <4>3, StillAlone
    <2> QED
        BY <1>6, <2>1, <2>2, <2>3, <2>4 DEF ConfInv
<1>7. ASSUME NEW o \in Operators, JoinWrite(o) PROVE ConfInv'
    <2>1. /\ \A q \in Operators \ {o} : pc'[q] = pc[q]
          /\ pc[o] = "write"
          /\ pc'[o] = "health"
          /\ cur'[o].id = cur[o].id
          /\ faults' = faults /\ overlap' = overlap
          /\ conf' = cur[o].list
        BY <1>7, DoesJoinWrite DEF Kept, Same, Moved
    <2>2. reg' = reg
        BY <1>7, DoesJoinWrite
    <2>3. RegKeys' = RegKeys /\ \A i : OtherKeys(i)' = OtherKeys(i)
        BY <2>2, SameKeys
    <2>4. ASSUME faults' = 0, ~overlap' PROVE ConfNow'
        <4>1. ConfNow
            BY <2>4, <2>1 DEF ConfInv
        <4>2. ConfAt(o) /\ \A q \in Operators \ {o} : pc'[q] = "idle"
            BY <2>1, <4>1, Alone
        <4>3. ConfAt(o)'
            BY <2>1, <2>2, <2>3, <4>2, StepNames DEF ConfAt
        <4> QED
            BY <4>2, <4>3, StillAlone
    <2> QED
        BY <1>7, <2>1, <2>2, <2>3, <2>4 DEF ConfInv
<1>8. ASSUME NEW o \in Operators, waitHealthy(o) PROVE ConfInv'
    <2>1. /\ \A q \in Operators \ {o} : pc'[q] = pc[q]
          /\ pc[o] = "health"
          /\ pc'[o] \in {"install", "rbUninstall", "rbPeer"}
          /\ cur'[o].id = cur[o].id
          /\ faults' = faults /\ overlap' = overlap
          /\ conf' = conf
        BY <1>8, DoesWaitHealthy DEF Kept, Same, Moved
    <2>2. reg' = reg
        BY <1>8, DoesWaitHealthy
    <2>3. RegKeys' = RegKeys /\ \A i : OtherKeys(i)' = OtherKeys(i)
        BY <2>2, SameKeys
    <2>4. ASSUME faults' = 0, ~overlap' PROVE ConfNow'
        <4>1. ConfNow
            BY <2>4, <2>1 DEF ConfInv
        <4>2. ConfAt(o) /\ \A q \in Operators \ {o} : pc'[q] = "idle"
            BY <2>1, <4>1, Alone
        <4>3. ConfAt(o)'
            BY <2>1, <2>2, <2>3, <4>2, StepNames DEF ConfAt
        <4> QED
            BY <4>2, <4>3, StillAlone
    <2> QED
        BY <1>8, <2>1, <2>2, <2>3, <2>4 DEF ConfInv
<1>9. ASSUME NEW o \in Operators, installNode(o) PROVE ConfInv'
    <2>1. CASE Reachable(o) /\ machine[Target(o)].runtime = "none"
        <3>1. /\ \A q \in Operators \ {o} : pc'[q] = pc[q]
              /\ pc[o] = "install"
              /\ pc'[o] = "commit"
              /\ cur'[o].id = cur[o].id
              /\ faults' = faults /\ overlap' = overlap
              /\ conf' = conf
            BY <2>1, <1>9, DoesInstallNodeA DEF Kept, Same, Moved
        <3>2. reg' = reg
            BY <2>1, <1>9, DoesInstallNodeA
        <3>3. RegKeys' = RegKeys /\ \A i : OtherKeys(i)' = OtherKeys(i)
            BY <3>2, SameKeys
        <3>4. ASSUME faults' = 0, ~overlap' PROVE ConfNow'
        <4>1. ConfNow
            BY <3>4, <3>1 DEF ConfInv
        <4>2. ConfAt(o) /\ \A q \in Operators \ {o} : pc'[q] = "idle"
            BY <3>1, <4>1, Alone
        <4>3. ConfAt(o)'
            BY <3>1, <3>2, <3>3, <4>2, StepNames DEF ConfAt
        <4> QED
            BY <4>2, <4>3, StillAlone
        <3> QED
            BY <1>9, <2>1, <3>1, <3>2, <3>3, <3>4 DEF ConfInv
    <2>2. CASE ~(Reachable(o) /\ machine[Target(o)].runtime = "none")
        <3>1. /\ \A q \in Operators \ {o} : pc'[q] = pc[q]
              /\ pc[o] = "install"
              /\ pc'[o] \in {"rbUninstall", "rbPeer"}
              /\ cur'[o].id = cur[o].id
              /\ faults' = faults /\ overlap' = overlap
              /\ conf' = conf
            BY <2>2, <1>9, DoesInstallNodeB DEF Kept, Same, Moved
        <3>2. reg' = reg
            BY <2>2, <1>9, DoesInstallNodeB
        <3>3. RegKeys' = RegKeys /\ \A i : OtherKeys(i)' = OtherKeys(i)
            BY <3>2, SameKeys
        <3>4. ASSUME faults' = 0, ~overlap' PROVE ConfNow'
        <4>1. ConfNow
            BY <3>4, <3>1 DEF ConfInv
        <4>2. ConfAt(o) /\ \A q \in Operators \ {o} : pc'[q] = "idle"
            BY <3>1, <4>1, Alone
        <4>3. ConfAt(o)'
            BY <3>1, <3>2, <3>3, <4>2, StepNames DEF ConfAt
        <4> QED
            BY <4>2, <4>3, StillAlone
        <3> QED
            BY <1>9, <2>2, <3>1, <3>2, <3>3, <3>4 DEF ConfInv
    <2> QED
        BY <2>1, <2>2
<1>10. ASSUME NEW o \in Operators, installNodeFails(o) PROVE ConfInv'
    <2>1. faults' # 0
        BY <1>10, DoesInstallNodeFails
    <2> QED
        BY <1>10, <2>1 DEF ConfInv
<1>11. ASSUME NEW o \in Operators, Commit(o) PROVE ConfInv'
    <2>1. CASE cur[o].id \in Registered
        <3>1. /\ \A q \in Operators \ {o} : pc'[q] = pc[q]
              /\ pc[o] = "commit"
              /\ pc'[o] = "idle"
              /\ faults' = faults /\ overlap' = overlap
              /\ conf' = conf
            BY <2>1, <1>11, DoesCommitA DEF Ended, Moved
        <3>2. Registered' = Registered /\ \A i \in Registered :
                  reg'[i].key = reg[i].key /\ reg'[i].host = reg[i].host /\ reg'[i].ip = reg[i].ip
            BY <2>1, <1>11, DoesCommitA, Installing
        <3>3. RegKeys' = RegKeys
            BY <3>2 DEF RegKeys
        <3>4. ASSUME faults' = 0, ~overlap' PROVE ConfNow'
        <4>1. ConfNow
            BY <3>4, <3>1 DEF ConfInv
        <4>2. ConfAt(o) /\ \A q \in Operators \ {o} : pc'[q] = "idle"
            BY <3>1, <4>1, Alone
        <4>3. ConfAt(o)'
            BY <3>1, <3>2, <3>3, <4>2, StepNames DEF ConfAt
        <4> QED
            BY <4>2, <4>3, StillAlone
        <3> QED
            BY <1>11, <2>1, <3>1, <3>2, <3>3, <3>4 DEF ConfInv
    <2>2. CASE cur[o].id \notin Registered
        <3>1. /\ \A q \in Operators \ {o} : pc'[q] = pc[q]
              /\ pc[o] = "commit"
              /\ pc'[o] \in {"rbUninstall", "rbPeer"}
              /\ cur'[o].id = cur[o].id
              /\ faults' = faults /\ overlap' = overlap
              /\ conf' = conf
            BY <2>2, <1>11, DoesCommitB DEF Kept, Same, Moved
        <3>2. reg' = reg
            BY <2>2, <1>11, DoesCommitB
        <3>3. RegKeys' = RegKeys /\ \A i : OtherKeys(i)' = OtherKeys(i)
            BY <3>2, SameKeys
        <3>4. ASSUME faults' = 0, ~overlap' PROVE ConfNow'
        <4>1. ConfNow
            BY <3>4, <3>1 DEF ConfInv
        <4>2. ConfAt(o) /\ \A q \in Operators \ {o} : pc'[q] = "idle"
            BY <3>1, <4>1, Alone
        <4>3. ConfAt(o)'
            BY <3>1, <3>2, <3>3, <4>2, StepNames DEF ConfAt
        <4> QED
            BY <4>2, <4>3, StillAlone
        <3> QED
            BY <1>11, <2>2, <3>1, <3>2, <3>3, <3>4 DEF ConfInv
    <2> QED
        BY <2>1, <2>2
<1>12. ASSUME NEW o \in Operators, AddStepFails(o) PROVE ConfInv'
    <2>1. faults' # 0
        BY <1>12, DoesAddStepFails
    <2> QED
        BY <1>12, <2>1 DEF ConfInv
<1>13. ASSUME NEW o \in Operators, AddErrorAfterCommit(o) PROVE ConfInv'
    <2>1. CASE pc[o] = "register"
        <3>1. faults' # 0
            BY <2>1, <1>13, DoesAddErrorAfterCommitA
        <3> QED
            BY <1>13, <2>1, <3>1 DEF ConfInv
    <2>2. CASE pc[o] = "commit"
        <3>1. faults' # 0
            BY <2>2, <1>13, DoesAddErrorAfterCommitB
        <3> QED
            BY <1>13, <2>2, <3>1 DEF ConfInv
    <2> QED
        BY <2>1, <2>2, <1>13 DEF AddErrorAfterCommit
<1>14. ASSUME NEW o \in Operators, RollbackUninstall(o) PROVE ConfInv'
    <2>1. CASE Reachable(o) /\ machine[Target(o)].owner = cur[o].id
        <3>1. /\ \A q \in Operators \ {o} : pc'[q] = pc[q]
              /\ pc[o] = "rbUninstall"
              /\ pc'[o] = "rbPeer"
              /\ cur'[o].id = cur[o].id
              /\ faults' = faults /\ overlap' = overlap
              /\ conf' = conf
            BY <2>1, <1>14, DoesRollbackUninstallA DEF Kept, Same, Moved
        <3>2. reg' = reg
            BY <2>1, <1>14, DoesRollbackUninstallA
        <3>3. RegKeys' = RegKeys /\ \A i : OtherKeys(i)' = OtherKeys(i)
            BY <3>2, SameKeys
        <3>4. ASSUME faults' = 0, ~overlap' PROVE ConfNow'
        <4>1. ConfNow
            BY <3>4, <3>1 DEF ConfInv
        <4>2. ConfAt(o) /\ \A q \in Operators \ {o} : pc'[q] = "idle"
            BY <3>1, <4>1, Alone
        <4>3. ConfAt(o)'
            BY <3>1, <3>2, <3>3, <4>2, StepNames DEF ConfAt
        <4> QED
            BY <4>2, <4>3, StillAlone
        <3> QED
            BY <1>14, <2>1, <3>1, <3>2, <3>3, <3>4 DEF ConfInv
    <2>2. CASE ~(Reachable(o) /\ machine[Target(o)].owner = cur[o].id)
        <3>1. /\ \A q \in Operators \ {o} : pc'[q] = pc[q]
              /\ pc[o] = "rbUninstall"
              /\ pc'[o] = "rbPeer"
              /\ cur'[o].id = cur[o].id
              /\ faults' = faults /\ overlap' = overlap
              /\ conf' = conf
            BY <2>2, <1>14, DoesRollbackUninstallB DEF Same, Moved
        <3>2. reg' = reg
            BY <2>2, <1>14, DoesRollbackUninstallB
        <3>3. RegKeys' = RegKeys /\ \A i : OtherKeys(i)' = OtherKeys(i)
            BY <3>2, SameKeys
        <3>4. ASSUME faults' = 0, ~overlap' PROVE ConfNow'
        <4>1. ConfNow
            BY <3>4, <3>1 DEF ConfInv
        <4>2. ConfAt(o) /\ \A q \in Operators \ {o} : pc'[q] = "idle"
            BY <3>1, <4>1, Alone
        <4>3. ConfAt(o)'
            BY <3>1, <3>2, <3>3, <4>2, StepNames DEF ConfAt
        <4> QED
            BY <4>2, <4>3, StillAlone
        <3> QED
            BY <1>14, <2>2, <3>1, <3>2, <3>3, <3>4 DEF ConfInv
    <2> QED
        BY <2>1, <2>2
<1>15. ASSUME NEW o \in Operators, RollbackPeer(o) PROVE ConfInv'
    <2>1. /\ \A q \in Operators \ {o} : pc'[q] = pc[q]
          /\ pc[o] = "rbPeer"
          /\ pc'[o] = "rbRemove"
          /\ cur'[o].id = cur[o].id
          /\ faults' = faults /\ overlap' = overlap
          /\ conf' = conf
        BY <1>15, DoesRollbackPeer DEF Kept, Same, Moved
    <2>2. reg' = reg
        BY <1>15, DoesRollbackPeer
    <2>3. RegKeys' = RegKeys /\ \A i : OtherKeys(i)' = OtherKeys(i)
        BY <2>2, SameKeys
    <2>4. ASSUME faults' = 0, ~overlap' PROVE ConfNow'
        <4>1. ConfNow
            BY <2>4, <2>1 DEF ConfInv
        <4>2. ConfAt(o) /\ \A q \in Operators \ {o} : pc'[q] = "idle"
            BY <2>1, <4>1, Alone
        <4>3. ConfAt(o)'
            BY <2>1, <2>2, <2>3, <4>2, StepNames DEF ConfAt
        <4> QED
            BY <4>2, <4>3, StillAlone
    <2> QED
        BY <1>15, <2>1, <2>2, <2>3, <2>4 DEF ConfInv
<1>16. ASSUME NEW o \in Operators, RollbackRemove(o) PROVE ConfInv'
    <2>1. /\ \A q \in Operators \ {o} : pc'[q] = pc[q]
          /\ pc[o] = "rbRemove"
          /\ pc'[o] = "rbLoad"
          /\ cur'[o].id = cur[o].id
          /\ faults' = faults /\ overlap' = overlap
          /\ conf' = conf
        BY <1>16, DoesRollbackRemove DEF Kept, Same, Moved
    <2>2. pc[o] \in {"rbRemove", "dtRemove"} /\ Entered(o, Absent)
        BY <1>16, DoesRollbackRemove
    <2>3. Registered' = Registered \ {cur[o].id} /\ \A i \in Registered' : reg'[i] = reg[i]
        BY <2>2, OpFacts, Dropping
    <2>4. ASSUME faults' = 0, ~overlap' PROVE ConfNow'
        <4>1. ConfNow
            BY <2>4, <2>1 DEF ConfInv
        <4>2. ConfAt(o) /\ \A q \in Operators \ {o} : pc'[q] = "idle"
            BY <2>1, <4>1, Alone
        <4>3. ConfAt(o)'
            BY <2>1, <2>2, <2>3, <4>2, StepNames DEF ConfAt
        <4> QED
            BY <4>2, <4>3, StillAlone
    <2> QED
        BY <1>16, <2>1, <2>2, <2>3, <2>4 DEF ConfInv
<1>17. ASSUME NEW o \in Operators, RollbackLoad(o) PROVE ConfInv'
    <2>1. /\ \A q \in Operators \ {o} : pc'[q] = pc[q]
          /\ pc[o] = "rbLoad"
          /\ pc'[o] = "rbWrite"
          /\ cur'[o].list = RegKeys
          /\ cur'[o].id = cur[o].id
          /\ faults' = faults /\ overlap' = overlap
          /\ conf' = conf
        BY <1>17, DoesRollbackLoad DEF Kept, Same, Moved
    <2>2. reg' = reg
        BY <1>17, DoesRollbackLoad
    <2>3. RegKeys' = RegKeys /\ \A i : OtherKeys(i)' = OtherKeys(i)
        BY <2>2, SameKeys
    <2>4. ASSUME faults' = 0, ~overlap' PROVE ConfNow'
        <4>1. ConfNow
            BY <2>4, <2>1 DEF ConfInv
        <4>2. ConfAt(o) /\ \A q \in Operators \ {o} : pc'[q] = "idle"
            BY <2>1, <4>1, Alone
        <4>3. ConfAt(o)'
            BY <2>1, <2>2, <2>3, <4>2, StepNames DEF ConfAt
        <4> QED
            BY <4>2, <4>3, StillAlone
    <2> QED
        BY <1>17, <2>1, <2>2, <2>3, <2>4 DEF ConfInv
<1>18. ASSUME NEW o \in Operators, RollbackWrite(o) PROVE ConfInv'
    <2>1. /\ \A q \in Operators \ {o} : pc'[q] = pc[q]
          /\ pc[o] = "rbWrite"
          /\ pc'[o] = "rbCleanup"
          /\ cur'[o].id = cur[o].id
          /\ faults' = faults /\ overlap' = overlap
          /\ conf' = cur[o].list
        BY <1>18, DoesRollbackWrite DEF Kept, Same, Moved
    <2>2. reg' = reg
        BY <1>18, DoesRollbackWrite
    <2>3. RegKeys' = RegKeys /\ \A i : OtherKeys(i)' = OtherKeys(i)
        BY <2>2, SameKeys
    <2>4. ASSUME faults' = 0, ~overlap' PROVE ConfNow'
        <4>1. ConfNow
            BY <2>4, <2>1 DEF ConfInv
        <4>2. ConfAt(o) /\ \A q \in Operators \ {o} : pc'[q] = "idle"
            BY <2>1, <4>1, Alone
        <4>3. ConfAt(o)'
            BY <2>1, <2>2, <2>3, <4>2, StepNames DEF ConfAt
        <4> QED
            BY <4>2, <4>3, StillAlone
    <2> QED
        BY <1>18, <2>1, <2>2, <2>3, <2>4 DEF ConfInv
<1>19. ASSUME NEW o \in Operators, RollbackCleanup(o) PROVE ConfInv'
    <2>1. /\ \A q \in Operators \ {o} : pc'[q] = pc[q]
          /\ pc[o] = "rbCleanup"
          /\ pc'[o] = "idle"
          /\ faults' = faults /\ overlap' = overlap
          /\ conf' = conf
        BY <1>19, DoesRollbackCleanup DEF Ended, Moved
    <2>2. reg' = reg
        BY <1>19, DoesRollbackCleanup
    <2>3. RegKeys' = RegKeys /\ \A i : OtherKeys(i)' = OtherKeys(i)
        BY <2>2, SameKeys
    <2>4. ASSUME faults' = 0, ~overlap' PROVE ConfNow'
        <4>1. ConfNow
            BY <2>4, <2>1 DEF ConfInv
        <4>2. ConfAt(o) /\ \A q \in Operators \ {o} : pc'[q] = "idle"
            BY <2>1, <4>1, Alone
        <4>3. ConfAt(o)'
            BY <2>1, <2>2, <2>3, <4>2, StepNames DEF ConfAt
        <4> QED
            BY <4>2, <4>3, StillAlone
    <2> QED
        BY <1>19, <2>1, <2>2, <2>3, <2>4 DEF ConfInv
<1>20. ASSUME NEW o \in Operators, RollbackStepFails(o) PROVE ConfInv'
    <2>1. CASE pc[o] = "rbCleanup"
        <3>1. faults' # 0
            BY <2>1, <1>20, DoesRollbackStepFailsA
        <3> QED
            BY <1>20, <2>1, <3>1 DEF ConfInv
    <2>2. CASE pc[o] # "rbCleanup"
        <3>1. faults' # 0
            BY <2>2, <1>20, DoesRollbackStepFailsB
        <3> QED
            BY <1>20, <2>2, <3>1 DEF ConfInv
    <2> QED
        BY <2>1, <2>2
<1>21. ASSUME NEW o \in Operators, NEW i \in Ids, RemoveNode(o, i) PROVE ConfInv'
    <2>1. /\ \A q \in Operators \ {o} : pc'[q] = pc[q]
          /\ pc[o] = "idle"
          /\ pc'[o] = "uninstall"
          /\ faults' = faults /\ overlap' = (overlap \/ Active # {})
          /\ conf' = conf
        BY <1>21, DoesRemoveNode DEF Moved, Begun
    <2>2. reg' = reg
        BY <1>21, DoesRemoveNode
    <2>3. RegKeys' = RegKeys /\ \A j : OtherKeys(j)' = OtherKeys(j)
        BY <2>2, SameKeys
    <2>4. ASSUME faults' = 0, ~overlap' PROVE ConfNow'
        <4>1. ConfNow /\ Active = {}
            BY <2>4, <2>1 DEF ConfInv
        <4>2. conf = RegKeys /\ \A q \in Operators \ {o} : pc'[q] = "idle"
            BY <2>1, <4>1, NobodyYet
        <4>3. ConfAt(o)'
            BY <2>1, <2>2, <2>3, <4>2, StepNames DEF ConfAt
        <4> QED
            BY <4>2, <4>3, StillAlone
    <2> QED
        BY <1>21, <2>1, <2>2, <2>3, <2>4 DEF ConfInv
<1>22. ASSUME NEW o \in Operators, NEW i \in Ids, ForceDetachNode(o, i) PROVE ConfInv'
    <2>1. /\ \A q \in Operators \ {o} : pc'[q] = pc[q]
          /\ pc[o] = "idle"
          /\ pc'[o] = "dtLoad"
          /\ faults' = faults /\ overlap' = (overlap \/ Active # {})
          /\ conf' = conf
        BY <1>22, DoesForceDetachNode DEF Moved, Begun
    <2>2. reg' = reg
        BY <1>22, DoesForceDetachNode
    <2>3. RegKeys' = RegKeys /\ \A j : OtherKeys(j)' = OtherKeys(j)
        BY <2>2, SameKeys
    <2>4. ASSUME faults' = 0, ~overlap' PROVE ConfNow'
        <4>1. ConfNow /\ Active = {}
            BY <2>4, <2>1 DEF ConfInv
        <4>2. conf = RegKeys /\ \A q \in Operators \ {o} : pc'[q] = "idle"
            BY <2>1, <4>1, NobodyYet
        <4>3. ConfAt(o)'
            BY <2>1, <2>2, <2>3, <4>2, StepNames DEF ConfAt
        <4> QED
            BY <4>2, <4>3, StillAlone
    <2> QED
        BY <1>22, <2>1, <2>2, <2>3, <2>4 DEF ConfInv
<1>23. ASSUME NEW o \in Operators, Uninstall(o) PROVE ConfInv'
    <2>1. CASE Reachable(o)
        <3>1. /\ \A q \in Operators \ {o} : pc'[q] = pc[q]
              /\ pc[o] = "uninstall"
              /\ pc'[o] = "dtLoad"
              /\ cur'[o].id = cur[o].id
              /\ faults' = faults /\ overlap' = overlap
              /\ conf' = conf
            BY <2>1, <1>23, DoesUninstallA DEF Kept, Same, Moved
        <3>2. reg' = reg
            BY <2>1, <1>23, DoesUninstallA
        <3>3. RegKeys' = RegKeys /\ \A i : OtherKeys(i)' = OtherKeys(i)
            BY <3>2, SameKeys
        <3>4. ASSUME faults' = 0, ~overlap' PROVE ConfNow'
        <4>1. ConfNow
            BY <3>4, <3>1 DEF ConfInv
        <4>2. ConfAt(o) /\ \A q \in Operators \ {o} : pc'[q] = "idle"
            BY <3>1, <4>1, Alone
        <4>3. ConfAt(o)'
            BY <3>1, <3>2, <3>3, <4>2, StepNames DEF ConfAt
        <4> QED
            BY <4>2, <4>3, StillAlone
        <3> QED
            BY <1>23, <2>1, <3>1, <3>2, <3>3, <3>4 DEF ConfInv
    <2>2. CASE ~Reachable(o)
        <3>1. /\ \A q \in Operators \ {o} : pc'[q] = pc[q]
              /\ pc[o] = "uninstall"
              /\ pc'[o] = "idle"
              /\ faults' = faults /\ overlap' = overlap
              /\ conf' = conf
            BY <2>2, <1>23, DoesUninstallB DEF Ended, Moved
        <3>2. reg' = reg
            BY <2>2, <1>23, DoesUninstallB
        <3>3. RegKeys' = RegKeys /\ \A i : OtherKeys(i)' = OtherKeys(i)
            BY <3>2, SameKeys
        <3>4. ASSUME faults' = 0, ~overlap' PROVE ConfNow'
        <4>1. ConfNow
            BY <3>4, <3>1 DEF ConfInv
        <4>2. ConfAt(o) /\ \A q \in Operators \ {o} : pc'[q] = "idle"
            BY <3>1, <4>1, Alone
        <4>3. ConfAt(o)'
            BY <3>1, <3>2, <3>3, <4>2, StepNames DEF ConfAt
        <4> QED
            BY <4>2, <4>3, StillAlone
        <3> QED
            BY <1>23, <2>2, <3>1, <3>2, <3>3, <3>4 DEF ConfInv
    <2> QED
        BY <2>1, <2>2
<1>24. ASSUME NEW o \in Operators, UninstallFails(o) PROVE ConfInv'
    <2>1. faults' # 0
        BY <1>24, DoesUninstallFails
    <2> QED
        BY <1>24, <2>1 DEF ConfInv
<1>25. ASSUME NEW o \in Operators, DetachLoad(o) PROVE ConfInv'
    <2>1. CASE cur[o].id \in Registered
        <3>1. /\ \A q \in Operators \ {o} : pc'[q] = pc[q]
              /\ pc[o] = "dtLoad"
              /\ pc'[o] = "dtWrite"
              /\ cur'[o].list = OtherKeys(cur[o].id)
              /\ cur'[o].id = cur[o].id
              /\ faults' = faults /\ overlap' = overlap
              /\ conf' = conf
            BY <2>1, <1>25, DoesDetachLoadA DEF Kept, Same, Moved
        <3>2. reg' = reg
            BY <2>1, <1>25, DoesDetachLoadA
        <3>3. RegKeys' = RegKeys /\ \A i : OtherKeys(i)' = OtherKeys(i)
            BY <3>2, SameKeys
        <3>4. ASSUME faults' = 0, ~overlap' PROVE ConfNow'
        <4>1. ConfNow
            BY <3>4, <3>1 DEF ConfInv
        <4>2. ConfAt(o) /\ \A q \in Operators \ {o} : pc'[q] = "idle"
            BY <3>1, <4>1, Alone
        <4>3. ConfAt(o)'
            BY <3>1, <3>2, <3>3, <4>2, StepNames DEF ConfAt
        <4> QED
            BY <4>2, <4>3, StillAlone
        <3> QED
            BY <1>25, <2>1, <3>1, <3>2, <3>3, <3>4 DEF ConfInv
    <2>2. CASE cur[o].id \notin Registered
        <3>1. /\ \A q \in Operators \ {o} : pc'[q] = pc[q]
              /\ pc[o] = "dtLoad"
              /\ pc'[o] = "idle"
              /\ faults' = faults /\ overlap' = overlap
              /\ conf' = conf
            BY <2>2, <1>25, DoesDetachLoadB DEF Ended, Moved
        <3>2. reg' = reg
            BY <2>2, <1>25, DoesDetachLoadB
        <3>3. RegKeys' = RegKeys /\ \A i : OtherKeys(i)' = OtherKeys(i)
            BY <3>2, SameKeys
        <3>4. ASSUME faults' = 0, ~overlap' PROVE ConfNow'
        <4>1. ConfNow
            BY <3>4, <3>1 DEF ConfInv
        <4>2. ConfAt(o) /\ \A q \in Operators \ {o} : pc'[q] = "idle"
            BY <3>1, <4>1, Alone
        <4>3. ConfAt(o)'
            BY <3>1, <3>2, <3>3, <4>2, StepNames DEF ConfAt
        <4> QED
            BY <4>2, <4>3, StillAlone
        <3> QED
            BY <1>25, <2>2, <3>1, <3>2, <3>3, <3>4 DEF ConfInv
    <2> QED
        BY <2>1, <2>2
<1>26. ASSUME NEW o \in Operators, DetachWrite(o) PROVE ConfInv'
    <2>1. /\ \A q \in Operators \ {o} : pc'[q] = pc[q]
          /\ pc[o] = "dtWrite"
          /\ pc'[o] = "dtPeer"
          /\ cur'[o].id = cur[o].id
          /\ faults' = faults /\ overlap' = overlap
          /\ conf' = cur[o].list
        BY <1>26, DoesDetachWrite DEF Kept, Same, Moved
    <2>2. reg' = reg
        BY <1>26, DoesDetachWrite
    <2>3. RegKeys' = RegKeys /\ \A i : OtherKeys(i)' = OtherKeys(i)
        BY <2>2, SameKeys
    <2>4. ASSUME faults' = 0, ~overlap' PROVE ConfNow'
        <4>1. ConfNow
            BY <2>4, <2>1 DEF ConfInv
        <4>2. ConfAt(o) /\ \A q \in Operators \ {o} : pc'[q] = "idle"
            BY <2>1, <4>1, Alone
        <4>3. ConfAt(o)'
            BY <2>1, <2>2, <2>3, <4>2, StepNames DEF ConfAt
        <4> QED
            BY <4>2, <4>3, StillAlone
    <2> QED
        BY <1>26, <2>1, <2>2, <2>3, <2>4 DEF ConfInv
<1>27. ASSUME NEW o \in Operators, DetachPeer(o) PROVE ConfInv'
    <2>1. /\ \A q \in Operators \ {o} : pc'[q] = pc[q]
          /\ pc[o] = "dtPeer"
          /\ pc'[o] = "dtRemove"
          /\ cur'[o].id = cur[o].id
          /\ faults' = faults /\ overlap' = overlap
          /\ conf' = conf
        BY <1>27, DoesDetachPeer DEF Kept, Same, Moved
    <2>2. reg' = reg
        BY <1>27, DoesDetachPeer
    <2>3. RegKeys' = RegKeys /\ \A i : OtherKeys(i)' = OtherKeys(i)
        BY <2>2, SameKeys
    <2>4. ASSUME faults' = 0, ~overlap' PROVE ConfNow'
        <4>1. ConfNow
            BY <2>4, <2>1 DEF ConfInv
        <4>2. ConfAt(o) /\ \A q \in Operators \ {o} : pc'[q] = "idle"
            BY <2>1, <4>1, Alone
        <4>3. ConfAt(o)'
            BY <2>1, <2>2, <2>3, <4>2, StepNames DEF ConfAt
        <4> QED
            BY <4>2, <4>3, StillAlone
    <2> QED
        BY <1>27, <2>1, <2>2, <2>3, <2>4 DEF ConfInv
<1>28. ASSUME NEW o \in Operators, DetachRemove(o) PROVE ConfInv'
    <2>1. /\ \A q \in Operators \ {o} : pc'[q] = pc[q]
          /\ pc[o] = "dtRemove"
          /\ pc'[o] = "idle"
          /\ faults' = faults /\ overlap' = overlap
          /\ conf' = conf
        BY <1>28, DoesDetachRemove DEF Ended, Moved
    <2>2. pc[o] \in {"rbRemove", "dtRemove"} /\ Entered(o, Absent)
        BY <1>28, DoesDetachRemove
    <2>3. Registered' = Registered \ {cur[o].id} /\ \A i \in Registered' : reg'[i] = reg[i]
        BY <2>2, OpFacts, Dropping
    <2>4. RegKeys' = OtherKeys(cur[o].id)
        BY <2>3 DEF RegKeys, OtherKeys
    <2>5. ASSUME faults' = 0, ~overlap' PROVE ConfNow'
        <4>1. ConfNow
            BY <2>5, <2>1 DEF ConfInv
        <4>2. ConfAt(o) /\ \A q \in Operators \ {o} : pc'[q] = "idle"
            BY <2>1, <4>1, Alone
        <4>3. ConfAt(o)'
            BY <2>1, <2>2, <2>3, <2>4, <4>2, StepNames DEF ConfAt
        <4> QED
            BY <4>2, <4>3, StillAlone
    <2> QED
        BY <1>28, <2>1, <2>2, <2>3, <2>4, <2>5 DEF ConfInv
<1>29. ASSUME NEW o \in Operators, DetachStepFails(o) PROVE ConfInv'
    <2>1. faults' # 0
        BY <1>29, DoesDetachStepFails
    <2> QED
        BY <1>29, <2>1 DEF ConfInv
<1>30. ASSUME NEW o \in Operators, EnsureOverlay(o) PROVE ConfInv'
    <2>1. /\ \A q \in Operators \ {o} : pc'[q] = pc[q]
          /\ pc[o] = "idle"
          /\ pc'[o] = "ovLoad"
          /\ faults' = faults /\ overlap' = (overlap \/ Active # {})
          /\ conf' = conf
        BY <1>30, DoesEnsureOverlay DEF Moved
    <2>2. reg' = reg
        BY <1>30, DoesEnsureOverlay
    <2>3. RegKeys' = RegKeys /\ \A i : OtherKeys(i)' = OtherKeys(i)
        BY <2>2, SameKeys
    <2>4. ASSUME faults' = 0, ~overlap' PROVE ConfNow'
        <4>1. ConfNow /\ Active = {}
            BY <2>4, <2>1 DEF ConfInv
        <4>2. conf = RegKeys /\ \A q \in Operators \ {o} : pc'[q] = "idle"
            BY <2>1, <4>1, NobodyYet
        <4>3. ConfAt(o)'
            BY <2>1, <2>2, <2>3, <4>2, StepNames DEF ConfAt
        <4> QED
            BY <4>2, <4>3, StillAlone
    <2> QED
        BY <1>30, <2>1, <2>2, <2>3, <2>4 DEF ConfInv
<1>31. ASSUME NEW o \in Operators, OverlayLoad(o) PROVE ConfInv'
    <2>1. /\ \A q \in Operators \ {o} : pc'[q] = pc[q]
          /\ pc[o] = "ovLoad"
          /\ pc'[o] = "ovWrite"
          /\ cur'[o].list = RegKeys
          /\ cur'[o].id = cur[o].id
          /\ faults' = faults /\ overlap' = overlap
          /\ conf' = conf
        BY <1>31, DoesOverlayLoad DEF Kept, Same, Moved
    <2>2. reg' = reg
        BY <1>31, DoesOverlayLoad
    <2>3. RegKeys' = RegKeys /\ \A i : OtherKeys(i)' = OtherKeys(i)
        BY <2>2, SameKeys
    <2>4. ASSUME faults' = 0, ~overlap' PROVE ConfNow'
        <4>1. ConfNow
            BY <2>4, <2>1 DEF ConfInv
        <4>2. ConfAt(o) /\ \A q \in Operators \ {o} : pc'[q] = "idle"
            BY <2>1, <4>1, Alone
        <4>3. ConfAt(o)'
            BY <2>1, <2>2, <2>3, <4>2, StepNames DEF ConfAt
        <4> QED
            BY <4>2, <4>3, StillAlone
    <2> QED
        BY <1>31, <2>1, <2>2, <2>3, <2>4 DEF ConfInv
<1>32. ASSUME NEW o \in Operators, OverlayWrite(o) PROVE ConfInv'
    <2>1. /\ \A q \in Operators \ {o} : pc'[q] = pc[q]
          /\ pc[o] = "ovWrite"
          /\ pc'[o] = "idle"
          /\ faults' = faults /\ overlap' = overlap
          /\ conf' = cur[o].list
        BY <1>32, DoesOverlayWrite DEF Ended, Moved
    <2>2. reg' = reg
        BY <1>32, DoesOverlayWrite
    <2>3. RegKeys' = RegKeys /\ \A i : OtherKeys(i)' = OtherKeys(i)
        BY <2>2, SameKeys
    <2>4. ASSUME faults' = 0, ~overlap' PROVE ConfNow'
        <4>1. ConfNow
            BY <2>4, <2>1 DEF ConfInv
        <4>2. ConfAt(o) /\ \A q \in Operators \ {o} : pc'[q] = "idle"
            BY <2>1, <4>1, Alone
        <4>3. ConfAt(o)'
            BY <2>1, <2>2, <2>3, <4>2, StepNames DEF ConfAt
        <4> QED
            BY <4>2, <4>3, StillAlone
    <2> QED
        BY <1>32, <2>1, <2>2, <2>3, <2>4 DEF ConfInv
<1>33. ASSUME NEW o \in Operators, Crash(o) PROVE ConfInv'
    <2>1. faults' # 0
        BY <1>33, DoesCrash
    <2> QED
        BY <1>33, <2>1 DEF ConfInv
<1>34. CASE UNCHANGED vars
    BY <1>34 DEF ConfInv, ConfNow, ConfAt, Active, RegKeys, OtherKeys, Registered, vars
<1> QED
    BY <1>1, <1>2, <1>3, <1>4, <1>5, <1>6, <1>7, <1>8, <1>9, <1>10, <1>11, <1>12, <1>13,
           <1>14, <1>15, <1>16, <1>17, <1>18, <1>19, <1>20, <1>21, <1>22, <1>23, <1>24, <1>25,
           <1>26, <1>27, <1>28, <1>29, <1>30, <1>31, <1>32, <1>33, <1>34 DEF Next, Adding, RollingBack, Removing, Overlay

-----------------------------------------------------------------------------
(* Several operations on one machine, and on one node.                     *)

(* An operation that has a node has a host.                                *)
LEMMA Hosted ==
    ASSUME TypeOK, StepInv, NEW o \in Operators
    PROVE  /\ cur[o].id # NoId \/ cur[o].key # NoId => cur[o].host # NoId /\ pc[o] # "idle"
           /\ cur[o].host # NoId => pc[o] # "idle" /\ cur[o].host \in Hosts
<1>1. pc[o] \in {"idle", "ovLoad", "ovWrite"} => cur[o].host = NoId /\ cur[o].id = NoId /\ cur[o].key = NoId
    BY DEF StepInv
<1>2. pc[o] \notin {"idle", "ovLoad", "ovWrite"} => cur[o].host \in Hosts
    BY OpFacts
<1> QED
    BY <1>1, <1>2, NoIdIsNoNode, LocalFacts

(* A node's agent and deployment are on its machine or nowhere.            *)
LEMMA OneMachine ==
    ASSUME TypeOK, StepInv, HomeInv, NEW o \in Operators, cur[o].id \in Ids
    PROVE  \A s \in Servers : On(s, cur[o].id) => s = Target(o)
<1>1. PICK home \in [used -> Servers] : HomeOf(home)
    BY DEF HomeInv
<1>2. cur[o].id # NoId
    BY NoIdIsNoNode
<1>3. home[cur[o].id] = Target(o)
    BY <1>1, <1>2 DEF HomeOf, MachinesHome, NodesHome, OperatorsHome
<1>4. \A s \in Servers : machine[s].agent = cur[o].id => home[cur[o].id] = s
    BY <1>1, <1>2 DEF HomeOf, MachinesHome, NodesHome, OperatorsHome
<1>5. \A s \in Servers : machine[s].owner = cur[o].id => home[cur[o].id] = s
    BY <1>1, <1>2 DEF HomeOf, MachinesHome, NodesHome, OperatorsHome
<1> QED
    BY <1>3, <1>4, <1>5 DEF On

(* An ID that was not generated is nowhere.                                *)
LEMMA Fresh ==
    ASSUME TypeOK, HomeInv, NEW i \in Ids, i \notin used
    PROVE  /\ i \notin Registered /\ \A s \in Servers : ~On(s, i)
           /\ i \notin BusyIds
<1>1. i # NoId
    BY NoIdIsNoNode
<1>2. \A s \in Servers : machine[s].agent # i /\ machine[s].owner # i
    BY <1>1 DEF HomeInv, HomeOf, MachinesHome, NodesHome, OperatorsHome
<1>3. \A o \in Operators : cur[o].id # i
    BY <1>1, KeysUsed
<1> QED
    BY <1>2, <1>3, KeysUsed DEF On, BusyIds

(* A step of an operator touches its own node only,                        *)
Apart(o) ==
    /\ \A q \in Operators \ {o} : pc'[q] = pc[q] /\ cur'[q] = cur[q]
    /\ \A i \in Ids \ {cur[o].id} : reg'[i] = reg[i]
    /\ cur[o].id \in Registered' /\ pc[o] # "register" =>
          /\ cur[o].id \in Registered
          /\ reg'[cur[o].id].key = reg[cur[o].id].key /\ reg'[cur[o].id].host = reg[cur[o].id].host
    /\ \A k \in Ids \ {cur[o].key} : k \in live' <=> k \in live
    /\ \A s \in Servers, i \in Ids : On(s, i)' => On(s, i) \/ (i = cur[o].id /\ pc[o] = "provision")
    /\ told \subseteq told' /\ leaving \subseteq leaving' /\ shared \subseteq shared'

(* keeps its node or takes another, noting who works on it,                *)
Keeps(o) ==
    \/ cur'[o].id = NoId
    \/ /\ cur'[o].id = cur[o].id
       /\ cur'[o].key = cur[o].key \/ pc[o] = "provision"
       /\ Adder(o)' => Adder(o)
    \/ cur'[o].id \in Ids /\ cur'[o].id \notin used
    \/ /\ cur'[o].id \in Registered /\ reg[cur'[o].id].key = cur'[o].key
       /\ ~Adder(o)'
       /\ cur'[o].id \in BusyIds => cur'[o].id \in shared' /\ cur'[o].key \in shared'

(* answers for the peer it leaves,                                         *)
Stays(o) == Touches(o)' /\ cur'[o].key = cur[o].key /\ cur'[o].id = cur[o].id
Peers(o) ==
    /\ Touches(o) /\ cur[o].key \in live' =>
          cur[o].key \in told' \/ Stays(o) \/ (pc[o] = "commit" /\ cur[o].id \in Registered')
    /\ cur[o].key \in live' /\ cur[o].key \notin live => Stays(o) /\ pc'[o] = "load"
    /\ cur[o].key \in live /\ cur[o].key \notin live' => cur[o].id \in Registered \/ cur[o].key \in shared
    /\ pc'[o] \in {"install", "commit"} =>
          \/ pc[o] \in {"install", "commit"}
          \/ \E s \in Servers : On(s, cur[o].id)
    /\ cur[o].id \in Registered \ Registered' /\ cur[o].key \in live' => cur[o].key \in told' \cup Owed'
    /\ cur[o].id \in Registered' /\ reg'[cur[o].id].installed /\ reg'[cur[o].id].key \notin shared' =>
          cur[o].id \in leaving' \cup told' \cup {cur'[o].id} \/ reg'[cur[o].id].key \in live'

(* and for the agent and the deployment.                                   *)
Agents(o) ==
    \A s \in Servers, i \in Ids :
        i = cur[o].id /\ On(s, i)' /\ (Adder(o) \/ cur[o].id \in Registered \ Registered') =>
            \/ i \in Registered' \cup told'
            \/ Adder(o)' /\ cur'[o].id = i

Own(o) ==
    /\ Keeps(o) /\ Peers(o) /\ Agents(o)
    /\ EntryAt(o)' /\ LiveAt(o)' /\ PeerAt(o)' /\ DropAt(o)' /\ AgentAt(o)'

\* The adds of the other operators answer for what they answered for.
LEMMA OthersAnswer ==
    ASSUME NEW o \in Operators, \A q \in Operators \ {o} : pc'[q] = pc[q] /\ cur'[q] = cur[q]
    PROVE  /\ \A q \in Operators \ {o} : (Touches(q)' <=> Touches(q)) /\ (Adder(q)' <=> Adder(q))
           /\ Owed' \subseteq Owed \cup {cur'[o].key}
           /\ ~Touches(o) => Owed \subseteq Owed'
           /\ Touches(o)' => cur'[o].key \in Owed'
<1>1. \A q \in Operators \ {o} : (Touches(q)' <=> Touches(q)) /\ (Adder(q)' <=> Adder(q))
    BY DEF Touches, Adder
<1> QED
    BY <1>1 DEF Owed

\* Two operations on one node stay noted.
LEMMA StaySole ==
    ASSUME TypeOK, StepInv, HomeInv, Sole, OperatorInv, NEW o \in Operators, Apart(o), Own(o)
    PROVE  Sole'
<1>1. \A q \in Operators \ {o} : cur'[q] = cur[q] /\ (Adder(q)' <=> Adder(q))
    BY OthersAnswer DEF Apart
<1>2. shared \subseteq shared'
    BY DEF Apart
<1>3. ASSUME NEW q \in Operators \ {o}, cur'[o].id # NoId, cur'[q].id = cur'[o].id
      PROVE  Shared(o)' /\ Shared(q)' /\ ~(Adder(o)' /\ Adder(q)')
    <2>1. cur'[q] = cur[q] /\ cur[q].id = cur'[o].id /\ cur[q].id # NoId
        BY <1>1, <1>3
    <2>2. CASE cur'[o].id = cur[o].id /\ (cur'[o].key = cur[o].key \/ pc[o] = "provision") /\ (Adder(o)' => Adder(o))
        <3>1. Shared(o) /\ Shared(q) /\ ~(Adder(o) /\ Adder(q))
            BY <2>1, <2>2 DEF Sole
        <3>2. pc[o] # "provision"
            BY <2>1, <2>2 DEF OperatorInv, EntryAt
        <3> QED
            BY <3>1, <3>2, <2>1, <2>2, <1>1, <1>2 DEF Shared
    <2>3. CASE cur'[o].id \in Ids /\ cur'[o].id \notin used
        BY <2>1, <2>3, KeysUsed
    <2>4. CASE /\ cur'[o].id \in Registered /\ reg[cur'[o].id].key = cur'[o].key
               /\ ~Adder(o)'
               /\ cur'[o].id \in BusyIds => cur'[o].id \in shared' /\ cur'[o].key \in shared'
        <3>1. cur[q].key = cur'[o].key /\ cur'[o].id \in BusyIds
            BY <2>1, <2>4 DEF OperatorInv, EntryAt, Known, BusyIds
        <3> QED
            BY <3>1, <2>1, <2>4 DEF Shared
    <2> QED
        BY <2>2, <2>3, <2>4, <1>3 DEF Own, Keeps
<1>4. ASSUME NEW q \in Operators \ {o}, NEW r \in Operators \ {o}, r # q,
             cur'[q].id # NoId, cur'[r].id = cur'[q].id
      PROVE  Shared(q)' /\ ~(Adder(q)' /\ Adder(r)')
    BY <1>1, <1>2, <1>4 DEF Sole, Shared
<1> QED
    BY <1>3, <1>4 DEF Sole

\* A step of one operator keeps the entry another one knows of.
LEMMA OthersKeepEntry ==
    ASSUME TypeOK, TypeOK', StepInv, HomeInv, Sole, OperatorInv,
           NEW o \in Operators, Apart(o), Own(o), NEW q \in Operators \ {o}
    PROVE  /\ EntryAt(q)'
           /\ cur[q].id \in Registered' => cur[q].id \in Registered
           /\ ~Shared(q) /\ cur[q].id # NoId => cur[q].id # cur[o].id
<1>1. /\ pc'[q] = pc[q] /\ cur'[q] = cur[q]
      /\ leaving \subseteq leaving' /\ shared \subseteq shared'
    BY DEF Apart
<1>2. EntryAt(q)
    BY DEF OperatorInv
<1>3. ~Shared(q) /\ cur[q].id # NoId => cur[q].id # cur[o].id
    BY DEF Sole
<1>4. CASE pc[q] \in {"idle", "ovLoad", "ovWrite"}
    <2>1. cur[q].id = NoId /\ cur'[q].id \notin Registered' /\ cur[q].id \notin Registered'
        BY <1>1, <1>4, NoIdIsNoNode DEF StepInv, Registered
    <2> QED
        BY <1>1, <1>3, <1>4, <2>1, StepNames DEF EntryAt, Joining
<1>5. CASE pc[q] \notin {"idle", "ovLoad", "ovWrite"}
    <2>1. cur[q].id \in Ids /\ cur[q].id \in used /\ cur[q].id # NoId
        BY <1>5, OpFacts, NoIdIsNoNode
    <2>2. ASSUME cur[q].id \in Registered'
          PROVE  cur[q].id \in Registered /\ reg'[cur[q].id].key = reg[cur[q].id].key
                 /\ reg'[cur[q].id].host = reg[cur[q].id].host
        <3>1. CASE cur[q].id # cur[o].id
            BY <3>1, <2>1, <2>2 DEF Apart, Registered
        <3>2. CASE cur[q].id = cur[o].id
            <4>1. pc[o] # "register"
                BY <3>2 DEF OperatorInv, EntryAt
            <4> QED
                BY <4>1, <3>2, <2>2 DEF Apart
        <3> QED
            BY <3>1, <3>2
    <2>3. cur[q].id \in Registered' => Known(q)'
        BY <2>2, <1>1, <1>2 DEF EntryAt, Known
    <2>4. ~Shared(q)' /\ cur[q].id \in Registered => cur[q].id \in Registered'
        <3>1. ~Shared(q)' => ~Shared(q)
            BY <1>1 DEF Shared
        <3> QED
            BY <3>1, <1>3, <2>1 DEF Apart, Registered
    <2>5. pc[q] \in {"provision", "register"} => \A r \in Operators \ {q} : cur'[r].id # cur[q].id
        <3>1. SUFFICES ASSUME pc[q] \in {"provision", "register"}, NEW r \in Operators \ {q}
                       PROVE  cur'[r].id # cur[q].id
            OBVIOUS
        <3>2. cur[r].id # cur[q].id /\ cur[q].id \notin Registered
            BY <3>1, <1>2 DEF EntryAt
        <3>3. CASE r # o
            BY <3>3, <3>2 DEF Apart
        <3>4. CASE r = o
            BY <3>4, <3>2, <2>1 DEF Own, Keeps
        <3> QED
            BY <3>3, <3>4
    <2>6. ~Shared(q)' => ~Shared(q)
        BY <1>1 DEF Shared
    <2>7. EntryAt(q)'
        BY <1>1, <1>2, <2>2, <2>3, <2>4, <2>5, <2>6 DEF EntryAt
    <2> QED
        BY <2>2, <2>7, <1>3
<1> QED
    BY <1>4, <1>5

\* A step of one operator takes no peer from another one's commit.
LEMMA OthersKeepLive ==
    ASSUME TypeOK, TypeOK', StepInv, HomeInv, RegistryUnique, Sole, OperatorInv,
           NEW o \in Operators, Apart(o), Own(o), NEW q \in Operators \ {o}
    PROVE  LiveAt(q)'
<1>1. pc'[q] = pc[q] /\ cur'[q] = cur[q] /\ shared \subseteq shared'
    BY DEF Apart
<1>2. SUFFICES ASSUME pc[q] \in Joining \ {"setpeer"}, cur[q].key \notin shared'
               PROVE  cur[q].key \in live'
    BY <1>1 DEF LiveAt
<1>3. cur[q].key \in live /\ cur[q].key \in Ids /\ cur[q].key \notin shared /\ ~Shared(q)
    BY <1>1, <1>2 DEF OperatorInv, LiveAt, TypeOK, Shared
<1>4. cur[q].id \in Registered /\ reg[cur[q].id].key = cur[q].key /\ cur[q].id # NoId
    BY <1>2, <1>3, NoIdIsNoNode DEF OperatorInv, EntryAt, Known, Registered
<1>5. cur[q].id # cur[o].id
    BY <1>3, <1>4 DEF Sole
<1>6. CASE cur[q].key = cur[o].key /\ cur[q].key \notin live'
    <2>1. cur[o].id \in Registered
        BY <1>3, <1>6 DEF Own, Peers
    <2>2. reg[cur[o].id].key = cur[o].key
        BY <2>1 DEF OperatorInv, EntryAt, Known
    <2> QED
        BY <2>1, <2>2, <1>4, <1>5, <1>6 DEF RegistryUnique
<1> QED
    BY <1>3, <1>6 DEF Apart

\* Who answered for a live peer still does, or has told, or has committed.
LEMMA StillOwed ==
    ASSUME TypeOK, NEW o \in Operators, Apart(o), Own(o), NEW k \in Owed, k \in live'
    PROVE  \/ k \in told' \cup Owed'
           \/ Touches(o) /\ cur[o].key = k /\ pc[o] = "commit" /\ cur[o].id \in Registered'
<1>1. PICK r \in Operators : Touches(r) /\ cur[r].key = k
    BY DEF Owed
<1>2. CASE r # o
    <2>1. Touches(r)' /\ cur'[r] = cur[r]
        BY <1>1, <1>2, OthersAnswer DEF Apart
    <2> QED
        BY <1>1, <2>1 DEF Owed
<1>3. CASE r = o
    <2>1. Stays(o) => k \in Owed'
        BY <1>1, <1>3 DEF Stays, Owed
    <2> QED
        BY <1>1, <1>3, <2>1 DEF Own, Peers
<1> QED
    BY <1>2, <1>3

\* What a rollback of another operator may leave stays answered for.
LEMMA OthersKeepPeer ==
    ASSUME TypeOK, TypeOK', StepInv, HomeInv, RegistryUnique, Sole, OperatorInv,
           NEW o \in Operators, Apart(o), Own(o), NEW q \in Operators \ {o}
    PROVE  PeerAt(q)'
<1>1. pc'[q] = pc[q] /\ cur'[q] = cur[q] /\ told \subseteq told' /\ (RollsBack(q)' <=> RollsBack(q))
    BY DEF Apart, RollsBack
<1>2. SUFFICES ASSUME RollsBack(q), cur[q].id \in Registered', cur[q].key \in live'
               PROVE  cur[q].key \in told' \cup Owed'
    BY <1>1 DEF PeerAt
<1>3. cur[q].id \in Registered
    BY <1>2, OthersKeepEntry
<1>4. reg[cur[q].id].key = cur[q].key /\ cur[q].id # NoId
    BY <1>3, NoIdIsNoNode DEF OperatorInv, EntryAt, Known, Registered
<1>5. CASE cur[q].key \in live
    <2>1. cur[q].key \in told \cup Owed
        BY <1>2, <1>3, <1>5 DEF OperatorInv, PeerAt
    <2>2. ~(Touches(o) /\ cur[o].key = cur[q].key /\ pc[o] = "commit" /\ cur[o].id \in Registered')
        <3>1. SUFFICES ASSUME cur[o].key = cur[q].key, pc[o] = "commit", cur[o].id \in Registered'
                       PROVE  FALSE
            OBVIOUS
        <3>2. cur[o].id \in Registered /\ reg[cur[o].id].key = cur[o].key
            BY <3>1 DEF Apart, OperatorInv, EntryAt, Known
        <3>3. cur[o].id = cur[q].id
            BY <3>1, <3>2, <1>3, <1>4 DEF RegistryUnique
        <3>4. Adder(o) /\ Adder(q)
            BY <3>1, <1>2, StepNames DEF Adder, RollsBack
        <3> QED
            BY <3>3, <3>4, <1>4 DEF Sole
    <2> QED
        BY <2>1, <2>2, <1>1, <1>2, StillOwed
<1>6. CASE cur[q].key \notin live
    <2>1. cur[q].key = cur[o].key
        BY <1>2, <1>6 DEF Apart, TypeOK
    <2>2. Stays(o)
        BY <2>1, <1>2, <1>6 DEF Own, Peers
    <2> QED
        BY <2>1, <2>2 DEF Stays, Owed
<1> QED
    BY <1>5, <1>6

\* What a removal of another operator may leave stays answered for: the
\* add of a node whose agent is gone does not commit it.
LEMMA OthersKeepDrop ==
    ASSUME TypeOK, TypeOK', StepInv, HomeInv, RegistryUnique, Sole, OperatorInv,
           NEW o \in Operators, Apart(o), Own(o), NEW q \in Operators \ {o}
    PROVE  DropAt(q)'
<1>1. pc'[q] = pc[q] /\ cur'[q] = cur[q] /\ told \subseteq told'
    BY DEF Apart
<1>2. SUFFICES ASSUME pc[q] = "dtRemove", cur[q].id \in Registered', cur[q].key \in live',
                      cur[q].key \notin told'
               PROVE  \E r \in Operators : Answers(r, q)'
    BY <1>1 DEF DropAt
<1>3. cur[q].id \in Registered
    BY <1>2, OthersKeepEntry
<1>4. reg[cur[q].id].key = cur[q].key
    BY <1>3 DEF OperatorInv, EntryAt, Known
<1>5. CASE cur[q].key \in live
    <2>1. PICK r \in Operators : Answers(r, q)
        BY <1>1, <1>2, <1>3, <1>5 DEF OperatorInv, DropAt
    <2>2. CASE r # o
        <3>1. Touches(r)' /\ cur'[r] = cur[r] /\ pc'[r] = pc[r]
            BY <2>1, <2>2, OthersAnswer DEF Apart, Answers
        <3> QED
            BY <3>1, <2>1, <1>1 DEF Answers
    <2>3. CASE r = o
        <3>1. Touches(o) /\ cur[o].key = cur[q].key /\ (cur[o].id # cur[q].id \/ pc[o] \notin {"install", "commit"})
            BY <2>1, <2>3 DEF Answers
        <3>2. ~(pc[o] = "commit" /\ cur[o].id \in Registered')
            <4>1. SUFFICES ASSUME pc[o] = "commit", cur[o].id \in Registered' PROVE FALSE
                OBVIOUS
            <4>2. cur[o].id \in Registered /\ reg[cur[o].id].key = cur[o].key
                BY <4>1 DEF Apart, OperatorInv, EntryAt, Known
            <4> QED
                BY <4>1, <4>2, <3>1, <1>3, <1>4 DEF RegistryUnique
        <3>3. Stays(o)
            BY <3>1, <3>2, <1>2 DEF Own, Peers
        <3>4. cur[o].id = cur[q].id => pc'[o] \notin {"install", "commit"}
            <4>1. SUFFICES ASSUME cur[o].id = cur[q].id, pc'[o] \in {"install", "commit"} PROVE FALSE
                OBVIOUS
            <4>2. PICK s \in Servers : On(s, cur[o].id)
                BY <4>1, <3>1 DEF Own, Peers
            <4> QED
                BY <4>1, <4>2, <1>1, <1>2, StepNames DEF OperatorInv, AgentAt
        <3>5. Answers(o, q)'
            BY <3>1, <3>3, <3>4, <1>1 DEF Answers, Stays
        <3> QED
            BY <3>5
    <2> QED
        BY <2>2, <2>3
<1>6. CASE cur[q].key \notin live
    <2>1. cur[q].key = cur[o].key
        BY <1>2, <1>6 DEF Apart, TypeOK
    <2>2. Stays(o) /\ pc'[o] = "load"
        BY <2>1, <1>2, <1>6 DEF Own, Peers
    <2>3. Answers(o, q)'
        BY <2>1, <2>2, <1>1 DEF Stays, Answers
    <2> QED
        BY <2>3
<1> QED
    BY <1>5, <1>6

\* A step of one operator brings no agent to another one's node.
LEMMA OthersKeepAgent ==
    ASSUME TypeOK, TypeOK', StepInv, OperatorInv, NEW o \in Operators, Apart(o), NEW q \in Operators \ {o}
    PROVE  AgentAt(q)'
<1>1. pc'[q] = pc[q] /\ cur'[q] = cur[q] /\ told \subseteq told'
    BY DEF Apart
<1>2. AgentAt(q)
    BY DEF OperatorInv
<1>3. CASE pc[q] \in {"idle", "ovLoad", "ovWrite"}
    BY <1>1, <1>3, StepNames DEF AgentAt
<1>4. CASE pc[q] \notin {"idle", "ovLoad", "ovWrite"}
    <2>1. cur[q].id \in Ids
        BY <1>4, OpFacts
    <2>2. pc[o] = "provision" => cur[q].id # cur[o].id
        BY DEF OperatorInv, EntryAt
    <2>3. \A s \in Servers : On(s, cur[q].id)' => On(s, cur[q].id)
        <3>1. \A s \in Servers, i \in Ids : On(s, i)' => On(s, i) \/ (i = cur[o].id /\ pc[o] = "provision")
            BY DEF Apart
        <3>2. \A s \in Servers : On(s, cur[q].id)' <=> (machine'[s].agent = cur[q].id
                \/ (machine'[s].owner = cur[q].id /\ machine'[s].runtime = "own"))
            BY <1>1 DEF On
        <3> QED
            BY <3>1, <3>2, <2>1, <2>2 DEF On
    <2> QED
        BY <1>1, <1>2, <2>3 DEF AgentAt
<1> QED
    BY <1>3, <1>4

\* A step of one operator leaves no peer that nobody answers for.
LEMMA PeersStayKnown ==
    ASSUME TypeOK, TypeOK', OperatorInv, PeersKnown, NEW o \in Operators, Apart(o), Own(o)
    PROVE  PeersKnown'
<1>1. SUFFICES ASSUME NEW k \in live' PROVE k \in RegKeys' \cup told' \cup Owed'
    BY DEF PeersKnown
<1>2. CASE k \notin live
    <2>1. k = cur[o].key
        BY <1>1, <1>2 DEF Apart, TypeOK
    <2>2. Stays(o)
        BY <2>1, <1>1, <1>2 DEF Own, Peers
    <2> QED
        BY <2>1, <2>2 DEF Stays, Owed
<1>3. CASE k \in live
    <2>1. k \in RegKeys \cup told \cup Owed
        BY <1>3 DEF PeersKnown
    <2>2. ASSUME cur[o].id \in Registered', pc[o] # "register", cur[o].key = k PROVE k \in RegKeys'
        <3>1. cur[o].id \in Registered /\ reg'[cur[o].id].key = reg[cur[o].id].key
            BY <2>2 DEF Apart
        <3>2. reg[cur[o].id].key = k
            BY <3>1, <2>2 DEF OperatorInv, EntryAt, Known
        <3> QED
            BY <3>1, <3>2, <2>2 DEF RegKeys
    <2>3. ASSUME NEW j \in Registered, reg[j].key = k PROVE k \in RegKeys' \cup told' \cup Owed'
        <3>1. CASE j # cur[o].id
            <4>1. j \in Ids /\ reg'[j] = reg[j]
                BY <3>1 DEF Apart, Registered
            <4> QED
                BY <4>1, <2>3 DEF Registered, RegKeys
        <3>2. CASE j = cur[o].id
            <4>1. cur[o].key = k /\ pc[o] # "register"
                BY <3>2, <2>3 DEF OperatorInv, EntryAt, Known
            <4> QED
                BY <4>1, <3>2, <2>2, <2>3, <1>1 DEF Own, Peers
        <3> QED
            BY <3>1, <3>2
    <2>4. k \in Owed => k \in RegKeys' \cup told' \cup Owed'
        BY <1>1, <2>2, StillOwed
    <2> QED
        BY <2>1, <2>3, <2>4 DEF RegKeys, Apart
<1> QED
    BY <1>2, <1>3

\* A step of one operator takes no committed node's live peer.
LEMMA PeersStayLive ==
    ASSUME TypeOK, TypeOK', RegistryUnique, OperatorInv, PeersLive, NEW o \in Operators, Apart(o), Own(o)
    PROVE  PeersLive'
<1>1. SUFFICES ASSUME NEW i \in Registered' \ (leaving' \cup told' \cup BusyIds'), reg'[i].installed,
                      reg'[i].key \notin shared'
               PROVE  reg'[i].key \in live'
    BY DEF PeersLive
<1>2. i \in Ids /\ i # cur'[o].id
    BY DEF Registered, BusyIds
<1>3. CASE i = cur[o].id
    BY <1>1, <1>2, <1>3 DEF Own, Peers
<1>4. CASE i # cur[o].id
    <2>1. reg'[i] = reg[i] /\ i \in Registered
        BY <1>1, <1>2, <1>4 DEF Apart, Registered
    <2>2. i \notin leaving \cup told /\ reg[i].key \notin shared
        BY <1>1, <2>1 DEF Apart
    <2>3. i \notin BusyIds
        BY <1>1, <1>4 DEF Apart, BusyIds
    <2>4. reg[i].key \in live /\ reg[i].key \in Ids
        BY <1>1, <2>1, <2>2, <2>3, EntryFacts DEF PeersLive
    <2>5. CASE reg[i].key = cur[o].key /\ cur[o].key \notin live'
        <3>1. cur[o].id \in Registered
            BY <2>2, <2>4, <2>5 DEF Own, Peers
        <3>2. reg[cur[o].id].key = cur[o].key
            BY <3>1 DEF OperatorInv, EntryAt, Known
        <3> QED
            BY <3>1, <3>2, <2>1, <2>5, <1>4 DEF RegistryUnique
    <2> QED
        BY <2>1, <2>4, <2>5 DEF Apart
<1> QED
    BY <1>3, <1>4

\* A step of one operator leaves no agent that nobody knows of.
LEMMA AgentsStayKnown ==
    ASSUME TypeOK, StepInv, AgentsKnown, NEW o \in Operators, Apart(o), Own(o)
    PROVE  AgentsKnown'
<1>1. SUFFICES ASSUME NEW s \in Servers, NEW i \in Ids, On(s, i)'
               PROVE  i \in Registered' \cup told' \cup AdderIds'
    BY DEF AgentsKnown
<1>2. ASSUME NEW q \in Operators \ {o}, Adder(q), cur[q].id = i PROVE i \in AdderIds'
    <2>1. Adder(q)' /\ cur'[q] = cur[q]
        BY <1>2, OthersAnswer DEF Apart
    <2> QED
        BY <2>1, <1>2 DEF AdderIds
<1>3. CASE i # cur[o].id
    <2>1. On(s, i) /\ i \in Registered \cup told \cup AdderIds
        BY <1>1, <1>3 DEF Apart, AgentsKnown
    <2>2. i \in Registered => i \in Registered'
        BY <1>3 DEF Apart, Registered
    <2>3. i \in AdderIds => i \in AdderIds'
        BY <1>2, <1>3 DEF AdderIds
    <2> QED
        BY <2>1, <2>2, <2>3 DEF Apart
<1>4. CASE i = cur[o].id
    <2>1. Adder(o)' /\ cur'[o].id = i => i \in AdderIds'
        BY DEF AdderIds
    <2>2. CASE Adder(o) \/ i \in Registered \ Registered'
        BY <2>1, <2>2, <1>1, <1>4 DEF Own, Agents
    <2>3. CASE ~Adder(o) /\ ~(i \in Registered \ Registered')
        <3>1. On(s, i)
            BY <1>1, <2>3, StepNames DEF Apart, Adder
        <3>2. i \in Registered' \cup told \cup AdderIds
            BY <3>1, <2>3 DEF AgentsKnown
        <3>3. i \in AdderIds => i \in AdderIds'
            BY <1>2, <2>3 DEF AdderIds
        <3> QED
            BY <3>2, <3>3 DEF Apart
    <2> QED
        BY <2>2, <2>3
<1> QED
    BY <1>3, <1>4

(* Together: a step that keeps to its own node keeps the invariant.        *)
LEMMA Preserved ==
    ASSUME TypeOK, TypeOK', StepInv, RegistryUnique, HomeInv, CInv,
           NEW o \in Operators, Apart(o), Own(o)
    PROVE  CInv'
<1>1. Sole /\ OperatorInv /\ PeersKnown /\ PeersLive /\ AgentsKnown
    BY DEF CInv
<1>2. Sole' /\ PeersKnown' /\ PeersLive' /\ AgentsKnown'
    BY <1>1, StaySole, PeersStayKnown, PeersStayLive, AgentsStayKnown
<1>3. EntryAt(o)' /\ LiveAt(o)' /\ PeerAt(o)' /\ DropAt(o)' /\ AgentAt(o)'
    BY DEF Own
<1>4. \A q \in Operators \ {o} : EntryAt(q)' /\ LiveAt(q)' /\ PeerAt(q)' /\ DropAt(q)' /\ AgentAt(q)'
    BY <1>1, OthersKeepEntry, OthersKeepLive, OthersKeepPeer, OthersKeepDrop, OthersKeepAgent
<1>5. OperatorInv'
    BY <1>3, <1>4 DEF OperatorInv
<1> QED
    BY <1>2, <1>5 DEF CInv

(* Every step of every operator keeps the invariant.                       *)
LEMMA NextCInv ==
    TypeOK /\ TypeOK' /\ StepInv /\ RegistryUnique /\ HomeInv /\ CInv /\ [Next]_vars => CInv'
<1> SUFFICES ASSUME TypeOK, TypeOK', StepInv, RegistryUnique, HomeInv, CInv, [Next]_vars
             PROVE  CInv'
    OBVIOUS
<1>1. ASSUME NEW o \in Operators, NEW i \in Ids, NEW h \in Hosts, AddNode(o, i, h)
      PROVE  CInv'
    <2>1. /\ EntryAt(o) /\ LiveAt(o) /\ PeerAt(o) /\ DropAt(o) /\ AgentAt(o)
          /\ NoId \notin Ids /\ live \subseteq Ids /\ Registered \subseteq Ids
        BY <1>1, DoesAddNode, NoIdIsNoNode, KeyFacts DEF CInv, OperatorInv, TypeOK
    <2>2. /\ \A q \in Operators \ {o} : pc'[q] = pc[q] /\ cur'[q] = cur[q]
          /\ pc[o] = "idle"
          /\ pc'[o] = "provision"
          /\ cur'[o].id = i /\ cur'[o].host = h /\ cur'[o].key = NoId
          /\ cur'[o].touched = FALSE /\ cur'[o].failed = FALSE
        BY <1>1, DoesAddNode DEF Moved, Begun
    <2>3. cur[o].id = NoId /\ cur[o].key = NoId /\ pc[o] = "idle"
        BY <1>1, DoesAddNode DEF StepInv
    <2>4. reg' = reg
        BY <1>1, DoesAddNode
    <2>5. Registered' = Registered /\ RegKeys' = RegKeys /\ \A j : OtherKeys(j)' = OtherKeys(j)
        BY <2>4, SameKeys
    <2>6. /\ live' = live
          /\ told' = told
          /\ leaving' = leaving
          /\ shared' = shared
        BY <1>1, DoesAddNode
    <2>7. machine' = machine
        BY <1>1, DoesAddNode
    <2>8. \A j : \A s \in Servers : On(s, j)' <=> On(s, j)
        BY <2>7 DEF On
    <2>9. Apart(o)
        BY <2>1, <2>2, <2>3, <2>4, <2>5, <2>6, <2>7, <2>8, StepNames DEF Apart
    <2>10. /\ \A q \in Operators \ {o} : Touches(q)' <=> Touches(q)
           /\ ~Touches(o) => Owed \subseteq Owed'
           /\ Touches(o)' => cur'[o].key \in Owed'
        BY <2>2, OthersAnswer
    <2>11. i \notin Registered /\ (\A s \in Servers : ~On(s, i)) /\ i \notin BusyIds /\ i \notin used
        BY <1>1, DoesAddNode, Fresh
    <2>12. \A q \in Operators \ {o} : cur'[q].id # i
        BY <2>1, <2>2, <2>3, <2>4, <2>5, <2>6, <2>7, <2>8, <2>11 DEF BusyIds
    <2>13. EntryAt(o)'
        BY <2>1, <2>2, <2>3, <2>4, <2>5, <2>6, <2>7, <2>8, StepNames, <2>11, <2>12
        DEF EntryAt, Known, Shared, Joining
    <2>14. LiveAt(o)'
        BY <2>1, <2>2, <2>3, <2>4, <2>5, <2>6, <2>7, <2>8, StepNames, <2>11, <2>12
        DEF LiveAt, Joining
    <2>15. PeerAt(o)'
        BY <2>1, <2>2, <2>3, <2>4, <2>5, <2>6, <2>7, <2>8, StepNames, <2>11, <2>12, <2>10
        DEF PeerAt, RollsBack, Touches, Joining
    <2>16. DropAt(o)'
        BY <2>1, <2>2, <2>3, <2>4, <2>5, <2>6, <2>7, <2>8, StepNames, <2>11, <2>12
        DEF DropAt
    <2>17. AgentAt(o)'
        BY <2>1, <2>2, <2>3, <2>4, <2>5, <2>6, <2>7, <2>8, StepNames, <2>11, <2>12
        DEF AgentAt
    <2>18. Keeps(o)
        BY <2>1, <2>2, <2>3, <2>4, <2>5, <2>6, <2>7, <2>8, StepNames, <2>11, <2>12
        DEF Keeps, Adder
    <2>19. Peers(o)
        BY <2>1, <2>2, <2>3, <2>4, <2>5, <2>6, <2>7, <2>8, StepNames, <2>11, <2>12, <2>10
        DEF Peers, Stays, Touches, Joining, EntryAt, Known, Shared, LiveAt, PeerAt, RollsBack
    <2>20. Agents(o)
        BY <2>1, <2>2, <2>3, <2>4, <2>5, <2>6, <2>7, <2>8, StepNames, <2>11, <2>12
        DEF Agents, Adder
    <2>21. Own(o)
        BY <2>13, <2>14, <2>15, <2>16, <2>17, <2>18, <2>19, <2>20 DEF Own
    <2> QED
        BY <2>9, <2>21, Preserved
<1>2. ASSUME NEW o \in Operators, Provision(o) PROVE CInv'
    <2>1. /\ EntryAt(o) /\ LiveAt(o) /\ PeerAt(o) /\ DropAt(o) /\ AgentAt(o)
          /\ NoId \notin Ids /\ live \subseteq Ids /\ Registered \subseteq Ids /\ cur[o].id \in Ids
        BY <1>2, DoesProvision, NoIdIsNoNode, KeyFacts, OpFacts, StepNames
        DEF CInv, OperatorInv, TypeOK
    <2>2. /\ \A q \in Operators \ {o} : pc'[q] = pc[q] /\ cur'[q] = cur[q]
          /\ pc[o] = "provision"
          /\ pc'[o] = "register"
          /\ cur'[o].id = cur[o].id /\ cur'[o].host = cur[o].host
          /\ cur'[o].touched = cur[o].touched /\ cur'[o].failed = cur[o].failed
          /\ cur'[o].key = (IF machine[Target(o)].key = NoId THEN cur[o].id ELSE machine[Target(o)].key)
        BY <1>2, DoesProvision, MachineFields, OpFacts DEF Same, Moved
    <2>3. reg' = reg
        BY <1>2, DoesProvision
    <2>4. Registered' = Registered /\ RegKeys' = RegKeys /\ \A i : OtherKeys(i)' = OtherKeys(i)
        BY <2>3, SameKeys
    <2>5. /\ live' = live
          /\ told' = told
          /\ leaving' = leaving
          /\ shared' = shared
        BY <1>2, DoesProvision
    <2>6. machine[Target(o)] \in Machine /\ Target(o) \in Servers /\ cur[o].id \in Ids
        BY <1>2, DoesProvision, OpFacts, StepNames
    <2>7. /\ \A s \in Servers \ {Target(o)} : machine'[s] = machine[s]
          /\ machine'[Target(o)].key = (IF machine[Target(o)].key = NoId THEN cur[o].id ELSE machine[Target(o)].key) /\ machine'[Target(o)].agent = cur[o].id
          /\ machine'[Target(o)].owner = machine[Target(o)].owner /\ machine'[Target(o)].runtime = machine[Target(o)].runtime
        BY <1>2, DoesProvision, <2>6, MachineFields DEF Rebuilt
    <2>8. \A s \in Servers, i \in Ids : On(s, i)' => On(s, i) \/ (i = cur[o].id /\ pc[o] = "provision")
        BY <2>1, <2>2, <2>7, <2>6, NoIdIsNoNode DEF On
    <2>9. Apart(o)
        BY <2>1, <2>2, <2>3, <2>4, <2>5, <2>6, <2>7, <2>8, StepNames DEF Apart
    <2>10. /\ \A q \in Operators \ {o} : Touches(q)' <=> Touches(q)
           /\ ~Touches(o) => Owed \subseteq Owed'
           /\ Touches(o)' => cur'[o].key \in Owed'
        BY <2>2, OthersAnswer
    <2>11. cur[o].key = NoId /\ cur[o].id \notin Registered /\ \A s \in Servers : ~On(s, cur[o].id)
        BY <2>1, <2>2, <2>3, <2>4, <2>5, <2>6, <2>7, <2>8 DEF StepInv, EntryAt, AgentAt
    <2>12. /\ pc[o] \in {"provision", "register"} => ~cur[o].touched
           /\ pc[o] \in AddSteps => ~cur[o].failed
           /\ pc[o] \in Joining => cur[o].touched
        BY DEF StepInv, Joining
    <2>13. \A q \in Operators \ {o} : cur'[q].id # cur[o].id
        BY <2>1, <2>2, <2>3, <2>4, <2>5, <2>6, <2>7, <2>8 DEF EntryAt
    <2>14. EntryAt(o)'
        BY <2>1, <2>2, <2>3, <2>4, <2>5, <2>6, <2>7, <2>8, StepNames, <2>11, <2>12, <2>13
        DEF EntryAt, Known, Shared, Joining
    <2>15. LiveAt(o)'
        BY <2>1, <2>2, <2>3, <2>4, <2>5, <2>6, <2>7, <2>8, StepNames, <2>11, <2>12, <2>13
        DEF LiveAt, Joining
    <2>16. PeerAt(o)'
        BY <2>1, <2>2, <2>3, <2>4, <2>5, <2>6, <2>7, <2>8, StepNames, <2>11, <2>12, <2>13, <2>10
        DEF PeerAt, RollsBack, Touches, Joining
    <2>17. DropAt(o)'
        BY <2>1, <2>2, <2>3, <2>4, <2>5, <2>6, <2>7, <2>8, StepNames, <2>11, <2>12, <2>13
        DEF DropAt
    <2>18. AgentAt(o)'
        BY <2>1, <2>2, <2>3, <2>4, <2>5, <2>6, <2>7, <2>8, StepNames, <2>11, <2>12, <2>13
        DEF AgentAt
    <2>19. Keeps(o)
        BY <2>1, <2>2, <2>3, <2>4, <2>5, <2>6, <2>7, <2>8, StepNames, <2>11, <2>12, <2>13
        DEF Keeps, Adder
    <2>20. Peers(o)
        BY <2>1, <2>2, <2>3, <2>4, <2>5, <2>6, <2>7, <2>8, StepNames, <2>11, <2>12, <2>13, <2>10
        DEF Peers, Stays, Touches, Joining, EntryAt, Known, Shared, LiveAt, PeerAt, RollsBack
    <2>21. Agents(o)
        BY <2>1, <2>2, <2>3, <2>4, <2>5, <2>6, <2>7, <2>8, StepNames, <2>11, <2>12, <2>13
        DEF Agents, Adder
    <2>22. Own(o)
        BY <2>14, <2>15, <2>16, <2>17, <2>18, <2>19, <2>20, <2>21 DEF Own
    <2> QED
        BY <2>9, <2>22, Preserved
<1>3. ASSUME NEW o \in Operators, ProvisionFails(o) PROVE CInv'
    <2>1. /\ EntryAt(o) /\ LiveAt(o) /\ PeerAt(o) /\ DropAt(o) /\ AgentAt(o)
          /\ NoId \notin Ids /\ live \subseteq Ids /\ Registered \subseteq Ids /\ cur[o].id \in Ids
        BY <1>3, DoesProvisionFails, NoIdIsNoNode, KeyFacts, OpFacts, StepNames
        DEF CInv, OperatorInv, TypeOK
    <2>2. /\ \A q \in Operators \ {o} : pc'[q] = pc[q] /\ cur'[q] = cur[q]
          /\ pc[o] = "provision"
          /\ pc'[o] = "idle" /\ cur'[o].id = NoId /\ cur'[o].host = NoId /\ cur'[o].key = NoId
          /\ cur'[o].touched = FALSE /\ cur'[o].failed = FALSE
        BY <1>3, DoesProvisionFails, IdleFacts DEF Ended, Moved
    <2>3. reg' = reg
        BY <1>3, DoesProvisionFails
    <2>4. Registered' = Registered /\ RegKeys' = RegKeys /\ \A i : OtherKeys(i)' = OtherKeys(i)
        BY <2>3, SameKeys
    <2>5. /\ live' = live
          /\ told \subseteq told' /\ told' \subseteq told \cup {cur[o].id}
          /\ leaving' = leaving
          /\ shared' = shared
        BY <1>3, DoesProvisionFails
    <2>6. machine[Target(o)] \in Machine /\ Target(o) \in Servers /\ cur[o].id \in Ids
        BY <1>3, DoesProvisionFails, OpFacts, StepNames
    <2>7. \/ machine' = machine
          \/ /\ \A s \in Servers \ {Target(o)} : machine'[s] = machine[s]
             /\ machine'[Target(o)].key = NoId /\ machine'[Target(o)].agent = NoId /\ machine'[Target(o)].owner = NoId
          \/ /\ \A s \in Servers \ {Target(o)} : machine'[s] = machine[s]
             /\ machine'[Target(o)].key = (IF machine[Target(o)].key = NoId THEN cur[o].id ELSE machine[Target(o)].key) /\ machine'[Target(o)].agent = cur[o].id
             /\ machine'[Target(o)].owner = machine[Target(o)].owner /\ machine'[Target(o)].runtime = machine[Target(o)].runtime
        BY <1>3, DoesProvisionFails, <2>6, MachineFields DEF Rebuilt
    <2>8. \A s \in Servers, i \in Ids : On(s, i)' => On(s, i) \/ (i = cur[o].id /\ pc[o] = "provision")
        BY <2>1, <2>2, <2>7, <2>6, NoIdIsNoNode DEF On
    <2>9. Apart(o)
        BY <2>1, <2>2, <2>3, <2>4, <2>5, <2>6, <2>7, <2>8, StepNames DEF Apart
    <2>10. /\ \A q \in Operators \ {o} : Touches(q)' <=> Touches(q)
           /\ ~Touches(o) => Owed \subseteq Owed'
           /\ Touches(o)' => cur'[o].key \in Owed'
        BY <2>2, OthersAnswer
    <2>11. cur[o].key = NoId /\ cur[o].id \notin Registered /\ \A s \in Servers : ~On(s, cur[o].id)
        BY <2>1, <2>2, <2>3, <2>4, <2>5, <2>6, <2>7, <2>8 DEF StepInv, EntryAt, AgentAt
    <2>12. machine' = machine \/ cur[o].id \in told' \/ Rebuilt(o, CleanedUp(machine[Target(o)]))
        BY <1>3, DoesProvisionFails
    <2>13. Rebuilt(o, CleanedUp(machine[Target(o)])) =>
          /\ \A s \in Servers \ {Target(o)} : machine'[s] = machine[s]
          /\ machine'[Target(o)].agent = NoId /\ machine'[Target(o)].owner = NoId
        BY <2>6, MachineFields DEF Rebuilt
    <2>14. \A s \in Servers, i \in {cur[o].id} : On(s, i)' => i \in told'
        BY <2>1, <2>2, <2>3, <2>4, <2>5, <2>6, <2>7, <2>8, <2>11, <2>12, <2>13 DEF On
    <2>15. /\ pc[o] \in {"provision", "register"} => ~cur[o].touched
           /\ pc[o] \in AddSteps => ~cur[o].failed
           /\ pc[o] \in Joining => cur[o].touched
        BY DEF StepInv, Joining
    <2>16. EntryAt(o)'
        BY <2>1, <2>2, <2>3, <2>4, <2>5, <2>6, <2>7, <2>8, StepNames, <2>11, <2>12, <2>13, <2>14, <2>15
        DEF EntryAt, Known, Shared, Joining
    <2>17. LiveAt(o)'
        BY <2>1, <2>2, <2>3, <2>4, <2>5, <2>6, <2>7, <2>8, StepNames, <2>11, <2>12, <2>13, <2>14, <2>15
        DEF LiveAt, Joining
    <2>18. PeerAt(o)'
        BY <2>1, <2>2, <2>3, <2>4, <2>5, <2>6, <2>7, <2>8, StepNames, <2>11, <2>12, <2>13, <2>14, <2>15, <2>10
        DEF PeerAt, RollsBack, Touches, Joining
    <2>19. DropAt(o)'
        BY <2>1, <2>2, <2>3, <2>4, <2>5, <2>6, <2>7, <2>8, StepNames, <2>11, <2>12, <2>13, <2>14, <2>15
        DEF DropAt
    <2>20. AgentAt(o)'
        BY <2>1, <2>2, <2>3, <2>4, <2>5, <2>6, <2>7, <2>8, StepNames, <2>11, <2>12, <2>13, <2>14, <2>15
        DEF AgentAt
    <2>21. Keeps(o)
        BY <2>1, <2>2, <2>3, <2>4, <2>5, <2>6, <2>7, <2>8, StepNames, <2>11, <2>12, <2>13, <2>14, <2>15
        DEF Keeps, Adder
    <2>22. Peers(o)
        BY <2>1, <2>2, <2>3, <2>4, <2>5, <2>6, <2>7, <2>8, StepNames, <2>11, <2>12, <2>13, <2>14, <2>15, <2>10
        DEF Peers, Stays, Touches, Joining, EntryAt, Known, Shared, LiveAt, PeerAt, RollsBack
    <2>23. Agents(o)
        BY <2>1, <2>2, <2>3, <2>4, <2>5, <2>6, <2>7, <2>8, StepNames, <2>11, <2>12, <2>13, <2>14, <2>15
        DEF Agents, Adder
    <2>24. Own(o)
        BY <2>16, <2>17, <2>18, <2>19, <2>20, <2>21, <2>22, <2>23 DEF Own
    <2> QED
        BY <2>9, <2>24, Preserved
<1>4. ASSUME NEW o \in Operators, Add(o) PROVE CInv'
    <2>1. CASE ValidateNew(NewEntry(o))
        <3>1. /\ EntryAt(o) /\ LiveAt(o) /\ PeerAt(o) /\ DropAt(o) /\ AgentAt(o)
              /\ NoId \notin Ids /\ live \subseteq Ids /\ Registered \subseteq Ids /\ cur[o].id \in Ids
            BY <2>1, <1>4, DoesAddA, NoIdIsNoNode, KeyFacts, OpFacts, StepNames
            DEF CInv, OperatorInv, TypeOK
        <3>2. /\ \A q \in Operators \ {o} : pc'[q] = pc[q] /\ cur'[q] = cur[q]
              /\ pc[o] = "register"
              /\ pc'[o] = "setpeer"
              /\ cur'[o].id = cur[o].id /\ cur'[o].host = cur[o].host /\ cur'[o].key = cur[o].key
              /\ cur'[o].touched = TRUE /\ cur'[o].failed = cur[o].failed
            BY <2>1, <1>4, DoesAddA DEF Same, Moved
        <3>3. pc[o] = "register" /\ ValidateNew(NewEntry(o)) /\ Entered(o, NewEntry(o))
            BY <2>1, <1>4, DoesAddA
        <3>4. /\ Registered' = Registered \cup {cur[o].id}
              /\ reg'[cur[o].id] = NewEntry(o)
              /\ \A i \in Registered \ {cur[o].id} : reg'[i] = reg[i]
            BY <3>3, OpFacts, NewEntryType, Recording
        <3>5. /\ reg'[cur[o].id].host = cur[o].host /\ reg'[cur[o].id].ip = cur[o].ip
              /\ reg'[cur[o].id].key = cur[o].key /\ reg'[cur[o].id].installed = FALSE
            BY <3>4, NewEntryFields
        <3>6. \A i \in Ids \ {cur[o].id} : reg'[i] = reg[i]
            BY <2>1, <1>4, DoesAddA DEF Entered
        <3>7. /\ live' = live
              /\ told' = told
              /\ leaving' = leaving
              /\ shared' = shared
            BY <2>1, <1>4, DoesAddA
        <3>8. machine' = machine
            BY <2>1, <1>4, DoesAddA
        <3>9. \A j : \A s \in Servers : On(s, j)' <=> On(s, j)
            BY <3>8 DEF On
        <3>10. Apart(o)
            BY <3>1, <3>2, <3>3, <3>4, <3>5, <3>6, <3>7, <3>8, <3>9, StepNames DEF Apart
        <3>11. /\ \A q \in Operators \ {o} : Touches(q)' <=> Touches(q)
               /\ ~Touches(o) => Owed \subseteq Owed'
               /\ Touches(o)' => cur'[o].key \in Owed'
            BY <3>2, OthersAnswer
        <3>12. /\ pc[o] \in {"provision", "register"} => ~cur[o].touched
               /\ pc[o] \in AddSteps => ~cur[o].failed
               /\ pc[o] \in Joining => cur[o].touched
            BY DEF StepInv, Joining
        <3>13. EntryAt(o)'
            BY <3>1, <3>2, <3>3, <3>4, <3>5, <3>6, <3>7, <3>8, <3>9, StepNames, <3>12
            DEF EntryAt, Known, Shared, Joining
        <3>14. LiveAt(o)'
            BY <3>1, <3>2, <3>3, <3>4, <3>5, <3>6, <3>7, <3>8, <3>9, StepNames, <3>12
            DEF LiveAt, Joining
        <3>15. PeerAt(o)'
            BY <3>1, <3>2, <3>3, <3>4, <3>5, <3>6, <3>7, <3>8, <3>9, StepNames, <3>12, <3>11
            DEF PeerAt, RollsBack, Touches, Joining
        <3>16. DropAt(o)'
            BY <3>1, <3>2, <3>3, <3>4, <3>5, <3>6, <3>7, <3>8, <3>9, StepNames, <3>12
            DEF DropAt
        <3>17. AgentAt(o)'
            BY <3>1, <3>2, <3>3, <3>4, <3>5, <3>6, <3>7, <3>8, <3>9, StepNames, <3>12
            DEF AgentAt
        <3>18. Keeps(o)
            BY <3>1, <3>2, <3>3, <3>4, <3>5, <3>6, <3>7, <3>8, <3>9, StepNames, <3>12
            DEF Keeps, Adder
        <3>19. Peers(o)
            BY <3>1, <3>2, <3>3, <3>4, <3>5, <3>6, <3>7, <3>8, <3>9, StepNames, <3>12, <3>11
            DEF Peers, Stays, Touches, Joining, EntryAt, Known, Shared, LiveAt, PeerAt, RollsBack
        <3>20. Agents(o)
            BY <3>1, <3>2, <3>3, <3>4, <3>5, <3>6, <3>7, <3>8, <3>9, StepNames, <3>12
            DEF Agents, Adder
        <3>21. Own(o)
            BY <3>13, <3>14, <3>15, <3>16, <3>17, <3>18, <3>19, <3>20 DEF Own
        <3> QED
            BY <3>10, <3>21, Preserved
    <2>2. CASE ~ValidateNew(NewEntry(o))
        <3>1. /\ EntryAt(o) /\ LiveAt(o) /\ PeerAt(o) /\ DropAt(o) /\ AgentAt(o)
              /\ NoId \notin Ids /\ live \subseteq Ids /\ Registered \subseteq Ids /\ cur[o].id \in Ids
            BY <2>2, <1>4, DoesAddB, NoIdIsNoNode, KeyFacts, OpFacts, StepNames
            DEF CInv, OperatorInv, TypeOK
        <3>2. /\ \A q \in Operators \ {o} : pc'[q] = pc[q] /\ cur'[q] = cur[q]
              /\ pc[o] = "register"
              /\ pc'[o] \in {"rbUninstall", "rbPeer"}
              /\ cur'[o].id = cur[o].id /\ cur'[o].host = cur[o].host /\ cur'[o].key = cur[o].key
              /\ cur'[o].touched = cur[o].touched /\ cur'[o].failed = cur[o].failed
            BY <2>2, <1>4, DoesAddB DEF Kept, Same, Moved
        <3>3. reg' = reg
            BY <2>2, <1>4, DoesAddB
        <3>4. Registered' = Registered /\ RegKeys' = RegKeys /\ \A i : OtherKeys(i)' = OtherKeys(i)
            BY <3>3, SameKeys
        <3>5. /\ live' = live
              /\ told' = told
              /\ leaving' = leaving
              /\ shared' = shared
            BY <2>2, <1>4, DoesAddB
        <3>6. machine' = machine
            BY <2>2, <1>4, DoesAddB
        <3>7. \A j : \A s \in Servers : On(s, j)' <=> On(s, j)
            BY <3>6 DEF On
        <3>8. Apart(o)
            BY <3>1, <3>2, <3>3, <3>4, <3>5, <3>6, <3>7, StepNames DEF Apart
        <3>9. /\ \A q \in Operators \ {o} : Touches(q)' <=> Touches(q)
              /\ ~Touches(o) => Owed \subseteq Owed'
              /\ Touches(o)' => cur'[o].key \in Owed'
            BY <3>2, OthersAnswer
        <3>10. /\ pc[o] \in {"provision", "register"} => ~cur[o].touched
               /\ pc[o] \in AddSteps => ~cur[o].failed
               /\ pc[o] \in Joining => cur[o].touched
            BY DEF StepInv, Joining
        <3>11. pc[o] = "register" => cur[o].id \notin Registered
            BY <3>1, <3>2, <3>3, <3>4, <3>5, <3>6, <3>7 DEF EntryAt
        <3>12. EntryAt(o)'
            BY <3>1, <3>2, <3>3, <3>4, <3>5, <3>6, <3>7, StepNames, <3>10, <3>11
            DEF EntryAt, Known, Shared, Joining
        <3>13. LiveAt(o)'
            BY <3>1, <3>2, <3>3, <3>4, <3>5, <3>6, <3>7, StepNames, <3>10, <3>11
            DEF LiveAt, Joining
        <3>14. PeerAt(o)'
            BY <3>1, <3>2, <3>3, <3>4, <3>5, <3>6, <3>7, StepNames, <3>10, <3>11, <3>9
            DEF PeerAt, RollsBack, Touches, Joining
        <3>15. DropAt(o)'
            BY <3>1, <3>2, <3>3, <3>4, <3>5, <3>6, <3>7, StepNames, <3>10, <3>11
            DEF DropAt
        <3>16. AgentAt(o)'
            BY <3>1, <3>2, <3>3, <3>4, <3>5, <3>6, <3>7, StepNames, <3>10, <3>11
            DEF AgentAt
        <3>17. Keeps(o)
            BY <3>1, <3>2, <3>3, <3>4, <3>5, <3>6, <3>7, StepNames, <3>10, <3>11
            DEF Keeps, Adder
        <3>18. Peers(o)
            BY <3>1, <3>2, <3>3, <3>4, <3>5, <3>6, <3>7, StepNames, <3>10, <3>11, <3>9
            DEF Peers, Stays, Touches, Joining, EntryAt, Known, Shared, LiveAt, PeerAt, RollsBack
        <3>19. Agents(o)
            BY <3>1, <3>2, <3>3, <3>4, <3>5, <3>6, <3>7, StepNames, <3>10, <3>11
            DEF Agents, Adder
        <3>20. Own(o)
            BY <3>12, <3>13, <3>14, <3>15, <3>16, <3>17, <3>18, <3>19 DEF Own
        <3> QED
            BY <3>8, <3>20, Preserved
    <2> QED
        BY <2>1, <2>2
<1>5. ASSUME NEW o \in Operators, SetPeer(o) PROVE CInv'
    <2>1. /\ EntryAt(o) /\ LiveAt(o) /\ PeerAt(o) /\ DropAt(o) /\ AgentAt(o)
          /\ NoId \notin Ids /\ live \subseteq Ids /\ Registered \subseteq Ids /\ cur[o].id \in Ids
        BY <1>5, DoesSetPeer, NoIdIsNoNode, KeyFacts, OpFacts, StepNames
        DEF CInv, OperatorInv, TypeOK
    <2>2. /\ \A q \in Operators \ {o} : pc'[q] = pc[q] /\ cur'[q] = cur[q]
          /\ pc[o] = "setpeer"
          /\ pc'[o] = "load"
          /\ cur'[o].id = cur[o].id /\ cur'[o].host = cur[o].host /\ cur'[o].key = cur[o].key
          /\ cur'[o].touched = cur[o].touched /\ cur'[o].failed = cur[o].failed
        BY <1>5, DoesSetPeer DEF Kept, Same, Moved
    <2>3. reg' = reg
        BY <1>5, DoesSetPeer
    <2>4. Registered' = Registered /\ RegKeys' = RegKeys /\ \A i : OtherKeys(i)' = OtherKeys(i)
        BY <2>3, SameKeys
    <2>5. /\ live' = live \cup {cur[o].key}
          /\ told' = told
          /\ leaving' = leaving
          /\ shared' = shared
        BY <1>5, DoesSetPeer
    <2>6. machine' = machine
        BY <1>5, DoesSetPeer
    <2>7. \A j : \A s \in Servers : On(s, j)' <=> On(s, j)
        BY <2>6 DEF On
    <2>8. Apart(o)
        BY <2>1, <2>2, <2>3, <2>4, <2>5, <2>6, <2>7, StepNames DEF Apart
    <2>9. /\ \A q \in Operators \ {o} : Touches(q)' <=> Touches(q)
          /\ ~Touches(o) => Owed \subseteq Owed'
          /\ Touches(o)' => cur'[o].key \in Owed'
        BY <2>2, OthersAnswer
    <2>10. /\ pc[o] \in {"provision", "register"} => ~cur[o].touched
           /\ pc[o] \in AddSteps => ~cur[o].failed
           /\ pc[o] \in Joining => cur[o].touched
        BY DEF StepInv, Joining
    <2>11. EntryAt(o)'
        BY <2>1, <2>2, <2>3, <2>4, <2>5, <2>6, <2>7, StepNames, <2>10
        DEF EntryAt, Known, Shared, Joining
    <2>12. LiveAt(o)'
        BY <2>1, <2>2, <2>3, <2>4, <2>5, <2>6, <2>7, StepNames, <2>10
        DEF LiveAt, Joining
    <2>13. PeerAt(o)'
        BY <2>1, <2>2, <2>3, <2>4, <2>5, <2>6, <2>7, StepNames, <2>10, <2>9
        DEF PeerAt, RollsBack, Touches, Joining
    <2>14. DropAt(o)'
        BY <2>1, <2>2, <2>3, <2>4, <2>5, <2>6, <2>7, StepNames, <2>10
        DEF DropAt
    <2>15. AgentAt(o)'
        BY <2>1, <2>2, <2>3, <2>4, <2>5, <2>6, <2>7, StepNames, <2>10
        DEF AgentAt
    <2>16. Keeps(o)
        BY <2>1, <2>2, <2>3, <2>4, <2>5, <2>6, <2>7, StepNames, <2>10
        DEF Keeps, Adder
    <2>17. Peers(o)
        BY <2>1, <2>2, <2>3, <2>4, <2>5, <2>6, <2>7, StepNames, <2>10, <2>9
        DEF Peers, Stays, Touches, Joining, EntryAt, Known, Shared, LiveAt, PeerAt, RollsBack
    <2>18. Agents(o)
        BY <2>1, <2>2, <2>3, <2>4, <2>5, <2>6, <2>7, StepNames, <2>10
        DEF Agents, Adder
    <2>19. Own(o)
        BY <2>11, <2>12, <2>13, <2>14, <2>15, <2>16, <2>17, <2>18 DEF Own
    <2> QED
        BY <2>8, <2>19, Preserved
<1>6. ASSUME NEW o \in Operators, JoinLoad(o) PROVE CInv'
    <2>1. /\ EntryAt(o) /\ LiveAt(o) /\ PeerAt(o) /\ DropAt(o) /\ AgentAt(o)
          /\ NoId \notin Ids /\ live \subseteq Ids /\ Registered \subseteq Ids /\ cur[o].id \in Ids
        BY <1>6, DoesJoinLoad, NoIdIsNoNode, KeyFacts, OpFacts, StepNames
        DEF CInv, OperatorInv, TypeOK
    <2>2. /\ \A q \in Operators \ {o} : pc'[q] = pc[q] /\ cur'[q] = cur[q]
          /\ pc[o] = "load"
          /\ pc'[o] = "write"
          /\ cur'[o].id = cur[o].id /\ cur'[o].host = cur[o].host /\ cur'[o].key = cur[o].key
          /\ cur'[o].touched = cur[o].touched /\ cur'[o].failed = cur[o].failed
          /\ cur'[o].list = RegKeys
        BY <1>6, DoesJoinLoad DEF Kept, Same, Moved
    <2>3. reg' = reg
        BY <1>6, DoesJoinLoad
    <2>4. Registered' = Registered /\ RegKeys' = RegKeys /\ \A i : OtherKeys(i)' = OtherKeys(i)
        BY <2>3, SameKeys
    <2>5. /\ live' = live
          /\ told' = told
          /\ leaving' = leaving
          /\ shared' = shared
        BY <1>6, DoesJoinLoad
    <2>6. machine' = machine
        BY <1>6, DoesJoinLoad
    <2>7. \A j : \A s \in Servers : On(s, j)' <=> On(s, j)
        BY <2>6 DEF On
    <2>8. Apart(o)
        BY <2>1, <2>2, <2>3, <2>4, <2>5, <2>6, <2>7, StepNames DEF Apart
    <2>9. /\ \A q \in Operators \ {o} : Touches(q)' <=> Touches(q)
          /\ ~Touches(o) => Owed \subseteq Owed'
          /\ Touches(o)' => cur'[o].key \in Owed'
        BY <2>2, OthersAnswer
    <2>10. /\ pc[o] \in {"provision", "register"} => ~cur[o].touched
           /\ pc[o] \in AddSteps => ~cur[o].failed
           /\ pc[o] \in Joining => cur[o].touched
        BY DEF StepInv, Joining
    <2>11. EntryAt(o)'
        BY <2>1, <2>2, <2>3, <2>4, <2>5, <2>6, <2>7, StepNames, <2>10
        DEF EntryAt, Known, Shared, Joining
    <2>12. LiveAt(o)'
        BY <2>1, <2>2, <2>3, <2>4, <2>5, <2>6, <2>7, StepNames, <2>10
        DEF LiveAt, Joining
    <2>13. PeerAt(o)'
        BY <2>1, <2>2, <2>3, <2>4, <2>5, <2>6, <2>7, StepNames, <2>10, <2>9
        DEF PeerAt, RollsBack, Touches, Joining
    <2>14. DropAt(o)'
        BY <2>1, <2>2, <2>3, <2>4, <2>5, <2>6, <2>7, StepNames, <2>10
        DEF DropAt
    <2>15. AgentAt(o)'
        BY <2>1, <2>2, <2>3, <2>4, <2>5, <2>6, <2>7, StepNames, <2>10
        DEF AgentAt
    <2>16. Keeps(o)
        BY <2>1, <2>2, <2>3, <2>4, <2>5, <2>6, <2>7, StepNames, <2>10
        DEF Keeps, Adder
    <2>17. Peers(o)
        BY <2>1, <2>2, <2>3, <2>4, <2>5, <2>6, <2>7, StepNames, <2>10, <2>9
        DEF Peers, Stays, Touches, Joining, EntryAt, Known, Shared, LiveAt, PeerAt, RollsBack
    <2>18. Agents(o)
        BY <2>1, <2>2, <2>3, <2>4, <2>5, <2>6, <2>7, StepNames, <2>10
        DEF Agents, Adder
    <2>19. Own(o)
        BY <2>11, <2>12, <2>13, <2>14, <2>15, <2>16, <2>17, <2>18 DEF Own
    <2> QED
        BY <2>8, <2>19, Preserved
<1>7. ASSUME NEW o \in Operators, JoinWrite(o) PROVE CInv'
    <2>1. /\ EntryAt(o) /\ LiveAt(o) /\ PeerAt(o) /\ DropAt(o) /\ AgentAt(o)
          /\ NoId \notin Ids /\ live \subseteq Ids /\ Registered \subseteq Ids /\ cur[o].id \in Ids
        BY <1>7, DoesJoinWrite, NoIdIsNoNode, KeyFacts, OpFacts, StepNames
        DEF CInv, OperatorInv, TypeOK
    <2>2. /\ \A q \in Operators \ {o} : pc'[q] = pc[q] /\ cur'[q] = cur[q]
          /\ pc[o] = "write"
          /\ pc'[o] = "health"
          /\ cur'[o].id = cur[o].id /\ cur'[o].host = cur[o].host /\ cur'[o].key = cur[o].key
          /\ cur'[o].touched = cur[o].touched /\ cur'[o].failed = cur[o].failed
        BY <1>7, DoesJoinWrite DEF Kept, Same, Moved
    <2>3. reg' = reg
        BY <1>7, DoesJoinWrite
    <2>4. Registered' = Registered /\ RegKeys' = RegKeys /\ \A i : OtherKeys(i)' = OtherKeys(i)
        BY <2>3, SameKeys
    <2>5. /\ live' = live
          /\ told' = told
          /\ leaving' = leaving
          /\ shared' = shared
        BY <1>7, DoesJoinWrite
    <2>6. machine' = machine
        BY <1>7, DoesJoinWrite
    <2>7. \A j : \A s \in Servers : On(s, j)' <=> On(s, j)
        BY <2>6 DEF On
    <2>8. Apart(o)
        BY <2>1, <2>2, <2>3, <2>4, <2>5, <2>6, <2>7, StepNames DEF Apart
    <2>9. /\ \A q \in Operators \ {o} : Touches(q)' <=> Touches(q)
          /\ ~Touches(o) => Owed \subseteq Owed'
          /\ Touches(o)' => cur'[o].key \in Owed'
        BY <2>2, OthersAnswer
    <2>10. /\ pc[o] \in {"provision", "register"} => ~cur[o].touched
           /\ pc[o] \in AddSteps => ~cur[o].failed
           /\ pc[o] \in Joining => cur[o].touched
        BY DEF StepInv, Joining
    <2>11. EntryAt(o)'
        BY <2>1, <2>2, <2>3, <2>4, <2>5, <2>6, <2>7, StepNames, <2>10
        DEF EntryAt, Known, Shared, Joining
    <2>12. LiveAt(o)'
        BY <2>1, <2>2, <2>3, <2>4, <2>5, <2>6, <2>7, StepNames, <2>10
        DEF LiveAt, Joining
    <2>13. PeerAt(o)'
        BY <2>1, <2>2, <2>3, <2>4, <2>5, <2>6, <2>7, StepNames, <2>10, <2>9
        DEF PeerAt, RollsBack, Touches, Joining
    <2>14. DropAt(o)'
        BY <2>1, <2>2, <2>3, <2>4, <2>5, <2>6, <2>7, StepNames, <2>10
        DEF DropAt
    <2>15. AgentAt(o)'
        BY <2>1, <2>2, <2>3, <2>4, <2>5, <2>6, <2>7, StepNames, <2>10
        DEF AgentAt
    <2>16. Keeps(o)
        BY <2>1, <2>2, <2>3, <2>4, <2>5, <2>6, <2>7, StepNames, <2>10
        DEF Keeps, Adder
    <2>17. Peers(o)
        BY <2>1, <2>2, <2>3, <2>4, <2>5, <2>6, <2>7, StepNames, <2>10, <2>9
        DEF Peers, Stays, Touches, Joining, EntryAt, Known, Shared, LiveAt, PeerAt, RollsBack
    <2>18. Agents(o)
        BY <2>1, <2>2, <2>3, <2>4, <2>5, <2>6, <2>7, StepNames, <2>10
        DEF Agents, Adder
    <2>19. Own(o)
        BY <2>11, <2>12, <2>13, <2>14, <2>15, <2>16, <2>17, <2>18 DEF Own
    <2> QED
        BY <2>8, <2>19, Preserved
<1>8. ASSUME NEW o \in Operators, waitHealthy(o) PROVE CInv'
    <2>1. /\ EntryAt(o) /\ LiveAt(o) /\ PeerAt(o) /\ DropAt(o) /\ AgentAt(o)
          /\ NoId \notin Ids /\ live \subseteq Ids /\ Registered \subseteq Ids /\ cur[o].id \in Ids
        BY <1>8, DoesWaitHealthy, NoIdIsNoNode, KeyFacts, OpFacts, StepNames
        DEF CInv, OperatorInv, TypeOK
    <2>2. /\ \A q \in Operators \ {o} : pc'[q] = pc[q] /\ cur'[q] = cur[q]
          /\ pc[o] = "health"
          /\ pc'[o] \in {"install", "rbUninstall", "rbPeer"}
          /\ cur'[o].id = cur[o].id /\ cur'[o].host = cur[o].host /\ cur'[o].key = cur[o].key
          /\ cur'[o].touched = cur[o].touched /\ cur'[o].failed = cur[o].failed
        BY <1>8, DoesWaitHealthy DEF Kept, Same, Moved
    <2>3. reg' = reg
        BY <1>8, DoesWaitHealthy
    <2>4. Registered' = Registered /\ RegKeys' = RegKeys /\ \A i : OtherKeys(i)' = OtherKeys(i)
        BY <2>3, SameKeys
    <2>5. /\ live' = live
          /\ told' = told
          /\ leaving' = leaving
          /\ shared' = shared
        BY <1>8, DoesWaitHealthy
    <2>6. machine' = machine
        BY <1>8, DoesWaitHealthy
    <2>7. \A j : \A s \in Servers : On(s, j)' <=> On(s, j)
        BY <2>6 DEF On
    <2>8. Apart(o)
        BY <2>1, <2>2, <2>3, <2>4, <2>5, <2>6, <2>7, StepNames DEF Apart
    <2>9. /\ \A q \in Operators \ {o} : Touches(q)' <=> Touches(q)
          /\ ~Touches(o) => Owed \subseteq Owed'
          /\ Touches(o)' => cur'[o].key \in Owed'
        BY <2>2, OthersAnswer
    <2>10. /\ pc[o] \in {"provision", "register"} => ~cur[o].touched
           /\ pc[o] \in AddSteps => ~cur[o].failed
           /\ pc[o] \in Joining => cur[o].touched
        BY DEF StepInv, Joining
    <2>11. pc'[o] = "install" => \E s \in Servers : On(s, cur[o].id)
        BY <1>8, DoesWaitHealthy, OpFacts DEF Reachable, On
    <2>12. EntryAt(o)'
        BY <2>1, <2>2, <2>3, <2>4, <2>5, <2>6, <2>7, StepNames, <2>10, <2>11
        DEF EntryAt, Known, Shared, Joining
    <2>13. LiveAt(o)'
        BY <2>1, <2>2, <2>3, <2>4, <2>5, <2>6, <2>7, StepNames, <2>10, <2>11
        DEF LiveAt, Joining
    <2>14. PeerAt(o)'
        BY <2>1, <2>2, <2>3, <2>4, <2>5, <2>6, <2>7, StepNames, <2>10, <2>11, <2>9
        DEF PeerAt, RollsBack, Touches, Joining
    <2>15. DropAt(o)'
        BY <2>1, <2>2, <2>3, <2>4, <2>5, <2>6, <2>7, StepNames, <2>10, <2>11
        DEF DropAt
    <2>16. AgentAt(o)'
        BY <2>1, <2>2, <2>3, <2>4, <2>5, <2>6, <2>7, StepNames, <2>10, <2>11
        DEF AgentAt
    <2>17. Keeps(o)
        BY <2>1, <2>2, <2>3, <2>4, <2>5, <2>6, <2>7, StepNames, <2>10, <2>11
        DEF Keeps, Adder
    <2>18. Peers(o)
        BY <2>1, <2>2, <2>3, <2>4, <2>5, <2>6, <2>7, StepNames, <2>10, <2>11, <2>9
        DEF Peers, Stays, Touches, Joining, EntryAt, Known, Shared, LiveAt, PeerAt, RollsBack
    <2>19. Agents(o)
        BY <2>1, <2>2, <2>3, <2>4, <2>5, <2>6, <2>7, StepNames, <2>10, <2>11
        DEF Agents, Adder
    <2>20. Own(o)
        BY <2>12, <2>13, <2>14, <2>15, <2>16, <2>17, <2>18, <2>19 DEF Own
    <2> QED
        BY <2>8, <2>20, Preserved
<1>9. ASSUME NEW o \in Operators, installNode(o) PROVE CInv'
    <2>1. CASE Reachable(o) /\ machine[Target(o)].runtime = "none"
        <3>1. /\ EntryAt(o) /\ LiveAt(o) /\ PeerAt(o) /\ DropAt(o) /\ AgentAt(o)
              /\ NoId \notin Ids /\ live \subseteq Ids /\ Registered \subseteq Ids /\ cur[o].id \in Ids
            BY <2>1, <1>9, DoesInstallNodeA, NoIdIsNoNode, KeyFacts, OpFacts, StepNames
            DEF CInv, OperatorInv, TypeOK
        <3>2. /\ \A q \in Operators \ {o} : pc'[q] = pc[q] /\ cur'[q] = cur[q]
              /\ pc[o] = "install"
              /\ pc'[o] = "commit"
              /\ cur'[o].id = cur[o].id /\ cur'[o].host = cur[o].host /\ cur'[o].key = cur[o].key
              /\ cur'[o].touched = cur[o].touched /\ cur'[o].failed = cur[o].failed
            BY <2>1, <1>9, DoesInstallNodeA DEF Kept, Same, Moved
        <3>3. reg' = reg
            BY <2>1, <1>9, DoesInstallNodeA
        <3>4. Registered' = Registered /\ RegKeys' = RegKeys /\ \A i : OtherKeys(i)' = OtherKeys(i)
            BY <3>3, SameKeys
        <3>5. /\ live' = live
              /\ told' = told
              /\ leaving' = leaving
              /\ shared' = shared
            BY <2>1, <1>9, DoesInstallNodeA
        <3>6. machine[Target(o)] \in Machine /\ Target(o) \in Servers /\ cur[o].id \in Ids
            BY <2>1, <1>9, DoesInstallNodeA, OpFacts, StepNames
        <3>7. /\ \A s \in Servers \ {Target(o)} : machine'[s] = machine[s]
              /\ machine'[Target(o)].key = machine[Target(o)].key /\ machine'[Target(o)].agent = machine[Target(o)].agent
              /\ machine'[Target(o)].owner = cur[o].id /\ machine'[Target(o)].runtime = "own"
            BY <2>1, <1>9, DoesInstallNodeA, <3>6, MachineFields DEF Rebuilt
        <3>8. \A s \in Servers, i \in Ids : On(s, i)' => On(s, i) \/ (i = cur[o].id /\ pc[o] = "provision")
            BY <3>1, <3>2, <3>7, <3>6, NoIdIsNoNode, <2>1 DEF Reachable, On
        <3>9. Apart(o)
            BY <3>1, <3>2, <3>3, <3>4, <3>5, <3>6, <3>7, <3>8, StepNames DEF Apart
        <3>10. /\ \A q \in Operators \ {o} : Touches(q)' <=> Touches(q)
               /\ ~Touches(o) => Owed \subseteq Owed'
               /\ Touches(o)' => cur'[o].key \in Owed'
            BY <3>2, OthersAnswer
        <3>11. /\ pc[o] \in {"provision", "register"} => ~cur[o].touched
               /\ pc[o] \in AddSteps => ~cur[o].failed
               /\ pc[o] \in Joining => cur[o].touched
            BY DEF StepInv, Joining
        <3>12. EntryAt(o)'
            BY <3>1, <3>2, <3>3, <3>4, <3>5, <3>6, <3>7, <3>8, StepNames, <3>11
            DEF EntryAt, Known, Shared, Joining
        <3>13. LiveAt(o)'
            BY <3>1, <3>2, <3>3, <3>4, <3>5, <3>6, <3>7, <3>8, StepNames, <3>11
            DEF LiveAt, Joining
        <3>14. PeerAt(o)'
            BY <3>1, <3>2, <3>3, <3>4, <3>5, <3>6, <3>7, <3>8, StepNames, <3>11, <3>10
            DEF PeerAt, RollsBack, Touches, Joining
        <3>15. DropAt(o)'
            BY <3>1, <3>2, <3>3, <3>4, <3>5, <3>6, <3>7, <3>8, StepNames, <3>11
            DEF DropAt
        <3>16. AgentAt(o)'
            BY <3>1, <3>2, <3>3, <3>4, <3>5, <3>6, <3>7, <3>8, StepNames, <3>11
            DEF AgentAt
        <3>17. Keeps(o)
            BY <3>1, <3>2, <3>3, <3>4, <3>5, <3>6, <3>7, <3>8, StepNames, <3>11
            DEF Keeps, Adder
        <3>18. Peers(o)
            BY <3>1, <3>2, <3>3, <3>4, <3>5, <3>6, <3>7, <3>8, StepNames, <3>11, <3>10
            DEF Peers, Stays, Touches, Joining, EntryAt, Known, Shared, LiveAt, PeerAt, RollsBack
        <3>19. Agents(o)
            BY <3>1, <3>2, <3>3, <3>4, <3>5, <3>6, <3>7, <3>8, StepNames, <3>11
            DEF Agents, Adder
        <3>20. Own(o)
            BY <3>12, <3>13, <3>14, <3>15, <3>16, <3>17, <3>18, <3>19 DEF Own
        <3> QED
            BY <3>9, <3>20, Preserved
    <2>2. CASE ~(Reachable(o) /\ machine[Target(o)].runtime = "none")
        <3>1. /\ EntryAt(o) /\ LiveAt(o) /\ PeerAt(o) /\ DropAt(o) /\ AgentAt(o)
              /\ NoId \notin Ids /\ live \subseteq Ids /\ Registered \subseteq Ids /\ cur[o].id \in Ids
            BY <2>2, <1>9, DoesInstallNodeB, NoIdIsNoNode, KeyFacts, OpFacts, StepNames
            DEF CInv, OperatorInv, TypeOK
        <3>2. /\ \A q \in Operators \ {o} : pc'[q] = pc[q] /\ cur'[q] = cur[q]
              /\ pc[o] = "install"
              /\ pc'[o] \in {"rbUninstall", "rbPeer"}
              /\ cur'[o].id = cur[o].id /\ cur'[o].host = cur[o].host /\ cur'[o].key = cur[o].key
              /\ cur'[o].touched = cur[o].touched /\ cur'[o].failed = cur[o].failed
            BY <2>2, <1>9, DoesInstallNodeB DEF Kept, Same, Moved
        <3>3. reg' = reg
            BY <2>2, <1>9, DoesInstallNodeB
        <3>4. Registered' = Registered /\ RegKeys' = RegKeys /\ \A i : OtherKeys(i)' = OtherKeys(i)
            BY <3>3, SameKeys
        <3>5. /\ live' = live
              /\ told' = told
              /\ leaving' = leaving
              /\ shared' = shared
            BY <2>2, <1>9, DoesInstallNodeB
        <3>6. machine' = machine
            BY <2>2, <1>9, DoesInstallNodeB
        <3>7. \A j : \A s \in Servers : On(s, j)' <=> On(s, j)
            BY <3>6 DEF On
        <3>8. Apart(o)
            BY <3>1, <3>2, <3>3, <3>4, <3>5, <3>6, <3>7, StepNames DEF Apart
        <3>9. /\ \A q \in Operators \ {o} : Touches(q)' <=> Touches(q)
              /\ ~Touches(o) => Owed \subseteq Owed'
              /\ Touches(o)' => cur'[o].key \in Owed'
            BY <3>2, OthersAnswer
        <3>10. /\ pc[o] \in {"provision", "register"} => ~cur[o].touched
               /\ pc[o] \in AddSteps => ~cur[o].failed
               /\ pc[o] \in Joining => cur[o].touched
            BY DEF StepInv, Joining
        <3>11. EntryAt(o)'
            BY <3>1, <3>2, <3>3, <3>4, <3>5, <3>6, <3>7, StepNames, <3>10
            DEF EntryAt, Known, Shared, Joining
        <3>12. LiveAt(o)'
            BY <3>1, <3>2, <3>3, <3>4, <3>5, <3>6, <3>7, StepNames, <3>10
            DEF LiveAt, Joining
        <3>13. PeerAt(o)'
            BY <3>1, <3>2, <3>3, <3>4, <3>5, <3>6, <3>7, StepNames, <3>10, <3>9
            DEF PeerAt, RollsBack, Touches, Joining
        <3>14. DropAt(o)'
            BY <3>1, <3>2, <3>3, <3>4, <3>5, <3>6, <3>7, StepNames, <3>10
            DEF DropAt
        <3>15. AgentAt(o)'
            BY <3>1, <3>2, <3>3, <3>4, <3>5, <3>6, <3>7, StepNames, <3>10
            DEF AgentAt
        <3>16. Keeps(o)
            BY <3>1, <3>2, <3>3, <3>4, <3>5, <3>6, <3>7, StepNames, <3>10
            DEF Keeps, Adder
        <3>17. Peers(o)
            BY <3>1, <3>2, <3>3, <3>4, <3>5, <3>6, <3>7, StepNames, <3>10, <3>9
            DEF Peers, Stays, Touches, Joining, EntryAt, Known, Shared, LiveAt, PeerAt, RollsBack
        <3>18. Agents(o)
            BY <3>1, <3>2, <3>3, <3>4, <3>5, <3>6, <3>7, StepNames, <3>10
            DEF Agents, Adder
        <3>19. Own(o)
            BY <3>11, <3>12, <3>13, <3>14, <3>15, <3>16, <3>17, <3>18 DEF Own
        <3> QED
            BY <3>8, <3>19, Preserved
    <2> QED
        BY <2>1, <2>2
<1>10. ASSUME NEW o \in Operators, installNodeFails(o) PROVE CInv'
    <2>1. /\ EntryAt(o) /\ LiveAt(o) /\ PeerAt(o) /\ DropAt(o) /\ AgentAt(o)
          /\ NoId \notin Ids /\ live \subseteq Ids /\ Registered \subseteq Ids /\ cur[o].id \in Ids
        BY <1>10, DoesInstallNodeFails, NoIdIsNoNode, KeyFacts, OpFacts, StepNames
        DEF CInv, OperatorInv, TypeOK
    <2>2. /\ \A q \in Operators \ {o} : pc'[q] = pc[q] /\ cur'[q] = cur[q]
          /\ pc[o] = "install"
          /\ pc'[o] \in {"rbUninstall", "rbPeer"}
          /\ cur'[o].id = cur[o].id /\ cur'[o].host = cur[o].host /\ cur'[o].key = cur[o].key
          /\ cur'[o].touched = cur[o].touched /\ cur'[o].failed = cur[o].failed
        BY <1>10, DoesInstallNodeFails DEF Kept, Same, Moved
    <2>3. reg' = reg
        BY <1>10, DoesInstallNodeFails
    <2>4. Registered' = Registered /\ RegKeys' = RegKeys /\ \A i : OtherKeys(i)' = OtherKeys(i)
        BY <2>3, SameKeys
    <2>5. /\ live' = live
          /\ told' = told
          /\ leaving' = leaving
          /\ shared' = shared
        BY <1>10, DoesInstallNodeFails
    <2>6. machine[Target(o)] \in Machine /\ Target(o) \in Servers /\ cur[o].id \in Ids
        BY <1>10, DoesInstallNodeFails, OpFacts, StepNames
    <2>7. \/ machine' = machine
          \/ /\ \A s \in Servers \ {Target(o)} : machine'[s] = machine[s]
             /\ machine'[Target(o)].key = machine[Target(o)].key /\ machine'[Target(o)].agent = machine[Target(o)].agent
             /\ machine'[Target(o)].owner = cur[o].id /\ machine'[Target(o)].runtime = "own"
          \/ /\ \A s \in Servers \ {Target(o)} : machine'[s] = machine[s]
             /\ machine'[Target(o)].key = machine[Target(o)].key /\ machine'[Target(o)].agent = machine[Target(o)].agent
             /\ machine'[Target(o)].owner = cur[o].id /\ machine'[Target(o)].runtime = "none"
        BY <1>10, DoesInstallNodeFails, <2>6, MachineFields DEF Rebuilt
    <2>8. \A s \in Servers, i \in Ids : On(s, i)' => On(s, i) \/ (i = cur[o].id /\ pc[o] = "provision")
        BY <2>1, <2>2, <2>7, <2>6, NoIdIsNoNode, <1>10, DoesInstallNodeFails DEF Reachable, On
    <2>9. Apart(o)
        BY <2>1, <2>2, <2>3, <2>4, <2>5, <2>6, <2>7, <2>8, StepNames DEF Apart
    <2>10. /\ \A q \in Operators \ {o} : Touches(q)' <=> Touches(q)
           /\ ~Touches(o) => Owed \subseteq Owed'
           /\ Touches(o)' => cur'[o].key \in Owed'
        BY <2>2, OthersAnswer
    <2>11. /\ pc[o] \in {"provision", "register"} => ~cur[o].touched
           /\ pc[o] \in AddSteps => ~cur[o].failed
           /\ pc[o] \in Joining => cur[o].touched
        BY DEF StepInv, Joining
    <2>12. EntryAt(o)'
        BY <2>1, <2>2, <2>3, <2>4, <2>5, <2>6, <2>7, <2>8, StepNames, <2>11
        DEF EntryAt, Known, Shared, Joining
    <2>13. LiveAt(o)'
        BY <2>1, <2>2, <2>3, <2>4, <2>5, <2>6, <2>7, <2>8, StepNames, <2>11
        DEF LiveAt, Joining
    <2>14. PeerAt(o)'
        BY <2>1, <2>2, <2>3, <2>4, <2>5, <2>6, <2>7, <2>8, StepNames, <2>11, <2>10
        DEF PeerAt, RollsBack, Touches, Joining
    <2>15. DropAt(o)'
        BY <2>1, <2>2, <2>3, <2>4, <2>5, <2>6, <2>7, <2>8, StepNames, <2>11
        DEF DropAt
    <2>16. AgentAt(o)'
        BY <2>1, <2>2, <2>3, <2>4, <2>5, <2>6, <2>7, <2>8, StepNames, <2>11
        DEF AgentAt
    <2>17. Keeps(o)
        BY <2>1, <2>2, <2>3, <2>4, <2>5, <2>6, <2>7, <2>8, StepNames, <2>11
        DEF Keeps, Adder
    <2>18. Peers(o)
        BY <2>1, <2>2, <2>3, <2>4, <2>5, <2>6, <2>7, <2>8, StepNames, <2>11, <2>10
        DEF Peers, Stays, Touches, Joining, EntryAt, Known, Shared, LiveAt, PeerAt, RollsBack
    <2>19. Agents(o)
        BY <2>1, <2>2, <2>3, <2>4, <2>5, <2>6, <2>7, <2>8, StepNames, <2>11
        DEF Agents, Adder
    <2>20. Own(o)
        BY <2>12, <2>13, <2>14, <2>15, <2>16, <2>17, <2>18, <2>19 DEF Own
    <2> QED
        BY <2>9, <2>20, Preserved
<1>11. ASSUME NEW o \in Operators, Commit(o) PROVE CInv'
    <2>1. CASE cur[o].id \in Registered
        <3>1. /\ EntryAt(o) /\ LiveAt(o) /\ PeerAt(o) /\ DropAt(o) /\ AgentAt(o)
              /\ NoId \notin Ids /\ live \subseteq Ids /\ Registered \subseteq Ids /\ cur[o].id \in Ids
            BY <2>1, <1>11, DoesCommitA, NoIdIsNoNode, KeyFacts, OpFacts, StepNames
            DEF CInv, OperatorInv, TypeOK
        <3>2. /\ \A q \in Operators \ {o} : pc'[q] = pc[q] /\ cur'[q] = cur[q]
              /\ pc[o] = "commit"
              /\ pc'[o] = "idle" /\ cur'[o].id = NoId /\ cur'[o].host = NoId /\ cur'[o].key = NoId
              /\ cur'[o].touched = FALSE /\ cur'[o].failed = FALSE
            BY <2>1, <1>11, DoesCommitA, IdleFacts DEF Ended, Moved
        <3>3. Registered' = Registered /\ \A i \in Registered :
                  reg'[i].key = reg[i].key /\ reg'[i].host = reg[i].host /\ reg'[i].ip = reg[i].ip
            BY <2>1, <1>11, DoesCommitA, Installing
        <3>4. \A i \in Ids \ {cur[o].id} : reg'[i] = reg[i]
            BY <2>1, <1>11, DoesCommitA DEF Entered
        <3>5. /\ live' = live
              /\ told' = told
              /\ leaving' = leaving
              /\ shared' = shared
            BY <2>1, <1>11, DoesCommitA
        <3>6. machine' = machine
            BY <2>1, <1>11, DoesCommitA
        <3>7. \A j : \A s \in Servers : On(s, j)' <=> On(s, j)
            BY <3>6 DEF On
        <3>8. Apart(o)
            BY <3>1, <3>2, <3>3, <3>4, <3>5, <3>6, <3>7, StepNames DEF Apart
        <3>9. /\ \A q \in Operators \ {o} : Touches(q)' <=> Touches(q)
              /\ ~Touches(o) => Owed \subseteq Owed'
              /\ Touches(o)' => cur'[o].key \in Owed'
            BY <3>2, OthersAnswer
        <3>10. /\ pc[o] \in {"provision", "register"} => ~cur[o].touched
               /\ pc[o] \in AddSteps => ~cur[o].failed
               /\ pc[o] \in Joining => cur[o].touched
            BY DEF StepInv, Joining
        <3>11. /\ cur[o].key \in shared \/ cur[o].key \in live
               /\ reg'[cur[o].id].key = cur[o].key /\ cur[o].id \in Registered'
            BY <2>1, <3>1, <3>2, <3>3, <3>4, <3>5, <3>6, <3>7 DEF EntryAt, LiveAt, Known, Joining
        <3>12. EntryAt(o)'
            BY <3>1, <3>2, <3>3, <3>4, <3>5, <3>6, <3>7, StepNames, <3>10, <3>11
            DEF EntryAt, Known, Shared, Joining
        <3>13. LiveAt(o)'
            BY <3>1, <3>2, <3>3, <3>4, <3>5, <3>6, <3>7, StepNames, <3>10, <3>11
            DEF LiveAt, Joining
        <3>14. PeerAt(o)'
            BY <3>1, <3>2, <3>3, <3>4, <3>5, <3>6, <3>7, StepNames, <3>10, <3>11, <3>9
            DEF PeerAt, RollsBack, Touches, Joining
        <3>15. DropAt(o)'
            BY <3>1, <3>2, <3>3, <3>4, <3>5, <3>6, <3>7, StepNames, <3>10, <3>11
            DEF DropAt
        <3>16. AgentAt(o)'
            BY <3>1, <3>2, <3>3, <3>4, <3>5, <3>6, <3>7, StepNames, <3>10, <3>11
            DEF AgentAt
        <3>17. Keeps(o)
            BY <3>1, <3>2, <3>3, <3>4, <3>5, <3>6, <3>7, StepNames, <3>10, <3>11
            DEF Keeps, Adder
        <3>18. Peers(o)
            BY <3>1, <3>2, <3>3, <3>4, <3>5, <3>6, <3>7, StepNames, <3>10, <3>11, <3>9
            DEF Peers, Stays, Touches, Joining, EntryAt, Known, Shared, LiveAt, PeerAt, RollsBack
        <3>19. Agents(o)
            BY <3>1, <3>2, <3>3, <3>4, <3>5, <3>6, <3>7, StepNames, <3>10, <3>11
            DEF Agents, Adder
        <3>20. Own(o)
            BY <3>12, <3>13, <3>14, <3>15, <3>16, <3>17, <3>18, <3>19 DEF Own
        <3> QED
            BY <3>8, <3>20, Preserved
    <2>2. CASE cur[o].id \notin Registered
        <3>1. /\ EntryAt(o) /\ LiveAt(o) /\ PeerAt(o) /\ DropAt(o) /\ AgentAt(o)
              /\ NoId \notin Ids /\ live \subseteq Ids /\ Registered \subseteq Ids /\ cur[o].id \in Ids
            BY <2>2, <1>11, DoesCommitB, NoIdIsNoNode, KeyFacts, OpFacts, StepNames
            DEF CInv, OperatorInv, TypeOK
        <3>2. /\ \A q \in Operators \ {o} : pc'[q] = pc[q] /\ cur'[q] = cur[q]
              /\ pc[o] = "commit"
              /\ pc'[o] \in {"rbUninstall", "rbPeer"}
              /\ cur'[o].id = cur[o].id /\ cur'[o].host = cur[o].host /\ cur'[o].key = cur[o].key
              /\ cur'[o].touched = cur[o].touched /\ cur'[o].failed = cur[o].failed
            BY <2>2, <1>11, DoesCommitB DEF Kept, Same, Moved
        <3>3. reg' = reg
            BY <2>2, <1>11, DoesCommitB
        <3>4. Registered' = Registered /\ RegKeys' = RegKeys /\ \A i : OtherKeys(i)' = OtherKeys(i)
            BY <3>3, SameKeys
        <3>5. /\ live' = live
              /\ told' = told
              /\ leaving' = leaving
              /\ shared' = shared
            BY <2>2, <1>11, DoesCommitB
        <3>6. machine' = machine
            BY <2>2, <1>11, DoesCommitB
        <3>7. \A j : \A s \in Servers : On(s, j)' <=> On(s, j)
            BY <3>6 DEF On
        <3>8. Apart(o)
            BY <3>1, <3>2, <3>3, <3>4, <3>5, <3>6, <3>7, StepNames DEF Apart
        <3>9. /\ \A q \in Operators \ {o} : Touches(q)' <=> Touches(q)
              /\ ~Touches(o) => Owed \subseteq Owed'
              /\ Touches(o)' => cur'[o].key \in Owed'
            BY <3>2, OthersAnswer
        <3>10. /\ pc[o] \in {"provision", "register"} => ~cur[o].touched
               /\ pc[o] \in AddSteps => ~cur[o].failed
               /\ pc[o] \in Joining => cur[o].touched
            BY DEF StepInv, Joining
        <3>11. EntryAt(o)'
            BY <3>1, <3>2, <3>3, <3>4, <3>5, <3>6, <3>7, StepNames, <3>10
            DEF EntryAt, Known, Shared, Joining
        <3>12. LiveAt(o)'
            BY <3>1, <3>2, <3>3, <3>4, <3>5, <3>6, <3>7, StepNames, <3>10
            DEF LiveAt, Joining
        <3>13. PeerAt(o)'
            BY <3>1, <3>2, <3>3, <3>4, <3>5, <3>6, <3>7, StepNames, <3>10, <3>9
            DEF PeerAt, RollsBack, Touches, Joining
        <3>14. DropAt(o)'
            BY <3>1, <3>2, <3>3, <3>4, <3>5, <3>6, <3>7, StepNames, <3>10
            DEF DropAt
        <3>15. AgentAt(o)'
            BY <3>1, <3>2, <3>3, <3>4, <3>5, <3>6, <3>7, StepNames, <3>10
            DEF AgentAt
        <3>16. Keeps(o)
            BY <3>1, <3>2, <3>3, <3>4, <3>5, <3>6, <3>7, StepNames, <3>10
            DEF Keeps, Adder
        <3>17. Peers(o)
            BY <3>1, <3>2, <3>3, <3>4, <3>5, <3>6, <3>7, StepNames, <3>10, <3>9
            DEF Peers, Stays, Touches, Joining, EntryAt, Known, Shared, LiveAt, PeerAt, RollsBack
        <3>18. Agents(o)
            BY <3>1, <3>2, <3>3, <3>4, <3>5, <3>6, <3>7, StepNames, <3>10
            DEF Agents, Adder
        <3>19. Own(o)
            BY <3>11, <3>12, <3>13, <3>14, <3>15, <3>16, <3>17, <3>18 DEF Own
        <3> QED
            BY <3>8, <3>19, Preserved
    <2> QED
        BY <2>1, <2>2
<1>12. ASSUME NEW o \in Operators, AddStepFails(o) PROVE CInv'
    <2>1. /\ EntryAt(o) /\ LiveAt(o) /\ PeerAt(o) /\ DropAt(o) /\ AgentAt(o)
          /\ NoId \notin Ids /\ live \subseteq Ids /\ Registered \subseteq Ids /\ cur[o].id \in Ids
        BY <1>12, DoesAddStepFails, NoIdIsNoNode, KeyFacts, OpFacts, StepNames
        DEF CInv, OperatorInv, TypeOK
    <2>2. /\ \A q \in Operators \ {o} : pc'[q] = pc[q] /\ cur'[q] = cur[q]
          /\ pc[o] \in {"register", "setpeer", "load", "write", "health", "commit"}
          /\ pc'[o] \in {"rbUninstall", "rbPeer"}
          /\ cur'[o].id = cur[o].id /\ cur'[o].host = cur[o].host /\ cur'[o].key = cur[o].key
          /\ cur'[o].touched = cur[o].touched /\ cur'[o].failed = cur[o].failed
        BY <1>12, DoesAddStepFails DEF Kept, Same, Moved
    <2>3. reg' = reg
        BY <1>12, DoesAddStepFails
    <2>4. Registered' = Registered /\ RegKeys' = RegKeys /\ \A i : OtherKeys(i)' = OtherKeys(i)
        BY <2>3, SameKeys
    <2>5. /\ live' = live
          /\ told' = told
          /\ leaving' = leaving
          /\ shared' = shared
        BY <1>12, DoesAddStepFails
    <2>6. machine' = machine
        BY <1>12, DoesAddStepFails
    <2>7. \A j : \A s \in Servers : On(s, j)' <=> On(s, j)
        BY <2>6 DEF On
    <2>8. Apart(o)
        BY <2>1, <2>2, <2>3, <2>4, <2>5, <2>6, <2>7, StepNames DEF Apart
    <2>9. /\ \A q \in Operators \ {o} : Touches(q)' <=> Touches(q)
          /\ ~Touches(o) => Owed \subseteq Owed'
          /\ Touches(o)' => cur'[o].key \in Owed'
        BY <2>2, OthersAnswer
    <2>10. /\ pc[o] \in {"provision", "register"} => ~cur[o].touched
           /\ pc[o] \in AddSteps => ~cur[o].failed
           /\ pc[o] \in Joining => cur[o].touched
        BY DEF StepInv, Joining
    <2>11. pc[o] = "register" => cur[o].id \notin Registered
        BY <2>1, <2>2, <2>3, <2>4, <2>5, <2>6, <2>7 DEF EntryAt
    <2>12. EntryAt(o)'
        BY <2>1, <2>2, <2>3, <2>4, <2>5, <2>6, <2>7, StepNames, <2>10, <2>11
        DEF EntryAt, Known, Shared, Joining
    <2>13. LiveAt(o)'
        BY <2>1, <2>2, <2>3, <2>4, <2>5, <2>6, <2>7, StepNames, <2>10, <2>11
        DEF LiveAt, Joining
    <2>14. PeerAt(o)'
        BY <2>1, <2>2, <2>3, <2>4, <2>5, <2>6, <2>7, StepNames, <2>10, <2>11, <2>9
        DEF PeerAt, RollsBack, Touches, Joining
    <2>15. DropAt(o)'
        BY <2>1, <2>2, <2>3, <2>4, <2>5, <2>6, <2>7, StepNames, <2>10, <2>11
        DEF DropAt
    <2>16. AgentAt(o)'
        BY <2>1, <2>2, <2>3, <2>4, <2>5, <2>6, <2>7, StepNames, <2>10, <2>11
        DEF AgentAt
    <2>17. Keeps(o)
        BY <2>1, <2>2, <2>3, <2>4, <2>5, <2>6, <2>7, StepNames, <2>10, <2>11
        DEF Keeps, Adder
    <2>18. Peers(o)
        BY <2>1, <2>2, <2>3, <2>4, <2>5, <2>6, <2>7, StepNames, <2>10, <2>11, <2>9
        DEF Peers, Stays, Touches, Joining, EntryAt, Known, Shared, LiveAt, PeerAt, RollsBack
    <2>19. Agents(o)
        BY <2>1, <2>2, <2>3, <2>4, <2>5, <2>6, <2>7, StepNames, <2>10, <2>11
        DEF Agents, Adder
    <2>20. Own(o)
        BY <2>12, <2>13, <2>14, <2>15, <2>16, <2>17, <2>18, <2>19 DEF Own
    <2> QED
        BY <2>8, <2>20, Preserved
<1>13. ASSUME NEW o \in Operators, AddErrorAfterCommit(o) PROVE CInv'
    <2>1. CASE pc[o] = "register"
        <3>1. /\ EntryAt(o) /\ LiveAt(o) /\ PeerAt(o) /\ DropAt(o) /\ AgentAt(o)
              /\ NoId \notin Ids /\ live \subseteq Ids /\ Registered \subseteq Ids /\ cur[o].id \in Ids
            BY <2>1, <1>13, DoesAddErrorAfterCommitA, NoIdIsNoNode, KeyFacts, OpFacts, StepNames
            DEF CInv, OperatorInv, TypeOK
        <3>2. /\ \A q \in Operators \ {o} : pc'[q] = pc[q] /\ cur'[q] = cur[q]
              /\ pc[o] = "register"
              /\ pc'[o] \in {"rbUninstall", "rbPeer"}
              /\ cur'[o].id = cur[o].id /\ cur'[o].host = cur[o].host /\ cur'[o].key = cur[o].key
              /\ cur'[o].touched = cur[o].touched /\ cur'[o].failed = cur[o].failed
            BY <2>1, <1>13, DoesAddErrorAfterCommitA DEF Kept, Same, Moved
        <3>3. pc[o] = "register" /\ ValidateNew(NewEntry(o)) /\ Entered(o, NewEntry(o))
            BY <2>1, <1>13, DoesAddErrorAfterCommitA
        <3>4. /\ Registered' = Registered \cup {cur[o].id}
              /\ reg'[cur[o].id] = NewEntry(o)
              /\ \A i \in Registered \ {cur[o].id} : reg'[i] = reg[i]
            BY <3>3, OpFacts, NewEntryType, Recording
        <3>5. /\ reg'[cur[o].id].host = cur[o].host /\ reg'[cur[o].id].ip = cur[o].ip
              /\ reg'[cur[o].id].key = cur[o].key /\ reg'[cur[o].id].installed = FALSE
            BY <3>4, NewEntryFields
        <3>6. \A i \in Ids \ {cur[o].id} : reg'[i] = reg[i]
            BY <2>1, <1>13, DoesAddErrorAfterCommitA DEF Entered
        <3>7. /\ live' = live
              /\ told' = told
              /\ leaving' = leaving
              /\ shared' = shared
            BY <2>1, <1>13, DoesAddErrorAfterCommitA
        <3>8. machine' = machine
            BY <2>1, <1>13, DoesAddErrorAfterCommitA
        <3>9. \A j : \A s \in Servers : On(s, j)' <=> On(s, j)
            BY <3>8 DEF On
        <3>10. Apart(o)
            BY <3>1, <3>2, <3>3, <3>4, <3>5, <3>6, <3>7, <3>8, <3>9, StepNames DEF Apart
        <3>11. /\ \A q \in Operators \ {o} : Touches(q)' <=> Touches(q)
               /\ ~Touches(o) => Owed \subseteq Owed'
               /\ Touches(o)' => cur'[o].key \in Owed'
            BY <3>2, OthersAnswer
        <3>12. /\ pc[o] \in {"provision", "register"} => ~cur[o].touched
               /\ pc[o] \in AddSteps => ~cur[o].failed
               /\ pc[o] \in Joining => cur[o].touched
            BY DEF StepInv, Joining
        <3>13. cur[o].key \notin RegKeys
            BY <1>13, <2>1, DoesAddErrorAfterCommitA, NewEntryFields DEF ValidateNew, RegKeys
        <3>14. cur[o].key \in live => cur[o].key \in told \cup Owed
            BY <3>13 DEF CInv, PeersKnown
        <3>15. ~Touches(o)
            BY <3>1, <3>2, <3>3, <3>4, <3>5, <3>6, <3>7, <3>8, <3>9, <3>12, StepNames DEF Touches, Joining
        <3>16. EntryAt(o)'
            BY <3>1, <3>2, <3>3, <3>4, <3>5, <3>6, <3>7, <3>8, <3>9, StepNames, <3>12, <3>13, <3>14, <3>15
            DEF EntryAt, Known, Shared, Joining
        <3>17. LiveAt(o)'
            BY <3>1, <3>2, <3>3, <3>4, <3>5, <3>6, <3>7, <3>8, <3>9, StepNames, <3>12, <3>13, <3>14, <3>15
            DEF LiveAt, Joining
        <3>18. PeerAt(o)'
            BY <3>1, <3>2, <3>3, <3>4, <3>5, <3>6, <3>7, <3>8, <3>9, StepNames, <3>12, <3>13, <3>14, <3>15, <3>11
            DEF PeerAt, RollsBack, Touches, Joining
        <3>19. DropAt(o)'
            BY <3>1, <3>2, <3>3, <3>4, <3>5, <3>6, <3>7, <3>8, <3>9, StepNames, <3>12, <3>13, <3>14, <3>15
            DEF DropAt
        <3>20. AgentAt(o)'
            BY <3>1, <3>2, <3>3, <3>4, <3>5, <3>6, <3>7, <3>8, <3>9, StepNames, <3>12, <3>13, <3>14, <3>15
            DEF AgentAt
        <3>21. Keeps(o)
            BY <3>1, <3>2, <3>3, <3>4, <3>5, <3>6, <3>7, <3>8, <3>9, StepNames, <3>12, <3>13, <3>14, <3>15
            DEF Keeps, Adder
        <3>22. Peers(o)
            BY <3>1, <3>2, <3>3, <3>4, <3>5, <3>6, <3>7, <3>8, <3>9, StepNames, <3>12, <3>13, <3>14, <3>15, <3>11
            DEF Peers, Stays, Touches, Joining, EntryAt, Known, Shared, LiveAt, PeerAt, RollsBack
        <3>23. Agents(o)
            BY <3>1, <3>2, <3>3, <3>4, <3>5, <3>6, <3>7, <3>8, <3>9, StepNames, <3>12, <3>13, <3>14, <3>15
            DEF Agents, Adder
        <3>24. Own(o)
            BY <3>16, <3>17, <3>18, <3>19, <3>20, <3>21, <3>22, <3>23 DEF Own
        <3> QED
            BY <3>10, <3>24, Preserved
    <2>2. CASE pc[o] = "commit"
        <3>1. /\ EntryAt(o) /\ LiveAt(o) /\ PeerAt(o) /\ DropAt(o) /\ AgentAt(o)
              /\ NoId \notin Ids /\ live \subseteq Ids /\ Registered \subseteq Ids /\ cur[o].id \in Ids
            BY <2>2, <1>13, DoesAddErrorAfterCommitB, NoIdIsNoNode, KeyFacts, OpFacts, StepNames
            DEF CInv, OperatorInv, TypeOK
        <3>2. /\ \A q \in Operators \ {o} : pc'[q] = pc[q] /\ cur'[q] = cur[q]
              /\ pc[o] = "commit"
              /\ pc'[o] \in {"rbUninstall", "rbPeer"}
              /\ cur'[o].id = cur[o].id /\ cur'[o].host = cur[o].host /\ cur'[o].key = cur[o].key
              /\ cur'[o].touched = cur[o].touched /\ cur'[o].failed = cur[o].failed
            BY <2>2, <1>13, DoesAddErrorAfterCommitB DEF Kept, Same, Moved
        <3>3. Registered' = Registered /\ \A i \in Registered :
                  reg'[i].key = reg[i].key /\ reg'[i].host = reg[i].host /\ reg'[i].ip = reg[i].ip
            BY <2>2, <1>13, DoesAddErrorAfterCommitB, Installing
        <3>4. \A i \in Ids \ {cur[o].id} : reg'[i] = reg[i]
            BY <2>2, <1>13, DoesAddErrorAfterCommitB DEF Entered
        <3>5. /\ live' = live
              /\ told' = told
              /\ leaving' = leaving
              /\ shared' = shared
            BY <2>2, <1>13, DoesAddErrorAfterCommitB
        <3>6. machine' = machine
            BY <2>2, <1>13, DoesAddErrorAfterCommitB
        <3>7. \A j : \A s \in Servers : On(s, j)' <=> On(s, j)
            BY <3>6 DEF On
        <3>8. Apart(o)
            BY <3>1, <3>2, <3>3, <3>4, <3>5, <3>6, <3>7, StepNames DEF Apart
        <3>9. /\ \A q \in Operators \ {o} : Touches(q)' <=> Touches(q)
              /\ ~Touches(o) => Owed \subseteq Owed'
              /\ Touches(o)' => cur'[o].key \in Owed'
            BY <3>2, OthersAnswer
        <3>10. /\ pc[o] \in {"provision", "register"} => ~cur[o].touched
               /\ pc[o] \in AddSteps => ~cur[o].failed
               /\ pc[o] \in Joining => cur[o].touched
            BY DEF StepInv, Joining
        <3>11. cur[o].key \in shared \/ cur[o].key \in live
            BY <3>1, <3>2, <3>3, <3>4, <3>5, <3>6, <3>7 DEF LiveAt, Joining
        <3>12. EntryAt(o)'
            BY <3>1, <3>2, <3>3, <3>4, <3>5, <3>6, <3>7, StepNames, <3>10, <3>11
            DEF EntryAt, Known, Shared, Joining
        <3>13. LiveAt(o)'
            BY <3>1, <3>2, <3>3, <3>4, <3>5, <3>6, <3>7, StepNames, <3>10, <3>11
            DEF LiveAt, Joining
        <3>14. PeerAt(o)'
            BY <3>1, <3>2, <3>3, <3>4, <3>5, <3>6, <3>7, StepNames, <3>10, <3>11, <3>9
            DEF PeerAt, RollsBack, Touches, Joining
        <3>15. DropAt(o)'
            BY <3>1, <3>2, <3>3, <3>4, <3>5, <3>6, <3>7, StepNames, <3>10, <3>11
            DEF DropAt
        <3>16. AgentAt(o)'
            BY <3>1, <3>2, <3>3, <3>4, <3>5, <3>6, <3>7, StepNames, <3>10, <3>11
            DEF AgentAt
        <3>17. Keeps(o)
            BY <3>1, <3>2, <3>3, <3>4, <3>5, <3>6, <3>7, StepNames, <3>10, <3>11
            DEF Keeps, Adder
        <3>18. Peers(o)
            BY <3>1, <3>2, <3>3, <3>4, <3>5, <3>6, <3>7, StepNames, <3>10, <3>11, <3>9
            DEF Peers, Stays, Touches, Joining, EntryAt, Known, Shared, LiveAt, PeerAt, RollsBack
        <3>19. Agents(o)
            BY <3>1, <3>2, <3>3, <3>4, <3>5, <3>6, <3>7, StepNames, <3>10, <3>11
            DEF Agents, Adder
        <3>20. Own(o)
            BY <3>12, <3>13, <3>14, <3>15, <3>16, <3>17, <3>18, <3>19 DEF Own
        <3> QED
            BY <3>8, <3>20, Preserved
    <2> QED
        BY <2>1, <2>2, <1>13 DEF AddErrorAfterCommit
<1>14. ASSUME NEW o \in Operators, RollbackUninstall(o) PROVE CInv'
    <2>1. CASE Reachable(o) /\ machine[Target(o)].owner = cur[o].id
        <3>1. /\ EntryAt(o) /\ LiveAt(o) /\ PeerAt(o) /\ DropAt(o) /\ AgentAt(o)
              /\ NoId \notin Ids /\ live \subseteq Ids /\ Registered \subseteq Ids /\ cur[o].id \in Ids
            BY <2>1, <1>14, DoesRollbackUninstallA, NoIdIsNoNode, KeyFacts, OpFacts, StepNames
            DEF CInv, OperatorInv, TypeOK
        <3>2. /\ \A q \in Operators \ {o} : pc'[q] = pc[q] /\ cur'[q] = cur[q]
              /\ pc[o] = "rbUninstall"
              /\ pc'[o] = "rbPeer"
              /\ cur'[o].id = cur[o].id /\ cur'[o].host = cur[o].host /\ cur'[o].key = cur[o].key
              /\ cur'[o].touched = cur[o].touched /\ cur'[o].failed = cur[o].failed
            BY <2>1, <1>14, DoesRollbackUninstallA DEF Kept, Same, Moved
        <3>3. reg' = reg
            BY <2>1, <1>14, DoesRollbackUninstallA
        <3>4. Registered' = Registered /\ RegKeys' = RegKeys /\ \A i : OtherKeys(i)' = OtherKeys(i)
            BY <3>3, SameKeys
        <3>5. /\ live' = live
              /\ told' = told
              /\ leaving' = leaving
              /\ shared' = shared
            BY <2>1, <1>14, DoesRollbackUninstallA
        <3>6. machine[Target(o)] \in Machine /\ Target(o) \in Servers /\ cur[o].id \in Ids
            BY <2>1, <1>14, DoesRollbackUninstallA, OpFacts, StepNames
        <3>7. /\ \A s \in Servers \ {Target(o)} : machine'[s] = machine[s]
              /\ machine'[Target(o)].key = machine[Target(o)].key /\ machine'[Target(o)].agent = machine[Target(o)].agent
              /\ machine'[Target(o)].owner = machine[Target(o)].owner /\ machine'[Target(o)].runtime = "none"
            BY <2>1, <1>14, DoesRollbackUninstallA, <3>6, StrippedFields DEF Rebuilt
        <3>8. \A s \in Servers, i \in Ids : On(s, i)' => On(s, i) \/ (i = cur[o].id /\ pc[o] = "provision")
            BY <3>1, <3>2, <3>7, <3>6, NoIdIsNoNode DEF On
        <3>9. Apart(o)
            BY <3>1, <3>2, <3>3, <3>4, <3>5, <3>6, <3>7, <3>8, StepNames DEF Apart
        <3>10. /\ \A q \in Operators \ {o} : Touches(q)' <=> Touches(q)
               /\ ~Touches(o) => Owed \subseteq Owed'
               /\ Touches(o)' => cur'[o].key \in Owed'
            BY <3>2, OthersAnswer
        <3>11. EntryAt(o)'
            BY <3>1, <3>2, <3>3, <3>4, <3>5, <3>6, <3>7, <3>8, StepNames
            DEF EntryAt, Known, Shared, Joining
        <3>12. LiveAt(o)'
            BY <3>1, <3>2, <3>3, <3>4, <3>5, <3>6, <3>7, <3>8, StepNames
            DEF LiveAt, Joining
        <3>13. PeerAt(o)'
            BY <3>1, <3>2, <3>3, <3>4, <3>5, <3>6, <3>7, <3>8, StepNames, <3>10
            DEF PeerAt, RollsBack, Touches, Joining
        <3>14. DropAt(o)'
            BY <3>1, <3>2, <3>3, <3>4, <3>5, <3>6, <3>7, <3>8, StepNames
            DEF DropAt
        <3>15. AgentAt(o)'
            BY <3>1, <3>2, <3>3, <3>4, <3>5, <3>6, <3>7, <3>8, StepNames
            DEF AgentAt
        <3>16. Keeps(o)
            BY <3>1, <3>2, <3>3, <3>4, <3>5, <3>6, <3>7, <3>8, StepNames
            DEF Keeps, Adder
        <3>17. Peers(o)
            BY <3>1, <3>2, <3>3, <3>4, <3>5, <3>6, <3>7, <3>8, StepNames, <3>10
            DEF Peers, Stays, Touches, Joining, EntryAt, Known, Shared, LiveAt, PeerAt, RollsBack
        <3>18. Agents(o)
            BY <3>1, <3>2, <3>3, <3>4, <3>5, <3>6, <3>7, <3>8, StepNames
            DEF Agents, Adder
        <3>19. Own(o)
            BY <3>11, <3>12, <3>13, <3>14, <3>15, <3>16, <3>17, <3>18 DEF Own
        <3> QED
            BY <3>9, <3>19, Preserved
    <2>2. CASE ~(Reachable(o) /\ machine[Target(o)].owner = cur[o].id)
        <3>1. /\ EntryAt(o) /\ LiveAt(o) /\ PeerAt(o) /\ DropAt(o) /\ AgentAt(o)
              /\ NoId \notin Ids /\ live \subseteq Ids /\ Registered \subseteq Ids /\ cur[o].id \in Ids
            BY <2>2, <1>14, DoesRollbackUninstallB, NoIdIsNoNode, KeyFacts, OpFacts, StepNames
            DEF CInv, OperatorInv, TypeOK
        <3>2. /\ \A q \in Operators \ {o} : pc'[q] = pc[q] /\ cur'[q] = cur[q]
              /\ pc[o] = "rbUninstall"
              /\ pc'[o] = "rbPeer"
              /\ cur'[o].id = cur[o].id /\ cur'[o].host = cur[o].host /\ cur'[o].key = cur[o].key
              /\ cur'[o].touched = cur[o].touched /\ cur'[o].failed = TRUE
            BY <2>2, <1>14, DoesRollbackUninstallB DEF Same, Moved
        <3>3. reg' = reg
            BY <2>2, <1>14, DoesRollbackUninstallB
        <3>4. Registered' = Registered /\ RegKeys' = RegKeys /\ \A i : OtherKeys(i)' = OtherKeys(i)
            BY <3>3, SameKeys
        <3>5. /\ live' = live
              /\ told' = told
              /\ leaving' = leaving
              /\ shared' = shared
            BY <2>2, <1>14, DoesRollbackUninstallB
        <3>6. machine' = machine
            BY <2>2, <1>14, DoesRollbackUninstallB
        <3>7. \A j : \A s \in Servers : On(s, j)' <=> On(s, j)
            BY <3>6 DEF On
        <3>8. Apart(o)
            BY <3>1, <3>2, <3>3, <3>4, <3>5, <3>6, <3>7, StepNames DEF Apart
        <3>9. /\ \A q \in Operators \ {o} : Touches(q)' <=> Touches(q)
              /\ ~Touches(o) => Owed \subseteq Owed'
              /\ Touches(o)' => cur'[o].key \in Owed'
            BY <3>2, OthersAnswer
        <3>10. EntryAt(o)'
            BY <3>1, <3>2, <3>3, <3>4, <3>5, <3>6, <3>7, StepNames
            DEF EntryAt, Known, Shared, Joining
        <3>11. LiveAt(o)'
            BY <3>1, <3>2, <3>3, <3>4, <3>5, <3>6, <3>7, StepNames
            DEF LiveAt, Joining
        <3>12. PeerAt(o)'
            BY <3>1, <3>2, <3>3, <3>4, <3>5, <3>6, <3>7, StepNames, <3>9
            DEF PeerAt, RollsBack, Touches, Joining
        <3>13. DropAt(o)'
            BY <3>1, <3>2, <3>3, <3>4, <3>5, <3>6, <3>7, StepNames
            DEF DropAt
        <3>14. AgentAt(o)'
            BY <3>1, <3>2, <3>3, <3>4, <3>5, <3>6, <3>7, StepNames
            DEF AgentAt
        <3>15. Keeps(o)
            BY <3>1, <3>2, <3>3, <3>4, <3>5, <3>6, <3>7, StepNames
            DEF Keeps, Adder
        <3>16. Peers(o)
            BY <3>1, <3>2, <3>3, <3>4, <3>5, <3>6, <3>7, StepNames, <3>9
            DEF Peers, Stays, Touches, Joining, EntryAt, Known, Shared, LiveAt, PeerAt, RollsBack
        <3>17. Agents(o)
            BY <3>1, <3>2, <3>3, <3>4, <3>5, <3>6, <3>7, StepNames
            DEF Agents, Adder
        <3>18. Own(o)
            BY <3>10, <3>11, <3>12, <3>13, <3>14, <3>15, <3>16, <3>17 DEF Own
        <3> QED
            BY <3>8, <3>18, Preserved
    <2> QED
        BY <2>1, <2>2
<1>15. ASSUME NEW o \in Operators, RollbackPeer(o) PROVE CInv'
    <2>1. /\ EntryAt(o) /\ LiveAt(o) /\ PeerAt(o) /\ DropAt(o) /\ AgentAt(o)
          /\ NoId \notin Ids /\ live \subseteq Ids /\ Registered \subseteq Ids /\ cur[o].id \in Ids
        BY <1>15, DoesRollbackPeer, NoIdIsNoNode, KeyFacts, OpFacts, StepNames
        DEF CInv, OperatorInv, TypeOK
    <2>2. /\ \A q \in Operators \ {o} : pc'[q] = pc[q] /\ cur'[q] = cur[q]
          /\ pc[o] = "rbPeer"
          /\ pc'[o] = "rbRemove"
          /\ cur'[o].id = cur[o].id /\ cur'[o].host = cur[o].host /\ cur'[o].key = cur[o].key
          /\ cur'[o].touched = cur[o].touched /\ cur'[o].failed = cur[o].failed
        BY <1>15, DoesRollbackPeer DEF Kept, Same, Moved
    <2>3. reg' = reg
        BY <1>15, DoesRollbackPeer
    <2>4. Registered' = Registered /\ RegKeys' = RegKeys /\ \A i : OtherKeys(i)' = OtherKeys(i)
        BY <2>3, SameKeys
    <2>5. /\ live' = IF cur[o].touched THEN live \ {cur[o].key} ELSE live
          /\ told' = told
          /\ leaving' = leaving
          /\ shared' = shared
        BY <1>15, DoesRollbackPeer
    <2>6. machine' = machine
        BY <1>15, DoesRollbackPeer
    <2>7. \A j : \A s \in Servers : On(s, j)' <=> On(s, j)
        BY <2>6 DEF On
    <2>8. Apart(o)
        BY <2>1, <2>2, <2>3, <2>4, <2>5, <2>6, <2>7, StepNames DEF Apart
    <2>9. /\ \A q \in Operators \ {o} : Touches(q)' <=> Touches(q)
          /\ ~Touches(o) => Owed \subseteq Owed'
          /\ Touches(o)' => cur'[o].key \in Owed'
        BY <2>2, OthersAnswer
    <2>10. EntryAt(o)'
        BY <2>1, <2>2, <2>3, <2>4, <2>5, <2>6, <2>7, StepNames
        DEF EntryAt, Known, Shared, Joining
    <2>11. LiveAt(o)'
        BY <2>1, <2>2, <2>3, <2>4, <2>5, <2>6, <2>7, StepNames
        DEF LiveAt, Joining
    <2>12. PeerAt(o)'
        BY <2>1, <2>2, <2>3, <2>4, <2>5, <2>6, <2>7, StepNames, <2>9
        DEF PeerAt, RollsBack, Touches, Joining
    <2>13. DropAt(o)'
        BY <2>1, <2>2, <2>3, <2>4, <2>5, <2>6, <2>7, StepNames
        DEF DropAt
    <2>14. AgentAt(o)'
        BY <2>1, <2>2, <2>3, <2>4, <2>5, <2>6, <2>7, StepNames
        DEF AgentAt
    <2>15. Keeps(o)
        BY <2>1, <2>2, <2>3, <2>4, <2>5, <2>6, <2>7, StepNames
        DEF Keeps, Adder
    <2>16. Peers(o)
        BY <2>1, <2>2, <2>3, <2>4, <2>5, <2>6, <2>7, StepNames, <2>9
        DEF Peers, Stays, Touches, Joining, EntryAt, Known, Shared, LiveAt, PeerAt, RollsBack
    <2>17. Agents(o)
        BY <2>1, <2>2, <2>3, <2>4, <2>5, <2>6, <2>7, StepNames
        DEF Agents, Adder
    <2>18. Own(o)
        BY <2>10, <2>11, <2>12, <2>13, <2>14, <2>15, <2>16, <2>17 DEF Own
    <2> QED
        BY <2>8, <2>18, Preserved
<1>16. ASSUME NEW o \in Operators, RollbackRemove(o) PROVE CInv'
    <2>1. /\ EntryAt(o) /\ LiveAt(o) /\ PeerAt(o) /\ DropAt(o) /\ AgentAt(o)
          /\ NoId \notin Ids /\ live \subseteq Ids /\ Registered \subseteq Ids /\ cur[o].id \in Ids
        BY <1>16, DoesRollbackRemove, NoIdIsNoNode, KeyFacts, OpFacts, StepNames
        DEF CInv, OperatorInv, TypeOK
    <2>2. /\ \A q \in Operators \ {o} : pc'[q] = pc[q] /\ cur'[q] = cur[q]
          /\ pc[o] = "rbRemove"
          /\ pc'[o] = "rbLoad"
          /\ cur'[o].id = cur[o].id /\ cur'[o].host = cur[o].host /\ cur'[o].key = cur[o].key
          /\ cur'[o].touched = cur[o].touched /\ cur'[o].failed = cur[o].failed
        BY <1>16, DoesRollbackRemove DEF Kept, Same, Moved
    <2>3. pc[o] \in {"rbRemove", "dtRemove"} /\ Entered(o, Absent)
        BY <1>16, DoesRollbackRemove
    <2>4. Registered' = Registered \ {cur[o].id} /\ \A i \in Registered' : reg'[i] = reg[i]
        BY <2>3, OpFacts, Dropping
    <2>5. \A i \in Ids \ {cur[o].id} : reg'[i] = reg[i]
        BY <1>16, DoesRollbackRemove DEF Entered
    <2>6. /\ live' = live
          /\ told' = told
          /\ leaving' = leaving
          /\ shared' = shared
        BY <1>16, DoesRollbackRemove
    <2>7. machine' = machine
        BY <1>16, DoesRollbackRemove
    <2>8. \A j : \A s \in Servers : On(s, j)' <=> On(s, j)
        BY <2>7 DEF On
    <2>9. Apart(o)
        BY <2>1, <2>2, <2>3, <2>4, <2>5, <2>6, <2>7, <2>8, StepNames DEF Apart
    <2>10. /\ \A q \in Operators \ {o} : Touches(q)' <=> Touches(q)
           /\ ~Touches(o) => Owed \subseteq Owed'
           /\ Touches(o)' => cur'[o].key \in Owed'
        BY <2>2, OthersAnswer
    <2>11. (cur[o].failed => Touches(o)') /\ (~cur[o].failed => ~Touches(o))
        BY <2>1, <2>2, <2>3, <2>4, <2>5, <2>6, <2>7, <2>8, StepNames DEF Touches, Joining
    <2>12. cur[o].key \in told \cup Owed => cur[o].key \in told' \cup Owed'
        BY <2>1, <2>2, <2>3, <2>4, <2>5, <2>6, <2>7, <2>8, <2>10, <2>11
    <2>13. EntryAt(o)'
        BY <2>1, <2>2, <2>3, <2>4, <2>5, <2>6, <2>7, <2>8, StepNames, <2>11, <2>12
        DEF EntryAt, Known, Shared, Joining
    <2>14. LiveAt(o)'
        BY <2>1, <2>2, <2>3, <2>4, <2>5, <2>6, <2>7, <2>8, StepNames, <2>11, <2>12
        DEF LiveAt, Joining
    <2>15. PeerAt(o)'
        BY <2>1, <2>2, <2>3, <2>4, <2>5, <2>6, <2>7, <2>8, StepNames, <2>11, <2>12, <2>10
        DEF PeerAt, RollsBack, Touches, Joining
    <2>16. DropAt(o)'
        BY <2>1, <2>2, <2>3, <2>4, <2>5, <2>6, <2>7, <2>8, StepNames, <2>11, <2>12
        DEF DropAt
    <2>17. AgentAt(o)'
        BY <2>1, <2>2, <2>3, <2>4, <2>5, <2>6, <2>7, <2>8, StepNames, <2>11, <2>12
        DEF AgentAt
    <2>18. Keeps(o)
        BY <2>1, <2>2, <2>3, <2>4, <2>5, <2>6, <2>7, <2>8, StepNames, <2>11, <2>12
        DEF Keeps, Adder
    <2>19. Peers(o)
        BY <2>1, <2>2, <2>3, <2>4, <2>5, <2>6, <2>7, <2>8, StepNames, <2>11, <2>12, <2>10
        DEF Peers, Stays, Touches, Joining, EntryAt, Known, Shared, LiveAt, PeerAt, RollsBack
    <2>20. Agents(o)
        BY <2>1, <2>2, <2>3, <2>4, <2>5, <2>6, <2>7, <2>8, StepNames, <2>11, <2>12
        DEF Agents, Adder
    <2>21. Own(o)
        BY <2>13, <2>14, <2>15, <2>16, <2>17, <2>18, <2>19, <2>20 DEF Own
    <2> QED
        BY <2>9, <2>21, Preserved
<1>17. ASSUME NEW o \in Operators, RollbackLoad(o) PROVE CInv'
    <2>1. /\ EntryAt(o) /\ LiveAt(o) /\ PeerAt(o) /\ DropAt(o) /\ AgentAt(o)
          /\ NoId \notin Ids /\ live \subseteq Ids /\ Registered \subseteq Ids /\ cur[o].id \in Ids
        BY <1>17, DoesRollbackLoad, NoIdIsNoNode, KeyFacts, OpFacts, StepNames
        DEF CInv, OperatorInv, TypeOK
    <2>2. /\ \A q \in Operators \ {o} : pc'[q] = pc[q] /\ cur'[q] = cur[q]
          /\ pc[o] = "rbLoad"
          /\ pc'[o] = "rbWrite"
          /\ cur'[o].id = cur[o].id /\ cur'[o].host = cur[o].host /\ cur'[o].key = cur[o].key
          /\ cur'[o].touched = cur[o].touched /\ cur'[o].failed = cur[o].failed
          /\ cur'[o].list = RegKeys
        BY <1>17, DoesRollbackLoad DEF Kept, Same, Moved
    <2>3. reg' = reg
        BY <1>17, DoesRollbackLoad
    <2>4. Registered' = Registered /\ RegKeys' = RegKeys /\ \A i : OtherKeys(i)' = OtherKeys(i)
        BY <2>3, SameKeys
    <2>5. /\ live' = live
          /\ told' = told
          /\ leaving' = leaving
          /\ shared' = shared
        BY <1>17, DoesRollbackLoad
    <2>6. machine' = machine
        BY <1>17, DoesRollbackLoad
    <2>7. \A j : \A s \in Servers : On(s, j)' <=> On(s, j)
        BY <2>6 DEF On
    <2>8. Apart(o)
        BY <2>1, <2>2, <2>3, <2>4, <2>5, <2>6, <2>7, StepNames DEF Apart
    <2>9. /\ \A q \in Operators \ {o} : Touches(q)' <=> Touches(q)
          /\ ~Touches(o) => Owed \subseteq Owed'
          /\ Touches(o)' => cur'[o].key \in Owed'
        BY <2>2, OthersAnswer
    <2>10. EntryAt(o)'
        BY <2>1, <2>2, <2>3, <2>4, <2>5, <2>6, <2>7, StepNames
        DEF EntryAt, Known, Shared, Joining
    <2>11. LiveAt(o)'
        BY <2>1, <2>2, <2>3, <2>4, <2>5, <2>6, <2>7, StepNames
        DEF LiveAt, Joining
    <2>12. PeerAt(o)'
        BY <2>1, <2>2, <2>3, <2>4, <2>5, <2>6, <2>7, StepNames, <2>9
        DEF PeerAt, RollsBack, Touches, Joining
    <2>13. DropAt(o)'
        BY <2>1, <2>2, <2>3, <2>4, <2>5, <2>6, <2>7, StepNames
        DEF DropAt
    <2>14. AgentAt(o)'
        BY <2>1, <2>2, <2>3, <2>4, <2>5, <2>6, <2>7, StepNames
        DEF AgentAt
    <2>15. Keeps(o)
        BY <2>1, <2>2, <2>3, <2>4, <2>5, <2>6, <2>7, StepNames
        DEF Keeps, Adder
    <2>16. Peers(o)
        BY <2>1, <2>2, <2>3, <2>4, <2>5, <2>6, <2>7, StepNames, <2>9
        DEF Peers, Stays, Touches, Joining, EntryAt, Known, Shared, LiveAt, PeerAt, RollsBack
    <2>17. Agents(o)
        BY <2>1, <2>2, <2>3, <2>4, <2>5, <2>6, <2>7, StepNames
        DEF Agents, Adder
    <2>18. Own(o)
        BY <2>10, <2>11, <2>12, <2>13, <2>14, <2>15, <2>16, <2>17 DEF Own
    <2> QED
        BY <2>8, <2>18, Preserved
<1>18. ASSUME NEW o \in Operators, RollbackWrite(o) PROVE CInv'
    <2>1. /\ EntryAt(o) /\ LiveAt(o) /\ PeerAt(o) /\ DropAt(o) /\ AgentAt(o)
          /\ NoId \notin Ids /\ live \subseteq Ids /\ Registered \subseteq Ids /\ cur[o].id \in Ids
        BY <1>18, DoesRollbackWrite, NoIdIsNoNode, KeyFacts, OpFacts, StepNames
        DEF CInv, OperatorInv, TypeOK
    <2>2. /\ \A q \in Operators \ {o} : pc'[q] = pc[q] /\ cur'[q] = cur[q]
          /\ pc[o] = "rbWrite"
          /\ pc'[o] = "rbCleanup"
          /\ cur'[o].id = cur[o].id /\ cur'[o].host = cur[o].host /\ cur'[o].key = cur[o].key
          /\ cur'[o].touched = cur[o].touched /\ cur'[o].failed = cur[o].failed
        BY <1>18, DoesRollbackWrite DEF Kept, Same, Moved
    <2>3. reg' = reg
        BY <1>18, DoesRollbackWrite
    <2>4. Registered' = Registered /\ RegKeys' = RegKeys /\ \A i : OtherKeys(i)' = OtherKeys(i)
        BY <2>3, SameKeys
    <2>5. /\ live' = live
          /\ told' = told
          /\ leaving' = leaving
          /\ shared' = shared
        BY <1>18, DoesRollbackWrite
    <2>6. machine' = machine
        BY <1>18, DoesRollbackWrite
    <2>7. \A j : \A s \in Servers : On(s, j)' <=> On(s, j)
        BY <2>6 DEF On
    <2>8. Apart(o)
        BY <2>1, <2>2, <2>3, <2>4, <2>5, <2>6, <2>7, StepNames DEF Apart
    <2>9. /\ \A q \in Operators \ {o} : Touches(q)' <=> Touches(q)
          /\ ~Touches(o) => Owed \subseteq Owed'
          /\ Touches(o)' => cur'[o].key \in Owed'
        BY <2>2, OthersAnswer
    <2>10. EntryAt(o)'
        BY <2>1, <2>2, <2>3, <2>4, <2>5, <2>6, <2>7, StepNames
        DEF EntryAt, Known, Shared, Joining
    <2>11. LiveAt(o)'
        BY <2>1, <2>2, <2>3, <2>4, <2>5, <2>6, <2>7, StepNames
        DEF LiveAt, Joining
    <2>12. PeerAt(o)'
        BY <2>1, <2>2, <2>3, <2>4, <2>5, <2>6, <2>7, StepNames, <2>9
        DEF PeerAt, RollsBack, Touches, Joining
    <2>13. DropAt(o)'
        BY <2>1, <2>2, <2>3, <2>4, <2>5, <2>6, <2>7, StepNames
        DEF DropAt
    <2>14. AgentAt(o)'
        BY <2>1, <2>2, <2>3, <2>4, <2>5, <2>6, <2>7, StepNames
        DEF AgentAt
    <2>15. Keeps(o)
        BY <2>1, <2>2, <2>3, <2>4, <2>5, <2>6, <2>7, StepNames
        DEF Keeps, Adder
    <2>16. Peers(o)
        BY <2>1, <2>2, <2>3, <2>4, <2>5, <2>6, <2>7, StepNames, <2>9
        DEF Peers, Stays, Touches, Joining, EntryAt, Known, Shared, LiveAt, PeerAt, RollsBack
    <2>17. Agents(o)
        BY <2>1, <2>2, <2>3, <2>4, <2>5, <2>6, <2>7, StepNames
        DEF Agents, Adder
    <2>18. Own(o)
        BY <2>10, <2>11, <2>12, <2>13, <2>14, <2>15, <2>16, <2>17 DEF Own
    <2> QED
        BY <2>8, <2>18, Preserved
<1>19. ASSUME NEW o \in Operators, RollbackCleanup(o) PROVE CInv'
    <2>1. /\ EntryAt(o) /\ LiveAt(o) /\ PeerAt(o) /\ DropAt(o) /\ AgentAt(o)
          /\ NoId \notin Ids /\ live \subseteq Ids /\ Registered \subseteq Ids /\ cur[o].id \in Ids
        BY <1>19, DoesRollbackCleanup, NoIdIsNoNode, KeyFacts, OpFacts, StepNames
        DEF CInv, OperatorInv, TypeOK
    <2>2. /\ \A q \in Operators \ {o} : pc'[q] = pc[q] /\ cur'[q] = cur[q]
          /\ pc[o] = "rbCleanup"
          /\ pc'[o] = "idle" /\ cur'[o].id = NoId /\ cur'[o].host = NoId /\ cur'[o].key = NoId
          /\ cur'[o].touched = FALSE /\ cur'[o].failed = FALSE
        BY <1>19, DoesRollbackCleanup, IdleFacts DEF Ended, Moved
    <2>3. reg' = reg
        BY <1>19, DoesRollbackCleanup
    <2>4. Registered' = Registered /\ RegKeys' = RegKeys /\ \A i : OtherKeys(i)' = OtherKeys(i)
        BY <2>3, SameKeys
    <2>5. /\ live' = live
          /\ told' = IF cur[o].failed THEN told \cup Names(o) ELSE told
          /\ leaving' = leaving
          /\ shared' = shared
        BY <1>19, DoesRollbackCleanup
    <2>6. machine[Target(o)] \in Machine /\ Target(o) \in Servers /\ cur[o].id \in Ids
        BY <1>19, DoesRollbackCleanup, OpFacts, StepNames
    <2>7. /\ \A s \in Servers \ {Target(o)} : machine'[s] = machine[s]
          /\ machine'[Target(o)].key = NoId /\ machine'[Target(o)].agent = NoId /\ machine'[Target(o)].owner = NoId
        BY <1>19, DoesRollbackCleanup, <2>6, MachineFields DEF Rebuilt
    <2>8. \A s \in Servers, i \in Ids : On(s, i)' => On(s, i) \/ (i = cur[o].id /\ pc[o] = "provision")
        BY <2>1, <2>2, <2>7, <2>6, NoIdIsNoNode DEF On
    <2>9. Apart(o)
        BY <2>1, <2>2, <2>3, <2>4, <2>5, <2>6, <2>7, <2>8, StepNames DEF Apart
    <2>10. /\ \A q \in Operators \ {o} : Touches(q)' <=> Touches(q)
           /\ ~Touches(o) => Owed \subseteq Owed'
           /\ Touches(o)' => cur'[o].key \in Owed'
        BY <2>2, OthersAnswer
    <2>11. \A s \in Servers, i \in {cur[o].id} : ~On(s, i)'
        BY <2>1, <2>2, <2>3, <2>4, <2>5, <2>6, <2>7, <2>8, OneMachine DEF On
    <2>12. cur[o].failed => cur[o].id \in told' /\ (cur[o].key \in Ids => cur[o].key \in told')
        BY <2>1, <2>2, <2>3, <2>4, <2>5, <2>6, <2>7, <2>8 DEF Names
    <2>13. cur[o].id \in Registered => cur[o].id \in told'
        BY <2>1, <2>2, <2>3, <2>4, <2>5, <2>6, <2>7, <2>8, <2>12 DEF EntryAt
    <2>14. EntryAt(o)'
        BY <2>1, <2>2, <2>3, <2>4, <2>5, <2>6, <2>7, <2>8, StepNames, <2>11, <2>12, <2>13
        DEF EntryAt, Known, Shared, Joining
    <2>15. LiveAt(o)'
        BY <2>1, <2>2, <2>3, <2>4, <2>5, <2>6, <2>7, <2>8, StepNames, <2>11, <2>12, <2>13
        DEF LiveAt, Joining
    <2>16. PeerAt(o)'
        BY <2>1, <2>2, <2>3, <2>4, <2>5, <2>6, <2>7, <2>8, StepNames, <2>11, <2>12, <2>13, <2>10
        DEF PeerAt, RollsBack, Touches, Joining
    <2>17. DropAt(o)'
        BY <2>1, <2>2, <2>3, <2>4, <2>5, <2>6, <2>7, <2>8, StepNames, <2>11, <2>12, <2>13
        DEF DropAt
    <2>18. AgentAt(o)'
        BY <2>1, <2>2, <2>3, <2>4, <2>5, <2>6, <2>7, <2>8, StepNames, <2>11, <2>12, <2>13
        DEF AgentAt
    <2>19. Keeps(o)
        BY <2>1, <2>2, <2>3, <2>4, <2>5, <2>6, <2>7, <2>8, StepNames, <2>11, <2>12, <2>13
        DEF Keeps, Adder
    <2>20. Peers(o)
        BY <2>1, <2>2, <2>3, <2>4, <2>5, <2>6, <2>7, <2>8, StepNames, <2>11, <2>12, <2>13, <2>10
        DEF Peers, Stays, Touches, Joining, EntryAt, Known, Shared, LiveAt, PeerAt, RollsBack
    <2>21. Agents(o)
        BY <2>1, <2>2, <2>3, <2>4, <2>5, <2>6, <2>7, <2>8, StepNames, <2>11, <2>12, <2>13
        DEF Agents, Adder
    <2>22. Own(o)
        BY <2>14, <2>15, <2>16, <2>17, <2>18, <2>19, <2>20, <2>21 DEF Own
    <2> QED
        BY <2>9, <2>22, Preserved
<1>20. ASSUME NEW o \in Operators, RollbackStepFails(o) PROVE CInv'
    <2>1. CASE pc[o] = "rbCleanup"
        <3>1. /\ EntryAt(o) /\ LiveAt(o) /\ PeerAt(o) /\ DropAt(o) /\ AgentAt(o)
              /\ NoId \notin Ids /\ live \subseteq Ids /\ Registered \subseteq Ids /\ cur[o].id \in Ids
            BY <2>1, <1>20, DoesRollbackStepFailsA, NoIdIsNoNode, KeyFacts, OpFacts, StepNames
            DEF CInv, OperatorInv, TypeOK
        <3>2. /\ \A q \in Operators \ {o} : pc'[q] = pc[q] /\ cur'[q] = cur[q]
              /\ pc'[o] = "idle" /\ cur'[o].id = NoId /\ cur'[o].host = NoId /\ cur'[o].key = NoId
              /\ cur'[o].touched = FALSE /\ cur'[o].failed = FALSE
            BY <2>1, <1>20, DoesRollbackStepFailsA, IdleFacts DEF Ended, Moved
        <3>3. reg' = reg
            BY <2>1, <1>20, DoesRollbackStepFailsA
        <3>4. Registered' = Registered /\ RegKeys' = RegKeys /\ \A i : OtherKeys(i)' = OtherKeys(i)
            BY <3>3, SameKeys
        <3>5. /\ live' = live
              /\ told' = told \cup Names(o)
              /\ leaving' = leaving
              /\ shared' = shared
            BY <2>1, <1>20, DoesRollbackStepFailsA
        <3>6. machine' = machine
            BY <2>1, <1>20, DoesRollbackStepFailsA
        <3>7. \A j : \A s \in Servers : On(s, j)' <=> On(s, j)
            BY <3>6 DEF On
        <3>8. Apart(o)
            BY <3>1, <3>2, <3>3, <3>4, <3>5, <3>6, <3>7, StepNames DEF Apart
        <3>9. /\ \A q \in Operators \ {o} : Touches(q)' <=> Touches(q)
              /\ ~Touches(o) => Owed \subseteq Owed'
              /\ Touches(o)' => cur'[o].key \in Owed'
            BY <3>2, OthersAnswer
        <3>10. cur[o].id \in told' /\ (cur[o].key \in live => cur[o].key \in told')
            BY <3>1, <3>5 DEF Names
        <3>11. EntryAt(o)'
            BY <3>1, <3>2, <3>3, <3>4, <3>5, <3>6, <3>7, StepNames, <3>10
            DEF EntryAt, Known, Shared, Joining
        <3>12. LiveAt(o)'
            BY <3>1, <3>2, <3>3, <3>4, <3>5, <3>6, <3>7, StepNames, <3>10
            DEF LiveAt, Joining
        <3>13. PeerAt(o)'
            BY <3>1, <3>2, <3>3, <3>4, <3>5, <3>6, <3>7, StepNames, <3>10, <3>9
            DEF PeerAt, RollsBack, Touches, Joining
        <3>14. DropAt(o)'
            BY <3>1, <3>2, <3>3, <3>4, <3>5, <3>6, <3>7, StepNames, <3>10
            DEF DropAt
        <3>15. AgentAt(o)'
            BY <3>1, <3>2, <3>3, <3>4, <3>5, <3>6, <3>7, StepNames, <3>10
            DEF AgentAt
        <3>16. Keeps(o)
            BY <3>1, <3>2, <3>3, <3>4, <3>5, <3>6, <3>7, StepNames, <3>10
            DEF Keeps, Adder
        <3>17. Peers(o)
            BY <3>1, <3>2, <3>3, <3>4, <3>5, <3>6, <3>7, StepNames, <3>10, <3>9
            DEF Peers, Stays, Touches, Joining, EntryAt, Known, Shared, LiveAt, PeerAt, RollsBack
        <3>18. Agents(o)
            BY <3>1, <3>2, <3>3, <3>4, <3>5, <3>6, <3>7, StepNames, <3>10
            DEF Agents, Adder
        <3>19. Own(o)
            BY <3>11, <3>12, <3>13, <3>14, <3>15, <3>16, <3>17, <3>18 DEF Own
        <3> QED
            BY <3>8, <3>19, Preserved
    <2>2. CASE pc[o] # "rbCleanup"
        <3>1. /\ EntryAt(o) /\ LiveAt(o) /\ PeerAt(o) /\ DropAt(o) /\ AgentAt(o)
              /\ NoId \notin Ids /\ live \subseteq Ids /\ Registered \subseteq Ids /\ cur[o].id \in Ids
            BY <2>2, <1>20, DoesRollbackStepFailsB, NoIdIsNoNode, KeyFacts, OpFacts, StepNames
            DEF CInv, OperatorInv, TypeOK
        <3>2. /\ \A q \in Operators \ {o} : pc'[q] = pc[q] /\ cur'[q] = cur[q]
              /\ cur'[o].id = cur[o].id /\ cur'[o].host = cur[o].host /\ cur'[o].key = cur[o].key
              /\ cur'[o].touched = cur[o].touched /\ cur'[o].failed = TRUE
              /\ (\/ pc[o] = "rbUninstall" /\ pc'[o] = "rbPeer"
                  \/ pc[o] = "rbPeer" /\ pc'[o] = "rbRemove"
                  \/ pc[o] = "rbRemove" /\ pc'[o] = "rbLoad"
                  \/ pc[o] \in {"rbLoad", "rbWrite"} /\ pc'[o] = "rbCleanup")
            BY <2>2, <1>20, DoesRollbackStepFailsB DEF Same, Moved
        <3>3. reg' = reg \/ (pc[o] \in {"rbRemove", "dtRemove"} /\ Entered(o, Absent))
            BY <2>2, <1>20, DoesRollbackStepFailsB
        <3>4. \/ reg' = reg /\ Registered' = Registered
              \/ Registered' = Registered \ {cur[o].id} /\ \A i \in Registered' : reg'[i] = reg[i]
            BY <3>3, OpFacts, Dropping, SameKeys
        <3>5. \A i \in Ids \ {cur[o].id} : reg'[i] = reg[i]
            BY <2>2, <1>20, DoesRollbackStepFailsB DEF Entered
        <3>6. /\ live' = live
              /\ told' = told
              /\ leaving' = leaving
              /\ shared' = shared
            BY <2>2, <1>20, DoesRollbackStepFailsB
        <3>7. machine' = machine
            BY <2>2, <1>20, DoesRollbackStepFailsB
        <3>8. \A j : \A s \in Servers : On(s, j)' <=> On(s, j)
            BY <3>7 DEF On
        <3>9. Apart(o)
            BY <3>1, <3>2, <3>3, <3>4, <3>5, <3>6, <3>7, <3>8, StepNames DEF Apart
        <3>10. /\ \A q \in Operators \ {o} : Touches(q)' <=> Touches(q)
               /\ ~Touches(o) => Owed \subseteq Owed'
               /\ Touches(o)' => cur'[o].key \in Owed'
            BY <3>2, OthersAnswer
        <3>11. reg' = reg \/ (pc'[o] = "rbLoad" /\ Entered(o, Absent))
            BY <2>2, <1>20, DoesRollbackStepFailsB
        <3>12. \/ reg' = reg /\ Registered' = Registered
               \/ pc'[o] = "rbLoad" /\ Registered' = Registered \ {cur[o].id}
            BY <3>11, <3>1, Dropping, SameKeys
        <3>13. Touches(o)'
            BY <3>1, <3>2, <3>3, <3>4, <3>5, <3>6, <3>7, <3>8, StepNames DEF Touches
        <3>14. EntryAt(o)'
            BY <3>1, <3>2, <3>3, <3>4, <3>5, <3>6, <3>7, <3>8, StepNames, <3>11, <3>12, <3>13
            DEF EntryAt, Known, Shared, Joining
        <3>15. LiveAt(o)'
            BY <3>1, <3>2, <3>3, <3>4, <3>5, <3>6, <3>7, <3>8, StepNames, <3>11, <3>12, <3>13
            DEF LiveAt, Joining
        <3>16. PeerAt(o)'
            BY <3>1, <3>2, <3>3, <3>4, <3>5, <3>6, <3>7, <3>8, StepNames, <3>11, <3>12, <3>13, <3>10
            DEF PeerAt, RollsBack, Touches, Joining
        <3>17. DropAt(o)'
            BY <3>1, <3>2, <3>3, <3>4, <3>5, <3>6, <3>7, <3>8, StepNames, <3>11, <3>12, <3>13
            DEF DropAt
        <3>18. AgentAt(o)'
            BY <3>1, <3>2, <3>3, <3>4, <3>5, <3>6, <3>7, <3>8, StepNames, <3>11, <3>12, <3>13
            DEF AgentAt
        <3>19. Keeps(o)
            BY <3>1, <3>2, <3>3, <3>4, <3>5, <3>6, <3>7, <3>8, StepNames, <3>11, <3>12, <3>13
            DEF Keeps, Adder
        <3>20. Peers(o)
            BY <3>1, <3>2, <3>3, <3>4, <3>5, <3>6, <3>7, <3>8, StepNames, <3>11, <3>12, <3>13, <3>10
            DEF Peers, Stays, Touches, Joining, EntryAt, Known, Shared, LiveAt, PeerAt, RollsBack
        <3>21. Agents(o)
            BY <3>1, <3>2, <3>3, <3>4, <3>5, <3>6, <3>7, <3>8, StepNames, <3>11, <3>12, <3>13
            DEF Agents, Adder
        <3>22. Own(o)
            BY <3>14, <3>15, <3>16, <3>17, <3>18, <3>19, <3>20, <3>21 DEF Own
        <3> QED
            BY <3>9, <3>22, Preserved
    <2> QED
        BY <2>1, <2>2
<1>21. ASSUME NEW o \in Operators, NEW i \in Ids, RemoveNode(o, i) PROVE CInv'
    <2>1. /\ EntryAt(o) /\ LiveAt(o) /\ PeerAt(o) /\ DropAt(o) /\ AgentAt(o)
          /\ NoId \notin Ids /\ live \subseteq Ids /\ Registered \subseteq Ids
        BY <1>21, DoesRemoveNode, NoIdIsNoNode, KeyFacts DEF CInv, OperatorInv, TypeOK
    <2>2. /\ \A q \in Operators \ {o} : pc'[q] = pc[q] /\ cur'[q] = cur[q]
          /\ pc[o] = "idle"
          /\ pc'[o] = "uninstall"
          /\ cur'[o].id = i /\ cur'[o].host = reg[i].host /\ cur'[o].key = reg[i].key
          /\ cur'[o].touched = FALSE /\ cur'[o].failed = FALSE
        BY <1>21, DoesRemoveNode DEF Moved, Begun
    <2>3. cur[o].id = NoId /\ cur[o].key = NoId /\ pc[o] = "idle"
        BY <1>21, DoesRemoveNode DEF StepInv
    <2>4. reg' = reg
        BY <1>21, DoesRemoveNode
    <2>5. Registered' = Registered /\ RegKeys' = RegKeys /\ \A j : OtherKeys(j)' = OtherKeys(j)
        BY <2>4, SameKeys
    <2>6. /\ live' = live
          /\ told' = told
          /\ leaving' = leaving \cup {i}
          /\ shared' = (IF \E p \in Active : cur[p].id = i THEN shared \cup {i, reg[i].key} ELSE shared)
        BY <1>21, DoesRemoveNode
    <2>7. machine' = machine
        BY <1>21, DoesRemoveNode
    <2>8. \A j : \A s \in Servers : On(s, j)' <=> On(s, j)
        BY <2>7 DEF On
    <2>9. Apart(o)
        BY <2>1, <2>2, <2>3, <2>4, <2>5, <2>6, <2>7, <2>8, StepNames DEF Apart
    <2>10. /\ \A q \in Operators \ {o} : Touches(q)' <=> Touches(q)
           /\ ~Touches(o) => Owed \subseteq Owed'
           /\ Touches(o)' => cur'[o].key \in Owed'
        BY <2>2, OthersAnswer
    <2>11. i \in Registered /\ i # NoId /\ reg[i].key \in Ids
        BY <1>21, DoesRemoveNode, EntryFacts, NoIdIsNoNode
    <2>12. i \in BusyIds => i \in shared' /\ reg[i].key \in shared'
        BY <2>1, <2>2, <2>3, <2>4, <2>5, <2>6, <2>7, <2>8, <2>11, Hosted DEF BusyIds, Active
    <2>13. EntryAt(o)'
        BY <2>1, <2>2, <2>3, <2>4, <2>5, <2>6, <2>7, <2>8, StepNames, <2>11, <2>12
        DEF EntryAt, Known, Shared, Joining
    <2>14. LiveAt(o)'
        BY <2>1, <2>2, <2>3, <2>4, <2>5, <2>6, <2>7, <2>8, StepNames, <2>11, <2>12
        DEF LiveAt, Joining
    <2>15. PeerAt(o)'
        BY <2>1, <2>2, <2>3, <2>4, <2>5, <2>6, <2>7, <2>8, StepNames, <2>11, <2>12, <2>10
        DEF PeerAt, RollsBack, Touches, Joining
    <2>16. DropAt(o)'
        BY <2>1, <2>2, <2>3, <2>4, <2>5, <2>6, <2>7, <2>8, StepNames, <2>11, <2>12
        DEF DropAt
    <2>17. AgentAt(o)'
        BY <2>1, <2>2, <2>3, <2>4, <2>5, <2>6, <2>7, <2>8, StepNames, <2>11, <2>12
        DEF AgentAt
    <2>18. Keeps(o)
        BY <2>1, <2>2, <2>3, <2>4, <2>5, <2>6, <2>7, <2>8, StepNames, <2>11, <2>12
        DEF Keeps, Adder
    <2>19. Peers(o)
        BY <2>1, <2>2, <2>3, <2>4, <2>5, <2>6, <2>7, <2>8, StepNames, <2>11, <2>12, <2>10
        DEF Peers, Stays, Touches, Joining, EntryAt, Known, Shared, LiveAt, PeerAt, RollsBack
    <2>20. Agents(o)
        BY <2>1, <2>2, <2>3, <2>4, <2>5, <2>6, <2>7, <2>8, StepNames, <2>11, <2>12
        DEF Agents, Adder
    <2>21. Own(o)
        BY <2>13, <2>14, <2>15, <2>16, <2>17, <2>18, <2>19, <2>20 DEF Own
    <2> QED
        BY <2>9, <2>21, Preserved
<1>22. ASSUME NEW o \in Operators, NEW i \in Ids, ForceDetachNode(o, i) PROVE CInv'
    <2>1. /\ EntryAt(o) /\ LiveAt(o) /\ PeerAt(o) /\ DropAt(o) /\ AgentAt(o)
          /\ NoId \notin Ids /\ live \subseteq Ids /\ Registered \subseteq Ids
        BY <1>22, DoesForceDetachNode, NoIdIsNoNode, KeyFacts DEF CInv, OperatorInv, TypeOK
    <2>2. /\ \A q \in Operators \ {o} : pc'[q] = pc[q] /\ cur'[q] = cur[q]
          /\ pc[o] = "idle"
          /\ pc'[o] = "dtLoad"
          /\ cur'[o].id = i /\ cur'[o].host = reg[i].host /\ cur'[o].key = reg[i].key
          /\ cur'[o].touched = FALSE /\ cur'[o].failed = FALSE
        BY <1>22, DoesForceDetachNode DEF Moved, Begun
    <2>3. cur[o].id = NoId /\ cur[o].key = NoId /\ pc[o] = "idle"
        BY <1>22, DoesForceDetachNode DEF StepInv
    <2>4. reg' = reg
        BY <1>22, DoesForceDetachNode
    <2>5. Registered' = Registered /\ RegKeys' = RegKeys /\ \A j : OtherKeys(j)' = OtherKeys(j)
        BY <2>4, SameKeys
    <2>6. /\ live' = live
          /\ told' = told \cup {i, reg[i].key}
          /\ leaving' = leaving \cup {i}
          /\ shared' = (IF \E p \in Active : cur[p].id = i THEN shared \cup {i, reg[i].key} ELSE shared)
        BY <1>22, DoesForceDetachNode
    <2>7. machine' = machine
        BY <1>22, DoesForceDetachNode
    <2>8. \A j : \A s \in Servers : On(s, j)' <=> On(s, j)
        BY <2>7 DEF On
    <2>9. Apart(o)
        BY <2>1, <2>2, <2>3, <2>4, <2>5, <2>6, <2>7, <2>8, StepNames DEF Apart
    <2>10. /\ \A q \in Operators \ {o} : Touches(q)' <=> Touches(q)
           /\ ~Touches(o) => Owed \subseteq Owed'
           /\ Touches(o)' => cur'[o].key \in Owed'
        BY <2>2, OthersAnswer
    <2>11. i \in Registered /\ i # NoId /\ reg[i].key \in Ids
        BY <1>22, DoesForceDetachNode, EntryFacts, NoIdIsNoNode
    <2>12. i \in BusyIds => i \in shared' /\ reg[i].key \in shared'
        BY <2>1, <2>2, <2>3, <2>4, <2>5, <2>6, <2>7, <2>8, <2>11, Hosted DEF BusyIds, Active
    <2>13. EntryAt(o)'
        BY <2>1, <2>2, <2>3, <2>4, <2>5, <2>6, <2>7, <2>8, StepNames, <2>11, <2>12
        DEF EntryAt, Known, Shared, Joining
    <2>14. LiveAt(o)'
        BY <2>1, <2>2, <2>3, <2>4, <2>5, <2>6, <2>7, <2>8, StepNames, <2>11, <2>12
        DEF LiveAt, Joining
    <2>15. PeerAt(o)'
        BY <2>1, <2>2, <2>3, <2>4, <2>5, <2>6, <2>7, <2>8, StepNames, <2>11, <2>12, <2>10
        DEF PeerAt, RollsBack, Touches, Joining
    <2>16. DropAt(o)'
        BY <2>1, <2>2, <2>3, <2>4, <2>5, <2>6, <2>7, <2>8, StepNames, <2>11, <2>12
        DEF DropAt
    <2>17. AgentAt(o)'
        BY <2>1, <2>2, <2>3, <2>4, <2>5, <2>6, <2>7, <2>8, StepNames, <2>11, <2>12
        DEF AgentAt
    <2>18. Keeps(o)
        BY <2>1, <2>2, <2>3, <2>4, <2>5, <2>6, <2>7, <2>8, StepNames, <2>11, <2>12
        DEF Keeps, Adder
    <2>19. Peers(o)
        BY <2>1, <2>2, <2>3, <2>4, <2>5, <2>6, <2>7, <2>8, StepNames, <2>11, <2>12, <2>10
        DEF Peers, Stays, Touches, Joining, EntryAt, Known, Shared, LiveAt, PeerAt, RollsBack
    <2>20. Agents(o)
        BY <2>1, <2>2, <2>3, <2>4, <2>5, <2>6, <2>7, <2>8, StepNames, <2>11, <2>12
        DEF Agents, Adder
    <2>21. Own(o)
        BY <2>13, <2>14, <2>15, <2>16, <2>17, <2>18, <2>19, <2>20 DEF Own
    <2> QED
        BY <2>9, <2>21, Preserved
<1>23. ASSUME NEW o \in Operators, Uninstall(o) PROVE CInv'
    <2>1. CASE Reachable(o)
        <3>1. /\ EntryAt(o) /\ LiveAt(o) /\ PeerAt(o) /\ DropAt(o) /\ AgentAt(o)
              /\ NoId \notin Ids /\ live \subseteq Ids /\ Registered \subseteq Ids /\ cur[o].id \in Ids
            BY <2>1, <1>23, DoesUninstallA, NoIdIsNoNode, KeyFacts, OpFacts, StepNames
            DEF CInv, OperatorInv, TypeOK
        <3>2. /\ \A q \in Operators \ {o} : pc'[q] = pc[q] /\ cur'[q] = cur[q]
              /\ pc[o] = "uninstall"
              /\ pc'[o] = "dtLoad"
              /\ cur'[o].id = cur[o].id /\ cur'[o].host = cur[o].host /\ cur'[o].key = cur[o].key
              /\ cur'[o].touched = cur[o].touched /\ cur'[o].failed = cur[o].failed
            BY <2>1, <1>23, DoesUninstallA DEF Kept, Same, Moved
        <3>3. reg' = reg
            BY <2>1, <1>23, DoesUninstallA
        <3>4. Registered' = Registered /\ RegKeys' = RegKeys /\ \A i : OtherKeys(i)' = OtherKeys(i)
            BY <3>3, SameKeys
        <3>5. /\ live' = live
              /\ told' = told
              /\ leaving' = leaving
              /\ shared' = shared
            BY <2>1, <1>23, DoesUninstallA
        <3>6. machine[Target(o)] \in Machine /\ Target(o) \in Servers /\ cur[o].id \in Ids
            BY <2>1, <1>23, DoesUninstallA, OpFacts, StepNames
        <3>7. /\ \A s \in Servers \ {Target(o)} : machine'[s] = machine[s]
              /\ machine'[Target(o)].key = NoId /\ machine'[Target(o)].agent = NoId /\ machine'[Target(o)].owner = NoId
            BY <2>1, <1>23, DoesUninstallA, <3>6, MachineFields DEF Rebuilt
        <3>8. \A s \in Servers, i \in Ids : On(s, i)' => On(s, i) \/ (i = cur[o].id /\ pc[o] = "provision")
            BY <3>1, <3>2, <3>7, <3>6, NoIdIsNoNode DEF On
        <3>9. Apart(o)
            BY <3>1, <3>2, <3>3, <3>4, <3>5, <3>6, <3>7, <3>8, StepNames DEF Apart
        <3>10. /\ \A q \in Operators \ {o} : Touches(q)' <=> Touches(q)
               /\ ~Touches(o) => Owed \subseteq Owed'
               /\ Touches(o)' => cur'[o].key \in Owed'
            BY <3>2, OthersAnswer
        <3>11. \A s \in Servers, i \in {cur[o].id} : ~On(s, i)'
            BY <3>1, <3>2, <3>3, <3>4, <3>5, <3>6, <3>7, <3>8, OneMachine DEF On
        <3>12. EntryAt(o)'
            BY <3>1, <3>2, <3>3, <3>4, <3>5, <3>6, <3>7, <3>8, StepNames, <3>11
            DEF EntryAt, Known, Shared, Joining
        <3>13. LiveAt(o)'
            BY <3>1, <3>2, <3>3, <3>4, <3>5, <3>6, <3>7, <3>8, StepNames, <3>11
            DEF LiveAt, Joining
        <3>14. PeerAt(o)'
            BY <3>1, <3>2, <3>3, <3>4, <3>5, <3>6, <3>7, <3>8, StepNames, <3>11, <3>10
            DEF PeerAt, RollsBack, Touches, Joining
        <3>15. DropAt(o)'
            BY <3>1, <3>2, <3>3, <3>4, <3>5, <3>6, <3>7, <3>8, StepNames, <3>11
            DEF DropAt
        <3>16. AgentAt(o)'
            BY <3>1, <3>2, <3>3, <3>4, <3>5, <3>6, <3>7, <3>8, StepNames, <3>11
            DEF AgentAt
        <3>17. Keeps(o)
            BY <3>1, <3>2, <3>3, <3>4, <3>5, <3>6, <3>7, <3>8, StepNames, <3>11
            DEF Keeps, Adder
        <3>18. Peers(o)
            BY <3>1, <3>2, <3>3, <3>4, <3>5, <3>6, <3>7, <3>8, StepNames, <3>11, <3>10
            DEF Peers, Stays, Touches, Joining, EntryAt, Known, Shared, LiveAt, PeerAt, RollsBack
        <3>19. Agents(o)
            BY <3>1, <3>2, <3>3, <3>4, <3>5, <3>6, <3>7, <3>8, StepNames, <3>11
            DEF Agents, Adder
        <3>20. Own(o)
            BY <3>12, <3>13, <3>14, <3>15, <3>16, <3>17, <3>18, <3>19 DEF Own
        <3> QED
            BY <3>9, <3>20, Preserved
    <2>2. CASE ~Reachable(o)
        <3>1. /\ EntryAt(o) /\ LiveAt(o) /\ PeerAt(o) /\ DropAt(o) /\ AgentAt(o)
              /\ NoId \notin Ids /\ live \subseteq Ids /\ Registered \subseteq Ids /\ cur[o].id \in Ids
            BY <2>2, <1>23, DoesUninstallB, NoIdIsNoNode, KeyFacts, OpFacts, StepNames
            DEF CInv, OperatorInv, TypeOK
        <3>2. /\ \A q \in Operators \ {o} : pc'[q] = pc[q] /\ cur'[q] = cur[q]
              /\ pc[o] = "uninstall"
              /\ pc'[o] = "idle" /\ cur'[o].id = NoId /\ cur'[o].host = NoId /\ cur'[o].key = NoId
              /\ cur'[o].touched = FALSE /\ cur'[o].failed = FALSE
            BY <2>2, <1>23, DoesUninstallB, IdleFacts DEF Ended, Moved
        <3>3. reg' = reg
            BY <2>2, <1>23, DoesUninstallB
        <3>4. Registered' = Registered /\ RegKeys' = RegKeys /\ \A i : OtherKeys(i)' = OtherKeys(i)
            BY <3>3, SameKeys
        <3>5. /\ live' = live
              /\ told' = told
              /\ leaving' = leaving
              /\ shared' = shared
            BY <2>2, <1>23, DoesUninstallB
        <3>6. machine' = machine
            BY <2>2, <1>23, DoesUninstallB
        <3>7. \A j : \A s \in Servers : On(s, j)' <=> On(s, j)
            BY <3>6 DEF On
        <3>8. Apart(o)
            BY <3>1, <3>2, <3>3, <3>4, <3>5, <3>6, <3>7, StepNames DEF Apart
        <3>9. /\ \A q \in Operators \ {o} : Touches(q)' <=> Touches(q)
              /\ ~Touches(o) => Owed \subseteq Owed'
              /\ Touches(o)' => cur'[o].key \in Owed'
            BY <3>2, OthersAnswer
        <3>10. cur[o].id \in leaving
            BY <3>1, <3>2, <3>3, <3>4, <3>5, <3>6, <3>7, StepNames DEF EntryAt
        <3>11. EntryAt(o)'
            BY <3>1, <3>2, <3>3, <3>4, <3>5, <3>6, <3>7, StepNames, <3>10
            DEF EntryAt, Known, Shared, Joining
        <3>12. LiveAt(o)'
            BY <3>1, <3>2, <3>3, <3>4, <3>5, <3>6, <3>7, StepNames, <3>10
            DEF LiveAt, Joining
        <3>13. PeerAt(o)'
            BY <3>1, <3>2, <3>3, <3>4, <3>5, <3>6, <3>7, StepNames, <3>10, <3>9
            DEF PeerAt, RollsBack, Touches, Joining
        <3>14. DropAt(o)'
            BY <3>1, <3>2, <3>3, <3>4, <3>5, <3>6, <3>7, StepNames, <3>10
            DEF DropAt
        <3>15. AgentAt(o)'
            BY <3>1, <3>2, <3>3, <3>4, <3>5, <3>6, <3>7, StepNames, <3>10
            DEF AgentAt
        <3>16. Keeps(o)
            BY <3>1, <3>2, <3>3, <3>4, <3>5, <3>6, <3>7, StepNames, <3>10
            DEF Keeps, Adder
        <3>17. Peers(o)
            BY <3>1, <3>2, <3>3, <3>4, <3>5, <3>6, <3>7, StepNames, <3>10, <3>9
            DEF Peers, Stays, Touches, Joining, EntryAt, Known, Shared, LiveAt, PeerAt, RollsBack
        <3>18. Agents(o)
            BY <3>1, <3>2, <3>3, <3>4, <3>5, <3>6, <3>7, StepNames, <3>10
            DEF Agents, Adder
        <3>19. Own(o)
            BY <3>11, <3>12, <3>13, <3>14, <3>15, <3>16, <3>17, <3>18 DEF Own
        <3> QED
            BY <3>8, <3>19, Preserved
    <2> QED
        BY <2>1, <2>2
<1>24. ASSUME NEW o \in Operators, UninstallFails(o) PROVE CInv'
    <2>1. /\ EntryAt(o) /\ LiveAt(o) /\ PeerAt(o) /\ DropAt(o) /\ AgentAt(o)
          /\ NoId \notin Ids /\ live \subseteq Ids /\ Registered \subseteq Ids /\ cur[o].id \in Ids
        BY <1>24, DoesUninstallFails, NoIdIsNoNode, KeyFacts, OpFacts, StepNames
        DEF CInv, OperatorInv, TypeOK
    <2>2. /\ \A q \in Operators \ {o} : pc'[q] = pc[q] /\ cur'[q] = cur[q]
          /\ pc[o] = "uninstall"
          /\ pc'[o] = "idle" /\ cur'[o].id = NoId /\ cur'[o].host = NoId /\ cur'[o].key = NoId
          /\ cur'[o].touched = FALSE /\ cur'[o].failed = FALSE
        BY <1>24, DoesUninstallFails, IdleFacts DEF Ended, Moved
    <2>3. reg' = reg
        BY <1>24, DoesUninstallFails
    <2>4. Registered' = Registered /\ RegKeys' = RegKeys /\ \A i : OtherKeys(i)' = OtherKeys(i)
        BY <2>3, SameKeys
    <2>5. /\ live' = live
          /\ told' = told
          /\ leaving' = leaving
          /\ shared' = shared
        BY <1>24, DoesUninstallFails
    <2>6. machine[Target(o)] \in Machine /\ Target(o) \in Servers /\ cur[o].id \in Ids
        BY <1>24, DoesUninstallFails, OpFacts, StepNames
    <2>7. \/ machine' = machine
          \/ /\ \A s \in Servers \ {Target(o)} : machine'[s] = machine[s]
             /\ machine'[Target(o)].key = NoId /\ machine'[Target(o)].agent = NoId /\ machine'[Target(o)].owner = NoId
        BY <1>24, DoesUninstallFails, <2>6, MachineFields DEF Rebuilt
    <2>8. \A s \in Servers, i \in Ids : On(s, i)' => On(s, i) \/ (i = cur[o].id /\ pc[o] = "provision")
        BY <2>1, <2>2, <2>7, <2>6, NoIdIsNoNode DEF On
    <2>9. Apart(o)
        BY <2>1, <2>2, <2>3, <2>4, <2>5, <2>6, <2>7, <2>8, StepNames DEF Apart
    <2>10. /\ \A q \in Operators \ {o} : Touches(q)' <=> Touches(q)
           /\ ~Touches(o) => Owed \subseteq Owed'
           /\ Touches(o)' => cur'[o].key \in Owed'
        BY <2>2, OthersAnswer
    <2>11. cur[o].id \in leaving
        BY <2>1, <2>2, <2>3, <2>4, <2>5, <2>6, <2>7, <2>8, StepNames DEF EntryAt
    <2>12. EntryAt(o)'
        BY <2>1, <2>2, <2>3, <2>4, <2>5, <2>6, <2>7, <2>8, StepNames, <2>11
        DEF EntryAt, Known, Shared, Joining
    <2>13. LiveAt(o)'
        BY <2>1, <2>2, <2>3, <2>4, <2>5, <2>6, <2>7, <2>8, StepNames, <2>11
        DEF LiveAt, Joining
    <2>14. PeerAt(o)'
        BY <2>1, <2>2, <2>3, <2>4, <2>5, <2>6, <2>7, <2>8, StepNames, <2>11, <2>10
        DEF PeerAt, RollsBack, Touches, Joining
    <2>15. DropAt(o)'
        BY <2>1, <2>2, <2>3, <2>4, <2>5, <2>6, <2>7, <2>8, StepNames, <2>11
        DEF DropAt
    <2>16. AgentAt(o)'
        BY <2>1, <2>2, <2>3, <2>4, <2>5, <2>6, <2>7, <2>8, StepNames, <2>11
        DEF AgentAt
    <2>17. Keeps(o)
        BY <2>1, <2>2, <2>3, <2>4, <2>5, <2>6, <2>7, <2>8, StepNames, <2>11
        DEF Keeps, Adder
    <2>18. Peers(o)
        BY <2>1, <2>2, <2>3, <2>4, <2>5, <2>6, <2>7, <2>8, StepNames, <2>11, <2>10
        DEF Peers, Stays, Touches, Joining, EntryAt, Known, Shared, LiveAt, PeerAt, RollsBack
    <2>19. Agents(o)
        BY <2>1, <2>2, <2>3, <2>4, <2>5, <2>6, <2>7, <2>8, StepNames, <2>11
        DEF Agents, Adder
    <2>20. Own(o)
        BY <2>12, <2>13, <2>14, <2>15, <2>16, <2>17, <2>18, <2>19 DEF Own
    <2> QED
        BY <2>9, <2>20, Preserved
<1>25. ASSUME NEW o \in Operators, DetachLoad(o) PROVE CInv'
    <2>1. CASE cur[o].id \in Registered
        <3>1. /\ EntryAt(o) /\ LiveAt(o) /\ PeerAt(o) /\ DropAt(o) /\ AgentAt(o)
              /\ NoId \notin Ids /\ live \subseteq Ids /\ Registered \subseteq Ids /\ cur[o].id \in Ids
            BY <2>1, <1>25, DoesDetachLoadA, NoIdIsNoNode, KeyFacts, OpFacts, StepNames
            DEF CInv, OperatorInv, TypeOK
        <3>2. /\ \A q \in Operators \ {o} : pc'[q] = pc[q] /\ cur'[q] = cur[q]
              /\ pc[o] = "dtLoad"
              /\ pc'[o] = "dtWrite"
              /\ cur'[o].id = cur[o].id /\ cur'[o].host = cur[o].host /\ cur'[o].key = cur[o].key
              /\ cur'[o].touched = cur[o].touched /\ cur'[o].failed = cur[o].failed
              /\ cur'[o].list = OtherKeys(cur[o].id)
            BY <2>1, <1>25, DoesDetachLoadA DEF Kept, Same, Moved
        <3>3. reg' = reg
            BY <2>1, <1>25, DoesDetachLoadA
        <3>4. Registered' = Registered /\ RegKeys' = RegKeys /\ \A i : OtherKeys(i)' = OtherKeys(i)
            BY <3>3, SameKeys
        <3>5. /\ live' = live
              /\ told' = told
              /\ leaving' = leaving
              /\ shared' = shared
            BY <2>1, <1>25, DoesDetachLoadA
        <3>6. machine' = machine
            BY <2>1, <1>25, DoesDetachLoadA
        <3>7. \A j : \A s \in Servers : On(s, j)' <=> On(s, j)
            BY <3>6 DEF On
        <3>8. Apart(o)
            BY <3>1, <3>2, <3>3, <3>4, <3>5, <3>6, <3>7, StepNames DEF Apart
        <3>9. /\ \A q \in Operators \ {o} : Touches(q)' <=> Touches(q)
              /\ ~Touches(o) => Owed \subseteq Owed'
              /\ Touches(o)' => cur'[o].key \in Owed'
            BY <3>2, OthersAnswer
        <3>10. EntryAt(o)'
            BY <3>1, <3>2, <3>3, <3>4, <3>5, <3>6, <3>7, StepNames
            DEF EntryAt, Known, Shared, Joining
        <3>11. LiveAt(o)'
            BY <3>1, <3>2, <3>3, <3>4, <3>5, <3>6, <3>7, StepNames
            DEF LiveAt, Joining
        <3>12. PeerAt(o)'
            BY <3>1, <3>2, <3>3, <3>4, <3>5, <3>6, <3>7, StepNames, <3>9
            DEF PeerAt, RollsBack, Touches, Joining
        <3>13. DropAt(o)'
            BY <3>1, <3>2, <3>3, <3>4, <3>5, <3>6, <3>7, StepNames
            DEF DropAt
        <3>14. AgentAt(o)'
            BY <3>1, <3>2, <3>3, <3>4, <3>5, <3>6, <3>7, StepNames
            DEF AgentAt
        <3>15. Keeps(o)
            BY <3>1, <3>2, <3>3, <3>4, <3>5, <3>6, <3>7, StepNames
            DEF Keeps, Adder
        <3>16. Peers(o)
            BY <3>1, <3>2, <3>3, <3>4, <3>5, <3>6, <3>7, StepNames, <3>9
            DEF Peers, Stays, Touches, Joining, EntryAt, Known, Shared, LiveAt, PeerAt, RollsBack
        <3>17. Agents(o)
            BY <3>1, <3>2, <3>3, <3>4, <3>5, <3>6, <3>7, StepNames
            DEF Agents, Adder
        <3>18. Own(o)
            BY <3>10, <3>11, <3>12, <3>13, <3>14, <3>15, <3>16, <3>17 DEF Own
        <3> QED
            BY <3>8, <3>18, Preserved
    <2>2. CASE cur[o].id \notin Registered
        <3>1. /\ EntryAt(o) /\ LiveAt(o) /\ PeerAt(o) /\ DropAt(o) /\ AgentAt(o)
              /\ NoId \notin Ids /\ live \subseteq Ids /\ Registered \subseteq Ids /\ cur[o].id \in Ids
            BY <2>2, <1>25, DoesDetachLoadB, NoIdIsNoNode, KeyFacts, OpFacts, StepNames
            DEF CInv, OperatorInv, TypeOK
        <3>2. /\ \A q \in Operators \ {o} : pc'[q] = pc[q] /\ cur'[q] = cur[q]
              /\ pc[o] = "dtLoad"
              /\ pc'[o] = "idle" /\ cur'[o].id = NoId /\ cur'[o].host = NoId /\ cur'[o].key = NoId
              /\ cur'[o].touched = FALSE /\ cur'[o].failed = FALSE
            BY <2>2, <1>25, DoesDetachLoadB, IdleFacts DEF Ended, Moved
        <3>3. reg' = reg
            BY <2>2, <1>25, DoesDetachLoadB
        <3>4. Registered' = Registered /\ RegKeys' = RegKeys /\ \A i : OtherKeys(i)' = OtherKeys(i)
            BY <3>3, SameKeys
        <3>5. /\ live' = live
              /\ told' = told
              /\ leaving' = leaving
              /\ shared' = shared
            BY <2>2, <1>25, DoesDetachLoadB
        <3>6. machine' = machine
            BY <2>2, <1>25, DoesDetachLoadB
        <3>7. \A j : \A s \in Servers : On(s, j)' <=> On(s, j)
            BY <3>6 DEF On
        <3>8. Apart(o)
            BY <3>1, <3>2, <3>3, <3>4, <3>5, <3>6, <3>7, StepNames DEF Apart
        <3>9. /\ \A q \in Operators \ {o} : Touches(q)' <=> Touches(q)
              /\ ~Touches(o) => Owed \subseteq Owed'
              /\ Touches(o)' => cur'[o].key \in Owed'
            BY <3>2, OthersAnswer
        <3>10. cur[o].id \in leaving
            BY <3>1, <3>2, <3>3, <3>4, <3>5, <3>6, <3>7, StepNames DEF EntryAt
        <3>11. EntryAt(o)'
            BY <3>1, <3>2, <3>3, <3>4, <3>5, <3>6, <3>7, StepNames, <3>10
            DEF EntryAt, Known, Shared, Joining
        <3>12. LiveAt(o)'
            BY <3>1, <3>2, <3>3, <3>4, <3>5, <3>6, <3>7, StepNames, <3>10
            DEF LiveAt, Joining
        <3>13. PeerAt(o)'
            BY <3>1, <3>2, <3>3, <3>4, <3>5, <3>6, <3>7, StepNames, <3>10, <3>9
            DEF PeerAt, RollsBack, Touches, Joining
        <3>14. DropAt(o)'
            BY <3>1, <3>2, <3>3, <3>4, <3>5, <3>6, <3>7, StepNames, <3>10
            DEF DropAt
        <3>15. AgentAt(o)'
            BY <3>1, <3>2, <3>3, <3>4, <3>5, <3>6, <3>7, StepNames, <3>10
            DEF AgentAt
        <3>16. Keeps(o)
            BY <3>1, <3>2, <3>3, <3>4, <3>5, <3>6, <3>7, StepNames, <3>10
            DEF Keeps, Adder
        <3>17. Peers(o)
            BY <3>1, <3>2, <3>3, <3>4, <3>5, <3>6, <3>7, StepNames, <3>10, <3>9
            DEF Peers, Stays, Touches, Joining, EntryAt, Known, Shared, LiveAt, PeerAt, RollsBack
        <3>18. Agents(o)
            BY <3>1, <3>2, <3>3, <3>4, <3>5, <3>6, <3>7, StepNames, <3>10
            DEF Agents, Adder
        <3>19. Own(o)
            BY <3>11, <3>12, <3>13, <3>14, <3>15, <3>16, <3>17, <3>18 DEF Own
        <3> QED
            BY <3>8, <3>19, Preserved
    <2> QED
        BY <2>1, <2>2
<1>26. ASSUME NEW o \in Operators, DetachWrite(o) PROVE CInv'
    <2>1. /\ EntryAt(o) /\ LiveAt(o) /\ PeerAt(o) /\ DropAt(o) /\ AgentAt(o)
          /\ NoId \notin Ids /\ live \subseteq Ids /\ Registered \subseteq Ids /\ cur[o].id \in Ids
        BY <1>26, DoesDetachWrite, NoIdIsNoNode, KeyFacts, OpFacts, StepNames
        DEF CInv, OperatorInv, TypeOK
    <2>2. /\ \A q \in Operators \ {o} : pc'[q] = pc[q] /\ cur'[q] = cur[q]
          /\ pc[o] = "dtWrite"
          /\ pc'[o] = "dtPeer"
          /\ cur'[o].id = cur[o].id /\ cur'[o].host = cur[o].host /\ cur'[o].key = cur[o].key
          /\ cur'[o].touched = cur[o].touched /\ cur'[o].failed = cur[o].failed
        BY <1>26, DoesDetachWrite DEF Kept, Same, Moved
    <2>3. reg' = reg
        BY <1>26, DoesDetachWrite
    <2>4. Registered' = Registered /\ RegKeys' = RegKeys /\ \A i : OtherKeys(i)' = OtherKeys(i)
        BY <2>3, SameKeys
    <2>5. /\ live' = live
          /\ told' = told
          /\ leaving' = leaving
          /\ shared' = shared
        BY <1>26, DoesDetachWrite
    <2>6. machine' = machine
        BY <1>26, DoesDetachWrite
    <2>7. \A j : \A s \in Servers : On(s, j)' <=> On(s, j)
        BY <2>6 DEF On
    <2>8. Apart(o)
        BY <2>1, <2>2, <2>3, <2>4, <2>5, <2>6, <2>7, StepNames DEF Apart
    <2>9. /\ \A q \in Operators \ {o} : Touches(q)' <=> Touches(q)
          /\ ~Touches(o) => Owed \subseteq Owed'
          /\ Touches(o)' => cur'[o].key \in Owed'
        BY <2>2, OthersAnswer
    <2>10. EntryAt(o)'
        BY <2>1, <2>2, <2>3, <2>4, <2>5, <2>6, <2>7, StepNames
        DEF EntryAt, Known, Shared, Joining
    <2>11. LiveAt(o)'
        BY <2>1, <2>2, <2>3, <2>4, <2>5, <2>6, <2>7, StepNames
        DEF LiveAt, Joining
    <2>12. PeerAt(o)'
        BY <2>1, <2>2, <2>3, <2>4, <2>5, <2>6, <2>7, StepNames, <2>9
        DEF PeerAt, RollsBack, Touches, Joining
    <2>13. DropAt(o)'
        BY <2>1, <2>2, <2>3, <2>4, <2>5, <2>6, <2>7, StepNames
        DEF DropAt
    <2>14. AgentAt(o)'
        BY <2>1, <2>2, <2>3, <2>4, <2>5, <2>6, <2>7, StepNames
        DEF AgentAt
    <2>15. Keeps(o)
        BY <2>1, <2>2, <2>3, <2>4, <2>5, <2>6, <2>7, StepNames
        DEF Keeps, Adder
    <2>16. Peers(o)
        BY <2>1, <2>2, <2>3, <2>4, <2>5, <2>6, <2>7, StepNames, <2>9
        DEF Peers, Stays, Touches, Joining, EntryAt, Known, Shared, LiveAt, PeerAt, RollsBack
    <2>17. Agents(o)
        BY <2>1, <2>2, <2>3, <2>4, <2>5, <2>6, <2>7, StepNames
        DEF Agents, Adder
    <2>18. Own(o)
        BY <2>10, <2>11, <2>12, <2>13, <2>14, <2>15, <2>16, <2>17 DEF Own
    <2> QED
        BY <2>8, <2>18, Preserved
<1>27. ASSUME NEW o \in Operators, DetachPeer(o) PROVE CInv'
    <2>1. /\ EntryAt(o) /\ LiveAt(o) /\ PeerAt(o) /\ DropAt(o) /\ AgentAt(o)
          /\ NoId \notin Ids /\ live \subseteq Ids /\ Registered \subseteq Ids /\ cur[o].id \in Ids
        BY <1>27, DoesDetachPeer, NoIdIsNoNode, KeyFacts, OpFacts, StepNames
        DEF CInv, OperatorInv, TypeOK
    <2>2. /\ \A q \in Operators \ {o} : pc'[q] = pc[q] /\ cur'[q] = cur[q]
          /\ pc[o] = "dtPeer"
          /\ pc'[o] = "dtRemove"
          /\ cur'[o].id = cur[o].id /\ cur'[o].host = cur[o].host /\ cur'[o].key = cur[o].key
          /\ cur'[o].touched = cur[o].touched /\ cur'[o].failed = cur[o].failed
        BY <1>27, DoesDetachPeer DEF Kept, Same, Moved
    <2>3. reg' = reg
        BY <1>27, DoesDetachPeer
    <2>4. Registered' = Registered /\ RegKeys' = RegKeys /\ \A i : OtherKeys(i)' = OtherKeys(i)
        BY <2>3, SameKeys
    <2>5. /\ live' = live \ {cur[o].key}
          /\ told' = told
          /\ leaving' = leaving
          /\ shared' = shared
        BY <1>27, DoesDetachPeer
    <2>6. machine' = machine
        BY <1>27, DoesDetachPeer
    <2>7. \A j : \A s \in Servers : On(s, j)' <=> On(s, j)
        BY <2>6 DEF On
    <2>8. Apart(o)
        BY <2>1, <2>2, <2>3, <2>4, <2>5, <2>6, <2>7, StepNames DEF Apart
    <2>9. /\ \A q \in Operators \ {o} : Touches(q)' <=> Touches(q)
          /\ ~Touches(o) => Owed \subseteq Owed'
          /\ Touches(o)' => cur'[o].key \in Owed'
        BY <2>2, OthersAnswer
    <2>10. EntryAt(o)'
        BY <2>1, <2>2, <2>3, <2>4, <2>5, <2>6, <2>7, StepNames
        DEF EntryAt, Known, Shared, Joining
    <2>11. LiveAt(o)'
        BY <2>1, <2>2, <2>3, <2>4, <2>5, <2>6, <2>7, StepNames
        DEF LiveAt, Joining
    <2>12. PeerAt(o)'
        BY <2>1, <2>2, <2>3, <2>4, <2>5, <2>6, <2>7, StepNames, <2>9
        DEF PeerAt, RollsBack, Touches, Joining
    <2>13. DropAt(o)'
        BY <2>1, <2>2, <2>3, <2>4, <2>5, <2>6, <2>7, StepNames
        DEF DropAt
    <2>14. AgentAt(o)'
        BY <2>1, <2>2, <2>3, <2>4, <2>5, <2>6, <2>7, StepNames
        DEF AgentAt
    <2>15. Keeps(o)
        BY <2>1, <2>2, <2>3, <2>4, <2>5, <2>6, <2>7, StepNames
        DEF Keeps, Adder
    <2>16. Peers(o)
        BY <2>1, <2>2, <2>3, <2>4, <2>5, <2>6, <2>7, StepNames, <2>9
        DEF Peers, Stays, Touches, Joining, EntryAt, Known, Shared, LiveAt, PeerAt, RollsBack
    <2>17. Agents(o)
        BY <2>1, <2>2, <2>3, <2>4, <2>5, <2>6, <2>7, StepNames
        DEF Agents, Adder
    <2>18. Own(o)
        BY <2>10, <2>11, <2>12, <2>13, <2>14, <2>15, <2>16, <2>17 DEF Own
    <2> QED
        BY <2>8, <2>18, Preserved
<1>28. ASSUME NEW o \in Operators, DetachRemove(o) PROVE CInv'
    <2>1. /\ EntryAt(o) /\ LiveAt(o) /\ PeerAt(o) /\ DropAt(o) /\ AgentAt(o)
          /\ NoId \notin Ids /\ live \subseteq Ids /\ Registered \subseteq Ids /\ cur[o].id \in Ids
        BY <1>28, DoesDetachRemove, NoIdIsNoNode, KeyFacts, OpFacts, StepNames
        DEF CInv, OperatorInv, TypeOK
    <2>2. /\ \A q \in Operators \ {o} : pc'[q] = pc[q] /\ cur'[q] = cur[q]
          /\ pc[o] = "dtRemove"
          /\ pc'[o] = "idle" /\ cur'[o].id = NoId /\ cur'[o].host = NoId /\ cur'[o].key = NoId
          /\ cur'[o].touched = FALSE /\ cur'[o].failed = FALSE
        BY <1>28, DoesDetachRemove, IdleFacts DEF Ended, Moved
    <2>3. pc[o] \in {"rbRemove", "dtRemove"} /\ Entered(o, Absent)
        BY <1>28, DoesDetachRemove
    <2>4. Registered' = Registered \ {cur[o].id} /\ \A i \in Registered' : reg'[i] = reg[i]
        BY <2>3, OpFacts, Dropping
    <2>5. \A i \in Ids \ {cur[o].id} : reg'[i] = reg[i]
        BY <1>28, DoesDetachRemove DEF Entered
    <2>6. /\ live' = live
          /\ told' = told
          /\ leaving' = leaving
          /\ shared' = shared
        BY <1>28, DoesDetachRemove
    <2>7. machine' = machine
        BY <1>28, DoesDetachRemove
    <2>8. \A j : \A s \in Servers : On(s, j)' <=> On(s, j)
        BY <2>7 DEF On
    <2>9. Apart(o)
        BY <2>1, <2>2, <2>3, <2>4, <2>5, <2>6, <2>7, <2>8, StepNames DEF Apart
    <2>10. /\ \A q \in Operators \ {o} : Touches(q)' <=> Touches(q)
           /\ ~Touches(o) => Owed \subseteq Owed'
           /\ Touches(o)' => cur'[o].key \in Owed'
        BY <2>2, OthersAnswer
    <2>11. cur[o].id \in leaving
        BY <2>1, <2>2, <2>3, <2>4, <2>5, <2>6, <2>7, <2>8, StepNames DEF EntryAt
    <2>12. pc[o] = "dtRemove" /\ cur[o].id \in Registered /\ cur[o].key \in live => cur[o].key \in told' \cup Owed'
        BY <2>1, <2>2, <2>3, <2>4, <2>5, <2>6, <2>7, <2>8, <2>10, StepNames DEF DropAt, Answers, Owed, Touches, Joining
    <2>13. pc[o] = "dtRemove" => \A s \in Servers, i \in {cur[o].id} : i \in told \/ ~On(s, i)
        BY <2>1, <2>2, <2>3, <2>4, <2>5, <2>6, <2>7, <2>8, StepNames DEF AgentAt
    <2>14. EntryAt(o)'
        BY <2>1, <2>2, <2>3, <2>4, <2>5, <2>6, <2>7, <2>8, StepNames, <2>11, <2>12, <2>13
        DEF EntryAt, Known, Shared, Joining
    <2>15. LiveAt(o)'
        BY <2>1, <2>2, <2>3, <2>4, <2>5, <2>6, <2>7, <2>8, StepNames, <2>11, <2>12, <2>13
        DEF LiveAt, Joining
    <2>16. PeerAt(o)'
        BY <2>1, <2>2, <2>3, <2>4, <2>5, <2>6, <2>7, <2>8, StepNames, <2>11, <2>12, <2>13, <2>10
        DEF PeerAt, RollsBack, Touches, Joining
    <2>17. DropAt(o)'
        BY <2>1, <2>2, <2>3, <2>4, <2>5, <2>6, <2>7, <2>8, StepNames, <2>11, <2>12, <2>13
        DEF DropAt
    <2>18. AgentAt(o)'
        BY <2>1, <2>2, <2>3, <2>4, <2>5, <2>6, <2>7, <2>8, StepNames, <2>11, <2>12, <2>13
        DEF AgentAt
    <2>19. Keeps(o)
        BY <2>1, <2>2, <2>3, <2>4, <2>5, <2>6, <2>7, <2>8, StepNames, <2>11, <2>12, <2>13
        DEF Keeps, Adder
    <2>20. Peers(o)
        BY <2>1, <2>2, <2>3, <2>4, <2>5, <2>6, <2>7, <2>8, StepNames, <2>11, <2>12, <2>13, <2>10
        DEF Peers, Stays, Touches, Joining, EntryAt, Known, Shared, LiveAt, PeerAt, RollsBack
    <2>21. Agents(o)
        BY <2>1, <2>2, <2>3, <2>4, <2>5, <2>6, <2>7, <2>8, StepNames, <2>11, <2>12, <2>13
        DEF Agents, Adder
    <2>22. Own(o)
        BY <2>14, <2>15, <2>16, <2>17, <2>18, <2>19, <2>20, <2>21 DEF Own
    <2> QED
        BY <2>9, <2>22, Preserved
<1>29. ASSUME NEW o \in Operators, DetachStepFails(o) PROVE CInv'
    <2>1. /\ EntryAt(o) /\ LiveAt(o) /\ PeerAt(o) /\ DropAt(o) /\ AgentAt(o)
          /\ NoId \notin Ids /\ live \subseteq Ids /\ Registered \subseteq Ids /\ cur[o].id \in Ids
        BY <1>29, DoesDetachStepFails, NoIdIsNoNode, KeyFacts, OpFacts, StepNames
        DEF CInv, OperatorInv, TypeOK
    <2>2. /\ \A q \in Operators \ {o} : pc'[q] = pc[q] /\ cur'[q] = cur[q]
          /\ pc[o] \in {"dtLoad", "dtWrite", "dtPeer", "dtRemove"}
          /\ pc'[o] = "idle" /\ cur'[o].id = NoId /\ cur'[o].host = NoId /\ cur'[o].key = NoId
          /\ cur'[o].touched = FALSE /\ cur'[o].failed = FALSE
        BY <1>29, DoesDetachStepFails, IdleFacts DEF Ended, Moved
    <2>3. reg' = reg \/ (pc[o] \in {"rbRemove", "dtRemove"} /\ Entered(o, Absent))
        BY <1>29, DoesDetachStepFails
    <2>4. \/ reg' = reg /\ Registered' = Registered
          \/ Registered' = Registered \ {cur[o].id} /\ \A i \in Registered' : reg'[i] = reg[i]
        BY <2>3, OpFacts, Dropping, SameKeys
    <2>5. \A i \in Ids \ {cur[o].id} : reg'[i] = reg[i]
        BY <1>29, DoesDetachStepFails DEF Entered
    <2>6. /\ live' = live
          /\ told' = told
          /\ leaving' = leaving
          /\ shared' = shared
        BY <1>29, DoesDetachStepFails
    <2>7. machine' = machine
        BY <1>29, DoesDetachStepFails
    <2>8. \A j : \A s \in Servers : On(s, j)' <=> On(s, j)
        BY <2>7 DEF On
    <2>9. Apart(o)
        BY <2>1, <2>2, <2>3, <2>4, <2>5, <2>6, <2>7, <2>8, StepNames DEF Apart
    <2>10. /\ \A q \in Operators \ {o} : Touches(q)' <=> Touches(q)
           /\ ~Touches(o) => Owed \subseteq Owed'
           /\ Touches(o)' => cur'[o].key \in Owed'
        BY <2>2, OthersAnswer
    <2>11. cur[o].id \in leaving
        BY <2>1, <2>2, <2>3, <2>4, <2>5, <2>6, <2>7, <2>8, StepNames DEF EntryAt
    <2>12. pc[o] = "dtRemove" /\ cur[o].id \in Registered /\ cur[o].key \in live => cur[o].key \in told' \cup Owed'
        BY <2>1, <2>2, <2>3, <2>4, <2>5, <2>6, <2>7, <2>8, <2>10, StepNames DEF DropAt, Answers, Owed, Touches, Joining
    <2>13. pc[o] = "dtRemove" => \A s \in Servers, i \in {cur[o].id} : i \in told \/ ~On(s, i)
        BY <2>1, <2>2, <2>3, <2>4, <2>5, <2>6, <2>7, <2>8, StepNames DEF AgentAt
    <2>14. (reg' = reg /\ Registered' = Registered /\ RegKeys' = RegKeys) \/ pc[o] = "dtRemove"
        BY <1>29, DoesDetachStepFails, SameKeys
    <2>15. EntryAt(o)'
        BY <2>1, <2>2, <2>3, <2>4, <2>5, <2>6, <2>7, <2>8, StepNames, <2>11, <2>12, <2>13, <2>14
        DEF EntryAt, Known, Shared, Joining
    <2>16. LiveAt(o)'
        BY <2>1, <2>2, <2>3, <2>4, <2>5, <2>6, <2>7, <2>8, StepNames, <2>11, <2>12, <2>13, <2>14
        DEF LiveAt, Joining
    <2>17. PeerAt(o)'
        BY <2>1, <2>2, <2>3, <2>4, <2>5, <2>6, <2>7, <2>8, StepNames, <2>11, <2>12, <2>13, <2>14, <2>10
        DEF PeerAt, RollsBack, Touches, Joining
    <2>18. DropAt(o)'
        BY <2>1, <2>2, <2>3, <2>4, <2>5, <2>6, <2>7, <2>8, StepNames, <2>11, <2>12, <2>13, <2>14
        DEF DropAt
    <2>19. AgentAt(o)'
        BY <2>1, <2>2, <2>3, <2>4, <2>5, <2>6, <2>7, <2>8, StepNames, <2>11, <2>12, <2>13, <2>14
        DEF AgentAt
    <2>20. Keeps(o)
        BY <2>1, <2>2, <2>3, <2>4, <2>5, <2>6, <2>7, <2>8, StepNames, <2>11, <2>12, <2>13, <2>14
        DEF Keeps, Adder
    <2>21. Peers(o)
        BY <2>1, <2>2, <2>3, <2>4, <2>5, <2>6, <2>7, <2>8, StepNames, <2>11, <2>12, <2>13, <2>14, <2>10
        DEF Peers, Stays, Touches, Joining, EntryAt, Known, Shared, LiveAt, PeerAt, RollsBack
    <2>22. Agents(o)
        BY <2>1, <2>2, <2>3, <2>4, <2>5, <2>6, <2>7, <2>8, StepNames, <2>11, <2>12, <2>13, <2>14
        DEF Agents, Adder
    <2>23. Own(o)
        BY <2>15, <2>16, <2>17, <2>18, <2>19, <2>20, <2>21, <2>22 DEF Own
    <2> QED
        BY <2>9, <2>23, Preserved
<1>30. ASSUME NEW o \in Operators, EnsureOverlay(o) PROVE CInv'
    <2>1. /\ EntryAt(o) /\ LiveAt(o) /\ PeerAt(o) /\ DropAt(o) /\ AgentAt(o)
          /\ NoId \notin Ids /\ live \subseteq Ids /\ Registered \subseteq Ids
        BY <1>30, DoesEnsureOverlay, NoIdIsNoNode, KeyFacts DEF CInv, OperatorInv, TypeOK
    <2>2. /\ \A q \in Operators \ {o} : pc'[q] = pc[q] /\ cur'[q] = cur[q]
          /\ pc[o] = "idle"
          /\ pc'[o] = "ovLoad"
          /\ cur'[o].id = NoId /\ cur'[o].host = NoId /\ cur'[o].key = NoId
          /\ cur'[o].touched = FALSE /\ cur'[o].failed = FALSE
        BY <1>30, DoesEnsureOverlay, IdleFacts DEF Moved
    <2>3. cur[o].id = NoId /\ cur[o].key = NoId /\ pc[o] = "idle"
        BY <1>30, DoesEnsureOverlay DEF StepInv
    <2>4. reg' = reg
        BY <1>30, DoesEnsureOverlay
    <2>5. Registered' = Registered /\ RegKeys' = RegKeys /\ \A i : OtherKeys(i)' = OtherKeys(i)
        BY <2>4, SameKeys
    <2>6. /\ live' = live
          /\ told' = told
          /\ leaving' = leaving
          /\ shared' = shared
        BY <1>30, DoesEnsureOverlay
    <2>7. machine' = machine
        BY <1>30, DoesEnsureOverlay
    <2>8. \A j : \A s \in Servers : On(s, j)' <=> On(s, j)
        BY <2>7 DEF On
    <2>9. Apart(o)
        BY <2>1, <2>2, <2>3, <2>4, <2>5, <2>6, <2>7, <2>8, StepNames DEF Apart
    <2>10. /\ \A q \in Operators \ {o} : Touches(q)' <=> Touches(q)
           /\ ~Touches(o) => Owed \subseteq Owed'
           /\ Touches(o)' => cur'[o].key \in Owed'
        BY <2>2, OthersAnswer
    <2>11. EntryAt(o)'
        BY <2>1, <2>2, <2>3, <2>4, <2>5, <2>6, <2>7, <2>8, StepNames
        DEF EntryAt, Known, Shared, Joining
    <2>12. LiveAt(o)'
        BY <2>1, <2>2, <2>3, <2>4, <2>5, <2>6, <2>7, <2>8, StepNames
        DEF LiveAt, Joining
    <2>13. PeerAt(o)'
        BY <2>1, <2>2, <2>3, <2>4, <2>5, <2>6, <2>7, <2>8, StepNames, <2>10
        DEF PeerAt, RollsBack, Touches, Joining
    <2>14. DropAt(o)'
        BY <2>1, <2>2, <2>3, <2>4, <2>5, <2>6, <2>7, <2>8, StepNames
        DEF DropAt
    <2>15. AgentAt(o)'
        BY <2>1, <2>2, <2>3, <2>4, <2>5, <2>6, <2>7, <2>8, StepNames
        DEF AgentAt
    <2>16. Keeps(o)
        BY <2>1, <2>2, <2>3, <2>4, <2>5, <2>6, <2>7, <2>8, StepNames
        DEF Keeps, Adder
    <2>17. Peers(o)
        BY <2>1, <2>2, <2>3, <2>4, <2>5, <2>6, <2>7, <2>8, StepNames, <2>10
        DEF Peers, Stays, Touches, Joining, EntryAt, Known, Shared, LiveAt, PeerAt, RollsBack
    <2>18. Agents(o)
        BY <2>1, <2>2, <2>3, <2>4, <2>5, <2>6, <2>7, <2>8, StepNames
        DEF Agents, Adder
    <2>19. Own(o)
        BY <2>11, <2>12, <2>13, <2>14, <2>15, <2>16, <2>17, <2>18 DEF Own
    <2> QED
        BY <2>9, <2>19, Preserved
<1>31. ASSUME NEW o \in Operators, OverlayLoad(o) PROVE CInv'
    <2>1. /\ EntryAt(o) /\ LiveAt(o) /\ PeerAt(o) /\ DropAt(o) /\ AgentAt(o)
          /\ NoId \notin Ids /\ live \subseteq Ids /\ Registered \subseteq Ids
        BY <1>31, DoesOverlayLoad, NoIdIsNoNode, KeyFacts DEF CInv, OperatorInv, TypeOK
    <2>2. /\ \A q \in Operators \ {o} : pc'[q] = pc[q] /\ cur'[q] = cur[q]
          /\ pc[o] = "ovLoad"
          /\ pc'[o] = "ovWrite"
          /\ cur'[o].id = cur[o].id /\ cur'[o].host = cur[o].host /\ cur'[o].key = cur[o].key
          /\ cur'[o].touched = cur[o].touched /\ cur'[o].failed = cur[o].failed
          /\ cur'[o].list = RegKeys
        BY <1>31, DoesOverlayLoad DEF Kept, Same, Moved
    <2>3. cur[o].id = NoId /\ cur[o].key = NoId
        BY <1>31, DoesOverlayLoad DEF StepInv
    <2>4. reg' = reg
        BY <1>31, DoesOverlayLoad
    <2>5. Registered' = Registered /\ RegKeys' = RegKeys /\ \A i : OtherKeys(i)' = OtherKeys(i)
        BY <2>4, SameKeys
    <2>6. /\ live' = live
          /\ told' = told
          /\ leaving' = leaving
          /\ shared' = shared
        BY <1>31, DoesOverlayLoad
    <2>7. machine' = machine
        BY <1>31, DoesOverlayLoad
    <2>8. \A j : \A s \in Servers : On(s, j)' <=> On(s, j)
        BY <2>7 DEF On
    <2>9. Apart(o)
        BY <2>1, <2>2, <2>3, <2>4, <2>5, <2>6, <2>7, <2>8, StepNames DEF Apart
    <2>10. /\ \A q \in Operators \ {o} : Touches(q)' <=> Touches(q)
           /\ ~Touches(o) => Owed \subseteq Owed'
           /\ Touches(o)' => cur'[o].key \in Owed'
        BY <2>2, OthersAnswer
    <2>11. EntryAt(o)'
        BY <2>1, <2>2, <2>3, <2>4, <2>5, <2>6, <2>7, <2>8, StepNames
        DEF EntryAt, Known, Shared, Joining
    <2>12. LiveAt(o)'
        BY <2>1, <2>2, <2>3, <2>4, <2>5, <2>6, <2>7, <2>8, StepNames
        DEF LiveAt, Joining
    <2>13. PeerAt(o)'
        BY <2>1, <2>2, <2>3, <2>4, <2>5, <2>6, <2>7, <2>8, StepNames, <2>10
        DEF PeerAt, RollsBack, Touches, Joining
    <2>14. DropAt(o)'
        BY <2>1, <2>2, <2>3, <2>4, <2>5, <2>6, <2>7, <2>8, StepNames
        DEF DropAt
    <2>15. AgentAt(o)'
        BY <2>1, <2>2, <2>3, <2>4, <2>5, <2>6, <2>7, <2>8, StepNames
        DEF AgentAt
    <2>16. Keeps(o)
        BY <2>1, <2>2, <2>3, <2>4, <2>5, <2>6, <2>7, <2>8, StepNames
        DEF Keeps, Adder
    <2>17. Peers(o)
        BY <2>1, <2>2, <2>3, <2>4, <2>5, <2>6, <2>7, <2>8, StepNames, <2>10
        DEF Peers, Stays, Touches, Joining, EntryAt, Known, Shared, LiveAt, PeerAt, RollsBack
    <2>18. Agents(o)
        BY <2>1, <2>2, <2>3, <2>4, <2>5, <2>6, <2>7, <2>8, StepNames
        DEF Agents, Adder
    <2>19. Own(o)
        BY <2>11, <2>12, <2>13, <2>14, <2>15, <2>16, <2>17, <2>18 DEF Own
    <2> QED
        BY <2>9, <2>19, Preserved
<1>32. ASSUME NEW o \in Operators, OverlayWrite(o) PROVE CInv'
    <2>1. /\ EntryAt(o) /\ LiveAt(o) /\ PeerAt(o) /\ DropAt(o) /\ AgentAt(o)
          /\ NoId \notin Ids /\ live \subseteq Ids /\ Registered \subseteq Ids
        BY <1>32, DoesOverlayWrite, NoIdIsNoNode, KeyFacts DEF CInv, OperatorInv, TypeOK
    <2>2. /\ \A q \in Operators \ {o} : pc'[q] = pc[q] /\ cur'[q] = cur[q]
          /\ pc[o] = "ovWrite"
          /\ pc'[o] = "idle" /\ cur'[o].id = NoId /\ cur'[o].host = NoId /\ cur'[o].key = NoId
          /\ cur'[o].touched = FALSE /\ cur'[o].failed = FALSE
        BY <1>32, DoesOverlayWrite, IdleFacts DEF Ended, Moved
    <2>3. cur[o].id = NoId /\ cur[o].key = NoId
        BY <1>32, DoesOverlayWrite DEF StepInv
    <2>4. reg' = reg
        BY <1>32, DoesOverlayWrite
    <2>5. Registered' = Registered /\ RegKeys' = RegKeys /\ \A i : OtherKeys(i)' = OtherKeys(i)
        BY <2>4, SameKeys
    <2>6. /\ live' = live
          /\ told' = told
          /\ leaving' = leaving
          /\ shared' = shared
        BY <1>32, DoesOverlayWrite
    <2>7. machine' = machine
        BY <1>32, DoesOverlayWrite
    <2>8. \A j : \A s \in Servers : On(s, j)' <=> On(s, j)
        BY <2>7 DEF On
    <2>9. Apart(o)
        BY <2>1, <2>2, <2>3, <2>4, <2>5, <2>6, <2>7, <2>8, StepNames DEF Apart
    <2>10. /\ \A q \in Operators \ {o} : Touches(q)' <=> Touches(q)
           /\ ~Touches(o) => Owed \subseteq Owed'
           /\ Touches(o)' => cur'[o].key \in Owed'
        BY <2>2, OthersAnswer
    <2>11. EntryAt(o)'
        BY <2>1, <2>2, <2>3, <2>4, <2>5, <2>6, <2>7, <2>8, StepNames
        DEF EntryAt, Known, Shared, Joining
    <2>12. LiveAt(o)'
        BY <2>1, <2>2, <2>3, <2>4, <2>5, <2>6, <2>7, <2>8, StepNames
        DEF LiveAt, Joining
    <2>13. PeerAt(o)'
        BY <2>1, <2>2, <2>3, <2>4, <2>5, <2>6, <2>7, <2>8, StepNames, <2>10
        DEF PeerAt, RollsBack, Touches, Joining
    <2>14. DropAt(o)'
        BY <2>1, <2>2, <2>3, <2>4, <2>5, <2>6, <2>7, <2>8, StepNames
        DEF DropAt
    <2>15. AgentAt(o)'
        BY <2>1, <2>2, <2>3, <2>4, <2>5, <2>6, <2>7, <2>8, StepNames
        DEF AgentAt
    <2>16. Keeps(o)
        BY <2>1, <2>2, <2>3, <2>4, <2>5, <2>6, <2>7, <2>8, StepNames
        DEF Keeps, Adder
    <2>17. Peers(o)
        BY <2>1, <2>2, <2>3, <2>4, <2>5, <2>6, <2>7, <2>8, StepNames, <2>10
        DEF Peers, Stays, Touches, Joining, EntryAt, Known, Shared, LiveAt, PeerAt, RollsBack
    <2>18. Agents(o)
        BY <2>1, <2>2, <2>3, <2>4, <2>5, <2>6, <2>7, <2>8, StepNames
        DEF Agents, Adder
    <2>19. Own(o)
        BY <2>11, <2>12, <2>13, <2>14, <2>15, <2>16, <2>17, <2>18 DEF Own
    <2> QED
        BY <2>9, <2>19, Preserved
<1>33. ASSUME NEW o \in Operators, Crash(o) PROVE CInv'
    <2>1. /\ EntryAt(o) /\ LiveAt(o) /\ PeerAt(o) /\ DropAt(o) /\ AgentAt(o)
          /\ NoId \notin Ids /\ live \subseteq Ids /\ Registered \subseteq Ids
        BY <1>33, DoesCrash, NoIdIsNoNode, KeyFacts DEF CInv, OperatorInv, TypeOK
    <2>2. /\ \A q \in Operators \ {o} : pc'[q] = pc[q] /\ cur'[q] = cur[q]
          /\ pc[o] # "idle"
          /\ pc'[o] = "idle" /\ cur'[o].id = NoId /\ cur'[o].host = NoId /\ cur'[o].key = NoId
          /\ cur'[o].touched = FALSE /\ cur'[o].failed = FALSE
        BY <1>33, DoesCrash, IdleFacts DEF Ended, Moved
    <2>3. reg' = reg
        BY <1>33, DoesCrash
    <2>4. Registered' = Registered /\ RegKeys' = RegKeys /\ \A i : OtherKeys(i)' = OtherKeys(i)
        BY <2>3, SameKeys
    <2>5. /\ live' = live
          /\ told' = told \cup Names(o)
          /\ leaving' = leaving
          /\ shared' = shared
        BY <1>33, DoesCrash
    <2>6. machine' = machine
        BY <1>33, DoesCrash
    <2>7. \A j : \A s \in Servers : On(s, j)' <=> On(s, j)
        BY <2>6 DEF On
    <2>8. Apart(o)
        BY <2>1, <2>2, <2>3, <2>4, <2>5, <2>6, <2>7, StepNames DEF Apart
    <2>9. /\ \A q \in Operators \ {o} : Touches(q)' <=> Touches(q)
          /\ ~Touches(o) => Owed \subseteq Owed'
          /\ Touches(o)' => cur'[o].key \in Owed'
        BY <2>2, OthersAnswer
    <2>10. (cur[o].id \in Ids => cur[o].id \in told') /\ (cur[o].key \in live => cur[o].key \in told')
        BY <2>1, <2>5 DEF Names
    <2>11. EntryAt(o)'
        BY <2>1, <2>2, <2>3, <2>4, <2>5, <2>6, <2>7, StepNames, <2>10
        DEF EntryAt, Known, Shared, Joining
    <2>12. LiveAt(o)'
        BY <2>1, <2>2, <2>3, <2>4, <2>5, <2>6, <2>7, StepNames, <2>10
        DEF LiveAt, Joining
    <2>13. PeerAt(o)'
        BY <2>1, <2>2, <2>3, <2>4, <2>5, <2>6, <2>7, StepNames, <2>10, <2>9
        DEF PeerAt, RollsBack, Touches, Joining
    <2>14. DropAt(o)'
        BY <2>1, <2>2, <2>3, <2>4, <2>5, <2>6, <2>7, StepNames, <2>10
        DEF DropAt
    <2>15. AgentAt(o)'
        BY <2>1, <2>2, <2>3, <2>4, <2>5, <2>6, <2>7, StepNames, <2>10
        DEF AgentAt
    <2>16. Keeps(o)
        BY <2>1, <2>2, <2>3, <2>4, <2>5, <2>6, <2>7, StepNames, <2>10
        DEF Keeps, Adder
    <2>17. Peers(o)
        BY <2>1, <2>2, <2>3, <2>4, <2>5, <2>6, <2>7, StepNames, <2>10, <2>9
        DEF Peers, Stays, Touches, Joining, EntryAt, Known, Shared, LiveAt, PeerAt, RollsBack
    <2>18. Agents(o)
        BY <2>1, <2>2, <2>3, <2>4, <2>5, <2>6, <2>7, StepNames, <2>10
        DEF Agents, Adder
    <2>19. Own(o)
        BY <2>11, <2>12, <2>13, <2>14, <2>15, <2>16, <2>17, <2>18 DEF Own
    <2> QED
        BY <2>8, <2>19, Preserved
<1>34. CASE UNCHANGED vars
    BY <1>34
    DEF CInv, Sole, OperatorInv, EntryAt, LiveAt, PeerAt, DropAt, AgentAt, RollsBack, Answers,
        PeersKnown, PeersLive, AgentsKnown, Known, Shared, Adder, Touches, Owed, AdderIds,
        Registered, RegKeys, BusyIds, On,
        vars
<1> QED
    BY <1>1, <1>2, <1>3, <1>4, <1>5, <1>6, <1>7, <1>8, <1>9, <1>10, <1>11, <1>12, <1>13,
           <1>14, <1>15, <1>16, <1>17, <1>18, <1>19, <1>20, <1>21, <1>22, <1>23, <1>24, <1>25,
           <1>26, <1>27, <1>28, <1>29, <1>30, <1>31, <1>32, <1>33, <1>34 DEF Next, Adding, RollingBack, Removing, Overlay

-----------------------------------------------------------------------------
(* The invariant holds, and what it says of the fleet.                     *)

\* Both invariants hold initially.
LEMMA InitInv == Init => IInv /\ CInv
<1> SUFFICES ASSUME Init PROVE IInv /\ CInv
    OBVIOUS
<1>1. TypeOK /\ StepInv
    BY InitTypeOK
<1>2. \A o \in Operators : pc[o] = "idle" /\ cur[o] = Idle
    BY DEF Init
<1>3. /\ \A i \in Ids : reg[i] = Absent
      /\ Registered = {} /\ RegKeys = {} /\ Active = {}
    BY <1>2 DEF Init, Registered, RegKeys, Active
<1>4. \A s \in Servers : machine[s].key = NoId /\ machine[s].agent = NoId /\ machine[s].owner = NoId
    BY DEF Init, Clean
<1>5. RegistryUnique
    BY <1>3 DEF RegistryUnique
<1>6. HomeInv
    <2>1. PICK home : home \in [used -> Servers]
        <3>1. [i \in used |-> CHOOSE s \in Servers : TRUE] \in [used -> Servers]
            BY DEF Init
        <3> QED
            BY <3>1
    <2>2. HomeOf(home)
        BY <1>2, <1>3, <1>4, IdleFacts DEF HomeOf, MachinesHome, NodesHome, OperatorsHome
    <2> QED
        BY <2>1, <2>2 DEF HomeInv
<1>7. ConfInv
    BY <1>3 DEF ConfInv, ConfNow, Init
<1>8. Sole
    BY <1>2, IdleFacts DEF Sole
<1>9. OperatorInv
    BY <1>2, <1>3, IdleFacts, NoIdIsNoNode, StepNames
    DEF OperatorInv, EntryAt, LiveAt, PeerAt, DropAt, AgentAt, RollsBack, Joining
<1>10. PeersKnown /\ PeersLive
    BY <1>3 DEF PeersKnown, PeersLive, Init
<1>11. AgentsKnown
    BY <1>4, NoIdIsNoNode DEF AgentsKnown, On
<1> QED
    BY <1>1, <1>5, <1>6, <1>7, <1>8, <1>9, <1>10, <1>11 DEF IInv, CInv

\* Every step keeps the invariant.
LEMMA NextIInv == IInv /\ [Next]_vars => IInv'
<1> SUFFICES ASSUME IInv, [Next]_vars PROVE IInv'
    OBVIOUS
<1>1. TypeOK' /\ StepInv' /\ RegistryUnique' /\ HomeInv' /\ ConfInv'
    BY NextTypeOK, NextStepInv, NextUnique, NextHomeInv, NextConfInv DEF IInv
<1> QED
    BY <1>1 DEF IInv

(* The inductive invariant of the membership protocol.                     *)
THEOREM Invariance == Spec => []IInv
<1>1. Init => IInv
    BY InitInv
<1> QED
    BY <1>1, NextIInv, PTL DEF Spec

(* Every operation works on a generated ID and a typed host, and the       *)
(* registry, the peers and the machines hold what the code can put there.  *)
THEOREM TypeCorrect == Spec => []TypeOK
<1>1. IInv => TypeOK
    BY DEF IInv
<1> QED
    BY <1>1, Invariance, PTL

(* nodes.Add: no two nodes share a host, an address or a key, although     *)
(* every operator checks and chooses before it takes the registry lock.    *)
THEOREM NodesAreUnique == Spec => []RegistryUnique
<1>1. IInv => RegistryUnique
    BY DEF IInv
<1> QED
    BY <1>1, Invariance, PTL

(* joinOverlay, rollbackAdd, detachNode and EnsureOverlay: operators that  *)
(* take turns and meet no failure leave the durable WireGuard              *)
(* configuration with exactly the registered peers.                        *)
THEOREM ConfigIsCurrent == Spec => []DurableConfigCurrent
<1>1. IInv => DurableConfigCurrent
    BY DEF IInv, ConfInv, ConfNow, DurableConfigCurrent, AllIdle
<1> QED
    BY <1>1, Invariance, PTL

(* What stays true of peers and agents however operators overlap.          *)
THEOREM PeersInvariance == Spec => [](IInv /\ CInv)
<1>1. Init => IInv /\ CInv
    BY InitInv
<1>2. IInv /\ CInv /\ [Next]_vars => (IInv /\ CInv)'
    <2> SUFFICES ASSUME IInv, CInv, [Next]_vars PROVE IInv' /\ CInv'
        OBVIOUS
    <2>1. IInv'
        BY NextIInv
    <2>2. CInv'
        BY <2>1, NextCInv DEF IInv
    <2> QED
        BY <2>1, <2>2
<1> QED
    BY <1>1, <1>2, PTL DEF Spec

(* SetPeer, RemovePeer: a node whose AddNode succeeded keeps its live peer *)
(* until its own removal begins, whatever operators add, roll back and     *)
(* remove meanwhile, unless two operations worked at once on one node with *)
(* its key.                                                                *)
THEOREM PeersAreKept == Spec => []CommittedNodeKeepsPeer
<1>1. IInv /\ CInv => CommittedNodeKeepsPeer
    <2> SUFFICES ASSUME IInv, CInv, NEW i \in Registered \ (leaving \cup InFlight \cup told),
                        reg[i].installed, reg[i].key \notin shared
                 PROVE  reg[i].key \in live
        BY DEF CommittedNodeKeepsPeer
    <2>1. i \in Ids
        BY DEF Registered
    <2>2. i \notin BusyIds
        BY <2>1, NoIdIsNoNode, Hosted DEF BusyIds, InFlight, Active, IInv
    <2> QED
        BY <2>2 DEF CInv, PeersLive
<1> QED
    BY <1>1, PeersInvariance, PTL

(* rollbackAdd, RemoveNode: a peer, an agent or a deployment that remains  *)
(* is registered, in work, or was reported, however operators overlap.     *)
THEOREM RemainsAreReported == Spec => []NothingLeftSilently
<1>1. IInv /\ CInv => NothingLeftSilently
    <2> SUFFICES ASSUME IInv, CInv, NEW i \in used, Remains(i)
                 PROVE  i \in Registered \cup RegKeys \cup InFlight \cup told
        BY DEF NothingLeftSilently
    <2>1. i \in Ids /\ i # NoId /\ TypeOK /\ StepInv
        BY NoIdIsNoNode DEF IInv, TypeOK
    <2>2. i \in AdderIds \cup Owed => i \in InFlight
        BY <2>1, Hosted DEF AdderIds, Owed, InFlight, Active
    <2>3. i \in live => i \in RegKeys \cup told \cup Owed
        BY DEF CInv, PeersKnown
    <2>4. \A s \in Servers : On(s, i) => i \in Registered \cup told \cup AdderIds
        BY <2>1 DEF CInv, AgentsKnown
    <2> QED
        BY <2>2, <2>3, <2>4 DEF Remains, On
<1> QED
    BY <1>1, PeersInvariance, PTL
=============================================================================
