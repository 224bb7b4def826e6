--------------------------- MODULE FleetMembership ---------------------------
(***************************************************************************)
(* How a spoke joins and leaves the fleet: AddNode with its rollback,      *)
(* RemoveNode, ForceDetachNode and EnsureOverlay of internal/hubctl, over  *)
(* the node registry (internal/nodes), the hub's WireGuard interface and   *)
(* its durable configuration file (internal/wgnet), the SSH bootstrap      *)
(* (internal/bootstrap) and the spoke agent's Install and Uninstall.       *)
(*                                                                         *)
(* Operators are processes (TUI sessions) that share all of this.  The     *)
(* registry's own transactions are atomic (EntryStore implements           *)
(* AtomicTree); everything else an operation does is a step of its own,    *)
(* any remote or local step may fail, an answer may be lost, and an        *)
(* operator process may die between two steps.                             *)
(*                                                                         *)
(* A node ID names the AddNode transaction that generated it, and stands   *)
(* for the token that transaction installs; a WireGuard key is named after *)
(* the transaction that made the spoke generate it.                        *)
(***************************************************************************)
EXTENDS Naturals, FiniteSets, FiniteSetsExt

CONSTANTS
    Operators,     \* hub processes that run controller operations
    Ids,           \* node IDs GenerateID may return; bounds the adds
    Hosts,         \* SSH host names the operator may type
    Servers,       \* machines
    HostOf,        \* the machine behind each SSH host name
    Standalone,    \* machines with a deployment of their own from before
    IPs,           \* host numbers of the overlay subnet
    NoId,          \* no node
    MaxFaults      \* bound on failures and operator crashes

ASSUME HostsNameServers == HostOf \in [Hosts -> Servers]
ASSUME NoIdIsNoNode == NoId \notin Ids \cup Hosts
ASSUME OverlayAddresses == IPs \subseteq Nat /\ IsFiniteSet(IPs)
ASSUME StandaloneMachines == Standalone \subseteq Servers
ASSUME MembershipBounds == MaxFaults \in Nat

VARIABLES
    reg,      \* node registry: the entries by ID
    used,     \* IDs already generated
    live,     \* keys of the peers of the running WireGuard interface
    conf,     \* keys of the peers in the durable hub configuration
    machine,  \* per server: its key, its agent's token, its runtime and owner
    pc,       \* per operator, the step it is at
    cur,      \* per operator, the locals of its operation
    told,     \* IDs and keys of operations that left something behind and said
              \* so (a cleanup error, a force-detach), or were killed
    leaving,  \* IDs whose removal has begun
    shared,   \* IDs and keys of nodes on which two operations ran at once
    overlap,  \* whether two operators were ever active together
    faults

vars == <<reg, used, live, conf, machine, pc, cur, told, leaving, shared, overlap, faults>>

Entry == [host : Hosts, ip : IPs, key : Ids, installed : BOOLEAN]
Absent == [host |-> NoId, ip |-> 0, key |-> NoId, installed |-> FALSE]
Registered == {i \in Ids : reg[i] # Absent}

KeysOfAllEntries == {reg[i].key : i \in Ids}

(* The peers a configuration written now would list; entries without a     *)
(* key or an address are skipped.                                          *)
RegKeys == {reg[i].key : i \in Registered}

Local == [id : Ids \cup {NoId}, host : Hosts \cup {NoId}, ip : IPs \cup {0},
          key : Ids \cup {NoId}, touched : BOOLEAN, attempted : BOOLEAN, failed : BOOLEAN,
          list : SUBSET Ids]
Idle == [id |-> NoId, host |-> NoId, ip |-> 0, key |-> NoId,
         touched |-> FALSE, attempted |-> FALSE, failed |-> FALSE, list |-> {}]

(* A machine: its WireGuard key, the token of its running agent, what      *)
(* deployment it has, and the recorded owner of that deployment.           *)
Machine == [key : Ids \cup {NoId}, agent : Ids \cup {NoId},
            runtime : {"none", "own", "standalone"}, owner : Ids \cup {NoId}]
Clean == [key |-> NoId, agent |-> NoId, runtime |-> "none", owner |-> NoId]

AddSteps == {"provision", "register", "setpeer", "load", "write", "health",
             "install", "commit"}
RollbackSteps == {"rbUninstall", "rbPeer", "rbRemove", "rbLoad", "rbWrite", "rbCleanup"}
DetachSteps == {"uninstall", "dtLoad", "dtWrite", "dtPeer", "dtRemove"}
Steps == {"idle", "ovLoad", "ovWrite"} \cup AddSteps \cup RollbackSteps \cup DetachSteps

(* Every operation works on an ID that was generated and a host that was   *)
(* typed, what is reported or leaving was generated, and every variable    *)
(* keeps its type.                                                         *)
TypeOK ==
    /\ reg \in [Ids -> Entry \cup {Absent}]
    /\ used \subseteq Ids
    /\ live \subseteq Ids
    /\ conf \subseteq Ids
    /\ machine \in [Servers -> Machine]
    /\ pc \in [Operators -> Steps]
    /\ cur \in [Operators -> Local]
    /\ \A o \in Operators : pc[o] \in AddSteps \cup RollbackSteps \cup DetachSteps =>
          cur[o].id \in used /\ cur[o].host \in Hosts
    /\ told \subseteq used /\ leaving \subseteq used /\ shared \subseteq used
    /\ overlap \in BOOLEAN
    /\ faults \in 0..MaxFaults

Init ==
    /\ reg = [i \in Ids |-> Absent]
    /\ used = {} /\ live = {} /\ conf = {}
    /\ machine = [s \in Servers |->
                    IF s \in Standalone THEN [Clean EXCEPT !.runtime = "standalone"] ELSE Clean]
    /\ pc = [o \in Operators |-> "idle"]
    /\ cur = [o \in Operators |-> Idle]
    /\ told = {} /\ leaving = {} /\ shared = {}
    /\ overlap = FALSE
    /\ faults = 0

-----------------------------------------------------------------------------
(* Helpers.                                                                *)

Active == {o \in Operators : pc[o] # "idle"}
Target(o) == HostOf[cur[o].host]

(* The ID and the key of an operation that says what it leaves behind.     *)
Names(o) == {cur[o].id, cur[o].key} \ {NoId}

Go(o, step) == pc' = [pc EXCEPT ![o] = step]
End(o) == Go(o, "idle") /\ cur' = [cur EXCEPT ![o] = Idle]
Fault == faults < MaxFaults /\ faults' = faults + 1
Begin(o, step, locals) ==
    /\ pc[o] = "idle"
    /\ Go(o, step)
    /\ cur' = [cur EXCEPT ![o] = locals]
    /\ overlap' = (overlap \/ Active # {})

(* validateUnique: nothing another entry already has.                      *)
ValidateNew(e) ==
    \A i \in Registered : reg[i].host # e.host /\ reg[i].ip # e.ip /\ reg[i].key # e.key

(* AllocateSpokeIP: the lowest address no registered node has.             *)
FreeIPs == IPs \ {reg[i].ip : i \in Registered}

(* The hub reaches a node's agent when the peer is live and the machine    *)
(* still has that peer's key and an agent with that node's token.          *)
Reachable(o) ==
    LET m == machine[Target(o)]
    IN cur[o].key \in live /\ m.key = cur[o].key /\ m.agent = cur[o].id

-----------------------------------------------------------------------------
(* AddNode, up to its commit point.                                        *)

AddNode(o, i, h) ==
    /\ i \notin used
    /\ \A j \in Registered : reg[j].host # h
    /\ FreeIPs # {}
    /\ Begin(o, "provision", [Idle EXCEPT !.id = i, !.host = h, !.ip = Min(FreeIPs)])
    /\ used' = used \cup {i}
    /\ UNCHANGED <<reg, live, conf, machine, told, leaving, shared, faults>>

(* Bootstrapper.Provision: the spoke keeps a key it already has; the token *)
(* and the overlay configuration are overwritten and the agent restarted.  *)
Provisioned(m, i) == [m EXCEPT !.key = IF @ = NoId THEN i ELSE @, !.agent = i]

(* cleanupProvisionedArtifacts: binary, unit, key, configuration and the   *)
(* whole agent state directory, the install owner file included.           *)
CleanedUp(m) == [m EXCEPT !.key = NoId, !.agent = NoId, !.owner = NoId]

Provision(o) ==
    /\ pc[o] = "provision"
    /\ machine' = [machine EXCEPT ![Target(o)] = Provisioned(@, cur[o].id)]
    /\ cur' = [cur EXCEPT ![o].key = machine'[Target(o)].key]
    /\ Go(o, "register")
    /\ UNCHANGED <<reg, used, live, conf, told, leaving, shared, overlap, faults>>

(* Nothing was touched (no connection, or the machine manages spokes); or  *)
(* some step failed and the deferred cleanup ran on the same connection,   *)
(* or failed as well, which is reported.                                   *)
ProvisionFails(o) ==
    /\ pc[o] = "provision"
    /\ Fault
    /\ \/ UNCHANGED <<machine, told>>
       \/ /\ machine' = [machine EXCEPT ![Target(o)] = CleanedUp(@)]
          /\ UNCHANGED told
       \/ /\ machine' = [machine EXCEPT ![Target(o)] = Provisioned(@, cur[o].id)]
          /\ told' = told \cup {cur[o].id}
    /\ End(o)
    /\ UNCHANGED <<reg, used, live, conf, leaving, shared, overlap>>

AddUnchecked(o) ==
    LET e == [host |-> cur[o].host, ip |-> cur[o].ip, key |-> cur[o].key, installed |-> FALSE]
    IN /\ pc[o] = "register"
       /\ reg' = [reg EXCEPT ![cur[o].id] = e]
       /\ cur' = [cur EXCEPT ![o].touched = TRUE]
       /\ Go(o, "setpeer")
       /\ UNCHANGED <<used, live, conf, machine, told, leaving, shared, overlap, faults>>

(* The deferred rollback, which starts with the remote uninstall if the    *)
(* installation had begun.                                                 *)
Rollback(o) == Go(o, IF cur'[o].attempted THEN "rbUninstall" ELSE "rbPeer")

TouchedBeforeAdd(o) ==
    LET e == [host |-> cur[o].host, ip |-> cur[o].ip, key |-> cur[o].key, installed |-> FALSE]
    IN /\ pc[o] = "register"
       /\ cur' = [cur EXCEPT ![o].touched = TRUE]
       /\ IF ValidateNew(e)
            THEN reg' = [reg EXCEPT ![cur[o].id] = e] /\ Go(o, "setpeer")
            ELSE UNCHANGED reg /\ Rollback(o)
       /\ UNCHANGED <<used, live, conf, machine, told, leaving, shared, overlap, faults>>

(* nodes.Add validates again, under the registry lock.                     *)
Add(o) ==
    LET e == [host |-> cur[o].host, ip |-> cur[o].ip, key |-> cur[o].key, installed |-> FALSE]
    IN /\ pc[o] = "register"
       /\ IF ValidateNew(e)
            THEN /\ reg' = [reg EXCEPT ![cur[o].id] = e]
                 /\ cur' = [cur EXCEPT ![o].touched = TRUE]
                 /\ Go(o, "setpeer")
            ELSE /\ UNCHANGED <<reg, cur>>
                 /\ Rollback(o)
       /\ UNCHANGED <<used, live, conf, machine, told, leaving, shared, overlap, faults>>

(* joinOverlay: the live peer, then the registry, then the durable file.   *)
SetPeer(o) ==
    /\ pc[o] = "setpeer"
    /\ live' = live \cup {cur[o].key}
    /\ Go(o, "load")
    /\ UNCHANGED <<reg, used, conf, machine, cur, told, leaving, shared, overlap, faults>>

LoadPeers(o, step, next, keys) ==
    /\ pc[o] = step
    /\ cur' = [cur EXCEPT ![o].list = keys]
    /\ Go(o, next)
    /\ UNCHANGED <<reg, used, live, conf, machine, told, leaving, shared, overlap, faults>>

writeHubConfig(o, step, next) ==
    /\ pc[o] = step
    /\ conf' = cur[o].list
    /\ cur' = [cur EXCEPT ![o].list = {}]
    /\ Go(o, next)
    /\ UNCHANGED <<reg, used, live, machine, told, leaving, shared, overlap, faults>>

JoinLoad(o)  == LoadPeers(o, "load", "write", RegKeys)
JoinWrite(o) == writeHubConfig(o, "write", "health")

(* waitHealthy, and the refusal of a machine that has a deployment.        *)
waitHealthy(o) ==
    /\ pc[o] = "health"
    /\ UNCHANGED cur
    /\ IF Reachable(o) /\ machine[Target(o)].runtime = "none"
         THEN Go(o, "install")
         ELSE Rollback(o)
    /\ UNCHANGED <<reg, used, live, conf, machine, told, leaving, shared, overlap, faults>>

(* The agent's Install: refused on a machine with a deployment, otherwise  *)
(* the owner is recorded before anything is created.                       *)
AgentInstalled(m, i) ==
    IF m.runtime # "none" THEN m ELSE [m EXCEPT !.runtime = "own", !.owner = i]

installNode(o) ==
    /\ pc[o] = "install"
    /\ cur' = [cur EXCEPT ![o].attempted = TRUE]
    /\ IF Reachable(o) /\ machine[Target(o)].runtime = "none"
         THEN /\ machine' = [machine EXCEPT ![Target(o)] = AgentInstalled(@, cur[o].id)]
              /\ Go(o, "commit")
         ELSE UNCHANGED machine /\ Rollback(o)
    /\ UNCHANGED <<reg, used, live, conf, told, leaving, shared, overlap, faults>>

(* The certificate cannot be issued, or the request or its answer is lost: *)
(* nothing, the owner record, or the whole runtime may exist by then.      *)
installNodeFails(o) ==
    /\ pc[o] = "install"
    /\ Fault
    /\ cur' = [cur EXCEPT ![o].attempted = TRUE]
    /\ \/ UNCHANGED machine
       \/ /\ Reachable(o) /\ machine[Target(o)].runtime = "none"
          /\ \/ machine' = [machine EXCEPT ![Target(o)] = AgentInstalled(@, cur[o].id)]
             \/ machine' = [machine EXCEPT ![Target(o)].owner = cur[o].id]
    /\ Rollback(o)
    /\ UNCHANGED <<reg, used, live, conf, told, leaving, shared, overlap>>

(* nodes.Mutate sets Installed; the entry may have been removed meanwhile. *)
Commit(o) ==
    /\ pc[o] = "commit"
    /\ IF cur[o].id \in Registered
         THEN /\ reg' = [reg EXCEPT ![cur[o].id].installed = TRUE]
              /\ End(o)
         ELSE UNCHANGED <<reg, cur>> /\ Rollback(o)
    /\ UNCHANGED <<used, live, conf, machine, told, leaving, shared, overlap, faults>>

(* Any other step before the commit point fails, and nothing is changed.   *)
AddStepFails(o) ==
    /\ pc[o] \in {"register", "setpeer", "load", "write", "health", "commit"}
    /\ Fault
    /\ UNCHANGED cur
    /\ Rollback(o)
    /\ UNCHANGED <<reg, used, live, conf, machine, told, leaving, shared, overlap>>

(* The registry transaction committed but could not drop its backup: the   *)
(* entry is written and the operation is told that it is not.              *)
AddErrorAfterCommit(o) ==
    LET e == [host |-> cur[o].host, ip |-> cur[o].ip, key |-> cur[o].key, installed |-> FALSE]
    IN /\ Fault
       /\ \/ /\ pc[o] = "register"
             /\ ValidateNew(e)
             /\ reg' = [reg EXCEPT ![cur[o].id] = e]
          \/ /\ pc[o] = "commit"
             /\ cur[o].id \in Registered
             /\ reg' = [reg EXCEPT ![cur[o].id].installed = TRUE]
       /\ UNCHANGED cur
       /\ Rollback(o)
       /\ UNCHANGED <<used, live, conf, machine, told, leaving, shared, overlap>>

-----------------------------------------------------------------------------
(* rollbackAdd: every step is tried, errors are collected and returned.    *)

(* Uninstall{KeepOverlay, RollbackTransactionID}: the agent refuses unless *)
(* this transaction is the recorded owner of the deployment.               *)
RollbackUninstall(o) ==
    /\ pc[o] = "rbUninstall"
    /\ Go(o, "rbPeer")
    /\ IF Reachable(o) /\ machine[Target(o)].owner = cur[o].id
         THEN machine' = [machine EXCEPT ![Target(o)].runtime = "none"] /\ UNCHANGED cur
         ELSE UNCHANGED machine /\ cur' = [cur EXCEPT ![o].failed = TRUE]
    /\ UNCHANGED <<reg, used, live, conf, told, leaving, shared, overlap, faults>>

RollbackPeer(o) ==
    /\ pc[o] = "rbPeer"
    /\ live' = IF cur[o].touched THEN live \ {cur[o].key} ELSE live
    /\ Go(o, "rbRemove")
    /\ UNCHANGED <<reg, used, conf, machine, cur, told, leaving, shared, overlap, faults>>

RollbackRemove(o) ==
    /\ pc[o] = "rbRemove"
    /\ reg' = [reg EXCEPT ![cur[o].id] = Absent]
    /\ Go(o, "rbLoad")
    /\ UNCHANGED <<used, live, conf, machine, cur, told, leaving, shared, overlap, faults>>

RollbackLoad(o)  == LoadPeers(o, "rbLoad", "rbWrite", RegKeys)

RollbackSkipsConfig(o) ==
    /\ pc[o] = "rbWrite"
    /\ Go(o, "rbCleanup")
    /\ UNCHANGED <<reg, used, live, conf, machine, cur, told, leaving, shared, overlap, faults>>

RollbackWrite(o) == writeHubConfig(o, "rbWrite", "rbCleanup")

Report(o) == told' = IF cur[o].failed THEN told \cup Names(o) ELSE told

RollbackCleanup(o) ==
    /\ pc[o] = "rbCleanup"
    /\ machine' = [machine EXCEPT ![Target(o)] = CleanedUp(@)]
    /\ Report(o)
    /\ End(o)
    /\ UNCHANGED <<reg, used, live, conf, leaving, shared, overlap, faults>>

(* A step fails: the error is kept and the next step is tried.  When the   *)
(* registry cannot be loaded the configuration is not rewritten.  The      *)
(* registry's Remove may fail after its commit.                            *)
RollbackStepFails(o) ==
    /\ pc[o] \in RollbackSteps
    /\ Fault
    /\ IF pc[o] = "rbCleanup"
         THEN told' = told \cup Names(o) /\ End(o)
         ELSE /\ Go(o, CASE pc[o] = "rbUninstall" -> "rbPeer"
                         [] pc[o] = "rbPeer"      -> "rbRemove"
                         [] pc[o] = "rbRemove"    -> "rbLoad"
                         [] OTHER                 -> "rbCleanup")
              /\ cur' = [cur EXCEPT ![o].failed = TRUE]
              /\ UNCHANGED told
    /\ \/ UNCHANGED reg
       \/ pc[o] = "rbRemove" /\ reg' = [reg EXCEPT ![cur[o].id] = Absent]
    /\ UNCHANGED <<used, live, conf, machine, leaving, shared, overlap>>

-----------------------------------------------------------------------------
(* RemoveNode and ForceDetachNode.                                         *)

Leave(o, i, step) ==
    /\ i \in Registered
    /\ Begin(o, step, [Idle EXCEPT !.id = i, !.host = reg[i].host, !.ip = reg[i].ip,
                                   !.key = reg[i].key])
    /\ leaving' = leaving \cup {i}
    /\ shared' = IF \E p \in Active : cur[p].id = i THEN shared \cup {i, reg[i].key} ELSE shared

RemoveNode(o, i) ==
    /\ Leave(o, i, "uninstall")
    /\ UNCHANGED <<reg, used, live, conf, machine, told, faults>>

ForceDetachNode(o, i) ==
    /\ Leave(o, i, "dtLoad")
    /\ told' = told \cup {i, reg[i].key}
    /\ UNCHANGED <<reg, used, live, conf, machine, faults>>

(* The agent's Uninstall: runtime, agent, token and overlay go.  Without   *)
(* an acknowledgement the registry and the peer are kept for a retry.      *)
Uninstall(o) ==
    /\ pc[o] = "uninstall"
    /\ IF Reachable(o)
         THEN /\ machine' = [machine EXCEPT ![Target(o)] = Clean]
              /\ Go(o, "dtLoad")
              /\ UNCHANGED cur
         ELSE UNCHANGED machine /\ End(o)
    /\ UNCHANGED <<reg, used, live, conf, told, leaving, shared, overlap, faults>>

UninstallFails(o) ==
    /\ pc[o] = "uninstall"
    /\ Fault
    /\ \/ UNCHANGED machine
       \/ Reachable(o) /\ machine' = [machine EXCEPT ![Target(o)] = Clean]
    /\ End(o)
    /\ UNCHANGED <<reg, used, live, conf, told, leaving, shared, overlap>>

(* detachNode: durable configuration, live peer, registry, in this order.  *)
DetachLoad(o) ==
    /\ IF cur[o].id \in Registered
         THEN LoadPeers(o, "dtLoad", "dtWrite", {reg[j].key : j \in Registered \ {cur[o].id}})
         ELSE /\ pc[o] = "dtLoad"
              /\ End(o)
              /\ UNCHANGED <<reg, used, live, conf, machine, told, leaving, shared, overlap, faults>>

DetachWrite(o) == writeHubConfig(o, "dtWrite", "dtPeer")

DetachPeer(o) ==
    /\ pc[o] = "dtPeer"
    /\ live' = live \ {cur[o].key}
    /\ Go(o, "dtRemove")
    /\ UNCHANGED <<reg, used, conf, machine, cur, told, leaving, shared, overlap, faults>>

DetachRemove(o) ==
    /\ pc[o] = "dtRemove"
    /\ reg' = [reg EXCEPT ![cur[o].id] = Absent]
    /\ End(o)
    /\ UNCHANGED <<used, live, conf, machine, told, leaving, shared, overlap, faults>>

DetachPeerErrorIgnored(o) ==
    /\ pc[o] \in {"dtLoad", "dtWrite", "dtPeer", "dtRemove"}
    /\ Fault
    /\ IF pc[o] = "dtPeer" THEN Go(o, "dtRemove") /\ UNCHANGED cur ELSE End(o)
    /\ UNCHANGED <<reg, used, live, conf, machine, told, leaving, shared, overlap>>

(* A failed step ends the detach with the registry entry retained, unless  *)
(* it is Remove that fails after its commit.                               *)
DetachStepFails(o) ==
    /\ pc[o] \in {"dtLoad", "dtWrite", "dtPeer", "dtRemove"}
    /\ Fault
    /\ End(o)
    /\ \/ UNCHANGED reg
       \/ pc[o] = "dtRemove" /\ reg' = [reg EXCEPT ![cur[o].id] = Absent]
    /\ UNCHANGED <<used, live, conf, machine, told, leaving, shared, overlap>>

-----------------------------------------------------------------------------
(* EnsureOverlay rewrites the configuration from the registry and starts   *)
(* the interface from it; wg-quick leaves a running interface alone.       *)

EnsureOverlay(o) ==
    /\ Begin(o, "ovLoad", Idle)
    /\ UNCHANGED <<reg, used, live, conf, machine, told, leaving, shared, faults>>

OverlayLoad(o)  == LoadPeers(o, "ovLoad", "ovWrite", RegKeys)

OverlayWrite(o) ==
    /\ pc[o] = "ovWrite"
    /\ conf' = cur[o].list
    /\ End(o)
    /\ UNCHANGED <<reg, used, live, machine, told, leaving, shared, overlap, faults>>

(* An operator process is killed: no deferred function runs.               *)
Crash(o) ==
    /\ pc[o] # "idle"
    /\ Fault
    /\ told' = told \cup Names(o)
    /\ End(o)
    /\ UNCHANGED <<reg, used, live, conf, machine, leaving, shared, overlap>>

-----------------------------------------------------------------------------
Adding(o) ==
    \/ \E i \in Ids, h \in Hosts : AddNode(o, i, h)
    \/ Provision(o) \/ ProvisionFails(o) \/ Add(o) \/ SetPeer(o)
    \/ JoinLoad(o) \/ JoinWrite(o) \/ waitHealthy(o)
    \/ installNode(o) \/ installNodeFails(o) \/ Commit(o) \/ AddStepFails(o)
    \/ AddErrorAfterCommit(o)

RollingBack(o) ==
    \/ RollbackUninstall(o) \/ RollbackPeer(o) \/ RollbackRemove(o) \/ RollbackLoad(o)
    \/ RollbackWrite(o) \/ RollbackCleanup(o) \/ RollbackStepFails(o)

Removing(o) ==
    \/ \E i \in Ids : RemoveNode(o, i) \/ ForceDetachNode(o, i)
    \/ Uninstall(o) \/ UninstallFails(o)
    \/ DetachLoad(o) \/ DetachWrite(o) \/ DetachPeer(o) \/ DetachRemove(o)
    \/ DetachStepFails(o)

Overlay(o) == EnsureOverlay(o) \/ OverlayLoad(o) \/ OverlayWrite(o)

Next == \E o \in Operators :
            Adding(o) \/ RollingBack(o) \/ Removing(o) \/ Overlay(o) \/ Crash(o)

Spec == Init /\ [][Next]_vars

-----------------------------------------------------------------------------
(* Properties.                                                             *)

InFlight == {cur[o].id : o \in Active} \cup {cur[o].key : o \in Active}
AllIdle == Active = {}

(* validateUnique under the registry lock: whatever two operators read     *)
(* before they wrote, no two nodes share an SSH host, an overlay address   *)
(* or a WireGuard key.                                                     *)
RegistryUnique ==
    \A i, j \in Registered : i # j =>
        reg[i].host # reg[j].host /\ reg[i].ip # reg[j].ip /\ reg[i].key # reg[j].key

(* SetPeer, RemovePeer: a node whose AddNode succeeded keeps its live peer *)
(* until its own removal begins, although the adds, rollbacks and removals *)
(* of other operators overlap with it freely.  The exception is a key that *)
(* belonged to a node on which two operations were at work at once: the    *)
(* slower one still removes the peer of that key when the machine, which   *)
(* kept it, has been added again.                                          *)
CommittedNodeKeepsPeer ==
    \A i \in Registered \ (leaving \cup InFlight \cup told) :
        reg[i].installed /\ reg[i].key \notin shared => reg[i].key \in live

(* ... and its machine keeps the agent, key and token the hub knows.       *)
CommittedNodeManageable ==
    \A i \in Registered \ (leaving \cup InFlight \cup told) : reg[i].installed =>
        LET m == machine[HostOf[reg[i].host]]
        IN m.agent = i /\ m.key = reg[i].key /\ m.runtime = "own"

(* AddNode's rollback and RemoveNode leave nothing behind in silence: a    *)
(* peer, an agent or a runtime of a node that is not registered belongs to *)
(* an operation that is still running, that reported what it left, or that *)
(* was killed.  Operators overlap freely, on one node too.                 *)
Remains(i) ==
    \/ i \in live
    \/ \E s \in Servers : \/ machine[s].agent = i
                          \/ machine[s].owner = i /\ machine[s].runtime = "own"

NothingLeftSilently ==
    \A i \in used : Remains(i) => i \in Registered \cup RegKeys \cup InFlight \cup told

(* rollbackAdd: "Render from the current registry after removing only this *)
(* transaction's node.  This preserves any unrelated node committed        *)
(* concurrently": its rewrite of the durable configuration drops the peer  *)
(* of no node that is committed and not being removed.                     *)
RollbackKeepsCommittedPeers ==
    [][\A o \in Operators : pc[o] = "rbWrite" /\ pc'[o] = "rbCleanup" =>
          \A i \in Registered \ leaving :
              reg[i].installed /\ reg[i].key \in conf => reg[i].key \in conf']_vars

(* Once nobody is working, the durable configuration lists the registered  *)
(* peers, if no step failed and operators did not overlap.                 *)
DurableConfigCurrent ==
    AllIdle /\ faults = 0 /\ ~overlap => conf = RegKeys \/ used = {}
=============================================================================
