---------------------------- MODULE AgentHandler ----------------------------
(***************************************************************************)
(* The spoke agent's mutating operations (cmd/singbox-deploy-agent):       *)
(* Install, Uninstall with its control-plane teardown and recovery, and    *)
(* Upgrade with its backup and recovery, behind one mutation gate.  Every  *)
(* request runs in a goroutine of its own; any step may fail, the request  *)
(* may be cancelled while it waits, and the process may die and be started *)
(* again by systemd.  A scheduled restart or stop comes later, on its own. *)
(***************************************************************************)
EXTENDS Naturals, FiniteSets

CONSTANTS
    Requests,      \* concurrent requests
    Transactions,  \* AddNode transactions of the hub
    MaxVersion,    \* agent versions are 1..MaxVersion; 0 is no executable
    None,
    MaxFaults      \* bound on failures and crashes

ASSUME NoneIsNoRequest == None \notin Requests \cup Transactions
ASSUME AgentBounds == MaxVersion \in Nat \ {0} /\ MaxFaults \in Nat

VARIABLES
    up,              \* version of the running agent, 0 when it is down
    gate,            \* the request that holds the mutation gate
    restartPending, shutdownPending, pendingRestore,   \* memory of the agent
    exe, backup,     \* versions of the executable and of its backup
    host,            \* the rest of the machine
    restartTimer, stopTimer,
    pc, cur,
    accepted,        \* version an acknowledged upgrade promised, until it runs
    gone,            \* the scheduled stop has happened
    crashed,         \* the agent has died, or was restarted, during a mutation
    unrepaired,      \* a recovery has failed, and said so
    faults

memory == <<gate, restartPending, shutdownPending, pendingRestore>>
disk == <<exe, backup, host>>
timers == <<restartTimer, stopTimer>>
ghosts == <<accepted, gone, crashed, unrepaired>>
vars == <<up, memory, disk, timers, pc, cur, ghosts, faults>>

(* Unit and overlay files, enabled units, the disabled-units marker, the   *)
(* agent's state directory with its token, the install owner in it, the    *)
(* firewall rule that admits the hub, and the proxy runtime.               *)
Host == [files : BOOLEAN, enabled : BOOLEAN, marker : BOOLEAN, state : BOOLEAN,
         owner : Transactions \cup {None}, fw : BOOLEAN, runtime : {"none", "partial", "own"}]
Provisioned == [files |-> TRUE, enabled |-> TRUE, marker |-> FALSE, state |-> TRUE,
                owner |-> None, fw |-> TRUE, runtime |-> "none"]

Versions == 0..MaxVersion
Idle == [op |-> "none", tx |-> None, ver |-> 0, exe |-> 0, backup |-> 0,
         host |-> Provisioned, restoreFirewall |-> FALSE]
InstallSteps == {"install", "deploy"}
UninstallSteps == {"authorize", "runtime", "snapshot", "disable", "mark", "remove",
                   "state", "firewall", "restore", "finish"}
UpgradeSteps == {"recover", "backup", "swap", "schedule", "unswap"}
Working == InstallSteps \cup UninstallSteps \cup UpgradeSteps

Ops == {"install", "rollback", "uninstall", "upgrade"}
Local == [op : Ops \cup {"none"}, tx : Transactions \cup {None}, ver : Versions,
          exe : Versions, backup : Versions, host : Host, restoreFirewall : BOOLEAN]

(* A request is past the gate exactly while it holds it, and every         *)
(* variable keeps its type.                                                *)
TypeOK ==
    /\ up \in Versions /\ exe \in Versions /\ backup \in Versions /\ accepted \in Versions
    /\ gate \in Requests \cup {None}
    /\ restartPending \in BOOLEAN /\ shutdownPending \in BOOLEAN /\ pendingRestore \in BOOLEAN
    /\ restartTimer \in BOOLEAN /\ stopTimer \in BOOLEAN
    /\ gone \in BOOLEAN /\ crashed \in BOOLEAN /\ unrepaired \in BOOLEAN
    /\ host \in Host
    /\ pc \in [Requests -> {"idle", "gate"} \cup Working]
    /\ cur \in [Requests -> Local]
    /\ \A r \in Requests : pc[r] \in Working <=> gate = r
    /\ faults \in 0..MaxFaults

Init ==
    /\ up = 1 /\ exe = 1 /\ backup = 0
    /\ gate = None
    /\ restartPending = FALSE /\ shutdownPending = FALSE /\ pendingRestore = FALSE
    /\ host = Provisioned
    /\ restartTimer = FALSE /\ stopTimer = FALSE
    /\ pc = [r \in Requests |-> "idle"]
    /\ cur = [r \in Requests |-> Idle]
    /\ accepted = 0 /\ gone = FALSE /\ crashed = FALSE /\ unrepaired = FALSE
    /\ faults = 0

-----------------------------------------------------------------------------
(* Helpers.                                                                *)

Go(r, step) == pc' = [pc EXCEPT ![r] = step]
Fault == faults < MaxFaults /\ faults' = faults + 1
First(op) == CASE op = "install" -> "install" [] op = "rollback" -> "authorize"
               [] op = "uninstall" -> "runtime" [] OTHER -> "recover"

(* endMutation, with the answer to the hub.                                *)
Done(r) ==
    /\ Go(r, "idle")
    /\ cur' = [cur EXCEPT ![r] = Idle]
    /\ gate' = None

-----------------------------------------------------------------------------
(* A request of the hub arrives over the overlay, and waits for the gate.  *)

Request(r, op, t, v) ==
    /\ up # 0 /\ host.fw
    /\ pc[r] = "idle"
    /\ Go(r, "gate")
    /\ cur' = [cur EXCEPT ![r] = [Idle EXCEPT !.op = op, !.tx = t, !.ver = v]]
    /\ UNCHANGED <<up, memory, disk, timers, ghosts, faults>>

(* The gate is taken, or given back at once.                               *)
Enter(r) == gate' = r /\ Go(r, First(cur[r].op)) /\ UNCHANGED cur
Refuse(r) == Done(r)

BeginIgnoringShutdown(r) ==
    /\ pc[r] = "gate"
    /\ gate = None
    /\ IF restartPending THEN Refuse(r) ELSE Enter(r)
    /\ UNCHANGED <<up, restartPending, shutdownPending, pendingRestore, disk, timers, ghosts, faults>>

(* beginMutation: one mutation at a time, and none once an upgrade or an   *)
(* uninstall has committed.                                                *)
beginMutation(r) ==
    /\ pc[r] = "gate"
    /\ gate = None
    /\ IF restartPending \/ shutdownPending THEN Refuse(r) ELSE Enter(r)
    /\ UNCHANGED <<up, restartPending, shutdownPending, pendingRestore, disk, timers, ghosts, faults>>

Cancel(r) ==
    /\ pc[r] = "gate"
    /\ Go(r, "idle")
    /\ cur' = [cur EXCEPT ![r] = Idle]
    /\ UNCHANGED <<up, memory, disk, timers, ghosts, faults>>

kept == <<restartPending, shutdownPending, pendingRestore>>

-----------------------------------------------------------------------------
(* Install: refused over a deployment; the owner is recorded first.        *)

Install(r) ==
    /\ pc[r] = "install"
    /\ IF host.runtime = "none"
         THEN /\ host' = [host EXCEPT !.owner = cur[r].tx]
              /\ Go(r, "deploy") /\ UNCHANGED <<cur, gate>>
         ELSE UNCHANGED host /\ Done(r)
    /\ UNCHANGED <<up, kept, exe, backup, timers, ghosts, faults>>

Deploy(r) ==
    /\ pc[r] = "deploy"
    /\ host' = [host EXCEPT !.runtime = "own"]
    /\ Done(r)
    /\ UNCHANGED <<up, kept, exe, backup, timers, ghosts, faults>>

DeployFails(r) ==
    /\ pc[r] = "deploy"
    /\ Fault
    /\ \E left \in {"none", "partial", "own"} : host' = [host EXCEPT !.runtime = left]
    /\ Done(r)
    /\ UNCHANGED <<up, kept, exe, backup, timers, ghosts>>

-----------------------------------------------------------------------------
(* Uninstall: the runtime, then (unless the overlay is kept) the agent.    *)

authorizeRollbackUninstall(r) ==
    /\ pc[r] = "authorize"
    /\ IF host.state /\ host.owner = cur[r].tx
         THEN Go(r, "runtime") /\ UNCHANGED <<cur, gate>>
         ELSE Done(r)
    /\ UNCHANGED <<up, kept, disk, timers, ghosts, faults>>

UninstallRuntime(r) ==
    /\ pc[r] = "runtime"
    /\ host' = [host EXCEPT !.runtime = "none"]
    /\ Go(r, IF cur[r].op = "rollback" THEN "finish" ELSE "snapshot")
    /\ UNCHANGED <<up, memory, exe, backup, timers, cur, ghosts, faults>>

UninstallRuntimeFails(r) ==
    /\ pc[r] = "runtime"
    /\ Fault
    /\ \/ UNCHANGED host
       \/ host' = [host EXCEPT !.runtime = IF @ = "none" THEN @ ELSE "partial"]
    /\ Done(r)
    /\ UNCHANGED <<up, kept, exe, backup, timers, ghosts>>

(* prepareAgentAndOverlayTeardown, from its snapshots to the firewall.     *)
Snapshot(r) ==
    /\ pc[r] = "snapshot"
    /\ cur' = [cur EXCEPT ![r].exe = exe, ![r].backup = backup, ![r].host = host]
    /\ Go(r, IF host.marker THEN "remove" ELSE "disable")
    /\ UNCHANGED <<up, memory, disk, timers, ghosts, faults>>

(* The path is refused or a snapshot cannot be taken: nothing is changed.  *)
SnapshotFails(r) ==
    /\ pc[r] = "snapshot"
    /\ Fault
    /\ Done(r)
    /\ UNCHANGED <<up, kept, disk, timers, ghosts>>

Teardown(r, step, next, left) ==
    /\ pc[r] = step
    /\ host' = left
    /\ Go(r, next)
    /\ UNCHANGED <<up, memory, timers, cur, ghosts, faults>>

DisableUnits(r) ==
    /\ Teardown(r, "disable", "mark", [host EXCEPT !.enabled = FALSE])
    /\ UNCHANGED <<exe, backup>>
MarkDisabled(r) ==
    /\ Teardown(r, "mark", "remove", [host EXCEPT !.marker = TRUE])
    /\ UNCHANGED <<exe, backup>>
RemoveFiles(r) ==
    /\ Teardown(r, "remove", "state", [host EXCEPT !.files = FALSE])
    /\ exe' = 0 /\ backup' = 0
RemoveState(r) ==
    /\ Teardown(r, "state", "firewall",
                [host EXCEPT !.state = FALSE, !.owner = None, !.marker = FALSE])
    /\ UNCHANGED <<exe, backup>>
CloseFirewall(r) ==
    /\ Teardown(r, "firewall", "finish", [host EXCEPT !.fw = FALSE])
    /\ UNCHANGED <<exe, backup>>

(* A step fails half way: what it had done by then, or nothing.            *)
HalfDone(r) ==
    CASE pc[r] = "disable"  -> [host EXCEPT !.enabled = FALSE]
      [] pc[r] = "remove"   -> [host EXCEPT !.files = FALSE]
      [] pc[r] = "state"    -> [host EXCEPT !.state = FALSE, !.owner = None, !.marker = FALSE]
      [] pc[r] = "firewall" -> [host EXCEPT !.fw = FALSE]
      [] OTHER              -> host

TeardownFailsLate(r) ==
    /\ pc[r] \in {"disable", "mark", "remove", "state", "firewall"}
    /\ Fault
    /\ host' \in {host, HalfDone(r)}
    /\ exe' \in IF pc[r] = "remove" THEN {exe, 0} ELSE {exe}
    /\ UNCHANGED cur
    /\ Go(r, "restore")
    /\ UNCHANGED <<up, memory, backup, timers, ghosts>>

TeardownFails(r) ==
    /\ pc[r] \in {"disable", "mark", "remove", "state", "firewall"}
    /\ Fault
    /\ host' \in {host, HalfDone(r)}
    /\ exe' \in IF pc[r] = "remove" THEN {exe, 0} ELSE {exe}
    /\ backup' \in IF pc[r] = "remove" /\ exe' = 0 THEN {backup, 0} ELSE {backup}
    /\ cur' = [cur EXCEPT ![r].restoreFirewall = (pc[r] = "firewall")]
    /\ Go(r, "restore")
    /\ UNCHANGED <<up, memory, timers, ghosts>>

(* restoreAgentControlPlane: firewall, state, files, units, marker; every  *)
(* part is tried, whatever the ones before it did.                         *)
Restored(r, parts) ==
    LET was == cur[r].host
        st  == IF "state" \in parts THEN was.state ELSE FALSE
    IN [host EXCEPT !.fw = IF cur[r].restoreFirewall /\ "fw" \in parts THEN TRUE ELSE @,
                    !.state = st, !.owner = IF st THEN was.owner ELSE None,
                    !.files = IF "files" \in parts THEN was.files ELSE @,
                    !.enabled = IF "units" \in parts THEN TRUE ELSE @,
                    !.marker = FALSE]
Parts == {"fw", "state", "files", "units"}

restoreAgentControlPlane(r) ==
    /\ pc[r] = "restore"
    /\ host' = Restored(r, Parts)
    /\ exe' = cur[r].exe /\ backup' = cur[r].backup
    /\ Done(r)
    /\ UNCHANGED <<up, kept, timers, ghosts, faults>>

RestoreFails(r) ==
    /\ pc[r] = "restore"
    /\ Fault
    /\ \E lost \in Parts :
          /\ host' = Restored(r, Parts \ {lost})
          /\ IF lost = "files" THEN UNCHANGED <<exe, backup>>
                               ELSE exe' = cur[r].exe /\ backup' = cur[r].backup
    /\ unrepaired' = TRUE
    /\ Done(r)
    /\ UNCHANGED <<up, kept, timers, accepted, gone, crashed>>

(* The answer; a full uninstall schedules the end of the process.          *)
FinishUninstall(r) ==
    /\ pc[r] = "finish"
    /\ shutdownPending' = TRUE
    /\ stopTimer' = (cur[r].op = "uninstall")
    /\ Done(r)
    /\ UNCHANGED <<up, restartPending, pendingRestore, disk, restartTimer, ghosts, faults>>

-----------------------------------------------------------------------------
(* Upgrade: a recovery left over from before, the backup, the rename and   *)
(* the scheduled restart.                                                  *)

RecoverUpgrade(r) ==
    /\ pc[r] = "recover"
    /\ IF pendingRestore
         THEN exe' = backup /\ backup' = 0 /\ pendingRestore' = FALSE
         ELSE UNCHANGED <<exe, backup, pendingRestore>>
    /\ Go(r, "backup")
    /\ UNCHANGED <<up, gate, restartPending, shutdownPending, host, timers, cur, ghosts, faults>>

RecoverUpgradeFails(r) ==
    /\ pc[r] = "recover"
    /\ pendingRestore
    /\ Fault
    /\ exe' \in {exe, backup}
    /\ Done(r)
    /\ UNCHANGED <<up, kept, backup, host, timers, ghosts>>

(* copyAgentFileAtomic, once the candidate is staged and verified.         *)
BackUpAgent(r) ==
    /\ pc[r] = "backup"
    /\ exe # 0
    /\ backup' = exe
    /\ Go(r, "swap")
    /\ UNCHANGED <<up, memory, exe, host, timers, cur, ghosts, faults>>

(* The candidate is refused, or there is nothing to back up.               *)
RefuseUpgrade(r) ==
    /\ pc[r] = "backup"
    /\ Done(r)
    /\ UNCHANGED <<up, kept, disk, timers, ghosts, faults>>

SwapAgent(r) ==
    /\ pc[r] = "swap"
    /\ exe' = cur[r].ver
    /\ Go(r, "schedule")
    /\ UNCHANGED <<up, memory, backup, host, timers, cur, ghosts, faults>>

SwapFails(r) ==
    /\ pc[r] = "swap"
    /\ Fault
    /\ backup' \in {0, backup}
    /\ Done(r)
    /\ UNCHANGED <<up, kept, exe, host, timers, ghosts>>

AcceptedWithoutRestart(r) ==
    /\ pc[r] = "schedule"
    /\ restartPending' = TRUE
    /\ accepted' = cur[r].ver
    /\ Done(r)
    /\ UNCHANGED <<up, shutdownPending, pendingRestore, disk, timers, gone, crashed, unrepaired, faults>>

scheduleAgentRestart(r) ==
    /\ pc[r] = "schedule"
    /\ restartTimer' = TRUE
    /\ restartPending' = TRUE
    /\ accepted' = cur[r].ver
    /\ Done(r)
    /\ UNCHANGED <<up, shutdownPending, pendingRestore, disk, stopTimer, gone, crashed, unrepaired, faults>>

ScheduleFailsNoRestore(r) ==
    /\ pc[r] = "schedule"
    /\ Fault
    /\ Done(r)
    /\ UNCHANGED <<up, kept, disk, timers, ghosts>>

(* systemd-run fails, with or without having queued the restart.           *)
ScheduleFails(r) ==
    /\ pc[r] = "schedule"
    /\ Fault
    /\ restartTimer' \in {TRUE, restartTimer}
    /\ Go(r, "unswap")
    /\ UNCHANGED <<up, memory, disk, stopTimer, cur, ghosts>>

restoreAgentReplacement(r) ==
    /\ pc[r] = "unswap"
    /\ exe' = backup /\ backup' = 0
    /\ Done(r)
    /\ UNCHANGED <<up, kept, host, timers, ghosts, faults>>

(* The restore fails, before or after it renamed; the next upgrade tries   *)
(* it again.                                                               *)
RestoreReplacementFails(r) ==
    /\ pc[r] = "unswap"
    /\ Fault
    /\ exe' \in {exe, backup}
    /\ pendingRestore' = TRUE
    /\ Done(r)
    /\ UNCHANGED <<up, restartPending, shutdownPending, backup, host, timers, ghosts>>

-----------------------------------------------------------------------------
(* The process ends, and systemd may start what is on disk.                *)

ProcessEnds ==
    /\ gate' = None
    /\ restartPending' = FALSE /\ shutdownPending' = FALSE /\ pendingRestore' = FALSE
    /\ pc' = [r \in Requests |-> "idle"]
    /\ cur' = [r \in Requests |-> Idle]

StartFromDisk ==
    /\ up' = IF host.files /\ host.state THEN exe ELSE 0
    /\ accepted' = IF up' = accepted THEN 0 ELSE accepted

RestartFires ==
    /\ restartTimer
    /\ restartTimer' = FALSE
    /\ stopTimer' = FALSE
    /\ crashed' = (crashed \/ gate # None)
    /\ ProcessEnds
    /\ StartFromDisk
    /\ UNCHANGED <<disk, gone, unrepaired, faults>>

StopFires ==
    /\ stopTimer
    /\ stopTimer' = FALSE
    /\ ProcessEnds
    /\ up' = 0
    /\ gone' = TRUE
    /\ UNCHANGED <<disk, restartTimer, accepted, crashed, unrepaired, faults>>

Crash ==
    /\ up # 0
    /\ Fault
    /\ crashed' = (crashed \/ gate # None)
    /\ stopTimer' = FALSE
    /\ ProcessEnds
    /\ StartFromDisk
    /\ UNCHANGED <<disk, restartTimer, gone, unrepaired>>

-----------------------------------------------------------------------------
Arrive(r) ==
    \/ \E t \in Transactions : Request(r, "install", t, 0) \/ Request(r, "rollback", t, 0)
    \/ Request(r, "uninstall", None, 0)
    \/ \E v \in 1..MaxVersion : v # up /\ Request(r, "upgrade", None, v)

Handle(r) ==
    \/ beginMutation(r) \/ Cancel(r)
    \/ Install(r) \/ Deploy(r) \/ DeployFails(r)
    \/ authorizeRollbackUninstall(r) \/ UninstallRuntime(r) \/ UninstallRuntimeFails(r)
    \/ Snapshot(r) \/ SnapshotFails(r) \/ DisableUnits(r) \/ MarkDisabled(r) \/ RemoveFiles(r)
    \/ RemoveState(r) \/ CloseFirewall(r) \/ TeardownFails(r)
    \/ restoreAgentControlPlane(r) \/ RestoreFails(r) \/ FinishUninstall(r)
    \/ RecoverUpgrade(r) \/ RecoverUpgradeFails(r) \/ BackUpAgent(r) \/ RefuseUpgrade(r)
    \/ SwapAgent(r) \/ SwapFails(r) \/ scheduleAgentRestart(r) \/ ScheduleFails(r)
    \/ restoreAgentReplacement(r) \/ RestoreReplacementFails(r)

Next ==
    \/ \E r \in Requests : Arrive(r) \/ Handle(r)
    \/ RestartFires \/ StopFires \/ Crash

Spec == Init /\ [][Next]_vars

(* systemd fires the timers it holds.                                      *)
FairSpec == Spec /\ WF_vars(RestartFires)

-----------------------------------------------------------------------------
(* Properties.                                                             *)

(* Uninstall: once it has been acknowledged nothing is left, and nothing   *)
(* comes back while the process waits for its end, whatever other requests *)
(* were queued behind it.                                                  *)
UninstallIsComplete ==
    stopTimer \/ gone =>
        /\ exe = 0 /\ backup = 0
        /\ ~host.files /\ ~host.state /\ ~host.fw
        /\ host.runtime = "none" /\ ~host.enabled

(* "Until every other durable cleanup step succeeds, the Hub must remain   *)
(* able to retry": whenever no mutation runs and none has committed, the   *)
(* agent still has its token and its firewall rule, and if it never died,  *)
(* its files and enabled units.                                            *)
HubCanRetry ==
    up # 0 /\ gate = None /\ ~shutdownPending /\ ~unrepaired =>
        /\ host.fw /\ host.state
        /\ crashed \/ (host.enabled /\ host.files /\ exe # 0)

(* Upgrade: unless it was acknowledged, or its recovery is still owed, the *)
(* executable on disk is the one that runs.                                *)
FailedUpgradeUndone ==
    up # 0 /\ gate = None /\ ~restartPending /\ ~pendingRestore /\ ~shutdownPending
        /\ ~unrepaired => exe = up

(* An acknowledged upgrade runs: the agent comes back as that version.     *)
AcceptedUpgradeRuns ==
    \A v \in 1..MaxVersion : (accepted = v /\ ~unrepaired) ~> (up = v)
=============================================================================
