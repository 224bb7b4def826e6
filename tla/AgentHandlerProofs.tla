------------------------- MODULE AgentHandlerProofs -------------------------
(***************************************************************************)
(* The safety of the spoke agent's mutations for every number of           *)
(* concurrent requests, transactions, versions and faults.                 *)
(***************************************************************************)
EXTENDS AgentHandler, TLAPS

(* Which operation is at which step.                                       *)
StepInv ==
    \A r \in Requests :
        /\ pc[r] \in InstallSteps => cur[r].op = "install"
        /\ pc[r] = "authorize" => cur[r].op = "rollback"
        /\ pc[r] \in {"runtime", "finish"} => cur[r].op \in {"rollback", "uninstall"}
        /\ pc[r] \in {"snapshot", "disable", "mark", "remove", "state", "firewall", "restore"} =>
              cur[r].op = "uninstall"
        /\ pc[r] \in UpgradeSteps => cur[r].op = "upgrade"
        /\ pc[r] = "gate" => cur[r].op \in Ops
        /\ cur[r].op = "upgrade" => cur[r].ver # 0

(* Once something has committed nothing runs; a process that is down has   *)
(* nothing on disk that could start, and no requests.                      *)
GateInv ==
    /\ restartPending \/ shutdownPending => gate = None
    /\ stopTimer => shutdownPending
    /\ up = 0 => /\ \A r \in Requests : pc[r] = "idle"
                 /\ ~restartPending /\ ~shutdownPending
                 /\ ~(host.files /\ host.state /\ exe # 0)

Uninstalled ==
    /\ exe = 0 /\ backup = 0
    /\ ~host.files /\ ~host.state /\ ~host.fw
    /\ host.runtime = "none"
    /\ ~host.enabled

(* What an uninstall has removed by the time it is at a step.              *)
TeardownInv ==
    /\ host.marker => ~host.enabled
    /\ \A r \in Requests :
        /\ pc[r] \in UninstallSteps \ {"authorize", "runtime"} => host.runtime = "none"
        /\ pc[r] \in {"mark", "remove", "state", "firewall"} => ~host.enabled
        /\ pc[r] \in {"state", "firewall"} => exe = 0 /\ backup = 0 /\ ~host.files
        /\ pc[r] = "firewall" => ~host.state
        /\ pc[r] = "finish" /\ cur[r].op = "uninstall" => Uninstalled
    /\ stopTimer => Uninstalled
    /\ gone => Uninstalled /\ up = 0

(* What the hub needs for a retry, and the upgrade that is owed.           *)
Intact ==
    /\ host.fw /\ host.state
    /\ crashed \/ (host.enabled /\ host.files /\ exe # 0)
Upgradable == IF pendingRestore THEN backup = up ELSE exe = up

(* What is still there at each step of a mutation, or, after a step failed,*)
(* in the snapshot that the recovery puts back.                            *)
RetryInv ==
    ~unrepaired =>
        /\ host.state => host.fw
        /\ up # 0 /\ gate = None /\ ~stopTimer => Intact
        /\ up # 0 /\ gate = None /\ ~restartPending /\ ~shutdownPending => Upgradable
        /\ \A r \in Requests :
            /\ pc[r] \in Working \ {"mark", "remove", "state", "firewall", "restore", "finish"} => Intact
            /\ pc[r] = "finish" /\ cur[r].op = "rollback" => Intact
            /\ pc[r] = "mark" => /\ host.fw /\ host.state
                                 /\ crashed \/ (host.files /\ exe # 0)
            /\ pc[r] \in {"remove", "state"} => host.fw /\ host.state
            /\ pc[r] = "firewall" => host.fw
            /\ pc[r] \in {"disable", "mark", "remove", "state", "firewall", "restore"} =>
                 /\ cur[r].host.fw /\ cur[r].host.state
                 /\ crashed \/ (cur[r].host.files /\ cur[r].exe # 0)
                 /\ IF pendingRestore THEN cur[r].backup = up ELSE cur[r].exe = up
            /\ pc[r] = "restore" => host.fw \/ cur[r].restoreFirewall
            /\ pc[r] \in InstallSteps \cup {"authorize", "runtime", "snapshot", "disable", "mark", "recover"} =>
                 Upgradable
            /\ pc[r] \in {"backup", "swap"} => ~pendingRestore /\ exe = up
            /\ pc[r] \in {"swap", "schedule", "unswap"} => ~pendingRestore /\ backup = up
            /\ pc[r] = "schedule" => exe # 0

IInv == TypeOK /\ StepInv /\ GateInv /\ TeardownInv /\ RetryInv

-----------------------------------------------------------------------------
(* A request that arrives is one of the four operations; only an upgrade   *)
(* names a version, and never version zero.                                *)
LEMMA ArriveRequests ==
    ASSUME NEW r \in Requests, Arrive(r)
    PROVE  \E op \in Ops, t \in Transactions \cup {None}, v \in Versions :
              (op = "upgrade" => v # 0) /\ Request(r, op, t, v)
    BY AgentBounds DEF Arrive, Ops, Versions

(* The steps of a mutation, and the two outside of the gate.               *)
LEMMA StepNames ==
    /\ InstallSteps \cup UninstallSteps \cup UpgradeSteps = Working
    /\ {"install", "deploy", "authorize", "runtime", "snapshot", "disable", "mark", "remove",
        "state", "firewall", "restore", "finish", "recover", "backup", "swap", "schedule",
        "unswap"} = Working
    /\ "idle" \notin Working /\ "gate" \notin Working
    BY DEF Working, InstallSteps, UninstallSteps, UpgradeSteps

(* The first step of an operation is one of its steps.                     *)
LEMMA FirstStep ==
    ASSUME NEW op \in Ops
    PROVE  /\ First(op) \in Working \cap {"install", "authorize", "runtime", "recover"}
           /\ First(op) = "install" => op = "install"
           /\ First(op) = "authorize" => op = "rollback"
           /\ First(op) = "runtime" => op = "uninstall"
           /\ First(op) = "recover" => op = "upgrade"
    BY StepNames DEF Ops, First

(* The locals of an idle request are locals.                               *)
LEMMA IdleIsLocal == Idle \in Local /\ Provisioned \in Host /\ 0 \in Versions
    BY AgentBounds DEF Idle, Local, Ops, Versions, Provisioned, Host

(* What the teardown and its recovery leave of a machine is a machine.     *)
LEMMA HostTypes ==
    ASSUME TypeOK, NEW r \in Requests
    PROVE  /\ HalfDone(r) \in Host
           /\ \A parts : Restored(r, parts) \in Host
           /\ cur[r].exe \in Versions /\ cur[r].backup \in Versions /\ cur[r].ver \in Versions
<1>1. cur[r] \in Local /\ cur[r].host \in Host /\ host \in Host
    BY DEF TypeOK, Local
<1>2. HalfDone(r) \in Host
    BY ZenonT(60), <1>1 DEF HalfDone, Host
<1>3. ASSUME NEW parts PROVE Restored(r, parts) \in Host
    <2>1. /\ cur[r].host.state \in BOOLEAN /\ cur[r].host.files \in BOOLEAN
          /\ cur[r].host.owner \in Transactions \cup {None}
          /\ host.fw \in BOOLEAN /\ host.files \in BOOLEAN /\ host.enabled \in BOOLEAN
        BY <1>1 DEF Host
    <2>2. \A f, s, l, e \in BOOLEAN, o \in Transactions \cup {None} :
             [host EXCEPT !.fw = f, !.state = s, !.owner = o, !.files = l, !.enabled = e,
                          !.marker = FALSE] \in Host
        BY <1>1 DEF Host
    <2>3. (IF cur[r].restoreFirewall /\ "fw" \in parts THEN TRUE ELSE host.fw) \in BOOLEAN
        BY <2>1
    <2>4. (IF "state" \in parts THEN cur[r].host.state ELSE FALSE) \in BOOLEAN
        BY <2>1
    <2>5. (IF IF "state" \in parts THEN cur[r].host.state ELSE FALSE
             THEN cur[r].host.owner ELSE None) \in Transactions \cup {None}
        BY <2>1
    <2>6. (IF "files" \in parts THEN cur[r].host.files ELSE host.files) \in BOOLEAN
        BY <2>1
    <2>7. (IF "units" \in parts THEN TRUE ELSE host.enabled) \in BOOLEAN
        BY <2>1
    <2> QED
        BY ZenonT(60), <2>2, <2>3, <2>4, <2>5, <2>6, <2>7 DEF Restored
<1> QED
    BY <1>1, <1>2, <1>3 DEF Local

(* An idle request has no operation.                                       *)
LEMMA IdleFacts == Idle.op = "none" /\ Idle.ver = 0
    BY DEF Idle

(* The machine and the agent start well typed.                             *)
LEMMA InitTypeOK == Init => TypeOK
<1> SUFFICES ASSUME Init PROVE TypeOK
    OBVIOUS
<1>1. 1 \in Versions /\ 0 \in Versions /\ 0 \in 0..MaxFaults
    BY AgentBounds DEF Versions
<1> QED
    BY <1>1, IdleIsLocal, NoneIsNoRequest, StepNames DEF Init, TypeOK

(* Every step keeps the types; the gate is what makes one mutation run at  *)
(* a time.                                                                 *)
LEMMA NextTypeOK ==
    TypeOK /\ StepInv /\ [Next]_vars => TypeOK'
<1> SUFFICES ASSUME TypeOK, StepInv, [Next]_vars
             PROVE  TypeOK'
    OBVIOUS
<1>1. ASSUME NEW r \in Requests, NEW op \in Ops, NEW t \in Transactions \cup {None},
             NEW v \in Versions, op = "upgrade" => v # 0, Request(r, op, t, v)
      PROVE  TypeOK'
    <2>1. [Idle EXCEPT !.op = op, !.tx = t, !.ver = v] \in Local
        BY <1>1, IdleIsLocal DEF Local, Idle, Ops
    <2> QED
        BY <1>1, IdleIsLocal, NoneIsNoRequest, AgentBounds, StepNames, <2>1
        DEF TypeOK, Request, Go, memory, disk, timers, ghosts
<1>2. ASSUME NEW r \in Requests, beginMutation(r) PROVE TypeOK'
    BY <1>2, IdleIsLocal, NoneIsNoRequest, AgentBounds, StepNames, FirstStep
    DEF TypeOK, beginMutation, Refuse, Enter, Done, Go, First, disk, timers, ghosts, StepInv
<1>3. ASSUME NEW r \in Requests, Cancel(r) PROVE TypeOK'
    BY <1>3, IdleIsLocal, NoneIsNoRequest, AgentBounds, StepNames
    DEF TypeOK, Cancel, Go, memory, disk, timers, ghosts
<1>4. ASSUME NEW r \in Requests, Install(r) PROVE TypeOK'
    <2>1. host' \in Host
        BY <1>4 DEF Install, Done, Go, kept, timers, ghosts, TypeOK, Host, Local
    <2> QED
        BY <1>4, IdleIsLocal, NoneIsNoRequest, AgentBounds, StepNames, <2>1
        DEF TypeOK, Install, Done, Go, kept, timers, ghosts
<1>5. ASSUME NEW r \in Requests, Deploy(r) PROVE TypeOK'
    <2>1. host' \in Host
        BY <1>5 DEF Deploy, Done, Go, kept, timers, ghosts, TypeOK, Host, Local
    <2> QED
        BY <1>5, IdleIsLocal, NoneIsNoRequest, AgentBounds, StepNames, <2>1
        DEF TypeOK, Deploy, Done, Go, kept, timers, ghosts
<1>6. ASSUME NEW r \in Requests, DeployFails(r) PROVE TypeOK'
    <2>1. host' \in Host
        BY <1>6 DEF DeployFails, Done, Go, Fault, kept, timers, ghosts, TypeOK, Host, Local
    <2> QED
        BY <1>6, IdleIsLocal, NoneIsNoRequest, AgentBounds, StepNames, <2>1
        DEF TypeOK, DeployFails, Done, Go, Fault, kept, timers, ghosts
<1>7. ASSUME NEW r \in Requests, authorizeRollbackUninstall(r) PROVE TypeOK'
    BY <1>7, IdleIsLocal, NoneIsNoRequest, AgentBounds, StepNames
    DEF TypeOK, authorizeRollbackUninstall, Done, Go, kept, disk, timers, ghosts
<1>8. ASSUME NEW r \in Requests, UninstallRuntime(r) PROVE TypeOK'
    <2>1. host' \in Host
        BY <1>8 DEF UninstallRuntime, Go, memory, timers, ghosts, TypeOK, Host, Local
    <2> QED
        BY <1>8, IdleIsLocal, NoneIsNoRequest, AgentBounds, StepNames, <2>1
        DEF TypeOK, UninstallRuntime, Go, memory, timers, ghosts
<1>9. ASSUME NEW r \in Requests, UninstallRuntimeFails(r) PROVE TypeOK'
    <2>1. host' \in Host
        BY <1>9
        DEF UninstallRuntimeFails, Done, Go, Fault, kept, timers, ghosts, TypeOK, Host, Local
    <2> QED
        BY <1>9, IdleIsLocal, NoneIsNoRequest, AgentBounds, StepNames, <2>1
        DEF TypeOK, UninstallRuntimeFails, Done, Go, Fault, kept, timers, ghosts
<1>10. ASSUME NEW r \in Requests, Snapshot(r) PROVE TypeOK'
    <2>1. [cur[r] EXCEPT !.exe = exe, !.backup = backup, !.host = host] \in Local
        BY ZenonT(60) DEF TypeOK, Local
    <2>2. cur' = [cur EXCEPT ![r] = [cur[r] EXCEPT !.exe = exe, !.backup = backup, !.host = host]]
        BY <1>10 DEF Snapshot, TypeOK
    <2>3. cur' \in [Requests -> Local]
        BY <2>1, <2>2 DEF TypeOK
    <2> QED
        BY <1>10, IdleIsLocal, NoneIsNoRequest, AgentBounds, StepNames, <2>1, <2>2, <2>3
        DEF TypeOK, Snapshot, Go, memory, disk, timers, ghosts
<1>11. ASSUME NEW r \in Requests, SnapshotFails(r) PROVE TypeOK'
    BY <1>11, IdleIsLocal, NoneIsNoRequest, AgentBounds, StepNames
    DEF TypeOK, SnapshotFails, Done, Go, Fault, kept, disk, timers, ghosts
<1>12. ASSUME NEW r \in Requests, DisableUnits(r) PROVE TypeOK'
    <2>1. host' \in Host
        BY <1>12 DEF DisableUnits, Teardown, Go, memory, timers, ghosts, TypeOK, Host, Local
    <2> QED
        BY <1>12, IdleIsLocal, NoneIsNoRequest, AgentBounds, StepNames, <2>1
        DEF TypeOK, DisableUnits, Teardown, Go, memory, timers, ghosts
<1>13. ASSUME NEW r \in Requests, MarkDisabled(r) PROVE TypeOK'
    <2>1. host' \in Host
        BY <1>13 DEF MarkDisabled, Teardown, Go, memory, timers, ghosts, TypeOK, Host, Local
    <2> QED
        BY <1>13, IdleIsLocal, NoneIsNoRequest, AgentBounds, StepNames, <2>1
        DEF TypeOK, MarkDisabled, Teardown, Go, memory, timers, ghosts
<1>14. ASSUME NEW r \in Requests, RemoveFiles(r) PROVE TypeOK'
    <2>1. host' \in Host
        BY <1>14 DEF RemoveFiles, Teardown, Go, memory, timers, ghosts, TypeOK, Host, Local
    <2> QED
        BY <1>14, IdleIsLocal, NoneIsNoRequest, AgentBounds, StepNames, <2>1
        DEF TypeOK, RemoveFiles, Teardown, Go, memory, timers, ghosts
<1>15. ASSUME NEW r \in Requests, RemoveState(r) PROVE TypeOK'
    <2>1. host' \in Host
        BY <1>15 DEF RemoveState, Teardown, Go, memory, timers, ghosts, TypeOK, Host, Local
    <2> QED
        BY <1>15, IdleIsLocal, NoneIsNoRequest, AgentBounds, StepNames, <2>1
        DEF TypeOK, RemoveState, Teardown, Go, memory, timers, ghosts
<1>16. ASSUME NEW r \in Requests, CloseFirewall(r) PROVE TypeOK'
    <2>1. host' \in Host
        BY <1>16 DEF CloseFirewall, Teardown, Go, memory, timers, ghosts, TypeOK, Host, Local
    <2> QED
        BY <1>16, IdleIsLocal, NoneIsNoRequest, AgentBounds, StepNames, <2>1
        DEF TypeOK, CloseFirewall, Teardown, Go, memory, timers, ghosts
<1>17. ASSUME NEW r \in Requests, TeardownFails(r) PROVE TypeOK'
    <2>1. [cur[r] EXCEPT !.restoreFirewall = (pc[r] = "firewall")] \in Local
        BY ZenonT(60) DEF TypeOK, Local
    <2>2. cur' \in [Requests -> Local]
        BY <1>17, <2>1 DEF TeardownFails, TypeOK
    <2> QED
        BY <1>17, IdleIsLocal, NoneIsNoRequest, AgentBounds, StepNames, HostTypes, <2>1, <2>2
        DEF TypeOK, TeardownFails, Go, Fault, memory, timers, ghosts
<1>18. ASSUME NEW r \in Requests, restoreAgentControlPlane(r) PROVE TypeOK'
    BY <1>18, IdleIsLocal, NoneIsNoRequest, AgentBounds, StepNames, HostTypes
    DEF TypeOK, restoreAgentControlPlane, Done, Go, kept, timers, ghosts
<1>19. ASSUME NEW r \in Requests, RestoreFails(r) PROVE TypeOK'
    BY <1>19, IdleIsLocal, NoneIsNoRequest, AgentBounds, StepNames, HostTypes
    DEF TypeOK, RestoreFails, Done, Go, Fault, kept, timers
<1>20. ASSUME NEW r \in Requests, FinishUninstall(r) PROVE TypeOK'
    BY <1>20, IdleIsLocal, NoneIsNoRequest, AgentBounds, StepNames
    DEF TypeOK, FinishUninstall, Done, Go, disk, ghosts
<1>21. ASSUME NEW r \in Requests, RecoverUpgrade(r) PROVE TypeOK'
    BY <1>21, IdleIsLocal, NoneIsNoRequest, AgentBounds, StepNames
    DEF TypeOK, RecoverUpgrade, Go, timers, ghosts
<1>22. ASSUME NEW r \in Requests, RecoverUpgradeFails(r) PROVE TypeOK'
    BY <1>22, IdleIsLocal, NoneIsNoRequest, AgentBounds, StepNames
    DEF TypeOK, RecoverUpgradeFails, Done, Go, Fault, kept, timers, ghosts
<1>23. ASSUME NEW r \in Requests, BackUpAgent(r) PROVE TypeOK'
    BY <1>23, IdleIsLocal, NoneIsNoRequest, AgentBounds, StepNames
    DEF TypeOK, BackUpAgent, Go, memory, timers, ghosts
<1>24. ASSUME NEW r \in Requests, RefuseUpgrade(r) PROVE TypeOK'
    BY <1>24, IdleIsLocal, NoneIsNoRequest, AgentBounds, StepNames
    DEF TypeOK, RefuseUpgrade, Done, Go, kept, disk, timers, ghosts
<1>25. ASSUME NEW r \in Requests, SwapAgent(r) PROVE TypeOK'
    BY <1>25, IdleIsLocal, NoneIsNoRequest, AgentBounds, StepNames, HostTypes
    DEF TypeOK, SwapAgent, Go, memory, timers, ghosts
<1>26. ASSUME NEW r \in Requests, SwapFails(r) PROVE TypeOK'
    BY <1>26, IdleIsLocal, NoneIsNoRequest, AgentBounds, StepNames
    DEF TypeOK, SwapFails, Done, Go, Fault, kept, timers, ghosts
<1>27. ASSUME NEW r \in Requests, scheduleAgentRestart(r) PROVE TypeOK'
    BY <1>27, IdleIsLocal, NoneIsNoRequest, AgentBounds, StepNames, HostTypes
    DEF TypeOK, scheduleAgentRestart, Done, Go, disk
<1>28. ASSUME NEW r \in Requests, ScheduleFails(r) PROVE TypeOK'
    <2>1. restartTimer' \in BOOLEAN
        BY <1>28 DEF ScheduleFails, TypeOK
    <2> QED
        BY <1>28, IdleIsLocal, NoneIsNoRequest, AgentBounds, StepNames, <2>1
        DEF TypeOK, ScheduleFails, Go, Fault, memory, disk, ghosts
<1>29. ASSUME NEW r \in Requests, restoreAgentReplacement(r) PROVE TypeOK'
    BY <1>29, IdleIsLocal, NoneIsNoRequest, AgentBounds, StepNames
    DEF TypeOK, restoreAgentReplacement, Done, Go, kept, timers, ghosts
<1>30. ASSUME NEW r \in Requests, RestoreReplacementFails(r) PROVE TypeOK'
    BY <1>30, IdleIsLocal, NoneIsNoRequest, AgentBounds, StepNames
    DEF TypeOK, RestoreReplacementFails, Done, Go, Fault, timers, ghosts
<1>31. ASSUME RestartFires PROVE TypeOK'
    BY <1>31, IdleIsLocal, NoneIsNoRequest, AgentBounds, StepNames
    DEF TypeOK, RestartFires, ProcessEnds, StartFromDisk, disk
<1>32. ASSUME StopFires PROVE TypeOK'
    BY <1>32, IdleIsLocal, NoneIsNoRequest, AgentBounds, StepNames
    DEF TypeOK, StopFires, ProcessEnds, disk
<1>33. ASSUME Crash PROVE TypeOK'
    <2>1. crashed' \in BOOLEAN
        BY <1>33 DEF Crash, TypeOK
    <2>2. up' \in Versions /\ accepted' \in Versions
        BY <1>33, IdleIsLocal DEF Crash, StartFromDisk, TypeOK
    <2>3. faults' \in 0..MaxFaults
        BY <1>33, AgentBounds DEF Crash, Fault, TypeOK
    <2> QED
        BY <1>33, IdleIsLocal, NoneIsNoRequest, AgentBounds, StepNames, <2>1, <2>2, <2>3
        DEF TypeOK, Crash, ProcessEnds, disk
<1>34. CASE UNCHANGED vars
    BY <1>34 DEF TypeOK, vars, memory, disk, timers, ghosts
<1> QED
    BY <1>1, <1>2, <1>3, <1>4, <1>5, <1>6, <1>7, <1>8, <1>9, <1>10, <1>11, <1>12, <1>13,
           <1>14, <1>15, <1>16, <1>17, <1>18, <1>19, <1>20, <1>21, <1>22, <1>23, <1>24, <1>25,
           <1>26, <1>27, <1>28, <1>29, <1>30, <1>31, <1>32, <1>33, <1>34, ArriveRequests DEF Next, Handle

-----------------------------------------------------------------------------
(* A request keeps its operation from the gate to its end.                 *)
LEMMA NextStepInv ==
    TypeOK /\ StepInv /\ [Next]_vars => StepInv'
<1> SUFFICES ASSUME TypeOK, StepInv, [Next]_vars
             PROVE  StepInv'
    OBVIOUS
<1>1. ASSUME NEW r \in Requests, NEW op \in Ops, NEW t \in Transactions \cup {None},
             NEW v \in Versions, op = "upgrade" => v # 0, Request(r, op, t, v)
      PROVE  StepInv'
    <2>1. cur'[r].op = op /\ cur'[r].ver = v
        BY <1>1 DEF Request, TypeOK, Idle
    <2> QED
        BY <1>1, IdleFacts, <2>1
        DEF TypeOK, StepInv, InstallSteps, UpgradeSteps, Request, Go, memory, disk, timers,
            ghosts
<1>2. ASSUME NEW r \in Requests, beginMutation(r) PROVE StepInv'
    BY <1>2, IdleFacts, FirstStep
    DEF TypeOK, StepInv, InstallSteps, UpgradeSteps, beginMutation, Refuse, Enter, Done, Go,
        First, disk, timers, ghosts
<1>3. ASSUME NEW r \in Requests, Cancel(r) PROVE StepInv'
    BY <1>3, IdleFacts
    DEF TypeOK, StepInv, InstallSteps, UpgradeSteps, Cancel, Go, memory, disk, timers,
        ghosts
<1>4. ASSUME NEW r \in Requests, Install(r) PROVE StepInv'
    BY <1>4, IdleFacts
    DEF TypeOK, StepInv, InstallSteps, UpgradeSteps, Install, Done, Go, kept, timers, ghosts
<1>5. ASSUME NEW r \in Requests, Deploy(r) PROVE StepInv'
    BY <1>5, IdleFacts
    DEF TypeOK, StepInv, InstallSteps, UpgradeSteps, Deploy, Done, Go, kept, timers, ghosts
<1>6. ASSUME NEW r \in Requests, DeployFails(r) PROVE StepInv'
    BY <1>6, IdleFacts
    DEF TypeOK, StepInv, InstallSteps, UpgradeSteps, DeployFails, Done, Go, Fault, kept,
        timers, ghosts
<1>7. ASSUME NEW r \in Requests, authorizeRollbackUninstall(r) PROVE StepInv'
    BY <1>7, IdleFacts
    DEF TypeOK, StepInv, InstallSteps, UpgradeSteps, authorizeRollbackUninstall, Done, Go,
        kept, disk, timers, ghosts
<1>8. ASSUME NEW r \in Requests, UninstallRuntime(r) PROVE StepInv'
    BY <1>8, IdleFacts
    DEF TypeOK, StepInv, InstallSteps, UpgradeSteps, UninstallRuntime, Go, memory, timers,
        ghosts
<1>9. ASSUME NEW r \in Requests, UninstallRuntimeFails(r) PROVE StepInv'
    BY <1>9, IdleFacts
    DEF TypeOK, StepInv, InstallSteps, UpgradeSteps, UninstallRuntimeFails, Done, Go, Fault,
        kept, timers, ghosts
<1>10. ASSUME NEW r \in Requests, Snapshot(r) PROVE StepInv'
    BY <1>10, IdleFacts
    DEF TypeOK, StepInv, InstallSteps, UpgradeSteps, Snapshot, Go, memory, disk, timers,
        ghosts
<1>11. ASSUME NEW r \in Requests, SnapshotFails(r) PROVE StepInv'
    BY <1>11, IdleFacts
    DEF TypeOK, StepInv, InstallSteps, UpgradeSteps, SnapshotFails, Done, Go, Fault, kept,
        disk, timers, ghosts
<1>12. ASSUME NEW r \in Requests, DisableUnits(r) PROVE StepInv'
    BY <1>12, IdleFacts
    DEF TypeOK, StepInv, InstallSteps, UpgradeSteps, DisableUnits, Teardown, Go, memory,
        timers, ghosts
<1>13. ASSUME NEW r \in Requests, MarkDisabled(r) PROVE StepInv'
    BY <1>13, IdleFacts
    DEF TypeOK, StepInv, InstallSteps, UpgradeSteps, MarkDisabled, Teardown, Go, memory,
        timers, ghosts
<1>14. ASSUME NEW r \in Requests, RemoveFiles(r) PROVE StepInv'
    BY <1>14, IdleFacts
    DEF TypeOK, StepInv, InstallSteps, UpgradeSteps, RemoveFiles, Teardown, Go, memory,
        timers, ghosts
<1>15. ASSUME NEW r \in Requests, RemoveState(r) PROVE StepInv'
    BY <1>15, IdleFacts
    DEF TypeOK, StepInv, InstallSteps, UpgradeSteps, RemoveState, Teardown, Go, memory,
        timers, ghosts
<1>16. ASSUME NEW r \in Requests, CloseFirewall(r) PROVE StepInv'
    BY <1>16, IdleFacts
    DEF TypeOK, StepInv, InstallSteps, UpgradeSteps, CloseFirewall, Teardown, Go, memory,
        timers, ghosts
<1>17. ASSUME NEW r \in Requests, TeardownFails(r) PROVE StepInv'
    BY <1>17, IdleFacts
    DEF TypeOK, StepInv, InstallSteps, UpgradeSteps, TeardownFails, HalfDone, Go, Fault,
        memory, timers, ghosts
<1>18. ASSUME NEW r \in Requests, restoreAgentControlPlane(r) PROVE StepInv'
    BY <1>18, IdleFacts
    DEF TypeOK, StepInv, InstallSteps, UpgradeSteps, restoreAgentControlPlane, Restored,
        Parts, Done, Go, kept, timers, ghosts
<1>19. ASSUME NEW r \in Requests, RestoreFails(r) PROVE StepInv'
    BY <1>19, IdleFacts
    DEF TypeOK, StepInv, InstallSteps, UpgradeSteps, RestoreFails, Restored, Parts, Done, Go,
        Fault, kept, timers
<1>20. ASSUME NEW r \in Requests, FinishUninstall(r) PROVE StepInv'
    BY <1>20, IdleFacts
    DEF TypeOK, StepInv, InstallSteps, UpgradeSteps, FinishUninstall, Done, Go, disk, ghosts
<1>21. ASSUME NEW r \in Requests, RecoverUpgrade(r) PROVE StepInv'
    BY <1>21, IdleFacts
    DEF TypeOK, StepInv, InstallSteps, UpgradeSteps, RecoverUpgrade, Go, timers, ghosts
<1>22. ASSUME NEW r \in Requests, RecoverUpgradeFails(r) PROVE StepInv'
    BY <1>22, IdleFacts
    DEF TypeOK, StepInv, InstallSteps, UpgradeSteps, RecoverUpgradeFails, Done, Go, Fault,
        kept, timers, ghosts
<1>23. ASSUME NEW r \in Requests, BackUpAgent(r) PROVE StepInv'
    BY <1>23, IdleFacts
    DEF TypeOK, StepInv, InstallSteps, UpgradeSteps, BackUpAgent, Go, memory, timers, ghosts
<1>24. ASSUME NEW r \in Requests, RefuseUpgrade(r) PROVE StepInv'
    BY <1>24, IdleFacts
    DEF TypeOK, StepInv, InstallSteps, UpgradeSteps, RefuseUpgrade, Done, Go, kept, disk,
        timers, ghosts
<1>25. ASSUME NEW r \in Requests, SwapAgent(r) PROVE StepInv'
    BY <1>25, IdleFacts
    DEF TypeOK, StepInv, InstallSteps, UpgradeSteps, SwapAgent, Go, memory, timers, ghosts
<1>26. ASSUME NEW r \in Requests, SwapFails(r) PROVE StepInv'
    BY <1>26, IdleFacts
    DEF TypeOK, StepInv, InstallSteps, UpgradeSteps, SwapFails, Done, Go, Fault, kept,
        timers, ghosts
<1>27. ASSUME NEW r \in Requests, scheduleAgentRestart(r) PROVE StepInv'
    BY <1>27, IdleFacts
    DEF TypeOK, StepInv, InstallSteps, UpgradeSteps, scheduleAgentRestart, Done, Go, disk
<1>28. ASSUME NEW r \in Requests, ScheduleFails(r) PROVE StepInv'
    BY <1>28, IdleFacts
    DEF TypeOK, StepInv, InstallSteps, UpgradeSteps, ScheduleFails, Go, Fault, memory, disk,
        ghosts
<1>29. ASSUME NEW r \in Requests, restoreAgentReplacement(r) PROVE StepInv'
    BY <1>29, IdleFacts
    DEF TypeOK, StepInv, InstallSteps, UpgradeSteps, restoreAgentReplacement, Done, Go, kept,
        timers, ghosts
<1>30. ASSUME NEW r \in Requests, RestoreReplacementFails(r) PROVE StepInv'
    BY <1>30, IdleFacts
    DEF TypeOK, StepInv, InstallSteps, UpgradeSteps, RestoreReplacementFails, Done, Go,
        Fault, timers, ghosts
<1>31. ASSUME RestartFires PROVE StepInv'
    BY <1>31, IdleFacts
    DEF TypeOK, StepInv, InstallSteps, UpgradeSteps, RestartFires, ProcessEnds,
        StartFromDisk, disk
<1>32. ASSUME StopFires PROVE StepInv'
    BY <1>32, IdleFacts
    DEF TypeOK, StepInv, InstallSteps, UpgradeSteps, StopFires, ProcessEnds, disk
<1>33. ASSUME Crash PROVE StepInv'
    BY <1>33, IdleFacts
    DEF TypeOK, StepInv, InstallSteps, UpgradeSteps, Crash, ProcessEnds, StartFromDisk,
        Fault, disk
<1>34. CASE UNCHANGED vars
    BY <1>34 DEF TypeOK, StepInv, InstallSteps, UpgradeSteps, vars, memory, disk, timers, ghosts
<1> QED
    BY <1>1, <1>2, <1>3, <1>4, <1>5, <1>6, <1>7, <1>8, <1>9, <1>10, <1>11, <1>12, <1>13,
           <1>14, <1>15, <1>16, <1>17, <1>18, <1>19, <1>20, <1>21, <1>22, <1>23, <1>24, <1>25,
           <1>26, <1>27, <1>28, <1>29, <1>30, <1>31, <1>32, <1>33, <1>34, ArriveRequests DEF Next, Handle
(* A committed mutation shuts the gate, and a dead agent stays dead.       *)
LEMMA NextGateInv ==
    TypeOK /\ StepInv /\ GateInv /\ TeardownInv /\ [Next]_vars => GateInv'
<1> SUFFICES ASSUME TypeOK, StepInv, GateInv, TeardownInv, [Next]_vars
             PROVE  GateInv'
    OBVIOUS
<1>1. ASSUME NEW r \in Requests, NEW op \in Ops, NEW t \in Transactions \cup {None},
             NEW v \in Versions, op = "upgrade" => v # 0, Request(r, op, t, v)
      PROVE  GateInv'
    BY <1>1, StepNames, NoneIsNoRequest
    DEF TypeOK, GateInv, Request, Go, memory, disk, timers, ghosts
<1>2. ASSUME NEW r \in Requests, beginMutation(r) PROVE GateInv'
    BY <1>2, StepNames, NoneIsNoRequest
    DEF TypeOK, GateInv, beginMutation, Refuse, Enter, Done, Go, First, disk, timers, ghosts
<1>3. ASSUME NEW r \in Requests, Cancel(r) PROVE GateInv'
    BY <1>3, StepNames, NoneIsNoRequest
    DEF TypeOK, GateInv, Cancel, Go, memory, disk, timers, ghosts
<1>4. ASSUME NEW r \in Requests, Install(r) PROVE GateInv'
    BY <1>4, StepNames, NoneIsNoRequest
    DEF TypeOK, GateInv, Install, Done, Go, kept, timers, ghosts
<1>5. ASSUME NEW r \in Requests, Deploy(r) PROVE GateInv'
    BY <1>5, StepNames, NoneIsNoRequest
    DEF TypeOK, GateInv, Deploy, Done, Go, kept, timers, ghosts
<1>6. ASSUME NEW r \in Requests, DeployFails(r) PROVE GateInv'
    BY <1>6, StepNames, NoneIsNoRequest
    DEF TypeOK, GateInv, DeployFails, Done, Go, Fault, kept, timers, ghosts
<1>7. ASSUME NEW r \in Requests, authorizeRollbackUninstall(r) PROVE GateInv'
    BY <1>7, StepNames, NoneIsNoRequest
    DEF TypeOK, GateInv, authorizeRollbackUninstall, Done, Go, kept, disk, timers, ghosts
<1>8. ASSUME NEW r \in Requests, UninstallRuntime(r) PROVE GateInv'
    BY <1>8, StepNames, NoneIsNoRequest
    DEF TypeOK, GateInv, UninstallRuntime, Go, memory, timers, ghosts
<1>9. ASSUME NEW r \in Requests, UninstallRuntimeFails(r) PROVE GateInv'
    BY <1>9, StepNames, NoneIsNoRequest
    DEF TypeOK, GateInv, UninstallRuntimeFails, Done, Go, Fault, kept, timers, ghosts
<1>10. ASSUME NEW r \in Requests, Snapshot(r) PROVE GateInv'
    BY <1>10, StepNames, NoneIsNoRequest
    DEF TypeOK, GateInv, Snapshot, Go, memory, disk, timers, ghosts
<1>11. ASSUME NEW r \in Requests, SnapshotFails(r) PROVE GateInv'
    BY <1>11, StepNames, NoneIsNoRequest
    DEF TypeOK, GateInv, SnapshotFails, Done, Go, Fault, kept, disk, timers, ghosts
<1>12. ASSUME NEW r \in Requests, DisableUnits(r) PROVE GateInv'
    BY <1>12, StepNames, NoneIsNoRequest
    DEF TypeOK, GateInv, DisableUnits, Teardown, Go, memory, timers, ghosts
<1>13. ASSUME NEW r \in Requests, MarkDisabled(r) PROVE GateInv'
    BY <1>13, StepNames, NoneIsNoRequest
    DEF TypeOK, GateInv, MarkDisabled, Teardown, Go, memory, timers, ghosts
<1>14. ASSUME NEW r \in Requests, RemoveFiles(r) PROVE GateInv'
    BY <1>14, StepNames, NoneIsNoRequest
    DEF TypeOK, GateInv, RemoveFiles, Teardown, Go, memory, timers, ghosts
<1>15. ASSUME NEW r \in Requests, RemoveState(r) PROVE GateInv'
    BY <1>15, StepNames, NoneIsNoRequest
    DEF TypeOK, GateInv, RemoveState, Teardown, Go, memory, timers, ghosts
<1>16. ASSUME NEW r \in Requests, CloseFirewall(r) PROVE GateInv'
    BY <1>16, StepNames, NoneIsNoRequest
    DEF TypeOK, GateInv, CloseFirewall, Teardown, Go, memory, timers, ghosts
<1>17. ASSUME NEW r \in Requests, TeardownFails(r) PROVE GateInv'
    BY <1>17, StepNames, NoneIsNoRequest
    DEF TypeOK, GateInv, TeardownFails, HalfDone, Go, Fault, memory, timers, ghosts
<1>18. ASSUME NEW r \in Requests, restoreAgentControlPlane(r) PROVE GateInv'
    BY <1>18, StepNames, NoneIsNoRequest
    DEF TypeOK, GateInv, restoreAgentControlPlane, Restored, Parts, Done, Go, kept, timers,
        ghosts
<1>19. ASSUME NEW r \in Requests, RestoreFails(r) PROVE GateInv'
    BY <1>19, StepNames, NoneIsNoRequest
    DEF TypeOK, GateInv, RestoreFails, Restored, Parts, Done, Go, Fault, kept, timers
<1>20. ASSUME NEW r \in Requests, FinishUninstall(r) PROVE GateInv'
    BY <1>20, StepNames, NoneIsNoRequest
    DEF TypeOK, GateInv, FinishUninstall, Done, Go, disk, ghosts
<1>21. ASSUME NEW r \in Requests, RecoverUpgrade(r) PROVE GateInv'
    BY <1>21, StepNames, NoneIsNoRequest DEF TypeOK, GateInv, RecoverUpgrade, Go, timers, ghosts
<1>22. ASSUME NEW r \in Requests, RecoverUpgradeFails(r) PROVE GateInv'
    BY <1>22, StepNames, NoneIsNoRequest
    DEF TypeOK, GateInv, RecoverUpgradeFails, Done, Go, Fault, kept, timers, ghosts
<1>23. ASSUME NEW r \in Requests, BackUpAgent(r) PROVE GateInv'
    BY <1>23, StepNames, NoneIsNoRequest
    DEF TypeOK, GateInv, BackUpAgent, Go, memory, timers, ghosts
<1>24. ASSUME NEW r \in Requests, RefuseUpgrade(r) PROVE GateInv'
    BY <1>24, StepNames, NoneIsNoRequest
    DEF TypeOK, GateInv, RefuseUpgrade, Done, Go, kept, disk, timers, ghosts
<1>25. ASSUME NEW r \in Requests, SwapAgent(r) PROVE GateInv'
    BY <1>25, StepNames, NoneIsNoRequest
    DEF TypeOK, GateInv, SwapAgent, Go, memory, timers, ghosts
<1>26. ASSUME NEW r \in Requests, SwapFails(r) PROVE GateInv'
    BY <1>26, StepNames, NoneIsNoRequest
    DEF TypeOK, GateInv, SwapFails, Done, Go, Fault, kept, timers, ghosts
<1>27. ASSUME NEW r \in Requests, scheduleAgentRestart(r) PROVE GateInv'
    BY <1>27, StepNames, NoneIsNoRequest
    DEF TypeOK, GateInv, scheduleAgentRestart, Done, Go, disk
<1>28. ASSUME NEW r \in Requests, ScheduleFails(r) PROVE GateInv'
    BY <1>28, StepNames, NoneIsNoRequest
    DEF TypeOK, GateInv, ScheduleFails, Go, Fault, memory, disk, ghosts
<1>29. ASSUME NEW r \in Requests, restoreAgentReplacement(r) PROVE GateInv'
    BY <1>29, StepNames, NoneIsNoRequest
    DEF TypeOK, GateInv, restoreAgentReplacement, Done, Go, kept, timers, ghosts
<1>30. ASSUME NEW r \in Requests, RestoreReplacementFails(r) PROVE GateInv'
    BY <1>30, StepNames, NoneIsNoRequest
    DEF TypeOK, GateInv, RestoreReplacementFails, Done, Go, Fault, timers, ghosts
<1>31. ASSUME RestartFires PROVE GateInv'
    BY <1>31, StepNames, NoneIsNoRequest
    DEF TypeOK, GateInv, RestartFires, ProcessEnds, StartFromDisk, disk
<1>32. ASSUME StopFires PROVE GateInv'
    BY <1>32, StepNames, NoneIsNoRequest
    DEF TypeOK, GateInv, StopFires, ProcessEnds, disk, TeardownInv, Uninstalled
<1>33. ASSUME Crash PROVE GateInv'
    BY <1>33, StepNames, NoneIsNoRequest
    DEF TypeOK, GateInv, Crash, ProcessEnds, StartFromDisk, Fault, disk
<1>34. CASE UNCHANGED vars
    BY <1>34 DEF TypeOK, GateInv, vars, memory, disk, timers, ghosts
<1> QED
    BY <1>1, <1>2, <1>3, <1>4, <1>5, <1>6, <1>7, <1>8, <1>9, <1>10, <1>11, <1>12, <1>13,
           <1>14, <1>15, <1>16, <1>17, <1>18, <1>19, <1>20, <1>21, <1>22, <1>23, <1>24, <1>25,
           <1>26, <1>27, <1>28, <1>29, <1>30, <1>31, <1>32, <1>33, <1>34, ArriveRequests DEF Next, Handle
(* Each step of a teardown removes its part and leaves the earlier ones    *)
(* removed; nothing runs after it that could bring a part back.            *)
LEMMA NextTeardownInv ==
    TypeOK /\ StepInv /\ GateInv /\ TeardownInv /\ [Next]_vars => TeardownInv'
<1> SUFFICES ASSUME TypeOK, StepInv, GateInv, TeardownInv, [Next]_vars
             PROVE  TeardownInv'
    OBVIOUS
<1>1. ASSUME NEW r \in Requests, NEW op \in Ops, NEW t \in Transactions \cup {None},
             NEW v \in Versions, op = "upgrade" => v # 0, Request(r, op, t, v)
      PROVE  TeardownInv'
    BY <1>1, StepNames, NoneIsNoRequest
    DEF TypeOK, GateInv, TeardownInv, Uninstalled, UninstallSteps, Host, Request, Go, memory,
        disk, timers, ghosts
<1>2. ASSUME NEW r \in Requests, beginMutation(r) PROVE TeardownInv'
    BY <1>2, StepNames, NoneIsNoRequest, FirstStep
    DEF TypeOK, GateInv, TeardownInv, Uninstalled, UninstallSteps, Host, beginMutation,
        Refuse, Enter, Done, Go, First, disk, timers, ghosts, StepInv
<1>3. ASSUME NEW r \in Requests, Cancel(r) PROVE TeardownInv'
    BY <1>3, StepNames, NoneIsNoRequest
    DEF TypeOK, GateInv, TeardownInv, Uninstalled, UninstallSteps, Host, Cancel, Go, memory,
        disk, timers, ghosts
<1>4. ASSUME NEW r \in Requests, Install(r) PROVE TeardownInv'
    BY <1>4, StepNames, NoneIsNoRequest
    DEF TypeOK, GateInv, TeardownInv, Uninstalled, UninstallSteps, Host, Install, Done, Go,
        kept, timers, ghosts
<1>5. ASSUME NEW r \in Requests, Deploy(r) PROVE TeardownInv'
    BY <1>5, StepNames, NoneIsNoRequest
    DEF TypeOK, GateInv, TeardownInv, Uninstalled, UninstallSteps, Host, Deploy, Done, Go,
        kept, timers, ghosts
<1>6. ASSUME NEW r \in Requests, DeployFails(r) PROVE TeardownInv'
    BY <1>6, StepNames, NoneIsNoRequest
    DEF TypeOK, GateInv, TeardownInv, Uninstalled, UninstallSteps, Host, DeployFails, Done,
        Go, Fault, kept, timers, ghosts
<1>7. ASSUME NEW r \in Requests, authorizeRollbackUninstall(r) PROVE TeardownInv'
    BY <1>7, StepNames, NoneIsNoRequest
    DEF TypeOK, GateInv, TeardownInv, Uninstalled, UninstallSteps, Host,
        authorizeRollbackUninstall, Done, Go, kept, disk, timers, ghosts
<1>8. ASSUME NEW r \in Requests, UninstallRuntime(r) PROVE TeardownInv'
    BY <1>8, StepNames, NoneIsNoRequest
    DEF TypeOK, GateInv, TeardownInv, Uninstalled, UninstallSteps, Host, UninstallRuntime,
        Go, memory, timers, ghosts, StepInv
<1>9. ASSUME NEW r \in Requests, UninstallRuntimeFails(r) PROVE TeardownInv'
    BY <1>9, StepNames, NoneIsNoRequest
    DEF TypeOK, GateInv, TeardownInv, Uninstalled, UninstallSteps, Host,
        UninstallRuntimeFails, Done, Go, Fault, kept, timers, ghosts
<1>10. ASSUME NEW r \in Requests, Snapshot(r) PROVE TeardownInv'
    BY <1>10, StepNames, NoneIsNoRequest
    DEF TypeOK, GateInv, TeardownInv, Uninstalled, UninstallSteps, Host, Snapshot, Go,
        memory, disk, timers, ghosts
<1>11. ASSUME NEW r \in Requests, SnapshotFails(r) PROVE TeardownInv'
    BY <1>11, StepNames, NoneIsNoRequest
    DEF TypeOK, GateInv, TeardownInv, Uninstalled, UninstallSteps, Host, SnapshotFails, Done,
        Go, Fault, kept, disk, timers, ghosts
<1>12. ASSUME NEW r \in Requests, DisableUnits(r) PROVE TeardownInv'
    BY <1>12, StepNames, NoneIsNoRequest
    DEF TypeOK, GateInv, TeardownInv, Uninstalled, UninstallSteps, Host, DisableUnits,
        Teardown, Go, memory, timers, ghosts
<1>13. ASSUME NEW r \in Requests, MarkDisabled(r) PROVE TeardownInv'
    BY <1>13, StepNames, NoneIsNoRequest
    DEF TypeOK, GateInv, TeardownInv, Uninstalled, UninstallSteps, Host, MarkDisabled,
        Teardown, Go, memory, timers, ghosts
<1>14. ASSUME NEW r \in Requests, RemoveFiles(r) PROVE TeardownInv'
    BY <1>14, StepNames, NoneIsNoRequest
    DEF TypeOK, GateInv, TeardownInv, Uninstalled, UninstallSteps, Host, RemoveFiles,
        Teardown, Go, memory, timers, ghosts
<1>15. ASSUME NEW r \in Requests, RemoveState(r) PROVE TeardownInv'
    BY <1>15, StepNames, NoneIsNoRequest
    DEF TypeOK, GateInv, TeardownInv, Uninstalled, UninstallSteps, Host, RemoveState,
        Teardown, Go, memory, timers, ghosts
<1>16. ASSUME NEW r \in Requests, CloseFirewall(r) PROVE TeardownInv'
    BY <1>16, StepNames, NoneIsNoRequest
    DEF TypeOK, GateInv, TeardownInv, Uninstalled, UninstallSteps, Host, CloseFirewall,
        Teardown, Go, memory, timers, ghosts, StepInv
<1>17. ASSUME NEW r \in Requests, TeardownFails(r) PROVE TeardownInv'
    <2>1. /\ host'.runtime = host.runtime
          /\ host'.enabled => host.enabled
          /\ host'.marker => host.marker
        BY <1>17 DEF TeardownFails, HalfDone, TypeOK, Host
    <2> QED
        BY <1>17, StepNames, NoneIsNoRequest, <2>1
        DEF TypeOK, GateInv, TeardownInv, Uninstalled, UninstallSteps, TeardownFails, Go, Fault,
            memory, timers, ghosts
<1>18. ASSUME NEW r \in Requests, restoreAgentControlPlane(r) PROVE TeardownInv'
    BY <1>18, StepNames, NoneIsNoRequest
    DEF TypeOK, GateInv, TeardownInv, Uninstalled, UninstallSteps, Host,
        restoreAgentControlPlane, Restored, Parts, Done, Go, kept, timers, ghosts
<1>19. ASSUME NEW r \in Requests, RestoreFails(r) PROVE TeardownInv'
    BY <1>19, StepNames, NoneIsNoRequest
    DEF TypeOK, GateInv, TeardownInv, Uninstalled, UninstallSteps, Host, RestoreFails,
        Restored, Parts, Done, Go, Fault, kept, timers
<1>20. ASSUME NEW r \in Requests, FinishUninstall(r) PROVE TeardownInv'
    BY <1>20, StepNames, NoneIsNoRequest
    DEF TypeOK, GateInv, TeardownInv, Uninstalled, UninstallSteps, Host, FinishUninstall,
        Done, Go, disk, ghosts, StepInv
<1>21. ASSUME NEW r \in Requests, RecoverUpgrade(r) PROVE TeardownInv'
    BY <1>21, StepNames, NoneIsNoRequest
    DEF TypeOK, GateInv, TeardownInv, Uninstalled, UninstallSteps, Host, RecoverUpgrade, Go,
        timers, ghosts
<1>22. ASSUME NEW r \in Requests, RecoverUpgradeFails(r) PROVE TeardownInv'
    BY <1>22, StepNames, NoneIsNoRequest
    DEF TypeOK, GateInv, TeardownInv, Uninstalled, UninstallSteps, Host, RecoverUpgradeFails,
        Done, Go, Fault, kept, timers, ghosts
<1>23. ASSUME NEW r \in Requests, BackUpAgent(r) PROVE TeardownInv'
    BY <1>23, StepNames, NoneIsNoRequest
    DEF TypeOK, GateInv, TeardownInv, Uninstalled, UninstallSteps, Host, BackUpAgent, Go,
        memory, timers, ghosts
<1>24. ASSUME NEW r \in Requests, RefuseUpgrade(r) PROVE TeardownInv'
    BY <1>24, StepNames, NoneIsNoRequest
    DEF TypeOK, GateInv, TeardownInv, Uninstalled, UninstallSteps, Host, RefuseUpgrade, Done,
        Go, kept, disk, timers, ghosts
<1>25. ASSUME NEW r \in Requests, SwapAgent(r) PROVE TeardownInv'
    BY <1>25, StepNames, NoneIsNoRequest
    DEF TypeOK, GateInv, TeardownInv, Uninstalled, UninstallSteps, Host, SwapAgent, Go,
        memory, timers, ghosts
<1>26. ASSUME NEW r \in Requests, SwapFails(r) PROVE TeardownInv'
    BY <1>26, StepNames, NoneIsNoRequest
    DEF TypeOK, GateInv, TeardownInv, Uninstalled, UninstallSteps, Host, SwapFails, Done, Go,
        Fault, kept, timers, ghosts
<1>27. ASSUME NEW r \in Requests, scheduleAgentRestart(r) PROVE TeardownInv'
    BY <1>27, StepNames, NoneIsNoRequest
    DEF TypeOK, GateInv, TeardownInv, Uninstalled, UninstallSteps, Host,
        scheduleAgentRestart, Done, Go, disk
<1>28. ASSUME NEW r \in Requests, ScheduleFails(r) PROVE TeardownInv'
    BY <1>28, StepNames, NoneIsNoRequest
    DEF TypeOK, GateInv, TeardownInv, Uninstalled, UninstallSteps, Host, ScheduleFails, Go,
        Fault, memory, disk, ghosts
<1>29. ASSUME NEW r \in Requests, restoreAgentReplacement(r) PROVE TeardownInv'
    BY <1>29, StepNames, NoneIsNoRequest
    DEF TypeOK, GateInv, TeardownInv, Uninstalled, UninstallSteps, Host,
        restoreAgentReplacement, Done, Go, kept, timers, ghosts
<1>30. ASSUME NEW r \in Requests, RestoreReplacementFails(r) PROVE TeardownInv'
    BY <1>30, StepNames, NoneIsNoRequest
    DEF TypeOK, GateInv, TeardownInv, Uninstalled, UninstallSteps, Host,
        RestoreReplacementFails, Done, Go, Fault, timers, ghosts
<1>31. ASSUME RestartFires PROVE TeardownInv'
    BY <1>31, StepNames, NoneIsNoRequest
    DEF TypeOK, GateInv, TeardownInv, Uninstalled, UninstallSteps, Host, RestartFires,
        ProcessEnds, StartFromDisk, disk
<1>32. ASSUME StopFires PROVE TeardownInv'
    BY <1>32, StepNames, NoneIsNoRequest
    DEF TypeOK, GateInv, TeardownInv, Uninstalled, UninstallSteps, Host, StopFires,
        ProcessEnds, disk
<1>33. ASSUME Crash PROVE TeardownInv'
    BY <1>33, StepNames, NoneIsNoRequest
    DEF TypeOK, GateInv, TeardownInv, Uninstalled, UninstallSteps, Host, Crash, ProcessEnds,
        StartFromDisk, Fault, disk
<1>34. CASE UNCHANGED vars
    BY <1>34
    DEF TypeOK, GateInv, TeardownInv, Uninstalled, UninstallSteps, Host, vars, memory, disk,
        timers, ghosts
<1> QED
    BY <1>1, <1>2, <1>3, <1>4, <1>5, <1>6, <1>7, <1>8, <1>9, <1>10, <1>11, <1>12, <1>13,
           <1>14, <1>15, <1>16, <1>17, <1>18, <1>19, <1>20, <1>21, <1>22, <1>23, <1>24, <1>25,
           <1>26, <1>27, <1>28, <1>29, <1>30, <1>31, <1>32, <1>33, <1>34, ArriveRequests DEF Next, Handle
(* What the hub needs for a retry is on the machine, or in the snapshot    *)
(* that the recovery puts back.                                            *)
LEMMA NextRetryInv ==
    TypeOK /\ StepInv /\ GateInv /\ TeardownInv /\ RetryInv /\ [Next]_vars => RetryInv'
<1> SUFFICES ASSUME TypeOK, StepInv, GateInv, TeardownInv, RetryInv, [Next]_vars
             PROVE  RetryInv'
    OBVIOUS
<1>1. ASSUME NEW r \in Requests, NEW op \in Ops, NEW t \in Transactions \cup {None},
             NEW v \in Versions, op = "upgrade" => v # 0, Request(r, op, t, v)
      PROVE  RetryInv'
    <2>1. \A q \in Requests : pc'[q] \in Working => pc'[q] = pc[q] /\ cur'[q] = cur[q]
        BY <1>1, StepNames DEF Request, Go, TypeOK
    <2>2. UNCHANGED <<up, gate, restartPending, shutdownPending, pendingRestore, exe, backup, host,
                       stopTimer, crashed, unrepaired>>
        BY <1>1 DEF Request, memory, disk, timers, ghosts
    <2> QED
        BY <1>1, StepNames, <2>1, <2>2 DEF RetryInv, Intact, Upgradable, InstallSteps
<1>2. ASSUME NEW r \in Requests, beginMutation(r) PROVE RetryInv'
    BY <1>2, StepNames, NoneIsNoRequest, FirstStep
    DEF TypeOK, GateInv, RetryInv, Intact, Upgradable, InstallSteps, Host, beginMutation,
        Refuse, Enter, Done, Go, First, disk, timers, ghosts, StepInv
<1>3. ASSUME NEW r \in Requests, Cancel(r) PROVE RetryInv'
    <2>1. \A q \in Requests : pc'[q] \in Working => pc'[q] = pc[q] /\ cur'[q] = cur[q]
        BY <1>3, StepNames DEF Cancel, Go, TypeOK
    <2>2. UNCHANGED <<up, gate, restartPending, shutdownPending, pendingRestore, exe, backup, host,
                       stopTimer, crashed, unrepaired>>
        BY <1>3 DEF Cancel, memory, disk, timers, ghosts
    <2> QED
        BY <1>3, StepNames, <2>1, <2>2 DEF RetryInv, Intact, Upgradable, InstallSteps
<1>4. ASSUME NEW r \in Requests, Install(r) PROVE RetryInv'
    BY <1>4, StepNames, NoneIsNoRequest
    DEF TypeOK, GateInv, RetryInv, Intact, Upgradable, InstallSteps, Host, Install, Done, Go,
        kept, timers, ghosts
<1>5. ASSUME NEW r \in Requests, Deploy(r) PROVE RetryInv'
    BY <1>5, StepNames, NoneIsNoRequest
    DEF TypeOK, GateInv, RetryInv, Intact, Upgradable, InstallSteps, Host, Deploy, Done, Go,
        kept, timers, ghosts
<1>6. ASSUME NEW r \in Requests, DeployFails(r) PROVE RetryInv'
    BY <1>6, StepNames, NoneIsNoRequest
    DEF TypeOK, GateInv, RetryInv, Intact, Upgradable, InstallSteps, Host, DeployFails, Done,
        Go, Fault, kept, timers, ghosts
<1>7. ASSUME NEW r \in Requests, authorizeRollbackUninstall(r) PROVE RetryInv'
    BY <1>7, StepNames, NoneIsNoRequest
    DEF TypeOK, GateInv, RetryInv, Intact, Upgradable, InstallSteps, Host,
        authorizeRollbackUninstall, Done, Go, kept, disk, timers, ghosts
<1>8. ASSUME NEW r \in Requests, UninstallRuntime(r) PROVE RetryInv'
    BY <1>8, StepNames, NoneIsNoRequest
    DEF TypeOK, GateInv, RetryInv, Intact, Upgradable, InstallSteps, Host, UninstallRuntime,
        Go, memory, timers, ghosts
<1>9. ASSUME NEW r \in Requests, UninstallRuntimeFails(r) PROVE RetryInv'
    BY <1>9, StepNames, NoneIsNoRequest
    DEF TypeOK, GateInv, RetryInv, Intact, Upgradable, InstallSteps, Host,
        UninstallRuntimeFails, Done, Go, Fault, kept, timers, ghosts
<1>10. ASSUME NEW r \in Requests, Snapshot(r) PROVE RetryInv'
    BY <1>10, StepNames, NoneIsNoRequest
    DEF TypeOK, GateInv, RetryInv, Intact, Upgradable, InstallSteps, Host, Snapshot, Go,
        memory, disk, timers, ghosts
<1>11. ASSUME NEW r \in Requests, SnapshotFails(r) PROVE RetryInv'
    BY <1>11, StepNames, NoneIsNoRequest
    DEF TypeOK, GateInv, RetryInv, Intact, Upgradable, InstallSteps, Host, SnapshotFails,
        Done, Go, Fault, kept, disk, timers, ghosts
<1>12. ASSUME NEW r \in Requests, DisableUnits(r) PROVE RetryInv'
    BY <1>12, StepNames, NoneIsNoRequest
    DEF TypeOK, GateInv, RetryInv, Intact, Upgradable, InstallSteps, Host, DisableUnits,
        Teardown, Go, memory, timers, ghosts
<1>13. ASSUME NEW r \in Requests, MarkDisabled(r) PROVE RetryInv'
    BY <1>13, StepNames, NoneIsNoRequest
    DEF TypeOK, GateInv, RetryInv, Intact, Upgradable, InstallSteps, Host, MarkDisabled,
        Teardown, Go, memory, timers, ghosts
<1>14. ASSUME NEW r \in Requests, RemoveFiles(r) PROVE RetryInv'
    BY <1>14, StepNames, NoneIsNoRequest
    DEF TypeOK, GateInv, RetryInv, Intact, Upgradable, InstallSteps, Host, RemoveFiles,
        Teardown, Go, memory, timers, ghosts
<1>15. ASSUME NEW r \in Requests, RemoveState(r) PROVE RetryInv'
    BY <1>15, StepNames, NoneIsNoRequest
    DEF TypeOK, GateInv, RetryInv, Intact, Upgradable, InstallSteps, Host, RemoveState,
        Teardown, Go, memory, timers, ghosts
<1>16. ASSUME NEW r \in Requests, CloseFirewall(r) PROVE RetryInv'
    BY <1>16, StepNames, NoneIsNoRequest
    DEF TypeOK, GateInv, RetryInv, Intact, Upgradable, InstallSteps, Host, CloseFirewall,
        Teardown, Go, memory, timers, ghosts, StepInv, TeardownInv
<1>17. ASSUME NEW r \in Requests, TeardownFails(r) PROVE RetryInv'
    <2>1. /\ cur'[r].host = cur[r].host /\ cur'[r].exe = cur[r].exe /\ cur'[r].backup = cur[r].backup
          /\ cur'[r].restoreFirewall <=> pc[r] = "firewall"
        BY <1>17 DEF TeardownFails, TypeOK, Local
    <2>2. /\ host'.state => host.state
          /\ host'.fw = host.fw \/ pc[r] = "firewall"
        BY <1>17 DEF TeardownFails, HalfDone, TypeOK, Host
    <2>3. /\ pc'[r] = "restore" /\ pc[r] \in {"disable", "mark", "remove", "state", "firewall"}
          /\ \A q \in Requests \ {r} : pc'[q] \notin Working
          /\ gate = r /\ UNCHANGED <<up, gate, pendingRestore, crashed, unrepaired>>
        BY <1>17, StepNames DEF TeardownFails, Go, memory, ghosts, TypeOK
    <2> QED
        BY <1>17, StepNames, NoneIsNoRequest, <2>1, <2>2, <2>3
        DEF RetryInv, TeardownInv, Intact, InstallSteps
<1>18. ASSUME NEW r \in Requests, restoreAgentControlPlane(r) PROVE RetryInv'
    BY <1>18, StepNames, NoneIsNoRequest
    DEF TypeOK, GateInv, RetryInv, Intact, Upgradable, InstallSteps, Host,
        restoreAgentControlPlane, Restored, Parts, Done, Go, kept, timers, ghosts
<1>19. ASSUME NEW r \in Requests, RestoreFails(r) PROVE RetryInv'
    BY <1>19, StepNames, NoneIsNoRequest
    DEF TypeOK, GateInv, RetryInv, Intact, Upgradable, InstallSteps, Host, RestoreFails,
        Restored, Parts, Done, Go, Fault, kept, timers
<1>20. ASSUME NEW r \in Requests, FinishUninstall(r) PROVE RetryInv'
    <2>1. stopTimer' <=> cur[r].op # "rollback"
        BY <1>20 DEF FinishUninstall, StepInv
    <2>2. ~unrepaired /\ ~stopTimer' => Intact
        BY <1>20, <2>1 DEF FinishUninstall, StepInv, RetryInv
    <2>3. /\ \A q \in Requests : pc'[q] \notin Working
          /\ shutdownPending'
          /\ UNCHANGED <<up, exe, backup, host, crashed, unrepaired>>
        BY <1>20, StepNames DEF FinishUninstall, Done, Go, disk, ghosts, TypeOK
    <2> QED
        BY <1>20, StepNames, <2>1, <2>2, <2>3 DEF RetryInv, Intact, InstallSteps
<1>21. ASSUME NEW r \in Requests, RecoverUpgrade(r) PROVE RetryInv'
    BY <1>21, StepNames, NoneIsNoRequest
    DEF TypeOK, GateInv, RetryInv, Intact, Upgradable, InstallSteps, Host, RecoverUpgrade,
        Go, timers, ghosts
<1>22. ASSUME NEW r \in Requests, RecoverUpgradeFails(r) PROVE RetryInv'
    BY <1>22, StepNames, NoneIsNoRequest
    DEF TypeOK, GateInv, RetryInv, Intact, Upgradable, InstallSteps, Host,
        RecoverUpgradeFails, Done, Go, Fault, kept, timers, ghosts
<1>23. ASSUME NEW r \in Requests, BackUpAgent(r) PROVE RetryInv'
    BY <1>23, StepNames, NoneIsNoRequest
    DEF TypeOK, GateInv, RetryInv, Intact, Upgradable, InstallSteps, Host, BackUpAgent, Go,
        memory, timers, ghosts
<1>24. ASSUME NEW r \in Requests, RefuseUpgrade(r) PROVE RetryInv'
    BY <1>24, StepNames, NoneIsNoRequest
    DEF TypeOK, GateInv, RetryInv, Intact, Upgradable, InstallSteps, Host, RefuseUpgrade,
        Done, Go, kept, disk, timers, ghosts
<1>25. ASSUME NEW r \in Requests, SwapAgent(r) PROVE RetryInv'
    BY <1>25, StepNames, NoneIsNoRequest
    DEF TypeOK, GateInv, RetryInv, Intact, Upgradable, InstallSteps, Host, SwapAgent, Go,
        memory, timers, ghosts, StepInv, UpgradeSteps
<1>26. ASSUME NEW r \in Requests, SwapFails(r) PROVE RetryInv'
    BY <1>26, StepNames, NoneIsNoRequest
    DEF TypeOK, GateInv, RetryInv, Intact, Upgradable, InstallSteps, Host, SwapFails, Done,
        Go, Fault, kept, timers, ghosts
<1>27. ASSUME NEW r \in Requests, scheduleAgentRestart(r) PROVE RetryInv'
    BY <1>27, StepNames, NoneIsNoRequest
    DEF TypeOK, GateInv, RetryInv, Intact, Upgradable, InstallSteps, Host,
        scheduleAgentRestart, Done, Go, disk
<1>28. ASSUME NEW r \in Requests, ScheduleFails(r) PROVE RetryInv'
    BY <1>28, StepNames, NoneIsNoRequest
    DEF TypeOK, GateInv, RetryInv, Intact, Upgradable, InstallSteps, Host, ScheduleFails, Go,
        Fault, memory, disk, ghosts
<1>29. ASSUME NEW r \in Requests, restoreAgentReplacement(r) PROVE RetryInv'
    BY <1>29, StepNames, NoneIsNoRequest
    DEF TypeOK, GateInv, RetryInv, Intact, Upgradable, InstallSteps, Host,
        restoreAgentReplacement, Done, Go, kept, timers, ghosts
<1>30. ASSUME NEW r \in Requests, RestoreReplacementFails(r) PROVE RetryInv'
    BY <1>30, StepNames, NoneIsNoRequest
    DEF TypeOK, GateInv, RetryInv, Intact, Upgradable, InstallSteps, Host,
        RestoreReplacementFails, Done, Go, Fault, timers, ghosts
<1>31. ASSUME RestartFires PROVE RetryInv'
    BY <1>31, StepNames, NoneIsNoRequest
    DEF TypeOK, GateInv, RetryInv, Intact, Upgradable, InstallSteps, Host, RestartFires,
        ProcessEnds, StartFromDisk, disk, TeardownInv, Uninstalled
<1>32. ASSUME StopFires PROVE RetryInv'
    BY <1>32, StepNames, NoneIsNoRequest
    DEF TypeOK, GateInv, RetryInv, Intact, Upgradable, InstallSteps, Host, StopFires,
        ProcessEnds, disk
<1>33. ASSUME Crash PROVE RetryInv'
    BY <1>33, StepNames, NoneIsNoRequest
    DEF TypeOK, GateInv, RetryInv, Intact, Upgradable, InstallSteps, Host, Crash,
        ProcessEnds, StartFromDisk, Fault, disk, TeardownInv, Uninstalled
<1>34. CASE UNCHANGED vars
    BY <1>34
    DEF TypeOK, GateInv, RetryInv, Intact, Upgradable, InstallSteps, Host, vars, memory,
        disk, timers, ghosts
<1> QED
    BY <1>1, <1>2, <1>3, <1>4, <1>5, <1>6, <1>7, <1>8, <1>9, <1>10, <1>11, <1>12, <1>13,
           <1>14, <1>15, <1>16, <1>17, <1>18, <1>19, <1>20, <1>21, <1>22, <1>23, <1>24, <1>25,
           <1>26, <1>27, <1>28, <1>29, <1>30, <1>31, <1>32, <1>33, <1>34, ArriveRequests DEF Next, Handle

-----------------------------------------------------------------------------
(* A provisioned machine with a running agent satisfies the invariant.     *)
LEMMA InitIInv == Init => IInv
<1> SUFFICES ASSUME Init PROVE IInv
    OBVIOUS
<1>1. TypeOK
    BY InitTypeOK
<1>2. \A r \in Requests : pc[r] = "idle" /\ cur[r] = Idle /\ pc[r] \notin Working
    BY StepNames DEF Init
<1>3. StepInv
    BY <1>2, IdleFacts DEF StepInv, InstallSteps, UpgradeSteps
<1>4. GateInv /\ TeardownInv
    BY <1>2 DEF Init, GateInv, TeardownInv, Provisioned, UninstallSteps
<1>5. RetryInv
    BY <1>2, StepNames DEF Init, RetryInv, Intact, Upgradable, Provisioned, InstallSteps
<1> QED
    BY <1>1, <1>3, <1>4, <1>5 DEF IInv

(* The inductive invariant: along every behaviour of the agent, whatever   *)
(* requests race for the gate and wherever a step fails or the process     *)
(* dies.                                                                   *)
THEOREM Invariance == Spec => []IInv
<1>1. IInv /\ [Next]_vars => IInv'
    BY NextTypeOK, NextStepInv, NextGateInv, NextTeardownInv, NextRetryInv DEF IInv
<1> QED
    BY <1>1, InitIInv, PTL DEF Spec

(* One mutation holds the gate at a time, and every variable keeps its     *)
(* type (beginMutation, endMutation).                                      *)
THEOREM TypeCorrect == Spec => []TypeOK
    BY Invariance, PTL DEF IInv

(* An acknowledged uninstall has removed everything, and nothing that was  *)
(* queued behind it brings anything back (Uninstall, beginMutation).       *)
THEOREM UninstallCompletes == Spec => []UninstallIsComplete
<1>1. IInv => UninstallIsComplete
    BY DEF IInv, TeardownInv, Uninstalled, UninstallIsComplete
<1> QED
    BY <1>1, Invariance, PTL

(* Until an uninstall commits, the hub can reach the agent and try again   *)
(* (prepareAgentAndOverlayTeardown, restoreAgentControlPlane).             *)
THEOREM HubRetries == Spec => []HubCanRetry
<1>1. IInv => HubCanRetry
    BY DEF IInv, GateInv, RetryInv, Intact, HubCanRetry
<1> QED
    BY <1>1, Invariance, PTL

(* A failed upgrade leaves the running version on disk, unless its         *)
(* recovery is still owed (Upgrade, restoreAgentReplacement).              *)
THEOREM UpgradeUndone == Spec => []FailedUpgradeUndone
<1>1. IInv => FailedUpgradeUndone
    BY DEF IInv, GateInv, RetryInv, Upgradable, FailedUpgradeUndone
<1> QED
    BY <1>1, Invariance, PTL

=============================================================================
