----------------------------- MODULE FleetUpdate -----------------------------
(***************************************************************************)
(* The two operations that change programs on the whole fleet: the hub's   *)
(* self-update, which upgrades every agent before it replaces the hub's    *)
(* own binary, and the change of the sing-box core, which changes every    *)
(* spoke before the hub.  Operators' consoles run them; a console keeps    *)
(* the version it was launched with, whatever is installed later.          *)
(* Self-updates exclude each other with a lock file.  Core changes do not: *)
(* the model has one console, Changer, that makes them.                    *)
(***************************************************************************)
EXTENDS Integers, Sequences, FiniteSets, SequencesExt

CONSTANTS
    Consoles,      \* the processes of the terminal interface
    Changer,       \* the console that changes the core
    SpokeOrder,    \* the installed spokes, in the registry's order
    Hub,           \* the hub, as a host that runs sing-box
    MaxVersion,    \* releases of singbox-deploy are 0..MaxVersion
    Cores,         \* releases of sing-box
    OldCore,       \* the one every host starts with
    None,
    MaxFaults,     \* bound: failures of calls, steps and timers
    MaxRuns        \* bound: operations started

Spokes == Range(SpokeOrder)
Hosts == Spokes \cup {Hub}
Versions == 0..MaxVersion

ASSUME ConsolesAssumption == Changer \in Consoles /\ None \notin Consoles
ASSUME HostsAssumption ==
    Hub \notin Spokes /\ SpokeOrder \in Seq(Spokes) /\ IsInjective(SpokeOrder)
ASSUME CoresAssumption == OldCore \in Cores /\ None \notin Cores
ASSUME BoundsAssumption == MaxVersion \in Nat \ {0} /\ MaxFaults \in Nat /\ MaxRuns \in Nat

VARIABLES
    hub,      \* the version of the installed hub binary
    lock,     \* the console that holds the self-update lock, or None
    agent,    \* per spoke: the version that runs, the one on disk, a restart due;
              \* late: a console that had read an older version has lowered it
    core,     \* per host: binary, service, recovery backup; good: the release
              \* of the last replacement that was completed or rolled back
    job,      \* per host: the step of a replacement of the core and its tag
    con,      \* per console: where it is in its operation
    faults, runs

vars == <<hub, lock, agent, core, job, con, faults, runs>>

SelfSteps == {"locked", "agents", "upgrade", "await", "replace", "activate", "restore", "reawait"}
CoreSteps == {"preflight", "outdated", "reconcile", "stage", "request", "change", "hub", "hubchange",
              "undohub", "undohubwait", "undo", "undorequest", "undochange"}
JobSteps == {"check", "backup", "stop", "swap", "restart", "clean", "rollback"}
Verdicts == {"ok", "failed", "dirty"}

\* A host where no replacement runs.
NoJob == [step |-> "idle", tag |-> OldCore]
\* A console between operations, launched from version v of the hub.
Menu(v) ==
    [pc |-> "menu", tool |-> v, tag |-> None, i |-> 1, list |-> {},
     old |-> [h \in Hosts |-> None], bad |-> FALSE, alone |-> TRUE]

Agent == [run : Versions, disk : Versions, due : BOOLEAN, late : BOOLEAN]
Core == [bin : Cores, svc : {"up", "down", "stopped"}, backup : Cores \cup {None}, good : Cores]
Job == [step : JobSteps \cup Verdicts \cup {"idle"}, tag : Cores]
Console ==
    [pc : SelfSteps \cup CoreSteps \cup {"off", "menu"}, tool : Versions,
     tag : Versions \cup Cores \cup {None}, i : 0..Len(SpokeOrder) + 1,
     list : SUBSET Spokes, old : [Hosts -> Cores \cup {None}],
     bad : BOOLEAN, alone : BOOLEAN]

\* Every variable keeps its type.
TypeOK ==
    /\ hub \in Versions /\ lock \in Consoles \cup {None}
    /\ agent \in [Spokes -> Agent] /\ core \in [Hosts -> Core] /\ job \in [Hosts -> Job]
    /\ con \in [Consoles -> Console]
    /\ faults \in 0..MaxFaults /\ runs \in 0..MaxRuns

\* The hub may have been installed anew over a fleet with older agents.
Init ==
    /\ hub = 1 /\ lock = None
    /\ \E v \in [Spokes -> {0, 1}] :
         agent = [s \in Spokes |-> [run |-> v[s], disk |-> v[s], due |-> FALSE, late |-> FALSE]]
    /\ core = [h \in Hosts |-> [bin |-> OldCore, svc |-> "up", backup |-> None, good |-> OldCore]]
    /\ job = [h \in Hosts |-> NoJob]
    /\ con = [p \in Consoles |-> Menu(1)]
    /\ faults = 0 /\ runs = 0

Fault == faults < MaxFaults /\ faults' = faults + 1
NoFault == UNCHANGED faults
Go(p, pc) == con' = [con EXCEPT ![p].pc = pc]
\* The next spoke, once the current one is done, at step pc.
Advance(p, pc) == con' = [con EXCEPT ![p].pc = pc, ![p].i = @ + 1]
AtSpoke(p) == con[p].i \in DOMAIN SpokeOrder
Spoke(p) == SpokeOrder[con[p].i]

-----------------------------------------------------------------------------
(* The agents.  An upgrade is durable when it is acknowledged; a transient *)
(* unit restarts the agent a second later, and until then its gate refuses *)
(* every other change.                                                     *)

\* beginMutation: no other change runs, and no restart is due.
GateOpen(s) == job[s].step = "idle" /\ ~agent[s].due

Upgraded(s, v, late) ==
    agent' = [agent EXCEPT ![s] = [@ EXCEPT !.disk = v, !.due = TRUE, !.late = late]]

AgentRestarts(s) ==
    /\ agent[s].due
    /\ agent' = [agent EXCEPT ![s] = [@ EXCEPT !.run = agent[s].disk, !.due = FALSE]]
    /\ UNCHANGED <<hub, lock, core, job, con, faults, runs>>

\* The agent dies in the middle of a replacement and systemd starts it again;
\* the files and the service stay as they are, and the caller gets an error.
AgentDies(s) ==
    /\ job[s].step \in JobSteps
    /\ Fault
    /\ job' = [job EXCEPT ![s].step = "dirty"]
    /\ UNCHANGED <<hub, lock, agent, core, con, runs>>

-----------------------------------------------------------------------------
(* Consoles.                                                               *)

Launch(p) ==
    /\ con[p].pc = "off"
    /\ con' = [con EXCEPT ![p] = Menu(hub)]
    /\ UNCHANGED <<hub, lock, agent, core, job, faults, runs>>

\* The console is killed: the kernel drops its lock.  A replacement of the
\* hub's core that it was running stops where it was; one that an agent runs
\* for it goes on.
Crash(p) ==
    /\ con[p].pc \notin {"off", "menu"}
    /\ Fault
    /\ con' = [con EXCEPT ![p] = [Menu(@.tool) EXCEPT !.pc = "off"]]
    /\ lock' = IF lock = p THEN None ELSE lock
    /\ job' = IF p = Changer THEN [job EXCEPT ![Hub] = NoJob] ELSE job
    /\ UNCHANGED <<hub, agent, core, runs>>

\* The operation ends and the console is back at its menu.
Finish(p) == con' = [con EXCEPT ![p] = Menu(@.tool)]

-----------------------------------------------------------------------------
(* Self-update.                                                            *)

\* Mutated form: the installed version is not read again under the lock.
MayUpdateUnchecked(p, tag) == TRUE

\* Run, under the lock: the installed binary is the one this console is, and
\* is not the target yet.
MayUpdate(p, tag) == hub # tag /\ hub = con[p].tool

\* Run up to the end of the download.  A refusal and a failed download leave
\* no trace.  A restart that an earlier update left due takes a second and is
\* over by the time the release is downloaded.
selfupdateRun(p, tag) ==
    /\ con[p].pc = "menu" /\ runs < MaxRuns
    /\ tag > con[p].tool
    /\ lock = None /\ MayUpdate(p, tag)
    /\ lock' = p
    /\ con' = [con EXCEPT ![p].pc = "locked", ![p].tag = tag]
    /\ runs' = runs + 1
    /\ UNCHANGED <<hub, agent, core, job, faults>>

Downloaded(p) ==
    /\ con[p].pc = "locked"
    /\ \A s \in Spokes : ~agent[s].due
    /\ Go(p, "agents")
    /\ UNCHANGED <<hub, lock, agent, core, job, faults, runs>>

DownloadFails(p) ==
    /\ con[p].pc = "locked" /\ Fault
    /\ Finish(p) /\ lock' = None
    /\ UNCHANGED <<hub, agent, core, job, runs>>

\* upgradeSelectedSpokeAgents for one spoke: the agent is asked for its
\* version.  One that runs the target is recorded, and an older one too, to be
\* upgraded next.
CheckHealth(p) ==
    /\ con[p].pc = "agents" /\ AtSpoke(p)
    /\ agent[Spoke(p)].run <= con[p].tag
    /\ IF agent[Spoke(p)].run = con[p].tag
       THEN con' = [con EXCEPT ![p].list = @ \cup {Spoke(p)}, ![p].i = @ + 1]
       ELSE con' = [con EXCEPT ![p].list = @ \cup {Spoke(p)}, ![p].pc = "upgrade"]
    /\ UNCHANGED <<hub, lock, agent, core, job, faults, runs>>

\* reconcileAgentVersion's Upgrade, for both operations: a call of its own,
\* which the agent obeys whatever version it has by now.
reconcileAgentVersion(p) ==
    /\ con[p].pc \in {"upgrade", "outdated"}
    /\ LET s == Spoke(p)
           v == IF con[p].pc = "upgrade" THEN con[p].tag ELSE con[p].tool IN
        /\ GateOpen(s)
        /\ Upgraded(s, v, agent[s].late \/ v < agent[s].disk)
    /\ Go(p, IF con[p].pc = "upgrade" THEN "await" ELSE "reconcile")
    /\ UNCHANGED <<hub, lock, core, job, faults, runs>>

\* The spokes recorded so far are brought back; a spoke whose upgrade was not
\* acknowledged is one of them, for the upgrade may have happened.
Restoring(p, list) == con' = [con EXCEPT ![p].pc = "restore", ![p].list = list, ![p].i = 1]

\* The agent is not reachable, is newer than the target, or refuses.
CheckHealthFails(p) ==
    /\ \/ /\ con[p].pc = "agents" /\ AtSpoke(p)
          /\ IF agent[Spoke(p)].run > con[p].tag THEN NoFault ELSE Fault
       \/ con[p].pc = "upgrade" /\ Fault
    /\ Restoring(p, con[p].list)
    /\ UNCHANGED <<hub, lock, agent, core, job, runs>>

\* reconcileAgentVersion's wait for the agent to come back.
Returned(p) ==
    /\ con[p].pc \in {"await", "reconcile"}
    /\ LET v == IF con[p].pc = "await" THEN con[p].tag ELSE con[p].tool IN
        agent[Spoke(p)].run = v
    /\ IF con[p].pc = "await" THEN Advance(p, "agents") ELSE Go(p, "preflight")
    /\ UNCHANGED <<hub, lock, agent, core, job, faults, runs>>

\* The acknowledgement is lost, or the agent does not come back in time.
ReturnTimesOut(p) ==
    /\ con[p].pc = "await" /\ Fault
    /\ Restoring(p, con[p].list)
    /\ UNCHANGED <<hub, lock, agent, core, job, runs>>

\* The rename of the candidate over the installed binary: the commit.
Replace(p) ==
    /\ con[p].pc = "agents" /\ ~AtSpoke(p)
    /\ hub' = con[p].tag
    /\ Go(p, "activate")
    /\ UNCHANGED <<lock, agent, core, job, faults, runs>>

\* ReplaceFailed restores every installed spoke of the registry.
ReplaceFails(p) ==
    /\ con[p].pc = "agents" /\ ~AtSpoke(p) /\ Fault
    /\ Restoring(p, Spokes)
    /\ UNCHANGED <<hub, lock, agent, core, job, runs>>

\* AfterReplace: the services restart, or an error says that the update is
\* committed; either way the console shows the new tag and quits.
AfterReplace(p) ==
    /\ con[p].pc = "activate"
    /\ NoFault \/ Fault
    /\ con' = [con EXCEPT ![p] = [Menu(@.tool) EXCEPT !.pc = "off"]]
    /\ lock' = None
    /\ UNCHANGED <<hub, agent, core, job, runs>>

\* Mutated form: the restore trusts a health report of the old version.
RestoreIfNeeded(p) ==
    /\ con[p].pc = "restore" /\ AtSpoke(p)
    /\ Spoke(p) \in con[p].list
    /\ IF agent[Spoke(p)].run = con[p].tool
       THEN UNCHANGED agent /\ Advance(p, "restore")
       ELSE GateOpen(Spoke(p)) /\ Upgraded(Spoke(p), con[p].tool, agent[Spoke(p)].late) /\ Go(p, "reawait")
    /\ UNCHANGED <<hub, lock, core, job, faults, runs>>

\* RestoreAgentVersion: the version of this console is installed again even
\* where health already reports it, and only an acknowledgement counts.
RestoreAgentVersion(p) ==
    /\ con[p].pc = "restore" /\ AtSpoke(p)
    /\ Spoke(p) \in con[p].list
    /\ GateOpen(Spoke(p))
    /\ Upgraded(Spoke(p), con[p].tool, agent[Spoke(p)].late)
    /\ Go(p, "reawait")
    /\ UNCHANGED <<hub, lock, core, job, faults, runs>>

RestoreSkips(p) ==
    /\ con[p].pc = "restore" /\ AtSpoke(p)
    /\ Spoke(p) \notin con[p].list
    /\ Advance(p, "restore")
    /\ UNCHANGED <<hub, lock, agent, core, job, faults, runs>>

\* waitForHealthyVersion.
Restored(p) ==
    /\ con[p].pc = "reawait"
    /\ agent[Spoke(p)].run = con[p].tool
    /\ Advance(p, "restore")
    /\ UNCHANGED <<hub, lock, agent, core, job, faults, runs>>

\* No acknowledgement, or no healthy answer, in a minute: the error is joined
\* and the next spoke is restored.
RestoreFails(p) ==
    /\ \/ con[p].pc = "restore" /\ AtSpoke(p) /\ Spoke(p) \in con[p].list
       \/ con[p].pc = "reawait"
    /\ Fault
    /\ con' = [con EXCEPT ![p].pc = "restore", ![p].i = @ + 1, ![p].bad = TRUE]
    /\ UNCHANGED <<hub, lock, agent, core, job, runs>>

UpdateFailed(p) ==
    /\ con[p].pc = "restore" /\ ~AtSpoke(p)
    /\ Finish(p) /\ lock' = None
    /\ UNCHANGED <<hub, agent, core, job, faults, runs>>

-----------------------------------------------------------------------------
(* One host's replacement of the core: core.Manager.replaceWithTag.        *)

Step(h, s) == job' = [job EXCEPT ![h].step = s]
UnchangedButCore == UNCHANGED <<hub, lock, agent, con, runs>>

\* Mutated form: the update directory is cleaned without a look for a backup.
CheckCoreBlindly(h) ==
    /\ job[h].step = "check"
    /\ \/ NoFault /\ Step(h, "backup") /\ core' = [core EXCEPT ![h].backup = None]
       \/ Fault /\ Step(h, "failed") /\ UNCHANGED core
    /\ UnchangedButCore

\* Download, Verify, Version and Validate.  A recovery backup that is still
\* there refuses the replacement; nothing has changed yet in any failure.
CheckCore(h) ==
    /\ job[h].step = "check"
    /\ \/ core[h].backup = None /\ NoFault /\ Step(h, "backup")
       \/ core[h].backup # None /\ NoFault /\ Step(h, "failed")
       \/ core[h].backup = None /\ Fault /\ Step(h, "failed")
    /\ UNCHANGED core /\ UnchangedButCore

BackUp(h) ==
    /\ job[h].step = "backup"
    /\ \/ NoFault /\ Step(h, "stop") /\ core' = [core EXCEPT ![h].backup = core[h].bin]
       \/ Fault /\ Step(h, "failed") /\ UNCHANGED core
    /\ UnchangedButCore

Stop(h) ==
    /\ job[h].step = "stop"
    /\ \/ NoFault /\ Step(h, "swap") /\ core' = [core EXCEPT ![h].svc = "down"]
       \/ Fault /\ Step(h, "rollback") /\ core' = [core EXCEPT ![h].svc = "down"]
       \/ Fault /\ Step(h, "rollback") /\ UNCHANGED core
    /\ UnchangedButCore

Swap(h) ==
    /\ job[h].step = "swap"
    /\ \/ NoFault /\ Step(h, "restart") /\ core' = [core EXCEPT ![h].bin = job[h].tag]
       \/ Fault /\ Step(h, "rollback") /\ UNCHANGED core
    /\ UnchangedButCore

\* The commit of the replacement.
Restart(h) ==
    /\ job[h].step = "restart"
    /\ \/ /\ NoFault /\ Step(h, "clean")
          /\ core' = [core EXCEPT ![h] = [@ EXCEPT !.svc = "up", !.good = core[h].bin]]
       \/ Fault /\ Step(h, "rollback") /\ UNCHANGED core
    /\ UnchangedButCore

\* The backup goes with the update directory; the agent then verifies the
\* version.  A failed clean-up is an error of a
\* replacement that is committed, and may leave the backup behind.
CleanUp(h) ==
    /\ job[h].step = "clean"
    /\ \/ /\ NoFault /\ Step(h, "ok")
          /\ core' = [core EXCEPT ![h].backup = None]
       \/ Fault /\ Step(h, "failed") /\ core' = [core EXCEPT ![h].backup = None]
       \/ Fault /\ Step(h, "failed") /\ UNCHANGED core
    /\ UnchangedButCore

\* rollbackReplacement: the backup is put back and the service restarted; a
\* failure of either keeps the backup.
rollbackReplacement(h) ==
    /\ job[h].step = "rollback"
    /\ \/ /\ NoFault /\ Step(h, "failed")
          /\ core' = [core EXCEPT ![h] = [@ EXCEPT !.bin = core[h].backup, !.svc = "up",
                     !.backup = None, !.good = core[h].backup]]
       \/ Fault /\ Step(h, "dirty") /\ UNCHANGED core
       \/ Fault /\ Step(h, "dirty") /\ core' = [core EXCEPT ![h].bin = core[h].backup]
    /\ UnchangedButCore

Replacing(h) ==
    \/ CheckCore(h) \/ BackUp(h) \/ Stop(h) \/ Swap(h) \/ Restart(h) \/ CleanUp(h)
    \/ rollbackReplacement(h)

\* The agent's handler ends and nobody waits for its answer any more.
Unread(s) ==
    /\ job[s].step \in Verdicts
    /\ \A p \in Consoles : con[p].pc \in {"change", "undochange"} => Spoke(p) # s
    /\ job' = [job EXCEPT ![s] = NoJob]
    /\ UNCHANGED <<hub, lock, agent, core, con, faults, runs>>

\* An operator starts, restarts or stops the hub's service from the menu of a
\* console, at any time; a core change the stop falls into is not alone.
serviceAction(p, up) ==
    /\ con[p].pc = "menu"
    /\ up # (core[Hub].svc = "up")
    /\ core' = [core EXCEPT ![Hub].svc = IF up THEN "up" ELSE "stopped"]
    /\ con' = [con EXCEPT ![Changer].alone = IF con[Changer].pc = "menu" THEN TRUE ELSE up /\ @]
    /\ UNCHANGED <<hub, lock, agent, job, faults, runs>>

-----------------------------------------------------------------------------
(* The change of the fleet's core.                                         *)

\* No host is in the middle of a replacement that an earlier change began.
NoReplacement == \A h \in Hosts : job[h].step = "idle"

\* Every error before the first change ends the operation with the fleet as
\* it was; preflight wants the hub's service up.
ChangeFleetCore(tag) ==
    LET p == Changer IN
    /\ con[p].pc = "menu" /\ runs < MaxRuns
    /\ core[Hub].svc = "up"
    /\ con' = [con EXCEPT ![p] = [@ EXCEPT !.pc = "preflight", !.tag = tag,
                 !.old[Hub] = core[Hub].bin,
                 !.alone = NoReplacement]]
    /\ runs' = runs + 1
    /\ UNCHANGED <<hub, lock, agent, core, job, faults>>

\* The upgrade-only policy, on release versions.
shouldReplaceAgentVersion(reported, expected) == reported < expected

\* inspectFleetCore for one spoke; an agent older than the console is to be
\* upgraded.  No lock keeps a self-update of another console away.
inspectFleetCore(p) ==
    /\ con[p].pc = "preflight" /\ AtSpoke(p)
    /\ LET s == Spoke(p) IN
        IF shouldReplaceAgentVersion(agent[s].run, con[p].tool)
        THEN Go(p, "outdated")
        ELSE /\ core[s].svc = "up"
             /\ con' = [con EXCEPT ![p].old[s] = core[s].bin, ![p].i = @ + 1]
    /\ UNCHANGED <<hub, lock, agent, core, job, faults, runs>>

PreflightFails(p) ==
    /\ con[p].pc \in {"preflight", "outdated", "reconcile"} /\ AtSpoke(p)
    /\ IF core[Spoke(p)].svc = "up" THEN Fault ELSE NoFault
    /\ Finish(p)
    /\ UNCHANGED <<hub, lock, agent, core, job, runs>>

PreflightDone(p) ==
    /\ con[p].pc = "preflight" /\ ~AtSpoke(p)
    /\ con' = [con EXCEPT ![p].pc = "stage", ![p].i = 1]
    /\ UNCHANGED <<hub, lock, agent, core, job, faults, runs>>

\* The version a step installs: the target, or on the way back the old one.
Wanted(p) == IF con[p].pc \in {"stage", "request", "change"} THEN con[p].tag ELSE con[p].old[Spoke(p)]

\* stageSpokeCore: the agent's own download, or else the archive the hub
\* pushes; it only saves ChangeCore the download.  A spoke on the wanted
\* version is passed over, and on the way back
\* one that was not recorded.
Passed(p) ==
    IF con[p].pc = "stage" THEN con[p].old[Spoke(p)] = con[p].tag ELSE Spoke(p) \notin con[p].list

PassOver(p) ==
    /\ con[p].pc \in {"stage", "undo"} /\ AtSpoke(p) /\ Passed(p)
    /\ con' = [con EXCEPT ![p].i = IF con[p].pc = "stage" THEN @ + 1 ELSE @ - 1]
    /\ UNCHANGED <<hub, lock, agent, core, job, faults, runs>>

stageSpokeCore(p) ==
    /\ con[p].pc \in {"stage", "undo"} /\ AtSpoke(p) /\ ~Passed(p)
    /\ GateOpen(Spoke(p))
    /\ Go(p, IF con[p].pc = "stage" THEN "request" ELSE "undorequest")
    /\ UNCHANGED <<hub, lock, agent, core, job, faults, runs>>

\* ChangeCore is sent; the spoke is recorded first.
ChangeCore(p) ==
    /\ con[p].pc \in {"request", "undorequest"}
    /\ GateOpen(Spoke(p))
    /\ job' = [job EXCEPT ![Spoke(p)] = [step |-> "check", tag |-> Wanted(p)]]
    /\ con' = [con EXCEPT ![p].pc = IF @ = "request" THEN "change" ELSE "undochange",
                          ![p].list = @ \cup {Spoke(p)}]
    /\ UNCHANGED <<hub, lock, agent, core, faults, runs>>

\* The rollback, from the last spoke to the first.
Undoing(p, pc, bad) ==
    con' = [con EXCEPT ![p].pc = pc, ![p].i = Len(SpokeOrder), ![p].bad = @ \/ bad]

\* The staging or the request fails, or the connection breaks while the agent
\* goes on with the replacement.
SpokeCallFails(p) ==
    /\ Fault
    /\ \/ /\ con[p].pc \in {"stage", "undo"} /\ AtSpoke(p) /\ ~Passed(p)
       \/ con[p].pc \in {"request", "change", "undorequest", "undochange"}
    /\ IF con[p].pc \in {"stage", "request", "change"}
       THEN /\ con' = [con EXCEPT ![p].pc = "undo", ![p].i = Len(SpokeOrder),
                         ![p].list = @ \cup (IF con[p].pc = "stage" THEN {} ELSE {Spoke(p)})]
       ELSE con' = [con EXCEPT ![p].pc = "undo", ![p].i = @ - 1, ![p].bad = TRUE]
    /\ UNCHANGED <<hub, lock, agent, core, job, runs>>

Verified(h, tag) == core[h].bin = tag /\ core[h].svc = "up"

\* The answer of the agent, then verifySpokeCore.
SpokeAnswers(p) ==
    /\ con[p].pc \in {"change", "undochange"}
    /\ LET s == Spoke(p)
           good == job[s].step = "ok" /\ Verified(s, Wanted(p)) IN
        /\ job[s].step \in Verdicts
        /\ job' = [job EXCEPT ![s] = NoJob]
        /\ IF con[p].pc = "change"
           THEN IF good THEN Advance(p, "stage") ELSE Undoing(p, "undo", FALSE)
           ELSE con' = [con EXCEPT ![p].pc = "undo", ![p].i = @ - 1, ![p].bad = @ \/ ~good]
    /\ UNCHANGED <<hub, lock, agent, core, faults, runs>>

\* The hub is last; it is verified even when it already has the target.
ChangeLocalCore(p) ==
    /\ con[p].pc = "stage" /\ ~AtSpoke(p)
    /\ IF con[p].old[Hub] = con[p].tag
       THEN IF Verified(Hub, con[p].tag)
            THEN Go(p, "hub") /\ UNCHANGED job
            ELSE Undoing(p, "undohub", FALSE) /\ UNCHANGED job
       ELSE /\ job' = [job EXCEPT ![Hub] = [step |-> "check", tag |-> con[p].tag]]
            /\ Go(p, "hubchange")
    /\ UNCHANGED <<hub, lock, agent, core, faults, runs>>

HubChanged(p) ==
    /\ con[p].pc \in {"hubchange", "undohubwait"}
    /\ job[Hub].step \in Verdicts
    /\ job' = [job EXCEPT ![Hub] = NoJob]
    /\ LET good == job[Hub].step = "ok" /\ Verified(Hub, job[Hub].tag) IN
        IF con[p].pc = "hubchange"
        THEN IF good THEN Go(p, "hub") ELSE Undoing(p, "undohub", job[Hub].step = "dirty")
        ELSE Undoing(p, "undo", ~good)
    /\ UNCHANGED <<hub, lock, agent, core, faults, runs>>

\* The hub is rolled back only when its binary is not the old one.
UndoHub(p) ==
    /\ con[p].pc = "undohub"
    /\ IF core[Hub].bin = con[p].old[Hub]
       THEN Go(p, "undo") /\ UNCHANGED job
       ELSE /\ job' = [job EXCEPT ![Hub] = [step |-> "check", tag |-> con[p].old[Hub]]]
            /\ Go(p, "undohubwait")
    /\ UNCHANGED <<hub, lock, agent, core, faults, runs>>

\* The end of ChangeFleetCore: the whole fleet changed, or the joined errors.
CoreFinished(p) ==
    /\ con[p].pc = "hub" \/ (con[p].pc = "undo" /\ ~AtSpoke(p))
    /\ Finish(p)
    /\ UNCHANGED <<hub, lock, agent, core, job, faults, runs>>

-----------------------------------------------------------------------------

SelfUpdate(p) ==
    \/ \E v \in Versions : selfupdateRun(p, v)
    \/ Downloaded(p) \/ DownloadFails(p) \/ CheckHealth(p) \/ CheckHealthFails(p)
    \/ reconcileAgentVersion(p) \/ Returned(p) \/ ReturnTimesOut(p) \/ Replace(p) \/ ReplaceFails(p) \/ AfterReplace(p)
    \/ RestoreAgentVersion(p) \/ RestoreSkips(p) \/ Restored(p) \/ RestoreFails(p)
    \/ UpdateFailed(p)

FleetCore(p) ==
    \/ inspectFleetCore(p) \/ PreflightFails(p) \/ PreflightDone(p)
    \/ PassOver(p) \/ stageSpokeCore(p) \/ ChangeCore(p) \/ SpokeCallFails(p) \/ SpokeAnswers(p)
    \/ ChangeLocalCore(p) \/ HubChanged(p) \/ UndoHub(p) \/ CoreFinished(p)

Next ==
    \/ \E p \in Consoles : Launch(p) \/ Crash(p) \/ SelfUpdate(p)
    \/ FleetCore(Changer)
    \/ \E c \in Cores : ChangeFleetCore(c)
    \/ \E s \in Spokes : AgentRestarts(s) \/ AgentDies(s) \/ Unread(s)
    \/ \E h \in Hosts : Replacing(h)
    \/ \E p \in Consoles, up \in BOOLEAN : serviceAction(p, up)

Spec == Init /\ [][Next]_vars

-----------------------------------------------------------------------------
(* Properties.                                                             *)

\* The hub drives its agents with its own protocol, so it is replaced last and
\* no step leaves an agent older than the hub that was not so before: neither
\* an update that fails half way, nor a console launched before another
\* console's update, nor one killed while it restores agents
\* (selfupdate.go:61-63, Run; hubctl.go, reconcileAgentVersion).  Not meant is
\* an agent that a console has lowered: it had read the agent's version, and
\* its Upgrade arrived when another console had brought the agent further.
BehindHub == {s \in Spokes : ~agent[s].late /\ (agent[s].run < hub \/ agent[s].disk < hub)}
NoAgentFallsBehind == [][BehindHub' \subseteq BehindHub]_vars

\* The "upgrade-only policy" of hubctl.go:1209, which does not hold.
UpgradeOnly == \A s \in Spokes : ~agent[s].late

\* An operation that has ended tells the truth.  A self-update that failed and
\* reported no failed restore leaves every agent it touched on the hub's own
\* version on disk, but for the lowered agents of BehindHub.  A core change
\* that succeeded has every host up on the target, and one that failed without
\* a rollback error has every host up on the version of its preflight
\* ("possible drift is never hidden", hubctl/core.go:30-34), although answers
\* are lost, agents die and replacements fail at any step.
OutcomeIsTrue ==
    [][\A p \in Consoles : con'[p].pc = "menu" =>
        /\ con[p].pc = "restore" /\ ~con[p].bad
             => \A s \in con[p].list : agent[s].late \/ agent[s].disk = hub
        /\ con[p].pc = "hub" /\ con[p].alone
             => \A h \in Hosts : Verified(h, con[p].tag)
        /\ con[p].pc = "undo" /\ con[p].alone /\ ~con[p].bad
             => \A h \in Hosts : Verified(h, con[p].old[h])]_vars

\* Whatever step of a replacement fails or is interrupted, on the hub or on a
\* spoke, and however many follow it: a host whose service a replacement left
\* down has a backup, and it is of the release that the last completed or
\* rolled back replacement had put into service, not of one that never ran
\* (manager.go:166-168, the refusal while a backup exists).
CoreRecoverable ==
    \A h \in Hosts : core[h].svc = "down" => core[h].backup = core[h].good
=============================================================================
