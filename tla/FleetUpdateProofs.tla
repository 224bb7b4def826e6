-------------------------- MODULE FleetUpdateProofs --------------------------
(***************************************************************************)
(* The safety of the self-update and of the change of the core, for every  *)
(* number of consoles, spokes, releases and failures: agents never fall    *)
(* behind the hub, a host that a replacement left down can be recovered,   *)
(* and an operation that has ended tells the truth about what it left.     *)
(***************************************************************************)
EXTENDS FleetUpdate, TLAPS

(* What a console's operation is at, and for which spoke.                  *)
WaitSteps == {"upgrade", "await", "outdated", "reconcile", "reawait", "request", "change",
              "undorequest", "undochange"}

(* The self-update holds the lock and is for the installed hub.            *)
SelfAt(p) ==
    /\ con[p].tool <= hub
    /\ con[p].pc \in SelfSteps =>
          /\ lock = p /\ con[p].tag \in Versions /\ con[p].tag > con[p].tool
          /\ con[p].pc # "activate" => hub = con[p].tool

(* The core change is the Changer's, and knows what to roll back to.       *)
CoreAt(p) ==
    /\ con[p].pc \in CoreSteps => p = Changer /\ con[p].tag \in Cores /\ con[p].old[Hub] \in Cores
    /\ con[p].pc \in {"preflight", "outdated", "reconcile"} =>
          \A j \in 1..con[p].i - 1 : con[p].old[SpokeOrder[j]] \in Cores
    /\ con[p].pc \in CoreSteps \ {"preflight", "outdated", "reconcile"} => \A h \in Hosts : con[p].old[h] \in Cores

SpokeAt(p) ==
    /\ con[p].pc \in WaitSteps => AtSpoke(p)
    /\ con[p].pc \in SelfSteps \cup {"preflight", "outdated", "reconcile"} => con[p].i >= 1
    /\ con[p].pc \in {"off", "menu", "locked"} => con[p].i = 1

(* The agents a self-update is done with, or has just upgraded, but for    *)
(* those that another console has lowered since.                           *)
Reached(s, v) == agent[s].late \/ (agent[s].run >= v /\ agent[s].disk >= v)
Written(s, v) == agent[s].late \/ agent[s].disk >= v

AgentsAt(p) ==
    con[p].pc \in {"agents", "upgrade", "await"} =>
        /\ \A s \in Spokes : agent[s].due => Written(s, agent[s].run)
        /\ \A j \in 1..con[p].i - 1 : Reached(SpokeOrder[j], con[p].tag)
        /\ con[p].pc = "await" => Written(Spoke(p), con[p].tag)

ConsoleInv == \A p \in Consoles : SelfAt(p) /\ CoreAt(p) /\ SpokeAt(p) /\ AgentsAt(p)

(* An agent that no restart is due for runs what is on its disk.           *)
Settled == \A s \in Spokes : ~agent[s].due => agent[s].run = agent[s].disk

(* The backup is there from before the service stops until it is up again. *)
(* It is of the binary in service, for that is the one on disk whenever    *)
(* there is no backup.                                                     *)
RecoveryAt(h) ==
    /\ core[h].backup = None => core[h].bin = core[h].good
    /\ job[h].step = "backup" => core[h].backup = None
    /\ job[h].step \in {"stop", "swap", "restart", "rollback"} => core[h].backup = core[h].good
    /\ job[h].step = "clean" => core[h].svc # "down" /\ core[h].bin = core[h].good
    /\ core[h].svc = "down" => core[h].backup = core[h].good

CoreInv == \A h \in Hosts : RecoveryAt(h)

IInv == TypeOK /\ ConsoleInv /\ Settled /\ CoreInv

-----------------------------------------------------------------------------
(* The names of the steps.                                                 *)
LEMMA StepNames ==
    /\ SelfSteps = {"locked", "agents", "upgrade", "await", "replace", "activate", "restore", "reawait"}
    /\ CoreSteps = {"preflight", "outdated", "reconcile", "stage", "request", "change", "hub",
                    "hubchange", "undohub", "undohubwait", "undo", "undorequest", "undochange"}
    /\ JobSteps = {"check", "backup", "stop", "swap", "restart", "clean", "rollback"}
    /\ Verdicts = {"ok", "failed", "dirty"}
    /\ WaitSteps = {"upgrade", "await", "outdated", "reconcile", "reawait", "request", "change",
                    "undorequest", "undochange"}
    BY DEF SelfSteps, CoreSteps, JobSteps, Verdicts, WaitSteps

(* The registry's order of the spokes.                                     *)
LEMMA Order ==
    /\ Len(SpokeOrder) \in Nat /\ DOMAIN SpokeOrder = 1..Len(SpokeOrder)
    /\ \A j \in 1..Len(SpokeOrder) : SpokeOrder[j] \in Spokes
    /\ \A s \in Spokes : \E j \in 1..Len(SpokeOrder) : SpokeOrder[j] = s
    /\ Spokes \subseteq Hosts /\ Hub \in Hosts
<1>1. SpokeOrder \in Seq(Spokes)
    BY HostsAssumption
<1>2. Len(SpokeOrder) \in Nat /\ DOMAIN SpokeOrder = 1..Len(SpokeOrder)
    BY <1>1
<1>3. \A s \in Spokes : \E j \in DOMAIN SpokeOrder : SpokeOrder[j] = s
    BY DEF Spokes, Range
<1> QED
    BY <1>1, <1>2, <1>3 DEF Hosts

\* Versions are numbers.
LEMMA VersionFacts ==
    /\ 0 \in Versions /\ 1 \in Versions
    /\ \A v \in Versions : v \in Int
    BY BoundsAssumption DEF Versions

(* A console, field by field.                                              *)
LEMMA ConsoleFacts ==
    ASSUME TypeOK, NEW p \in Consoles
    PROVE  /\ con[p] \in Console /\ con[p].pc \in SelfSteps \cup CoreSteps \cup {"off", "menu"}
           /\ con[p].tool \in Versions /\ con[p].tag \in Versions \cup Cores \cup {None}
           /\ con[p].i \in 0..Len(SpokeOrder) + 1 /\ con[p].i \in Int /\ con[p].tool \in Int
           /\ con[p].list \subseteq Spokes /\ con[p].old \in [Hosts -> Cores \cup {None}]
           /\ con[p].bad \in BOOLEAN /\ con[p].alone \in BOOLEAN
           /\ AtSpoke(p) => con[p].i \in 1..Len(SpokeOrder) /\ Spoke(p) \in Spokes /\ Spoke(p) \in Hosts
<1>1. con[p] \in Console
    BY DEF TypeOK
<1>2. con[p].tool \in Int
    BY <1>1, VersionFacts DEF Console
<1> QED
    BY <1>1, <1>2, Order DEF Console, AtSpoke, Spoke

Quit(v) == [Menu(v) EXCEPT !.pc = "off"]

\* A console at its menu, or closed, is well typed.
LEMMA MenuFacts ==
    ASSUME NEW v \in Versions
    PROVE  /\ Menu(v) \in Console /\ Menu(v).pc = "menu" /\ Menu(v).tool = v /\ Menu(v).i = 1
           /\ Quit(v) \in Console /\ Quit(v).pc = "off" /\ Quit(v).tool = v /\ Quit(v).i = 1
<1>1. 1 \in 0..Len(SpokeOrder) + 1
    BY Order
<1>2. [h \in Hosts |-> None] \in [Hosts -> Cores \cup {None}]
    OBVIOUS
<1>3. Menu(v) \in Console
    BY <1>1, <1>2 DEF Menu, Console
<1>4. Quit(v) \in Console
    BY <1>3 DEF Quit, Console
<1> QED
    BY <1>3, <1>4 DEF Menu, Quit

(* An agent, field by field.                                               *)
LEMMA AgentFacts ==
    ASSUME TypeOK, NEW s \in Spokes
    PROVE  /\ agent[s] \in Agent /\ agent[s].run \in Versions /\ agent[s].disk \in Versions
           /\ agent[s].due \in BOOLEAN /\ agent[s].late \in BOOLEAN /\ agent[s].run \in Int /\ agent[s].disk \in Int
<1>1. agent[s] \in Agent
    BY DEF TypeOK
<1> QED
    BY <1>1, VersionFacts DEF Agent


-----------------------------------------------------------------------------
(* What every step of a console does.                                      *)
Changed(p) == con' \in [Consoles -> Console] /\ \A q \in Consoles \ {p} : con'[q] = con[q]
Upg(s, v, l) ==
    /\ agent' \in [Spokes -> Agent]
    /\ agent'[s].run = agent[s].run /\ agent'[s].disk = v /\ agent'[s].due = TRUE
    /\ agent'[s].late = l
    /\ \A t \in Spokes \ {s} : agent'[t] = agent[t]
JobSet(h, j) ==
    job' \in [Hosts -> Job] /\ job'[h] = j /\ \A g \in Hosts \ {h} : job'[g] = job[g]

\* An acknowledged upgrade changes one agent.
LEMMA Upgrading ==
    ASSUME TypeOK, NEW s \in Spokes, NEW v \in Versions, NEW l \in BOOLEAN, Upgraded(s, v, l)
    PROVE  Upg(s, v, l)
<1>1. agent[s] \in Agent
    BY AgentFacts
<1>2. PICK a : a = [agent[s] EXCEPT !.disk = v, !.due = TRUE, !.late = l]
    OBVIOUS
<1>3. a \in Agent
    BY <1>1, <1>2, Zenon DEF Agent
<1>4. a.run = agent[s].run /\ a.disk = v /\ a.due = TRUE /\ a.late = l
    BY <1>1, <1>2 DEF Agent
<1>5. agent' = [agent EXCEPT ![s] = a]
    BY <1>2 DEF TypeOK, Upgraded
<1> QED
    BY <1>3, <1>4, <1>5 DEF TypeOK, Upg

\* A core job is set on one host.
LEMMA SettingJob ==
    ASSUME TypeOK, NEW h \in Hosts, NEW j \in Job, job' = [job EXCEPT ![h] = j]
    PROVE  JobSet(h, j)
    BY DEF TypeOK, JobSet

\* No job, and a new one, are well typed.
LEMMA JobTypes ==
    NoJob \in Job /\ \A t \in Cores : [step |-> "check", tag |-> t] \in Job
    BY CoresAssumption, StepNames DEF NoJob, Job

\* A failure is counted, within the bound.
LEMMA Failing ==
    ASSUME TypeOK, Fault
    PROVE  faults' \in 0..MaxFaults
    BY BoundsAssumption DEF TypeOK, Fault

\* The core of a host is well typed.
LEMMA CoreFacts ==
    ASSUME TypeOK, NEW h \in Hosts
    PROVE  /\ core[h] \in Core /\ core[h].bin \in Cores /\ core[h].backup \in Cores \cup {None}
           /\ core[h].good \in Cores
    BY DEF TypeOK, Core

\* What the invariant says of one console.
LEMMA Mine ==
    ASSUME ConsoleInv, NEW p \in Consoles
    PROVE  SelfAt(p) /\ CoreAt(p) /\ SpokeAt(p) /\ AgentsAt(p)
    BY DEF ConsoleInv

(* What a console's step p leaves to the others: the lock is taken only when *)
(* it is free, and without it an agent gets no older version unnoticed, and *)
(* none beyond the hub's.                                                   *)
Frame(p) ==
    /\ Changed(p)
    /\ lock' = lock \/ lock \in {p, None}
    /\ hub' = hub \/ (lock = p /\ hub' >= hub)
    /\ \A s \in Spokes :
          \/ agent'[s] = agent[s]
          \/ lock = p
          \/ agent'[s].late
          \/ /\ ~agent[s].late /\ agent'[s].run = agent[s].run
             /\ agent'[s].disk >= agent[s].disk /\ agent'[s].disk >= agent[s].run
             /\ agent'[s].disk <= hub

(* What every step of a console establishes.                               *)
Safe(p) ==
    /\ TypeOK' /\ Frame(p)
    /\ SelfAt(p)' /\ CoreAt(p)' /\ SpokeAt(p)' /\ AgentsAt(p)'
    /\ Settled' /\ CoreInv' /\ BehindHub' \subseteq BehindHub

\* The parts of the invariant.
LEMMA Facts ==
    ASSUME IInv
    PROVE  TypeOK /\ ConsoleInv /\ Settled /\ CoreInv
    BY DEF IInv

\* With agents and hub unchanged no agent falls behind.
LEMMA AgentsKept ==
    ASSUME IInv, agent' = agent
    PROVE  Settled' /\ (hub' = hub => BehindHub' \subseteq BehindHub)
    BY DEF IInv, Settled, BehindHub

\* An upgrade to the hub's version or beyond, or to one that is not older than
\* the agent's, lets no agent fall behind, but for a lowered one.
LEMMA AgentUpgraded ==
    ASSUME IInv, NEW s \in Spokes, NEW v \in Versions, NEW l \in BOOLEAN, Upg(s, v, l), hub' = hub,
           agent[s].late => l, l \/ v >= hub \/ v >= agent[s].disk
    PROVE  Settled' /\ BehindHub' \subseteq BehindHub
<1>1. agent[s].run \in Int /\ agent[s].disk \in Int /\ v \in Int /\ hub \in Int
    BY Facts, AgentFacts, VersionFacts DEF TypeOK
<1>2. Settled'
    BY DEF IInv, Settled, Upg
<1>3. \A t \in Spokes : t \in BehindHub' => t \in BehindHub
    BY <1>1 DEF BehindHub, Upg
<1> QED
    BY <1>2, <1>3 DEF BehindHub

\* Starting or ending a core job leaves every host recoverable.
LEMMA CoresKept ==
    ASSUME IInv, core' = core,
           job' = job \/ \E h \in Hosts, j \in Job : JobSet(h, j) /\ j.step \in {"check", "idle"}
    PROVE  CoreInv'
<1>1. CASE job' = job
    BY <1>1 DEF IInv, CoreInv, RecoveryAt
<1>2. ASSUME NEW h \in Hosts, NEW j \in Job, JobSet(h, j), j.step \in {"check", "idle"}
      PROVE  CoreInv'
    <2>1. ASSUME NEW g \in Hosts PROVE RecoveryAt(g)'
        <3>1. RecoveryAt(g)
            BY DEF IInv, CoreInv
        <3>2. CASE g = h
            BY <1>2, <3>1, <3>2 DEF RecoveryAt, JobSet
        <3>3. CASE g # h
            BY <1>2, <3>1, <3>3 DEF RecoveryAt, JobSet
        <3> QED
            BY <3>2, <3>3
    <2> QED
        BY <2>1 DEF CoreInv
<1> QED
    BY <1>1, <1>2

\* Launch is a safe step of its console.
LEMMA DoesLaunch ==
    ASSUME IInv, NEW p \in Consoles, Launch(p)
    PROVE  Safe(p)
<1> TypeOK /\ ConsoleInv
    BY Facts
<1>1. SelfAt(p) /\ CoreAt(p) /\ SpokeAt(p) /\ AgentsAt(p)
    BY Mine
<1>2. /\ con[p].pc = "off"
    BY <1>1 DEF Launch
<1>3. Menu(hub) \in Console
    BY ConsoleFacts, MenuFacts DEF TypeOK
<1>4. Changed(p) /\ con'[p] = Menu(hub)
    BY <1>3 DEF TypeOK, Changed, Launch
<1>5. con'[p].pc = "menu" /\ con'[p].tool = hub /\ con'[p].i = 1
    BY <1>4, ConsoleFacts, MenuFacts DEF TypeOK
<1>6. UNCHANGED <<hub, lock, agent, core, job, faults, runs>>
    BY DEF Launch
<1>7. hub \in Versions /\ hub \in Int
    BY VersionFacts DEF TypeOK
<1>8. TypeOK'
    BY <1>2, <1>4, <1>5, <1>6, <1>7 DEF TypeOK, Changed
<1>9. Frame(p)
    BY <1>1, StepNames, <1>2, <1>4, <1>5, <1>6, <1>7 DEF Frame, SelfAt
<1>10. Settled' /\ BehindHub' \subseteq BehindHub
    BY <1>6, AgentsKept
<1>11. CoreInv'
    BY <1>6, CoresKept
<1>12. SelfAt(p)'
    BY <1>1, <1>2, <1>4, <1>5, <1>6, <1>7, StepNames, ConsoleFacts, VersionFacts
    DEF SelfAt, TypeOK
<1>13. SpokeAt(p)'
    BY <1>1, <1>2, <1>4, <1>5, <1>6, <1>7, StepNames, ConsoleFacts, Order DEF SpokeAt, AtSpoke
<1>14. CoreAt(p)'
    BY <1>1, <1>2, <1>4, <1>5, <1>6, <1>7, StepNames, ConsoleFacts DEF CoreAt
<1>15. AgentsAt(p)'
    BY <1>5, <1>2, StepNames DEF AgentsAt
<1> QED
    BY <1>8, <1>9, <1>10, <1>11, <1>12, <1>13, <1>14, <1>15 DEF Safe

\* Crash is a safe step of its console.
LEMMA DoesCrash ==
    ASSUME IInv, NEW p \in Consoles, Crash(p)
    PROVE  Safe(p)
<1> TypeOK /\ ConsoleInv
    BY Facts
<1>1. SelfAt(p) /\ CoreAt(p) /\ SpokeAt(p) /\ AgentsAt(p)
    BY Mine
<1>2. /\ con[p].pc \notin {"off", "menu"}
    BY <1>1 DEF Crash
<1>3. Quit(con[p].tool) \in Console
    BY ConsoleFacts, MenuFacts DEF TypeOK
<1>4. Changed(p) /\ con'[p] = Quit(con[p].tool)
    BY <1>3 DEF TypeOK, Changed, Crash, Quit
<1>5. con'[p].pc = "off" /\ con'[p].tool = con[p].tool /\ con'[p].i = 1
    BY <1>4, ConsoleFacts, MenuFacts DEF TypeOK
<1>6. Hub \in Hosts
    BY <1>2, ConsoleFacts, Order
<1>7. NoJob \in Job
    BY <1>6, JobTypes
<1>8. \/ job' = job
              \/ JobSet(Hub, NoJob)
    BY <1>2, <1>6, <1>7, SettingJob DEF Crash
<1>9. faults' \in 0..MaxFaults
    BY Failing DEF TypeOK, Crash
<1>10. UNCHANGED <<hub, agent, core, runs>>
    BY DEF Crash
<1>11. lock' = IF lock = p THEN None ELSE lock
    BY DEF Crash
<1>12. TypeOK'
    BY <1>2, <1>4, <1>5, <1>8, <1>9, <1>10, <1>11 DEF TypeOK, Changed, JobSet
<1>13. Frame(p)
    BY <1>1, StepNames, <1>2, <1>4, <1>5, <1>8, <1>9, <1>10, <1>11 DEF Frame, SelfAt
<1>14. Settled' /\ BehindHub' \subseteq BehindHub
    BY <1>10, AgentsKept
<1>15. CoreInv'
    BY <1>8, <1>6, <1>7, CoresKept, <1>10 DEF NoJob
<1>16. SelfAt(p)'
    BY <1>1, <1>2, <1>4, <1>5, <1>8, <1>9, <1>10, <1>11, StepNames, ConsoleFacts,
           VersionFacts DEF SelfAt, TypeOK
<1>17. SpokeAt(p)'
    BY <1>1, <1>2, <1>4, <1>5, <1>8, <1>9, <1>10, <1>11, StepNames, ConsoleFacts, Order
    DEF SpokeAt, AtSpoke
<1>18. CoreAt(p)'
    BY <1>1, <1>2, <1>4, <1>5, <1>8, <1>9, <1>10, <1>11, StepNames, ConsoleFacts DEF CoreAt
<1>19. AgentsAt(p)'
    BY <1>5, <1>2, StepNames DEF AgentsAt
<1> QED
    BY <1>12, <1>13, <1>14, <1>15, <1>16, <1>17, <1>18, <1>19 DEF Safe

\* selfupdateRun is a safe step of its console.
LEMMA DoesSelfupdateRun ==
    ASSUME IInv, NEW p \in Consoles, NEW tag \in Versions, selfupdateRun(p, tag)
    PROVE  Safe(p)
<1> TypeOK /\ ConsoleInv
    BY Facts
<1>1. SelfAt(p) /\ CoreAt(p) /\ SpokeAt(p) /\ AgentsAt(p)
    BY Mine
<1>2. /\ con[p].pc = "menu"
      /\ lock = None
      /\ hub = con[p].tool
      /\ tag > con[p].tool
    BY <1>1 DEF selfupdateRun, MayUpdate
<1>3. /\ Changed(p)
      /\ con'[p].pc = "locked" /\ con'[p].tool = con[p].tool /\ con'[p].tag = tag
      /\ con'[p].i = con[p].i /\ con'[p].old = con[p].old
    <2>1. "locked" \in SelfSteps \cup CoreSteps \cup {"off", "menu"} /\ tag \in Versions \cup Cores \cup {None}
        BY <1>2, ConsoleFacts, StepNames, Order
    <2>2. [con[p] EXCEPT !.pc = "locked", !.tag = tag] \in Console
        BY ConsoleFacts, <2>1 DEF Console
    <2>3. con' = [con EXCEPT ![p] = [con[p] EXCEPT !.pc = "locked", !.tag = tag]]
        BY <1>2 DEF TypeOK, selfupdateRun, MayUpdate
    <2>4. Changed(p)
        BY <2>2, <2>3 DEF TypeOK, Changed
    <2>5. con'[p] = [con[p] EXCEPT !.pc = "locked", !.tag = tag]
        BY <2>3 DEF TypeOK
    <2>6. /\ con'[p].pc = "locked" /\ con'[p].tool = con[p].tool /\ con'[p].tag = tag
          /\ con'[p].i = con[p].i /\ con'[p].old = con[p].old
        BY ConsoleFacts, <2>5 DEF Console
    <2> QED
        BY <2>4, <2>6
<1>4. runs' \in 0..MaxRuns
    BY BoundsAssumption DEF TypeOK, selfupdateRun
<1>5. UNCHANGED <<hub, agent, core, job, faults>>
    BY DEF selfupdateRun
<1>6. lock' = p
    BY DEF selfupdateRun
<1>7. TypeOK'
    BY <1>2, <1>3, <1>4, <1>5, <1>6 DEF TypeOK, Changed
<1>8. Frame(p)
    BY <1>1, StepNames, <1>2, <1>3, <1>4, <1>5, <1>6 DEF Frame, SelfAt
<1>9. Settled' /\ BehindHub' \subseteq BehindHub
    BY <1>5, AgentsKept
<1>10. CoreInv'
    BY <1>5, CoresKept
<1>11. SelfAt(p)'
    BY <1>1, <1>2, <1>3, <1>4, <1>5, <1>6, StepNames, ConsoleFacts, VersionFacts
    DEF SelfAt, TypeOK
<1>12. SpokeAt(p)'
    BY <1>1, <1>2, <1>3, <1>4, <1>5, <1>6, StepNames, ConsoleFacts, Order DEF SpokeAt, AtSpoke
<1>13. CoreAt(p)'
    BY <1>1, <1>2, <1>3, <1>4, <1>5, <1>6, StepNames, ConsoleFacts DEF CoreAt
<1>14. AgentsAt(p)'
    BY <1>3, <1>2, StepNames DEF AgentsAt
<1> QED
    BY <1>7, <1>8, <1>9, <1>10, <1>11, <1>12, <1>13, <1>14 DEF Safe

\* Downloaded is a safe step of its console.
LEMMA DoesDownloaded ==
    ASSUME IInv, NEW p \in Consoles, Downloaded(p)
    PROVE  Safe(p)
<1> TypeOK /\ ConsoleInv
    BY Facts
<1>1. SelfAt(p) /\ CoreAt(p) /\ SpokeAt(p) /\ AgentsAt(p)
    BY Mine
<1>2. /\ con[p].pc = "locked"
      /\ \A s \in Spokes : ~agent[s].due
    BY <1>1 DEF Downloaded
<1>3. /\ Changed(p)
      /\ con'[p].pc = "agents" /\ con'[p].tool = con[p].tool /\ con'[p].tag = con[p].tag
      /\ con'[p].i = con[p].i /\ con'[p].old = con[p].old
    <2>1. "agents" \in SelfSteps \cup CoreSteps \cup {"off", "menu"}
        BY <1>2, ConsoleFacts, StepNames, Order
    <2>2. [con[p] EXCEPT !.pc = "agents"] \in Console
        BY ConsoleFacts, <2>1 DEF Console
    <2>3. con' = [con EXCEPT ![p] = [con[p] EXCEPT !.pc = "agents"]]
        BY <1>2 DEF TypeOK, Downloaded, Go
    <2>4. Changed(p)
        BY <2>2, <2>3 DEF TypeOK, Changed
    <2>5. con'[p] = [con[p] EXCEPT !.pc = "agents"]
        BY <2>3 DEF TypeOK
    <2>6. /\ con'[p].pc = "agents" /\ con'[p].tool = con[p].tool /\ con'[p].tag = con[p].tag
          /\ con'[p].i = con[p].i /\ con'[p].old = con[p].old
        BY ConsoleFacts, <2>5 DEF Console
    <2> QED
        BY <2>4, <2>6
<1>4. UNCHANGED <<hub, lock, agent, core, job, faults, runs>>
    BY DEF Downloaded
<1>5. TypeOK'
    BY <1>2, <1>3, <1>4 DEF TypeOK, Changed
<1>6. Frame(p)
    BY <1>1, StepNames, <1>2, <1>3, <1>4 DEF Frame, SelfAt
<1>7. Settled' /\ BehindHub' \subseteq BehindHub
    BY <1>4, AgentsKept
<1>8. CoreInv'
    BY <1>4, CoresKept
<1>9. SelfAt(p)'
    BY <1>1, <1>2, <1>3, <1>4, StepNames, ConsoleFacts, VersionFacts DEF SelfAt, TypeOK
<1>10. SpokeAt(p)'
    BY <1>1, <1>2, <1>3, <1>4, StepNames, ConsoleFacts, Order DEF SpokeAt, AtSpoke
<1>11. CoreAt(p)'
    BY <1>1, <1>2, <1>3, <1>4, StepNames, ConsoleFacts DEF CoreAt
<1>12. AgentsAt(p)'
    <2>1. con[p].i = 1
        BY <1>1, <1>2 DEF SpokeAt
    <2> QED
        BY <2>1, <1>2, <1>3, <1>4 DEF AgentsAt
<1> QED
    BY <1>5, <1>6, <1>7, <1>8, <1>9, <1>10, <1>11, <1>12 DEF Safe

\* DownloadFails is a safe step of its console.
LEMMA DoesDownloadFails ==
    ASSUME IInv, NEW p \in Consoles, DownloadFails(p)
    PROVE  Safe(p)
<1> TypeOK /\ ConsoleInv
    BY Facts
<1>1. SelfAt(p) /\ CoreAt(p) /\ SpokeAt(p) /\ AgentsAt(p)
    BY Mine
<1>2. /\ con[p].pc = "locked"
    BY <1>1 DEF DownloadFails
<1>3. Menu(con[p].tool) \in Console
    BY ConsoleFacts, MenuFacts DEF TypeOK
<1>4. Changed(p) /\ con'[p] = Menu(con[p].tool)
    BY <1>3 DEF TypeOK, Changed, DownloadFails, Finish
<1>5. con'[p].pc = "menu" /\ con'[p].tool = con[p].tool /\ con'[p].i = 1
    BY <1>4, ConsoleFacts, MenuFacts DEF TypeOK
<1>6. faults' \in 0..MaxFaults
    BY Failing DEF TypeOK, DownloadFails
<1>7. UNCHANGED <<hub, agent, core, job, runs>>
    BY DEF DownloadFails
<1>8. lock' = None
    BY DEF DownloadFails
<1>9. TypeOK'
    BY <1>2, <1>4, <1>5, <1>6, <1>7, <1>8 DEF TypeOK, Changed
<1>10. Frame(p)
    BY <1>1, StepNames, <1>2, <1>4, <1>5, <1>6, <1>7, <1>8 DEF Frame, SelfAt
<1>11. Settled' /\ BehindHub' \subseteq BehindHub
    BY <1>7, AgentsKept
<1>12. CoreInv'
    BY <1>7, CoresKept
<1>13. SelfAt(p)'
    BY <1>1, <1>2, <1>4, <1>5, <1>6, <1>7, <1>8, StepNames, ConsoleFacts, VersionFacts
    DEF SelfAt, TypeOK
<1>14. SpokeAt(p)'
    BY <1>1, <1>2, <1>4, <1>5, <1>6, <1>7, <1>8, StepNames, ConsoleFacts, Order
    DEF SpokeAt, AtSpoke
<1>15. CoreAt(p)'
    BY <1>1, <1>2, <1>4, <1>5, <1>6, <1>7, <1>8, StepNames, ConsoleFacts DEF CoreAt
<1>16. AgentsAt(p)'
    BY <1>5, <1>2, StepNames DEF AgentsAt
<1> QED
    BY <1>9, <1>10, <1>11, <1>12, <1>13, <1>14, <1>15, <1>16 DEF Safe

\* CheckHealth is a safe step of its console, when agent[Spoke(p)].run =
\* con[p].tag.
LEMMA DoesCheckHealthA ==
    ASSUME IInv, NEW p \in Consoles, CheckHealth(p),
           agent[Spoke(p)].run = con[p].tag
    PROVE  Safe(p)
<1> TypeOK /\ ConsoleInv
    BY Facts
<1>1. SelfAt(p) /\ CoreAt(p) /\ SpokeAt(p) /\ AgentsAt(p)
    BY Mine
<1>2. /\ con[p].pc = "agents"
      /\ AtSpoke(p)
    BY <1>1 DEF CheckHealth
<1>3. /\ Changed(p)
      /\ con'[p].pc = con[p].pc /\ con'[p].tool = con[p].tool
      /\ con'[p].tag = con[p].tag /\ con'[p].i = con[p].i + 1
      /\ con'[p].old = con[p].old
    <2>1. con[p].i + 1 \in 0..Len(SpokeOrder) + 1 /\ Spoke(p) \in Spokes
        BY <1>2, ConsoleFacts, StepNames, Order
    <2>2. [con[p] EXCEPT !.list = @ \cup {Spoke(p)}, !.i = @ + 1] \in Console
        BY ConsoleFacts, <2>1 DEF Console
    <2>3. con' = [con EXCEPT ![p] = [con[p] EXCEPT !.list = @ \cup {Spoke(p)}, !.i = @ + 1]]
        BY <1>2 DEF TypeOK, CheckHealth
    <2>4. Changed(p)
        BY <2>2, <2>3 DEF TypeOK, Changed
    <2>5. con'[p] = [con[p] EXCEPT !.list = @ \cup {Spoke(p)}, !.i = @ + 1]
        BY <2>3 DEF TypeOK
    <2>6. /\ con'[p].pc = con[p].pc /\ con'[p].tool = con[p].tool
          /\ con'[p].tag = con[p].tag /\ con'[p].i = con[p].i + 1
          /\ con'[p].old = con[p].old
        BY ConsoleFacts, <2>5 DEF Console
    <2> QED
        BY <2>4, <2>6
<1>4. UNCHANGED <<hub, lock, agent, core, job, faults, runs>>
    BY DEF CheckHealth
<1>5. TypeOK'
    BY <1>2, <1>3, <1>4 DEF TypeOK, Changed
<1>6. Frame(p)
    BY <1>1, StepNames, <1>2, <1>3, <1>4 DEF Frame, SelfAt
<1>7. Settled' /\ BehindHub' \subseteq BehindHub
    BY <1>4, AgentsKept
<1>8. CoreInv'
    BY <1>4, CoresKept
<1>9. SelfAt(p)'
    BY <1>1, <1>2, <1>3, <1>4, StepNames, ConsoleFacts, VersionFacts DEF SelfAt, TypeOK
<1>10. SpokeAt(p)'
    BY <1>1, <1>2, <1>3, <1>4, StepNames, ConsoleFacts, Order DEF SpokeAt, AtSpoke
<1>11. CoreAt(p)'
    BY <1>1, <1>2, <1>3, <1>4, StepNames, ConsoleFacts DEF CoreAt
<1>12. AgentsAt(p)'
    <2>1. con[p].i \in 1..Len(SpokeOrder) /\ Spoke(p) \in Spokes /\ con'[p].i - 1 = con[p].i
        BY <1>1, <1>2, <1>3, ConsoleFacts, StepNames DEF SpokeAt
    <2>2. Reached(Spoke(p), con[p].tag)
        <3>1. agent[Spoke(p)].run \in Int /\ agent[Spoke(p)].disk \in Int
            BY <2>1, AgentFacts
        <3>2. agent[Spoke(p)].due => Written(Spoke(p), agent[Spoke(p)].run)
            BY <2>1, <1>1, <1>2 DEF AgentsAt
        <3>3. ~agent[Spoke(p)].due => agent[Spoke(p)].run = agent[Spoke(p)].disk
            BY <2>1, Facts DEF Settled
        <3> QED
            BY <3>1, <3>2, <3>3 DEF Written, Reached
    <2>3. \A j \in 1..con[p].i : Reached(SpokeOrder[j], con[p].tag)
        BY <1>1, <1>2, <2>1, <2>2 DEF AgentsAt, Spoke
    <2>4. con'[p].pc = "agents" /\ con'[p].tag = con[p].tag /\ agent' = agent /\ hub' = hub
        BY <1>3, <1>2, <1>4
    <2> QED
        BY <2>1, <2>3, <2>4, <1>1, <1>2 DEF AgentsAt, Reached, Written
<1> QED
    BY <1>5, <1>6, <1>7, <1>8, <1>9, <1>10, <1>11, <1>12 DEF Safe

\* CheckHealth is a safe step of its console, when agent[Spoke(p)].run #
\* con[p].tag.
LEMMA DoesCheckHealthB ==
    ASSUME IInv, NEW p \in Consoles, CheckHealth(p),
           agent[Spoke(p)].run # con[p].tag
    PROVE  Safe(p)
<1> TypeOK /\ ConsoleInv
    BY Facts
<1>1. SelfAt(p) /\ CoreAt(p) /\ SpokeAt(p) /\ AgentsAt(p)
    BY Mine
<1>2. /\ con[p].pc = "agents"
      /\ AtSpoke(p)
    BY <1>1 DEF CheckHealth
<1>3. /\ Changed(p)
      /\ con'[p].pc = "upgrade" /\ con'[p].tool = con[p].tool /\ con'[p].tag = con[p].tag
      /\ con'[p].i = con[p].i /\ con'[p].old = con[p].old
    <2>1. "upgrade" \in SelfSteps \cup CoreSteps \cup {"off", "menu"} /\ Spoke(p) \in Spokes
        BY <1>2, ConsoleFacts, StepNames, Order
    <2>2. [con[p] EXCEPT !.list = @ \cup {Spoke(p)}, !.pc = "upgrade"] \in Console
        BY ConsoleFacts, <2>1 DEF Console
    <2>3. con' = [con EXCEPT ![p] = [con[p] EXCEPT !.list = @ \cup {Spoke(p)}, !.pc = "upgrade"]]
        BY <1>2 DEF TypeOK, CheckHealth
    <2>4. Changed(p)
        BY <2>2, <2>3 DEF TypeOK, Changed
    <2>5. con'[p] = [con[p] EXCEPT !.list = @ \cup {Spoke(p)}, !.pc = "upgrade"]
        BY <2>3 DEF TypeOK
    <2>6. /\ con'[p].pc = "upgrade" /\ con'[p].tool = con[p].tool /\ con'[p].tag = con[p].tag
          /\ con'[p].i = con[p].i /\ con'[p].old = con[p].old
        BY ConsoleFacts, <2>5 DEF Console
    <2> QED
        BY <2>4, <2>6
<1>4. UNCHANGED <<hub, lock, agent, core, job, faults, runs>>
    BY DEF CheckHealth
<1>5. TypeOK'
    BY <1>2, <1>3, <1>4 DEF TypeOK, Changed
<1>6. Frame(p)
    BY <1>1, StepNames, <1>2, <1>3, <1>4 DEF Frame, SelfAt
<1>7. Settled' /\ BehindHub' \subseteq BehindHub
    BY <1>4, AgentsKept
<1>8. CoreInv'
    BY <1>4, CoresKept
<1>9. SelfAt(p)'
    BY <1>1, <1>2, <1>3, <1>4, StepNames, ConsoleFacts, VersionFacts DEF SelfAt, TypeOK
<1>10. SpokeAt(p)'
    BY <1>1, <1>2, <1>3, <1>4, StepNames, ConsoleFacts, Order DEF SpokeAt, AtSpoke
<1>11. CoreAt(p)'
    BY <1>1, <1>2, <1>3, <1>4, StepNames, ConsoleFacts DEF CoreAt
<1>12. AgentsAt(p)'
    BY <1>1, <1>2, <1>3, <1>4 DEF AgentsAt, Reached, Written
<1> QED
    BY <1>5, <1>6, <1>7, <1>8, <1>9, <1>10, <1>11, <1>12 DEF Safe

\* CheckHealthFails is a safe step of its console.
LEMMA DoesCheckHealthFails ==
    ASSUME IInv, NEW p \in Consoles, CheckHealthFails(p)
    PROVE  Safe(p)
<1> TypeOK /\ ConsoleInv
    BY Facts
<1>1. SelfAt(p) /\ CoreAt(p) /\ SpokeAt(p) /\ AgentsAt(p)
    BY Mine
<1>2. con[p].pc \in {"agents", "upgrade"} /\ Restoring(p, con[p].list)
    BY <1>1 DEF CheckHealthFails
<1>3. AtSpoke(p)
    BY <1>1, <1>2, StepNames DEF SpokeAt, CheckHealthFails
<1>4. /\ Changed(p)
      /\ con'[p].pc = "restore" /\ con'[p].tool = con[p].tool
      /\ con'[p].tag = con[p].tag /\ con'[p].i = 1 /\ con'[p].old = con[p].old
    <2>1. "restore" \in SelfSteps \cup CoreSteps \cup {"off", "menu"} /\ 1 \in 0..Len(SpokeOrder) + 1
        BY <1>2, <1>3, ConsoleFacts, StepNames, Order
    <2>2. [con[p] EXCEPT !.pc = "restore", !.list = con[p].list, !.i = 1] \in Console
        BY ConsoleFacts, <2>1 DEF Console
    <2>3. con' = [con EXCEPT ![p] = [con[p] EXCEPT !.pc = "restore", !.list = con[p].list, !.i = 1]]
        BY <1>2 DEF TypeOK, Restoring
    <2>4. Changed(p)
        BY <2>2, <2>3 DEF TypeOK, Changed
    <2>5. con'[p] = [con[p] EXCEPT !.pc = "restore", !.list = con[p].list, !.i = 1]
        BY <2>3 DEF TypeOK
    <2>6. /\ con'[p].pc = "restore" /\ con'[p].tool = con[p].tool
          /\ con'[p].tag = con[p].tag /\ con'[p].i = 1 /\ con'[p].old = con[p].old
        BY ConsoleFacts, <2>5 DEF Console
    <2> QED
        BY <2>4, <2>6
<1>5. faults' \in 0..MaxFaults
    BY Failing DEF TypeOK, CheckHealthFails, NoFault
<1>6. UNCHANGED <<hub, lock, agent, core, job, runs>>
    BY DEF CheckHealthFails
<1>7. TypeOK'
    BY <1>2, <1>4, <1>5, <1>6 DEF TypeOK, Changed
<1>8. Frame(p)
    BY <1>1, StepNames, <1>2, <1>4, <1>5, <1>6 DEF Frame, SelfAt
<1>9. Settled' /\ BehindHub' \subseteq BehindHub
    BY <1>6, AgentsKept
<1>10. CoreInv'
    BY <1>6, CoresKept
<1>11. SelfAt(p)'
    BY <1>1, <1>2, <1>4, <1>5, <1>6, StepNames, ConsoleFacts, VersionFacts DEF SelfAt, TypeOK
<1>12. SpokeAt(p)'
    BY <1>1, <1>2, <1>4, <1>5, <1>6, StepNames, ConsoleFacts, Order DEF SpokeAt, AtSpoke
<1>13. CoreAt(p)'
    BY <1>1, <1>2, <1>4, <1>5, <1>6, StepNames, ConsoleFacts DEF CoreAt
<1>14. AgentsAt(p)'
    BY <1>4, <1>2, StepNames DEF AgentsAt
<1> QED
    BY <1>7, <1>8, <1>9, <1>10, <1>11, <1>12, <1>13, <1>14 DEF Safe

\* reconcileAgentVersion is a safe step of its console, in a self-update.
LEMMA DoesReconcileA ==
    ASSUME IInv, NEW p \in Consoles, reconcileAgentVersion(p),
           con[p].pc = "upgrade"
    PROVE  Safe(p)
<1> TypeOK /\ ConsoleInv
    BY Facts
<1>1. SelfAt(p) /\ CoreAt(p) /\ SpokeAt(p) /\ AgentsAt(p)
    BY Mine
<1>2. /\ con[p].pc = "upgrade"
      /\ ~agent[Spoke(p)].due
    BY DEF reconcileAgentVersion, GateOpen
<1>3. AtSpoke(p)
    BY <1>1, <1>2, StepNames DEF SpokeAt
<1>4. /\ Changed(p)
      /\ con'[p].pc = "await" /\ con'[p].tool = con[p].tool
      /\ con'[p].tag = con[p].tag /\ con'[p].i = con[p].i /\ con'[p].old = con[p].old
    <2>1. "await" \in SelfSteps \cup CoreSteps \cup {"off", "menu"}
        BY StepNames
    <2>2. [con[p] EXCEPT !.pc = "await"] \in Console
        BY ConsoleFacts, <2>1 DEF Console
    <2>3. con' = [con EXCEPT ![p] = [con[p] EXCEPT !.pc = "await"]]
        BY <1>2 DEF TypeOK, reconcileAgentVersion, Go
    <2>4. Changed(p)
        BY <2>2, <2>3 DEF TypeOK, Changed
    <2>5. con'[p] = [con[p] EXCEPT !.pc = "await"]
        BY <2>3 DEF TypeOK
    <2>6. /\ con'[p].pc = "await" /\ con'[p].tool = con[p].tool
          /\ con'[p].tag = con[p].tag /\ con'[p].i = con[p].i /\ con'[p].old = con[p].old
        BY ConsoleFacts, <2>5 DEF Console
    <2> QED
        BY <2>4, <2>6
<1>5. PICK l \in BOOLEAN : l = (agent[Spoke(p)].late \/ con[p].tag < agent[Spoke(p)].disk)
    OBVIOUS
<1>6. /\ con[p].tag \in Versions /\ con[p].tag \in Int /\ hub \in Int /\ Spoke(p) \in Spokes
      /\ agent[Spoke(p)].run \in Int /\ agent[Spoke(p)].disk \in Int
    BY <1>1, <1>2, <1>3, ConsoleFacts, AgentFacts, VersionFacts, StepNames DEF SelfAt, TypeOK
<1>7. Upg(Spoke(p), con[p].tag, l)
    BY <1>2, <1>5, <1>6, Upgrading DEF reconcileAgentVersion
<1>8. agent[Spoke(p)].run = agent[Spoke(p)].disk
    BY <1>2, <1>6, Facts DEF Settled
<1>9. UNCHANGED <<hub, lock, core, job, faults, runs>>
    BY DEF reconcileAgentVersion
<1>10. (agent[Spoke(p)].late => l) /\ (l \/ con[p].tag >= agent[Spoke(p)].disk)
    <2>1. (agent[Spoke(p)].late => l) /\ (con[p].tag < agent[Spoke(p)].disk => l)
        BY <1>5, Zenon
    <2>2. con[p].tag < agent[Spoke(p)].disk \/ con[p].tag >= agent[Spoke(p)].disk
        BY <1>6
    <2> QED
        BY <2>1, <2>2, Zenon
<1>11. TypeOK'
    BY <1>4, <1>7, <1>9 DEF TypeOK, Changed, Upg
<1>12. Frame(p)
    BY <1>1, <1>2, <1>4, <1>7, <1>9, StepNames DEF Frame, SelfAt, Upg
<1>13. Settled' /\ BehindHub' \subseteq BehindHub
    BY <1>6, <1>7, <1>9, <1>10, AgentUpgraded
<1>14. CoreInv'
    BY <1>9, CoresKept
<1>15. SelfAt(p)'
    BY <1>1, <1>2, <1>4, <1>9, StepNames, ConsoleFacts, VersionFacts DEF SelfAt, TypeOK
<1>16. SpokeAt(p)'
    BY <1>1, <1>2, <1>3, <1>4, <1>9, StepNames, ConsoleFacts, Order DEF SpokeAt, AtSpoke
<1>17. CoreAt(p)'
    BY <1>1, <1>2, <1>4, <1>9, StepNames, ConsoleFacts DEF CoreAt
<1>18. AgentsAt(p)'
    <2>1. \A s \in Spokes : agent'[s].due => agent'[s].late \/ agent'[s].disk >= agent'[s].run
        BY <1>1, <1>2, <1>6, <1>7, <1>8, <1>10 DEF AgentsAt, Upg, Written
    <2>2. \A j \in 1..con[p].i - 1 : SpokeOrder[j] \in Spokes
        BY ConsoleFacts, Order
    <2>3. \A j \in 1..con[p].i - 1 :
             \/ agent'[SpokeOrder[j]].late
             \/ agent'[SpokeOrder[j]].run >= con[p].tag /\ agent'[SpokeOrder[j]].disk >= con[p].tag
        BY <1>1, <1>2, <1>6, <1>7, <1>10, <2>2 DEF AgentsAt, Upg, Reached
    <2>4. Spoke(p)' = Spoke(p)
        BY <1>4 DEF Spoke
    <2>5. agent'[Spoke(p)'].disk >= con[p].tag
        BY <1>6, <1>7, <2>4 DEF Upg
    <2> QED
        BY <2>1, <2>3, <2>5, <1>4 DEF AgentsAt, Reached, Written
<1> QED
    BY <1>11, <1>12, <1>13, <1>14, <1>15, <1>16, <1>17, <1>18 DEF Safe

\* reconcileAgentVersion is a safe step of its console, in a preflight: an agent
\* that has gone further since is lowered, and marked.
LEMMA DoesReconcileB ==
    ASSUME IInv, NEW p \in Consoles, reconcileAgentVersion(p),
           con[p].pc = "outdated"
    PROVE  Safe(p)
<1> TypeOK /\ ConsoleInv
    BY Facts
<1>1. SelfAt(p) /\ CoreAt(p) /\ SpokeAt(p) /\ AgentsAt(p)
    BY Mine
<1>2. /\ con[p].pc = "outdated"
      /\ ~agent[Spoke(p)].due
    BY DEF reconcileAgentVersion, GateOpen
<1>3. AtSpoke(p)
    BY <1>1, <1>2, StepNames DEF SpokeAt
<1>4. /\ Changed(p)
      /\ con'[p].pc = "reconcile" /\ con'[p].tool = con[p].tool
      /\ con'[p].tag = con[p].tag /\ con'[p].i = con[p].i /\ con'[p].old = con[p].old
    <2>1. "reconcile" \in SelfSteps \cup CoreSteps \cup {"off", "menu"}
        BY StepNames
    <2>2. [con[p] EXCEPT !.pc = "reconcile"] \in Console
        BY ConsoleFacts, <2>1 DEF Console
    <2>3. con' = [con EXCEPT ![p] = [con[p] EXCEPT !.pc = "reconcile"]]
        BY <1>2 DEF TypeOK, reconcileAgentVersion, Go
    <2>4. Changed(p)
        BY <2>2, <2>3 DEF TypeOK, Changed
    <2>5. con'[p] = [con[p] EXCEPT !.pc = "reconcile"]
        BY <2>3 DEF TypeOK
    <2>6. /\ con'[p].pc = "reconcile" /\ con'[p].tool = con[p].tool
          /\ con'[p].tag = con[p].tag /\ con'[p].i = con[p].i /\ con'[p].old = con[p].old
        BY ConsoleFacts, <2>5 DEF Console
    <2> QED
        BY <2>4, <2>6
<1>5. PICK l \in BOOLEAN : l = (agent[Spoke(p)].late \/ con[p].tool < agent[Spoke(p)].disk)
    OBVIOUS
<1>6. /\ con[p].tool \in Versions /\ con[p].tool \in Int /\ hub \in Int /\ Spoke(p) \in Spokes
      /\ agent[Spoke(p)].run \in Int /\ agent[Spoke(p)].disk \in Int
    BY <1>1, <1>2, <1>3, ConsoleFacts, AgentFacts, VersionFacts, StepNames DEF SelfAt, TypeOK
<1>7. Upg(Spoke(p), con[p].tool, l)
    BY <1>2, <1>5, <1>6, Upgrading DEF reconcileAgentVersion
<1>8. agent[Spoke(p)].run = agent[Spoke(p)].disk
    BY <1>2, <1>6, Facts DEF Settled
<1>9. UNCHANGED <<hub, lock, core, job, faults, runs>>
    BY DEF reconcileAgentVersion
<1>10. (agent[Spoke(p)].late => l) /\ (l \/ con[p].tool >= agent[Spoke(p)].disk)
    <2>1. (agent[Spoke(p)].late => l) /\ (con[p].tool < agent[Spoke(p)].disk => l)
        BY <1>5, Zenon
    <2>2. con[p].tool < agent[Spoke(p)].disk \/ con[p].tool >= agent[Spoke(p)].disk
        BY <1>6
    <2> QED
        BY <2>1, <2>2, Zenon
<1>11. TypeOK'
    BY <1>4, <1>7, <1>9 DEF TypeOK, Changed, Upg
<1>12. Frame(p)
    <2>1. con[p].tool <= hub
        BY <1>1 DEF SelfAt
    <2> QED
        BY <1>4, <1>6, <1>7, <1>8, <1>9, <1>10, <2>1 DEF Frame, Upg
<1>13. Settled' /\ BehindHub' \subseteq BehindHub
    BY <1>6, <1>7, <1>9, <1>10, AgentUpgraded
<1>14. CoreInv'
    BY <1>9, CoresKept
<1>15. SelfAt(p)'
    BY <1>1, <1>2, <1>4, <1>9, StepNames, ConsoleFacts, VersionFacts DEF SelfAt, TypeOK
<1>16. SpokeAt(p)'
    BY <1>1, <1>2, <1>3, <1>4, <1>9, StepNames, ConsoleFacts, Order DEF SpokeAt, AtSpoke
<1>17. CoreAt(p)'
    BY <1>1, <1>2, <1>4, <1>9, StepNames, ConsoleFacts DEF CoreAt
<1>18. AgentsAt(p)'
    BY <1>4, StepNames DEF AgentsAt
<1> QED
    BY <1>11, <1>12, <1>13, <1>14, <1>15, <1>16, <1>17, <1>18 DEF Safe

\* Returned is a safe step of its console, when con[p].pc = "await".
LEMMA DoesReturnedA ==
    ASSUME IInv, NEW p \in Consoles, Returned(p),
           con[p].pc = "await"
    PROVE  Safe(p)
<1> TypeOK /\ ConsoleInv
    BY Facts
<1>1. SelfAt(p) /\ CoreAt(p) /\ SpokeAt(p) /\ AgentsAt(p)
    BY Mine
<1>2. /\ con[p].pc = "await"
      /\ agent[Spoke(p)].run = con[p].tag
    BY <1>1 DEF Returned, Advance
<1>3. AtSpoke(p)
    BY <1>1, <1>2, StepNames DEF SpokeAt
<1>4. /\ Changed(p)
      /\ con'[p].pc = "agents" /\ con'[p].tool = con[p].tool /\ con'[p].tag = con[p].tag
      /\ con'[p].i = con[p].i + 1 /\ con'[p].old = con[p].old
    <2>1. "agents" \in SelfSteps \cup CoreSteps \cup {"off", "menu"} /\ con[p].i + 1 \in 0..Len(SpokeOrder) + 1
        BY <1>2, <1>3, ConsoleFacts, StepNames, Order
    <2>2. [con[p] EXCEPT !.pc = "agents", !.i = @ + 1] \in Console
        BY ConsoleFacts, <2>1 DEF Console
    <2>3. con' = [con EXCEPT ![p] = [con[p] EXCEPT !.pc = "agents", !.i = @ + 1]]
        BY <1>2 DEF TypeOK, Returned, Advance, Go
    <2>4. Changed(p)
        BY <2>2, <2>3 DEF TypeOK, Changed
    <2>5. con'[p] = [con[p] EXCEPT !.pc = "agents", !.i = @ + 1]
        BY <2>3 DEF TypeOK
    <2>6. /\ con'[p].pc = "agents" /\ con'[p].tool = con[p].tool /\ con'[p].tag = con[p].tag
          /\ con'[p].i = con[p].i + 1 /\ con'[p].old = con[p].old
        BY ConsoleFacts, <2>5 DEF Console
    <2> QED
        BY <2>4, <2>6
<1>5. UNCHANGED <<hub, lock, agent, core, job, faults, runs>>
    BY DEF Returned
<1>6. TypeOK'
    BY <1>2, <1>4, <1>5 DEF TypeOK, Changed
<1>7. Frame(p)
    BY <1>1, StepNames, <1>2, <1>4, <1>5 DEF Frame, SelfAt
<1>8. Settled' /\ BehindHub' \subseteq BehindHub
    BY <1>5, AgentsKept
<1>9. CoreInv'
    BY <1>5, CoresKept
<1>10. SelfAt(p)'
    BY <1>1, <1>2, <1>4, <1>5, StepNames, ConsoleFacts, VersionFacts DEF SelfAt, TypeOK
<1>11. SpokeAt(p)'
    BY <1>1, <1>2, <1>4, <1>5, StepNames, ConsoleFacts, Order DEF SpokeAt, AtSpoke
<1>12. CoreAt(p)'
    BY <1>1, <1>2, <1>4, <1>5, StepNames, ConsoleFacts DEF CoreAt
<1>13. AgentsAt(p)'
    <2>1. con[p].i \in 1..Len(SpokeOrder) /\ Spoke(p) \in Spokes /\ con'[p].i - 1 = con[p].i
        BY <1>1, <1>2, <1>4, ConsoleFacts, StepNames DEF SpokeAt
    <2>2. Reached(Spoke(p), con[p].tag)
        <3>1. agent[Spoke(p)].run \in Int /\ Written(Spoke(p), con[p].tag)
            BY <2>1, <1>1, <1>2, AgentFacts DEF AgentsAt
        <3> QED
            BY <3>1, <1>2 DEF Written, Reached
    <2>3. \A j \in 1..con[p].i : Reached(SpokeOrder[j], con[p].tag)
        BY <1>1, <1>2, <2>1, <2>2 DEF AgentsAt, Spoke
    <2>4. con'[p].pc = "agents" /\ con'[p].tag = con[p].tag /\ agent' = agent /\ hub' = hub
        BY <1>4, <1>2, <1>5
    <2> QED
        BY <2>1, <2>3, <2>4, <1>1, <1>2 DEF AgentsAt, Reached, Written
<1> QED
    BY <1>6, <1>7, <1>8, <1>9, <1>10, <1>11, <1>12, <1>13 DEF Safe

\* Returned is a safe step of its console, when con[p].pc # "await".
LEMMA DoesReturnedB ==
    ASSUME IInv, NEW p \in Consoles, Returned(p),
           con[p].pc # "await"
    PROVE  Safe(p)
<1> TypeOK /\ ConsoleInv
    BY Facts
<1>1. SelfAt(p) /\ CoreAt(p) /\ SpokeAt(p) /\ AgentsAt(p)
    BY Mine
<1>2. /\ con[p].pc = "reconcile"
    BY <1>1 DEF Returned
<1>3. AtSpoke(p)
    BY <1>1, <1>2, StepNames DEF SpokeAt
<1>4. /\ Changed(p)
      /\ con'[p].pc = "preflight" /\ con'[p].tool = con[p].tool
      /\ con'[p].tag = con[p].tag /\ con'[p].i = con[p].i /\ con'[p].old = con[p].old
    <2>1. "preflight" \in SelfSteps \cup CoreSteps \cup {"off", "menu"}
        BY <1>2, <1>3, ConsoleFacts, StepNames, Order
    <2>2. [con[p] EXCEPT !.pc = "preflight"] \in Console
        BY ConsoleFacts, <2>1 DEF Console
    <2>3. con' = [con EXCEPT ![p] = [con[p] EXCEPT !.pc = "preflight"]]
        BY <1>2 DEF TypeOK, Returned, Go
    <2>4. Changed(p)
        BY <2>2, <2>3 DEF TypeOK, Changed
    <2>5. con'[p] = [con[p] EXCEPT !.pc = "preflight"]
        BY <2>3 DEF TypeOK
    <2>6. /\ con'[p].pc = "preflight" /\ con'[p].tool = con[p].tool
          /\ con'[p].tag = con[p].tag /\ con'[p].i = con[p].i /\ con'[p].old = con[p].old
        BY ConsoleFacts, <2>5 DEF Console
    <2> QED
        BY <2>4, <2>6
<1>5. UNCHANGED <<hub, lock, agent, core, job, faults, runs>>
    BY DEF Returned
<1>6. TypeOK'
    BY <1>2, <1>4, <1>5 DEF TypeOK, Changed
<1>7. Frame(p)
    BY <1>1, StepNames, <1>2, <1>4, <1>5 DEF Frame, SelfAt
<1>8. Settled' /\ BehindHub' \subseteq BehindHub
    BY <1>5, AgentsKept
<1>9. CoreInv'
    BY <1>5, CoresKept
<1>10. SelfAt(p)'
    BY <1>1, <1>2, <1>4, <1>5, StepNames, ConsoleFacts, VersionFacts DEF SelfAt, TypeOK
<1>11. SpokeAt(p)'
    BY <1>1, <1>2, <1>4, <1>5, StepNames, ConsoleFacts, Order DEF SpokeAt, AtSpoke
<1>12. CoreAt(p)'
    BY <1>1, <1>2, <1>4, <1>5, StepNames, ConsoleFacts DEF CoreAt
<1>13. AgentsAt(p)'
    BY <1>4, <1>2, StepNames DEF AgentsAt
<1> QED
    BY <1>6, <1>7, <1>8, <1>9, <1>10, <1>11, <1>12, <1>13 DEF Safe

\* ReturnTimesOut is a safe step of its console.
LEMMA DoesReturnTimesOut ==
    ASSUME IInv, NEW p \in Consoles, ReturnTimesOut(p)
    PROVE  Safe(p)
<1> TypeOK /\ ConsoleInv
    BY Facts
<1>1. SelfAt(p) /\ CoreAt(p) /\ SpokeAt(p) /\ AgentsAt(p)
    BY Mine
<1>2. /\ con[p].pc = "await"
    BY <1>1 DEF ReturnTimesOut, Restoring
<1>3. AtSpoke(p)
    BY <1>1, <1>2, StepNames DEF SpokeAt
<1>4. /\ Changed(p)
      /\ con'[p].pc = "restore" /\ con'[p].tool = con[p].tool
      /\ con'[p].tag = con[p].tag /\ con'[p].i = 1 /\ con'[p].old = con[p].old
    <2>1. "restore" \in SelfSteps \cup CoreSteps \cup {"off", "menu"} /\ 1 \in 0..Len(SpokeOrder) + 1
        BY <1>2, <1>3, ConsoleFacts, StepNames, Order
    <2>2. [con[p] EXCEPT !.pc = "restore", !.list = con[p].list, !.i = 1] \in Console
        BY ConsoleFacts, <2>1 DEF Console
    <2>3. con' = [con EXCEPT ![p] = [con[p] EXCEPT !.pc = "restore", !.list = con[p].list, !.i = 1]]
        BY <1>2 DEF TypeOK, ReturnTimesOut, Restoring
    <2>4. Changed(p)
        BY <2>2, <2>3 DEF TypeOK, Changed
    <2>5. con'[p] = [con[p] EXCEPT !.pc = "restore", !.list = con[p].list, !.i = 1]
        BY <2>3 DEF TypeOK
    <2>6. /\ con'[p].pc = "restore" /\ con'[p].tool = con[p].tool
          /\ con'[p].tag = con[p].tag /\ con'[p].i = 1 /\ con'[p].old = con[p].old
        BY ConsoleFacts, <2>5 DEF Console
    <2> QED
        BY <2>4, <2>6
<1>5. faults' \in 0..MaxFaults
    BY Failing DEF TypeOK, ReturnTimesOut
<1>6. UNCHANGED <<hub, lock, agent, core, job, runs>>
    BY DEF ReturnTimesOut
<1>7. TypeOK'
    BY <1>2, <1>4, <1>5, <1>6 DEF TypeOK, Changed
<1>8. Frame(p)
    BY <1>1, StepNames, <1>2, <1>4, <1>5, <1>6 DEF Frame, SelfAt
<1>9. Settled' /\ BehindHub' \subseteq BehindHub
    BY <1>6, AgentsKept
<1>10. CoreInv'
    BY <1>6, CoresKept
<1>11. SelfAt(p)'
    BY <1>1, <1>2, <1>4, <1>5, <1>6, StepNames, ConsoleFacts, VersionFacts DEF SelfAt, TypeOK
<1>12. SpokeAt(p)'
    BY <1>1, <1>2, <1>4, <1>5, <1>6, StepNames, ConsoleFacts, Order DEF SpokeAt, AtSpoke
<1>13. CoreAt(p)'
    BY <1>1, <1>2, <1>4, <1>5, <1>6, StepNames, ConsoleFacts DEF CoreAt
<1>14. AgentsAt(p)'
    BY <1>4, <1>2, StepNames DEF AgentsAt
<1> QED
    BY <1>7, <1>8, <1>9, <1>10, <1>11, <1>12, <1>13, <1>14 DEF Safe

\* Replace is a safe step of its console.
LEMMA DoesReplace ==
    ASSUME IInv, NEW p \in Consoles, Replace(p)
    PROVE  Safe(p)
<1> TypeOK /\ ConsoleInv
    BY Facts
<1>1. SelfAt(p) /\ CoreAt(p) /\ SpokeAt(p) /\ AgentsAt(p)
    BY Mine
<1>2. /\ con[p].pc = "agents"
      /\ ~AtSpoke(p)
    BY <1>1 DEF Replace
<1>3. /\ Changed(p)
      /\ con'[p].pc = "activate" /\ con'[p].tool = con[p].tool
      /\ con'[p].tag = con[p].tag /\ con'[p].i = con[p].i /\ con'[p].old = con[p].old
    <2>1. "activate" \in SelfSteps \cup CoreSteps \cup {"off", "menu"}
        BY <1>2, ConsoleFacts, StepNames, Order
    <2>2. [con[p] EXCEPT !.pc = "activate"] \in Console
        BY ConsoleFacts, <2>1 DEF Console
    <2>3. con' = [con EXCEPT ![p] = [con[p] EXCEPT !.pc = "activate"]]
        BY <1>2 DEF TypeOK, Replace, Go
    <2>4. Changed(p)
        BY <2>2, <2>3 DEF TypeOK, Changed
    <2>5. con'[p] = [con[p] EXCEPT !.pc = "activate"]
        BY <2>3 DEF TypeOK
    <2>6. /\ con'[p].pc = "activate" /\ con'[p].tool = con[p].tool
          /\ con'[p].tag = con[p].tag /\ con'[p].i = con[p].i /\ con'[p].old = con[p].old
        BY ConsoleFacts, <2>5 DEF Console
    <2> QED
        BY <2>4, <2>6
<1>4. UNCHANGED <<lock, agent, core, job, faults, runs>>
    BY DEF Replace
<1>5. hub' = con[p].tag /\ con[p].tag \in Versions /\ con[p].tag > hub /\ hub \in Int /\ con[p].tag \in Int
    BY <1>1, <1>2, StepNames, VersionFacts DEF SelfAt, TypeOK, Replace
<1>6. TypeOK'
    BY <1>2, <1>3, <1>4, <1>5 DEF TypeOK, Changed
<1>7. Frame(p)
    BY <1>2, <1>3, <1>4, <1>5, <1>1, StepNames, ConsoleFacts DEF Frame, SelfAt
<1>8. Settled' /\ BehindHub' \subseteq BehindHub
    <2>1. con[p].i = Len(SpokeOrder) + 1
        BY <1>1, <1>2, ConsoleFacts, StepNames, Order DEF SpokeAt, AtSpoke
    <2>2. \A s \in Spokes : Reached(s, con[p].tag)
        BY <2>1, <1>1, <1>2, Order DEF AgentsAt
    <2>3. BehindHub' = {}
        BY <2>2, <1>4, <1>5, AgentFacts DEF BehindHub, Reached
    <2> QED
        BY <2>3, <1>4, AgentsKept
<1>9. CoreInv'
    BY <1>4, CoresKept
<1>10. SelfAt(p)'
    BY <1>1, <1>2, <1>3, <1>4, <1>5, StepNames, ConsoleFacts, VersionFacts DEF SelfAt, TypeOK
<1>11. SpokeAt(p)'
    BY <1>1, <1>2, <1>3, <1>4, <1>5, StepNames, ConsoleFacts, Order DEF SpokeAt, AtSpoke
<1>12. CoreAt(p)'
    BY <1>1, <1>2, <1>3, <1>4, <1>5, StepNames, ConsoleFacts DEF CoreAt
<1>13. AgentsAt(p)'
    BY <1>3, <1>2, StepNames DEF AgentsAt
<1> QED
    BY <1>6, <1>7, <1>8, <1>9, <1>10, <1>11, <1>12, <1>13 DEF Safe

\* ReplaceFails is a safe step of its console.
LEMMA DoesReplaceFails ==
    ASSUME IInv, NEW p \in Consoles, ReplaceFails(p)
    PROVE  Safe(p)
<1> TypeOK /\ ConsoleInv
    BY Facts
<1>1. SelfAt(p) /\ CoreAt(p) /\ SpokeAt(p) /\ AgentsAt(p)
    BY Mine
<1>2. /\ con[p].pc = "agents"
      /\ ~AtSpoke(p)
    BY <1>1 DEF ReplaceFails, Restoring
<1>3. /\ Changed(p)
      /\ con'[p].pc = "restore" /\ con'[p].tool = con[p].tool
      /\ con'[p].tag = con[p].tag /\ con'[p].i = 1 /\ con'[p].old = con[p].old
    <2>1. "restore" \in SelfSteps \cup CoreSteps \cup {"off", "menu"} /\ 1 \in 0..Len(SpokeOrder) + 1
        BY <1>2, ConsoleFacts, StepNames, Order
    <2>2. [con[p] EXCEPT !.pc = "restore", !.list = Spokes, !.i = 1] \in Console
        BY ConsoleFacts, <2>1 DEF Console
    <2>3. con' = [con EXCEPT ![p] = [con[p] EXCEPT !.pc = "restore", !.list = Spokes, !.i = 1]]
        BY <1>2 DEF TypeOK, ReplaceFails, Restoring
    <2>4. Changed(p)
        BY <2>2, <2>3 DEF TypeOK, Changed
    <2>5. con'[p] = [con[p] EXCEPT !.pc = "restore", !.list = Spokes, !.i = 1]
        BY <2>3 DEF TypeOK
    <2>6. /\ con'[p].pc = "restore" /\ con'[p].tool = con[p].tool
          /\ con'[p].tag = con[p].tag /\ con'[p].i = 1 /\ con'[p].old = con[p].old
        BY ConsoleFacts, <2>5 DEF Console
    <2> QED
        BY <2>4, <2>6
<1>4. faults' \in 0..MaxFaults
    BY Failing DEF TypeOK, ReplaceFails
<1>5. UNCHANGED <<hub, lock, agent, core, job, runs>>
    BY DEF ReplaceFails
<1>6. TypeOK'
    BY <1>2, <1>3, <1>4, <1>5 DEF TypeOK, Changed
<1>7. Frame(p)
    BY <1>1, StepNames, <1>2, <1>3, <1>4, <1>5 DEF Frame, SelfAt
<1>8. Settled' /\ BehindHub' \subseteq BehindHub
    BY <1>5, AgentsKept
<1>9. CoreInv'
    BY <1>5, CoresKept
<1>10. SelfAt(p)'
    BY <1>1, <1>2, <1>3, <1>4, <1>5, StepNames, ConsoleFacts, VersionFacts DEF SelfAt, TypeOK
<1>11. SpokeAt(p)'
    BY <1>1, <1>2, <1>3, <1>4, <1>5, StepNames, ConsoleFacts, Order DEF SpokeAt, AtSpoke
<1>12. CoreAt(p)'
    BY <1>1, <1>2, <1>3, <1>4, <1>5, StepNames, ConsoleFacts DEF CoreAt
<1>13. AgentsAt(p)'
    BY <1>3, <1>2, StepNames DEF AgentsAt
<1> QED
    BY <1>6, <1>7, <1>8, <1>9, <1>10, <1>11, <1>12, <1>13 DEF Safe

\* AfterReplace is a safe step of its console.
LEMMA DoesAfterReplace ==
    ASSUME IInv, NEW p \in Consoles, AfterReplace(p)
    PROVE  Safe(p)
<1> TypeOK /\ ConsoleInv
    BY Facts
<1>1. SelfAt(p) /\ CoreAt(p) /\ SpokeAt(p) /\ AgentsAt(p)
    BY Mine
<1>2. /\ con[p].pc = "activate"
    BY <1>1 DEF AfterReplace, NoFault
<1>3. Quit(con[p].tool) \in Console
    BY ConsoleFacts, MenuFacts DEF TypeOK
<1>4. Changed(p) /\ con'[p] = Quit(con[p].tool)
    BY <1>3 DEF TypeOK, Changed, AfterReplace, NoFault, Quit
<1>5. con'[p].pc = "off" /\ con'[p].tool = con[p].tool /\ con'[p].i = 1
    BY <1>4, ConsoleFacts, MenuFacts DEF TypeOK
<1>6. faults' \in 0..MaxFaults
    BY Failing DEF TypeOK, AfterReplace, NoFault
<1>7. UNCHANGED <<hub, agent, core, job, runs>>
    BY DEF AfterReplace
<1>8. lock' = None
    BY DEF AfterReplace
<1>9. TypeOK'
    BY <1>2, <1>4, <1>5, <1>6, <1>7, <1>8 DEF TypeOK, Changed
<1>10. Frame(p)
    BY <1>1, StepNames, <1>2, <1>4, <1>5, <1>6, <1>7, <1>8 DEF Frame, SelfAt
<1>11. Settled' /\ BehindHub' \subseteq BehindHub
    BY <1>7, AgentsKept
<1>12. CoreInv'
    BY <1>7, CoresKept
<1>13. SelfAt(p)'
    BY <1>1, <1>2, <1>4, <1>5, <1>6, <1>7, <1>8, StepNames, ConsoleFacts, VersionFacts
    DEF SelfAt, TypeOK
<1>14. SpokeAt(p)'
    BY <1>1, <1>2, <1>4, <1>5, <1>6, <1>7, <1>8, StepNames, ConsoleFacts, Order
    DEF SpokeAt, AtSpoke
<1>15. CoreAt(p)'
    BY <1>1, <1>2, <1>4, <1>5, <1>6, <1>7, <1>8, StepNames, ConsoleFacts DEF CoreAt
<1>16. AgentsAt(p)'
    BY <1>5, <1>2, StepNames DEF AgentsAt
<1> QED
    BY <1>9, <1>10, <1>11, <1>12, <1>13, <1>14, <1>15, <1>16 DEF Safe

\* RestoreAgentVersion is a safe step of its console.
LEMMA DoesRestoreAgentVersion ==
    ASSUME IInv, NEW p \in Consoles, RestoreAgentVersion(p)
    PROVE  Safe(p)
<1> TypeOK /\ ConsoleInv
    BY Facts
<1>1. SelfAt(p) /\ CoreAt(p) /\ SpokeAt(p) /\ AgentsAt(p)
    BY Mine
<1>2. /\ con[p].pc = "restore"
      /\ AtSpoke(p)
      /\ ~agent[Spoke(p)].due
    BY <1>1 DEF RestoreAgentVersion, GateOpen
<1>3. /\ Changed(p)
      /\ con'[p].pc = "reawait" /\ con'[p].tool = con[p].tool
      /\ con'[p].tag = con[p].tag /\ con'[p].i = con[p].i /\ con'[p].old = con[p].old
    <2>1. "reawait" \in SelfSteps \cup CoreSteps \cup {"off", "menu"}
        BY <1>2, ConsoleFacts, StepNames, Order
    <2>2. [con[p] EXCEPT !.pc = "reawait"] \in Console
        BY ConsoleFacts, <2>1 DEF Console
    <2>3. con' = [con EXCEPT ![p] = [con[p] EXCEPT !.pc = "reawait"]]
        BY <1>2 DEF TypeOK, RestoreAgentVersion, GateOpen, Go
    <2>4. Changed(p)
        BY <2>2, <2>3 DEF TypeOK, Changed
    <2>5. con'[p] = [con[p] EXCEPT !.pc = "reawait"]
        BY <2>3 DEF TypeOK
    <2>6. /\ con'[p].pc = "reawait" /\ con'[p].tool = con[p].tool
          /\ con'[p].tag = con[p].tag /\ con'[p].i = con[p].i /\ con'[p].old = con[p].old
        BY ConsoleFacts, <2>5 DEF Console
    <2> QED
        BY <2>4, <2>6
<1>4. con[p].tool \in Versions /\ Spoke(p) \in Spokes /\ agent[Spoke(p)].late \in BOOLEAN
    BY <1>1, <1>2, ConsoleFacts, AgentFacts, StepNames DEF SelfAt
<1>5. Upg(Spoke(p), con[p].tool, agent[Spoke(p)].late)
    BY <1>2, <1>4, Upgrading DEF RestoreAgentVersion, GateOpen
<1>6. UNCHANGED <<hub, lock, core, job, faults, runs>>
    BY DEF RestoreAgentVersion
<1>7. TypeOK'
    BY <1>2, <1>3, <1>5, <1>6 DEF TypeOK, Changed, Upg
<1>8. Frame(p)
    BY <1>2, <1>3, <1>5, <1>6, <1>1, StepNames, ConsoleFacts DEF Frame, SelfAt, Upg
<1>9. con[p].tool >= hub
    BY <1>1, <1>2, StepNames, ConsoleFacts, AgentFacts, VersionFacts, <1>4 DEF SelfAt, TypeOK
<1>10. Settled' /\ BehindHub' \subseteq BehindHub
    BY <1>9, <1>4, AgentUpgraded, <1>2, <1>3, <1>5, <1>6
<1>11. CoreInv'
    BY <1>6, CoresKept
<1>12. SelfAt(p)'
    BY <1>1, <1>2, <1>3, <1>5, <1>6, StepNames, ConsoleFacts, VersionFacts DEF SelfAt, TypeOK
<1>13. SpokeAt(p)'
    BY <1>1, <1>2, <1>3, <1>5, <1>6, StepNames, ConsoleFacts, Order DEF SpokeAt, AtSpoke
<1>14. CoreAt(p)'
    BY <1>1, <1>2, <1>3, <1>5, <1>6, StepNames, ConsoleFacts DEF CoreAt
<1>15. AgentsAt(p)'
    BY <1>3, <1>2, StepNames DEF AgentsAt
<1> QED
    BY <1>7, <1>8, <1>10, <1>11, <1>12, <1>13, <1>14, <1>15 DEF Safe

\* RestoreSkips is a safe step of its console.
LEMMA DoesRestoreSkips ==
    ASSUME IInv, NEW p \in Consoles, RestoreSkips(p)
    PROVE  Safe(p)
<1> TypeOK /\ ConsoleInv
    BY Facts
<1>1. SelfAt(p) /\ CoreAt(p) /\ SpokeAt(p) /\ AgentsAt(p)
    BY Mine
<1>2. /\ con[p].pc = "restore"
      /\ AtSpoke(p)
    BY <1>1 DEF RestoreSkips, Advance
<1>3. /\ Changed(p)
      /\ con'[p].pc = "restore" /\ con'[p].tool = con[p].tool
      /\ con'[p].tag = con[p].tag /\ con'[p].i = con[p].i + 1
      /\ con'[p].old = con[p].old
    <2>1. "restore" \in SelfSteps \cup CoreSteps \cup {"off", "menu"} /\ con[p].i + 1 \in 0..Len(SpokeOrder) + 1
        BY <1>2, ConsoleFacts, StepNames, Order
    <2>2. [con[p] EXCEPT !.pc = "restore", !.i = @ + 1] \in Console
        BY ConsoleFacts, <2>1 DEF Console
    <2>3. con' = [con EXCEPT ![p] = [con[p] EXCEPT !.pc = "restore", !.i = @ + 1]]
        BY <1>2 DEF TypeOK, RestoreSkips, Advance
    <2>4. Changed(p)
        BY <2>2, <2>3 DEF TypeOK, Changed
    <2>5. con'[p] = [con[p] EXCEPT !.pc = "restore", !.i = @ + 1]
        BY <2>3 DEF TypeOK
    <2>6. /\ con'[p].pc = "restore" /\ con'[p].tool = con[p].tool
          /\ con'[p].tag = con[p].tag /\ con'[p].i = con[p].i + 1
          /\ con'[p].old = con[p].old
        BY ConsoleFacts, <2>5 DEF Console
    <2> QED
        BY <2>4, <2>6
<1>4. UNCHANGED <<hub, lock, agent, core, job, faults, runs>>
    BY DEF RestoreSkips
<1>5. TypeOK'
    BY <1>2, <1>3, <1>4 DEF TypeOK, Changed
<1>6. Frame(p)
    BY <1>1, StepNames, <1>2, <1>3, <1>4 DEF Frame, SelfAt
<1>7. Settled' /\ BehindHub' \subseteq BehindHub
    BY <1>4, AgentsKept
<1>8. CoreInv'
    BY <1>4, CoresKept
<1>9. SelfAt(p)'
    BY <1>1, <1>2, <1>3, <1>4, StepNames, ConsoleFacts, VersionFacts DEF SelfAt, TypeOK
<1>10. SpokeAt(p)'
    BY <1>1, <1>2, <1>3, <1>4, StepNames, ConsoleFacts, Order DEF SpokeAt, AtSpoke
<1>11. CoreAt(p)'
    BY <1>1, <1>2, <1>3, <1>4, StepNames, ConsoleFacts DEF CoreAt
<1>12. AgentsAt(p)'
    BY <1>3, <1>2, StepNames DEF AgentsAt
<1> QED
    BY <1>5, <1>6, <1>7, <1>8, <1>9, <1>10, <1>11, <1>12 DEF Safe

\* Restored is a safe step of its console.
LEMMA DoesRestored ==
    ASSUME IInv, NEW p \in Consoles, Restored(p)
    PROVE  Safe(p)
<1> TypeOK /\ ConsoleInv
    BY Facts
<1>1. SelfAt(p) /\ CoreAt(p) /\ SpokeAt(p) /\ AgentsAt(p)
    BY Mine
<1>2. /\ con[p].pc = "reawait"
    BY <1>1 DEF Restored, Advance
<1>3. AtSpoke(p)
    BY <1>1, <1>2, StepNames DEF SpokeAt
<1>4. /\ Changed(p)
      /\ con'[p].pc = "restore" /\ con'[p].tool = con[p].tool
      /\ con'[p].tag = con[p].tag /\ con'[p].i = con[p].i + 1
      /\ con'[p].old = con[p].old
    <2>1. "restore" \in SelfSteps \cup CoreSteps \cup {"off", "menu"} /\ con[p].i + 1 \in 0..Len(SpokeOrder) + 1
        BY <1>2, <1>3, ConsoleFacts, StepNames, Order
    <2>2. [con[p] EXCEPT !.pc = "restore", !.i = @ + 1] \in Console
        BY ConsoleFacts, <2>1 DEF Console
    <2>3. con' = [con EXCEPT ![p] = [con[p] EXCEPT !.pc = "restore", !.i = @ + 1]]
        BY <1>2 DEF TypeOK, Restored, Advance
    <2>4. Changed(p)
        BY <2>2, <2>3 DEF TypeOK, Changed
    <2>5. con'[p] = [con[p] EXCEPT !.pc = "restore", !.i = @ + 1]
        BY <2>3 DEF TypeOK
    <2>6. /\ con'[p].pc = "restore" /\ con'[p].tool = con[p].tool
          /\ con'[p].tag = con[p].tag /\ con'[p].i = con[p].i + 1
          /\ con'[p].old = con[p].old
        BY ConsoleFacts, <2>5 DEF Console
    <2> QED
        BY <2>4, <2>6
<1>5. UNCHANGED <<hub, lock, agent, core, job, faults, runs>>
    BY DEF Restored
<1>6. TypeOK'
    BY <1>2, <1>4, <1>5 DEF TypeOK, Changed
<1>7. Frame(p)
    BY <1>1, StepNames, <1>2, <1>4, <1>5 DEF Frame, SelfAt
<1>8. Settled' /\ BehindHub' \subseteq BehindHub
    BY <1>5, AgentsKept
<1>9. CoreInv'
    BY <1>5, CoresKept
<1>10. SelfAt(p)'
    BY <1>1, <1>2, <1>4, <1>5, StepNames, ConsoleFacts, VersionFacts DEF SelfAt, TypeOK
<1>11. SpokeAt(p)'
    BY <1>1, <1>2, <1>4, <1>5, StepNames, ConsoleFacts, Order DEF SpokeAt, AtSpoke
<1>12. CoreAt(p)'
    BY <1>1, <1>2, <1>4, <1>5, StepNames, ConsoleFacts DEF CoreAt
<1>13. AgentsAt(p)'
    BY <1>4, <1>2, StepNames DEF AgentsAt
<1> QED
    BY <1>6, <1>7, <1>8, <1>9, <1>10, <1>11, <1>12, <1>13 DEF Safe

\* RestoreFails is a safe step of its console.
LEMMA DoesRestoreFails ==
    ASSUME IInv, NEW p \in Consoles, RestoreFails(p)
    PROVE  Safe(p)
<1> TypeOK /\ ConsoleInv
    BY Facts
<1>1. SelfAt(p) /\ CoreAt(p) /\ SpokeAt(p) /\ AgentsAt(p)
    BY Mine
<1>2. /\ con[p].pc \in {"restore", "reawait"}
      /\ AtSpoke(p)
    BY <1>1, StepNames DEF RestoreFails, SpokeAt
<1>3. /\ Changed(p)
      /\ con'[p].pc = "restore" /\ con'[p].tool = con[p].tool
      /\ con'[p].tag = con[p].tag /\ con'[p].i = con[p].i + 1
      /\ con'[p].old = con[p].old
    <2>1. "restore" \in SelfSteps \cup CoreSteps \cup {"off", "menu"} /\ con[p].i + 1 \in 0..Len(SpokeOrder) + 1
        BY <1>2, ConsoleFacts, StepNames, Order
    <2>2. [con[p] EXCEPT !.pc = "restore", !.i = @ + 1, !.bad = TRUE] \in Console
        BY ConsoleFacts, <2>1 DEF Console
    <2>3. con' = [con EXCEPT ![p] = [con[p] EXCEPT !.pc = "restore", !.i = @ + 1, !.bad = TRUE]]
        BY <1>2 DEF TypeOK, RestoreFails
    <2>4. Changed(p)
        BY <2>2, <2>3 DEF TypeOK, Changed
    <2>5. con'[p] = [con[p] EXCEPT !.pc = "restore", !.i = @ + 1, !.bad = TRUE]
        BY <2>3 DEF TypeOK
    <2>6. /\ con'[p].pc = "restore" /\ con'[p].tool = con[p].tool
          /\ con'[p].tag = con[p].tag /\ con'[p].i = con[p].i + 1
          /\ con'[p].old = con[p].old
        BY ConsoleFacts, <2>5 DEF Console
    <2> QED
        BY <2>4, <2>6
<1>4. faults' \in 0..MaxFaults
    BY Failing DEF TypeOK, RestoreFails
<1>5. UNCHANGED <<hub, lock, agent, core, job, runs>>
    BY DEF RestoreFails
<1>6. TypeOK'
    BY <1>2, <1>3, <1>4, <1>5 DEF TypeOK, Changed
<1>7. Frame(p)
    BY <1>1, StepNames, <1>2, <1>3, <1>4, <1>5 DEF Frame, SelfAt
<1>8. Settled' /\ BehindHub' \subseteq BehindHub
    BY <1>5, AgentsKept
<1>9. CoreInv'
    BY <1>5, CoresKept
<1>10. SelfAt(p)'
    BY <1>1, <1>2, <1>3, <1>4, <1>5, StepNames, ConsoleFacts, VersionFacts DEF SelfAt, TypeOK
<1>11. SpokeAt(p)'
    BY <1>1, <1>2, <1>3, <1>4, <1>5, StepNames, ConsoleFacts, Order DEF SpokeAt, AtSpoke
<1>12. CoreAt(p)'
    BY <1>1, <1>2, <1>3, <1>4, <1>5, StepNames, ConsoleFacts DEF CoreAt
<1>13. AgentsAt(p)'
    BY <1>3, <1>2, StepNames DEF AgentsAt
<1> QED
    BY <1>6, <1>7, <1>8, <1>9, <1>10, <1>11, <1>12, <1>13 DEF Safe

\* UpdateFailed is a safe step of its console.
LEMMA DoesUpdateFailed ==
    ASSUME IInv, NEW p \in Consoles, UpdateFailed(p)
    PROVE  Safe(p)
<1> TypeOK /\ ConsoleInv
    BY Facts
<1>1. SelfAt(p) /\ CoreAt(p) /\ SpokeAt(p) /\ AgentsAt(p)
    BY Mine
<1>2. /\ con[p].pc = "restore"
    BY <1>1 DEF UpdateFailed
<1>3. Menu(con[p].tool) \in Console
    BY ConsoleFacts, MenuFacts DEF TypeOK
<1>4. Changed(p) /\ con'[p] = Menu(con[p].tool)
    BY <1>3 DEF TypeOK, Changed, UpdateFailed, Finish
<1>5. con'[p].pc = "menu" /\ con'[p].tool = con[p].tool /\ con'[p].i = 1
    BY <1>4, ConsoleFacts, MenuFacts DEF TypeOK
<1>6. UNCHANGED <<hub, agent, core, job, faults, runs>>
    BY DEF UpdateFailed
<1>7. lock' = None
    BY DEF UpdateFailed
<1>8. TypeOK'
    BY <1>2, <1>4, <1>5, <1>6, <1>7 DEF TypeOK, Changed
<1>9. Frame(p)
    BY <1>1, StepNames, <1>2, <1>4, <1>5, <1>6, <1>7 DEF Frame, SelfAt
<1>10. Settled' /\ BehindHub' \subseteq BehindHub
    BY <1>6, AgentsKept
<1>11. CoreInv'
    BY <1>6, CoresKept
<1>12. SelfAt(p)'
    BY <1>1, <1>2, <1>4, <1>5, <1>6, <1>7, StepNames, ConsoleFacts, VersionFacts
    DEF SelfAt, TypeOK
<1>13. SpokeAt(p)'
    BY <1>1, <1>2, <1>4, <1>5, <1>6, <1>7, StepNames, ConsoleFacts, Order DEF SpokeAt, AtSpoke
<1>14. CoreAt(p)'
    BY <1>1, <1>2, <1>4, <1>5, <1>6, <1>7, StepNames, ConsoleFacts DEF CoreAt
<1>15. AgentsAt(p)'
    BY <1>5, <1>2, StepNames DEF AgentsAt
<1> QED
    BY <1>8, <1>9, <1>10, <1>11, <1>12, <1>13, <1>14, <1>15 DEF Safe

\* ChangeFleetCore is a safe step of its console.
LEMMA DoesChangeFleetCore ==
    ASSUME IInv, NEW p \in Consoles, p = Changer, NEW c \in Cores, ChangeFleetCore(c)
    PROVE  Safe(p)
<1> TypeOK /\ ConsoleInv
    BY Facts
<1>1. SelfAt(p) /\ CoreAt(p) /\ SpokeAt(p) /\ AgentsAt(p)
    BY Mine
<1>2. /\ con[p].pc = "menu"
    BY <1>1 DEF ChangeFleetCore
<1>3. /\ Changed(p)
      /\ con'[p].pc = "preflight" /\ con'[p].tool = con[p].tool /\ con'[p].tag = c
      /\ con'[p].i = con[p].i
      /\ con'[p].old = [con[p].old EXCEPT ![Hub] = core[Hub].bin]
    <2>1. "preflight" \in SelfSteps \cup CoreSteps \cup {"off", "menu"} /\ c \in Versions \cup Cores \cup {None} /\ [con[p].old EXCEPT ![Hub] = core[Hub].bin] \in [Hosts -> Cores \cup {None}] /\ Hub \in Hosts /\ NoReplacement \in BOOLEAN
        BY <1>2, ConsoleFacts, StepNames, Order, CoreFacts DEF NoReplacement
    <2>2. [con[p] EXCEPT !.pc = "preflight", !.tag = c,
                 !.old[Hub] = core[Hub].bin,
                 !.alone = NoReplacement] \in Console
        <3>1. \A o \in [Hosts -> Cores \cup {None}] : [con[p] EXCEPT !.pc = "preflight", !.tag = c,
                 !.old = o,
                 !.alone = NoReplacement] \in Console
            BY ConsoleFacts, <2>1, ZenonT(60) DEF Console
        <3>2. [con[p] EXCEPT !.pc = "preflight", !.tag = c,
                 !.old = [con[p].old EXCEPT ![Hub] = core[Hub].bin],
                 !.alone = NoReplacement] \in Console
            BY <2>1, <3>1
        <3> QED
            BY <3>2
    <2>3. con' = [con EXCEPT ![p] = [con[p] EXCEPT !.pc = "preflight", !.tag = c,
                 !.old[Hub] = core[Hub].bin,
                 !.alone = NoReplacement]]
        <3>1. con' = [con EXCEPT ![Changer] = [con[Changer] EXCEPT !.pc = "preflight", !.tag = c,
                 !.old[Hub] = core[Hub].bin,
                 !.alone = NoReplacement]]
            BY DEF ChangeFleetCore
        <3> QED
            BY <3>1
    <2>4. Changed(p)
        BY <2>2, <2>3 DEF TypeOK, Changed
    <2>5. con'[p] = [con[p] EXCEPT !.pc = "preflight", !.tag = c,
                 !.old[Hub] = core[Hub].bin,
                 !.alone = NoReplacement]
        BY <2>3 DEF TypeOK
    <2>6. /\ con'[p].pc = "preflight" /\ con'[p].tool = con[p].tool /\ con'[p].tag = c
          /\ con'[p].i = con[p].i
          /\ con'[p].old = [con[p].old EXCEPT ![Hub] = core[Hub].bin]
        BY ConsoleFacts, <2>5 DEF Console
    <2> QED
        BY <2>4, <2>6
<1>4. runs' \in 0..MaxRuns
    BY BoundsAssumption DEF TypeOK, ChangeFleetCore
<1>5. UNCHANGED <<hub, lock, agent, core, job, faults>>
    BY DEF ChangeFleetCore
<1>6. TypeOK'
    BY <1>2, <1>3, <1>4, <1>5 DEF TypeOK, Changed
<1>7. Frame(p)
    BY <1>1, StepNames, <1>2, <1>3, <1>4, <1>5 DEF Frame, SelfAt
<1>8. Settled' /\ BehindHub' \subseteq BehindHub
    BY <1>5, AgentsKept
<1>9. CoreInv'
    BY <1>5, CoresKept
<1>10. SelfAt(p)'
    BY <1>1, <1>2, <1>3, <1>4, <1>5, StepNames, ConsoleFacts, VersionFacts DEF SelfAt, TypeOK
<1>11. SpokeAt(p)'
    BY <1>1, <1>2, <1>3, <1>4, <1>5, StepNames, ConsoleFacts, Order DEF SpokeAt, AtSpoke
<1>12. CoreAt(p)'
    <2>1. con[p].i = 1
        BY <1>1, <1>2 DEF SpokeAt
    <2>2. con'[p].old[Hub] \in Cores
        BY <1>3, ConsoleFacts, CoreFacts, Order
    <2> QED
        BY <1>3, <2>1, <2>2, StepNames DEF CoreAt
<1>13. AgentsAt(p)'
    BY <1>3, <1>2, StepNames DEF AgentsAt
<1> QED
    BY <1>6, <1>7, <1>8, <1>9, <1>10, <1>11, <1>12, <1>13 DEF Safe

\* inspectFleetCore is a safe step of its console, when agent[Spoke(p)].run <
\* con[p].tool.
LEMMA DoesInspectFleetCoreA ==
    ASSUME IInv, NEW p \in Consoles, p = Changer, inspectFleetCore(p),
           agent[Spoke(p)].run < con[p].tool
    PROVE  Safe(p)
<1> TypeOK /\ ConsoleInv
    BY Facts
<1>1. SelfAt(p) /\ CoreAt(p) /\ SpokeAt(p) /\ AgentsAt(p)
    BY Mine
<1>2. /\ con[p].pc = "preflight"
      /\ AtSpoke(p)
    BY <1>1 DEF inspectFleetCore, shouldReplaceAgentVersion
<1>3. /\ Changed(p)
      /\ con'[p].pc = "outdated" /\ con'[p].tool = con[p].tool
      /\ con'[p].tag = con[p].tag /\ con'[p].i = con[p].i /\ con'[p].old = con[p].old
    <2>1. "outdated" \in SelfSteps \cup CoreSteps \cup {"off", "menu"}
        BY <1>2, ConsoleFacts, StepNames, Order
    <2>2. [con[p] EXCEPT !.pc = "outdated"] \in Console
        BY ConsoleFacts, <2>1 DEF Console
    <2>3. con' = [con EXCEPT ![p] = [con[p] EXCEPT !.pc = "outdated"]]
        BY <1>2 DEF TypeOK, inspectFleetCore, shouldReplaceAgentVersion, Go
    <2>4. Changed(p)
        BY <2>2, <2>3 DEF TypeOK, Changed
    <2>5. con'[p] = [con[p] EXCEPT !.pc = "outdated"]
        BY <2>3 DEF TypeOK
    <2>6. /\ con'[p].pc = "outdated" /\ con'[p].tool = con[p].tool
          /\ con'[p].tag = con[p].tag /\ con'[p].i = con[p].i /\ con'[p].old = con[p].old
        BY ConsoleFacts, <2>5 DEF Console
    <2> QED
        BY <2>4, <2>6
<1>4. UNCHANGED <<hub, lock, agent, core, job, faults, runs>>
    BY DEF inspectFleetCore, shouldReplaceAgentVersion
<1>5. TypeOK'
    BY <1>2, <1>3, <1>4 DEF TypeOK, Changed
<1>6. Frame(p)
    BY <1>1, StepNames, <1>2, <1>3, <1>4 DEF Frame, SelfAt
<1>7. Settled' /\ BehindHub' \subseteq BehindHub
    BY <1>4, AgentsKept
<1>8. CoreInv'
    BY <1>4, CoresKept
<1>9. SelfAt(p)'
    BY <1>1, <1>2, <1>3, <1>4, StepNames, ConsoleFacts, VersionFacts DEF SelfAt, TypeOK
<1>10. SpokeAt(p)'
    BY <1>1, <1>2, <1>3, <1>4, StepNames, ConsoleFacts, Order DEF SpokeAt, AtSpoke
<1>11. CoreAt(p)'
    BY <1>1, <1>2, <1>3, <1>4, StepNames, ConsoleFacts DEF CoreAt
<1>12. AgentsAt(p)'
    BY <1>3, <1>2, StepNames DEF AgentsAt
<1> QED
    BY <1>5, <1>6, <1>7, <1>8, <1>9, <1>10, <1>11, <1>12 DEF Safe

\* inspectFleetCore is a safe step of its console, when ~(agent[Spoke(p)].run <
\* con[p].tool).
LEMMA DoesInspectFleetCoreB ==
    ASSUME IInv, NEW p \in Consoles, p = Changer, inspectFleetCore(p),
           ~(agent[Spoke(p)].run < con[p].tool)
    PROVE  Safe(p)
<1> TypeOK /\ ConsoleInv
    BY Facts
<1>1. SelfAt(p) /\ CoreAt(p) /\ SpokeAt(p) /\ AgentsAt(p)
    BY Mine
<1>2. /\ con[p].pc = "preflight"
      /\ AtSpoke(p)
    BY <1>1 DEF inspectFleetCore, shouldReplaceAgentVersion
<1>3. /\ Changed(p)
      /\ con'[p].pc = con[p].pc /\ con'[p].tool = con[p].tool
      /\ con'[p].tag = con[p].tag /\ con'[p].i = con[p].i + 1
      /\ con'[p].old = [con[p].old EXCEPT ![Spoke(p)] = core[Spoke(p)].bin]
    <2>1. con[p].i + 1 \in 0..Len(SpokeOrder) + 1 /\ [con[p].old EXCEPT ![Spoke(p)] = core[Spoke(p)].bin] \in [Hosts -> Cores \cup {None}] /\ Hub \in Hosts
        BY <1>2, ConsoleFacts, StepNames, Order, CoreFacts
    <2>2. [con[p] EXCEPT !.old[Spoke(p)] = core[Spoke(p)].bin, !.i = @ + 1] \in Console
        <3>1. \A o \in [Hosts -> Cores \cup {None}] : [con[p] EXCEPT !.old = o, !.i = @ + 1] \in Console
            BY ConsoleFacts, <2>1, ZenonT(60) DEF Console
        <3>2. [con[p] EXCEPT !.old = [con[p].old EXCEPT ![Spoke(p)] = core[Spoke(p)].bin], !.i = @ + 1] \in Console
            BY <2>1, <3>1
        <3> QED
            BY <3>2
    <2>3. con' = [con EXCEPT ![p] = [con[p] EXCEPT !.old[Spoke(p)] = core[Spoke(p)].bin, !.i = @ + 1]]
        BY <1>2 DEF TypeOK, inspectFleetCore, shouldReplaceAgentVersion, Go
    <2>4. Changed(p)
        BY <2>2, <2>3 DEF TypeOK, Changed
    <2>5. con'[p] = [con[p] EXCEPT !.old[Spoke(p)] = core[Spoke(p)].bin, !.i = @ + 1]
        BY <2>3 DEF TypeOK
    <2>6. /\ con'[p].pc = con[p].pc /\ con'[p].tool = con[p].tool
          /\ con'[p].tag = con[p].tag /\ con'[p].i = con[p].i + 1
          /\ con'[p].old = [con[p].old EXCEPT ![Spoke(p)] = core[Spoke(p)].bin]
        BY ConsoleFacts, <2>5 DEF Console
    <2> QED
        BY <2>4, <2>6
<1>4. UNCHANGED <<hub, lock, agent, core, job, faults, runs>>
    BY DEF inspectFleetCore, shouldReplaceAgentVersion
<1>5. TypeOK'
    BY <1>2, <1>3, <1>4 DEF TypeOK, Changed
<1>6. Frame(p)
    BY <1>1, StepNames, <1>2, <1>3, <1>4 DEF Frame, SelfAt
<1>7. Settled' /\ BehindHub' \subseteq BehindHub
    BY <1>4, AgentsKept
<1>8. CoreInv'
    BY <1>4, CoresKept
<1>9. SelfAt(p)'
    BY <1>1, <1>2, <1>3, <1>4, StepNames, ConsoleFacts, VersionFacts DEF SelfAt, TypeOK
<1>10. SpokeAt(p)'
    BY <1>1, <1>2, <1>3, <1>4, StepNames, ConsoleFacts, Order DEF SpokeAt, AtSpoke
<1>11. CoreAt(p)'
    <2>1. con[p].i \in 1..Len(SpokeOrder) /\ core[Spoke(p)].bin \in Cores
        BY <1>2, ConsoleFacts, CoreFacts
    <2>2. Spoke(p) # Hub /\ con'[p].old[Hub] = con[p].old[Hub]
        BY <1>2, <1>3, ConsoleFacts, HostsAssumption
    <2>3. \A j \in 1..con[p].i : con'[p].old[SpokeOrder[j]] \in Cores
        BY <1>1, <1>2, <1>3, <2>1, Order, ConsoleFacts DEF CoreAt, Spoke
    <2>4. con'[p].i - 1 = con[p].i
        BY <1>3, <2>1
    <2> QED
        BY <1>1, <1>2, <1>3, <2>2, <2>3, <2>4, StepNames DEF CoreAt
<1>12. AgentsAt(p)'
    BY <1>3, <1>2, StepNames DEF AgentsAt
<1> QED
    BY <1>5, <1>6, <1>7, <1>8, <1>9, <1>10, <1>11, <1>12 DEF Safe

\* PreflightFails is a safe step of its console.
LEMMA DoesPreflightFails ==
    ASSUME IInv, NEW p \in Consoles, p = Changer, PreflightFails(p)
    PROVE  Safe(p)
<1> TypeOK /\ ConsoleInv
    BY Facts
<1>1. SelfAt(p) /\ CoreAt(p) /\ SpokeAt(p) /\ AgentsAt(p)
    BY Mine
<1>2. /\ con[p].pc \in {"preflight", "outdated", "reconcile"}
    BY <1>1 DEF PreflightFails, NoFault
<1>3. Menu(con[p].tool) \in Console
    BY ConsoleFacts, MenuFacts DEF TypeOK
<1>4. Changed(p) /\ con'[p] = Menu(con[p].tool)
    BY <1>3 DEF TypeOK, Changed, PreflightFails, NoFault, Finish
<1>5. con'[p].pc = "menu" /\ con'[p].tool = con[p].tool /\ con'[p].i = 1
    BY <1>4, ConsoleFacts, MenuFacts DEF TypeOK
<1>6. faults' \in 0..MaxFaults
    BY Failing DEF TypeOK, PreflightFails, NoFault
<1>7. UNCHANGED <<hub, lock, agent, core, job, runs>>
    BY DEF PreflightFails
<1>8. TypeOK'
    BY <1>2, <1>4, <1>5, <1>6, <1>7 DEF TypeOK, Changed
<1>9. Frame(p)
    BY <1>1, StepNames, <1>2, <1>4, <1>5, <1>6, <1>7 DEF Frame, SelfAt
<1>10. Settled' /\ BehindHub' \subseteq BehindHub
    BY <1>7, AgentsKept
<1>11. CoreInv'
    BY <1>7, CoresKept
<1>12. SelfAt(p)'
    BY <1>1, <1>2, <1>4, <1>5, <1>6, <1>7, StepNames, ConsoleFacts, VersionFacts
    DEF SelfAt, TypeOK
<1>13. SpokeAt(p)'
    BY <1>1, <1>2, <1>4, <1>5, <1>6, <1>7, StepNames, ConsoleFacts, Order DEF SpokeAt, AtSpoke
<1>14. CoreAt(p)'
    BY <1>1, <1>2, <1>4, <1>5, <1>6, <1>7, StepNames, ConsoleFacts DEF CoreAt
<1>15. AgentsAt(p)'
    BY <1>5, <1>2, StepNames DEF AgentsAt
<1> QED
    BY <1>8, <1>9, <1>10, <1>11, <1>12, <1>13, <1>14, <1>15 DEF Safe

\* PreflightDone is a safe step of its console.
LEMMA DoesPreflightDone ==
    ASSUME IInv, NEW p \in Consoles, p = Changer, PreflightDone(p)
    PROVE  Safe(p)
<1> TypeOK /\ ConsoleInv
    BY Facts
<1>1. SelfAt(p) /\ CoreAt(p) /\ SpokeAt(p) /\ AgentsAt(p)
    BY Mine
<1>2. /\ con[p].pc = "preflight"
      /\ ~AtSpoke(p)
    BY <1>1 DEF PreflightDone
<1>3. /\ Changed(p)
      /\ con'[p].pc = "stage" /\ con'[p].tool = con[p].tool /\ con'[p].tag = con[p].tag
      /\ con'[p].i = 1 /\ con'[p].old = con[p].old
    <2>1. "stage" \in SelfSteps \cup CoreSteps \cup {"off", "menu"} /\ 1 \in 0..Len(SpokeOrder) + 1
        BY <1>2, ConsoleFacts, StepNames, Order
    <2>2. [con[p] EXCEPT !.pc = "stage", !.i = 1] \in Console
        BY ConsoleFacts, <2>1 DEF Console
    <2>3. con' = [con EXCEPT ![p] = [con[p] EXCEPT !.pc = "stage", !.i = 1]]
        BY <1>2 DEF TypeOK, PreflightDone
    <2>4. Changed(p)
        BY <2>2, <2>3 DEF TypeOK, Changed
    <2>5. con'[p] = [con[p] EXCEPT !.pc = "stage", !.i = 1]
        BY <2>3 DEF TypeOK
    <2>6. /\ con'[p].pc = "stage" /\ con'[p].tool = con[p].tool /\ con'[p].tag = con[p].tag
          /\ con'[p].i = 1 /\ con'[p].old = con[p].old
        BY ConsoleFacts, <2>5 DEF Console
    <2> QED
        BY <2>4, <2>6
<1>4. UNCHANGED <<hub, lock, agent, core, job, faults, runs>>
    BY DEF PreflightDone
<1>5. TypeOK'
    BY <1>2, <1>3, <1>4 DEF TypeOK, Changed
<1>6. Frame(p)
    BY <1>1, StepNames, <1>2, <1>3, <1>4 DEF Frame, SelfAt
<1>7. Settled' /\ BehindHub' \subseteq BehindHub
    BY <1>4, AgentsKept
<1>8. CoreInv'
    BY <1>4, CoresKept
<1>9. SelfAt(p)'
    BY <1>1, <1>2, <1>3, <1>4, StepNames, ConsoleFacts, VersionFacts DEF SelfAt, TypeOK
<1>10. SpokeAt(p)'
    BY <1>1, <1>2, <1>3, <1>4, StepNames, ConsoleFacts, Order DEF SpokeAt, AtSpoke
<1>11. CoreAt(p)'
    <2>1. con[p].i = Len(SpokeOrder) + 1
        BY <1>1, <1>2, ConsoleFacts, StepNames, Order DEF SpokeAt, AtSpoke
    <2>2. \A s \in Spokes : con[p].old[s] \in Cores
        BY <2>1, <1>1, <1>2, Order DEF CoreAt
    <2>3. \A h \in Hosts : con[p].old[h] \in Cores
        BY <2>2, <1>1, <1>2, StepNames DEF CoreAt, Hosts
    <2> QED
        BY <1>1, <1>2, <1>3, <2>3, StepNames DEF CoreAt
<1>12. AgentsAt(p)'
    BY <1>3, <1>2, StepNames DEF AgentsAt
<1> QED
    BY <1>5, <1>6, <1>7, <1>8, <1>9, <1>10, <1>11, <1>12 DEF Safe

\* PassOver is a safe step of its console.
LEMMA DoesPassOver ==
    ASSUME IInv, NEW p \in Consoles, p = Changer, PassOver(p)
    PROVE  Safe(p)
<1> TypeOK /\ ConsoleInv
    BY Facts
<1>1. SelfAt(p) /\ CoreAt(p) /\ SpokeAt(p) /\ AgentsAt(p)
    BY Mine
<1>2. /\ con[p].pc \in {"stage", "undo"}
      /\ AtSpoke(p)
    BY <1>1 DEF PassOver, Passed
<1>3. /\ Changed(p)
      /\ con'[p].pc = con[p].pc /\ con'[p].tool = con[p].tool
      /\ con'[p].tag = con[p].tag /\ con'[p].i \in 0..Len(SpokeOrder) + 1
      /\ con'[p].old = con[p].old
    <2>1. CASE con[p].pc = "stage"
        <3>1. con[p].i + 1 \in 0..Len(SpokeOrder) + 1
            BY <2>1, <1>2, ConsoleFacts, StepNames, Order
        <3>2. [con[p] EXCEPT !.i = @ + 1] \in Console
            BY ConsoleFacts, <3>1 DEF Console
        <3>3. con' = [con EXCEPT ![p] = [con[p] EXCEPT !.i = @ + 1]]
            BY <2>1, <1>2 DEF TypeOK, PassOver, Passed
        <3>4. Changed(p)
            BY <3>2, <3>3 DEF TypeOK, Changed
        <3>5. con'[p] = [con[p] EXCEPT !.i = @ + 1]
            BY <3>3 DEF TypeOK
        <3>6. /\ con'[p].pc = con[p].pc /\ con'[p].tool = con[p].tool
              /\ con'[p].tag = con[p].tag /\ con'[p].i \in 0..Len(SpokeOrder) + 1
              /\ con'[p].old = con[p].old
            BY ConsoleFacts, <3>5, <2>1, <1>2, <3>1 DEF Console
        <3> QED
            BY <3>4, <3>6
    <2>2. CASE con[p].pc # "stage"
        <3>1. con[p].i - 1 \in 0..Len(SpokeOrder) + 1
            BY <2>2, <1>2, ConsoleFacts, StepNames, Order
        <3>2. [con[p] EXCEPT !.i = @ - 1] \in Console
            BY ConsoleFacts, <3>1 DEF Console
        <3>3. con' = [con EXCEPT ![p] = [con[p] EXCEPT !.i = @ - 1]]
            BY <2>2, <1>2 DEF TypeOK, PassOver, Passed
        <3>4. Changed(p)
            BY <3>2, <3>3 DEF TypeOK, Changed
        <3>5. con'[p] = [con[p] EXCEPT !.i = @ - 1]
            BY <3>3 DEF TypeOK
        <3>6. /\ con'[p].pc = con[p].pc /\ con'[p].tool = con[p].tool
              /\ con'[p].tag = con[p].tag /\ con'[p].i \in 0..Len(SpokeOrder) + 1
              /\ con'[p].old = con[p].old
            BY ConsoleFacts, <3>5, <2>2, <1>2, <3>1 DEF Console
        <3> QED
            BY <3>4, <3>6
    <2> QED
        BY <1>2, <2>1, <2>2
<1>4. UNCHANGED <<hub, lock, agent, core, job, faults, runs>>
    BY DEF PassOver
<1>5. TypeOK'
    BY <1>2, <1>3, <1>4 DEF TypeOK, Changed
<1>6. Frame(p)
    BY <1>1, StepNames, <1>2, <1>3, <1>4 DEF Frame, SelfAt
<1>7. Settled' /\ BehindHub' \subseteq BehindHub
    BY <1>4, AgentsKept
<1>8. CoreInv'
    BY <1>4, CoresKept
<1>9. SelfAt(p)'
    BY <1>1, <1>2, <1>3, <1>4, StepNames, ConsoleFacts, VersionFacts DEF SelfAt, TypeOK
<1>10. SpokeAt(p)'
    BY <1>1, <1>2, <1>3, <1>4, StepNames, ConsoleFacts, Order DEF SpokeAt, AtSpoke
<1>11. CoreAt(p)'
    BY <1>1, <1>2, <1>3, <1>4, StepNames, ConsoleFacts DEF CoreAt
<1>12. AgentsAt(p)'
    BY <1>3, <1>2, StepNames DEF AgentsAt
<1> QED
    BY <1>5, <1>6, <1>7, <1>8, <1>9, <1>10, <1>11, <1>12 DEF Safe

\* stageSpokeCore is a safe step of its console.
LEMMA DoesStageSpokeCore ==
    ASSUME IInv, NEW p \in Consoles, p = Changer, stageSpokeCore(p)
    PROVE  Safe(p)
<1> TypeOK /\ ConsoleInv
    BY Facts
<1>1. SelfAt(p) /\ CoreAt(p) /\ SpokeAt(p) /\ AgentsAt(p)
    BY Mine
<1>2. /\ con[p].pc \in {"stage", "undo"}
      /\ AtSpoke(p)
    BY <1>1 DEF stageSpokeCore, Passed, GateOpen
<1>3. /\ Changed(p)
      /\ con'[p].pc = (IF con[p].pc = "stage" THEN "request" ELSE "undorequest")
      /\ con'[p].tool = con[p].tool /\ con'[p].tag = con[p].tag /\ con'[p].i = con[p].i
      /\ con'[p].old = con[p].old
    <2>1. CASE con[p].pc = "stage"
        <3>1. "request" \in SelfSteps \cup CoreSteps \cup {"off", "menu"}
            BY <2>1, <1>2, ConsoleFacts, StepNames, Order
        <3>2. [con[p] EXCEPT !.pc = "request"] \in Console
            BY ConsoleFacts, <3>1 DEF Console
        <3>3. con' = [con EXCEPT ![p] = [con[p] EXCEPT !.pc = "request"]]
            BY <2>1, <1>2 DEF TypeOK, stageSpokeCore, Passed, GateOpen, Go
        <3>4. Changed(p)
            BY <3>2, <3>3 DEF TypeOK, Changed
        <3>5. con'[p] = [con[p] EXCEPT !.pc = "request"]
            BY <3>3 DEF TypeOK
        <3>6. /\ con'[p].pc = (IF con[p].pc = "stage" THEN "request" ELSE "undorequest")
              /\ con'[p].tool = con[p].tool /\ con'[p].tag = con[p].tag /\ con'[p].i = con[p].i
              /\ con'[p].old = con[p].old
            BY ConsoleFacts, <3>5, <2>1, <1>2, <3>1 DEF Console
        <3> QED
            BY <3>4, <3>6
    <2>2. CASE con[p].pc # "stage"
        <3>1. "undorequest" \in SelfSteps \cup CoreSteps \cup {"off", "menu"}
            BY <2>2, <1>2, ConsoleFacts, StepNames, Order
        <3>2. [con[p] EXCEPT !.pc = "undorequest"] \in Console
            BY ConsoleFacts, <3>1 DEF Console
        <3>3. con' = [con EXCEPT ![p] = [con[p] EXCEPT !.pc = "undorequest"]]
            BY <2>2, <1>2 DEF TypeOK, stageSpokeCore, Passed, GateOpen, Go
        <3>4. Changed(p)
            BY <3>2, <3>3 DEF TypeOK, Changed
        <3>5. con'[p] = [con[p] EXCEPT !.pc = "undorequest"]
            BY <3>3 DEF TypeOK
        <3>6. /\ con'[p].pc = (IF con[p].pc = "stage" THEN "request" ELSE "undorequest")
              /\ con'[p].tool = con[p].tool /\ con'[p].tag = con[p].tag /\ con'[p].i = con[p].i
              /\ con'[p].old = con[p].old
            BY ConsoleFacts, <3>5, <2>2, <1>2, <3>1 DEF Console
        <3> QED
            BY <3>4, <3>6
    <2> QED
        BY <1>2, <2>1, <2>2
<1>4. UNCHANGED <<hub, lock, agent, core, job, faults, runs>>
    BY DEF stageSpokeCore
<1>5. TypeOK'
    BY <1>2, <1>3, <1>4 DEF TypeOK, Changed
<1>6. Frame(p)
    BY <1>1, StepNames, <1>2, <1>3, <1>4 DEF Frame, SelfAt
<1>7. Settled' /\ BehindHub' \subseteq BehindHub
    BY <1>4, AgentsKept
<1>8. CoreInv'
    BY <1>4, CoresKept
<1>9. SelfAt(p)'
    BY <1>1, <1>2, <1>3, <1>4, StepNames, ConsoleFacts, VersionFacts DEF SelfAt, TypeOK
<1>10. SpokeAt(p)'
    BY <1>1, <1>2, <1>3, <1>4, StepNames, ConsoleFacts, Order DEF SpokeAt, AtSpoke
<1>11. CoreAt(p)'
    BY <1>1, <1>2, <1>3, <1>4, StepNames, ConsoleFacts DEF CoreAt
<1>12. AgentsAt(p)'
    BY <1>3, <1>2, StepNames DEF AgentsAt
<1> QED
    BY <1>5, <1>6, <1>7, <1>8, <1>9, <1>10, <1>11, <1>12 DEF Safe

\* ChangeCore is a safe step of its console.
LEMMA DoesChangeCore ==
    ASSUME IInv, NEW p \in Consoles, p = Changer, ChangeCore(p)
    PROVE  Safe(p)
<1> TypeOK /\ ConsoleInv
    BY Facts
<1>1. SelfAt(p) /\ CoreAt(p) /\ SpokeAt(p) /\ AgentsAt(p)
    BY Mine
<1>2. /\ con[p].pc \in {"request", "undorequest"}
    BY <1>1 DEF ChangeCore, GateOpen
<1>3. AtSpoke(p)
    BY <1>1, <1>2, StepNames DEF SpokeAt
<1>4. /\ Changed(p)
      /\ con'[p].pc = (IF con[p].pc = "request" THEN "change" ELSE "undochange")
      /\ con'[p].tool = con[p].tool /\ con'[p].tag = con[p].tag /\ con'[p].i = con[p].i
      /\ con'[p].old = con[p].old
    <2>1. CASE con[p].pc = "request"
        <3>1. "change" \in SelfSteps \cup CoreSteps \cup {"off", "menu"} /\ Spoke(p) \in Spokes
            BY <2>1, <1>2, <1>3, ConsoleFacts, StepNames, Order
        <3>2. [con[p] EXCEPT !.pc = "change", !.list = @ \cup {Spoke(p)}] \in Console
            BY ConsoleFacts, <3>1 DEF Console
        <3>3. con' = [con EXCEPT ![p] = [con[p] EXCEPT !.pc = "change", !.list = @ \cup {Spoke(p)}]]
            BY <2>1, <1>2 DEF TypeOK, ChangeCore, GateOpen
        <3>4. Changed(p)
            BY <3>2, <3>3 DEF TypeOK, Changed
        <3>5. con'[p] = [con[p] EXCEPT !.pc = "change", !.list = @ \cup {Spoke(p)}]
            BY <3>3 DEF TypeOK
        <3>6. /\ con'[p].pc = (IF con[p].pc = "request" THEN "change" ELSE "undochange")
              /\ con'[p].tool = con[p].tool /\ con'[p].tag = con[p].tag /\ con'[p].i = con[p].i
              /\ con'[p].old = con[p].old
            BY ConsoleFacts, <3>5, <2>1, <1>2, <3>1 DEF Console
        <3> QED
            BY <3>4, <3>6
    <2>2. CASE con[p].pc # "request"
        <3>1. "undochange" \in SelfSteps \cup CoreSteps \cup {"off", "menu"} /\ Spoke(p) \in Spokes
            BY <2>2, <1>2, <1>3, ConsoleFacts, StepNames, Order
        <3>2. [con[p] EXCEPT !.pc = "undochange", !.list = @ \cup {Spoke(p)}] \in Console
            BY ConsoleFacts, <3>1 DEF Console
        <3>3. con' = [con EXCEPT ![p] = [con[p] EXCEPT !.pc = "undochange", !.list = @ \cup {Spoke(p)}]]
            BY <2>2, <1>2 DEF TypeOK, ChangeCore, GateOpen
        <3>4. Changed(p)
            BY <3>2, <3>3 DEF TypeOK, Changed
        <3>5. con'[p] = [con[p] EXCEPT !.pc = "undochange", !.list = @ \cup {Spoke(p)}]
            BY <3>3 DEF TypeOK
        <3>6. /\ con'[p].pc = (IF con[p].pc = "request" THEN "change" ELSE "undochange")
              /\ con'[p].tool = con[p].tool /\ con'[p].tag = con[p].tag /\ con'[p].i = con[p].i
              /\ con'[p].old = con[p].old
            BY ConsoleFacts, <3>5, <2>2, <1>2, <3>1 DEF Console
        <3> QED
            BY <3>4, <3>6
    <2> QED
        BY <1>2, <2>1, <2>2
<1>5. Wanted(p) \in Cores /\ Spoke(p) \in Hosts
    BY <1>1, <1>2, <1>3, ConsoleFacts, StepNames DEF CoreAt, Wanted
<1>6. [step |-> "check", tag |-> Wanted(p)] \in Job
    BY <1>5, JobTypes
<1>7. JobSet(Spoke(p), [step |-> "check", tag |-> Wanted(p)])
    BY <1>2, <1>5, <1>6, SettingJob DEF ChangeCore, GateOpen
<1>8. UNCHANGED <<hub, lock, agent, core, faults, runs>>
    BY DEF ChangeCore
<1>9. TypeOK'
    BY <1>2, <1>4, <1>7, <1>8 DEF TypeOK, Changed, JobSet
<1>10. Frame(p)
    BY <1>1, StepNames, <1>2, <1>4, <1>7, <1>8 DEF Frame, SelfAt
<1>11. Settled' /\ BehindHub' \subseteq BehindHub
    BY <1>8, AgentsKept
<1>12. CoreInv'
    BY <1>7, <1>5, <1>6, CoresKept, <1>8
<1>13. SelfAt(p)'
    BY <1>1, <1>2, <1>4, <1>7, <1>8, StepNames, ConsoleFacts, VersionFacts DEF SelfAt, TypeOK
<1>14. SpokeAt(p)'
    BY <1>1, <1>2, <1>4, <1>7, <1>8, StepNames, ConsoleFacts, Order DEF SpokeAt, AtSpoke
<1>15. CoreAt(p)'
    BY <1>1, <1>2, <1>4, <1>7, <1>8, StepNames, ConsoleFacts DEF CoreAt
<1>16. AgentsAt(p)'
    BY <1>4, <1>2, StepNames DEF AgentsAt
<1> QED
    BY <1>9, <1>10, <1>11, <1>12, <1>13, <1>14, <1>15, <1>16 DEF Safe

\* SpokeCallFails is a safe step of its console.
LEMMA DoesSpokeCallFails ==
    ASSUME IInv, NEW p \in Consoles, p = Changer, SpokeCallFails(p)
    PROVE  Safe(p)
<1> TypeOK /\ ConsoleInv
    BY Facts
<1>1. SelfAt(p) /\ CoreAt(p) /\ SpokeAt(p) /\ AgentsAt(p)
    BY Mine
<1>2. /\ con[p].pc \in {"stage", "undo", "request", "change", "undorequest", "undochange"}
    BY <1>1 DEF SpokeCallFails, Passed
<1>3. AtSpoke(p)
    BY <1>1, <1>2, StepNames DEF SpokeAt, SpokeCallFails
<1>4. /\ Changed(p)
      /\ con'[p].pc = "undo" /\ con'[p].tool = con[p].tool /\ con'[p].tag = con[p].tag
      /\ con'[p].i \in 0..Len(SpokeOrder) + 1 /\ con'[p].old = con[p].old
    <2>1. CASE con[p].pc = "stage"
        <3>1. "undo" \in SelfSteps \cup CoreSteps \cup {"off", "menu"} /\ Len(SpokeOrder) \in 0..Len(SpokeOrder) + 1
            BY <2>1, <1>2, <1>3, ConsoleFacts, StepNames, Order
        <3>2. [con[p] EXCEPT !.pc = "undo", !.i = Len(SpokeOrder), !.list = @ \cup {}] \in Console
            BY ConsoleFacts, <3>1 DEF Console
        <3>3. con' = [con EXCEPT ![p] = [con[p] EXCEPT !.pc = "undo", !.i = Len(SpokeOrder), !.list = @ \cup {}]]
            BY <2>1, <1>2 DEF TypeOK, SpokeCallFails, Passed
        <3>4. Changed(p)
            BY <3>2, <3>3 DEF TypeOK, Changed
        <3>5. con'[p] = [con[p] EXCEPT !.pc = "undo", !.i = Len(SpokeOrder), !.list = @ \cup {}]
            BY <3>3 DEF TypeOK
        <3>6. /\ con'[p].pc = "undo" /\ con'[p].tool = con[p].tool /\ con'[p].tag = con[p].tag
              /\ con'[p].i \in 0..Len(SpokeOrder) + 1 /\ con'[p].old = con[p].old
            BY ConsoleFacts, <3>5, <2>1, <1>2, <3>1 DEF Console
        <3> QED
            BY <3>4, <3>6
    <2>2. CASE con[p].pc \in {"request", "change"}
        <3>1. "undo" \in SelfSteps \cup CoreSteps \cup {"off", "menu"} /\ Len(SpokeOrder) \in 0..Len(SpokeOrder) + 1 /\ Spoke(p) \in Spokes
            BY <2>2, <1>2, <1>3, ConsoleFacts, StepNames, Order
        <3>2. [con[p] EXCEPT !.pc = "undo", !.i = Len(SpokeOrder), !.list = @ \cup {Spoke(p)}] \in Console
            BY ConsoleFacts, <3>1 DEF Console
        <3>3. con' = [con EXCEPT ![p] = [con[p] EXCEPT !.pc = "undo", !.i = Len(SpokeOrder), !.list = @ \cup {Spoke(p)}]]
            BY <2>2, <1>2 DEF TypeOK, SpokeCallFails, Passed
        <3>4. Changed(p)
            BY <3>2, <3>3 DEF TypeOK, Changed
        <3>5. con'[p] = [con[p] EXCEPT !.pc = "undo", !.i = Len(SpokeOrder), !.list = @ \cup {Spoke(p)}]
            BY <3>3 DEF TypeOK
        <3>6. /\ con'[p].pc = "undo" /\ con'[p].tool = con[p].tool /\ con'[p].tag = con[p].tag
              /\ con'[p].i \in 0..Len(SpokeOrder) + 1 /\ con'[p].old = con[p].old
            BY ConsoleFacts, <3>5, <2>2, <1>2, <3>1 DEF Console
        <3> QED
            BY <3>4, <3>6
    <2>3. CASE con[p].pc \notin {"stage", "request", "change"}
        <3>1. "undo" \in SelfSteps \cup CoreSteps \cup {"off", "menu"} /\ con[p].i - 1 \in 0..Len(SpokeOrder) + 1
            BY <2>3, <1>2, <1>3, ConsoleFacts, StepNames, Order
        <3>2. [con[p] EXCEPT !.pc = "undo", !.i = @ - 1, !.bad = TRUE] \in Console
            BY ConsoleFacts, <3>1 DEF Console
        <3>3. con' = [con EXCEPT ![p] = [con[p] EXCEPT !.pc = "undo", !.i = @ - 1, !.bad = TRUE]]
            BY <2>3, <1>2 DEF TypeOK, SpokeCallFails, Passed
        <3>4. Changed(p)
            BY <3>2, <3>3 DEF TypeOK, Changed
        <3>5. con'[p] = [con[p] EXCEPT !.pc = "undo", !.i = @ - 1, !.bad = TRUE]
            BY <3>3 DEF TypeOK
        <3>6. /\ con'[p].pc = "undo" /\ con'[p].tool = con[p].tool /\ con'[p].tag = con[p].tag
              /\ con'[p].i \in 0..Len(SpokeOrder) + 1 /\ con'[p].old = con[p].old
            BY ConsoleFacts, <3>5, <2>3, <1>2, <3>1 DEF Console
        <3> QED
            BY <3>4, <3>6
    <2> QED
        BY <1>2, <2>1, <2>2, <2>3
<1>5. faults' \in 0..MaxFaults
    BY Failing DEF TypeOK, SpokeCallFails
<1>6. UNCHANGED <<hub, lock, agent, core, job, runs>>
    BY DEF SpokeCallFails
<1>7. TypeOK'
    BY <1>2, <1>4, <1>5, <1>6 DEF TypeOK, Changed
<1>8. Frame(p)
    BY <1>1, StepNames, <1>2, <1>4, <1>5, <1>6 DEF Frame, SelfAt
<1>9. Settled' /\ BehindHub' \subseteq BehindHub
    BY <1>6, AgentsKept
<1>10. CoreInv'
    BY <1>6, CoresKept
<1>11. SelfAt(p)'
    BY <1>1, <1>2, <1>4, <1>5, <1>6, StepNames, ConsoleFacts, VersionFacts DEF SelfAt, TypeOK
<1>12. SpokeAt(p)'
    BY <1>1, <1>2, <1>4, <1>5, <1>6, StepNames, ConsoleFacts, Order DEF SpokeAt, AtSpoke
<1>13. CoreAt(p)'
    BY <1>1, <1>2, <1>4, <1>5, <1>6, StepNames, ConsoleFacts DEF CoreAt
<1>14. AgentsAt(p)'
    BY <1>4, <1>2, StepNames DEF AgentsAt
<1> QED
    BY <1>7, <1>8, <1>9, <1>10, <1>11, <1>12, <1>13, <1>14 DEF Safe

\* SpokeAnswers is a safe step of its console.
LEMMA DoesSpokeAnswers ==
    ASSUME IInv, NEW p \in Consoles, p = Changer, SpokeAnswers(p)
    PROVE  Safe(p)
<1> TypeOK /\ ConsoleInv
    BY Facts
<1>1. SelfAt(p) /\ CoreAt(p) /\ SpokeAt(p) /\ AgentsAt(p)
    BY Mine
<1>2. /\ con[p].pc \in {"change", "undochange"}
    BY <1>1 DEF SpokeAnswers, Advance, Undoing
<1>3. AtSpoke(p)
    BY <1>1, <1>2, StepNames DEF SpokeAt
<1>4. /\ Changed(p)
      /\ con'[p].pc \in {"stage", "undo"} /\ con'[p].tool = con[p].tool
      /\ con'[p].tag = con[p].tag /\ con'[p].i \in 0..Len(SpokeOrder) + 1
      /\ con'[p].old = con[p].old
    <2>1. CASE con[p].pc = "change" /\ job[Spoke(p)].step = "ok" /\ Verified(Spoke(p), Wanted(p))
        <3>1. "stage" \in SelfSteps \cup CoreSteps \cup {"off", "menu"} /\ con[p].i + 1 \in 0..Len(SpokeOrder) + 1
            BY <2>1, <1>2, <1>3, ConsoleFacts, StepNames, Order
        <3>2. [con[p] EXCEPT !.pc = "stage", !.i = @ + 1] \in Console
            BY ConsoleFacts, <3>1 DEF Console
        <3>3. con' = [con EXCEPT ![p] = [con[p] EXCEPT !.pc = "stage", !.i = @ + 1]]
            BY <2>1, <1>2 DEF TypeOK, SpokeAnswers, Advance, Undoing
        <3>4. Changed(p)
            BY <3>2, <3>3 DEF TypeOK, Changed
        <3>5. con'[p] = [con[p] EXCEPT !.pc = "stage", !.i = @ + 1]
            BY <3>3 DEF TypeOK
        <3>6. /\ con'[p].pc \in {"stage", "undo"} /\ con'[p].tool = con[p].tool
              /\ con'[p].tag = con[p].tag /\ con'[p].i \in 0..Len(SpokeOrder) + 1
              /\ con'[p].old = con[p].old
            BY ConsoleFacts, <3>5, <2>1, <1>2, <3>1 DEF Console
        <3> QED
            BY <3>4, <3>6
    <2>2. CASE con[p].pc = "change" /\ ~(job[Spoke(p)].step = "ok" /\ Verified(Spoke(p), Wanted(p)))
        <3>1. "undo" \in SelfSteps \cup CoreSteps \cup {"off", "menu"} /\ Len(SpokeOrder) \in 0..Len(SpokeOrder) + 1
            BY <2>2, <1>2, <1>3, ConsoleFacts, StepNames, Order
        <3>2. [con[p] EXCEPT !.pc = "undo", !.i = Len(SpokeOrder), !.bad = @ \/ FALSE] \in Console
            BY ConsoleFacts, <3>1 DEF Console
        <3>3. con' = [con EXCEPT ![p] = [con[p] EXCEPT !.pc = "undo", !.i = Len(SpokeOrder), !.bad = @ \/ FALSE]]
            BY <2>2, <1>2 DEF TypeOK, SpokeAnswers, Advance, Undoing
        <3>4. Changed(p)
            BY <3>2, <3>3 DEF TypeOK, Changed
        <3>5. con'[p] = [con[p] EXCEPT !.pc = "undo", !.i = Len(SpokeOrder), !.bad = @ \/ FALSE]
            BY <3>3 DEF TypeOK
        <3>6. /\ con'[p].pc \in {"stage", "undo"} /\ con'[p].tool = con[p].tool
              /\ con'[p].tag = con[p].tag /\ con'[p].i \in 0..Len(SpokeOrder) + 1
              /\ con'[p].old = con[p].old
            BY ConsoleFacts, <3>5, <2>2, <1>2, <3>1 DEF Console
        <3> QED
            BY <3>4, <3>6
    <2>3. CASE con[p].pc # "change"
        <3>1. "undo" \in SelfSteps \cup CoreSteps \cup {"off", "menu"} /\ con[p].i - 1 \in 0..Len(SpokeOrder) + 1
            BY <2>3, <1>2, <1>3, ConsoleFacts, StepNames, Order
        <3>2. [con[p] EXCEPT !.pc = "undo", !.i = @ - 1,
                 !.bad = @ \/ ~(job[Spoke(p)].step = "ok" /\ Verified(Spoke(p), Wanted(p)))] \in Console
            BY ConsoleFacts, <3>1 DEF Console
        <3>3. con' = [con EXCEPT ![p] = [con[p] EXCEPT !.pc = "undo", !.i = @ - 1,
                 !.bad = @ \/ ~(job[Spoke(p)].step = "ok" /\ Verified(Spoke(p), Wanted(p)))]]
            BY <2>3, <1>2 DEF TypeOK, SpokeAnswers, Advance, Undoing
        <3>4. Changed(p)
            BY <3>2, <3>3 DEF TypeOK, Changed
        <3>5. con'[p] = [con[p] EXCEPT !.pc = "undo", !.i = @ - 1,
                 !.bad = @ \/ ~(job[Spoke(p)].step = "ok" /\ Verified(Spoke(p), Wanted(p)))]
            BY <3>3 DEF TypeOK
        <3>6. /\ con'[p].pc \in {"stage", "undo"} /\ con'[p].tool = con[p].tool
              /\ con'[p].tag = con[p].tag /\ con'[p].i \in 0..Len(SpokeOrder) + 1
              /\ con'[p].old = con[p].old
            BY ConsoleFacts, <3>5, <2>3, <1>2, <3>1 DEF Console
        <3> QED
            BY <3>4, <3>6
    <2> QED
        BY <1>2, <2>1, <2>2, <2>3
<1>5. Spoke(p) \in Hosts
    BY <1>2, <1>3, ConsoleFacts, Order
<1>6. NoJob \in Job
    BY <1>5, JobTypes
<1>7. JobSet(Spoke(p), NoJob)
    BY <1>2, <1>5, <1>6, SettingJob DEF SpokeAnswers
<1>8. UNCHANGED <<hub, lock, agent, core, faults, runs>>
    BY DEF SpokeAnswers
<1>9. TypeOK'
    BY <1>2, <1>4, <1>7, <1>8 DEF TypeOK, Changed, JobSet
<1>10. Frame(p)
    BY <1>1, StepNames, <1>2, <1>4, <1>7, <1>8 DEF Frame, SelfAt
<1>11. Settled' /\ BehindHub' \subseteq BehindHub
    BY <1>8, AgentsKept
<1>12. CoreInv'
    BY <1>7, <1>5, <1>6, CoresKept, <1>8 DEF NoJob
<1>13. SelfAt(p)'
    BY <1>1, <1>2, <1>4, <1>7, <1>8, StepNames, ConsoleFacts, VersionFacts DEF SelfAt, TypeOK
<1>14. SpokeAt(p)'
    BY <1>1, <1>2, <1>4, <1>7, <1>8, StepNames, ConsoleFacts, Order DEF SpokeAt, AtSpoke
<1>15. CoreAt(p)'
    BY <1>1, <1>2, <1>4, <1>7, <1>8, StepNames, ConsoleFacts DEF CoreAt
<1>16. AgentsAt(p)'
    BY <1>4, <1>2, StepNames DEF AgentsAt
<1> QED
    BY <1>9, <1>10, <1>11, <1>12, <1>13, <1>14, <1>15, <1>16 DEF Safe

\* ChangeLocalCore is a safe step of its console.
LEMMA DoesChangeLocalCore ==
    ASSUME IInv, NEW p \in Consoles, p = Changer, ChangeLocalCore(p)
    PROVE  Safe(p)
<1> TypeOK /\ ConsoleInv
    BY Facts
<1>1. SelfAt(p) /\ CoreAt(p) /\ SpokeAt(p) /\ AgentsAt(p)
    BY Mine
<1>2. /\ con[p].pc = "stage"
    BY <1>1 DEF ChangeLocalCore, Undoing
<1>3. /\ Changed(p)
      /\ con'[p].pc \in {"hub", "undohub", "hubchange"} /\ con'[p].tool = con[p].tool
      /\ con'[p].tag = con[p].tag /\ con'[p].i \in 0..Len(SpokeOrder) + 1
      /\ con'[p].old = con[p].old
    <2>1. CASE con[p].old[Hub] = con[p].tag /\ Verified(Hub, con[p].tag)
        <3>1. "hub" \in SelfSteps \cup CoreSteps \cup {"off", "menu"}
            BY <2>1, <1>2, ConsoleFacts, StepNames, Order
        <3>2. [con[p] EXCEPT !.pc = "hub"] \in Console
            BY ConsoleFacts, <3>1 DEF Console
        <3>3. con' = [con EXCEPT ![p] = [con[p] EXCEPT !.pc = "hub"]]
            BY <2>1, <1>2 DEF TypeOK, ChangeLocalCore, Undoing, Go
        <3>4. Changed(p)
            BY <3>2, <3>3 DEF TypeOK, Changed
        <3>5. con'[p] = [con[p] EXCEPT !.pc = "hub"]
            BY <3>3 DEF TypeOK
        <3>6. /\ con'[p].pc \in {"hub", "undohub", "hubchange"} /\ con'[p].tool = con[p].tool
              /\ con'[p].tag = con[p].tag /\ con'[p].i \in 0..Len(SpokeOrder) + 1
              /\ con'[p].old = con[p].old
            BY ConsoleFacts, <3>5, <2>1, <1>2, <3>1 DEF Console
        <3> QED
            BY <3>4, <3>6
    <2>2. CASE con[p].old[Hub] = con[p].tag /\ ~Verified(Hub, con[p].tag)
        <3>1. "undohub" \in SelfSteps \cup CoreSteps \cup {"off", "menu"} /\ Len(SpokeOrder) \in 0..Len(SpokeOrder) + 1
            BY <2>2, <1>2, ConsoleFacts, StepNames, Order
        <3>2. [con[p] EXCEPT !.pc = "undohub", !.i = Len(SpokeOrder), !.bad = @ \/ FALSE] \in Console
            BY ConsoleFacts, <3>1 DEF Console
        <3>3. con' = [con EXCEPT ![p] = [con[p] EXCEPT !.pc = "undohub", !.i = Len(SpokeOrder), !.bad = @ \/ FALSE]]
            BY <2>2, <1>2 DEF TypeOK, ChangeLocalCore, Undoing, Go
        <3>4. Changed(p)
            BY <3>2, <3>3 DEF TypeOK, Changed
        <3>5. con'[p] = [con[p] EXCEPT !.pc = "undohub", !.i = Len(SpokeOrder), !.bad = @ \/ FALSE]
            BY <3>3 DEF TypeOK
        <3>6. /\ con'[p].pc \in {"hub", "undohub", "hubchange"} /\ con'[p].tool = con[p].tool
              /\ con'[p].tag = con[p].tag /\ con'[p].i \in 0..Len(SpokeOrder) + 1
              /\ con'[p].old = con[p].old
            BY ConsoleFacts, <3>5, <2>2, <1>2, <3>1 DEF Console
        <3> QED
            BY <3>4, <3>6
    <2>3. CASE con[p].old[Hub] # con[p].tag
        <3>1. "hubchange" \in SelfSteps \cup CoreSteps \cup {"off", "menu"}
            BY <2>3, <1>2, ConsoleFacts, StepNames, Order
        <3>2. [con[p] EXCEPT !.pc = "hubchange"] \in Console
            BY ConsoleFacts, <3>1 DEF Console
        <3>3. con' = [con EXCEPT ![p] = [con[p] EXCEPT !.pc = "hubchange"]]
            BY <2>3, <1>2 DEF TypeOK, ChangeLocalCore, Undoing, Go
        <3>4. Changed(p)
            BY <3>2, <3>3 DEF TypeOK, Changed
        <3>5. con'[p] = [con[p] EXCEPT !.pc = "hubchange"]
            BY <3>3 DEF TypeOK
        <3>6. /\ con'[p].pc \in {"hub", "undohub", "hubchange"} /\ con'[p].tool = con[p].tool
              /\ con'[p].tag = con[p].tag /\ con'[p].i \in 0..Len(SpokeOrder) + 1
              /\ con'[p].old = con[p].old
            BY ConsoleFacts, <3>5, <2>3, <1>2, <3>1 DEF Console
        <3> QED
            BY <3>4, <3>6
    <2> QED
        BY <1>2, <2>1, <2>2, <2>3
<1>4. con[p].tag \in Cores /\ con[p].old[Hub] \in Cores /\ Hub \in Hosts
    BY <1>1, <1>2, Order, StepNames DEF CoreAt
<1>5. [step |-> "check", tag |-> con[p].tag] \in Job
    BY <1>4, JobTypes
<1>6. \/ job' = job
              \/ JobSet(Hub, [step |-> "check", tag |-> con[p].tag])
    BY <1>2, <1>4, <1>5, SettingJob DEF ChangeLocalCore
<1>7. UNCHANGED <<hub, lock, agent, core, faults, runs>>
    BY DEF ChangeLocalCore
<1>8. TypeOK'
    BY <1>2, <1>3, <1>6, <1>7 DEF TypeOK, Changed, JobSet
<1>9. Frame(p)
    BY <1>1, StepNames, <1>2, <1>3, <1>6, <1>7 DEF Frame, SelfAt
<1>10. Settled' /\ BehindHub' \subseteq BehindHub
    BY <1>7, AgentsKept
<1>11. CoreInv'
    BY <1>6, <1>4, <1>5, CoresKept, <1>7
<1>12. SelfAt(p)'
    BY <1>1, <1>2, <1>3, <1>6, <1>7, StepNames, ConsoleFacts, VersionFacts DEF SelfAt, TypeOK
<1>13. SpokeAt(p)'
    BY <1>1, <1>2, <1>3, <1>6, <1>7, StepNames, ConsoleFacts, Order DEF SpokeAt, AtSpoke
<1>14. CoreAt(p)'
    BY <1>1, <1>2, <1>3, <1>6, <1>7, StepNames, ConsoleFacts DEF CoreAt
<1>15. AgentsAt(p)'
    BY <1>3, <1>2, StepNames DEF AgentsAt
<1> QED
    BY <1>8, <1>9, <1>10, <1>11, <1>12, <1>13, <1>14, <1>15 DEF Safe

\* HubChanged is a safe step of its console.
LEMMA DoesHubChanged ==
    ASSUME IInv, NEW p \in Consoles, p = Changer, HubChanged(p)
    PROVE  Safe(p)
<1> TypeOK /\ ConsoleInv
    BY Facts
<1>1. SelfAt(p) /\ CoreAt(p) /\ SpokeAt(p) /\ AgentsAt(p)
    BY Mine
<1>2. /\ con[p].pc \in {"hubchange", "undohubwait"}
    BY <1>1 DEF HubChanged, Undoing
<1>3. /\ Changed(p)
      /\ con'[p].pc \in {"hub", "undohub", "undo"} /\ con'[p].tool = con[p].tool
      /\ con'[p].tag = con[p].tag /\ con'[p].i \in 0..Len(SpokeOrder) + 1
      /\ con'[p].old = con[p].old
    <2>1. CASE con[p].pc = "hubchange" /\ job[Hub].step = "ok" /\ Verified(Hub, job[Hub].tag)
        <3>1. "hub" \in SelfSteps \cup CoreSteps \cup {"off", "menu"}
            BY <2>1, <1>2, ConsoleFacts, StepNames, Order
        <3>2. [con[p] EXCEPT !.pc = "hub"] \in Console
            BY ConsoleFacts, <3>1 DEF Console
        <3>3. con' = [con EXCEPT ![p] = [con[p] EXCEPT !.pc = "hub"]]
            BY <2>1, <1>2 DEF TypeOK, HubChanged, Undoing, Go
        <3>4. Changed(p)
            BY <3>2, <3>3 DEF TypeOK, Changed
        <3>5. con'[p] = [con[p] EXCEPT !.pc = "hub"]
            BY <3>3 DEF TypeOK
        <3>6. /\ con'[p].pc \in {"hub", "undohub", "undo"} /\ con'[p].tool = con[p].tool
              /\ con'[p].tag = con[p].tag /\ con'[p].i \in 0..Len(SpokeOrder) + 1
              /\ con'[p].old = con[p].old
            BY ConsoleFacts, <3>5, <2>1, <1>2, <3>1 DEF Console
        <3> QED
            BY <3>4, <3>6
    <2>2. CASE con[p].pc = "hubchange" /\ ~(job[Hub].step = "ok" /\ Verified(Hub, job[Hub].tag))
        <3>1. "undohub" \in SelfSteps \cup CoreSteps \cup {"off", "menu"} /\ Len(SpokeOrder) \in 0..Len(SpokeOrder) + 1
            BY <2>2, <1>2, ConsoleFacts, StepNames, Order
        <3>2. [con[p] EXCEPT !.pc = "undohub", !.i = Len(SpokeOrder),
                 !.bad = @ \/ job[Hub].step = "dirty"] \in Console
            BY ConsoleFacts, <3>1 DEF Console
        <3>3. con' = [con EXCEPT ![p] = [con[p] EXCEPT !.pc = "undohub", !.i = Len(SpokeOrder),
                 !.bad = @ \/ job[Hub].step = "dirty"]]
            BY <2>2, <1>2 DEF TypeOK, HubChanged, Undoing, Go
        <3>4. Changed(p)
            BY <3>2, <3>3 DEF TypeOK, Changed
        <3>5. con'[p] = [con[p] EXCEPT !.pc = "undohub", !.i = Len(SpokeOrder),
                 !.bad = @ \/ job[Hub].step = "dirty"]
            BY <3>3 DEF TypeOK
        <3>6. /\ con'[p].pc \in {"hub", "undohub", "undo"} /\ con'[p].tool = con[p].tool
              /\ con'[p].tag = con[p].tag /\ con'[p].i \in 0..Len(SpokeOrder) + 1
              /\ con'[p].old = con[p].old
            BY ConsoleFacts, <3>5, <2>2, <1>2, <3>1 DEF Console
        <3> QED
            BY <3>4, <3>6
    <2>3. CASE con[p].pc # "hubchange"
        <3>1. "undo" \in SelfSteps \cup CoreSteps \cup {"off", "menu"} /\ Len(SpokeOrder) \in 0..Len(SpokeOrder) + 1
            BY <2>3, <1>2, ConsoleFacts, StepNames, Order
        <3>2. [con[p] EXCEPT !.pc = "undo", !.i = Len(SpokeOrder),
                 !.bad = @ \/ ~(job[Hub].step = "ok" /\ Verified(Hub, job[Hub].tag))] \in Console
            BY ConsoleFacts, <3>1 DEF Console
        <3>3. con' = [con EXCEPT ![p] = [con[p] EXCEPT !.pc = "undo", !.i = Len(SpokeOrder),
                 !.bad = @ \/ ~(job[Hub].step = "ok" /\ Verified(Hub, job[Hub].tag))]]
            BY <2>3, <1>2 DEF TypeOK, HubChanged, Undoing, Go
        <3>4. Changed(p)
            BY <3>2, <3>3 DEF TypeOK, Changed
        <3>5. con'[p] = [con[p] EXCEPT !.pc = "undo", !.i = Len(SpokeOrder),
                 !.bad = @ \/ ~(job[Hub].step = "ok" /\ Verified(Hub, job[Hub].tag))]
            BY <3>3 DEF TypeOK
        <3>6. /\ con'[p].pc \in {"hub", "undohub", "undo"} /\ con'[p].tool = con[p].tool
              /\ con'[p].tag = con[p].tag /\ con'[p].i \in 0..Len(SpokeOrder) + 1
              /\ con'[p].old = con[p].old
            BY ConsoleFacts, <3>5, <2>3, <1>2, <3>1 DEF Console
        <3> QED
            BY <3>4, <3>6
    <2> QED
        BY <1>2, <2>1, <2>2, <2>3
<1>4. Hub \in Hosts
    BY <1>2, ConsoleFacts, Order
<1>5. NoJob \in Job
    BY <1>4, JobTypes
<1>6. JobSet(Hub, NoJob)
    BY <1>2, <1>4, <1>5, SettingJob DEF HubChanged
<1>7. UNCHANGED <<hub, lock, agent, core, faults, runs>>
    BY DEF HubChanged
<1>8. TypeOK'
    BY <1>2, <1>3, <1>6, <1>7 DEF TypeOK, Changed, JobSet
<1>9. Frame(p)
    BY <1>1, StepNames, <1>2, <1>3, <1>6, <1>7 DEF Frame, SelfAt
<1>10. Settled' /\ BehindHub' \subseteq BehindHub
    BY <1>7, AgentsKept
<1>11. CoreInv'
    BY <1>6, <1>4, <1>5, CoresKept, <1>7 DEF NoJob
<1>12. SelfAt(p)'
    BY <1>1, <1>2, <1>3, <1>6, <1>7, StepNames, ConsoleFacts, VersionFacts DEF SelfAt, TypeOK
<1>13. SpokeAt(p)'
    BY <1>1, <1>2, <1>3, <1>6, <1>7, StepNames, ConsoleFacts, Order DEF SpokeAt, AtSpoke
<1>14. CoreAt(p)'
    BY <1>1, <1>2, <1>3, <1>6, <1>7, StepNames, ConsoleFacts DEF CoreAt
<1>15. AgentsAt(p)'
    BY <1>3, <1>2, StepNames DEF AgentsAt
<1> QED
    BY <1>8, <1>9, <1>10, <1>11, <1>12, <1>13, <1>14, <1>15 DEF Safe

\* UndoHub is a safe step of its console.
LEMMA DoesUndoHub ==
    ASSUME IInv, NEW p \in Consoles, p = Changer, UndoHub(p)
    PROVE  Safe(p)
<1> TypeOK /\ ConsoleInv
    BY Facts
<1>1. SelfAt(p) /\ CoreAt(p) /\ SpokeAt(p) /\ AgentsAt(p)
    BY Mine
<1>2. /\ con[p].pc = "undohub"
    BY <1>1 DEF UndoHub
<1>3. /\ Changed(p)
      /\ con'[p].pc \in {"undo", "undohubwait"} /\ con'[p].tool = con[p].tool
      /\ con'[p].tag = con[p].tag /\ con'[p].i = con[p].i /\ con'[p].old = con[p].old
    <2>1. CASE core[Hub].bin = con[p].old[Hub]
        <3>1. "undo" \in SelfSteps \cup CoreSteps \cup {"off", "menu"}
            BY <2>1, <1>2, ConsoleFacts, StepNames, Order
        <3>2. [con[p] EXCEPT !.pc = "undo"] \in Console
            BY ConsoleFacts, <3>1 DEF Console
        <3>3. con' = [con EXCEPT ![p] = [con[p] EXCEPT !.pc = "undo"]]
            BY <2>1, <1>2 DEF TypeOK, UndoHub, Go
        <3>4. Changed(p)
            BY <3>2, <3>3 DEF TypeOK, Changed
        <3>5. con'[p] = [con[p] EXCEPT !.pc = "undo"]
            BY <3>3 DEF TypeOK
        <3>6. /\ con'[p].pc \in {"undo", "undohubwait"} /\ con'[p].tool = con[p].tool
              /\ con'[p].tag = con[p].tag /\ con'[p].i = con[p].i /\ con'[p].old = con[p].old
            BY ConsoleFacts, <3>5, <2>1, <1>2, <3>1 DEF Console
        <3> QED
            BY <3>4, <3>6
    <2>2. CASE core[Hub].bin # con[p].old[Hub]
        <3>1. "undohubwait" \in SelfSteps \cup CoreSteps \cup {"off", "menu"}
            BY <2>2, <1>2, ConsoleFacts, StepNames, Order
        <3>2. [con[p] EXCEPT !.pc = "undohubwait"] \in Console
            BY ConsoleFacts, <3>1 DEF Console
        <3>3. con' = [con EXCEPT ![p] = [con[p] EXCEPT !.pc = "undohubwait"]]
            BY <2>2, <1>2 DEF TypeOK, UndoHub, Go
        <3>4. Changed(p)
            BY <3>2, <3>3 DEF TypeOK, Changed
        <3>5. con'[p] = [con[p] EXCEPT !.pc = "undohubwait"]
            BY <3>3 DEF TypeOK
        <3>6. /\ con'[p].pc \in {"undo", "undohubwait"} /\ con'[p].tool = con[p].tool
              /\ con'[p].tag = con[p].tag /\ con'[p].i = con[p].i /\ con'[p].old = con[p].old
            BY ConsoleFacts, <3>5, <2>2, <1>2, <3>1 DEF Console
        <3> QED
            BY <3>4, <3>6
    <2> QED
        BY <1>2, <2>1, <2>2
<1>4. con[p].tag \in Cores /\ con[p].old[Hub] \in Cores /\ Hub \in Hosts
    BY <1>1, <1>2, Order, StepNames DEF CoreAt
<1>5. [step |-> "check", tag |-> con[p].old[Hub]] \in Job
    BY <1>4, JobTypes
<1>6. \/ job' = job
              \/ JobSet(Hub, [step |-> "check", tag |-> con[p].old[Hub]])
    BY <1>2, <1>4, <1>5, SettingJob DEF UndoHub
<1>7. UNCHANGED <<hub, lock, agent, core, faults, runs>>
    BY DEF UndoHub
<1>8. TypeOK'
    BY <1>2, <1>3, <1>6, <1>7 DEF TypeOK, Changed, JobSet
<1>9. Frame(p)
    BY <1>1, StepNames, <1>2, <1>3, <1>6, <1>7 DEF Frame, SelfAt
<1>10. Settled' /\ BehindHub' \subseteq BehindHub
    BY <1>7, AgentsKept
<1>11. CoreInv'
    BY <1>6, <1>4, <1>5, CoresKept, <1>7
<1>12. SelfAt(p)'
    BY <1>1, <1>2, <1>3, <1>6, <1>7, StepNames, ConsoleFacts, VersionFacts DEF SelfAt, TypeOK
<1>13. SpokeAt(p)'
    BY <1>1, <1>2, <1>3, <1>6, <1>7, StepNames, ConsoleFacts, Order DEF SpokeAt, AtSpoke
<1>14. CoreAt(p)'
    BY <1>1, <1>2, <1>3, <1>6, <1>7, StepNames, ConsoleFacts DEF CoreAt
<1>15. AgentsAt(p)'
    BY <1>3, <1>2, StepNames DEF AgentsAt
<1> QED
    BY <1>8, <1>9, <1>10, <1>11, <1>12, <1>13, <1>14, <1>15 DEF Safe

\* CoreFinished is a safe step of its console.
LEMMA DoesCoreFinished ==
    ASSUME IInv, NEW p \in Consoles, p = Changer, CoreFinished(p)
    PROVE  Safe(p)
<1> TypeOK /\ ConsoleInv
    BY Facts
<1>1. SelfAt(p) /\ CoreAt(p) /\ SpokeAt(p) /\ AgentsAt(p)
    BY Mine
<1>2. /\ con[p].pc \in {"hub", "undo"}
    BY <1>1 DEF CoreFinished
<1>3. Menu(con[p].tool) \in Console
    BY ConsoleFacts, MenuFacts DEF TypeOK
<1>4. Changed(p) /\ con'[p] = Menu(con[p].tool)
    BY <1>3 DEF TypeOK, Changed, CoreFinished, Finish
<1>5. con'[p].pc = "menu" /\ con'[p].tool = con[p].tool /\ con'[p].i = 1
    BY <1>4, ConsoleFacts, MenuFacts DEF TypeOK
<1>6. UNCHANGED <<hub, lock, agent, core, job, faults, runs>>
    BY DEF CoreFinished
<1>7. TypeOK'
    BY <1>2, <1>4, <1>5, <1>6 DEF TypeOK, Changed
<1>8. Frame(p)
    BY <1>1, StepNames, <1>2, <1>4, <1>5, <1>6 DEF Frame, SelfAt
<1>9. Settled' /\ BehindHub' \subseteq BehindHub
    BY <1>6, AgentsKept
<1>10. CoreInv'
    BY <1>6, CoresKept
<1>11. SelfAt(p)'
    BY <1>1, <1>2, <1>4, <1>5, <1>6, StepNames, ConsoleFacts, VersionFacts DEF SelfAt, TypeOK
<1>12. SpokeAt(p)'
    BY <1>1, <1>2, <1>4, <1>5, <1>6, StepNames, ConsoleFacts, Order DEF SpokeAt, AtSpoke
<1>13. CoreAt(p)'
    BY <1>1, <1>2, <1>4, <1>5, <1>6, StepNames, ConsoleFacts DEF CoreAt
<1>14. AgentsAt(p)'
    BY <1>5, <1>2, StepNames DEF AgentsAt
<1> QED
    BY <1>7, <1>8, <1>9, <1>10, <1>11, <1>12, <1>13, <1>14 DEF Safe

-----------------------------------------------------------------------------
(* A console's step leaves the other consoles what they rely on.           *)
LEMMA OthersKeep ==
    ASSUME IInv, TypeOK', NEW p \in Consoles, Frame(p), NEW q \in Consoles \ {p}
    PROVE  SelfAt(q)' /\ CoreAt(q)' /\ SpokeAt(q)' /\ AgentsAt(q)'
<1> TypeOK /\ ConsoleInv /\ Settled
    BY Facts
<1>1. SelfAt(q) /\ CoreAt(q) /\ SpokeAt(q) /\ AgentsAt(q)
    BY Mine
<1>2. con'[q] = con[q]
    BY DEF Frame, Changed
<1>3. con[q].pc \in SelfSteps => lock = q /\ lock' = lock /\ hub' = hub /\ lock # p
    BY <1>1, ConsolesAssumption DEF Frame, SelfAt
<1>4. SelfAt(q)'
    <2>1. hub' >= hub \/ hub' = hub
        BY DEF Frame
    <2>2. hub \in Int /\ con[q].tool \in Int
        BY ConsoleFacts, VersionFacts DEF TypeOK
    <2>3. hub' \in Int
        BY VersionFacts DEF TypeOK
    <2>4. con[q].tool <= hub'
        BY <1>1, <2>1, <2>2, <2>3 DEF SelfAt
    <2> QED
        BY <1>1, <1>2, <1>3, <2>4 DEF SelfAt
<1>5. CoreAt(q)' /\ SpokeAt(q)'
    BY <1>1, <1>2 DEF CoreAt, SpokeAt, AtSpoke
<1>6. ASSUME con[q].pc \in {"agents", "upgrade", "await"} PROVE AgentsAt(q)'
    <2>1. lock # p /\ hub' = hub /\ con[q].tag \in Int /\ con[q].tag > hub /\ hub \in Int
        BY <1>1, <1>3, <1>6, StepNames, VersionFacts DEF SelfAt, TypeOK
    <2>2. \A s \in Spokes :
             \/ agent'[s] = agent[s]
             \/ agent'[s].late
             \/ /\ ~agent[s].late /\ agent'[s].run = agent[s].run
                /\ agent'[s].disk >= agent[s].disk /\ agent'[s].disk >= agent[s].run
        BY <2>1 DEF Frame
    <2>3. \A j \in 1..con[q].i - 1 : SpokeOrder[j] \in Spokes
        BY ConsoleFacts, Order
    <2>4. \A s \in Spokes : agent[s].run \in Int /\ agent[s].disk \in Int /\ agent'[s].disk \in Int
        <3>1. agent' \in [Spokes -> Agent]
            BY DEF TypeOK
        <3> QED
            BY <3>1, AgentFacts, VersionFacts DEF Agent
    <2>5. \A s \in Spokes : Reached(s, con[q].tag) => Reached(s, con[q].tag)'
        BY <1>2, <2>1, <2>2, <2>4 DEF Reached
    <2>6. \A s \in Spokes : Written(s, con[q].tag) => Written(s, con[q].tag)'
        BY <1>2, <2>1, <2>2, <2>4 DEF Written
    <2>7. \A s \in Spokes : agent'[s].due => Written(s, agent[s].run)'
        BY <1>1, <1>6, <2>2, <2>4 DEF AgentsAt, Written
    <2>8. Spoke(q)' = Spoke(q) /\ (con[q].pc = "await" => Spoke(q) \in Spokes)
        BY <1>1, <1>2, StepNames, ConsoleFacts DEF SpokeAt, Spoke
    <2>9. \A j \in 1..con[q].i - 1 : Reached(SpokeOrder[j], con[q].tag)'
        BY <1>1, <1>6, <2>3, <2>5 DEF AgentsAt
    <2>10. con[q].pc = "await" => Written(Spoke(q), con[q].tag)'
        BY <1>1, <1>6, <2>6, <2>8 DEF AgentsAt, Written
    <2> QED
        BY <1>2, <2>7, <2>9, <2>10 DEF AgentsAt
<1>7. ASSUME con[q].pc \notin {"agents", "upgrade", "await"} PROVE AgentsAt(q)'
    BY <1>2, <1>7 DEF AgentsAt
<1> QED
    BY <1>4, <1>5, <1>6, <1>7

\* A safe step of a console keeps the invariant and lets no agent fall behind.
LEMMA SafeStep ==
    ASSUME IInv, NEW p \in Consoles, Safe(p)
    PROVE  IInv' /\ BehindHub' \subseteq BehindHub
<1>1. ASSUME NEW q \in Consoles PROVE SelfAt(q)' /\ CoreAt(q)' /\ SpokeAt(q)' /\ AgentsAt(q)'
    <2>1. CASE q = p
        BY <2>1 DEF Safe
    <2>2. CASE q # p
        BY <2>2, OthersKeep DEF Safe
    <2> QED
        BY <2>1, <2>2
<1>2. ConsoleInv'
    BY <1>1 DEF ConsoleInv
<1> QED
    BY <1>2 DEF Safe, IInv

-----------------------------------------------------------------------------
(* The steps of the hosts, which the consoles do not see.                  *)
LEMMA ConsolesKept ==
    ASSUME IInv, UNCHANGED <<hub, lock, agent, con>>
    PROVE  ConsoleInv' /\ Settled' /\ BehindHub' \subseteq BehindHub
<1>1. ASSUME NEW p \in Consoles PROVE SelfAt(p)' /\ CoreAt(p)' /\ SpokeAt(p)' /\ AgentsAt(p)'
    <2>1. SelfAt(p) /\ CoreAt(p) /\ SpokeAt(p) /\ AgentsAt(p)
        BY Facts, Mine
    <2> QED
        BY <2>1 DEF SelfAt, CoreAt, SpokeAt, AgentsAt, AtSpoke, Spoke, Reached, Written
<1> QED
    BY <1>1, AgentsKept DEF ConsoleInv

Moves(h, s) ==
    /\ job' \in [Hosts -> Job] /\ job'[h].step = s
    /\ \A g \in Hosts \ {h} : job'[g] = job[g]
Cored(h, b, v, k, g) ==
    /\ core' \in [Hosts -> Core]
    /\ core'[h].bin = b /\ core'[h].svc = v /\ core'[h].backup = k /\ core'[h].good = g
    /\ \A o \in Hosts \ {h} : core'[o] = core[o]

\* Step moves the core job of one host.
LEMMA Stepping ==
    ASSUME TypeOK, NEW h \in Hosts, NEW s \in JobSteps \cup Verdicts, Step(h, s)
    PROVE  Moves(h, s)
<1>1. job[h] \in Job
    BY DEF TypeOK
<1>2. [job[h] EXCEPT !.step = s] \in Job
    BY <1>1 DEF Job
<1>3. job' = [job EXCEPT ![h] = [job[h] EXCEPT !.step = s]]
    BY DEF Step, TypeOK
<1>4. job' \in [Hosts -> Job] /\ \A g \in Hosts \ {h} : job'[g] = job[g]
    BY <1>2, <1>3 DEF TypeOK
<1>5. job'[h] = [job[h] EXCEPT !.step = s]
    BY <1>3 DEF TypeOK
<1> QED
    BY <1>1, <1>4, <1>5 DEF Moves, Job

\* What an update of a host's core changes, field by field.
LEMMA Coring ==
    ASSUME TypeOK, NEW h \in Hosts
    PROVE  /\ core' = core => Cored(h, core[h].bin, core[h].svc, core[h].backup, core[h].good)
           /\ \A b \in Cores : core' = [core EXCEPT ![h].bin = b] =>
                 Cored(h, b, core[h].svc, core[h].backup, core[h].good)
           /\ \A v \in {"up", "down", "stopped"} : core' = [core EXCEPT ![h].svc = v] =>
                 Cored(h, core[h].bin, v, core[h].backup, core[h].good)
           /\ \A k \in Cores \cup {None} : core' = [core EXCEPT ![h].backup = k] =>
                 Cored(h, core[h].bin, core[h].svc, k, core[h].good)
           /\ \A b \in Cores :
                 core' = [core EXCEPT ![h] = [@ EXCEPT !.svc = "up", !.good = b]] =>
                 Cored(h, core[h].bin, "up", core[h].backup, b)
           /\ \A b \in Cores :
                 core' = [core EXCEPT ![h] = [@ EXCEPT !.bin = b, !.svc = "up", !.backup = None, !.good = b]] =>
                 Cored(h, b, "up", None, b)
<1>1. core[h] \in Core
    BY DEF TypeOK
<1>2. core' = core => Cored(h, core[h].bin, core[h].svc, core[h].backup, core[h].good)
    BY DEF TypeOK, Cored
<1>3. ASSUME NEW b \in Cores, core' = [core EXCEPT ![h].bin = b]
      PROVE  Cored(h, b, core[h].svc, core[h].backup, core[h].good)
    BY <1>1, <1>3 DEF TypeOK, Cored, Core
<1>4. ASSUME NEW v \in {"up", "down", "stopped"}, core' = [core EXCEPT ![h].svc = v]
      PROVE  Cored(h, core[h].bin, v, core[h].backup, core[h].good)
    BY <1>1, <1>4 DEF TypeOK, Cored, Core
<1>5. ASSUME NEW k \in Cores \cup {None}, core' = [core EXCEPT ![h].backup = k]
      PROVE  Cored(h, core[h].bin, core[h].svc, k, core[h].good)
    BY <1>1, <1>5 DEF TypeOK, Cored, Core
<1>6. ASSUME NEW b \in Cores, core' = [core EXCEPT ![h] = [@ EXCEPT !.svc = "up", !.good = b]]
      PROVE  Cored(h, core[h].bin, "up", core[h].backup, b)
    BY <1>1, <1>6 DEF TypeOK, Cored, Core
<1>7. ASSUME NEW b \in Cores,
             core' = [core EXCEPT ![h] = [@ EXCEPT !.bin = b, !.svc = "up", !.backup = None, !.good = b]]
      PROVE  Cored(h, b, "up", None, b)
    BY <1>1, <1>7 DEF TypeOK, Cored, Core
<1> QED
    BY <1>2, <1>3, <1>4, <1>5, <1>6, <1>7

(* A step of a replacement, from what it does to its host.                 *)
LEMMA HostStep ==
    ASSUME IInv, NEW h \in Hosts, NEW s, NEW b, NEW v, NEW k, NEW g, Moves(h, s), Cored(h, b, v, k, g),
           UnchangedButCore, faults' \in 0..MaxFaults,
           k = None => b = g,
           s = "backup" => k = None,
           s \in {"stop", "swap", "restart", "rollback"} => k = g,
           s = "clean" => v # "down" /\ b = g,
           v = "down" => k = g
    PROVE  IInv' /\ BehindHub' \subseteq BehindHub
<1>1. ASSUME NEW o \in Hosts PROVE RecoveryAt(o)'
    <2>1. RecoveryAt(o)
        BY DEF IInv, CoreInv
    <2>2. CASE o = h
        BY <2>2 DEF RecoveryAt, Moves, Cored
    <2>3. CASE o # h
        BY <2>1, <2>3 DEF RecoveryAt, Moves, Cored
    <2> QED
        BY <2>2, <2>3
<1>2. CoreInv'
    BY <1>1 DEF CoreInv
<1>3. TypeOK'
    BY Facts DEF TypeOK, Moves, Cored, UnchangedButCore
<1> QED
    BY <1>2, <1>3, ConsolesKept DEF IInv, UnchangedButCore

\* CheckCore keeps the invariant and lets no agent fall behind.
LEMMA DoesCheckCore ==
    ASSUME IInv, NEW h \in Hosts, CheckCore(h)
    PROVE  IInv' /\ BehindHub' \subseteq BehindHub
<1>1. TypeOK /\ RecoveryAt(h) /\ core[h].bin \in Cores /\ core[h].backup \in Cores \cup {None}
      /\ core[h].good \in Cores /\ job[h].tag \in Cores
    BY Facts, CoreFacts DEF CoreInv, TypeOK, Job
<1>2. UnchangedButCore /\ job[h].step = "check" /\ core' = core
    BY DEF CheckCore
<1>3. CASE core[h].backup = None /\ NoFault /\ Step(h, "backup")
    <2>1. Moves(h, "backup")
        BY <1>1, <1>3, Stepping, StepNames
    <2>2. Cored(h, core[h].bin, core[h].svc, core[h].backup, core[h].good)
        BY <1>1, <1>2, <1>3, Coring
    <2>3. faults' \in 0..MaxFaults
        BY <1>1, <1>3, Failing DEF NoFault, TypeOK
    <2> QED
        BY <1>1, <1>2, <1>3, <2>1, <2>2, <2>3, HostStep, CoresAssumption DEF RecoveryAt
<1>4. CASE core[h].backup # None /\ NoFault /\ Step(h, "failed")
    <2>1. Moves(h, "failed")
        BY <1>1, <1>4, Stepping, StepNames
    <2>2. Cored(h, core[h].bin, core[h].svc, core[h].backup, core[h].good)
        BY <1>1, <1>2, <1>4, Coring
    <2>3. faults' \in 0..MaxFaults
        BY <1>1, <1>4, Failing DEF NoFault, TypeOK
    <2> QED
        BY <1>1, <1>2, <2>1, <2>2, <2>3, HostStep, CoresAssumption DEF RecoveryAt
<1>5. CASE core[h].backup = None /\ Fault /\ Step(h, "failed")
    <2>1. Moves(h, "failed")
        BY <1>1, <1>5, Stepping, StepNames
    <2>2. Cored(h, core[h].bin, core[h].svc, core[h].backup, core[h].good)
        BY <1>1, <1>2, <1>5, Coring
    <2>3. faults' \in 0..MaxFaults
        BY <1>1, <1>5, Failing DEF NoFault, TypeOK
    <2> QED
        BY <1>1, <1>2, <2>1, <2>2, <2>3, HostStep, CoresAssumption DEF RecoveryAt
<1> QED
    BY <1>3, <1>4, <1>5 DEF CheckCore

\* BackUp keeps the invariant and lets no agent fall behind.
LEMMA DoesBackUp ==
    ASSUME IInv, NEW h \in Hosts, BackUp(h)
    PROVE  IInv' /\ BehindHub' \subseteq BehindHub
<1>1. TypeOK /\ RecoveryAt(h) /\ core[h].bin \in Cores /\ core[h].backup \in Cores \cup {None}
      /\ core[h].good \in Cores /\ job[h].tag \in Cores
    BY Facts, CoreFacts DEF CoreInv, TypeOK, Job
<1>2. UnchangedButCore /\ job[h].step = "backup"
    BY DEF BackUp
<1>3. CASE NoFault /\ Step(h, "stop") /\ core' = [core EXCEPT ![h].backup = core[h].bin]
    <2>1. Moves(h, "stop")
        BY <1>1, <1>3, Stepping, StepNames
    <2>2. Cored(h, core[h].bin, core[h].svc, core[h].bin, core[h].good)
        BY <1>1, <1>2, <1>3, Coring
    <2>3. faults' \in 0..MaxFaults
        BY <1>1, <1>3, Failing DEF NoFault, TypeOK
    <2> QED
        BY <1>1, <1>2, <2>1, <2>2, <2>3, HostStep, CoresAssumption DEF RecoveryAt
<1>4. CASE Fault /\ Step(h, "failed") /\ UNCHANGED core
    <2>1. Moves(h, "failed")
        BY <1>1, <1>4, Stepping, StepNames
    <2>2. Cored(h, core[h].bin, core[h].svc, core[h].backup, core[h].good)
        BY <1>1, <1>2, <1>4, Coring
    <2>3. faults' \in 0..MaxFaults
        BY <1>1, <1>4, Failing DEF NoFault, TypeOK
    <2> QED
        BY <1>1, <1>2, <2>1, <2>2, <2>3, HostStep, CoresAssumption DEF RecoveryAt
<1> QED
    BY <1>3, <1>4 DEF BackUp

\* Stop keeps the invariant and lets no agent fall behind.
LEMMA DoesStop ==
    ASSUME IInv, NEW h \in Hosts, Stop(h)
    PROVE  IInv' /\ BehindHub' \subseteq BehindHub
<1>1. TypeOK /\ RecoveryAt(h) /\ core[h].bin \in Cores /\ core[h].backup \in Cores \cup {None}
      /\ core[h].good \in Cores /\ job[h].tag \in Cores
    BY Facts, CoreFacts DEF CoreInv, TypeOK, Job
<1>2. UnchangedButCore /\ job[h].step = "stop"
    BY DEF Stop
<1>3. CASE NoFault /\ Step(h, "swap") /\ core' = [core EXCEPT ![h].svc = "down"]
    <2>1. Moves(h, "swap")
        BY <1>1, <1>3, Stepping, StepNames
    <2>2. Cored(h, core[h].bin, "down", core[h].backup, core[h].good)
        BY <1>1, <1>2, <1>3, Coring
    <2>3. faults' \in 0..MaxFaults
        BY <1>1, <1>3, Failing DEF NoFault, TypeOK
    <2> QED
        BY <1>1, <1>2, <2>1, <2>2, <2>3, HostStep, CoresAssumption DEF RecoveryAt
<1>4. CASE Fault /\ Step(h, "rollback") /\ core' = [core EXCEPT ![h].svc = "down"]
    <2>1. Moves(h, "rollback")
        BY <1>1, <1>4, Stepping, StepNames
    <2>2. Cored(h, core[h].bin, "down", core[h].backup, core[h].good)
        BY <1>1, <1>2, <1>4, Coring
    <2>3. faults' \in 0..MaxFaults
        BY <1>1, <1>4, Failing DEF NoFault, TypeOK
    <2> QED
        BY <1>1, <1>2, <2>1, <2>2, <2>3, HostStep, CoresAssumption DEF RecoveryAt
<1>5. CASE Fault /\ Step(h, "rollback") /\ UNCHANGED core
    <2>1. Moves(h, "rollback")
        BY <1>1, <1>5, Stepping, StepNames
    <2>2. Cored(h, core[h].bin, core[h].svc, core[h].backup, core[h].good)
        BY <1>1, <1>2, <1>5, Coring
    <2>3. faults' \in 0..MaxFaults
        BY <1>1, <1>5, Failing DEF NoFault, TypeOK
    <2> QED
        BY <1>1, <1>2, <2>1, <2>2, <2>3, HostStep, CoresAssumption DEF RecoveryAt
<1> QED
    BY <1>3, <1>4, <1>5 DEF Stop

\* Swap keeps the invariant and lets no agent fall behind.
LEMMA DoesSwap ==
    ASSUME IInv, NEW h \in Hosts, Swap(h)
    PROVE  IInv' /\ BehindHub' \subseteq BehindHub
<1>1. TypeOK /\ RecoveryAt(h) /\ core[h].bin \in Cores /\ core[h].backup \in Cores \cup {None}
      /\ core[h].good \in Cores /\ job[h].tag \in Cores
    BY Facts, CoreFacts DEF CoreInv, TypeOK, Job
<1>2. UnchangedButCore /\ job[h].step = "swap"
    BY DEF Swap
<1>3. CASE NoFault /\ Step(h, "restart") /\ core' = [core EXCEPT ![h].bin = job[h].tag]
    <2>1. Moves(h, "restart")
        BY <1>1, <1>3, Stepping, StepNames
    <2>2. Cored(h, job[h].tag, core[h].svc, core[h].backup, core[h].good)
        BY <1>1, <1>2, <1>3, Coring
    <2>3. faults' \in 0..MaxFaults
        BY <1>1, <1>3, Failing DEF NoFault, TypeOK
    <2> QED
        BY <1>1, <1>2, <2>1, <2>2, <2>3, HostStep, CoresAssumption DEF RecoveryAt
<1>4. CASE Fault /\ Step(h, "rollback") /\ UNCHANGED core
    <2>1. Moves(h, "rollback")
        BY <1>1, <1>4, Stepping, StepNames
    <2>2. Cored(h, core[h].bin, core[h].svc, core[h].backup, core[h].good)
        BY <1>1, <1>2, <1>4, Coring
    <2>3. faults' \in 0..MaxFaults
        BY <1>1, <1>4, Failing DEF NoFault, TypeOK
    <2> QED
        BY <1>1, <1>2, <2>1, <2>2, <2>3, HostStep, CoresAssumption DEF RecoveryAt
<1> QED
    BY <1>3, <1>4 DEF Swap

\* Restart keeps the invariant and lets no agent fall behind.
LEMMA DoesRestart ==
    ASSUME IInv, NEW h \in Hosts, Restart(h)
    PROVE  IInv' /\ BehindHub' \subseteq BehindHub
<1>1. TypeOK /\ RecoveryAt(h) /\ core[h].bin \in Cores /\ core[h].backup \in Cores \cup {None}
      /\ core[h].good \in Cores /\ job[h].tag \in Cores
    BY Facts, CoreFacts DEF CoreInv, TypeOK, Job
<1>2. UnchangedButCore /\ job[h].step = "restart"
    BY DEF Restart
<1>3. CASE /\ NoFault /\ Step(h, "clean")
           /\ core' = [core EXCEPT ![h] = [@ EXCEPT !.svc = "up", !.good = core[h].bin]]
    <2>1. Moves(h, "clean")
        BY <1>1, <1>3, Stepping, StepNames
    <2>2. Cored(h, core[h].bin, "up", core[h].backup, core[h].bin)
        BY <1>1, <1>2, <1>3, Coring
    <2>3. faults' \in 0..MaxFaults
        BY <1>1, <1>3, Failing DEF NoFault, TypeOK
    <2> QED
        BY <1>1, <1>2, <2>1, <2>2, <2>3, HostStep, CoresAssumption DEF RecoveryAt
<1>4. CASE Fault /\ Step(h, "rollback") /\ UNCHANGED core
    <2>1. Moves(h, "rollback")
        BY <1>1, <1>4, Stepping, StepNames
    <2>2. Cored(h, core[h].bin, core[h].svc, core[h].backup, core[h].good)
        BY <1>1, <1>2, <1>4, Coring
    <2>3. faults' \in 0..MaxFaults
        BY <1>1, <1>4, Failing DEF NoFault, TypeOK
    <2> QED
        BY <1>1, <1>2, <2>1, <2>2, <2>3, HostStep, CoresAssumption DEF RecoveryAt
<1> QED
    BY <1>3, <1>4 DEF Restart

\* CleanUp keeps the invariant and lets no agent fall behind.
LEMMA DoesCleanUp ==
    ASSUME IInv, NEW h \in Hosts, CleanUp(h)
    PROVE  IInv' /\ BehindHub' \subseteq BehindHub
<1>1. TypeOK /\ RecoveryAt(h) /\ core[h].bin \in Cores /\ core[h].backup \in Cores \cup {None}
      /\ core[h].good \in Cores /\ job[h].tag \in Cores
    BY Facts, CoreFacts DEF CoreInv, TypeOK, Job
<1>2. UnchangedButCore /\ job[h].step = "clean"
    BY DEF CleanUp
<1>3. CASE NoFault /\ Step(h, "ok") /\ core' = [core EXCEPT ![h].backup = None]
    <2>1. Moves(h, "ok")
        BY <1>1, <1>3, Stepping, StepNames
    <2>2. Cored(h, core[h].bin, core[h].svc, None, core[h].good)
        BY <1>1, <1>2, <1>3, Coring
    <2>3. faults' \in 0..MaxFaults
        BY <1>1, <1>3, Failing DEF NoFault, TypeOK
    <2> QED
        BY <1>1, <1>2, <2>1, <2>2, <2>3, HostStep, CoresAssumption DEF RecoveryAt
<1>4. CASE Fault /\ Step(h, "failed") /\ core' = [core EXCEPT ![h].backup = None]
    <2>1. Moves(h, "failed")
        BY <1>1, <1>4, Stepping, StepNames
    <2>2. Cored(h, core[h].bin, core[h].svc, None, core[h].good)
        BY <1>1, <1>2, <1>4, Coring
    <2>3. faults' \in 0..MaxFaults
        BY <1>1, <1>4, Failing DEF NoFault, TypeOK
    <2> QED
        BY <1>1, <1>2, <2>1, <2>2, <2>3, HostStep, CoresAssumption DEF RecoveryAt
<1>5. CASE Fault /\ Step(h, "failed") /\ UNCHANGED core
    <2>1. Moves(h, "failed")
        BY <1>1, <1>5, Stepping, StepNames
    <2>2. Cored(h, core[h].bin, core[h].svc, core[h].backup, core[h].good)
        BY <1>1, <1>2, <1>5, Coring
    <2>3. faults' \in 0..MaxFaults
        BY <1>1, <1>5, Failing DEF NoFault, TypeOK
    <2> QED
        BY <1>1, <1>2, <2>1, <2>2, <2>3, HostStep, CoresAssumption DEF RecoveryAt
<1> QED
    BY <1>3, <1>4, <1>5 DEF CleanUp

\* rollbackReplacement keeps the invariant and lets no agent fall behind.
LEMMA DoesRollbackReplacement ==
    ASSUME IInv, NEW h \in Hosts, rollbackReplacement(h)
    PROVE  IInv' /\ BehindHub' \subseteq BehindHub
<1>1. TypeOK /\ RecoveryAt(h) /\ core[h].bin \in Cores /\ core[h].backup \in Cores \cup {None}
      /\ core[h].good \in Cores /\ job[h].tag \in Cores
    BY Facts, CoreFacts DEF CoreInv, TypeOK, Job
<1>2. UnchangedButCore /\ job[h].step = "rollback"
    BY DEF rollbackReplacement
<1>3. core[h].backup \in Cores
    BY <1>1, <1>2, CoresAssumption DEF RecoveryAt
<1>4. CASE /\ NoFault /\ Step(h, "failed")
                /\ core' = [core EXCEPT ![h] = [@ EXCEPT !.bin = core[h].backup, !.svc = "up",
                    !.backup = None, !.good = core[h].backup]]
    <2>1. Moves(h, "failed")
        BY <1>1, <1>4, Stepping, StepNames
    <2>2. Cored(h, core[h].backup, "up", None, core[h].backup)
        BY <1>1, <1>2, <1>3, <1>4, Coring
    <2>3. faults' \in 0..MaxFaults
        BY <1>1, <1>4, Failing DEF NoFault, TypeOK
    <2> QED
        BY <1>1, <1>2, <1>3, <2>1, <2>2, <2>3, HostStep, CoresAssumption DEF RecoveryAt
<1>5. CASE Fault /\ Step(h, "dirty") /\ UNCHANGED core
    <2>1. Moves(h, "dirty")
        BY <1>1, <1>5, Stepping, StepNames
    <2>2. Cored(h, core[h].bin, core[h].svc, core[h].backup, core[h].good)
        BY <1>1, <1>2, <1>3, <1>5, Coring
    <2>3. faults' \in 0..MaxFaults
        BY <1>1, <1>5, Failing DEF NoFault, TypeOK
    <2> QED
        BY <1>1, <1>2, <1>3, <2>1, <2>2, <2>3, HostStep, CoresAssumption DEF RecoveryAt
<1>6. CASE Fault /\ Step(h, "dirty") /\ core' = [core EXCEPT ![h].bin = core[h].backup]
    <2>1. Moves(h, "dirty")
        BY <1>1, <1>6, Stepping, StepNames
    <2>2. Cored(h, core[h].backup, core[h].svc, core[h].backup, core[h].good)
        BY <1>1, <1>2, <1>3, <1>6, Coring
    <2>3. faults' \in 0..MaxFaults
        BY <1>1, <1>6, Failing DEF NoFault, TypeOK
    <2> QED
        BY <1>1, <1>2, <1>3, <2>1, <2>2, <2>3, HostStep, CoresAssumption DEF RecoveryAt
<1> QED
    BY <1>4, <1>5, <1>6 DEF rollbackReplacement

\* AgentDies keeps the invariant and lets no agent fall behind.
LEMMA DoesAgentDies ==
    ASSUME IInv, NEW s \in Spokes, AgentDies(s)
    PROVE  IInv' /\ BehindHub' \subseteq BehindHub
<1>1. TypeOK /\ RecoveryAt(s) /\ s \in Hosts
    BY Facts, Order DEF CoreInv
<1>2. Moves(s, "dirty")
    BY <1>1, Stepping, StepNames DEF AgentDies, Step
<1>3. Cored(s, core[s].bin, core[s].svc, core[s].backup, core[s].good)
    BY <1>1, Coring DEF AgentDies
<1>4. faults' \in 0..MaxFaults /\ UnchangedButCore
    BY <1>1, Failing DEF AgentDies, UnchangedButCore
<1> QED
    BY <1>1, <1>2, <1>3, <1>4, HostStep DEF RecoveryAt

\* Unread keeps the invariant and lets no agent fall behind.
LEMMA DoesUnread ==
    ASSUME IInv, NEW s \in Spokes, Unread(s)
    PROVE  IInv' /\ BehindHub' \subseteq BehindHub
<1>1. TypeOK /\ RecoveryAt(s) /\ s \in Hosts
    BY Facts, Order DEF CoreInv
<1>2. JobSet(s, NoJob) /\ NoJob.step = "idle"
    BY <1>1, SettingJob, JobTypes DEF Unread, NoJob
<1>3. Moves(s, "idle")
    BY <1>2 DEF JobSet, Moves
<1>4. Cored(s, core[s].bin, core[s].svc, core[s].backup, core[s].good)
    BY <1>1, Coring DEF Unread
<1>5. faults' \in 0..MaxFaults /\ UnchangedButCore
    BY <1>1 DEF Unread, UnchangedButCore, TypeOK
<1> QED
    BY <1>1, <1>3, <1>4, <1>5, HostStep DEF RecoveryAt

(* A restarted agent runs what its console put on its disk.                *)
LEMMA DoesAgentRestarts ==
    ASSUME IInv, NEW s \in Spokes, AgentRestarts(s)
    PROVE  IInv' /\ BehindHub' \subseteq BehindHub
<1> TypeOK /\ ConsoleInv /\ Settled
    BY Facts
<1>1. agent[s].due /\ agent[s] \in Agent /\ agent[s].disk \in Versions
    BY AgentFacts DEF AgentRestarts
<1> PICK a : a = [agent[s] EXCEPT !.run = agent[s].disk, !.due = FALSE]
    OBVIOUS
<1>2. /\ a \in Agent /\ a.run = agent[s].disk /\ a.disk = agent[s].disk /\ a.due = FALSE
      /\ a.late = agent[s].late /\ agent' = [agent EXCEPT ![s] = a]
    BY <1>1 DEF AgentRestarts, TypeOK, Agent
<1>3. UNCHANGED <<hub, lock, core, job, con, faults, runs>>
    BY DEF AgentRestarts
<1>4. /\ agent' \in [Spokes -> Agent] /\ agent'[s] = a
      /\ \A t \in Spokes \ {s} : agent'[t] = agent[t]
    BY <1>2 DEF TypeOK
<1>5. TypeOK'
    BY <1>4, <1>3 DEF TypeOK
<1>6. Settled'
    BY <1>2, <1>4 DEF Settled
<1>7. CoreInv'
    BY <1>3, CoresKept
<1>8. BehindHub' \subseteq BehindHub
    BY <1>2, <1>3, <1>4 DEF BehindHub
<1>9. ASSUME NEW p \in Consoles PROVE SelfAt(p)' /\ CoreAt(p)' /\ SpokeAt(p)' /\ AgentsAt(p)'
    <2>1. SelfAt(p) /\ CoreAt(p) /\ SpokeAt(p) /\ AgentsAt(p)
        BY Mine
    <2>2. SelfAt(p)' /\ CoreAt(p)' /\ SpokeAt(p)'
        BY <1>3, <2>1 DEF SelfAt, CoreAt, SpokeAt, AtSpoke
    <2>3. \A j \in 1..con[p].i - 1 : SpokeOrder[j] \in Spokes
        BY ConsoleFacts, Order
    <2>4. con[p].pc = "await" => Spoke(p) \in Spokes
        BY <2>1, StepNames, ConsoleFacts DEF SpokeAt
    <2>5. Spoke(p)' = Spoke(p)
        BY <1>3 DEF Spoke
    <2>6. \A t \in Spokes : \A v : Reached(t, v) => agent'[t].late \/ (agent'[t].run >= v /\ agent'[t].disk >= v)
        BY <1>2, <1>4 DEF Reached
    <2>7. \A t \in Spokes : \A v : Written(t, v) => agent'[t].late \/ agent'[t].disk >= v
        BY <1>2, <1>4 DEF Written
    <2>8. \A t \in Spokes : agent'[t].due => agent[t].due /\ agent'[t].run = agent[t].run
        BY <1>2, <1>4
    <2>9. AgentsAt(p)'
        <3>1. con' = con
            BY <1>3
        <3>2. ASSUME con[p].pc \in {"agents", "upgrade", "await"} PROVE AgentsAt(p)'
            <4>1. \A t \in Spokes : agent'[t].due => agent'[t].late \/ agent'[t].disk >= agent'[t].run
                BY <2>1, <2>7, <2>8, <3>2 DEF AgentsAt
            <4>2. \A j \in 1..con[p].i - 1 :
                     \/ agent'[SpokeOrder[j]].late
                     \/ agent'[SpokeOrder[j]].run >= con[p].tag /\ agent'[SpokeOrder[j]].disk >= con[p].tag
                BY <2>1, <2>3, <2>6, <3>2 DEF AgentsAt
            <4>3. con[p].pc = "await" => agent'[Spoke(p)].late \/ agent'[Spoke(p)].disk >= con[p].tag
                BY <2>1, <2>4, <2>7, <3>2 DEF AgentsAt
            <4> QED
                BY <2>5, <3>1, <4>1, <4>2, <4>3 DEF AgentsAt, Reached, Written
        <3> QED
            BY <3>1, <3>2 DEF AgentsAt
    <2> QED
        BY <2>2, <2>9
<1> QED
    BY <1>3, <1>5, <1>6, <1>7, <1>8, <1>9 DEF IInv, ConsoleInv

\* serviceAction keeps the invariant and lets no agent fall behind.
LEMMA DoesServiceAction ==
    ASSUME IInv, NEW p \in Consoles, NEW up \in BOOLEAN, serviceAction(p, up)
    PROVE  IInv' /\ BehindHub' \subseteq BehindHub
<1> TypeOK /\ ConsoleInv
    BY Facts
<1>1. UNCHANGED <<hub, lock, agent, job, faults, runs>>
    BY DEF serviceAction
<1>2. PICK v \in {"up", "stopped"} : core' = [core EXCEPT ![Hub].svc = v]
    BY DEF serviceAction
<1>3. Cored(Hub, core[Hub].bin, v, core[Hub].backup, core[Hub].good)
    BY <1>2, Coring, Order
<1>4. PICK b \in BOOLEAN : con' = [con EXCEPT ![Changer].alone = b]
    <2>1. con[Changer].alone \in BOOLEAN /\ up \in BOOLEAN
        BY ConsoleFacts, ConsolesAssumption
    <2>2. con' = [con EXCEPT ![Changer].alone =
                      IF con[Changer].pc = "menu" THEN TRUE ELSE up /\ con[Changer].alone]
        BY DEF serviceAction
    <2>3. (IF con[Changer].pc = "menu" THEN TRUE ELSE up /\ con[Changer].alone) \in BOOLEAN
        BY <2>1
    <2> QED
        BY <2>2, <2>3
<1>5. con[Changer] \in Console /\ Changer \in Consoles
    BY ConsolesAssumption, ConsoleFacts
<1>6. [con[Changer] EXCEPT !.alone = b] \in Console
    BY <1>5 DEF Console
<1>7. con' = [con EXCEPT ![Changer] = [con[Changer] EXCEPT !.alone = b]]
    BY <1>4 DEF TypeOK
<1>8. con' \in [Consoles -> Console] /\ \A q \in Consoles \ {Changer} : con'[q] = con[q]
    BY <1>6, <1>7 DEF TypeOK
<1>9. con'[Changer] = [con[Changer] EXCEPT !.alone = b]
    BY <1>5, <1>7 DEF TypeOK
<1>10. /\ con'[Changer].pc = con[Changer].pc /\ con'[Changer].tool = con[Changer].tool
       /\ con'[Changer].tag = con[Changer].tag /\ con'[Changer].i = con[Changer].i
       /\ con'[Changer].old = con[Changer].old
    BY <1>5, <1>9 DEF Console
<1>11. \A q \in Consoles : /\ con'[q].pc = con[q].pc /\ con'[q].tool = con[q].tool
                           /\ con'[q].tag = con[q].tag /\ con'[q].i = con[q].i
                           /\ con'[q].old = con[q].old
    BY <1>8, <1>10
<1>12. ASSUME NEW q \in Consoles PROVE SelfAt(q)' /\ CoreAt(q)' /\ SpokeAt(q)' /\ AgentsAt(q)'
    <2>1. SelfAt(q) /\ CoreAt(q) /\ SpokeAt(q) /\ AgentsAt(q)
        BY Mine
    <2>2. SelfAt(q)'
        BY <2>1, <1>1, <1>11 DEF SelfAt
    <2>3. CoreAt(q)'
        BY <2>1, <1>11 DEF CoreAt
    <2>4. SpokeAt(q)'
        BY <2>1, <1>11 DEF SpokeAt, AtSpoke
    <2>5. AgentsAt(q)'
        BY <2>1, <1>1, <1>11 DEF AgentsAt, Spoke, Reached, Written
    <2> QED
        BY <2>2, <2>3, <2>4, <2>5
<1>13. ASSUME NEW g \in Hosts PROVE RecoveryAt(g)'
    <2>1. RecoveryAt(g)
        BY Facts DEF CoreInv
    <2>2. CASE g = Hub
        BY <1>1, <1>3, <2>1, <2>2 DEF RecoveryAt, Cored
    <2>3. CASE g # Hub
        BY <1>1, <1>3, <2>1, <2>3 DEF RecoveryAt, Cored
    <2> QED
        BY <2>2, <2>3
<1>14. TypeOK'
    BY <1>1, <1>3, <1>8 DEF TypeOK, Cored
<1>15. Settled' /\ BehindHub' \subseteq BehindHub
    BY <1>1, AgentsKept
<1> QED
    BY <1>12, <1>13, <1>14, <1>15 DEF IInv, ConsoleInv, CoreInv

-----------------------------------------------------------------------------
(* Every step of a console is safe.                                         *)
LEMMA ConsoleSafe ==
    ASSUME IInv, NEW p \in Consoles, SelfUpdate(p) \/ Launch(p) \/ Crash(p)
    PROVE  Safe(p)
<1>1. CASE \E v \in Versions : selfupdateRun(p, v)
    BY <1>1, DoesSelfupdateRun
<1>2. CASE Downloaded(p)
    BY <1>2, DoesDownloaded
<1>3. CASE DownloadFails(p)
    BY <1>3, DoesDownloadFails
<1>4. CASE CheckHealth(p)
    BY <1>4, DoesCheckHealthA, DoesCheckHealthB
<1>5. CASE CheckHealthFails(p)
    BY <1>5, DoesCheckHealthFails
<1>6. CASE Returned(p)
    BY <1>6, DoesReturnedA, DoesReturnedB
<1>7. CASE ReturnTimesOut(p)
    BY <1>7, DoesReturnTimesOut
<1>8. CASE Replace(p)
    BY <1>8, DoesReplace
<1>9. CASE ReplaceFails(p)
    BY <1>9, DoesReplaceFails
<1>10. CASE AfterReplace(p)
    BY <1>10, DoesAfterReplace
<1>11. CASE RestoreAgentVersion(p)
    BY <1>11, DoesRestoreAgentVersion
<1>12. CASE RestoreSkips(p)
    BY <1>12, DoesRestoreSkips
<1>13. CASE Restored(p)
    BY <1>13, DoesRestored
<1>14. CASE RestoreFails(p)
    BY <1>14, DoesRestoreFails
<1>15. CASE UpdateFailed(p)
    BY <1>15, DoesUpdateFailed
<1>16. CASE Launch(p) \/ Crash(p)
    BY <1>16, DoesLaunch, DoesCrash
<1>17. CASE reconcileAgentVersion(p)
    BY <1>17, DoesReconcileA, DoesReconcileB DEF reconcileAgentVersion
<1> QED
    BY <1>1, <1>2, <1>3, <1>4, <1>5, <1>6, <1>7, <1>8, <1>9, <1>10, <1>11, <1>12,
       <1>13, <1>14, <1>15, <1>16, <1>17 DEF SelfUpdate

\* So is every step of a change of the core.
LEMMA ChangerSafe ==
    ASSUME IInv, FleetCore(Changer) \/ \E c \in Cores : ChangeFleetCore(c)
    PROVE  Safe(Changer)
<1>1. CASE inspectFleetCore(Changer)
    BY <1>1, DoesInspectFleetCoreA, DoesInspectFleetCoreB, ConsolesAssumption
<1>2. CASE PreflightFails(Changer)
    BY <1>2, DoesPreflightFails, ConsolesAssumption
<1>3. CASE PreflightDone(Changer)
    BY <1>3, DoesPreflightDone, ConsolesAssumption
<1>4. CASE PassOver(Changer)
    BY <1>4, DoesPassOver, ConsolesAssumption
<1>5. CASE stageSpokeCore(Changer)
    BY <1>5, DoesStageSpokeCore, ConsolesAssumption
<1>6. CASE ChangeCore(Changer)
    BY <1>6, DoesChangeCore, ConsolesAssumption
<1>7. CASE SpokeCallFails(Changer)
    BY <1>7, DoesSpokeCallFails, ConsolesAssumption
<1>8. CASE SpokeAnswers(Changer)
    BY <1>8, DoesSpokeAnswers, ConsolesAssumption
<1>9. CASE ChangeLocalCore(Changer)
    BY <1>9, DoesChangeLocalCore, ConsolesAssumption
<1>10. CASE HubChanged(Changer)
    BY <1>10, DoesHubChanged, ConsolesAssumption
<1>11. CASE UndoHub(Changer)
    BY <1>11, DoesUndoHub, ConsolesAssumption
<1>12. CASE CoreFinished(Changer)
    BY <1>12, DoesCoreFinished, ConsolesAssumption
<1>13. CASE \E c \in Cores : ChangeFleetCore(c)
    BY <1>13, DoesChangeFleetCore, ConsolesAssumption
<1> QED
    BY <1>1, <1>2, <1>3, <1>4, <1>5, <1>6, <1>7, <1>8, <1>9, <1>10, <1>11, <1>12, <1>13
    DEF FleetCore

(* Every step preserves the invariant and leaves no agent behind.           *)
LEMMA StepSafe ==
    ASSUME IInv, Next
    PROVE  IInv' /\ BehindHub' \subseteq BehindHub
<1>1. ASSUME NEW p \in Consoles, SelfUpdate(p) \/ Launch(p) \/ Crash(p) PROVE Safe(p)
    BY <1>1, ConsoleSafe
<1>2. ASSUME FleetCore(Changer) \/ \E c \in Cores : ChangeFleetCore(c) PROVE Safe(Changer)
    BY <1>2, ChangerSafe
<1>3. ASSUME NEW h \in Hosts, Replacing(h) PROVE IInv' /\ BehindHub' \subseteq BehindHub
    BY <1>3, DoesCheckCore, DoesBackUp, DoesStop, DoesSwap, DoesRestart, DoesCleanUp,
       DoesRollbackReplacement DEF Replacing
<1>4. ASSUME NEW s \in Spokes, AgentRestarts(s) \/ AgentDies(s) \/ Unread(s)
      PROVE  IInv' /\ BehindHub' \subseteq BehindHub
    BY <1>4, DoesAgentRestarts, DoesAgentDies, DoesUnread
<1>5. ASSUME NEW p \in Consoles, NEW up \in BOOLEAN, serviceAction(p, up)
      PROVE  IInv' /\ BehindHub' \subseteq BehindHub
    BY <1>5, DoesServiceAction
<1>6. CASE \E p \in Consoles : Safe(p)
    BY <1>6, SafeStep
<1> QED
    BY <1>1, <1>2, <1>3, <1>4, <1>5, <1>6, ConsolesAssumption DEF Next

\* The invariant holds initially.
LEMMA InitSafe == Init => IInv
<1> SUFFICES ASSUME Init PROVE IInv
    OBVIOUS
<1>1. PICK v \in [Spokes -> {0, 1}] :
         agent = [s \in Spokes |-> [run |-> v[s], disk |-> v[s], due |-> FALSE, late |-> FALSE]]
    BY DEF Init
<1>2. agent \in [Spokes -> Agent]
    <2>1. \A s \in Spokes : v[s] \in Versions
        BY VersionFacts
    <2> QED
        BY <1>1, <2>1 DEF Agent
<1>3. Settled
    BY <1>1 DEF Settled
<1>4. core \in [Hosts -> Core]
    BY CoresAssumption DEF Init, Core
<1>5. job \in [Hosts -> Job]
    BY JobTypes DEF Init
<1>6. con \in [Consoles -> Console] /\ \A p \in Consoles : con[p] = Menu(1)
    BY MenuFacts, VersionFacts DEF Init
<1>7. TypeOK
    BY <1>2, <1>4, <1>5, <1>6, VersionFacts, BoundsAssumption DEF Init, TypeOK
<1>8. CoreInv
    BY DEF Init, CoreInv, RecoveryAt, NoJob
<1>9. ASSUME NEW p \in Consoles PROVE SelfAt(p) /\ CoreAt(p) /\ SpokeAt(p) /\ AgentsAt(p)
    <2>1. con[p].pc = "menu" /\ con[p].tool = 1 /\ con[p].i = 1 /\ hub = 1
        BY <1>6, MenuFacts, VersionFacts DEF Init
    <2> QED
        BY <2>1, StepNames DEF SelfAt, CoreAt, SpokeAt, AgentsAt
<1> QED
    BY <1>3, <1>7, <1>8, <1>9 DEF IInv, ConsoleInv

-----------------------------------------------------------------------------
(* The inductive invariant of the fleet's updates (selfupdate.Run,         *)
(* hubctl.UpgradeSpokeAgents, ChangeFleetCore, core.replaceWithTag).       *)
THEOREM Invariance == Spec => []IInv
<1>1. IInv /\ UNCHANGED vars => IInv'
    <2> SUFFICES ASSUME IInv, UNCHANGED vars PROVE IInv'
        OBVIOUS
    <2>1. ConsoleInv' /\ Settled'
        BY ConsolesKept DEF vars
    <2>2. CoreInv'
        BY CoresKept DEF vars
    <2>3. TypeOK'
        BY Facts DEF TypeOK, vars
    <2> QED
        BY <2>1, <2>2, <2>3 DEF IInv
<1>2. IInv /\ [Next]_vars => IInv'
    BY <1>1, StepSafe
<1> QED
    BY InitSafe, <1>2, PTL DEF Spec

(* Every variable keeps its type, in every order of the consoles' steps.   *)
THEOREM TypeCorrect == Spec => []TypeOK
<1>1. IInv => TypeOK
    BY DEF IInv
<1> QED
    BY Invariance, <1>1, PTL

(* A host whose service a replacement left down has a backup to restore,   *)
(* and it is of the release that was in service: no later replacement has  *)
(* overwritten it (replaceWithTag, rollbackReplacement).                   *)
THEOREM CoreIsRecoverable == Spec => []CoreRecoverable
<1>1. IInv => CoreRecoverable
    BY DEF IInv, CoreInv, RecoveryAt, CoreRecoverable
<1> QED
    BY Invariance, <1>1, PTL

(* No step of any console leaves an agent older than the hub that was not  *)
(* so before, although a probe and the upgrade it leads to are calls apart *)
(* and other consoles act between them; an agent lowered by a console that *)
(* had read an older version is excepted (selfupdate.Run,                  *)
(* hubctl.reconcileAgentVersion).                                          *)
THEOREM AgentsKeepUp == Spec => NoAgentFallsBehind
<1>1. IInv /\ [Next]_vars => [BehindHub' \subseteq BehindHub]_vars
    BY StepSafe
<1> QED
    BY Invariance, <1>1, PTL DEF Spec, NoAgentFallsBehind

-----------------------------------------------------------------------------
(* The outcomes: what a restore, a change and a rollback rest on.          *)

(* The agents a failing self-update has put back, but for the lowered ones. *)
PutBack(s, v) == agent[s].late \/ agent[s].disk = v
RestoreAt(p) ==
    (con[p].pc \in {"restore", "reawait"} /\ ~con[p].bad) =>
        /\ \A j \in 1..con[p].i - 1 :
              SpokeOrder[j] \in con[p].list => PutBack(SpokeOrder[j], con[p].tool)
        /\ con[p].pc = "reawait" => PutBack(Spoke(p), con[p].tool)

(* Where a console is in its round of the spokes, and whom it recorded.    *)
RoundAt(p) ==
    /\ con[p].pc \in {"off", "menu", "preflight", "outdated", "reconcile"} => con[p].list = {}
    /\ con[p].pc \in {"stage", "request", "change"} => con[p].i >= 1
    /\ con[p].pc \in {"hubchange", "hub"} => con[p].i = Len(SpokeOrder) + 1
    /\ con[p].pc \in {"undohub", "undohubwait", "undo", "undorequest", "undochange"} =>
          con[p].i <= Len(SpokeOrder)

(* A host no replacement runs on, up on version v of the core.             *)
Steady(h, v) == job[h].step = "idle" /\ Verified(h, v)

(* Before the first change every host is as it was found.                  *)
FoundAt ==
    (con[Changer].pc \in {"preflight", "outdated", "reconcile"} /\ con[Changer].alone) =>
        /\ \A h \in Hosts : job[h].step = "idle"
        /\ Verified(Hub, con[Changer].old[Hub])
        /\ \A j \in 1..con[Changer].i - 1 :
              Verified(SpokeOrder[j], con[Changer].old[SpokeOrder[j]])

(* The hub's own replacement: the backup is of the version it was found on, *)
(* and a replacement that failed has put it back or has left the new one.  *)
HubAt ==
    /\ job[Hub].tag = con[Changer].tag /\ con[Changer].tag # con[Changer].old[Hub]
    /\ job[Hub].step \in {"check", "backup"} => Verified(Hub, con[Changer].old[Hub])
    /\ job[Hub].step \in {"stop", "swap"} => core[Hub].bin = con[Changer].old[Hub]
    /\ job[Hub].step \in {"restart", "clean"} => core[Hub].bin = con[Changer].tag
    /\ job[Hub].step \in {"stop", "swap", "restart", "clean", "rollback"} =>
          core[Hub].backup = con[Changer].old[Hub]
    /\ job[Hub].step \in {"ok", "failed"} /\ core[Hub].bin = con[Changer].old[Hub] =>
          Verified(Hub, con[Changer].old[Hub])

(* On the way out the spokes behind have the target, those ahead are as    *)
(* they were found, and only the one in between is being changed.          *)
ChangingAt ==
    (con[Changer].pc \in {"stage", "request", "change", "hubchange", "hub"} /\ con[Changer].alone) =>
        /\ \A j \in 1..Len(SpokeOrder) :
              /\ j < con[Changer].i =>
                    /\ Steady(SpokeOrder[j], con[Changer].tag)
                    /\ SpokeOrder[j] \notin con[Changer].list =>
                          con[Changer].old[SpokeOrder[j]] = con[Changer].tag
              /\ (j > con[Changer].i \/ (j = con[Changer].i /\ con[Changer].pc # "change")) =>
                    Steady(SpokeOrder[j], con[Changer].old[SpokeOrder[j]])
        /\ con[Changer].pc = "change" => Spoke(Changer) \in con[Changer].list
        /\ con[Changer].pc \in {"stage", "request", "change"} => Steady(Hub, con[Changer].old[Hub])
        /\ con[Changer].pc = "hub" => Steady(Hub, con[Changer].tag)
        /\ con[Changer].pc = "hubchange" => HubAt

(* On the way back the spokes that were not recorded and those already     *)
(* rolled back are as they were found.                                     *)
UndoingAt ==
    (con[Changer].pc \in {"undohub", "undohubwait", "undo", "undorequest", "undochange"}
        /\ con[Changer].alone /\ ~con[Changer].bad) =>
        /\ \A j \in 1..Len(SpokeOrder) :
              (SpokeOrder[j] \notin con[Changer].list \/ j > con[Changer].i) =>
                  Steady(SpokeOrder[j], con[Changer].old[SpokeOrder[j]])
        /\ con[Changer].pc \in {"undo", "undorequest", "undochange"} =>
              Steady(Hub, con[Changer].old[Hub])
        /\ con[Changer].pc = "undohub" =>
              /\ job[Hub].step = "idle"
              /\ core[Hub].bin = con[Changer].old[Hub] => Verified(Hub, con[Changer].old[Hub])
        /\ con[Changer].pc = "undohubwait" => job[Hub].tag = con[Changer].old[Hub]

RoundInv == \A p \in Consoles : RestoreAt(p) /\ RoundAt(p)
OutInv == RoundInv /\ FoundAt /\ ChangingAt /\ UndoingAt

-----------------------------------------------------------------------------
(* The console's new place after each step.                                *)

(* The new place of console p in its operation.                            *)
Becomes(p, pc, i, list, bad) ==
    /\ con'[p].pc = pc /\ con'[p].i = i /\ con'[p].list = list /\ con'[p].bad = bad
    /\ con'[p].tool = con[p].tool /\ con'[p].tag = con[p].tag
    /\ con'[p].old = con[p].old /\ con'[p].alone = con[p].alone

\* An agent that is back after preflight upgraded it.
LEMMA EffReturned ==
    ASSUME TypeOK, NEW p \in Consoles, Returned(p)
    PROVE  con[p].pc = "reconcile" => Becomes(p, "preflight", con[p].i, con[p].list, con[p].bad)
<1>1. ASSUME con[p].pc = "reconcile" PROVE Becomes(p, "preflight", con[p].i, con[p].list, con[p].bad)
    <2>1. con' = [con EXCEPT ![p] = [con[p] EXCEPT !.pc = "preflight"]]
        BY <1>1 DEF TypeOK, Returned, Go
    <2>2. con'[p] = [con[p] EXCEPT !.pc = "preflight"]
        BY <2>1 DEF TypeOK
    <2> QED
        BY <1>1, <2>2, ConsoleFacts DEF Console, Becomes
<1> QED
    BY <1>1

\* A restore that was acknowledged is waited for.
LEMMA EffRestoreAgentVersion ==
    ASSUME TypeOK, NEW p \in Consoles, RestoreAgentVersion(p)
    PROVE  Becomes(p, "reawait", con[p].i, con[p].list, con[p].bad)
<1>1. con' = [con EXCEPT ![p] = [con[p] EXCEPT !.pc = "reawait"]]
    BY DEF TypeOK, RestoreAgentVersion, Go
<1>2. con'[p] = [con[p] EXCEPT !.pc = "reawait"]
    BY <1>1 DEF TypeOK
<1> QED
    BY <1>2, ConsoleFacts DEF Console, Becomes

\* A spoke that was not recorded is skipped.
LEMMA EffRestoreSkips ==
    ASSUME TypeOK, NEW p \in Consoles, RestoreSkips(p)
    PROVE  Becomes(p, "restore", con[p].i + 1, con[p].list, con[p].bad)
<1>1. con' = [con EXCEPT ![p] = [con[p] EXCEPT !.pc = "restore", !.i = @ + 1]]
    BY DEF TypeOK, RestoreSkips, Advance
<1>2. con'[p] = [con[p] EXCEPT !.pc = "restore", !.i = @ + 1]
    BY <1>1 DEF TypeOK
<1> QED
    BY <1>2, ConsoleFacts DEF Console, Becomes

\* The next spoke follows one that is restored.
LEMMA EffRestored ==
    ASSUME TypeOK, NEW p \in Consoles, Restored(p)
    PROVE  Becomes(p, "restore", con[p].i + 1, con[p].list, con[p].bad)
<1>1. con' = [con EXCEPT ![p] = [con[p] EXCEPT !.pc = "restore", !.i = @ + 1]]
    BY DEF TypeOK, Restored, Advance
<1>2. con'[p] = [con[p] EXCEPT !.pc = "restore", !.i = @ + 1]
    BY <1>1 DEF TypeOK
<1> QED
    BY <1>2, ConsoleFacts DEF Console, Becomes

\* A failed restore is recorded as an error.
LEMMA EffRestoreFails ==
    ASSUME TypeOK, NEW p \in Consoles, RestoreFails(p)
    PROVE  Becomes(p, "restore", con[p].i + 1, con[p].list, TRUE)
<1>1. con' = [con EXCEPT ![p] = [con[p] EXCEPT !.pc = "restore", !.i = @ + 1, !.bad = TRUE]]
    BY DEF TypeOK, RestoreFails
<1>2. con'[p] = [con[p] EXCEPT !.pc = "restore", !.i = @ + 1, !.bad = TRUE]
    BY <1>1 DEF TypeOK
<1> QED
    BY <1>2, ConsoleFacts DEF Console, Becomes

\* Preflight waits for an agent it upgrades.
LEMMA EffInspect ==
    ASSUME TypeOK, NEW p \in Consoles, inspectFleetCore(p)
    PROVE  agent[Spoke(p)].run < con[p].tool => Becomes(p, "outdated", con[p].i, con[p].list, con[p].bad)
<1>1. ASSUME agent[Spoke(p)].run < con[p].tool PROVE Becomes(p, "outdated", con[p].i, con[p].list, con[p].bad)
    <2>1. con' = [con EXCEPT ![p] = [con[p] EXCEPT !.pc = "outdated"]]
        BY <1>1 DEF TypeOK, inspectFleetCore, shouldReplaceAgentVersion, Go
    <2>2. con'[p] = [con[p] EXCEPT !.pc = "outdated"]
        BY <2>1 DEF TypeOK
    <2> QED
        BY <1>1, <2>2, ConsoleFacts DEF Console, Becomes
<1> QED
    BY <1>1

\* The change begins with the first spoke.
LEMMA EffPreflightDone ==
    ASSUME TypeOK, NEW p \in Consoles, PreflightDone(p)
    PROVE  Becomes(p, "stage", 1, con[p].list, con[p].bad)
<1>1. con' = [con EXCEPT ![p] = [con[p] EXCEPT !.pc = "stage", !.i = 1]]
    BY DEF TypeOK, PreflightDone
<1>2. con'[p] = [con[p] EXCEPT !.pc = "stage", !.i = 1]
    BY <1>1 DEF TypeOK
<1> QED
    BY <1>2, ConsoleFacts DEF Console, Becomes

\* A spoke that is passed over, on either way.
LEMMA EffPassOver ==
    ASSUME TypeOK, NEW p \in Consoles, PassOver(p)
    PROVE  /\ con[p].pc = "stage" => Becomes(p, "stage", con[p].i + 1, con[p].list, con[p].bad)
           /\ con[p].pc = "undo" => Becomes(p, "undo", con[p].i - 1, con[p].list, con[p].bad)
<1>1. ASSUME con[p].pc = "stage" PROVE Becomes(p, "stage", con[p].i + 1, con[p].list, con[p].bad)
    <2>1. con' = [con EXCEPT ![p] = [con[p] EXCEPT !.i = @ + 1]]
        BY <1>1 DEF TypeOK, PassOver
    <2>2. con'[p] = [con[p] EXCEPT !.i = @ + 1]
        BY <2>1 DEF TypeOK
    <2> QED
        BY <1>1, <2>2, ConsoleFacts DEF Console, Becomes
<1>2. ASSUME con[p].pc = "undo" PROVE Becomes(p, "undo", con[p].i - 1, con[p].list, con[p].bad)
    <2>1. con' = [con EXCEPT ![p] = [con[p] EXCEPT !.i = @ - 1]]
        BY <1>2 DEF TypeOK, PassOver
    <2>2. con'[p] = [con[p] EXCEPT !.i = @ - 1]
        BY <2>1 DEF TypeOK
    <2> QED
        BY <1>2, <2>2, ConsoleFacts DEF Console, Becomes
<1> QED
    BY <1>1, <1>2

\* A staged spoke, on either way.
LEMMA EffStage ==
    ASSUME TypeOK, NEW p \in Consoles, stageSpokeCore(p)
    PROVE  /\ con[p].pc = "stage" => Becomes(p, "request", con[p].i, con[p].list, con[p].bad)
           /\ con[p].pc = "undo" => Becomes(p, "undorequest", con[p].i, con[p].list, con[p].bad)
<1>1. ASSUME con[p].pc = "stage" PROVE Becomes(p, "request", con[p].i, con[p].list, con[p].bad)
    <2>1. con' = [con EXCEPT ![p] = [con[p] EXCEPT !.pc = "request"]]
        BY <1>1 DEF TypeOK, stageSpokeCore, Go
    <2>2. con'[p] = [con[p] EXCEPT !.pc = "request"]
        BY <2>1 DEF TypeOK
    <2> QED
        BY <1>1, <2>2, ConsoleFacts DEF Console, Becomes
<1>2. ASSUME con[p].pc = "undo" PROVE Becomes(p, "undorequest", con[p].i, con[p].list, con[p].bad)
    <2>1. con' = [con EXCEPT ![p] = [con[p] EXCEPT !.pc = "undorequest"]]
        BY <1>2 DEF TypeOK, stageSpokeCore, Go
    <2>2. con'[p] = [con[p] EXCEPT !.pc = "undorequest"]
        BY <2>1 DEF TypeOK
    <2> QED
        BY <1>2, <2>2, ConsoleFacts DEF Console, Becomes
<1> QED
    BY <1>1, <1>2

\* A request records its spoke, on either way.
LEMMA EffChangeCore ==
    ASSUME TypeOK, NEW p \in Consoles, ChangeCore(p)
    PROVE  /\ con[p].pc = "request" => Becomes(p, "change", con[p].i, con[p].list \cup {Spoke(p)}, con[p].bad)
           /\ con[p].pc = "undorequest" => Becomes(p, "undochange", con[p].i, con[p].list \cup {Spoke(p)}, con[p].bad)
<1>1. ASSUME con[p].pc = "request" PROVE Becomes(p, "change", con[p].i, con[p].list \cup {Spoke(p)}, con[p].bad)
    <2>1. con' = [con EXCEPT ![p] = [con[p] EXCEPT !.pc = "change", !.list = @ \cup {Spoke(p)}]]
        BY <1>1 DEF TypeOK, ChangeCore
    <2>2. con'[p] = [con[p] EXCEPT !.pc = "change", !.list = @ \cup {Spoke(p)}]
        BY <2>1 DEF TypeOK
    <2> QED
        BY <1>1, <2>2, ConsoleFacts DEF Console, Becomes
<1>2. ASSUME con[p].pc = "undorequest" PROVE Becomes(p, "undochange", con[p].i, con[p].list \cup {Spoke(p)}, con[p].bad)
    <2>1. con' = [con EXCEPT ![p] = [con[p] EXCEPT !.pc = "undochange", !.list = @ \cup {Spoke(p)}]]
        BY <1>2 DEF TypeOK, ChangeCore
    <2>2. con'[p] = [con[p] EXCEPT !.pc = "undochange", !.list = @ \cup {Spoke(p)}]
        BY <2>1 DEF TypeOK
    <2> QED
        BY <1>2, <2>2, ConsoleFacts DEF Console, Becomes
<1> QED
    BY <1>1, <1>2

\* A call that fails turns the change back, or is an error of the rollback.
LEMMA EffSpokeCallFails ==
    ASSUME TypeOK, NEW p \in Consoles, SpokeCallFails(p)
    PROVE  /\ con[p].pc = "stage" => Becomes(p, "undo", Len(SpokeOrder), con[p].list, con[p].bad)
           /\ con[p].pc \in {"request", "change"} => Becomes(p, "undo", Len(SpokeOrder), con[p].list \cup {Spoke(p)}, con[p].bad)
           /\ con[p].pc \in {"undo", "undorequest", "undochange"} => Becomes(p, "undo", con[p].i - 1, con[p].list, TRUE)
<1>1. ASSUME con[p].pc = "stage" PROVE Becomes(p, "undo", Len(SpokeOrder), con[p].list, con[p].bad)
    <2>1. con' = [con EXCEPT ![p] = [con[p] EXCEPT !.pc = "undo", !.i = Len(SpokeOrder), !.list = @ \cup {}]]
        BY <1>1 DEF TypeOK, SpokeCallFails
    <2>2. con'[p] = [con[p] EXCEPT !.pc = "undo", !.i = Len(SpokeOrder), !.list = @ \cup {}]
        BY <2>1 DEF TypeOK
    <2> QED
        BY <1>1, <2>2, ConsoleFacts DEF Console, Becomes
<1>2. ASSUME con[p].pc \in {"request", "change"} PROVE Becomes(p, "undo", Len(SpokeOrder), con[p].list \cup {Spoke(p)}, con[p].bad)
    <2>1. con' = [con EXCEPT ![p] = [con[p] EXCEPT !.pc = "undo", !.i = Len(SpokeOrder), !.list = @ \cup {Spoke(p)}]]
        BY <1>2 DEF TypeOK, SpokeCallFails
    <2>2. con'[p] = [con[p] EXCEPT !.pc = "undo", !.i = Len(SpokeOrder), !.list = @ \cup {Spoke(p)}]
        BY <2>1 DEF TypeOK
    <2> QED
        BY <1>2, <2>2, ConsoleFacts DEF Console, Becomes
<1>3. ASSUME con[p].pc \in {"undo", "undorequest", "undochange"} PROVE Becomes(p, "undo", con[p].i - 1, con[p].list, TRUE)
    <2>1. con' = [con EXCEPT ![p] = [con[p] EXCEPT !.pc = "undo", !.i = @ - 1, !.bad = TRUE]]
        BY <1>3 DEF TypeOK, SpokeCallFails
    <2>2. con'[p] = [con[p] EXCEPT !.pc = "undo", !.i = @ - 1, !.bad = TRUE]
        BY <2>1 DEF TypeOK
    <2> QED
        BY <1>3, <2>2, ConsoleFacts DEF Console, Becomes
<1> QED
    BY <1>1, <1>2, <1>3

(* The answer of a spoke is good.                                          *)
Good(p) == job[Spoke(p)].step = "ok" /\ Verified(Spoke(p), Wanted(p))

\* A good answer is followed by the next spoke, another by the rollback.
LEMMA EffSpokeAnswers ==
    ASSUME TypeOK, NEW p \in Consoles, SpokeAnswers(p)
    PROVE  /\ con[p].pc = "change" /\ Good(p) => Becomes(p, "stage", con[p].i + 1, con[p].list, con[p].bad)
           /\ con[p].pc = "change" /\ ~Good(p) => Becomes(p, "undo", Len(SpokeOrder), con[p].list, con[p].bad)
           /\ con[p].pc = "undochange" => Becomes(p, "undo", con[p].i - 1, con[p].list, con[p].bad \/ ~Good(p))
<1>1. ASSUME con[p].pc = "change" /\ Good(p) PROVE Becomes(p, "stage", con[p].i + 1, con[p].list, con[p].bad)
    <2>1. con' = [con EXCEPT ![p] = [con[p] EXCEPT !.pc = "stage", !.i = @ + 1]]
        BY <1>1 DEF TypeOK, SpokeAnswers, Good, Advance, Undoing
    <2>2. con'[p] = [con[p] EXCEPT !.pc = "stage", !.i = @ + 1]
        BY <2>1 DEF TypeOK
    <2> QED
        BY <1>1, <2>2, ConsoleFacts DEF Console, Becomes
<1>2. ASSUME con[p].pc = "change" /\ ~Good(p) PROVE Becomes(p, "undo", Len(SpokeOrder), con[p].list, con[p].bad)
    <2>1. con' = [con EXCEPT ![p] = [con[p] EXCEPT !.pc = "undo", !.i = Len(SpokeOrder), !.bad = @ \/ FALSE]]
        BY <1>2 DEF TypeOK, SpokeAnswers, Good, Advance, Undoing
    <2>2. con'[p] = [con[p] EXCEPT !.pc = "undo", !.i = Len(SpokeOrder), !.bad = @ \/ FALSE]
        BY <2>1 DEF TypeOK
    <2> QED
        BY <1>2, <2>2, ConsoleFacts DEF Console, Becomes
<1>3. ASSUME con[p].pc = "undochange" PROVE Becomes(p, "undo", con[p].i - 1, con[p].list, con[p].bad \/ ~Good(p))
    <2>1. con' = [con EXCEPT ![p] = [con[p] EXCEPT !.pc = "undo", !.i = @ - 1, !.bad = @ \/ ~Good(p)]]
        BY <1>3 DEF TypeOK, SpokeAnswers, Good, Advance, Undoing
    <2>2. con'[p] = [con[p] EXCEPT !.pc = "undo", !.i = @ - 1, !.bad = @ \/ ~Good(p)]
        BY <2>1 DEF TypeOK
    <2> QED
        BY <1>3, <2>2, ConsoleFacts DEF Console, Becomes
<1> QED
    BY <1>1, <1>2, <1>3

\* The hub is verified or changed.
LEMMA EffChangeLocalCore ==
    ASSUME TypeOK, NEW p \in Consoles, ChangeLocalCore(p)
    PROVE  /\ con[p].old[Hub] = con[p].tag /\ Verified(Hub, con[p].tag) => Becomes(p, "hub", con[p].i, con[p].list, con[p].bad)
           /\ con[p].old[Hub] = con[p].tag /\ ~Verified(Hub, con[p].tag) => Becomes(p, "undohub", Len(SpokeOrder), con[p].list, con[p].bad)
           /\ con[p].old[Hub] # con[p].tag => Becomes(p, "hubchange", con[p].i, con[p].list, con[p].bad)
<1>1. ASSUME con[p].old[Hub] = con[p].tag /\ Verified(Hub, con[p].tag) PROVE Becomes(p, "hub", con[p].i, con[p].list, con[p].bad)
    <2>1. con' = [con EXCEPT ![p] = [con[p] EXCEPT !.pc = "hub"]]
        BY <1>1 DEF TypeOK, ChangeLocalCore, Go, Undoing
    <2>2. con'[p] = [con[p] EXCEPT !.pc = "hub"]
        BY <2>1 DEF TypeOK
    <2> QED
        BY <1>1, <2>2, ConsoleFacts DEF Console, Becomes
<1>2. ASSUME con[p].old[Hub] = con[p].tag /\ ~Verified(Hub, con[p].tag) PROVE Becomes(p, "undohub", Len(SpokeOrder), con[p].list, con[p].bad)
    <2>1. con' = [con EXCEPT ![p] = [con[p] EXCEPT !.pc = "undohub", !.i = Len(SpokeOrder), !.bad = @ \/ FALSE]]
        BY <1>2 DEF TypeOK, ChangeLocalCore, Go, Undoing
    <2>2. con'[p] = [con[p] EXCEPT !.pc = "undohub", !.i = Len(SpokeOrder), !.bad = @ \/ FALSE]
        BY <2>1 DEF TypeOK
    <2> QED
        BY <1>2, <2>2, ConsoleFacts DEF Console, Becomes
<1>3. ASSUME con[p].old[Hub] # con[p].tag PROVE Becomes(p, "hubchange", con[p].i, con[p].list, con[p].bad)
    <2>1. con' = [con EXCEPT ![p] = [con[p] EXCEPT !.pc = "hubchange"]]
        BY <1>3 DEF TypeOK, ChangeLocalCore, Go, Undoing
    <2>2. con'[p] = [con[p] EXCEPT !.pc = "hubchange"]
        BY <2>1 DEF TypeOK
    <2> QED
        BY <1>3, <2>2, ConsoleFacts DEF Console, Becomes
<1> QED
    BY <1>1, <1>2, <1>3

(* The replacement of the hub's core is good.                              *)
HubGood == job[Hub].step = "ok" /\ Verified(Hub, job[Hub].tag)

\* The end of a replacement of the hub's core, on either way.
LEMMA EffHubChanged ==
    ASSUME TypeOK, NEW p \in Consoles, HubChanged(p)
    PROVE  /\ con[p].pc = "hubchange" /\ HubGood => Becomes(p, "hub", con[p].i, con[p].list, con[p].bad)
           /\ con[p].pc = "hubchange" /\ ~HubGood => Becomes(p, "undohub", Len(SpokeOrder), con[p].list, con[p].bad \/ job[Hub].step = "dirty")
           /\ con[p].pc = "undohubwait" => Becomes(p, "undo", Len(SpokeOrder), con[p].list, con[p].bad \/ ~HubGood)
<1>1. ASSUME con[p].pc = "hubchange" /\ HubGood PROVE Becomes(p, "hub", con[p].i, con[p].list, con[p].bad)
    <2>1. con' = [con EXCEPT ![p] = [con[p] EXCEPT !.pc = "hub"]]
        BY <1>1 DEF TypeOK, HubChanged, HubGood, Go, Undoing
    <2>2. con'[p] = [con[p] EXCEPT !.pc = "hub"]
        BY <2>1 DEF TypeOK
    <2> QED
        BY <1>1, <2>2, ConsoleFacts DEF Console, Becomes
<1>2. ASSUME con[p].pc = "hubchange" /\ ~HubGood PROVE Becomes(p, "undohub", Len(SpokeOrder), con[p].list, con[p].bad \/ job[Hub].step = "dirty")
    <2>1. con' = [con EXCEPT ![p] = [con[p] EXCEPT !.pc = "undohub", !.i = Len(SpokeOrder), !.bad = @ \/ job[Hub].step = "dirty"]]
        BY <1>2 DEF TypeOK, HubChanged, HubGood, Go, Undoing
    <2>2. con'[p] = [con[p] EXCEPT !.pc = "undohub", !.i = Len(SpokeOrder), !.bad = @ \/ job[Hub].step = "dirty"]
        BY <2>1 DEF TypeOK
    <2> QED
        BY <1>2, <2>2, ConsoleFacts DEF Console, Becomes
<1>3. ASSUME con[p].pc = "undohubwait" PROVE Becomes(p, "undo", Len(SpokeOrder), con[p].list, con[p].bad \/ ~HubGood)
    <2>1. con' = [con EXCEPT ![p] = [con[p] EXCEPT !.pc = "undo", !.i = Len(SpokeOrder), !.bad = @ \/ ~HubGood]]
        BY <1>3 DEF TypeOK, HubChanged, HubGood, Go, Undoing
    <2>2. con'[p] = [con[p] EXCEPT !.pc = "undo", !.i = Len(SpokeOrder), !.bad = @ \/ ~HubGood]
        BY <2>1 DEF TypeOK
    <2> QED
        BY <1>3, <2>2, ConsoleFacts DEF Console, Becomes
<1> QED
    BY <1>1, <1>2, <1>3

\* The hub is rolled back only when its binary is not the old one.
LEMMA EffUndoHub ==
    ASSUME TypeOK, NEW p \in Consoles, UndoHub(p)
    PROVE  /\ core[Hub].bin = con[p].old[Hub] => Becomes(p, "undo", con[p].i, con[p].list, con[p].bad)
           /\ core[Hub].bin # con[p].old[Hub] => Becomes(p, "undohubwait", con[p].i, con[p].list, con[p].bad)
<1>1. ASSUME core[Hub].bin = con[p].old[Hub] PROVE Becomes(p, "undo", con[p].i, con[p].list, con[p].bad)
    <2>1. con' = [con EXCEPT ![p] = [con[p] EXCEPT !.pc = "undo"]]
        BY <1>1 DEF TypeOK, UndoHub, Go
    <2>2. con'[p] = [con[p] EXCEPT !.pc = "undo"]
        BY <2>1 DEF TypeOK
    <2> QED
        BY <1>1, <2>2, ConsoleFacts DEF Console, Becomes
<1>2. ASSUME core[Hub].bin # con[p].old[Hub] PROVE Becomes(p, "undohubwait", con[p].i, con[p].list, con[p].bad)
    <2>1. con' = [con EXCEPT ![p] = [con[p] EXCEPT !.pc = "undohubwait"]]
        BY <1>2 DEF TypeOK, UndoHub, Go
    <2>2. con'[p] = [con[p] EXCEPT !.pc = "undohubwait"]
        BY <2>1 DEF TypeOK
    <2> QED
        BY <1>2, <2>2, ConsoleFacts DEF Console, Becomes
<1> QED
    BY <1>1, <1>2

(* An operation that ends leaves its console with nothing recorded.        *)
LEMMA EffEnd ==
    ASSUME TypeOK, NEW p \in Consoles,
           \/ Launch(p) \/ Crash(p) \/ DownloadFails(p) \/ AfterReplace(p) \/ UpdateFailed(p)
           \/ PreflightFails(p) \/ CoreFinished(p)
    PROVE  con'[p].pc \in {"off", "menu"} /\ con'[p].list = {}
<1>1. \E v : con' = [con EXCEPT ![p] = Menu(v)] \/ con' = [con EXCEPT ![p] = [Menu(v) EXCEPT !.pc = "off"]]
    <2>1. CASE Launch(p)
        BY <2>1 DEF Launch
    <2>2. CASE Crash(p) \/ AfterReplace(p)
        BY <2>2 DEF TypeOK, Crash, AfterReplace
    <2>3. CASE DownloadFails(p) \/ UpdateFailed(p) \/ PreflightFails(p) \/ CoreFinished(p)
        BY <2>3 DEF TypeOK, DownloadFails, UpdateFailed, PreflightFails, CoreFinished, Finish
    <2> QED
        BY <2>1, <2>2, <2>3
<1>2. PICK v : con'[p] = Menu(v) \/ con'[p] = [Menu(v) EXCEPT !.pc = "off"]
    BY <1>1 DEF TypeOK
<1> QED
    BY <1>2 DEF Menu

(* An upgrade is sent, and waited for.                                     *)
LEMMA EffReconcile ==
    ASSUME TypeOK, NEW p \in Consoles, reconcileAgentVersion(p)
    PROVE  Becomes(p, IF con[p].pc = "upgrade" THEN "await" ELSE "reconcile", con[p].i, con[p].list, con[p].bad)
<1>1. PICK c : c = IF con[p].pc = "upgrade" THEN "await" ELSE "reconcile"
    OBVIOUS
<1>2. con' = [con EXCEPT ![p] = [con[p] EXCEPT !.pc = c]]
    BY <1>1 DEF TypeOK, reconcileAgentVersion, Go
<1>3. con'[p] = [con[p] EXCEPT !.pc = c]
    BY <1>2 DEF TypeOK
<1>4. Becomes(p, c, con[p].i, con[p].list, con[p].bad)
    BY <1>3, ConsoleFacts DEF Console, Becomes
<1> QED
    BY <1>1, <1>4

(* The steps of a self-update that goes forward.                           *)
LEMMA EffForward ==
    ASSUME TypeOK, NEW p \in Consoles,
           \/ \E v \in Versions : selfupdateRun(p, v)
           \/ Downloaded(p) \/ CheckHealth(p) \/ Replace(p)
           \/ Returned(p) /\ con[p].pc = "await"
    PROVE  con'[p].pc \in {"locked", "agents", "upgrade", "await", "activate"}
<1>1. con[p] \in Console
    BY ConsoleFacts
<1>2. CASE \E v \in Versions : selfupdateRun(p, v)
    <2>1. PICK v : con' = [con EXCEPT ![p] = [con[p] EXCEPT !.pc = "locked", !.tag = v]]
        BY <1>2 DEF TypeOK, selfupdateRun
    <2>2. con'[p] = [con[p] EXCEPT !.pc = "locked", !.tag = v]
        BY <2>1 DEF TypeOK
    <2> QED
        BY <1>1, <2>2 DEF Console
<1>3. CASE Downloaded(p) \/ Replace(p)
    <2>1. PICK c \in {"agents", "activate"} : con' = [con EXCEPT ![p] = [con[p] EXCEPT !.pc = c]]
        BY <1>3 DEF TypeOK, Downloaded, Replace, Go
    <2>2. con'[p] = [con[p] EXCEPT !.pc = c]
        BY <2>1 DEF TypeOK
    <2> QED
        BY <1>1, <2>2 DEF Console
<1>4. CASE CheckHealth(p) /\ agent[Spoke(p)].run = con[p].tag
    <2>1. con[p].pc = "agents"
          /\ con' = [con EXCEPT ![p] = [con[p] EXCEPT !.list = @ \cup {Spoke(p)}, !.i = @ + 1]]
        BY <1>4 DEF TypeOK, CheckHealth
    <2>2. con'[p] = [con[p] EXCEPT !.list = @ \cup {Spoke(p)}, !.i = @ + 1]
        BY <2>1 DEF TypeOK
    <2> QED
        BY <1>1, <2>1, <2>2 DEF Console
<1>5. CASE CheckHealth(p) /\ agent[Spoke(p)].run # con[p].tag
    <2>1. con' = [con EXCEPT ![p] = [con[p] EXCEPT !.list = @ \cup {Spoke(p)}, !.pc = "upgrade"]]
        BY <1>5 DEF TypeOK, CheckHealth
    <2>2. con'[p] = [con[p] EXCEPT !.list = @ \cup {Spoke(p)}, !.pc = "upgrade"]
        BY <2>1 DEF TypeOK
    <2> QED
        BY <1>1, <2>2 DEF Console
<1>6. CASE Returned(p) /\ con[p].pc = "await"
    <2>1. con' = [con EXCEPT ![p] = [con[p] EXCEPT !.pc = "agents", !.i = @ + 1]]
        BY <1>6 DEF TypeOK, Returned, Advance
    <2>2. con'[p] = [con[p] EXCEPT !.pc = "agents", !.i = @ + 1]
        BY <2>1 DEF TypeOK
    <2> QED
        BY <1>1, <2>2 DEF Console
<1> QED
    BY <1>2, <1>3, <1>4, <1>5, <1>6

(* A self-update that fails restores from the first spoke on.              *)
LEMMA EffTurn ==
    ASSUME TypeOK, NEW p \in Consoles, CheckHealthFails(p) \/ ReturnTimesOut(p) \/ ReplaceFails(p)
    PROVE  con'[p].pc = "restore" /\ con'[p].i = 1
<1>1. con[p] \in Console
    BY ConsoleFacts
<1>2. PICK l : Restoring(p, l)
    BY DEF CheckHealthFails, ReturnTimesOut, ReplaceFails
<1>3. con' = [con EXCEPT ![p] = [con[p] EXCEPT !.pc = "restore", !.list = l, !.i = 1]]
    BY <1>2 DEF TypeOK, Restoring
<1>4. con'[p] = [con[p] EXCEPT !.pc = "restore", !.list = l, !.i = 1]
    BY <1>3 DEF TypeOK
<1> QED
    BY <1>1, <1>4 DEF Console

(* What a change of the core begins with.                                  *)
LEMMA EffChangeFleetCore ==
    ASSUME TypeOK, NEW p \in Consoles, p = Changer, NEW tag, ChangeFleetCore(tag)
    PROVE  /\ con'[p].pc = "preflight" /\ con'[p].i = con[p].i /\ con'[p].list = con[p].list
           /\ con'[p].alone = NoReplacement /\ con'[p].old[Hub] = core[Hub].bin
<1>1. con[p] \in Console /\ con[p].old \in [Hosts -> Cores \cup {None}] /\ Hub \in Hosts
    BY ConsoleFacts, Order
<1>2. con' = [con EXCEPT ![p] = [con[p] EXCEPT !.pc = "preflight", !.tag = tag,
                 !.old = [con[p].old EXCEPT ![Hub] = core[Hub].bin], !.alone = NoReplacement]]
    BY <1>1 DEF TypeOK, ChangeFleetCore, Console
<1>3. con'[p] = [con[p] EXCEPT !.pc = "preflight", !.tag = tag,
                 !.old = [con[p].old EXCEPT ![Hub] = core[Hub].bin], !.alone = NoReplacement]
    BY <1>2 DEF TypeOK
<1>4. con'[p].old = [con[p].old EXCEPT ![Hub] = core[Hub].bin]
    BY <1>1, <1>3 DEF Console
<1>5. con'[p].old[Hub] = core[Hub].bin
    BY <1>1, <1>4
<1> QED
    BY <1>1, <1>3, <1>5 DEF Console

(* Preflight records the version it finds on a spoke.                      *)
LEMMA EffInspected ==
    ASSUME TypeOK, NEW p \in Consoles, inspectFleetCore(p), ~(agent[Spoke(p)].run < con[p].tool)
    PROVE  /\ con'[p].pc = "preflight" /\ con'[p].i = con[p].i + 1 /\ con'[p].list = con[p].list
           /\ con'[p].alone = con[p].alone
           /\ con'[p].old = [con[p].old EXCEPT ![Spoke(p)] = core[Spoke(p)].bin]
<1>1. con[p] \in Console /\ con[p].old \in [Hosts -> Cores \cup {None}]
    BY ConsoleFacts, Order
<1>2. con' = [con EXCEPT ![p] = [con[p] EXCEPT
                 !.old = [con[p].old EXCEPT ![Spoke(p)] = core[Spoke(p)].bin], !.i = @ + 1]]
    BY <1>1 DEF TypeOK, inspectFleetCore, shouldReplaceAgentVersion, Console
<1>3. con'[p] = [con[p] EXCEPT
                 !.old = [con[p].old EXCEPT ![Spoke(p)] = core[Spoke(p)].bin], !.i = @ + 1]
    BY <1>2 DEF TypeOK
<1> QED
    BY <1>1, <1>3 DEF Console, inspectFleetCore, shouldReplaceAgentVersion

-----------------------------------------------------------------------------
(* The rounds.  While a console restores agents it has the lock, so no     *)
(* other one upgrades an agent that is already on the hub's version.       *)
LEMMA RoundOfOthers ==
    ASSUME IInv, TypeOK', RoundInv, NEW p \in Consoles, Frame(p), NEW q \in Consoles \ {p}
    PROVE  RestoreAt(q)' /\ RoundAt(q)'
<1> TypeOK /\ ConsoleInv /\ Settled
    BY Facts
<1>1. RestoreAt(q) /\ RoundAt(q) /\ SelfAt(q) /\ SpokeAt(q)
    BY Mine DEF RoundInv
<1>2. con'[q] = con[q] /\ Spoke(q)' = Spoke(q)
    BY DEF Frame, Changed, Spoke
<1>3. RoundAt(q)'
    BY <1>1, <1>2 DEF RoundAt
<1>4. ASSUME con[q].pc \in {"restore", "reawait"} PROVE RestoreAt(q)'
    <2>1. lock # p /\ hub = con[q].tool /\ hub \in Int
        BY <1>1, <1>4, StepNames, VersionFacts DEF SelfAt, TypeOK
    <2>2. \A s \in Spokes : agent[s].disk \in Int /\ agent'[s].disk \in Int
        <3>1. agent' \in [Spokes -> Agent]
            BY DEF TypeOK
        <3> QED
            BY <3>1, AgentFacts, VersionFacts DEF Agent
    <2>3. \A s \in Spokes : PutBack(s, con[q].tool) => PutBack(s, con[q].tool)'
        BY <1>2, <2>1, <2>2 DEF Frame, PutBack
    <2>4. \A j \in 1..con[q].i - 1 : SpokeOrder[j] \in Spokes
        BY ConsoleFacts, Order
    <2>5. con[q].pc = "reawait" => Spoke(q) \in Spokes
        BY <1>1, StepNames, ConsoleFacts DEF SpokeAt
    <2> QED
        BY <1>1, <1>2, <2>3, <2>4, <2>5 DEF RestoreAt, PutBack
<1>5. ASSUME con[q].pc \notin {"restore", "reawait"} PROVE RestoreAt(q)'
    BY <1>2, <1>5 DEF RestoreAt
<1> QED
    BY <1>3, <1>4, <1>5

(* A console that does not restore agents has only its round to keep.      *)
LEMMA RoundOfOwn ==
    ASSUME IInv, RoundInv, NEW p \in Consoles, SelfUpdate(p) \/ Launch(p) \/ Crash(p)
    PROVE  RestoreAt(p)' /\ RoundAt(p)'
<1> TypeOK /\ ConsoleInv
    BY Facts
<1>1. RestoreAt(p) /\ RoundAt(p) /\ SelfAt(p) /\ SpokeAt(p)
    BY Mine DEF RoundInv
<1>2. con[p].i \in Int /\ Len(SpokeOrder) \in Nat
    BY ConsoleFacts, Order
<1>3. CASE Launch(p) \/ Crash(p) \/ DownloadFails(p) \/ AfterReplace(p) \/ UpdateFailed(p)
    BY <1>3, EffEnd DEF RestoreAt, RoundAt
<1>4. CASE (\E v \in Versions : selfupdateRun(p, v)) \/ Downloaded(p) \/ CheckHealth(p) \/ Replace(p)
    BY <1>4, EffForward DEF RestoreAt, RoundAt
<1>5. CASE Returned(p)
    <2>1. CASE con[p].pc = "await"
        BY <1>5, <2>1, EffForward DEF RestoreAt, RoundAt
    <2>2. CASE con[p].pc = "reconcile"
        BY <1>1, <1>5, <2>2, EffReturned DEF RestoreAt, RoundAt, Becomes
    <2> QED
        BY <1>5, <2>1, <2>2 DEF Returned
<1>6. CASE CheckHealthFails(p) \/ ReturnTimesOut(p) \/ ReplaceFails(p)
    BY <1>6, EffTurn DEF RestoreAt, RoundAt
<1>7. CASE RestoreAgentVersion(p)
    <2>1. AtSpoke(p) /\ con[p].pc = "restore" /\ Upgraded(Spoke(p), con[p].tool, agent[Spoke(p)].late)
        BY <1>7 DEF RestoreAgentVersion
    <2>2. Upg(Spoke(p), con[p].tool, agent[Spoke(p)].late) /\ con[p].i \in 1..Len(SpokeOrder)
        BY <2>1, ConsoleFacts, AgentFacts, Upgrading
    <2>3. Becomes(p, "reawait", con[p].i, con[p].list, con[p].bad)
        BY <1>7, EffRestoreAgentVersion
    <2>4. Spoke(p)' = Spoke(p)
        BY <2>3 DEF Becomes, Spoke
    <2>5. \A j \in 1..con[p].i - 1 : SpokeOrder[j] \in Spokes
        BY ConsoleFacts, Order
    <2>6. \A s \in Spokes : PutBack(s, con[p].tool) => agent'[s].late \/ agent'[s].disk = con[p].tool
        BY <2>2 DEF Upg, PutBack
    <2>7. agent'[Spoke(p)].disk = con[p].tool
        BY <2>2 DEF Upg
    <2> QED
        BY <1>1, <2>1, <2>3, <2>4, <2>5, <2>6, <2>7 DEF RestoreAt, RoundAt, Becomes, PutBack
<1>8. CASE RestoreSkips(p)
    <2>1. /\ con[p].pc = "restore" /\ agent' = agent /\ Spoke(p) \notin con[p].list
          /\ Becomes(p, "restore", con[p].i + 1, con[p].list, con[p].bad)
        BY <1>8, EffRestoreSkips DEF RestoreSkips
    <2>2. \A j \in 1..con'[p].i - 1 : j \in 1..con[p].i - 1 \/ j = con[p].i
        BY <1>2, <2>1 DEF Becomes
    <2> QED
        BY <1>1, <2>1, <2>2 DEF RestoreAt, RoundAt, Becomes, Spoke, PutBack
<1>9. CASE Restored(p)
    <2>1. /\ con[p].pc = "reawait" /\ agent' = agent
          /\ Becomes(p, "restore", con[p].i + 1, con[p].list, con[p].bad)
        BY <1>9, EffRestored DEF Restored
    <2>2. \A j \in 1..con'[p].i - 1 : j \in 1..con[p].i - 1 \/ j = con[p].i
        BY <1>2, <2>1 DEF Becomes
    <2> QED
        BY <1>1, <2>1, <2>2 DEF RestoreAt, RoundAt, Becomes, Spoke, PutBack
<1>10. CASE RestoreFails(p)
    BY <1>10, EffRestoreFails DEF RestoreAt, RoundAt, Becomes
<1>11. CASE reconcileAgentVersion(p)
    <2>1. con[p].pc \in {"upgrade", "outdated"}
        BY <1>11 DEF reconcileAgentVersion
    <2>2. Becomes(p, IF con[p].pc = "upgrade" THEN "await" ELSE "reconcile", con[p].i, con[p].list, con[p].bad)
        BY <1>11, EffReconcile
    <2> QED
        BY <1>1, <2>1, <2>2 DEF RestoreAt, RoundAt, Becomes
<1> QED
    BY <1>3, <1>4, <1>5, <1>6, <1>7, <1>8, <1>9, <1>10, <1>11 DEF SelfUpdate

(* The round of a change of the core.                                      *)
LEMMA RoundOfChanger ==
    ASSUME IInv, RoundInv, NEW p \in Consoles, p = Changer,
           FleetCore(p) \/ \E c \in Cores : ChangeFleetCore(c)
    PROVE  RestoreAt(p)' /\ RoundAt(p)'
<1> TypeOK /\ ConsoleInv
    BY Facts
<1>1. RoundAt(p) /\ SpokeAt(p)
    BY Mine DEF RoundInv
<1>2. con[p].i \in Int /\ con[p].i \in 0..Len(SpokeOrder) + 1 /\ Len(SpokeOrder) \in Nat
    BY ConsoleFacts, Order
<1>3. AtSpoke(p) <=> con[p].i \in 1..Len(SpokeOrder)
    BY Order DEF AtSpoke
<1>4. CASE \E c \in Cores : ChangeFleetCore(c)
    BY <1>1, <1>4, EffChangeFleetCore DEF ChangeFleetCore, RestoreAt, RoundAt
<1>5. CASE inspectFleetCore(p)
    <2>1. con[p].pc = "preflight"
        BY <1>5 DEF inspectFleetCore, shouldReplaceAgentVersion
    <2>2. con'[p].pc \in {"preflight", "outdated", "reconcile"} /\ con'[p].list = con[p].list
        BY <1>5, EffInspect, EffInspected DEF Becomes
    <2> QED
        BY <1>1, <2>1, <2>2 DEF RestoreAt, RoundAt
<1>6. CASE PreflightFails(p) \/ CoreFinished(p)
    BY <1>6, EffEnd DEF RestoreAt, RoundAt
<1>7. CASE PreflightDone(p)
    BY <1>7, EffPreflightDone DEF RestoreAt, RoundAt, Becomes
<1>8. CASE PassOver(p)
    <2>1. con[p].i \in 1..Len(SpokeOrder) /\ con[p].pc \in {"stage", "undo"}
        BY <1>3, <1>8 DEF PassOver
    <2>2. \/ Becomes(p, "stage", con[p].i + 1, con[p].list, con[p].bad)
          \/ Becomes(p, "undo", con[p].i - 1, con[p].list, con[p].bad)
        BY <1>8, <2>1, EffPassOver
    <2> QED
        BY <1>2, <2>1, <2>2 DEF RestoreAt, RoundAt, Becomes
<1>9. CASE stageSpokeCore(p)
    <2>1. con[p].i \in 1..Len(SpokeOrder) /\ con[p].pc \in {"stage", "undo"}
        BY <1>3, <1>9 DEF stageSpokeCore
    <2>2. \/ Becomes(p, "request", con[p].i, con[p].list, con[p].bad)
          \/ Becomes(p, "undorequest", con[p].i, con[p].list, con[p].bad)
        BY <1>9, <2>1, EffStage
    <2> QED
        BY <1>2, <2>1, <2>2 DEF RestoreAt, RoundAt, Becomes
<1>10. CASE ChangeCore(p)
    <2>1. con[p].pc \in {"request", "undorequest"} /\ con[p].i \in 1..Len(SpokeOrder)
        BY <1>1, <1>3, <1>10, StepNames DEF ChangeCore, SpokeAt
    <2>2. con'[p].pc \in {"change", "undochange"} /\ con'[p].i = con[p].i
        BY <1>10, <2>1, EffChangeCore DEF Becomes
    <2> QED
        BY <1>2, <2>1, <2>2 DEF RestoreAt, RoundAt
<1>11. CASE SpokeCallFails(p)
    <2>1. con[p].pc \in {"stage", "undo", "request", "change", "undorequest", "undochange"}
        BY <1>11 DEF SpokeCallFails
    <2>2. con[p].i \in 1..Len(SpokeOrder)
        BY <1>1, <1>3, <1>11, StepNames DEF SpokeCallFails, SpokeAt
    <2>3. con'[p].pc = "undo" /\ con'[p].i \in {Len(SpokeOrder), con[p].i - 1}
        BY <1>11, <2>1, EffSpokeCallFails DEF Becomes
    <2> QED
        BY <1>2, <2>2, <2>3 DEF RestoreAt, RoundAt
<1>12. CASE SpokeAnswers(p)
    <2>1. con[p].pc \in {"change", "undochange"} /\ con[p].i \in 1..Len(SpokeOrder)
        BY <1>1, <1>3, <1>12, StepNames DEF SpokeAnswers, SpokeAt
    <2>2. \/ con'[p].pc = "stage" /\ con'[p].i = con[p].i + 1
          \/ con'[p].pc = "undo" /\ con'[p].i \in {Len(SpokeOrder), con[p].i - 1}
        BY <1>12, <2>1, EffSpokeAnswers DEF Becomes
    <2> QED
        BY <1>2, <2>1, <2>2 DEF RestoreAt, RoundAt
<1>13. CASE ChangeLocalCore(p)
    <2>1. con[p].pc = "stage" /\ con[p].i = Len(SpokeOrder) + 1
        BY <1>1, <1>2, <1>3, <1>13 DEF ChangeLocalCore, RoundAt
    <2>2. \/ con'[p].pc \in {"hub", "hubchange"} /\ con'[p].i = con[p].i
          \/ con'[p].pc = "undohub" /\ con'[p].i = Len(SpokeOrder)
        BY <1>13, EffChangeLocalCore DEF Becomes
    <2> QED
        BY <1>2, <2>1, <2>2 DEF RestoreAt, RoundAt
<1>14. CASE HubChanged(p)
    <2>1. con[p].pc \in {"hubchange", "undohubwait"}
        BY <1>14 DEF HubChanged
    <2>2. \/ con[p].pc = "hubchange" /\ con'[p].pc = "hub" /\ con'[p].i = con[p].i
          \/ con'[p].pc \in {"undohub", "undo"} /\ con'[p].i = Len(SpokeOrder)
        BY <1>14, <2>1, EffHubChanged DEF Becomes
    <2> QED
        BY <1>1, <1>2, <2>1, <2>2 DEF RestoreAt, RoundAt
<1>15. CASE UndoHub(p)
    <2>1. con[p].pc = "undohub"
        BY <1>15 DEF UndoHub
    <2>2. con'[p].pc \in {"undo", "undohubwait"} /\ con'[p].i = con[p].i
        BY <1>15, EffUndoHub DEF Becomes
    <2> QED
        BY <1>1, <2>1, <2>2 DEF RestoreAt, RoundAt
<1> QED
    BY <1>4, <1>5, <1>6, <1>7, <1>8, <1>9, <1>10, <1>11, <1>12, <1>13, <1>14, <1>15 DEF FleetCore

-----------------------------------------------------------------------------
(* The change of the core.                                                 *)
CoreOut == FoundAt /\ ChangingAt /\ UndoingAt

\* The registry names a spoke once, and the hub is none of them.
LEMMA OrderOnce ==
    /\ \A i, j \in 1..Len(SpokeOrder) : SpokeOrder[i] = SpokeOrder[j] => i = j
    /\ \A j \in 1..Len(SpokeOrder) : SpokeOrder[j] \in Hosts /\ SpokeOrder[j] # Hub
    BY Order, HostsAssumption DEF IsInjective

(* No step outside a change of the core disturbs it.                       *)
LEMMA CoreOutFramed ==
    ASSUME CoreOut, con'[Changer] = con[Changer], core' = core, job' = job
    PROVE  CoreOut'
<1>1. FoundAt'
    BY DEF CoreOut, FoundAt, Verified
<1>2. ChangingAt'
    BY DEF CoreOut, ChangingAt, Verified, Steady, Spoke, HubAt
<1>3. UndoingAt'
    BY DEF CoreOut, UndoingAt, Verified, Steady
<1> QED
    BY <1>1, <1>2, <1>3 DEF CoreOut

\* A console that does not change the core has nothing to keep.
LEMMA CoreOutOver ==
    ASSUME con'[Changer].pc \notin CoreSteps
    PROVE  CoreOut'
    BY StepNames DEF CoreOut, FoundAt, ChangingAt, UndoingAt

(* A step on one host that a replacement runs on.                          *)
Elsewhere(h) == \A g \in Hosts \ {h} : core'[g] = core[g] /\ job'[g] = job[g]

(* Hosts are changed by replacements only, and none runs where a host is    *)
(* said to be as it was, or as it shall be.                                *)
LEMMA CoreOutElsewhere ==
    ASSUME TypeOK, CoreOut, NEW h \in Hosts, con' = con, job[h].step # "idle", Elsewhere(h),
           h = Hub => job'[Hub].tag = job[Hub].tag /\ (HubAt => HubAt')
    PROVE  CoreOut'
<1>1. \A g \in Hosts : job[g].step = "idle" => core'[g] = core[g] /\ job'[g] = job[g]
    BY DEF Elsewhere
<1>2. h # Hub => core'[Hub] = core[Hub] /\ job'[Hub] = job[Hub]
    BY Order DEF Elsewhere
<1>3. HubAt => HubAt'
    BY <1>2 DEF HubAt, Verified
<1>4. job'[Hub].tag = job[Hub].tag
    BY <1>2
<1>5. \A j \in 1..Len(SpokeOrder) : SpokeOrder[j] \in Hosts
    BY Order
<1>6. Hub \in Hosts
    BY Order
<1>7. FoundAt'
    BY DEF CoreOut, FoundAt
<1>8. ChangingAt'
    BY <1>1, <1>3, <1>5, <1>6 DEF CoreOut, ChangingAt, Steady, Verified, Spoke
<1>9. UndoingAt'
    BY <1>1, <1>4, <1>5, <1>6 DEF CoreOut, UndoingAt, Steady, Verified
<1> QED
    BY <1>7, <1>8, <1>9 DEF CoreOut

\* Step keeps the tag of the replacement.
LEMMA SteppingTag ==
    ASSUME TypeOK, NEW h \in Hosts, NEW s, Step(h, s)
    PROVE  /\ job'[h].tag = job[h].tag /\ job'[h].step = s
           /\ \A g \in Hosts \ {h} : job'[g] = job[g]
<1>1. job[h] \in Job
    BY DEF TypeOK
<1>2. job' = [job EXCEPT ![h] = [job[h] EXCEPT !.step = s]]
    BY DEF Step, TypeOK
<1>3. job'[h] = [job[h] EXCEPT !.step = s] /\ \A g \in Hosts \ {h} : job'[g] = job[g]
    BY <1>2 DEF TypeOK
<1> QED
    BY <1>1, <1>3 DEF Job

(* What a step of a replacement on the hub does to its state there.        *)
HubSteps(s, b, v, k) ==
    /\ con' = con /\ job'[Hub].tag = job[Hub].tag /\ job'[Hub].step = s
    /\ core'[Hub].bin = b /\ core'[Hub].svc = v /\ core'[Hub].backup = k

(* Each step of the hub's replacement keeps the way back to the version it *)
(* was found on (core.replaceWithTag, rollbackReplacement).                *)
LEMMA HubReplacing ==
    ASSUME TypeOK, Replacing(Hub), HubAt
    PROVE  HubAt'
<1> DEFINE b == core[Hub].bin  v == core[Hub].svc  k == core[Hub].backup  t == job[Hub].tag
<1>1. Hub \in Hosts /\ b \in Cores /\ k \in Cores \cup {None} /\ t \in Cores /\ con' = con
    BY Order, CoreFacts DEF TypeOK, Job, Replacing, CheckCore, BackUp, Stop, Swap, Restart, CleanUp,
       rollbackReplacement, UnchangedButCore
<1>2. \A s : Step(Hub, s) => job'[Hub].tag = job[Hub].tag /\ job'[Hub].step = s
    BY <1>1, SteppingTag
<1>3. CASE CheckCore(Hub)
    <2>1. \E s \in {"backup", "failed"} : HubSteps(s, b, v, k)
        BY <1>1, <1>2, <1>3 DEF CheckCore, HubSteps
    <2> QED
        BY <1>3, <2>1 DEF HubAt, HubSteps, CheckCore, Verified
<1>4. CASE BackUp(Hub)
    <2>1. HubSteps("stop", b, v, b) \/ HubSteps("failed", b, v, k)
        BY <1>1, <1>2, <1>4, Coring DEF BackUp, HubSteps, Cored
    <2> QED
        BY <1>4, <2>1 DEF HubAt, HubSteps, BackUp, Verified
<1>5. CASE Stop(Hub)
    <2>1. \E s \in {"swap", "rollback"}, w \in {v, "down"} : HubSteps(s, b, w, k)
        BY <1>1, <1>2, <1>5, Coring DEF Stop, HubSteps, Cored
    <2> QED
        BY <1>5, <2>1 DEF HubAt, HubSteps, Stop, Verified
<1>6. CASE Swap(Hub)
    <2>1. CASE Step(Hub, "restart") /\ core' = [core EXCEPT ![Hub].bin = job[Hub].tag]
        <3>1. Cored(Hub, job[Hub].tag, core[Hub].svc, core[Hub].backup, core[Hub].good)
            BY <1>1, <2>1, Coring
        <3>2. HubSteps("restart", t, v, k)
            BY <1>1, <1>2, <2>1, <3>1 DEF HubSteps, Cored
        <3> QED
            BY <1>6, <3>2 DEF HubAt, HubSteps, Swap, Verified
    <2>2. CASE Step(Hub, "rollback") /\ core' = core
        <3>1. HubSteps("rollback", b, v, k)
            BY <1>1, <1>2, <2>2 DEF HubSteps
        <3> QED
            BY <1>6, <3>1 DEF HubAt, HubSteps, Swap, Verified
    <2> QED
        BY <1>6, <2>1, <2>2 DEF Swap
<1>7. CASE Restart(Hub)
    <2>1. HubSteps("clean", b, "up", k) \/ HubSteps("rollback", b, v, k)
        <3>1. CASE /\ Step(Hub, "clean")
                   /\ core' = [core EXCEPT ![Hub] = [@ EXCEPT !.svc = "up", !.good = core[Hub].bin]]
            <4>1. Cored(Hub, b, "up", k, b)
                BY <1>1, <3>1, Coring
            <4> QED
                BY <1>1, <1>2, <3>1, <4>1 DEF HubSteps, Cored
        <3>2. CASE Step(Hub, "rollback") /\ core' = core
            BY <1>1, <1>2, <3>2 DEF HubSteps
        <3> QED
            BY <1>7, <3>1, <3>2 DEF Restart
    <2> QED
        BY <1>7, <2>1 DEF HubAt, HubSteps, Restart, Verified
<1>8. CASE CleanUp(Hub)
    <2>1. \E s \in {"ok", "failed"}, l \in {k, None} : HubSteps(s, b, v, l)
        BY <1>1, <1>2, <1>8, Coring DEF CleanUp, HubSteps, Cored
    <2> QED
        BY <1>8, <2>1 DEF HubAt, HubSteps, CleanUp, Verified
<1>9. CASE rollbackReplacement(Hub)
    <2>1. k = con[Changer].old[Hub] /\ job[Hub].step = "rollback"
        BY <1>9 DEF HubAt, rollbackReplacement
    <2>2. CASE Step(Hub, "dirty")
        BY <1>1, <1>2, <2>2 DEF HubAt
    <2>3. CASE Step(Hub, "failed") /\ core' = [core EXCEPT ![Hub] = [@ EXCEPT !.bin = core[Hub].backup, !.svc = "up",
                     !.backup = None, !.good = core[Hub].backup]]
        <3>1. core'[Hub] = [core[Hub] EXCEPT !.bin = core[Hub].backup, !.svc = "up",
                     !.backup = None, !.good = core[Hub].backup]
            BY <1>1, <2>3 DEF TypeOK
        <3>2. core'[Hub].bin = k /\ core'[Hub].svc = "up"
            BY <1>1, <3>1, CoreFacts DEF Core
        <3> QED
            BY <1>1, <1>2, <2>1, <2>3, <3>2 DEF HubAt, Verified
    <2> QED
        BY <1>9, <2>2, <2>3 DEF rollbackReplacement
<1> QED
    BY <1>3, <1>4, <1>5, <1>6, <1>7, <1>8, <1>9 DEF Replacing

\* A step of a replacement, on any host.
LEMMA CoreOutReplacing ==
    ASSUME TypeOK, CoreOut, NEW h \in Hosts, Replacing(h)
    PROVE  CoreOut'
<1>1. con' = con /\ job[h].step # "idle"
    BY DEF Replacing, CheckCore, BackUp, Stop, Swap, Restart, CleanUp, rollbackReplacement, UnchangedButCore
<1>2. \E s : Step(h, s)
    BY DEF Replacing, CheckCore, BackUp, Stop, Swap, Restart, CleanUp, rollbackReplacement
<1>3. job'[h].tag = job[h].tag /\ \A g \in Hosts \ {h} : job'[g] = job[g]
    BY <1>2, SteppingTag
<1>4. \A g \in Hosts \ {h} : core'[g] = core[g]
    BY DEF TypeOK, Replacing, CheckCore, BackUp, Stop, Swap, Restart, CleanUp, rollbackReplacement
<1>5. h = Hub => (HubAt => HubAt')
    BY HubReplacing
<1> QED
    BY <1>1, <1>3, <1>4, <1>5, CoreOutElsewhere DEF Elsewhere

\* The death of an agent, and the end of a handler nobody waits for.
LEMMA CoreOutAgent ==
    ASSUME TypeOK, CoreOut, NEW s \in Spokes, AgentDies(s) \/ Unread(s)
    PROVE  CoreOut'
<1>1. s \in Hosts /\ s # Hub
    BY Order, HostsAssumption
<1>2. con' = con /\ core' = core /\ job[s].step # "idle"
    BY StepNames DEF AgentDies, Unread
<1>3. \A g \in Hosts \ {s} : job'[g] = job[g]
    BY <1>1 DEF TypeOK, AgentDies, Unread
<1> QED
    BY <1>1, <1>2, <1>3, CoreOutElsewhere DEF Elsewhere

(* An operator's service action: the change goes on alone only when the    *)
(* hub's service was started.                                              *)
LEMMA CoreOutService ==
    ASSUME TypeOK, CoreOut, NEW p \in Consoles, NEW up \in BOOLEAN, serviceAction(p, up)
    PROVE  CoreOut'
<1>1. con[Changer] \in Console /\ Changer \in Consoles /\ Hub \in Hosts
    BY ConsolesAssumption, ConsoleFacts, Order
<1> DEFINE b == IF con[Changer].pc = "menu" THEN TRUE ELSE up /\ con[Changer].alone
<1>2. con' = [con EXCEPT ![Changer] = [con[Changer] EXCEPT !.alone = b]]
    BY DEF TypeOK, serviceAction
<1>3. con'[Changer] = [con[Changer] EXCEPT !.alone = b]
    BY <1>1, <1>2 DEF TypeOK
<1>4. /\ con'[Changer].pc = con[Changer].pc /\ con'[Changer].i = con[Changer].i
      /\ con'[Changer].list = con[Changer].list /\ con'[Changer].bad = con[Changer].bad
      /\ con'[Changer].tag = con[Changer].tag /\ con'[Changer].old = con[Changer].old
      /\ con'[Changer].alone = b
    BY <1>1, <1>3 DEF Console
<1>5. job' = job /\ \A g \in Hosts \ {Hub} : core'[g] = core[g]
    BY DEF TypeOK, serviceAction
<1>6. CASE con[Changer].pc = "menu" \/ ~up
    BY <1>4, <1>6, CoreOutOver, StepNames DEF CoreOut, FoundAt, ChangingAt, UndoingAt
<1>7. CASE con[Changer].pc # "menu" /\ up
    <2>1. core' = [core EXCEPT ![Hub].svc = "up"]
        BY <1>7 DEF serviceAction
    <2>2. core'[Hub].bin = core[Hub].bin /\ core'[Hub].svc = "up" /\ core'[Hub].backup = core[Hub].backup
        BY <1>1, <2>1, Coring DEF Cored
    <2>3. \A g \in Hosts : core'[g].bin = core[g].bin /\ core'[g].backup = core[g].backup
                           /\ (core[g].svc = "up" => core'[g].svc = "up")
        BY <1>5, <2>2
    <2>4. con'[Changer].alone => con[Changer].alone
        BY <1>4, <1>7
    <2>5. \A j \in 1..Len(SpokeOrder) : SpokeOrder[j] \in Hosts
        BY Order
    <2>6. con[Changer].i \in 0..Len(SpokeOrder) + 1 /\ Len(SpokeOrder) \in Nat
        BY ConsoleFacts, ConsolesAssumption, Order
    <2>7. FoundAt'
        <3>1. \A j \in 1..con[Changer].i - 1 : SpokeOrder[j] \in Hosts
            BY <2>5, <2>6
        <3> QED
            BY <1>1, <1>4, <1>5, <2>3, <2>4, <3>1 DEF CoreOut, FoundAt, Verified
    <2>8. HubAt => HubAt'
        BY <1>4, <1>5, <2>2 DEF HubAt, Verified
    <2>9. ChangingAt'
        <3>1. \A g \in Hosts : \A w : Steady(g, w) => job'[g].step = "idle" /\ core'[g].bin = w /\ core'[g].svc = "up"
            BY <1>5, <2>3 DEF Steady, Verified
        <3>2. Steady(Hub, con[Changer].old[Hub]) => Steady(Hub, con[Changer].old[Hub])'
            BY <1>1, <1>4, <3>1 DEF Steady, Verified
        <3>3. Steady(Hub, con[Changer].tag) => Steady(Hub, con[Changer].tag)'
            BY <1>1, <1>4, <3>1 DEF Steady, Verified
        <3>4. ASSUME NEW j \in 1..Len(SpokeOrder)
              PROVE  /\ Steady(SpokeOrder[j], con[Changer].tag) => Steady(SpokeOrder[j], con[Changer].tag)'
                     /\ Steady(SpokeOrder[j], con[Changer].old[SpokeOrder[j]]) =>
                            Steady(SpokeOrder[j], con[Changer].old[SpokeOrder[j]])'
            BY <1>4, <2>5, <3>1 DEF Steady, Verified
        <3> QED
            BY <1>4, <2>4, <2>8, <3>2, <3>3, <3>4 DEF CoreOut, ChangingAt, Spoke
    <2>10. UndoingAt'
        BY <1>1, <1>4, <1>5, <2>2, <2>3, <2>4, <2>5 DEF CoreOut, UndoingAt, Steady, Verified
    <2> QED
        BY <2>7, <2>9, <2>10 DEF CoreOut
<1> QED
    BY <1>6, <1>7

-----------------------------------------------------------------------------
(* The Changer's own steps.                                                *)

\* The Changer, its place and its spoke.
LEMMA ChangerFacts ==
    ASSUME TypeOK
    PROVE  /\ Changer \in Consoles
           /\ con[Changer].i \in Int /\ con[Changer].i \in 0..Len(SpokeOrder) + 1
           /\ Len(SpokeOrder) \in Nat
           /\ AtSpoke(Changer) <=> con[Changer].i \in 1..Len(SpokeOrder)
           /\ con[Changer].alone \in BOOLEAN /\ con[Changer].bad \in BOOLEAN
           /\ Hub \in Hosts
    BY ConsolesAssumption, ConsoleFacts, Order DEF AtSpoke

\* ChangeFleetCore finds the hub up and no replacement running.
LEMMA CoreOutBegins ==
    ASSUME IInv, NEW tag, ChangeFleetCore(tag)
    PROVE  CoreOut'
<1> TypeOK /\ ConsoleInv
    BY Facts
<1>1. Changer \in Consoles /\ SpokeAt(Changer)
    BY ConsolesAssumption, Mine
<1>2. con[Changer].pc = "menu" /\ con[Changer].i = 1 /\ core' = core /\ job' = job /\ core[Hub].svc = "up"
    BY <1>1 DEF ChangeFleetCore, SpokeAt
<1>3. /\ con'[Changer].pc = "preflight" /\ con'[Changer].i = 1
      /\ con'[Changer].alone = NoReplacement /\ con'[Changer].old[Hub] = core[Hub].bin
    BY <1>1, <1>2, EffChangeFleetCore
<1> QED
    BY <1>2, <1>3 DEF CoreOut, FoundAt, ChangingAt, UndoingAt, NoReplacement, Verified

\* inspectFleetCore records the version of a spoke that is up.
LEMMA CoreOutInspects ==
    ASSUME IInv, CoreOut, inspectFleetCore(Changer)
    PROVE  CoreOut'
<1> TypeOK /\ ConsoleInv
    BY Facts
<1>1. Changer \in Consoles /\ con[Changer].i \in Int /\ con[Changer].i \in 1..Len(SpokeOrder)
      /\ con[Changer].pc = "preflight" /\ core' = core /\ job' = job /\ FoundAt
    BY ChangerFacts DEF inspectFleetCore, shouldReplaceAgentVersion, CoreOut
<1>2. CASE agent[Spoke(Changer)].run < con[Changer].tool
    <2>1. Becomes(Changer, "outdated", con[Changer].i, con[Changer].list, con[Changer].bad)
        BY <1>1, <1>2, EffInspect
    <2> QED
        BY <1>1, <2>1 DEF CoreOut, FoundAt, ChangingAt, UndoingAt, Becomes, Verified
<1>3. CASE ~(agent[Spoke(Changer)].run < con[Changer].tool)
    <2>1. /\ con'[Changer].pc = "preflight" /\ con'[Changer].i = con[Changer].i + 1
          /\ con'[Changer].alone = con[Changer].alone
          /\ con'[Changer].old = [con[Changer].old EXCEPT ![Spoke(Changer)] = core[Spoke(Changer)].bin]
        BY <1>1, <1>3, EffInspected
    <2>2. core[Spoke(Changer)].svc = "up"
        BY <1>3 DEF inspectFleetCore, shouldReplaceAgentVersion
    <2>3. con[Changer].old \in [Hosts -> Cores \cup {None}] /\ Spoke(Changer) \in Hosts
          /\ Spoke(Changer) # Hub /\ Hub \in Hosts
        BY <1>1, ConsoleFacts, OrderOnce, Order DEF Spoke
    <2>4. /\ con'[Changer].old[Spoke(Changer)] = core[Spoke(Changer)].bin
          /\ \A h \in Hosts : h # Spoke(Changer) => con'[Changer].old[h] = con[Changer].old[h]
        BY <2>1, <2>3
    <2>5. \A j \in 1..con[Changer].i - 1 : SpokeOrder[j] \in Hosts /\ SpokeOrder[j] # Spoke(Changer)
        BY <1>1, OrderOnce DEF Spoke
    <2>6. \A j \in 1..con'[Changer].i - 1 : j \in 1..con[Changer].i - 1 \/ j = con[Changer].i
        BY <1>1, <2>1
    <2>7. FoundAt'
        BY <1>1, <2>1, <2>2, <2>3, <2>4, <2>5, <2>6 DEF FoundAt, Verified, Spoke
    <2> QED
        BY <2>1, <2>7 DEF CoreOut, ChangingAt, UndoingAt
<1> QED
    BY <1>2, <1>3

\* An agent that is back, and the end of preflight.
LEMMA CoreOutPreflight ==
    ASSUME IInv, CoreOut, PreflightDone(Changer) \/ (Returned(Changer) /\ con[Changer].pc = "reconcile")
    PROVE  CoreOut'
<1> TypeOK /\ ConsoleInv
    BY Facts
<1>1. Changer \in Consoles /\ con[Changer].i \in Int /\ SpokeAt(Changer)
    BY ChangerFacts, Mine
<1>2. core' = core /\ job' = job /\ FoundAt
    BY DEF PreflightDone, Returned, CoreOut
<1>3. CASE Returned(Changer) /\ con[Changer].pc = "reconcile"
    <2>1. Becomes(Changer, "preflight", con[Changer].i, con[Changer].list, con[Changer].bad)
        BY <1>1, <1>3, EffReturned
    <2> QED
        BY <1>2, <1>3, <2>1 DEF CoreOut, FoundAt, ChangingAt, UndoingAt, Becomes, Verified
<1>4. CASE PreflightDone(Changer)
    <2>1. Becomes(Changer, "stage", 1, con[Changer].list, con[Changer].bad) /\ con[Changer].pc = "preflight"
        BY <1>1, <1>4, EffPreflightDone DEF PreflightDone
    <2>2. con[Changer].i = Len(SpokeOrder) + 1
        BY <1>1, <1>4, <2>1, ChangerFacts DEF PreflightDone, SpokeAt
    <2>3. \A j \in 1..Len(SpokeOrder) : j \in 1..con[Changer].i - 1 /\ SpokeOrder[j] \in Hosts
        BY <2>2, Order
    <2>4. ChangingAt'
        BY <1>2, <2>1, <2>3, Order DEF FoundAt, ChangingAt, Becomes, Steady, Verified
    <2> QED
        BY <2>1, <2>4 DEF CoreOut, FoundAt, UndoingAt, Becomes
<1> QED
    BY <1>3, <1>4

\* A spoke on the wanted version is passed over, on either way.
LEMMA CoreOutPasses ==
    ASSUME IInv, CoreOut, PassOver(Changer)
    PROVE  CoreOut'
<1> TypeOK
    BY Facts
<1>1. Changer \in Consoles /\ con[Changer].i \in Int /\ con[Changer].i \in 1..Len(SpokeOrder)
      /\ core' = core /\ job' = job /\ ChangingAt /\ UndoingAt
    BY ChangerFacts DEF PassOver, CoreOut
<1>2. CASE con[Changer].pc = "stage"
    <2>1. Becomes(Changer, "stage", con[Changer].i + 1, con[Changer].list, con[Changer].bad)
        BY <1>1, <1>2, EffPassOver
    <2>2. con[Changer].old[SpokeOrder[con[Changer].i]] = con[Changer].tag
        BY <1>2 DEF PassOver, Passed, Spoke
    <2>3. ChangingAt'
        <3>1. \A j \in 1..Len(SpokeOrder) : (j < con[Changer].i + 1 => j < con[Changer].i \/ j = con[Changer].i)
                 /\ (j > con[Changer].i + 1 \/ j = con[Changer].i + 1 => j > con[Changer].i)
            BY <1>1
        <3> QED
            BY <1>1, <1>2, <2>1, <2>2, <3>1 DEF ChangingAt, Becomes, Steady, Verified
    <2> QED
        BY <2>1, <2>3 DEF CoreOut, FoundAt, UndoingAt, Becomes
<1>3. CASE con[Changer].pc = "undo"
    <2>1. Becomes(Changer, "undo", con[Changer].i - 1, con[Changer].list, con[Changer].bad)
        BY <1>1, <1>3, EffPassOver
    <2>2. SpokeOrder[con[Changer].i] \notin con[Changer].list
        BY <1>3 DEF PassOver, Passed, Spoke
    <2>3. \A j \in 1..Len(SpokeOrder) : j > con[Changer].i - 1 => j > con[Changer].i \/ j = con[Changer].i
        BY <1>1
    <2>4. UndoingAt'
        BY <1>1, <1>3, <2>1, <2>2, <2>3 DEF UndoingAt, Becomes, Steady, Verified
    <2> QED
        BY <2>1, <2>4 DEF CoreOut, FoundAt, ChangingAt, Becomes
<1> QED
    BY <1>2, <1>3 DEF PassOver

\* Staging changes no host, on either way.
LEMMA CoreOutStages ==
    ASSUME IInv, CoreOut, stageSpokeCore(Changer)
    PROVE  CoreOut'
<1> TypeOK
    BY Facts
<1>1. Changer \in Consoles /\ core' = core /\ job' = job /\ ChangingAt /\ UndoingAt
    BY ChangerFacts DEF stageSpokeCore, CoreOut
<1>2. CASE con[Changer].pc = "stage"
    <2>1. Becomes(Changer, "request", con[Changer].i, con[Changer].list, con[Changer].bad)
        BY <1>1, <1>2, EffStage
    <2>2. ChangingAt'
        BY <1>1, <1>2, <2>1 DEF ChangingAt, Becomes, Steady, Verified
    <2> QED
        BY <2>1, <2>2 DEF CoreOut, FoundAt, UndoingAt, Becomes
<1>3. CASE con[Changer].pc = "undo"
    <2>1. Becomes(Changer, "undorequest", con[Changer].i, con[Changer].list, con[Changer].bad)
        BY <1>1, <1>3, EffStage
    <2>2. UndoingAt'
        BY <1>1, <1>3, <2>1 DEF UndoingAt, Becomes, Steady, Verified
    <2> QED
        BY <2>1, <2>2 DEF CoreOut, FoundAt, ChangingAt, Becomes
<1> QED
    BY <1>2, <1>3 DEF stageSpokeCore

(* Setting the job of one spoke leaves the other hosts alone.              *)
LEMMA OtherSpokes ==
    ASSUME NEW i \in 1..Len(SpokeOrder), NEW n, JobSet(SpokeOrder[i], n)
    PROVE  /\ \A j \in 1..Len(SpokeOrder) : j # i => job'[SpokeOrder[j]] = job[SpokeOrder[j]]
           /\ job'[Hub] = job[Hub] /\ job'[SpokeOrder[i]] = n
    BY OrderOnce, Order DEF JobSet

\* A request is recorded before the host changes, on either way.
LEMMA CoreOutRequests ==
    ASSUME IInv, CoreOut, ChangeCore(Changer)
    PROVE  CoreOut'
<1> TypeOK /\ ConsoleInv
    BY Facts
<1>1. Changer \in Consoles /\ con[Changer].i \in Int /\ con[Changer].i \in 1..Len(SpokeOrder)
      /\ core' = core /\ ChangingAt /\ UndoingAt /\ CoreAt(Changer)
    BY ChangerFacts, Mine, StepNames DEF ChangeCore, CoreOut, SpokeAt
<1>2. Spoke(Changer) = SpokeOrder[con[Changer].i] /\ Spoke(Changer) \in Hosts
    BY <1>1, Order DEF Spoke
<1>3. Wanted(Changer) \in Cores
    BY <1>1, <1>2, StepNames DEF ChangeCore, Wanted, CoreAt
<1>4. JobSet(SpokeOrder[con[Changer].i], [step |-> "check", tag |-> Wanted(Changer)])
    BY <1>2, <1>3, JobTypes, SettingJob DEF ChangeCore
<1>5. /\ \A j \in 1..Len(SpokeOrder) : j # con[Changer].i => job'[SpokeOrder[j]] = job[SpokeOrder[j]]
      /\ job'[Hub] = job[Hub]
    BY <1>1, <1>4, OtherSpokes
<1>6. CASE con[Changer].pc = "request"
    <2>1. Becomes(Changer, "change", con[Changer].i, con[Changer].list \cup {Spoke(Changer)}, con[Changer].bad)
        BY <1>1, <1>6, EffChangeCore
    <2>2. \A j \in 1..Len(SpokeOrder) : j < con[Changer].i \/ j > con[Changer].i => j # con[Changer].i
        BY <1>1
    <2>3. Spoke(Changer)' = Spoke(Changer)
        BY <2>1 DEF Becomes, Spoke
    <2>4. ChangingAt'
        BY <1>1, <1>5, <1>6, <2>1, <2>2, <2>3 DEF ChangingAt, Becomes, Steady, Verified
    <2> QED
        BY <2>1, <2>4 DEF CoreOut, FoundAt, UndoingAt, Becomes
<1>7. CASE con[Changer].pc = "undorequest"
    <2>1. Becomes(Changer, "undochange", con[Changer].i, con[Changer].list \cup {Spoke(Changer)}, con[Changer].bad)
        BY <1>1, <1>7, EffChangeCore
    <2>2. \A j \in 1..Len(SpokeOrder) :
             SpokeOrder[j] \notin con'[Changer].list \/ j > con[Changer].i =>
                 j # con[Changer].i /\ (SpokeOrder[j] \notin con[Changer].list \/ j > con[Changer].i)
        BY <1>1, <1>2, <2>1 DEF Becomes
    <2>3. UndoingAt'
        BY <1>1, <1>5, <1>7, <2>1, <2>2 DEF UndoingAt, Becomes, Steady, Verified
    <2> QED
        BY <2>1, <2>3 DEF CoreOut, FoundAt, ChangingAt, Becomes
<1> QED
    BY <1>6, <1>7 DEF ChangeCore

(* The change turns back before the hub: every spoke that is not recorded  *)
(* is as it was found.                                                     *)
LEMMA Unrecorded ==
    ASSUME TypeOK, ChangingAt, con[Changer].alone,
           con[Changer].pc \in {"stage", "request", "change", "hubchange"}, NEW j \in 1..Len(SpokeOrder),
           SpokeOrder[j] \notin con[Changer].list
    PROVE  Steady(SpokeOrder[j], con[Changer].old[SpokeOrder[j]])
<1>1. con[Changer].i \in Int
    BY ChangerFacts
<1>2. CASE j < con[Changer].i
    BY <1>2 DEF ChangingAt
<1>3. CASE j > con[Changer].i
    BY <1>3 DEF ChangingAt
<1>4. CASE j = con[Changer].i
    BY <1>4 DEF ChangingAt, Spoke
<1> QED
    BY <1>1, <1>2, <1>3, <1>4

\* A call that fails turns the change back, or is an error of the rollback.
LEMMA CoreOutCallFails ==
    ASSUME IInv, CoreOut, SpokeCallFails(Changer)
    PROVE  CoreOut'
<1> TypeOK /\ ConsoleInv
    BY Facts
<1>1. Changer \in Consoles /\ core' = core /\ job' = job /\ ChangingAt
      /\ con[Changer].pc \in {"stage", "undo", "request", "change", "undorequest", "undochange"}
    BY ChangerFacts DEF SpokeCallFails, CoreOut
<1>2. CASE con[Changer].pc \in {"stage", "request", "change"}
    <2>1. PICK l : /\ Becomes(Changer, "undo", Len(SpokeOrder), l, con[Changer].bad)
                   /\ con[Changer].list \subseteq l
                   /\ con[Changer].pc # "stage" => Spoke(Changer) \in l
        <3>1. CASE con[Changer].pc = "stage"
            BY <1>1, <3>1, EffSpokeCallFails
        <3>2. CASE con[Changer].pc \in {"request", "change"}
            <4>1. Becomes(Changer, "undo", Len(SpokeOrder), con[Changer].list \cup {Spoke(Changer)}, con[Changer].bad)
                BY <1>1, <3>2, EffSpokeCallFails
            <4> QED
                BY <4>1
        <3> QED
            BY <1>2, <3>1, <3>2
    <2>2. ASSUME con[Changer].alone PROVE Steady(Hub, con[Changer].old[Hub])
        BY <1>1, <1>2, <2>2 DEF ChangingAt
    <2>3. ASSUME con[Changer].alone, NEW j \in 1..Len(SpokeOrder), SpokeOrder[j] \notin l
          PROVE  Steady(SpokeOrder[j], con[Changer].old[SpokeOrder[j]])
        BY <1>1, <1>2, <2>1, <2>3, Unrecorded
    <2>4. \A j \in 1..Len(SpokeOrder) : ~(j > Len(SpokeOrder))
        BY Order
    <2>5. UndoingAt'
        BY <1>1, <2>1, <2>2, <2>3, <2>4 DEF UndoingAt, Becomes, Steady, Verified
    <2> QED
        BY <2>1, <2>5 DEF CoreOut, FoundAt, ChangingAt, Becomes
<1>3. CASE con[Changer].pc \in {"undo", "undorequest", "undochange"}
    <2>1. Becomes(Changer, "undo", con[Changer].i - 1, con[Changer].list, TRUE)
        BY <1>1, <1>3, EffSpokeCallFails
    <2> QED
        BY <2>1 DEF CoreOut, FoundAt, ChangingAt, UndoingAt, Becomes
<1> QED
    BY <1>1, <1>2, <1>3

(* An answer is believed only when the version is verified.                *)
LEMMA CoreOutAnswers ==
    ASSUME IInv, CoreOut, SpokeAnswers(Changer)
    PROVE  CoreOut'
<1> TypeOK /\ ConsoleInv
    BY Facts
<1>1. Changer \in Consoles /\ con[Changer].i \in Int /\ con[Changer].i \in 1..Len(SpokeOrder)
      /\ con[Changer].pc \in {"change", "undochange"} /\ core' = core /\ ChangingAt /\ UndoingAt
    BY ChangerFacts, Mine, StepNames DEF SpokeAnswers, CoreOut, SpokeAt
<1>2. Spoke(Changer) = SpokeOrder[con[Changer].i] /\ Spoke(Changer) \in Hosts
    BY <1>1, Order DEF Spoke
<1>3. JobSet(SpokeOrder[con[Changer].i], NoJob)
    BY <1>2, JobTypes, SettingJob DEF SpokeAnswers
<1>4. /\ \A j \in 1..Len(SpokeOrder) : j # con[Changer].i => job'[SpokeOrder[j]] = job[SpokeOrder[j]]
      /\ job'[Hub] = job[Hub] /\ job'[SpokeOrder[con[Changer].i]].step = "idle"
    <2>1. NoJob.step = "idle"
        BY DEF NoJob
    <2>2. /\ \A j \in 1..Len(SpokeOrder) : j # con[Changer].i => job'[SpokeOrder[j]] = job[SpokeOrder[j]]
          /\ job'[Hub] = job[Hub] /\ job'[SpokeOrder[con[Changer].i]] = NoJob
        BY <1>1, <1>3, OtherSpokes
    <2> QED
        BY <2>1, <2>2
<1>5. \A j \in 1..Len(SpokeOrder) : \/ job'[SpokeOrder[j]].step = job[SpokeOrder[j]].step
                                    \/ job'[SpokeOrder[j]].step = "idle"
    BY <1>4
<1>6. CASE con[Changer].pc = "change" /\ Good(Changer)
    <2>1. Becomes(Changer, "stage", con[Changer].i + 1, con[Changer].list, con[Changer].bad)
        BY <1>1, <1>6, EffSpokeAnswers
    <2>2. Verified(SpokeOrder[con[Changer].i], con[Changer].tag)
        BY <1>2, <1>6 DEF Good, Wanted
    <2>3. con[Changer].alone => SpokeOrder[con[Changer].i] \in con[Changer].list
        BY <1>1, <1>2, <1>6 DEF ChangingAt
    <2>4. \A j \in 1..Len(SpokeOrder) :
             /\ j < con[Changer].i + 1 => j < con[Changer].i \/ j = con[Changer].i
             /\ j > con[Changer].i + 1 \/ j = con[Changer].i + 1 => j > con[Changer].i
        BY <1>1
    <2>5. ChangingAt'
        BY <1>1, <1>4, <1>5, <1>6, <2>1, <2>2, <2>3, <2>4 DEF ChangingAt, Becomes, Steady, Verified
    <2> QED
        BY <2>1, <2>5 DEF CoreOut, FoundAt, UndoingAt, Becomes
<1>7. CASE con[Changer].pc = "change" /\ ~Good(Changer)
    <2>1. Becomes(Changer, "undo", Len(SpokeOrder), con[Changer].list, con[Changer].bad)
        BY <1>1, <1>7, EffSpokeAnswers
    <2>2. ASSUME con[Changer].alone PROVE Steady(Hub, con[Changer].old[Hub])
        BY <1>1, <1>7, <2>2 DEF ChangingAt
    <2>3. ASSUME con[Changer].alone, NEW j \in 1..Len(SpokeOrder), SpokeOrder[j] \notin con[Changer].list
          PROVE  Steady(SpokeOrder[j], con[Changer].old[SpokeOrder[j]])
        BY <1>1, <1>7, <2>3, Unrecorded
    <2>4. \A j \in 1..Len(SpokeOrder) : ~(j > Len(SpokeOrder))
        BY Order
    <2>5. UndoingAt'
        BY <1>1, <1>4, <1>5, <2>1, <2>2, <2>3, <2>4 DEF UndoingAt, Becomes, Steady, Verified
    <2> QED
        BY <2>1, <2>5 DEF CoreOut, FoundAt, ChangingAt, Becomes
<1>8. CASE con[Changer].pc = "undochange"
    <2>1. Becomes(Changer, "undo", con[Changer].i - 1, con[Changer].list, con[Changer].bad \/ ~Good(Changer))
        BY <1>1, <1>8, EffSpokeAnswers
    <2>2. Good(Changer) => Verified(SpokeOrder[con[Changer].i], con[Changer].old[SpokeOrder[con[Changer].i]])
        BY <1>2, <1>8 DEF Good, Wanted
    <2>3. \A j \in 1..Len(SpokeOrder) : j > con[Changer].i - 1 => j > con[Changer].i \/ j = con[Changer].i
        BY <1>1
    <2>4. UndoingAt'
        BY <1>1, <1>4, <1>5, <1>8, <2>1, <2>2, <2>3 DEF UndoingAt, Becomes, Steady, Verified
    <2> QED
        BY <2>1, <2>4 DEF CoreOut, FoundAt, ChangingAt, Becomes
<1> QED
    BY <1>1, <1>6, <1>7, <1>8

\* Setting the job of the hub leaves the spokes alone.
LEMMA OnlyHub ==
    ASSUME NEW n, JobSet(Hub, n)
    PROVE  /\ \A j \in 1..Len(SpokeOrder) : job'[SpokeOrder[j]] = job[SpokeOrder[j]]
           /\ job'[Hub] = n
    BY OrderOnce DEF JobSet

\* The hub is changed last, when every spoke has the target.
LEMMA CoreOutLocal ==
    ASSUME IInv, CoreOut, RoundInv, ChangeLocalCore(Changer)
    PROVE  CoreOut'
<1> TypeOK /\ ConsoleInv
    BY Facts
<1>1. Changer \in Consoles /\ con[Changer].pc = "stage" /\ core' = core /\ ChangingAt /\ CoreAt(Changer)
      /\ con[Changer].i = Len(SpokeOrder) + 1
    BY ChangerFacts, Mine DEF ChangeLocalCore, CoreOut, RoundInv, RoundAt
<1>2. con[Changer].tag \in Cores /\ Hub \in Hosts
    BY <1>1, StepNames, Order DEF CoreAt
<1>3. con[Changer].alone => Steady(Hub, con[Changer].old[Hub])
    BY <1>1 DEF ChangingAt
<1>4. CASE con[Changer].old[Hub] = con[Changer].tag /\ Verified(Hub, con[Changer].tag)
    <2>1. Becomes(Changer, "hub", con[Changer].i, con[Changer].list, con[Changer].bad) /\ job' = job
        BY <1>1, <1>4, EffChangeLocalCore DEF ChangeLocalCore
    <2>2. ChangingAt'
        BY <1>1, <1>3, <1>4, <2>1 DEF ChangingAt, Becomes, Steady, Verified
    <2> QED
        BY <2>1, <2>2 DEF CoreOut, FoundAt, UndoingAt, Becomes
<1>5. CASE con[Changer].old[Hub] = con[Changer].tag /\ ~Verified(Hub, con[Changer].tag)
    <2>1. Becomes(Changer, "undohub", Len(SpokeOrder), con[Changer].list, con[Changer].bad)
        BY <1>1, <1>5, EffChangeLocalCore
    <2>2. ~con[Changer].alone
        BY <1>3, <1>5 DEF Steady
    <2> QED
        BY <2>1, <2>2 DEF CoreOut, FoundAt, ChangingAt, UndoingAt, Becomes
<1>6. CASE con[Changer].old[Hub] # con[Changer].tag
    <2>1. Becomes(Changer, "hubchange", con[Changer].i, con[Changer].list, con[Changer].bad)
        BY <1>1, <1>6, EffChangeLocalCore
    <2>2. JobSet(Hub, [step |-> "check", tag |-> con[Changer].tag])
        BY <1>2, <1>6, JobTypes, SettingJob DEF ChangeLocalCore
    <2>3. /\ \A j \in 1..Len(SpokeOrder) : job'[SpokeOrder[j]] = job[SpokeOrder[j]]
          /\ job'[Hub].step = "check" /\ job'[Hub].tag = con[Changer].tag
        BY <2>2, OnlyHub
    <2>4. con[Changer].alone => HubAt'
        BY <1>1, <1>3, <1>6, <2>1, <2>3 DEF HubAt, Becomes, Steady, Verified
    <2>5. ChangingAt'
        BY <1>1, <2>1, <2>3, <2>4 DEF ChangingAt, Becomes, Steady, Verified
    <2> QED
        BY <2>1, <2>5 DEF CoreOut, FoundAt, UndoingAt, Becomes
<1> QED
    BY <1>4, <1>5, <1>6

\* The end of the hub's replacement, on either way.
LEMMA CoreOutHub ==
    ASSUME IInv, CoreOut, RoundInv, HubChanged(Changer)
    PROVE  CoreOut'
<1> TypeOK
    BY Facts
<1>1. Changer \in Consoles /\ con[Changer].pc \in {"hubchange", "undohubwait"} /\ core' = core
      /\ ChangingAt /\ UndoingAt /\ RoundAt(Changer) /\ job[Hub].step \in {"ok", "failed", "dirty"}
    BY ChangerFacts, StepNames DEF HubChanged, CoreOut, RoundInv
<1>2. JobSet(Hub, NoJob)
    BY JobTypes, SettingJob, Order DEF HubChanged
<1>3. /\ \A j \in 1..Len(SpokeOrder) : job'[SpokeOrder[j]] = job[SpokeOrder[j]]
      /\ job'[Hub].step = "idle"
    BY <1>2, OnlyHub DEF NoJob
<1>4. \A j \in 1..Len(SpokeOrder) : ~(j > Len(SpokeOrder))
    BY Order
<1>5. CASE con[Changer].pc = "hubchange" /\ HubGood
    <2>1. Becomes(Changer, "hub", con[Changer].i, con[Changer].list, con[Changer].bad)
        BY <1>1, <1>5, EffHubChanged
    <2>2. con[Changer].alone => Verified(Hub, con[Changer].tag)
        BY <1>1, <1>5 DEF ChangingAt, HubAt, HubGood
    <2>3. ChangingAt'
        BY <1>1, <1>3, <1>5, <2>1, <2>2 DEF ChangingAt, Becomes, Steady, Verified
    <2> QED
        BY <2>1, <2>3 DEF CoreOut, FoundAt, UndoingAt, Becomes
<1>6. CASE con[Changer].pc = "hubchange" /\ ~HubGood
    <2>1. Becomes(Changer, "undohub", Len(SpokeOrder), con[Changer].list,
                  con[Changer].bad \/ job[Hub].step = "dirty")
        BY <1>1, <1>6, EffHubChanged
    <2>2. con[Changer].alone /\ job[Hub].step # "dirty" /\ core[Hub].bin = con[Changer].old[Hub] =>
              Verified(Hub, con[Changer].old[Hub])
        BY <1>1, <1>6 DEF ChangingAt, HubAt
    <2>3. ASSUME con[Changer].alone, NEW j \in 1..Len(SpokeOrder), SpokeOrder[j] \notin con[Changer].list
          PROVE  Steady(SpokeOrder[j], con[Changer].old[SpokeOrder[j]])
        BY <1>1, <1>6, <2>3, Unrecorded
    <2>4. UndoingAt'
        BY <1>1, <1>3, <1>4, <2>1, <2>2, <2>3 DEF UndoingAt, Becomes, Steady, Verified
    <2> QED
        BY <2>1, <2>4 DEF CoreOut, FoundAt, ChangingAt, Becomes
<1>7. CASE con[Changer].pc = "undohubwait"
    <2>1. Becomes(Changer, "undo", Len(SpokeOrder), con[Changer].list, con[Changer].bad \/ ~HubGood)
        BY <1>1, <1>7, EffHubChanged
    <2>2. con[Changer].alone /\ ~con[Changer].bad /\ HubGood => Verified(Hub, con[Changer].old[Hub])
        BY <1>1, <1>7 DEF UndoingAt, HubGood
    <2>3. UndoingAt'
        BY <1>1, <1>3, <1>4, <1>7, <2>1, <2>2 DEF UndoingAt, Becomes, Steady, Verified
    <2> QED
        BY <2>1, <2>3 DEF CoreOut, FoundAt, ChangingAt, Becomes
<1> QED
    BY <1>1, <1>5, <1>6, <1>7

\* The hub is rolled back only when its binary is not the old one.
LEMMA CoreOutUndoHub ==
    ASSUME IInv, CoreOut, UndoHub(Changer)
    PROVE  CoreOut'
<1> TypeOK /\ ConsoleInv
    BY Facts
<1>1. Changer \in Consoles /\ con[Changer].pc = "undohub" /\ core' = core /\ UndoingAt /\ CoreAt(Changer)
    BY ChangerFacts, Mine DEF UndoHub, CoreOut
<1>2. CASE core[Hub].bin = con[Changer].old[Hub]
    <2>1. Becomes(Changer, "undo", con[Changer].i, con[Changer].list, con[Changer].bad) /\ job' = job
        BY <1>1, <1>2, EffUndoHub DEF UndoHub
    <2>2. UndoingAt'
        BY <1>1, <1>2, <2>1 DEF UndoingAt, Becomes, Steady, Verified
    <2> QED
        BY <2>1, <2>2 DEF CoreOut, FoundAt, ChangingAt, Becomes
<1>3. CASE core[Hub].bin # con[Changer].old[Hub]
    <2>1. Becomes(Changer, "undohubwait", con[Changer].i, con[Changer].list, con[Changer].bad)
        BY <1>1, <1>3, EffUndoHub
    <2>2. JobSet(Hub, [step |-> "check", tag |-> con[Changer].old[Hub]])
        BY <1>1, <1>3, JobTypes, SettingJob, StepNames, Order DEF UndoHub, CoreAt
    <2>3. /\ \A j \in 1..Len(SpokeOrder) : job'[SpokeOrder[j]] = job[SpokeOrder[j]]
          /\ job'[Hub].tag = con[Changer].old[Hub]
        BY <2>2, OnlyHub
    <2>4. UndoingAt'
        BY <1>1, <2>1, <2>3 DEF UndoingAt, Becomes, Steady, Verified
    <2> QED
        BY <2>1, <2>4 DEF CoreOut, FoundAt, ChangingAt, Becomes
<1> QED
    BY <1>2, <1>3

-----------------------------------------------------------------------------
(* The whole invariant.                                                    *)

\* A step of a console that does not change the core.
LEMMA CoreOutSelf ==
    ASSUME IInv, CoreOut, NEW p \in Consoles, Safe(p), SelfUpdate(p) \/ Launch(p) \/ Crash(p)
    PROVE  CoreOut'
<1> TypeOK
    BY Facts
<1>1. CASE p # Changer
    <2>1. con'[Changer] = con[Changer]
        BY <1>1, ConsolesAssumption DEF Safe, Frame, Changed
    <2>2. core' = core /\ job' = job
        BY <1>1 DEF SelfUpdate, Launch, Crash, selfupdateRun, Downloaded, DownloadFails, CheckHealth,
           CheckHealthFails, reconcileAgentVersion, Returned, ReturnTimesOut, Replace, ReplaceFails, AfterReplace,
           RestoreAgentVersion, RestoreSkips, Restored, RestoreFails, UpdateFailed
    <2> QED
        BY <2>1, <2>2, CoreOutFramed
<1>2. CASE p = Changer
    <2>1. CASE Returned(p) /\ con[p].pc = "reconcile"
        BY <1>2, <2>1, CoreOutPreflight
    <2>2. CASE Launch(p) \/ Crash(p) \/ DownloadFails(p) \/ AfterReplace(p) \/ UpdateFailed(p)
        BY <1>2, <2>2, EffEnd, CoreOutOver, StepNames
    <2>3. CASE \/ \E v \in Versions : selfupdateRun(p, v)
               \/ Downloaded(p) \/ CheckHealth(p) \/ Replace(p)
               \/ Returned(p) /\ con[p].pc = "await"
        BY <1>2, <2>3, EffForward, CoreOutOver, StepNames
    <2>4. CASE CheckHealthFails(p) \/ ReturnTimesOut(p) \/ ReplaceFails(p)
        BY <1>2, <2>4, EffTurn, CoreOutOver, StepNames
    <2>5. CASE RestoreAgentVersion(p) \/ RestoreSkips(p) \/ Restored(p) \/ RestoreFails(p)
        <3>1. con'[p].pc \in {"restore", "reawait"}
            BY <2>5, EffRestoreAgentVersion, EffRestoreSkips, EffRestored, EffRestoreFails DEF Becomes
        <3> QED
            BY <1>2, <3>1, CoreOutOver, StepNames
    <2>6. Returned(p) => con[p].pc \in {"await", "reconcile"}
        BY DEF Returned
    <2>7. CASE reconcileAgentVersion(p)
        <3>1. Becomes(p, IF con[p].pc = "upgrade" THEN "await" ELSE "reconcile", con[p].i, con[p].list, con[p].bad)
            BY <2>7, EffReconcile
        <3>2. CASE con[p].pc = "upgrade"
            BY <1>2, <3>1, <3>2, CoreOutOver, StepNames DEF Becomes
        <3>3. CASE con[p].pc = "outdated"
            <4>1. core' = core /\ job' = job
                BY <2>7 DEF reconcileAgentVersion
            <4> QED
                BY <1>2, <3>1, <3>3, <4>1 DEF CoreOut, FoundAt, ChangingAt, UndoingAt, Becomes, Verified
        <3> QED
            BY <2>7, <3>2, <3>3 DEF reconcileAgentVersion
    <2> QED
        BY <2>1, <2>2, <2>3, <2>4, <2>5, <2>6, <2>7 DEF SelfUpdate
<1> QED
    BY <1>1, <1>2

\* A step of the change of the core.
LEMMA CoreOutChanger ==
    ASSUME IInv, CoreOut, RoundInv, FleetCore(Changer) \/ \E c \in Cores : ChangeFleetCore(c)
    PROVE  CoreOut'
<1> TypeOK /\ Changer \in Consoles
    BY Facts, ConsolesAssumption
<1>1. CASE PreflightFails(Changer) \/ CoreFinished(Changer)
    BY <1>1, EffEnd, CoreOutOver, StepNames
<1> QED
    BY <1>1, CoreOutBegins, CoreOutInspects, CoreOutPreflight, CoreOutPasses, CoreOutStages,
       CoreOutRequests, CoreOutCallFails, CoreOutAnswers, CoreOutLocal, CoreOutHub,
       CoreOutUndoHub DEF FleetCore

\* A step that no console takes keeps the consoles' rounds.
LEMMA RoundOfHosts ==
    ASSUME IInv, RoundInv,
           \A q \in Consoles : /\ con'[q].pc = con[q].pc /\ con'[q].i = con[q].i
                               /\ con'[q].list = con[q].list /\ con'[q].bad = con[q].bad
                               /\ con'[q].tool = con[q].tool,
           \A s \in Spokes : agent'[s].disk = agent[s].disk /\ agent'[s].late = agent[s].late
    PROVE  RoundInv'
<1> TypeOK /\ ConsoleInv
    BY Facts
<1>1. ASSUME NEW q \in Consoles PROVE RestoreAt(q)' /\ RoundAt(q)'
    <2>1. RestoreAt(q) /\ RoundAt(q) /\ SpokeAt(q)
        BY Mine DEF RoundInv
    <2>2. \A j \in 1..con[q].i - 1 : SpokeOrder[j] \in Spokes
        BY ConsoleFacts, Order
    <2>3. con[q].pc = "reawait" => Spoke(q) \in Spokes
        BY <2>1, StepNames, ConsoleFacts DEF SpokeAt
    <2>4. Spoke(q)' = Spoke(q)
        BY DEF Spoke
    <2> QED
        BY <2>1, <2>2, <2>3, <2>4 DEF RestoreAt, RoundAt, PutBack
<1> QED
    BY <1>1 DEF RoundInv

\* A step of a console keeps every console's round.
LEMMA RoundOfAll ==
    ASSUME IInv, TypeOK', RoundInv, NEW p \in Consoles, Frame(p), RestoreAt(p)' /\ RoundAt(p)'
    PROVE  RoundInv'
<1>1. ASSUME NEW q \in Consoles PROVE RestoreAt(q)' /\ RoundAt(q)'
    <2>1. CASE q = p
        BY <2>1
    <2>2. CASE q # p
        BY <2>2, RoundOfOthers
    <2> QED
        BY <2>1, <2>2
<1> QED
    BY <1>1 DEF RoundInv

\* A service action changes no console but the Changer, and there one field.
LEMMA EffService ==
    ASSUME TypeOK, NEW p \in Consoles, NEW up \in BOOLEAN, serviceAction(p, up)
    PROVE  \A q \in Consoles : /\ con'[q].pc = con[q].pc /\ con'[q].i = con[q].i
                               /\ con'[q].list = con[q].list /\ con'[q].bad = con[q].bad
                               /\ con'[q].tool = con[q].tool
<1>1. con[Changer] \in Console /\ Changer \in Consoles
    BY ConsolesAssumption, ConsoleFacts
<1>2. PICK b : con' = [con EXCEPT ![Changer] = [con[Changer] EXCEPT !.alone = b]]
    BY <1>1 DEF TypeOK, serviceAction
<1>3. con'[Changer] = [con[Changer] EXCEPT !.alone = b] /\ \A q \in Consoles \ {Changer} : con'[q] = con[q]
    BY <1>1, <1>2 DEF TypeOK
<1>4. /\ con'[Changer].pc = con[Changer].pc /\ con'[Changer].i = con[Changer].i
      /\ con'[Changer].list = con[Changer].list /\ con'[Changer].bad = con[Changer].bad
      /\ con'[Changer].tool = con[Changer].tool
    BY <1>1, <1>3 DEF Console
<1> QED
    BY <1>3, <1>4

(* Every step keeps what the outcomes rest on.                             *)
LEMMA OutStep ==
    ASSUME IInv, OutInv, Next
    PROVE  OutInv'
<1> TypeOK /\ RoundInv /\ CoreOut
    BY Facts DEF OutInv, CoreOut
<1>1. ASSUME NEW p \in Consoles, SelfUpdate(p) \/ Launch(p) \/ Crash(p) PROVE RoundInv' /\ CoreOut'
    <2>1. Safe(p) /\ Frame(p) /\ TypeOK'
        BY <1>1, ConsoleSafe DEF Safe
    <2> QED
        BY <1>1, <2>1, CoreOutSelf, RoundOfOwn, RoundOfAll
<1>2. ASSUME FleetCore(Changer) \/ \E c \in Cores : ChangeFleetCore(c) PROVE RoundInv' /\ CoreOut'
    <2>1. Changer \in Consoles /\ Frame(Changer) /\ TypeOK'
        BY <1>2, ChangerSafe, ConsolesAssumption DEF Safe
    <2>2. RestoreAt(Changer)' /\ RoundAt(Changer)'
        BY <1>2, <2>1, RoundOfChanger
    <2> QED
        BY <1>2, <2>1, <2>2, CoreOutChanger, RoundOfAll
<1>3. ASSUME NEW h \in Hosts, Replacing(h) PROVE RoundInv' /\ CoreOut'
    <2>1. con' = con /\ agent' = agent
        BY <1>3 DEF Replacing, CheckCore, BackUp, Stop, Swap, Restart, CleanUp, rollbackReplacement,
           UnchangedButCore
    <2> QED
        BY <1>3, <2>1, CoreOutReplacing, RoundOfHosts
<1>4. ASSUME NEW s \in Spokes, AgentRestarts(s) PROVE RoundInv' /\ CoreOut'
    <2>1. con' = con /\ core' = core /\ job' = job
        BY <1>4 DEF AgentRestarts
    <2>2. \A t \in Spokes : agent'[t].disk = agent[t].disk /\ agent'[t].late = agent[t].late
        BY <1>4, AgentFacts DEF TypeOK, AgentRestarts, Agent
    <2> QED
        BY <2>1, <2>2, CoreOutFramed, RoundOfHosts
<1>5. ASSUME NEW s \in Spokes, AgentDies(s) \/ Unread(s) PROVE RoundInv' /\ CoreOut'
    <2>1. con' = con /\ agent' = agent
        BY <1>5 DEF AgentDies, Unread
    <2> QED
        BY <1>5, <2>1, CoreOutAgent, RoundOfHosts
<1>6. ASSUME NEW p \in Consoles, NEW up \in BOOLEAN, serviceAction(p, up) PROVE RoundInv' /\ CoreOut'
    <2>1. agent' = agent
        BY <1>6 DEF serviceAction
    <2> QED
        BY <1>6, <2>1, CoreOutService, EffService, RoundOfHosts
<1>7. RoundInv' /\ CoreOut'
    BY <1>1, <1>2, <1>3, <1>4, <1>5, <1>6 DEF Next
<1> QED
    BY <1>7 DEF OutInv, CoreOut

\* An operation that restores, rolls back or has changed the hub ends in one way.
LEMMA Ending ==
    ASSUME IInv, Next, NEW p \in Consoles, con[p].pc \in {"restore", "hub", "undo"}, con'[p].pc = "menu"
    PROVE  UpdateFailed(p) \/ CoreFinished(p)
<1> TypeOK /\ Changer \in Consoles
    BY Facts, ConsolesAssumption
<1>1. ASSUME con'[p].pc = con[p].pc PROVE FALSE
    BY <1>1
<1>2. ASSUME NEW q \in Consoles, Safe(q), q # p PROVE FALSE
    BY <1>1, <1>2 DEF Safe, Frame, Changed
<1>3. ASSUME SelfUpdate(p) \/ Launch(p) \/ Crash(p) PROVE UpdateFailed(p)
    <2>1. CASE Launch(p) \/ DownloadFails(p) \/ AfterReplace(p) \/ Returned(p) \/ reconcileAgentVersion(p)
        BY <2>1 DEF Launch, DownloadFails, AfterReplace, Returned, reconcileAgentVersion
    <2>2. CASE Crash(p)
        <3>1. con'[p] = [Menu(con[p].tool) EXCEPT !.pc = "off"]
            BY <2>2 DEF TypeOK, Crash
        <3> QED
            BY <3>1 DEF Menu
    <2>3. CASE (\E v \in Versions : selfupdateRun(p, v)) \/ Downloaded(p) \/ CheckHealth(p) \/ Replace(p)
        BY <2>3, EffForward
    <2>4. CASE CheckHealthFails(p) \/ ReturnTimesOut(p) \/ ReplaceFails(p)
        BY <2>4, EffTurn
    <2>5. CASE RestoreAgentVersion(p) \/ RestoreSkips(p) \/ Restored(p) \/ RestoreFails(p)
        BY <2>5, EffRestoreAgentVersion, EffRestoreSkips, EffRestored, EffRestoreFails DEF Becomes
    <2> QED
        BY <1>3, <2>1, <2>2, <2>3, <2>4, <2>5 DEF SelfUpdate
<1>4. ASSUME p = Changer, FleetCore(p) PROVE CoreFinished(p)
    <2>1. CASE inspectFleetCore(p) \/ PreflightFails(p) \/ PreflightDone(p) \/ ChangeCore(p) \/ SpokeAnswers(p)
               \/ HubChanged(p) \/ UndoHub(p)
        BY <2>1 DEF inspectFleetCore, shouldReplaceAgentVersion, PreflightFails, PreflightDone, ChangeCore, SpokeAnswers, HubChanged,
           UndoHub
    <2>2. CASE PassOver(p)
        BY <2>2, EffPassOver DEF PassOver, Becomes
    <2>3. CASE stageSpokeCore(p)
        BY <2>3, EffStage DEF stageSpokeCore, Becomes
    <2>4. CASE SpokeCallFails(p)
        BY <2>4, EffSpokeCallFails DEF SpokeCallFails, Becomes
    <2>5. CASE ChangeLocalCore(p)
        BY <2>5 DEF ChangeLocalCore
    <2> QED
        BY <1>4, <2>1, <2>2, <2>3, <2>4, <2>5 DEF FleetCore
<1>5. ASSUME NEW q \in Consoles, SelfUpdate(q) \/ Launch(q) \/ Crash(q) PROVE UpdateFailed(p)
    BY <1>2, <1>3, <1>5, ConsoleSafe
<1>6. ASSUME FleetCore(Changer) \/ \E c \in Cores : ChangeFleetCore(c) PROVE CoreFinished(p)
    <2>1. p = Changer
        BY <1>2, <1>6, ChangerSafe
    <2> QED
        BY <1>4, <1>6, <2>1 DEF ChangeFleetCore
<1>7. ASSUME con' = con PROVE FALSE
    BY <1>1, <1>7
<1>8. ASSUME NEW h \in Hosts, Replacing(h) PROVE FALSE
    BY <1>7, <1>8 DEF Replacing, CheckCore, BackUp, Stop, Swap, Restart, CleanUp, rollbackReplacement,
       UnchangedButCore
<1>9. ASSUME NEW s \in Spokes, AgentRestarts(s) \/ AgentDies(s) \/ Unread(s) PROVE FALSE
    BY <1>7, <1>9 DEF AgentRestarts, AgentDies, Unread
<1>10. ASSUME NEW q \in Consoles, NEW up \in BOOLEAN, serviceAction(q, up) PROVE FALSE
    BY <1>1, <1>10, EffService
<1> QED
    BY <1>5, <1>6, <1>8, <1>9, <1>10 DEF Next

(* What an operation that ends has left behind.                            *)
EndsTrue(p) ==
    /\ con[p].pc = "restore" /\ ~con[p].bad => \A s \in con[p].list : agent[s].late \/ agent[s].disk = hub
    /\ con[p].pc = "hub" /\ con[p].alone => \A h \in Hosts : Verified(h, con[p].tag)
    /\ con[p].pc = "undo" /\ con[p].alone /\ ~con[p].bad => \A h \in Hosts : Verified(h, con[p].old[h])

\* The invariant makes every end of an operation true.
LEMMA EndingIsTrue ==
    ASSUME IInv, OutInv, Next, NEW p \in Consoles, con'[p].pc = "menu"
    PROVE  EndsTrue(p)
<1> TypeOK /\ ConsoleInv
    BY Facts
<1>1. RestoreAt(p) /\ RoundAt(p) /\ SelfAt(p) /\ SpokeAt(p) /\ CoreAt(p) /\ ChangingAt /\ UndoingAt
    BY Mine DEF OutInv, RoundInv
<1>2. con[p].i \in Int /\ con[p].i \in 0..Len(SpokeOrder) + 1 /\ Len(SpokeOrder) \in Nat
      /\ (AtSpoke(p) <=> con[p].i \in 1..Len(SpokeOrder))
    BY ConsoleFacts, Order DEF AtSpoke
<1>3. ASSUME con[p].pc = "restore", ~con[p].bad, NEW s \in con[p].list
      PROVE  agent[s].late \/ agent[s].disk = hub
    <2>1. con[p].i = Len(SpokeOrder) + 1
        <3>1. ~AtSpoke(p) /\ con[p].i >= 1
            BY <1>1, <1>3, Ending, StepNames DEF UpdateFailed, CoreFinished, SpokeAt
        <3> QED
            BY <1>2, <3>1
    <2>2. PICK j \in 1..Len(SpokeOrder) : SpokeOrder[j] = s
        BY <1>3, ConsoleFacts, Order
    <2>3. j \in 1..con[p].i - 1
        BY <1>2, <2>1
    <2>4. PutBack(s, con[p].tool)
        BY <1>1, <1>3, <2>2, <2>3 DEF RestoreAt
    <2> QED
        BY <1>1, <1>3, <2>4, StepNames DEF SelfAt, PutBack
<1>4. ASSUME con[p].pc = "hub", con[p].alone, NEW h \in Hosts PROVE Verified(h, con[p].tag)
    <2>1. p = Changer /\ con[p].i = Len(SpokeOrder) + 1
        BY <1>1, <1>4, StepNames DEF CoreAt, RoundAt
    <2>2. CASE h = Hub
        BY <1>1, <1>4, <2>1, <2>2 DEF ChangingAt, Steady
    <2>3. CASE h # Hub
        <3>1. PICK j \in 1..Len(SpokeOrder) : SpokeOrder[j] = h
            BY <2>3, Order DEF Hosts
        <3>2. j < con[p].i
            BY <1>2, <2>1
        <3> QED
            BY <1>1, <1>4, <2>1, <3>1, <3>2 DEF ChangingAt, Steady
    <2> QED
        BY <2>2, <2>3
<1>5. ASSUME con[p].pc = "undo", con[p].alone, ~con[p].bad, NEW h \in Hosts
      PROVE  Verified(h, con[p].old[h])
    <2>1. p = Changer /\ con[p].i <= Len(SpokeOrder) /\ ~AtSpoke(p)
        BY <1>1, <1>5, Ending, StepNames DEF CoreAt, RoundAt, UpdateFailed, CoreFinished
    <2>2. con[p].i = 0
        BY <1>2, <2>1
    <2>3. CASE h = Hub
        BY <1>1, <1>5, <2>1, <2>3 DEF UndoingAt, Steady
    <2>4. CASE h # Hub
        <3>1. PICK j \in 1..Len(SpokeOrder) : SpokeOrder[j] = h
            BY <2>4, Order DEF Hosts
        <3>2. j > con[p].i
            BY <2>2
        <3> QED
            BY <1>1, <1>5, <2>1, <3>1, <3>2 DEF UndoingAt, Steady
    <2> QED
        BY <2>3, <2>4
<1> QED
    BY <1>3, <1>4, <1>5 DEF EndsTrue

\* No operation has begun.
LEMMA OutInit == Init => OutInv
<1> SUFFICES ASSUME Init PROVE OutInv
    OBVIOUS
<1>1. \A p \in Consoles : con[p].pc = "menu" /\ con[p].list = {}
    BY DEF Init, Menu
<1>2. Changer \in Consoles
    BY ConsolesAssumption
<1> QED
    BY <1>1, <1>2 DEF OutInv, RoundInv, RestoreAt, RoundAt, FoundAt, ChangingAt, UndoingAt

-----------------------------------------------------------------------------
(* What a restore, a change and a rollback have done so far is what their  *)
(* console recorded (RestoreSpokeAgents, ChangeFleetCore, replaceWithTag). *)
THEOREM OutcomeInvariance == Spec => [](IInv /\ OutInv)
<1>1. IInv /\ OutInv /\ UNCHANGED vars => OutInv'
    <2> SUFFICES ASSUME IInv, OutInv, UNCHANGED vars PROVE OutInv'
        OBVIOUS
    <2>1. RoundInv'
        BY RoundOfHosts DEF OutInv, vars
    <2>2. CoreOut'
        BY CoreOutFramed DEF OutInv, CoreOut, vars
    <2> QED
        BY <2>1, <2>2 DEF OutInv, CoreOut
<1>2. IInv /\ OutInv /\ [Next]_vars => OutInv'
    BY <1>1, OutStep
<1> QED
    BY Invariance, OutInit, <1>2, PTL DEF Spec

(* An operation that has ended tells the truth: a failed self-update that  *)
(* reports no failed restore has put back every agent it touched, a core   *)
(* change that succeeded has changed every host, and one that failed with  *)
(* no rollback error has put every host back (selfupdate.Run,              *)
(* hubctl.ChangeFleetCore).                                                *)
THEOREM OutcomesAreTrue == Spec => OutcomeIsTrue
<1>1. IInv /\ OutInv /\ Next => \A p \in Consoles : con'[p].pc = "menu" => EndsTrue(p)
    BY EndingIsTrue
<1>2. IInv /\ OutInv /\ [Next]_vars =>
        [\A p \in Consoles : con'[p].pc = "menu" =>
            /\ con[p].pc = "restore" /\ ~con[p].bad
                 => \A s \in con[p].list : agent[s].late \/ agent[s].disk = hub
            /\ con[p].pc = "hub" /\ con[p].alone
                 => \A h \in Hosts : Verified(h, con[p].tag)
            /\ con[p].pc = "undo" /\ con[p].alone /\ ~con[p].bad
                 => \A h \in Hosts : Verified(h, con[p].old[h])]_vars
    BY <1>1 DEF EndsTrue
<1> QED
    BY OutcomeInvariance, <1>2, PTL DEF Spec, OutcomeIsTrue
==============================================================================
