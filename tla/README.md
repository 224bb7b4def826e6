# Verification of singbox-deploy

TLA+ models of the parts of singbox-deploy that keep shared, durable or remote
state, the TLC runs that check them on small instances, and proofs checked by
TLAPS. `PROJECT.json` lists runs, mutants, hazards and theorems, and maps every
definition to the source lines it stands for. Paths below are relative to
`src/`.

## The system

One hub manages a fleet of spokes. The hub runs the TUI (any number of
sessions), the monitor daemon and a daily certificate timer; they are separate
processes that share the files below the hub's state directory. Each spoke runs
an agent that the hub reaches over a WireGuard overlay, after a bootstrap over
SSH.

| Component | State it keeps | Operations | What makes it correct |
|---|---|---|---|
| State store (`internal/state`) | a directory tree per registry, a `.lock` file, staging and backup directories | load, transact, update fields | no lost update, the last tree survives failures, readers see whole trees |
| Node registry (`internal/nodes`) | one entry per spoke | Add, Mutate, MutateStatus, Remove, Load | no two nodes share a host, an address or a key |
| Fleet controller, membership (`internal/hubctl`) | none of its own; it moves all of the others | AddNode and rollback, RemoveNode, ForceDetachNode, EnsureOverlay | a step's failure leaves nothing behind in silence, and no other node is harmed |
| Overlay (`internal/wgnet`) | live peers, durable hub configuration | SetPeer, RemovePeer, WriteConfig, EnableStart | both agree with the registry |
| Bootstrap (`internal/bootstrap`) | agent, token, key, unit on the spoke | Provision, Cleanup | removes only what it created |
| Certificate manager (`internal/certmgr`) | certificate and key files, certificate registry, issuance lock | Issue, EnsureIssued, RenewDue | pairs match, no duplicate orders |
| Certificate delivery (`internal/hubctl/certificates.go`, `internal/certrenew`, `cmd/singbox-deploy`) | pending markers per spoke and for the hub | DistributeCertificate, RetryPendingCertificates, CheckHealth, cert renew | a renewal reaches its consumer, in the end |
| Agent (`cmd/singbox-deploy-agent`) | its executable and backup, unit files, token, install owner, firewall rule, runtime; mutation gate in memory | Install, Reconfigure, ApplyCert, ChangeCore, Upgrade, Uninstall | an uninstall is complete or can be retried; an upgrade happens or is undone |
| Settings (`internal/ui/spoke_reconfigure.go`, hubctl) | generation counters in the registry | edit, push, roll back | a failed push undoes its own change and no later one |
| Updates (`internal/selfupdate`, `internal/core`, `internal/hubctl/core.go`) | binaries, versions | self-update, agent update, core change | hub, agents and core end on compatible versions |
| Monitor and quotas (`internal/monitor`, agent monitor) | traffic counters, limits, packages, stop and release state | sample, adjust, reset, stop, release | counters lose nothing, a stopped service is released exactly when it may be |
| Relay links, subscriptions (`internal/relay*`, `internal/sub*`) | links, groups, published files | create, drop, reconcile, refresh | published files match the registry |
| Deployment (`internal/deploy`, `internal/uninstall`) | everything on one host | install, reconfigure, remove | a failed deployment is rolled back |
| Terminal interface (`internal/ui`) | the open screen and its phase, a suspended screen, running commands and reads in flight | keys, answers, progress lines | a command is watched and truly reported; a late answer harms nothing |
| Rendering, dashboard, scripts (`internal/protocol`, `templatefs`, `config`, `web`, `scripts`) | none that is shared | | |

Components interact through calls (TUI to controller), HTTP requests over the
overlay (controller to agent), SSH (bootstrap) and files (everything on the
hub). The hard parts are: several processes on the same files; operations of
many remote steps, any of which may fail or lose its answer; compensation that
runs after a failure and may fail itself; processes killed in the middle; a
timer that repeats what is still owed. `PROJECT.json` lists these as hazards at
their lines.

## Modules

**EntryStore** models `internal/state/entries.go`. A thread (goroutine) takes
its process's RWMutex, then the flock, and works on the tree in the filesystem
steps of the code: load and mutate, stage, `rename(dir, backup)`,
`rename(staging, dir)`, restore, removal of the backup, or one atomic write per
changed field. `dir` is what is at the tree's path, `backup[t]` what a thread
has moved aside, `orphans` what nobody will use again. Every step has a failing
variant; `Crash(p)` kills a process between two steps. `committed` is a history
variable: the tree the last completed step meant everybody to see. The callback
of a transaction is an add, a replacement or a removal of one entry, as the
registries' callers use it. `SaveEntryDirs` has no production caller; it takes
the same locks and calls the same save. Two small liberties: a reader whose tree
has no parent directory yet gets no flock in the code (`entries.go:269`; there is
nothing to read), and `ReadEntryValue` (`entries.go:306`) turns a read error into
its fallback, where the model's reader ends with an error.

**AtomicTree** is the promise: one value, changed by whole transactions and
single-field updates, that can disappear only by being set aside whole.
`EntryStore!RefinesAtomicTree` states that the store implements it, with the
tree moved aside standing for the value during a swap.

**FleetMembership** models `AddNode`, its deferred rollback, `RemoveNode`,
`ForceDetachNode` and `EnsureOverlay`. The registry's transactions are atomic
(by the refinement above) but may report an error after they committed; every
other call is a step: provisioning, registering, setting the live peer, loading
the registry, writing the configuration, health, install, commit, and each of
the compensation steps. A machine is its WireGuard key, its agent's token, its
runtime and the recorded owner of that runtime. Several host names may name one
machine. An ID stands for the transaction, its token and the key it generates.
`told` collects what an operation reported as left behind (a returned cleanup
error, an operator's force-detach) or what a killed process left. Operators
overlap freely, on one machine too; `shared` is a history variable that collects
the nodes, and their keys, on which two operations were at work at once.

**CertDelivery** models one certificate per domain as the versions of its two
files. Domains are unique in the registry, so a domain is named after its
consumer. The timer (`cert renew`), forced renewals, joins and health checks
are processes; issuance holds the lock that a semaphore and a flock make
together. `contended`, `missed` and `broken` are history variables that name
the cases the code does not claim to handle. `Register` is the certificate
registry's transaction. `PushCert` (`pushCert` with an explicit pair) has no
production caller.

**AgentHandler** models the agent's mutating requests behind `beginMutation`:
`Install`, `Uninstall` (also as the rollback of an install), `Upgrade`, the
teardown of the control plane part by part with its recovery, the backup,
rename and restore of the executable, the scheduled restart and stop, and the
death of the process at any moment. The model's `Install` refuses a machine that
has a runtime; the code looks for a non-empty `domain` entry
(`handler.go:354`), which the installation writes.

**TrafficMonitor** models the monitor of one host: `sampleOnce` with its
counters and deltas, the SQLite rows by what they hold (raw samples, hours,
manual corrections, packages, per-address rows), folding and retention, the
quota decision `reconcileQuota` step by step (decide, persist the marker, stop
or start, clear it), the operator's totals, packages and resets, and the two
hosts of a monitor: the hub's systemd service, with the console that
reconfigures it and releases its stop, and the agent's supervisor
(`cmd/singbox-deploy-agent/monitor.go`), which cancels one monitor and starts
the next without waiting for the first one's sampler. `carried` and `granted`
are history variables: the bytes the interface really carried and the packages
granted in each cycle. `CycleStart` and `NextCycleReset` are the code's
calendar arithmetic, compared with the plain set of configured boundaries.
`maintenance` is the whole round: the folds, the retentions, and
`PruneIPTraffic`, which keeps the busiest addresses and drops the others from all
three tables (one choice for the three `DELETE`s, which rank by the same totals;
ties go either way). A start may fail to read the marker; the code logs it and
goes on as if it were unset (`StartsBlind`, with the history `mon.blind`). Two
statements are atomic in the model and not in the code: the three `SELECT`s of
`TotalsSince` (`store.go:279`), which a fold may fall between, so that one quota
decision sees rows twice until the next sample; and
`setManageCurrentTrafficTotals`, which is two transactions.

**SpokeSettings** models the transaction of `ui/spoke_reconfigure.go` that all
screens for one spoke share: change the registry under its generation, push,
and on failure restore registry and spoke. The requests are those of the
protocol, subscription and monitor screens and of Regenerate; patch and replace
carry the revision the agent must still be at. The agent's gate admits one
request at a time, so `Orchestrator.Reconfigure` is one step to everybody else.
Its outcome is composed from its own steps: ports opened in part or whole
(`Opened`), the candidate refused or not started and the old file put back
(`NotActivated`), the deferred closing of ports and its failure (`RolledBack`,
`RollbackFails`), a configuration that could not be put back
(`RestoreConfigFails`), activation and persistence (`Settled`), persistence
broken off between two state files with nothing undone (`HalfPersisted`), and
the closing of stale ports and its failure (`Deployed`, `CleanupFails`).
`spoke.left` records what failures have left: `unsettled`, the state files may
not describe what runs; `blind`, a later request computed its ports from such
files; `leak`, a command that closes ports failed. The hub's own
`protocol.Update` is modelled beside it. `writer`, `doubt` (state files half
written), `overlap` and `revision` are history variables; the last one tells whether another change reached the agent since a session read the
revision (`stale`), and whether that revision matched all the same (`reused`).

**FleetUpdate** models the hub's self-update (lock file, check against the
launched version, agents first, replacement, restore on failure, acknowledged
upgrades that restart a second later) and `ChangeFleetCore` (reconcile,
preflight, stage, request, verify, hub last, undo in reverse), with the steps
of `core.Manager.replaceSteps` and its rollback on every host. The probe of an
agent's version and the `Upgrade` that follows it are separate calls, and the
agent obeys the second whatever version it has by then; `agent.late` records an
agent that was lowered that way, and the two properties about agents except it.
`core.good` is a history variable: the release of the last replacement that was
completed or rolled back. `alone` is another, and OutcomeIsTrue says nothing of a
core change that is not alone: an operator stopped the hub's sing-box during it
(`serviceAction`), or a replacement that a killed console had started was still
running on some host. Of a failed self-update the property speaks of the agent's
executable on disk; the restart that makes it run is due by then.

**Publication** models relay links, forwarding rules, groups and published
files: each registry transaction is atomic, everything between them is not. A
console confirms a change planned on what it read earlier, applies the relays,
and refreshes: spokes are read or their cached bodies used, then per group key
and files are written, then the sweeps. The hub monitor's loop takes snapshots
of quotas and reconciles. `calm` and `overlap` are history variables. A refresh
that cannot read the hub's own settings publishes nothing and reports no error,
as `RefreshSubscriptions` does (`NothingToPublish`, the step "unread"); the sweep of
the cache keeps the spokes that were asked at the start (`asked`). The registries
are read and the spokes asked in one step. A node that is added again keeps its
name in the model (the code gives it a fresh ID), and the group form writes what
it was given at once: it is never stale, so that the uniqueness of salts, unlike
that of links and ports, rests on the check alone.

**OperatorConsole** models the bubbletea program: one open screen, its phase and
choices, the screen it suspended, the commands it started with their channels
and the reads in flight. A key handler is an operator from screen and key to
the set of outcomes it can return; `Press` applies one the way `Model.Update`
does. `late` records that an answer without an id reached a screen that was
not waiting for it. The answer of a screen that was closed is taken by one opened
again if id, spoke and protocol are the same, as in the code, which compares
nothing else.

The `MC*` modules give the constants their values. Every module has a type
invariant `TypeOK` (the console's is `ScreensTypeOK`). TLC finds no violation
of any of them in these instances; the cfg files list it only where it says
more than the other properties (add a line `INVARIANT TypeOK`, or
`ScreensTypeOK`, to check one).

How the modules meet: EntryStore justifies the atomic registry transactions of
FleetMembership, SpokeSettings and Publication. AgentHandler justifies the
single step per request, and the restart that follows an acknowledged upgrade,
that SpokeSettings and FleetUpdate use. TrafficMonitor decides the quotas that
are `spent` in Publication. OperatorConsole starts the operations of all of
them and treats each as a command that succeeds or fails.

## Runs

| Run | Shows | Bounds |
|---|---|---|
| `entry_store` | NoLostUpdate, CommittedTreeOnDisk, ReadersSeeWholeTrees, refinement of AtomicTree | three threads, two of them in one process, so that both locks matter; two entries, two values; two faults, enough for a failed commit with a failed restore, or a crash after one |
| `fleet_membership` | RegistryUnique, CommittedNodeKeepsPeer, NothingLeftSilently, DurableConfigCurrent | two operators, who may work on one machine; two IDs and two addresses (so that the pool runs out); one machine with two names, one fresh, one with its own deployment; two faults |
| `cert_delivery` | DeliveredOrPending, PairsMatch, NoDuplicateOrder; PendingIsDelivered and TornPairIsReissued under fairness | timer and one operator; the hub's domain and a spoke's, whose add is part of the run; two expiries or forced renewals; one fault |
| `agent_handler` | UninstallIsComplete, HubCanRetry, FailedUpgradeUndone, AcceptedUpgradeRuns | two requests, two transactions, three versions; three faults, so that an upgrade, its recovery and the retry of that recovery can all fail |
| `traffic_quota` | NeverOvercounts, StopsAreOwned, PackagesStayInTheirCycle, SummaryAgrees, FoldKeepsUsage; QuotaFollowsUsage under fairness | seven machines, each with its own bounds: hub and agent, a fault beside an edit, two edits, both directions, per-address rows across two folds and a boundary, two addresses of which one is kept, a start that cannot read the marker. Months of one day, days of two hours, hours of two ticks: every fold, retention and boundary is a few ticks away |
| `settings` | SpokeConsistent, AgreeWhenQuiet, RollbackSparesWinners | two operators, twelve requests of all kinds, one of which changes nothing, port clashes possible; two failures, at any step of the agent's work, so that a push and its rollback can both fail |
| `updates` | NoAgentFallsBehind, OutcomeIsTrue, CoreRecoverable | two consoles, two spokes, agents that may start behind, two releases to move through, two operations, two failures |
| `publication` | RegistriesSound, FilesHaveKeys, SuccessMeansServed | two operators and the timer, hub and two spokes, two groups, two relay ports; two changes out of ten, two publishers at once, one failure, crash or quota change |
| `console` | FormShowsChosenSpoke, RunIsWatched, CompletionIsTrue, NoMenuAfterReplacement, SuspendedComesBack; RunEndsOnScreen under fairness | all screens and keys; two spokes and one protocol to choose; commands and reads together at most two; a channel of one message, so that an unread one stops its goroutine |
| `readd_cleanup`, `stale_hub_config`, `cert_lost_clear` | violated, see below | no faults |

Faults are bounded by `MaxFaults` or `MaxTrouble` (I/O errors, lost answers,
crashes), adds by the set of IDs, expiries and forced renewals by `MaxEvents`,
operations by `MaxRuns` or `MaxChanges`. Each recovery path of the code handles
one failure and reports a second one; the bounds let the first happen
everywhere, and the second where the code has an answer to it.

Deadlock is checked except where a behaviour ends by itself: an agent that has
been uninstalled stops for good, a stretch of time or a number of operations is
used up (`agent_handler`, `traffic_quota`, `updates`, `publication`).

Symmetry is used in `entry_store`, `fleet_membership` and `publication`, whose
properties are invariants, action properties and a safety refinement; not where
liveness is checked.

CommittedNodeKeepsPeer excepts keys in `shared`, and TLC shows why when the
exception is dropped: one operator force-detaches the node whose failed add
another is still rolling back, the machine, which kept its key, is added again,
and the rollback removes the live peer of the new node; two removals of one node
can do the same. NothingLeftSilently needs no exception.

In `updates` one console changes the core at a time (the code has no lock for
it), and a restart that is due in a second is over before a later update has
downloaded its release.

### Fairness

`FairSpec` of CertDelivery assumes that a running process goes on (its steps
have timeouts, and nothing blocks it but the issuance lock) and that systemd
starts the timer again and again: the unit is `OnCalendar` daily with
`Persistent=true`. Nothing is assumed of operators, or of failing steps.
`FairSpec` of AgentHandler assumes only that systemd fires a queued restart.
`FairSpec` of TrafficMonitor assumes that the tickers of a running monitor fire,
that the supervisor's goroutines go on and that systemd restarts the hub's
monitor (`Restart=`), not that a command succeeds: failures are bounded.
`FairSpec` of OperatorConsole assumes that a goroutine which is not blocked on
its channel ends and that a receive with a message is delivered; nothing is
assumed of the operator's keys.

### Disagreements with the repository's text

* `readd_cleanup`: adding a registered machine again under another host name
  is refused, and the cleanup of that refusal removes the registered node's
  agent, token and key. `hubctl.go:440` says that the rollback "removes only
  this transaction's agent/overlay bootstrap".
* `stale_hub_config`: the rollback's rewrite of the hub configuration may use a
  list from before another operator's commit. `hubctl.go:886`: "This preserves
  any unrelated node committed concurrently".
* `cert_lost_clear`: a delivery clears the pending marker without looking
  whether a newer pair was marked meanwhile. `certificates.go:20`: "a
  successful ACME renewal cannot become a permanently hub-only update".

### Properties that TLC refutes

The modules state seven more properties in the words of a comment of the code.
TLC refutes each of them: put it as the only INVARIANT or PROPERTY into the cfg named here.

| Property | Where | What happens |
|---|---|---|
| `TrafficMonitor!QuotaStopIsOwned` | `MCTrafficMonitor.cfg` with `Machines <- LateStopMachines` | `Run` (`monitor/server.go:948`) does not wait for its sampler. One that has persisted the marker stops sing-box after a reload has released the stop and cleared the marker: nobody starts sing-box again. `server.go:1097`: "Persist ownership first. If the process dies after this point, a restarted monitor can safely finish or release the stop." |
| `SpokeSettings!RestoredMeansRestored` | `MCSpokeSettings.cfg` | An agent that fails after it activated a configuration still has the old state files, hence the old revision; the rollback of `ui/protocols.go:836` takes that for "nothing happened", only refreshes the registry, and the error says "(previous settings restored)" while the new configuration runs. |
| `SpokeSettings!OlderFormKeepsPatches` | `MCSpokeSettings.cfg` with `Sessions = {s1, s2, s3}`, `Requests <- FormAndPatches`, `MaxFaults = 0` | The revision is a hash of values (`nodeapi/types.go:507`). When patches made meanwhile leave the spoke as a form had read it, the form's push matches and puts back what the newer patch had changed; registry and spoke differ. `hubctl.go:570`: "The revision precondition prevents an older full protocol form from overwriting a newer single-protocol patch." AgreeWhenQuiet excepts reused revisions for this reason. |
| `FleetUpdate!UpgradeOnly` | `MCFleetUpdate.cfg` | The preflight of a core change, in a console launched before a self-update, reads an agent's old version; the self-update upgrades that agent; then the older `Upgrade` of the preflight arrives and lowers it, behind the new hub. `hubctl.go:1209`: "the automatic upgrade-only policy". |
| `Publication!MarkerIsServed` | `MCPublication.cfg` | Operators' changes publish without writing the marker of `hubctl/relay_quota.go`; after a change that failed half way it can equal the desired state although clients are served something else, and the loop does nothing. |
| `OperatorConsole!CancelReturns` | `MCOperatorConsole.cfg` | Esc in the form of a Certificate management opened by another screen is ignored: `updateForm` and `updateZonePick` drop the callback's `done`. `ui/model.go:101`: "restored when the certificate flow finishes or is cancelled". |
| `OperatorConsole!RunIsAlwaysWatched` | `MCOperatorConsole.cfg` | Logs, the release list and the update check are not tagged: opened, left and followed by a command, a late answer moves the screen out of its running phase, from where a second command, or the menu, can be reached. For a self-update this contradicts `ui/selfupdate.go:190`: "Never return it to an operational menu after the binary is replaced." |

### Observations

Met while modelling. Four of them stand against a sentence of the repository:

* Two refreshes at once can leave a profile without its key, since one sweeps
  the keys of its own plan while the other writes; `deploy/remote.go:396` says
  "so a published profile always has the key". FilesHaveKeys excepts `overlap`.
* A monitor that cannot read the quota marker at its start logs that and takes
  it for unset; as long as it runs it will not start the sing-box that its
  predecessor stopped. `monitor/server.go:161`: "Restore the quota-stop flag so
  a monitor restart (settings change, host reboot) cannot strand sing-box in the
  stopped state forever." QuotaFollowsUsage excepts `mon.blind`.
* `RefreshSubscriptions` takes every error of `LoadProtocolConfig` for "The hub
  is not installed yet" (`subscriptions.go:49`) and returns nil; the refresh loop
  then writes its marker for something that was never published.
  SuccessMeansServed excepts it (`unread`).
* When the agent's Finalize fails after activation, the next request computes
  its port changes from the old state files, and may close or never open ports
  that the running configuration uses. Without the guard on `blind` TLC refutes
  SpokeConsistent in `MCSpokeSettings.cfg`.

The others have no claim against them.

* Monitor: `IPAccounting.Remove` returns early when nothing was loaded; the
  hub's own manual totals have no check of the cycle, the spokes' have; a
  console that dies between `disable --now` and the release of a quota stop
  leaves the service down with its marker set.
* Settings: two overlapping transactions, one an SNI change and one a patch,
  can leave registry and spoke different although both operators were answered
  with "(previous settings restored)"; a plain `Reconfigure` loads and installs
  without a lock over both; the rollback of a monitor change is not guarded by
  a generation; the hub's `protocol.Update` closes stale ports before it
  validates and has no rollback, and keeps a tcp port open when its number is
  that of another protocol; no later update closes that port, for it compares
  with the ports of the previous settings and not with those that are open.
* Updates: `UndoHub` passes over a hub whose old binary is in place although
  its service may be down.
* Publication: an empty group makes every refresh fail, so the loop publishes
  on every tick; a failed `ApplyRelayFor` is followed by a refresh all the
  same; a link may name a node that has just left; a relay that a stale plan replaced may never
  be told; rules on an unreachable relay stay; an operator's apply, and the
  boot unit, install rules on a relay whose quota is used up.
* Console: progress lines are not tagged with their run; ids of reads start at
  zero in a new screen, so the error of a cancelled read can match a screen
  opened again; the scan of a host key has no timeout and cannot be cancelled;
  a zone that could not be saved leaves the intention of its form standing.

## Proofs

Each component has a module of proofs, `<Module>Proofs`, which extends it; the
store and the console, the two parts of the hub that talk to no spoke, share
`HubProofs`. A theorem holds for every value of the constants: any sets of
operators, processes, machines, spokes, entries or groups, any number of
requests, failures and crashes. `PROJECT.json` lists the theorems with the
property each one states.

The assumptions are the `ASSUME`s of the components, and TLC evaluates them in
every run. They say that a name for "nothing" names nothing else, that the hub
is not a spoke, that a thread has a process and a host name a machine, that the
overlay's addresses are finitely many numbers, that bounds are natural numbers,
that protocols are not called like the other fields of a spoke's settings, that
a node starts with a value for each of them, and that hours, retentions and
limits are the integers the code takes them for. Of publication they say that
the spokes are finitely many, that ports have a largest, and that operators ask
for machines, ports and salts of the fleet, as the screens let them. Of the
monitor's calendar they say that every month has the reset day, which is at
most the 28th (`monitor/manage.go:274`), that a host's clock stays in the
months that are modelled, and that no month is longer than the history that is
kept, 90 days (`monitor/server.go:33`).

No property below is inductive as a run checks it. Each module states an
inductive invariant `IInv` as a conjunction of named parts, shows that `Init`
establishes it and that each action keeps it, and derives the properties.
TLC has checked every `IInv` on the instances of the runs.

**HubProofs**, on the store, proves the five properties of `entry_store`. `LockInv`: a
thread in a critical step holds the lock of its mode, and holders exclude each
other; it carries each step on the disk from "this thread" to "no other".
`WriterInv`: the tree a writer loaded is the one at the path while it stages and
the one in its backup while it swaps, and nobody else has a backup.
`CommittedInv`: where the committed tree is at each step. `WholeInv`: the fields
of an entry disagree only during a field update, or after a fault.
`ImplementsAtomicTree` maps the initial state to an initial state and each
action to an abstract one or a stutter: `CommitTree` is the transaction,
`WriteField` the field update, `RestoreFails` and a crash during a swap are
`SetAside`, a crash after a commit is `LeaveBehind`, and everything else
stutters because the tree moved aside stands for the value.

On the console, HubProofs proves the types, the four invariants of `console` and
the action property SuspendedComesBack. The invariant is `ConsoleInv`. `ShapeInv`:
each screen is in a phase of its kind, shows a command of this session, and is
well `Chosen`: in the phases of an edit it shows the spoke and the protocol that
are chosen. `LiveInv`: a command that works, or whose last lines are unread, is
that of the open screen, is in its running phase, has one receive pending, and
its result is its last line; since messages do not name their command, this is
why the screen may take them for its own. `TruthInv`: what the open and the
suspended screen say of their commands. `ReplacedInv`: a replaced binary is the
work of the command on screen, and the screen knows or will be told. All but
`ShapeInv` hold until an untagged answer comes late. The keys are taken screen by
screen: each has a lemma that all its outcomes are `Sound`, that is, keep the
screen well formed, start a command or leave what is said of the last one, and
leave a running phase only by a completed command. `Answered` and `Reported` are
the same for the answer of a read and the line of a command, and the steps of
the program follow from these three.

**FleetMembershipProofs** proves TypeOK and the four properties of
`fleet_membership`. `StepInv` is what the locals of an operation hold at its
steps. `HomeInv` says that every ID and key ever used belongs to one machine,
the one its add was for: it is what keeps a machine's agent from being taken
for another one's. `ConfInv` is what a lone operator that met no failure has
written of the configuration so far. RegistryUnique is inductive with the types
and `StepInv`. CommittedNodeKeepsPeer and NothingLeftSilently have a second
invariant, `CInv` (`PeersInvariance`). `Sole`: two operations on one node have
been noted in `shared`, and are not two adds. For each step, `EntryAt` says that
an entry an operation works on is its own for as long as it is there, `LiveAt`,
`PeerAt` and `DropAt` which peers are live and who answers for a live peer whose
entry is about to go, and `AgentAt` where its agent may be; `PeersKnown`,
`PeersLive` and `AgentsKnown` say for every live peer and every agent who knows
of it. The argument is rely and guarantee: `Apart` is what a step of one operator
may do to the nodes and machines of the others, and the lemmas `OthersKeep*`,
`PeersStayKnown`, `PeersStayLive` and `AgentsStayKnown` derive the rest once for
all actions.

**CertDeliveryProofs** proves TypeOK, PairsMatch, DeliveredOrPending and the
action property NoDuplicateOrder. `PairInv`: a torn pair has a writer between
its two renames, and that writer holds what puts the pair together again.
`OrderInv`: a sweep at its order has seen, under the lock, that the pair needs
one. `SoloInv` connects processes at one domain with the history variable
`contended`, and `DeliveryInv` follows a new pair from the issuance to the
consumer: settled, or being registered and marked.

**AgentHandlerProofs** proves TypeOK, UninstallIsComplete, HubCanRetry and
FailedUpgradeUndone. `GateInv`: nothing runs once an operation has committed,
and a process that is down stays down only if nothing is left to start.
`TeardownInv`: what an uninstall has removed by each of its steps. `RetryInv`:
what the hub needs for a retry is in place or in the snapshot of the mutation
that is removing it, and the executable is the running one or its backup is.

**FleetUpdateProofs** proves TypeOK, CoreRecoverable and the action properties
NoAgentFallsBehind and OutcomeIsTrue. `SelfAt` and `AgentsAt`: the self-update holds the lock,
its tag is newer than the hub, and the agents it is done with are at the tag,
on disk and running, or were lowered late (`Reached`, `Written`). `CoreAt`,
`SpokeAt`: the core change knows what to roll back to. `CoreInv` (`RecoveryAt`):
the backup is there from before a service stops until it is up again, and is of
the release in service, because whenever there is no backup the binary on disk
is that release, and no replacement begins while there is one.
OutcomeIsTrue needs `OutInv` on top of `IInv`. `RestoreAt`: the agents a failing
self-update has put back are at the hub's version, or were lowered (`PutBack`). For a core change that meets
no other, `FoundAt`, `ChangingAt` and `UndoingAt` say where every host is in its
round: as the preflight found it, at the target, or in the hands of the one
replacement that runs (`HubAt` for the hub's own). An answer that was lost is
the reason the invariant speaks of the hosts and not of what the console was
told: an unanswered spoke may have changed or not, is recorded, and is read
again on the way back.

**SpokeSettingsProofs** proves SpokeConsistent, AgreeWhenQuiet and the action
property RollbackSparesWinners. `Guarded` is the reason the generations are enough: as
long as a transaction's counter stands where it left it, nobody else has
written one of its fields; it has to survive the writes of every other session.
SpokeConsistent is inductive once each outcome of the agent's steps is shown to
keep it, from any state that earlier failures can have left: a lemma per
operator of those listed above, under `Sound`. AgreeWhenQuiet needs a second invariant, `AInv`, on top of `IInv`. `SmoothInv`
is about changes made at the same time: as long as nothing failed and no
revision was reused, at most one of the pushes that are due can still succeed,
the one whose revision is fresh, and it makes the spoke what the registry says
by then (`Plan`); with no push due they agree. `SerialInv` is about changes made
one after the other: where registry and spoke are at each step of a lone
transaction (`TransactionAt`, `PushedAt`), so that a push that failed without
saying how far it got has done all or nothing, and its rollback finds out which.
`HubInv` is the same for the steps of the hub's own update.

**PublicationProofs** proves RegistriesSound, FilesHaveKeys and the action
property SuccessMeansServed. `LinksInv` and `GroupsInv` are what each registry's validation keeps although plans are
stale. `PublishedInv`: without overlap one process publishes, the key of the
file it is about to write is there, and the files it left are those of its own
plan before it sweeps the keys. `EffectsInv` is a second invariant, on top of
the first: while an operation is calm and without an error, every relay it has
to tell (`Due`) is still on its list or has the rules the registries describe,
its plan is what they describe now, the files it is past are written and, once
swept, are all there is; a refresh that went unread has the relays only. Each action answers only for the process that takes
it, since its step ends the calm of all the others (`Own`). The tick's list
names every relay in use because the list of a finite set does (`ListsAll`).

**TrafficMonitorProofs** proves NeverOvercounts, StopsAreOwned, SummaryAgrees,
PackagesStayInTheirCycle and the action property FoldKeepsUsage. `CountInv`
strengthens NeverOvercounts: what is counted and what the next sample would
add, from the counters a monitor holds or from those that a new one would
restore, are together at most what was carried. `AddressInv` says the same of
the table of addresses. `OwnInv`: the marker is set before sing-box is stopped
and cleared after it was started. The module begins with a small theory of sums over finite sets: what SumOver is for one more row, for
two disjoint parts, and for rows put into bins, so that folding keeps totals.
Its induction runs over the subsets of one finite set, as a set of naturals
without a least element is empty, and needs no induction theorem with an
operator for a parameter.
The second half is about the calendar: months follow each other
without a gap, every tick a clock can show is in exactly one cycle (`InCycle`,
`OneCycle`), `CycleStart` finds the boundary it begins with, by way of the month
before when the day of the reset is still to come, and every boundary is on the
hour, so that an hour of folded rows is on one side of it. `GrantInv` then says
that the rows of the running cycle add up to what was granted in it, and that
nothing is granted to a cycle to come; that is what makes the first tick of a
new cycle start from nothing. FoldKeepsUsage follows from the theory of sums:
the rows that move keep their side of the boundary, and those that are dropped
are older than any cycle. For the addresses the pruning comes last: a survivor
keeps its total through both folds, and one that is pruned loses all of it
to a set of survivors that are at least as busy.

What stays with TLC:

* liveness (PendingIsDelivered, TornPairIsReissued, AcceptedUpgradeRuns,
  QuotaFollowsUsage, RunEndsOnScreen): fairness and ENABLED are beyond the
  prover;
* the runs that expect a violation, and the refuted properties above.

No module declares a RECURSIVE operator.

## Not modelled

Configuration text, subscription formats, the views of the screens, field
formats, the web dashboard and the scripts have no shared state. ACME, SSH and
systemd are modelled by what the code uses of them. The first installation of a
host and its uninstallation are linear lists of steps without a recovery of
their own and are single steps of AgentHandler. The subscription migration
repeats a refresh under a lock until its version file is written. Latency and
resource history of the monitor are written and deleted by age only. Two core
changes at once are left out (see above).

## Plan

1. Done: the modules of all components, their runs, and the proofs above.
2. Every safety property that a run checks is also a theorem. What could follow
   is the core change of the fleet under two consoles (`hubctl/core.go:35`),
   which no module models yet.
