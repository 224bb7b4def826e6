---------------------------- MODULE CertDelivery ----------------------------
(***************************************************************************)
(* The life of a certificate: ordered and written to disk by the hub       *)
(* (internal/certmgr) under one issuance lock, then activated on the hub   *)
(* or pushed to the spoke that serves its domain (internal/hubctl), with a *)
(* pending marker that says which activation is still owed.  The daily     *)
(* timer (cert renew), forced renewals, AddNode and health checks run      *)
(* concurrently, as separate processes or goroutines.                      *)
(*                                                                         *)
(* The registry keeps domains unique, so a domain is named after its       *)
(* consumer: a spoke, or the hub itself.  A certificate pair is the pair   *)
(* of the versions of its two files; they match when they are equal, and   *)
(* ValidateCertificatePair accepts nothing else.                           *)
(***************************************************************************)
EXTENDS Naturals

CONSTANTS
    Procs,      \* hub processes that touch certificates
    Timer,      \* the daily systemd unit, one of them
    Spokes,     \* spokes, each standing for its domain
    Hub,        \* the hub's own domain
    Joining,    \* spokes that AddNode has not installed yet
    None,
    MaxEvents,  \* bound on expiries and forced renewals
    MaxFaults   \* bound on failures and crashes

ASSUME TimerIsAProcess == Timer \in Procs
ASSUME HubIsNoSpoke == Hub \notin Spokes /\ Joining \subseteq Spokes
ASSUME NoneIsNobody == None \notin Procs \cup Spokes \cup {Hub}
ASSUME DeliveryBounds == MaxEvents \in Nat /\ MaxFaults \in Nat

Domains == Spokes \cup {Hub}

VARIABLES
    key, cert,   \* per domain, the version of each file of the hub's pair
    version,     \* per domain, the last version the CA issued
    due,         \* per domain, whether the pair is inside its renewal window
    holder,      \* holder of the issuance lock
    installed,   \* spokes whose registry entry is Installed
    pend,        \* spokes whose entry has PendingCertificate
    hubPend,     \* the hub_certificate_reload_pending marker
    active,      \* per domain, the version its consumer serves
    pc, cur,     \* per process, its step and its locals
    contended,   \* domains two processes have worked on at the same time
    missed,      \* domains whose last renewal was cut off before its marker
    broken,      \* domains whose last write was cut off between the two files
    events, faults

pairs == <<key, cert, version, due>>
markers == <<installed, pend, hubPend>>
ghosts == <<contended, missed, broken>>
vars == <<pairs, holder, markers, active, pc, cur, ghosts, events, faults>>

Idle == [op |-> "none", phase |-> "issue", dom |-> None, work |-> {}, ver |-> 0, old |-> 0]
Ops == {"timer", "force", "join", "check"}
IssueSteps == {"recheck", "order", "key", "cert", "register"}
Steps == {"idle", "retryHub", "hubRestart", "hubClear", "retryLoad", "inventory",
          "next", "probe", "read", "send", "clear", "lock", "mark",
          "install", "commit"} \cup IssueSteps

Local == [op : Ops \cup {"none"}, phase : {"retry", "issue"}, dom : Domains \cup {None},
          work : SUBSET Domains, ver : Nat, old : Nat]

(* A process is inside an issuance exactly while it holds the lock, a      *)
(* pending marker belongs to an installed spoke, and every variable keeps  *)
(* its type.                                                               *)
TypeOK ==
    /\ key \in [Domains -> Nat] /\ cert \in [Domains -> Nat]
    /\ version \in [Domains -> Nat]
    /\ active \in [Domains -> Nat]
    /\ due \subseteq Domains
    /\ holder \in Procs \cup {None}
    /\ installed \subseteq Spokes /\ pend \subseteq installed
    /\ hubPend \in BOOLEAN
    /\ pc \in [Procs -> Steps]
    /\ cur \in [Procs -> Local]
    /\ \A p \in Procs : pc[p] \in IssueSteps <=> holder = p
    /\ contended \subseteq Domains /\ missed \subseteq Domains /\ broken \subseteq Domains
    /\ events \in 0..MaxEvents /\ faults \in 0..MaxFaults

Init ==
    /\ key = [d \in Domains |-> IF d \in Joining THEN 0 ELSE 1]
    /\ cert = key /\ version = key /\ active = key
    /\ due = {} /\ holder = None
    /\ installed = Spokes \ Joining /\ pend = {} /\ hubPend = FALSE
    /\ pc = [p \in Procs |-> "idle"]
    /\ cur = [p \in Procs |-> Idle]
    /\ contended = {} /\ missed = {} /\ broken = {}
    /\ events = 0 /\ faults = 0

-----------------------------------------------------------------------------
(* Helpers.                                                                *)

DueByDateOnly(d) == cert[d] = 0 \/ d \in due

(* renewalDue: missing, mismatched, or near its expiry.                    *)
renewalDue(d) == cert[d] = 0 \/ key[d] # cert[d] \/ d \in due

Go(p, step) == pc' = [pc EXCEPT ![p] = step]
End(p) == Go(p, "idle") /\ cur' = [cur EXCEPT ![p] = Idle]
Fault == faults < MaxFaults /\ faults' = faults + 1
Event == events < MaxEvents /\ events' = events + 1

Others(p, d) == {q \in Procs \ {p} : cur[q].dom = d}

(* A process turns to a domain; whether another is at it is recorded.      *)
Claim(p, d) == contended' = IF Others(p, d) = {} THEN contended ELSE contended \cup {d}

(* A target is done or given up: the loops go on with the next one, the    *)
(* installation of a new spoke ends.                                       *)
Leave(p) ==
    IF cur[p].op = "join"
      THEN End(p)
      ELSE /\ Go(p, IF cur[p].dom = Hub /\ cur[p].phase = "retry" THEN "retryLoad" ELSE "next")
           /\ cur' = [cur EXCEPT ![p].dom = None, ![p].ver = 0, ![p].old = 0]

Begin(p, step, locals) ==
    /\ pc[p] = "idle"
    /\ Go(p, step)
    /\ cur' = [cur EXCEPT ![p] = locals]

-----------------------------------------------------------------------------
(* Operations begin.  A pair enters its renewal window.                    *)

Expire(d) ==
    /\ Event
    /\ cert[d] # 0 /\ d \notin due
    /\ due' = due \cup {d}
    /\ UNCHANGED <<key, cert, version, holder, markers, active, pc, cur, ghosts, faults>>

(* cert renew: first what is pending, then what is due.                    *)
runCert(p) ==
    /\ Begin(p, "retryHub", [Idle EXCEPT !.op = "timer", !.phase = "retry"])
    /\ UNCHANGED <<pairs, holder, markers, active, ghosts, events, faults>>

(* cert renew --force of one domain, or of the whole inventory.            *)
forceRenew(p, ds) ==
    /\ Event
    /\ p # Timer
    /\ Begin(p, "next", [Idle EXCEPT !.op = "force", !.work = ds])
    /\ UNCHANGED <<pairs, holder, markers, active, ghosts, faults>>

(* AddNode reaches installNode; a second add of the domain is refused.     *)
JoinNode(p, n) ==
    /\ p # Timer
    /\ n \notin installed
    /\ \A q \in Procs : cur[q].op = "join" => cur[q].dom # n
    /\ Begin(p, "lock", [Idle EXCEPT !.op = "join", !.dom = n])
    /\ Claim(p, n)
    /\ UNCHANGED <<pairs, holder, markers, active, missed, broken, events, faults>>

CheckHealth(p, n) ==
    /\ p # Timer
    /\ n \in installed
    /\ Begin(p, "probe", [Idle EXCEPT !.op = "check", !.dom = n])
    /\ Claim(p, n)
    /\ UNCHANGED <<pairs, holder, markers, active, missed, broken, events, faults>>

-----------------------------------------------------------------------------
(* RetryPendingCertificates, RenewDue and the loops over their targets.    *)

RetryHub(p) ==
    /\ pc[p] = "retryHub"
    /\ IF hubPend
         THEN Go(p, "hubRestart") /\ cur' = [cur EXCEPT ![p].dom = Hub] /\ Claim(p, Hub)
         ELSE Go(p, "retryLoad") /\ UNCHANGED <<cur, contended>>
    /\ UNCHANGED <<pairs, holder, markers, active, missed, broken, events, faults>>

RetryOnlyDue(p) ==
    /\ pc[p] = "retryLoad"
    /\ cur' = [cur EXCEPT ![p].work = pend \cap due]
    /\ Go(p, "next")
    /\ UNCHANGED <<pairs, holder, markers, active, ghosts, events, faults>>

RetryLoad(p) ==
    /\ pc[p] = "retryLoad"
    /\ cur' = [cur EXCEPT ![p].work = pend]
    /\ Go(p, "next")
    /\ UNCHANGED <<pairs, holder, markers, active, ghosts, events, faults>>

(* RenewDue reads the inventory without the lock.                          *)
Inventory(p) ==
    /\ pc[p] = "inventory"
    /\ cur' = [cur EXCEPT ![p].phase = "issue",
                          ![p].work = {d \in Domains : cert[d] # 0 /\ renewalDue(d)}]
    /\ Go(p, "next")
    /\ UNCHANGED <<pairs, holder, markers, active, ghosts, events, faults>>

NextTarget(p, d) ==
    /\ pc[p] = "next"
    /\ d \in cur[p].work
    /\ cur' = [cur EXCEPT ![p].work = @ \ {d}, ![p].dom = d]
    /\ Claim(p, d)
    /\ Go(p, IF cur[p].phase = "retry" THEN "probe" ELSE "lock")
    /\ UNCHANGED <<pairs, holder, markers, active, missed, broken, events, faults>>

NoMoreTargets(p) ==
    /\ pc[p] = "next"
    /\ cur[p].work = {}
    /\ IF cur[p].phase = "retry" THEN Go(p, "inventory") /\ UNCHANGED cur ELSE End(p)
    /\ UNCHANGED <<pairs, holder, markers, active, ghosts, events, faults>>

(* A marker, the registry or the inventory cannot be read.                 *)
RetryFails(p) ==
    /\ Fault
    /\ \/ pc[p] = "retryHub" /\ Go(p, "retryLoad") /\ UNCHANGED cur
       \/ pc[p] = "retryLoad" /\ Go(p, "inventory") /\ UNCHANGED cur
       \/ pc[p] = "inventory" /\ End(p)
    /\ UNCHANGED <<pairs, holder, markers, active, ghosts, events>>

-----------------------------------------------------------------------------
(* Issue and EnsureIssued.                                                 *)

(* lockIssuance: a semaphore in the process and a file lock between them.  *)
lockIssuance(p) ==
    /\ pc[p] = "lock"
    /\ holder = None
    /\ holder' = p
    /\ Go(p, "recheck")
    /\ UNCHANGED <<pairs, markers, active, cur, ghosts, events, faults>>

AlwaysIssue(p) ==
    /\ pc[p] = "recheck"
    /\ Go(p, "order")
    /\ UNCHANGED <<pairs, holder, markers, active, cur, ghosts, events, faults>>

(* EnsureIssued looks again under the lock: another process may have       *)
(* renewed the pair, and then nothing is ordered or distributed.           *)
Recheck(p) ==
    /\ pc[p] = "recheck"
    /\ IF cur[p].op = "force" \/ renewalDue(cur[p].dom)
         THEN Go(p, "order") /\ UNCHANGED <<cur, holder>>
         ELSE /\ holder' = None
              /\ IF cur[p].op = "join" THEN Go(p, "read") /\ UNCHANGED cur ELSE Leave(p)
    /\ UNCHANGED <<pairs, markers, active, ghosts, events, faults>>

Obtain(p) ==
    /\ pc[p] = "order"
    /\ version' = [version EXCEPT ![cur[p].dom] = @ + 1]
    /\ cur' = [cur EXCEPT ![p].ver = version'[cur[p].dom], ![p].old = key[cur[p].dom]]
    /\ Go(p, "key")
    /\ UNCHANGED <<key, cert, due, holder, markers, active, ghosts, events, faults>>

WriteKey(p) ==
    /\ pc[p] = "key"
    /\ key' = [key EXCEPT ![cur[p].dom] = cur[p].ver]
    /\ Go(p, "cert")
    /\ UNCHANGED <<cert, version, due, holder, markers, active, cur, ghosts, events, faults>>

WriteCert(p) ==
    LET d == cur[p].dom
    IN /\ pc[p] = "cert"
       /\ cert' = [cert EXCEPT ![d] = cur[p].ver]
       /\ due' = due \ {d}
       /\ missed' = missed \ {d}
       /\ broken' = broken \ {d}
       /\ contended' = IF Others(p, d) = {} THEN contended \ {d} ELSE contended
       /\ Go(p, "register")
       /\ UNCHANGED <<key, version, holder, markers, active, cur, events, faults>>

Register(p) ==
    /\ pc[p] = "register"
    /\ holder' = None
    /\ cur' = [cur EXCEPT ![p].ver = 0, ![p].old = 0]
    /\ Go(p, IF cur[p].op = "join" THEN "read" ELSE "mark")
    /\ UNCHANGED <<pairs, markers, active, ghosts, events, faults>>

(* The lock, the order or the first rename fails: the pair is as it was.   *)
IssueFails(p) ==
    /\ pc[p] \in {"lock", "order", "key"}
    /\ Fault
    /\ holder' = IF holder = p THEN None ELSE holder
    /\ Leave(p)
    /\ UNCHANGED <<pairs, markers, active, ghosts, events>>

NoKeyRestore(p) ==
    /\ pc[p] = "cert"
    /\ Fault
    /\ holder' = None
    /\ Leave(p)
    /\ UNCHANGED <<pairs, markers, active, ghosts, events>>

(* writeFilePair: the second rename fails and the first file is put back,  *)
(* unless that fails too.                                                  *)
WriteCertFails(p) ==
    /\ pc[p] = "cert"
    /\ Fault
    /\ \/ key' = [key EXCEPT ![cur[p].dom] = cur[p].old] /\ UNCHANGED broken
       \/ broken' = broken \cup {cur[p].dom} /\ UNCHANGED key
    /\ holder' = None
    /\ Leave(p)
    /\ UNCHANGED <<cert, version, due, markers, active, contended, missed, events>>

(* The pair is replaced, the certificate registry is not written, and the  *)
(* renewal is reported as failed: nothing is marked or distributed.        *)
RegisterFails(p) ==
    /\ pc[p] = "register"
    /\ Fault
    /\ holder' = None
    /\ missed' = missed \cup {cur[p].dom}
    /\ Leave(p)
    /\ UNCHANGED <<pairs, markers, active, contended, broken, events>>

-----------------------------------------------------------------------------
(* DistributeCertificate: the marker first, then the activation.           *)

MarkPending(p) ==
    LET d == cur[p].dom
    IN /\ pc[p] = "mark"
       /\ \/ /\ d = Hub
             /\ hubPend' = TRUE
             /\ Go(p, "hubRestart")
             /\ UNCHANGED <<pend, cur>>
          \/ /\ d \in installed
             /\ pend' = pend \cup {d}
             /\ Go(p, "probe")
             /\ UNCHANGED <<hubPend, cur>>
          \/ /\ d \in Spokes \ installed
             /\ UNCHANGED <<pend, hubPend>>
             /\ Leave(p)
       /\ UNCHANGED <<pairs, holder, installed, active, ghosts, events, faults>>

(* The registry cannot be loaded, or a marker cannot be written, which     *)
(* skips the spoke, but not the restart of the hub's services.  The        *)
(* registry may report an error after it committed the marker.             *)
MarkFails(p) ==
    LET d == cur[p].dom
    IN /\ pc[p] = "mark"
       /\ Fault
       /\ missed' = missed \cup {d}
       /\ \/ Leave(p) /\ UNCHANGED pend
          \/ Leave(p) /\ d \in installed /\ pend' = pend \cup {d}
          \/ d = Hub /\ Go(p, "hubRestart") /\ UNCHANGED <<cur, pend>>
       /\ UNCHANGED <<pairs, holder, installed, hubPend, active, contended, broken, events>>

(* Services that load a mismatched pair do not start.                      *)
HubRestart(p) ==
    /\ pc[p] = "hubRestart"
    /\ IF key[Hub] = cert[Hub]
         THEN active' = [active EXCEPT ![Hub] = cert[Hub]] /\ Go(p, "hubClear") /\ UNCHANGED cur
         ELSE UNCHANGED active /\ Leave(p)
    /\ UNCHANGED <<pairs, holder, markers, ghosts, events, faults>>

HubClear(p) ==
    /\ pc[p] = "hubClear"
    /\ hubPend' = FALSE
    /\ Leave(p)
    /\ UNCHANGED <<pairs, holder, installed, pend, active, ghosts, events, faults>>

(* syncCertificate: the probe returns the registry's current entry.        *)
probeAgent(p) ==
    /\ pc[p] = "probe"
    /\ IF cur[p].dom \in pend THEN Go(p, "read") /\ UNCHANGED cur ELSE Leave(p)
    /\ UNCHANGED <<pairs, holder, markers, active, ghosts, events, faults>>

readCertPair(p) ==
    LET d == cur[p].dom
    IN /\ pc[p] = "read"
       /\ IF key[d] = cert[d] /\ cert[d] # 0
            THEN /\ cur' = [cur EXCEPT ![p].ver = cert[d]]
                 /\ Go(p, IF cur[p].op = "join" THEN "install" ELSE "send")
            ELSE Leave(p)
       /\ UNCHANGED <<pairs, holder, markers, active, ghosts, events, faults>>

ApplyCert(p) ==
    /\ pc[p] = "send"
    /\ active' = [active EXCEPT ![cur[p].dom] = cur[p].ver]
    /\ Go(p, "clear")
    /\ UNCHANGED <<pairs, holder, markers, cur, ghosts, events, faults>>

(* The push does not arrive, the agent cannot restart its services and     *)
(* restores the old pair, or only the answer is lost.                      *)
ApplyCertFails(p) ==
    /\ pc[p] = "send"
    /\ Fault
    /\ \/ UNCHANGED active
       \/ active' = [active EXCEPT ![cur[p].dom] = cur[p].ver]
    /\ Leave(p)
    /\ UNCHANGED <<pairs, holder, markers, ghosts, events>>

ClearOnAnyOutcome(p) ==
    /\ pc[p] \in {"send", "clear"}
    /\ pend' = pend \ {cur[p].dom}
    /\ Leave(p)
    /\ UNCHANGED <<pairs, holder, installed, hubPend, active, ghosts, events, faults>>

ClearPending(p) ==
    /\ pc[p] = "clear"
    /\ pend' = pend \ {cur[p].dom}
    /\ Leave(p)
    /\ UNCHANGED <<pairs, holder, installed, hubPend, active, ghosts, events, faults>>

(* Every other failure of a delivery leaves the marker where it is, unless *)
(* the registry reports an error after it committed the clearing.          *)
DeliveryFails(p) ==
    /\ pc[p] \in {"hubRestart", "hubClear", "probe", "clear"}
    /\ Fault
    /\ Leave(p)
    /\ \/ UNCHANGED pend
       \/ pc[p] = "clear" /\ pend' = pend \ {cur[p].dom}
    /\ UNCHANGED <<pairs, holder, installed, hubPend, active, ghosts, events>>

-----------------------------------------------------------------------------
(* The end of AddNode: the installation carries the pair that was read,    *)
(* and the commit clears the marker.                                       *)

installNode(p) ==
    /\ pc[p] = "install"
    /\ active' = [active EXCEPT ![cur[p].dom] = cur[p].ver]
    /\ Go(p, "commit")
    /\ UNCHANGED <<pairs, holder, markers, cur, ghosts, events, faults>>

CommitNode(p) ==
    /\ pc[p] = "commit"
    /\ installed' = installed \cup {cur[p].dom}
    /\ pend' = pend \ {cur[p].dom}
    /\ End(p)
    /\ UNCHANGED <<pairs, holder, hubPend, active, ghosts, events, faults>>

installNodeFails(p) ==
    /\ pc[p] \in {"install", "commit"}
    /\ Fault
    /\ End(p)
    /\ UNCHANGED <<pairs, holder, markers, active, ghosts, events>>

(* A process is killed; the kernel drops its lock.                         *)
Crash(p) ==
    LET d == cur[p].dom
    IN /\ pc[p] # "idle"
       /\ Fault
       /\ End(p)
       /\ holder' = IF holder = p THEN None ELSE holder
       /\ missed' = IF pc[p] \in {"register", "mark"} THEN missed \cup {d} ELSE missed
       /\ broken' = IF pc[p] = "cert" THEN broken \cup {d} ELSE broken
       /\ UNCHANGED <<pairs, markers, active, contended, events>>

-----------------------------------------------------------------------------
Start(p) ==
    \/ p # Timer /\ runCert(p)
    \/ \E d \in Domains : cert[d] # 0 /\ forceRenew(p, {d})
    \/ forceRenew(p, {d \in Domains : cert[d] # 0})
    \/ \E n \in Spokes : JoinNode(p, n) \/ CheckHealth(p, n)

Step(p) ==
    \/ RetryHub(p) \/ RetryLoad(p) \/ Inventory(p)
    \/ (\E d \in Domains : NextTarget(p, d)) \/ NoMoreTargets(p)
    \/ lockIssuance(p) \/ Recheck(p) \/ Obtain(p) \/ WriteKey(p) \/ WriteCert(p) \/ Register(p)
    \/ MarkPending(p) \/ HubRestart(p) \/ HubClear(p)
    \/ probeAgent(p) \/ readCertPair(p) \/ ApplyCert(p) \/ ClearPending(p)
    \/ installNode(p) \/ CommitNode(p)

Fail(p) ==
    \/ RetryFails(p) \/ IssueFails(p) \/ WriteCertFails(p) \/ RegisterFails(p) \/ MarkFails(p)
    \/ ApplyCertFails(p) \/ DeliveryFails(p) \/ installNodeFails(p) \/ Crash(p)

Next ==
    \/ \E d \in Domains : Expire(d)
    \/ runCert(Timer)
    \/ \E p \in Procs : Start(p) \/ Step(p) \/ Fail(p)

Spec == Init /\ [][Next]_vars

(* A process that runs goes on, and systemd starts the timer every day.    *)
Fairness == WF_vars(runCert(Timer)) /\ \A p \in Procs : WF_vars(Step(p))
FairSpec == Spec /\ Fairness

-----------------------------------------------------------------------------
(* Properties.                                                             *)

Consumed == installed \cup {Hub}
Owed(d) == IF d = Hub THEN hubPend ELSE d \in pend
Working(d) == \E p \in Procs : cur[p].dom = d

(* DistributeCertificate: a renewal does not stay on the hub.  When nobody *)
(* works on a domain, its consumer serves the hub's pair or its delivery   *)
(* is marked pending, whatever failed in between; unless two processes     *)
(* worked on the domain together or the renewal ended before its marker.   *)
DeliveredOrPending ==
    \A d \in Consumed \ (contended \cup missed \cup broken) :
        ~Working(d) => active[d] = cert[d] \/ Owed(d)

(* "A successful ACME renewal cannot become a permanently hub-only update":*)
(* the same without the exceptions, when no step failed.                   *)
RenewalReachesConsumer ==
    faults = 0 => \A d \in Consumed : ~Working(d) => active[d] = cert[d] \/ Owed(d)

(* The issuance lock: outside of it the two files of a pair match, unless  *)
(* a crash or a failed restore came between the two renames.               *)
PairsMatch == holder = None => \A d \in Domains \ broken : key[d] = cert[d]

(* EnsureIssued: whatever the unlocked inventory said, a sweep or an add   *)
(* orders a certificate only for a pair that needs one when it is ordered. *)
NoDuplicateOrder ==
    [][\A p \in Procs : pc[p] = "order" /\ pc'[p] = "key" /\ cur[p].op # "force" =>
          renewalDue(cur[p].dom)]_vars

(* RetryPendingCertificates: the daily run sees every delivery that is     *)
(* pending through, however many runs failed before.                       *)
PendingIsDelivered == \A d \in Domains : Owed(d) ~> ~Owed(d)

(* RenewDue: a replaced pair that a crash between its renames left torn is *)
(* reissued by a later daily run.                                          *)
TornPairIsReissued ==
    \A d \in Domains : (cert[d] # 0 /\ key[d] # cert[d]) ~> (key[d] = cert[d])
=============================================================================
