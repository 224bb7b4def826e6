------------------------- MODULE CertDeliveryProofs -------------------------
(***************************************************************************)
(* The safety of issuance and delivery for every number of processes,      *)
(* spokes, renewals and failures.                                          *)
(***************************************************************************)
EXTENDS CertDelivery, TLAPS

(* The steps at which a process has turned to a domain.                    *)
AtDomain == {"hubRestart", "hubClear", "probe", "read", "send", "clear", "lock", "mark",
             "install", "commit"} \cup IssueSteps

(* Whose steps are whose: only an add installs, only the hub restarts, and *)
(* no two adds are at one spoke, which is not installed yet.               *)
OpInv ==
    \A p \in Procs :
        /\ pc[p] \in AtDomain => cur[p].dom # None
        /\ pc[p] \in {"hubRestart", "hubClear"} => cur[p].dom = Hub
        /\ pc[p] \in {"hubRestart", "hubClear", "mark", "probe", "send", "clear"} => cur[p].op # "join"
        /\ pc[p] \in {"install", "commit"} => cur[p].op = "join"
        /\ pc[p] \in {"probe", "send", "clear"} => cur[p].dom \in installed
        /\ pc[p] = "read" /\ cur[p].op # "join" => cur[p].dom \in installed
        /\ cur[p].phase = "retry" => cur[p].work \subseteq installed
        /\ cur[p].op = "join" =>
              /\ pc[p] \in AtDomain
              /\ cur[p].dom \in Spokes \ installed
              /\ \A q \in Procs \ {p} : cur[q].op = "join" => cur[q].dom # cur[p].dom

(* Two processes at one domain are noticed.                                *)
SoloInv ==
    \A p \in Procs : \A q \in Procs \ {p} :
        cur[p].dom # None /\ cur[p].dom = cur[q].dom => cur[p].dom \in contended

(* Between its two renames a pair is torn, and the writer keeps what puts  *)
(* it together again.                                                      *)
PairInv ==
    /\ \A d \in Domains \ broken :
          key[d] = cert[d] \/ \E p \in Procs : pc[p] = "cert" /\ cur[p].dom = d
    /\ \A p \in Procs :
          /\ pc[p] = "key" => cur[p].old = key[cur[p].dom]
          /\ pc[p] = "cert" => /\ key[cur[p].dom] = cur[p].ver
                               /\ cur[p].old = cert[cur[p].dom] \/ cur[p].dom \in broken

(* A sweep or an add that is about to order still has a reason to.         *)
OrderInv ==
    \A p \in Procs : pc[p] = "order" => cur[p].op = "force" \/ renewalDue(cur[p].dom)

(* Where a domain's delivery stands while its only process is at a step.   *)
Settled(d) == active[d] = cert[d] \/ Owed(d)
Renewing(d) == \E p \in Procs : cur[p].dom = d /\ pc[p] \in {"register", "mark"}
Clean == Domains \ (contended \cup missed \cup broken)

DeliveryInv ==
    /\ \A d \in Clean \cap Consumed : Settled(d) \/ Renewing(d)
    /\ \A p \in Procs : cur[p].dom \in Clean =>
          /\ pc[p] \in {"send", "install"} => cur[p].ver = cert[cur[p].dom]
          /\ pc[p] \in {"clear", "hubClear", "commit"} => active[cur[p].dom] = cert[cur[p].dom]

IInv == TypeOK /\ OpInv /\ SoloInv /\ PairInv /\ OrderInv /\ DeliveryInv

-----------------------------------------------------------------------------
(* What the helpers of the model do to a process.                          *)
Left(p) ==
    /\ pc' \in [Procs -> Steps] /\ cur' \in [Procs -> Local]
    /\ pc'[p] \in {"idle", "next", "retryLoad"}
    /\ cur'[p].dom = None /\ cur'[p].op # "join"
    /\ cur'[p].phase = "retry" => cur[p].phase = "retry" /\ cur'[p].work = cur[p].work
    /\ \A q \in Procs \ {p} : pc'[q] = pc[q] /\ cur'[q] = cur[q]

\* The state of a process between two operations is well typed.
LEMMA IdleIsLocal == Idle \in Local /\ Idle.dom = None /\ Idle.op = "none" /\ Idle.phase = "issue"
    BY DEF Idle, Local

(* A process that gives a domain up holds none.                            *)
LEMMA Leaving ==
    ASSUME TypeOK, NEW p \in Procs, Leave(p) \/ End(p)
    PROVE  Left(p)
<1>1. CASE End(p)
    BY <1>1, IdleIsLocal DEF TypeOK, End, Go, Left, Steps
<1>2. CASE Leave(p) /\ cur[p].op # "join"
    <2>1. [cur[p] EXCEPT !.dom = None, !.ver = 0, !.old = 0] \in Local
        BY ZenonT(60) DEF TypeOK, Local
    <2>2. cur' = [cur EXCEPT ![p] = [cur[p] EXCEPT !.dom = None, !.ver = 0, !.old = 0]]
        BY <1>2 DEF Leave, TypeOK
    <2>3. cur' \in [Procs -> Local]
        BY <2>1, <2>2 DEF TypeOK
    <2>4. cur[p] \in Local
        BY DEF TypeOK
    <2>5. cur'[p].dom = None /\ cur'[p].op = cur[p].op /\ cur'[p].phase = cur[p].phase
          /\ cur'[p].work = cur[p].work /\ \A q \in Procs \ {p} : cur'[q] = cur[q]
        BY <2>2, <2>4 DEF TypeOK, Local
    <2>6. pc' \in [Procs -> Steps] /\ pc'[p] \in {"idle", "next", "retryLoad"}
          /\ \A q \in Procs \ {p} : pc'[q] = pc[q]
        BY <1>2 DEF Leave, Go, TypeOK, Steps
    <2> QED
        BY <1>2, <2>3, <2>5, <2>6 DEF Left
<1> QED
    BY <1>1, <1>2 DEF Leave

(* The steps of an issuance are steps at a domain.                         *)
LEMMA StepNames ==
    /\ IssueSteps \subseteq AtDomain /\ AtDomain \subseteq Steps
    /\ IssueSteps = {"recheck", "order", "key", "cert", "register"}
    /\ AtDomain = {"hubRestart", "hubClear", "probe", "read", "send", "clear", "lock", "mark",
                   "install", "commit", "recheck", "order", "key", "cert", "register"}
    /\ Steps = {"idle", "retryHub", "retryLoad", "inventory", "next"} \cup AtDomain
    BY DEF IssueSteps, AtDomain, Steps

(* What an operator starts.                                                *)
LEMMA StartActions ==
    ASSUME NEW p \in Procs, Start(p)
    PROVE  \/ runCert(p)
           \/ \E ds \in SUBSET Domains : forceRenew(p, ds)
           \/ \E n \in Spokes : JoinNode(p, n) \/ CheckHealth(p, n)
    BY DEF Start

(* Where the locals of a process lie; a process at a domain has one.       *)
LEMMA LocalFacts ==
    ASSUME TypeOK, OpInv, NEW p \in Procs
    PROVE  /\ cur[p].dom \in Domains \cup {None} /\ cur[p].work \subseteq Domains
           /\ cur[p].ver \in Nat /\ cur[p].old \in Nat /\ cur[p].phase \in {"retry", "issue"}
           /\ cur[p].op \in Ops \cup {"none"}
           /\ pc[p] \in AtDomain => cur[p].dom \in Domains
<1>1. cur[p] \in Local
    BY DEF TypeOK
<1> QED
    BY <1>1 DEF Local, OpInv

(* The versions of the domain a process is at.                             *)
LEMMA CertRanges ==
    ASSUME TypeOK, OpInv, NEW p \in Procs, pc[p] \in {"order", "read"}
    PROVE  /\ key[cur[p].dom] \in Nat /\ cert[cur[p].dom] \in Nat
           /\ version[cur[p].dom] \in Nat
           /\ [version EXCEPT ![cur[p].dom] = @ + 1][cur[p].dom] \in Nat
    BY LocalFacts, StepNames DEF TypeOK

\* Every domain is the hub's or a spoke's.
LEMMA DomainFacts == Hub \in Domains /\ Spokes \subseteq Domains /\ Domains \ {Hub} \subseteq Spokes
    BY DEF Domains

(* The deployed hub starts well typed.                                     *)
LEMMA InitTypeOK == Init => TypeOK
<1> SUFFICES ASSUME Init PROVE TypeOK
    OBVIOUS
<1>1. key \in [Domains -> Nat] /\ cert = key /\ version = key /\ active = key
    BY DEF Init
<1>2. /\ pc \in [Procs -> Steps]
      /\ \A p \in Procs : pc[p] \in IssueSteps <=> holder = p
    BY NoneIsNobody, StepNames DEF Init
<1>3. 0 \in 0..MaxEvents /\ 0 \in 0..MaxFaults
    BY DeliveryBounds
<1> QED
    BY <1>1, <1>2, <1>3, IdleIsLocal, DeliveryBounds, HubIsNoSpoke DEF Init, TypeOK

(* Every step keeps the types; one process at a time is inside an issuance. *)
LEMMA NextTypeOK ==
    TypeOK /\ OpInv /\ [Next]_vars => TypeOK'
<1> SUFFICES ASSUME TypeOK, OpInv, [Next]_vars
             PROVE  TypeOK'
    OBVIOUS
<1>1. ASSUME NEW e \in Domains, Expire(e) PROVE TypeOK'
    <2>1. cur' \in [Procs -> Local]
        BY <1>1, IdleIsLocal, LocalFacts, DomainFacts
        DEF Expire, Event, pairs, markers, ghosts, TypeOK
    <2>2. pc' \in [Procs -> Steps]
        BY <1>1, StepNames DEF Expire, Event, pairs, markers, ghosts, TypeOK
    <2>3. key' \in [Domains -> Nat] /\ cert' \in [Domains -> Nat] /\ version' \in [Domains -> Nat]
          /\ active' \in [Domains -> Nat]
        BY <1>1, LocalFacts, StepNames DEF Expire, Event, pairs, markers, ghosts, TypeOK
    <2>4. \A q \in Procs : pc'[q] \in IssueSteps <=> holder' = q
        BY <1>1, StepNames, NoneIsNobody DEF Expire, Event, pairs, markers, ghosts, TypeOK
    <2> QED
        BY <1>1, DeliveryBounds, DomainFacts, LocalFacts, StepNames, <2>1, <2>2, <2>3, <2>4
        DEF TypeOK, Expire, Event, pairs, markers, ghosts
<1>2. ASSUME NEW p \in Procs, runCert(p) PROVE TypeOK'
    <2>1. cur' \in [Procs -> Local]
        BY <1>2, IdleIsLocal, LocalFacts, DomainFacts
        DEF runCert, Begin, Go, Idle, pairs, markers, ghosts, TypeOK, Local, Ops, Domains
    <2>2. pc' \in [Procs -> Steps]
        BY <1>2, StepNames DEF runCert, Begin, Go, Idle, pairs, markers, ghosts, TypeOK
    <2>3. key' \in [Domains -> Nat] /\ cert' \in [Domains -> Nat] /\ version' \in [Domains -> Nat]
          /\ active' \in [Domains -> Nat]
        BY <1>2, LocalFacts, StepNames
        DEF runCert, Begin, Go, Idle, pairs, markers, ghosts, TypeOK
    <2>4. \A q \in Procs : pc'[q] \in IssueSteps <=> holder' = q
        BY <1>2, StepNames, NoneIsNobody
        DEF runCert, Begin, Go, Idle, pairs, markers, ghosts, TypeOK
    <2> QED
        BY <1>2, DeliveryBounds, DomainFacts, LocalFacts, StepNames, <2>1, <2>2, <2>3, <2>4
        DEF TypeOK, runCert, Begin, Go, Idle, pairs, markers, ghosts
<1>3. ASSUME NEW p \in Procs, NEW ds \in SUBSET Domains, forceRenew(p, ds) PROVE TypeOK'
    <2>1. cur' \in [Procs -> Local]
        BY <1>3, IdleIsLocal, LocalFacts, DomainFacts
        DEF forceRenew, Begin, Go, Event, Idle, pairs, markers, ghosts, TypeOK, Local, Ops,
            Domains
    <2>2. pc' \in [Procs -> Steps]
        BY <1>3, StepNames
        DEF forceRenew, Begin, Go, Event, Idle, pairs, markers, ghosts, TypeOK
    <2>3. key' \in [Domains -> Nat] /\ cert' \in [Domains -> Nat] /\ version' \in [Domains -> Nat]
          /\ active' \in [Domains -> Nat]
        BY <1>3, LocalFacts, StepNames
        DEF forceRenew, Begin, Go, Event, Idle, pairs, markers, ghosts, TypeOK
    <2>4. \A q \in Procs : pc'[q] \in IssueSteps <=> holder' = q
        BY <1>3, StepNames, NoneIsNobody
        DEF forceRenew, Begin, Go, Event, Idle, pairs, markers, ghosts, TypeOK
    <2> QED
        BY <1>3, DeliveryBounds, DomainFacts, LocalFacts, StepNames, <2>1, <2>2, <2>3, <2>4
        DEF TypeOK, forceRenew, Begin, Go, Event, Idle, pairs, markers, ghosts
<1>4. ASSUME NEW p \in Procs, NEW n \in Spokes, JoinNode(p, n) PROVE TypeOK'
    <2>1. cur' \in [Procs -> Local]
        BY <1>4, IdleIsLocal, LocalFacts, DomainFacts
        DEF JoinNode, Begin, Go, Claim, Others, Idle, pairs, markers, ghosts, TypeOK, Local, Ops,
            Domains
    <2>2. pc' \in [Procs -> Steps]
        BY <1>4, StepNames
        DEF JoinNode, Begin, Go, Claim, Others, Idle, pairs, markers, ghosts, TypeOK
    <2>3. key' \in [Domains -> Nat] /\ cert' \in [Domains -> Nat] /\ version' \in [Domains -> Nat]
          /\ active' \in [Domains -> Nat]
        BY <1>4, LocalFacts, StepNames
        DEF JoinNode, Begin, Go, Claim, Others, Idle, pairs, markers, ghosts, TypeOK
    <2>4. \A q \in Procs : pc'[q] \in IssueSteps <=> holder' = q
        BY <1>4, StepNames, NoneIsNobody
        DEF JoinNode, Begin, Go, Claim, Others, Idle, pairs, markers, ghosts, TypeOK
    <2> QED
        BY <1>4, DeliveryBounds, DomainFacts, LocalFacts, StepNames, <2>1, <2>2, <2>3, <2>4
        DEF TypeOK, JoinNode, Begin, Go, Claim, Others, Idle, pairs, markers, ghosts
<1>5. ASSUME NEW p \in Procs, NEW n \in Spokes, CheckHealth(p, n) PROVE TypeOK'
    <2>1. cur' \in [Procs -> Local]
        BY <1>5, IdleIsLocal, LocalFacts, DomainFacts
        DEF CheckHealth, Begin, Go, Claim, Others, Idle, pairs, markers, ghosts, TypeOK, Local,
            Ops, Domains
    <2>2. pc' \in [Procs -> Steps]
        BY <1>5, StepNames
        DEF CheckHealth, Begin, Go, Claim, Others, Idle, pairs, markers, ghosts, TypeOK
    <2>3. key' \in [Domains -> Nat] /\ cert' \in [Domains -> Nat] /\ version' \in [Domains -> Nat]
          /\ active' \in [Domains -> Nat]
        BY <1>5, LocalFacts, StepNames
        DEF CheckHealth, Begin, Go, Claim, Others, Idle, pairs, markers, ghosts, TypeOK
    <2>4. \A q \in Procs : pc'[q] \in IssueSteps <=> holder' = q
        BY <1>5, StepNames, NoneIsNobody
        DEF CheckHealth, Begin, Go, Claim, Others, Idle, pairs, markers, ghosts, TypeOK
    <2> QED
        BY <1>5, DeliveryBounds, DomainFacts, LocalFacts, StepNames, <2>1, <2>2, <2>3, <2>4
        DEF TypeOK, CheckHealth, Begin, Go, Claim, Others, Idle, pairs, markers, ghosts
<1>6. ASSUME NEW p \in Procs, RetryHub(p) PROVE TypeOK'
    <2>1. cur' \in [Procs -> Local]
        BY <1>6, IdleIsLocal, LocalFacts, DomainFacts
        DEF RetryHub, Go, Claim, Others, pairs, markers, ghosts, TypeOK, Local, Ops, Domains
    <2>2. pc' \in [Procs -> Steps]
        BY <1>6, StepNames DEF RetryHub, Go, Claim, Others, pairs, markers, ghosts, TypeOK
    <2>3. key' \in [Domains -> Nat] /\ cert' \in [Domains -> Nat] /\ version' \in [Domains -> Nat]
          /\ active' \in [Domains -> Nat]
        BY <1>6, LocalFacts, StepNames
        DEF RetryHub, Go, Claim, Others, pairs, markers, ghosts, TypeOK
    <2>4. \A q \in Procs : pc'[q] \in IssueSteps <=> holder' = q
        BY <1>6, StepNames, NoneIsNobody
        DEF RetryHub, Go, Claim, Others, pairs, markers, ghosts, TypeOK
    <2> QED
        BY <1>6, DeliveryBounds, DomainFacts, LocalFacts, StepNames, <2>1, <2>2, <2>3, <2>4
        DEF TypeOK, RetryHub, Go, Claim, Others, pairs, markers, ghosts
<1>7. ASSUME NEW p \in Procs, RetryLoad(p) PROVE TypeOK'
    <2>1. cur' \in [Procs -> Local]
        BY <1>7, IdleIsLocal, LocalFacts, DomainFacts
        DEF RetryLoad, Go, pairs, markers, ghosts, TypeOK, Local, Ops, Domains
    <2>2. pc' \in [Procs -> Steps]
        BY <1>7, StepNames DEF RetryLoad, Go, pairs, markers, ghosts, TypeOK
    <2>3. key' \in [Domains -> Nat] /\ cert' \in [Domains -> Nat] /\ version' \in [Domains -> Nat]
          /\ active' \in [Domains -> Nat]
        BY <1>7, LocalFacts, StepNames DEF RetryLoad, Go, pairs, markers, ghosts, TypeOK
    <2>4. \A q \in Procs : pc'[q] \in IssueSteps <=> holder' = q
        BY <1>7, StepNames, NoneIsNobody DEF RetryLoad, Go, pairs, markers, ghosts, TypeOK
    <2> QED
        BY <1>7, DeliveryBounds, DomainFacts, LocalFacts, StepNames, <2>1, <2>2, <2>3, <2>4
        DEF TypeOK, RetryLoad, Go, pairs, markers, ghosts
<1>8. ASSUME NEW p \in Procs, Inventory(p) PROVE TypeOK'
    <2>1. [cur[p] EXCEPT !.phase = "issue", !.work = {d \in Domains : cert[d] # 0 /\ renewalDue(d)}] \in Local
        BY ZenonT(60), <1>8, LocalFacts, DomainFacts
        DEF Inventory, Go, pairs, markers, ghosts, Local, TypeOK
    <2>2. cur' \in [Procs -> Local]
        BY <1>8, <2>1 DEF Inventory, Go, pairs, markers, ghosts, TypeOK
    <2>3. pc' \in [Procs -> Steps]
        BY <1>8, StepNames DEF Inventory, Go, pairs, markers, ghosts, TypeOK
    <2>4. key' \in [Domains -> Nat] /\ cert' \in [Domains -> Nat] /\ version' \in [Domains -> Nat]
          /\ active' \in [Domains -> Nat]
        BY <1>8, LocalFacts, StepNames DEF Inventory, Go, pairs, markers, ghosts, TypeOK
    <2>5. \A q \in Procs : pc'[q] \in IssueSteps <=> holder' = q
        BY <1>8, StepNames, NoneIsNobody DEF Inventory, Go, pairs, markers, ghosts, TypeOK
    <2> QED
        BY <1>8, DeliveryBounds, DomainFacts, LocalFacts, StepNames, <2>1, <2>2, <2>3, <2>4,
           <2>5 DEF TypeOK, Inventory, Go, pairs, markers, ghosts
<1>9. ASSUME NEW p \in Procs, NEW e \in Domains, NextTarget(p, e) PROVE TypeOK'
    <2>1. [cur[p] EXCEPT !.work = @ \ {e}, !.dom = e] \in Local
        BY ZenonT(60), <1>9, LocalFacts, DomainFacts
        DEF NextTarget, Go, Claim, Others, pairs, markers, ghosts, Local, TypeOK
    <2>2. cur' \in [Procs -> Local]
        BY <1>9, <2>1 DEF NextTarget, Go, Claim, Others, pairs, markers, ghosts, TypeOK
    <2>3. pc' \in [Procs -> Steps]
        BY <1>9, StepNames DEF NextTarget, Go, Claim, Others, pairs, markers, ghosts, TypeOK
    <2>4. key' \in [Domains -> Nat] /\ cert' \in [Domains -> Nat] /\ version' \in [Domains -> Nat]
          /\ active' \in [Domains -> Nat]
        BY <1>9, LocalFacts, StepNames
        DEF NextTarget, Go, Claim, Others, pairs, markers, ghosts, TypeOK
    <2>5. \A q \in Procs : pc'[q] \in IssueSteps <=> holder' = q
        BY <1>9, StepNames, NoneIsNobody
        DEF NextTarget, Go, Claim, Others, pairs, markers, ghosts, TypeOK
    <2> QED
        BY <1>9, DeliveryBounds, DomainFacts, LocalFacts, StepNames, <2>1, <2>2, <2>3, <2>4,
           <2>5 DEF TypeOK, NextTarget, Go, Claim, Others, pairs, markers, ghosts
<1>10. ASSUME NEW p \in Procs, NoMoreTargets(p) PROVE TypeOK'
    <2>1. cur' \in [Procs -> Local]
        BY <1>10, IdleIsLocal, LocalFacts, DomainFacts, Leaving
        DEF NoMoreTargets, Go, pairs, markers, ghosts, TypeOK, Left
    <2>2. pc' \in [Procs -> Steps]
        BY <1>10, StepNames, Leaving DEF NoMoreTargets, Go, pairs, markers, ghosts, TypeOK, Left
    <2>3. key' \in [Domains -> Nat] /\ cert' \in [Domains -> Nat] /\ version' \in [Domains -> Nat]
          /\ active' \in [Domains -> Nat]
        BY <1>10, LocalFacts, StepNames DEF NoMoreTargets, Go, pairs, markers, ghosts, TypeOK
    <2>4. \A q \in Procs : pc'[q] \in IssueSteps <=> holder' = q
        BY <1>10, StepNames, NoneIsNobody, Leaving
        DEF NoMoreTargets, Go, pairs, markers, ghosts, TypeOK, Left
    <2> QED
        BY <1>10, DeliveryBounds, DomainFacts, LocalFacts, StepNames, Leaving, <2>1, <2>2, <2>3,
           <2>4 DEF TypeOK, NoMoreTargets, Go, pairs, markers, ghosts, Left
<1>11. ASSUME NEW p \in Procs, lockIssuance(p) PROVE TypeOK'
    <2>1. cur' \in [Procs -> Local]
        BY <1>11, IdleIsLocal, LocalFacts, DomainFacts
        DEF lockIssuance, Go, pairs, markers, ghosts, TypeOK
    <2>2. pc' \in [Procs -> Steps]
        BY <1>11, StepNames DEF lockIssuance, Go, pairs, markers, ghosts, TypeOK
    <2>3. key' \in [Domains -> Nat] /\ cert' \in [Domains -> Nat] /\ version' \in [Domains -> Nat]
          /\ active' \in [Domains -> Nat]
        BY <1>11, LocalFacts, StepNames DEF lockIssuance, Go, pairs, markers, ghosts, TypeOK
    <2>4. \A q \in Procs : pc'[q] \in IssueSteps <=> holder' = q
        BY <1>11, StepNames, NoneIsNobody DEF lockIssuance, Go, pairs, markers, ghosts, TypeOK
    <2> QED
        BY <1>11, DeliveryBounds, DomainFacts, LocalFacts, StepNames, <2>1, <2>2, <2>3, <2>4
        DEF TypeOK, lockIssuance, Go, pairs, markers, ghosts
<1>12. ASSUME NEW p \in Procs, Recheck(p) PROVE TypeOK'
    <2>1. cur' \in [Procs -> Local]
        BY <1>12, IdleIsLocal, LocalFacts, DomainFacts, Leaving
        DEF Recheck, Go, pairs, markers, ghosts, TypeOK, Left
    <2>2. pc' \in [Procs -> Steps]
        BY <1>12, StepNames, Leaving DEF Recheck, Go, pairs, markers, ghosts, TypeOK, Left
    <2>3. key' \in [Domains -> Nat] /\ cert' \in [Domains -> Nat] /\ version' \in [Domains -> Nat]
          /\ active' \in [Domains -> Nat]
        BY <1>12, LocalFacts, StepNames DEF Recheck, Go, pairs, markers, ghosts, TypeOK
    <2>4. \A q \in Procs : pc'[q] \in IssueSteps <=> holder' = q
        BY <1>12, StepNames, NoneIsNobody, Leaving
        DEF Recheck, Go, pairs, markers, ghosts, TypeOK, Left
    <2> QED
        BY <1>12, DeliveryBounds, DomainFacts, LocalFacts, StepNames, Leaving, <2>1, <2>2, <2>3,
           <2>4 DEF TypeOK, Recheck, Go, pairs, markers, ghosts, Left
<1>13. ASSUME NEW p \in Procs, Obtain(p) PROVE TypeOK'
    <2>1. \A v, o \in Nat : [cur[p] EXCEPT !.ver = v, !.old = o] \in Local /\ [cur[p] EXCEPT !.ver = v] \in Local
        BY DEF TypeOK, Local
    <2>2. cur' \in [Procs -> Local]
        BY <1>13, <2>1, CertRanges DEF Obtain, Go, pairs, markers, ghosts, TypeOK
    <2>3. pc' \in [Procs -> Steps]
        BY <1>13, StepNames DEF Obtain, Go, pairs, markers, ghosts, TypeOK
    <2>4. key' \in [Domains -> Nat] /\ cert' \in [Domains -> Nat] /\ version' \in [Domains -> Nat]
          /\ active' \in [Domains -> Nat]
        BY <1>13, LocalFacts, StepNames DEF Obtain, Go, pairs, markers, ghosts, TypeOK
    <2>5. \A q \in Procs : pc'[q] \in IssueSteps <=> holder' = q
        BY <1>13, StepNames, NoneIsNobody DEF Obtain, Go, pairs, markers, ghosts, TypeOK
    <2> QED
        BY <1>13, DeliveryBounds, DomainFacts, LocalFacts, StepNames, <2>1, <2>2, <2>3, <2>4,
           <2>5 DEF TypeOK, Obtain, Go, pairs, markers, ghosts
<1>14. ASSUME NEW p \in Procs, WriteKey(p) PROVE TypeOK'
    <2>1. cur' \in [Procs -> Local]
        BY <1>14, IdleIsLocal, LocalFacts, DomainFacts
        DEF WriteKey, Go, pairs, markers, ghosts, TypeOK
    <2>2. pc' \in [Procs -> Steps]
        BY <1>14, StepNames DEF WriteKey, Go, pairs, markers, ghosts, TypeOK
    <2>3. key' \in [Domains -> Nat] /\ cert' \in [Domains -> Nat] /\ version' \in [Domains -> Nat]
          /\ active' \in [Domains -> Nat]
        BY <1>14, LocalFacts, StepNames DEF WriteKey, Go, pairs, markers, ghosts, TypeOK
    <2>4. \A q \in Procs : pc'[q] \in IssueSteps <=> holder' = q
        BY <1>14, StepNames, NoneIsNobody DEF WriteKey, Go, pairs, markers, ghosts, TypeOK
    <2> QED
        BY <1>14, DeliveryBounds, DomainFacts, LocalFacts, StepNames, <2>1, <2>2, <2>3, <2>4
        DEF TypeOK, WriteKey, Go, pairs, markers, ghosts
<1>15. ASSUME NEW p \in Procs, WriteCert(p) PROVE TypeOK'
    <2>1. cur' \in [Procs -> Local]
        BY <1>15, IdleIsLocal, LocalFacts, DomainFacts
        DEF WriteCert, Go, Others, pairs, markers, ghosts, TypeOK
    <2>2. pc' \in [Procs -> Steps]
        BY <1>15, StepNames DEF WriteCert, Go, Others, pairs, markers, ghosts, TypeOK
    <2>3. key' \in [Domains -> Nat] /\ cert' \in [Domains -> Nat] /\ version' \in [Domains -> Nat]
          /\ active' \in [Domains -> Nat]
        BY <1>15, LocalFacts, StepNames
        DEF WriteCert, Go, Others, pairs, markers, ghosts, TypeOK
    <2>4. \A q \in Procs : pc'[q] \in IssueSteps <=> holder' = q
        BY <1>15, StepNames, NoneIsNobody
        DEF WriteCert, Go, Others, pairs, markers, ghosts, TypeOK
    <2> QED
        BY <1>15, DeliveryBounds, DomainFacts, LocalFacts, StepNames, <2>1, <2>2, <2>3, <2>4
        DEF TypeOK, WriteCert, Go, Others, pairs, markers, ghosts
<1>16. ASSUME NEW p \in Procs, Register(p) PROVE TypeOK'
    <2>1. [cur[p] EXCEPT !.ver = 0, !.old = 0] \in Local
        BY ZenonT(60), <1>16, LocalFacts, DomainFacts
        DEF Register, Go, pairs, markers, ghosts, Local, TypeOK
    <2>2. cur' \in [Procs -> Local]
        BY <1>16, <2>1 DEF Register, Go, pairs, markers, ghosts, TypeOK
    <2>3. pc' \in [Procs -> Steps]
        BY <1>16, StepNames DEF Register, Go, pairs, markers, ghosts, TypeOK
    <2>4. key' \in [Domains -> Nat] /\ cert' \in [Domains -> Nat] /\ version' \in [Domains -> Nat]
          /\ active' \in [Domains -> Nat]
        BY <1>16, LocalFacts, StepNames DEF Register, Go, pairs, markers, ghosts, TypeOK
    <2>5. \A q \in Procs : pc'[q] \in IssueSteps <=> holder' = q
        BY <1>16, StepNames, NoneIsNobody DEF Register, Go, pairs, markers, ghosts, TypeOK
    <2> QED
        BY <1>16, DeliveryBounds, DomainFacts, LocalFacts, StepNames, <2>1, <2>2, <2>3, <2>4,
           <2>5 DEF TypeOK, Register, Go, pairs, markers, ghosts
<1>17. ASSUME NEW p \in Procs, MarkPending(p) PROVE TypeOK'
    <2>1. cur' \in [Procs -> Local]
        BY <1>17, IdleIsLocal, LocalFacts, DomainFacts, Leaving
        DEF MarkPending, Go, pairs, markers, ghosts, TypeOK, Left
    <2>2. pc' \in [Procs -> Steps]
        BY <1>17, StepNames, Leaving DEF MarkPending, Go, pairs, markers, ghosts, TypeOK, Left
    <2>3. key' \in [Domains -> Nat] /\ cert' \in [Domains -> Nat] /\ version' \in [Domains -> Nat]
          /\ active' \in [Domains -> Nat]
        BY <1>17, LocalFacts, StepNames DEF MarkPending, Go, pairs, markers, ghosts, TypeOK
    <2>4. \A q \in Procs : pc'[q] \in IssueSteps <=> holder' = q
        BY <1>17, StepNames, NoneIsNobody, Leaving
        DEF MarkPending, Go, pairs, markers, ghosts, TypeOK, Left
    <2> QED
        BY ZenonT(60), <1>17, DeliveryBounds, DomainFacts, LocalFacts, StepNames, Leaving, <2>1, <2>2, <2>3,
           <2>4 DEF TypeOK, MarkPending, Go, pairs, markers, ghosts, Left
<1>18. ASSUME NEW p \in Procs, HubRestart(p) PROVE TypeOK'
    <2>1. cur' \in [Procs -> Local]
        BY <1>18, IdleIsLocal, LocalFacts, DomainFacts, Leaving
        DEF HubRestart, Go, pairs, markers, ghosts, TypeOK, Left
    <2>2. pc' \in [Procs -> Steps]
        BY <1>18, StepNames, Leaving DEF HubRestart, Go, pairs, markers, ghosts, TypeOK, Left
    <2>3. key' \in [Domains -> Nat] /\ cert' \in [Domains -> Nat] /\ version' \in [Domains -> Nat]
          /\ active' \in [Domains -> Nat]
        BY <1>18, LocalFacts, StepNames DEF HubRestart, Go, pairs, markers, ghosts, TypeOK
    <2>4. \A q \in Procs : pc'[q] \in IssueSteps <=> holder' = q
        BY <1>18, StepNames, NoneIsNobody, Leaving
        DEF HubRestart, Go, pairs, markers, ghosts, TypeOK, Left
    <2> QED
        BY <1>18, DeliveryBounds, DomainFacts, LocalFacts, StepNames, Leaving, <2>1, <2>2, <2>3,
           <2>4 DEF TypeOK, HubRestart, Go, pairs, markers, ghosts, Left
<1>19. ASSUME NEW p \in Procs, HubClear(p) PROVE TypeOK'
    <2>1. cur' \in [Procs -> Local]
        BY <1>19, IdleIsLocal, LocalFacts, DomainFacts, Leaving
        DEF HubClear, pairs, markers, ghosts, TypeOK, Left
    <2>2. pc' \in [Procs -> Steps]
        BY <1>19, StepNames, Leaving DEF HubClear, pairs, markers, ghosts, TypeOK, Left
    <2>3. key' \in [Domains -> Nat] /\ cert' \in [Domains -> Nat] /\ version' \in [Domains -> Nat]
          /\ active' \in [Domains -> Nat]
        BY <1>19, LocalFacts, StepNames DEF HubClear, pairs, markers, ghosts, TypeOK
    <2>4. \A q \in Procs : pc'[q] \in IssueSteps <=> holder' = q
        BY <1>19, StepNames, NoneIsNobody, Leaving
        DEF HubClear, pairs, markers, ghosts, TypeOK, Left
    <2> QED
        BY <1>19, DeliveryBounds, DomainFacts, LocalFacts, StepNames, Leaving, <2>1, <2>2, <2>3,
           <2>4 DEF TypeOK, HubClear, pairs, markers, ghosts, Left
<1>20. ASSUME NEW p \in Procs, probeAgent(p) PROVE TypeOK'
    <2>1. cur' \in [Procs -> Local]
        BY <1>20, IdleIsLocal, LocalFacts, DomainFacts, Leaving
        DEF probeAgent, Go, pairs, markers, ghosts, TypeOK, Left
    <2>2. pc' \in [Procs -> Steps]
        BY <1>20, StepNames, Leaving DEF probeAgent, Go, pairs, markers, ghosts, TypeOK, Left
    <2>3. key' \in [Domains -> Nat] /\ cert' \in [Domains -> Nat] /\ version' \in [Domains -> Nat]
          /\ active' \in [Domains -> Nat]
        BY <1>20, LocalFacts, StepNames DEF probeAgent, Go, pairs, markers, ghosts, TypeOK
    <2>4. \A q \in Procs : pc'[q] \in IssueSteps <=> holder' = q
        BY <1>20, StepNames, NoneIsNobody, Leaving
        DEF probeAgent, Go, pairs, markers, ghosts, TypeOK, Left
    <2> QED
        BY <1>20, DeliveryBounds, DomainFacts, LocalFacts, StepNames, Leaving, <2>1, <2>2, <2>3,
           <2>4 DEF TypeOK, probeAgent, Go, pairs, markers, ghosts, Left
<1>21. ASSUME NEW p \in Procs, readCertPair(p) PROVE TypeOK'
    <2>1. \A v, o \in Nat : [cur[p] EXCEPT !.ver = v, !.old = o] \in Local /\ [cur[p] EXCEPT !.ver = v] \in Local
        BY DEF TypeOK, Local
    <2>2. ASSUME Leave(p) PROVE cur' \in [Procs -> Local]
        BY <2>2, Leaving, <1>21 DEF Left
    <2>3. [cur[p] EXCEPT !.ver = cert[cur[p].dom]] \in Local
        BY <1>21, <2>1, CertRanges DEF readCertPair
    <2>4. ASSUME ~Leave(p) PROVE cur' = [cur EXCEPT ![p] = [cur[p] EXCEPT !.ver = cert[cur[p].dom]]]
        BY <2>4, <1>21 DEF readCertPair, TypeOK
    <2>5. cur' \in [Procs -> Local]
        BY <2>2, <2>3, <2>4 DEF TypeOK
    <2>6. pc' \in [Procs -> Steps]
        BY <1>21, StepNames, Leaving DEF readCertPair, Go, pairs, markers, ghosts, TypeOK, Left
    <2>7. key' \in [Domains -> Nat] /\ cert' \in [Domains -> Nat] /\ version' \in [Domains -> Nat]
          /\ active' \in [Domains -> Nat]
        BY <1>21, LocalFacts, StepNames DEF readCertPair, Go, pairs, markers, ghosts, TypeOK
    <2>8. \A q \in Procs : pc'[q] \in IssueSteps <=> holder' = q
        BY <1>21, StepNames, NoneIsNobody, Leaving
        DEF readCertPair, Go, pairs, markers, ghosts, TypeOK, Left
    <2> QED
        BY <1>21, DeliveryBounds, DomainFacts, LocalFacts, StepNames, Leaving, <2>1, <2>2, <2>3,
           <2>4, <2>5, <2>6, <2>7, <2>8 DEF TypeOK, readCertPair, Go, pairs, markers, ghosts, Left
<1>22. ASSUME NEW p \in Procs, ApplyCert(p) PROVE TypeOK'
    <2>1. cur' \in [Procs -> Local]
        BY <1>22, IdleIsLocal, LocalFacts, DomainFacts
        DEF ApplyCert, Go, pairs, markers, ghosts, TypeOK
    <2>2. pc' \in [Procs -> Steps]
        BY <1>22, StepNames DEF ApplyCert, Go, pairs, markers, ghosts, TypeOK
    <2>3. key' \in [Domains -> Nat] /\ cert' \in [Domains -> Nat] /\ version' \in [Domains -> Nat]
          /\ active' \in [Domains -> Nat]
        BY <1>22, LocalFacts, StepNames DEF ApplyCert, Go, pairs, markers, ghosts, TypeOK
    <2>4. \A q \in Procs : pc'[q] \in IssueSteps <=> holder' = q
        BY <1>22, StepNames, NoneIsNobody DEF ApplyCert, Go, pairs, markers, ghosts, TypeOK
    <2> QED
        BY <1>22, DeliveryBounds, DomainFacts, LocalFacts, StepNames, <2>1, <2>2, <2>3, <2>4
        DEF TypeOK, ApplyCert, Go, pairs, markers, ghosts
<1>23. ASSUME NEW p \in Procs, ClearPending(p) PROVE TypeOK'
    <2>1. cur' \in [Procs -> Local]
        BY <1>23, IdleIsLocal, LocalFacts, DomainFacts, Leaving
        DEF ClearPending, pairs, markers, ghosts, TypeOK, Left
    <2>2. pc' \in [Procs -> Steps]
        BY <1>23, StepNames, Leaving DEF ClearPending, pairs, markers, ghosts, TypeOK, Left
    <2>3. key' \in [Domains -> Nat] /\ cert' \in [Domains -> Nat] /\ version' \in [Domains -> Nat]
          /\ active' \in [Domains -> Nat]
        BY <1>23, LocalFacts, StepNames DEF ClearPending, pairs, markers, ghosts, TypeOK
    <2>4. \A q \in Procs : pc'[q] \in IssueSteps <=> holder' = q
        BY <1>23, StepNames, NoneIsNobody, Leaving
        DEF ClearPending, pairs, markers, ghosts, TypeOK, Left
    <2> QED
        BY <1>23, DeliveryBounds, DomainFacts, LocalFacts, StepNames, Leaving, <2>1, <2>2, <2>3,
           <2>4 DEF TypeOK, ClearPending, pairs, markers, ghosts, Left
<1>24. ASSUME NEW p \in Procs, installNode(p) PROVE TypeOK'
    <2>1. cur' \in [Procs -> Local]
        BY <1>24, IdleIsLocal, LocalFacts, DomainFacts
        DEF installNode, Go, pairs, markers, ghosts, TypeOK
    <2>2. pc' \in [Procs -> Steps]
        BY <1>24, StepNames DEF installNode, Go, pairs, markers, ghosts, TypeOK
    <2>3. key' \in [Domains -> Nat] /\ cert' \in [Domains -> Nat] /\ version' \in [Domains -> Nat]
          /\ active' \in [Domains -> Nat]
        BY <1>24, LocalFacts, StepNames DEF installNode, Go, pairs, markers, ghosts, TypeOK
    <2>4. \A q \in Procs : pc'[q] \in IssueSteps <=> holder' = q
        BY <1>24, StepNames, NoneIsNobody DEF installNode, Go, pairs, markers, ghosts, TypeOK
    <2> QED
        BY <1>24, DeliveryBounds, DomainFacts, LocalFacts, StepNames, <2>1, <2>2, <2>3, <2>4
        DEF TypeOK, installNode, Go, pairs, markers, ghosts
<1>25. ASSUME NEW p \in Procs, CommitNode(p) PROVE TypeOK'
    <2>1. cur' \in [Procs -> Local]
        BY <1>25, IdleIsLocal, LocalFacts, DomainFacts, Leaving
        DEF CommitNode, pairs, markers, ghosts, TypeOK, Left
    <2>2. pc' \in [Procs -> Steps]
        BY <1>25, StepNames, Leaving DEF CommitNode, pairs, markers, ghosts, TypeOK, Left
    <2>3. key' \in [Domains -> Nat] /\ cert' \in [Domains -> Nat] /\ version' \in [Domains -> Nat]
          /\ active' \in [Domains -> Nat]
        BY <1>25, LocalFacts, StepNames DEF CommitNode, pairs, markers, ghosts, TypeOK
    <2>4. \A q \in Procs : pc'[q] \in IssueSteps <=> holder' = q
        BY <1>25, StepNames, NoneIsNobody, Leaving
        DEF CommitNode, pairs, markers, ghosts, TypeOK, Left
    <2>5. cur[p].dom \in Spokes
        BY <1>25 DEF CommitNode, OpInv
    <2> QED
        BY <1>25, DeliveryBounds, DomainFacts, LocalFacts, StepNames, Leaving, <2>1, <2>2, <2>3,
           <2>4, <2>5 DEF TypeOK, CommitNode, pairs, markers, ghosts, Left
<1>26. ASSUME NEW p \in Procs, RetryFails(p) PROVE TypeOK'
    <2>1. cur' \in [Procs -> Local]
        BY <1>26, IdleIsLocal, LocalFacts, DomainFacts, Leaving
        DEF RetryFails, Go, Fault, pairs, markers, ghosts, TypeOK, Left
    <2>2. pc' \in [Procs -> Steps]
        BY <1>26, StepNames, Leaving
        DEF RetryFails, Go, Fault, pairs, markers, ghosts, TypeOK, Left
    <2>3. key' \in [Domains -> Nat] /\ cert' \in [Domains -> Nat] /\ version' \in [Domains -> Nat]
          /\ active' \in [Domains -> Nat]
        BY <1>26, LocalFacts, StepNames
        DEF RetryFails, Go, Fault, pairs, markers, ghosts, TypeOK
    <2>4. \A q \in Procs : pc'[q] \in IssueSteps <=> holder' = q
        BY <1>26, StepNames, NoneIsNobody, Leaving
        DEF RetryFails, Go, Fault, pairs, markers, ghosts, TypeOK, Left
    <2> QED
        BY <1>26, DeliveryBounds, DomainFacts, LocalFacts, StepNames, Leaving, <2>1, <2>2, <2>3,
           <2>4 DEF TypeOK, RetryFails, Go, Fault, pairs, markers, ghosts, Left
<1>27. ASSUME NEW p \in Procs, IssueFails(p) PROVE TypeOK'
    <2>1. cur' \in [Procs -> Local]
        BY <1>27, IdleIsLocal, LocalFacts, DomainFacts, Leaving
        DEF IssueFails, Fault, pairs, markers, ghosts, TypeOK, Left
    <2>2. pc' \in [Procs -> Steps]
        BY <1>27, StepNames, Leaving DEF IssueFails, Fault, pairs, markers, ghosts, TypeOK, Left
    <2>3. key' \in [Domains -> Nat] /\ cert' \in [Domains -> Nat] /\ version' \in [Domains -> Nat]
          /\ active' \in [Domains -> Nat]
        BY <1>27, LocalFacts, StepNames DEF IssueFails, Fault, pairs, markers, ghosts, TypeOK
    <2>4. \A q \in Procs : pc'[q] \in IssueSteps <=> holder' = q
        BY <1>27, StepNames, NoneIsNobody, Leaving
        DEF IssueFails, Fault, pairs, markers, ghosts, TypeOK, Left
    <2> QED
        BY <1>27, DeliveryBounds, DomainFacts, LocalFacts, StepNames, Leaving, <2>1, <2>2, <2>3,
           <2>4 DEF TypeOK, IssueFails, Fault, pairs, markers, ghosts, Left
<1>28. ASSUME NEW p \in Procs, WriteCertFails(p) PROVE TypeOK'
    <2>1. cur' \in [Procs -> Local]
        BY <1>28, IdleIsLocal, LocalFacts, DomainFacts, Leaving
        DEF WriteCertFails, Fault, pairs, markers, ghosts, TypeOK, Left
    <2>2. pc' \in [Procs -> Steps]
        BY <1>28, StepNames, Leaving
        DEF WriteCertFails, Fault, pairs, markers, ghosts, TypeOK, Left
    <2>3. key' \in [Domains -> Nat] /\ cert' \in [Domains -> Nat] /\ version' \in [Domains -> Nat]
          /\ active' \in [Domains -> Nat]
        BY <1>28, LocalFacts, StepNames
        DEF WriteCertFails, Fault, pairs, markers, ghosts, TypeOK
    <2>4. \A q \in Procs : pc'[q] \in IssueSteps <=> holder' = q
        BY <1>28, StepNames, NoneIsNobody, Leaving
        DEF WriteCertFails, Fault, pairs, markers, ghosts, TypeOK, Left
    <2> QED
        BY <1>28, DeliveryBounds, DomainFacts, LocalFacts, StepNames, Leaving, <2>1, <2>2, <2>3,
           <2>4 DEF TypeOK, WriteCertFails, Fault, pairs, markers, ghosts, Left
<1>29. ASSUME NEW p \in Procs, RegisterFails(p) PROVE TypeOK'
    <2>1. cur' \in [Procs -> Local]
        BY <1>29, IdleIsLocal, LocalFacts, DomainFacts, Leaving
        DEF RegisterFails, Fault, pairs, markers, ghosts, TypeOK, Left
    <2>2. pc' \in [Procs -> Steps]
        BY <1>29, StepNames, Leaving
        DEF RegisterFails, Fault, pairs, markers, ghosts, TypeOK, Left
    <2>3. key' \in [Domains -> Nat] /\ cert' \in [Domains -> Nat] /\ version' \in [Domains -> Nat]
          /\ active' \in [Domains -> Nat]
        BY <1>29, LocalFacts, StepNames DEF RegisterFails, Fault, pairs, markers, ghosts, TypeOK
    <2>4. \A q \in Procs : pc'[q] \in IssueSteps <=> holder' = q
        BY <1>29, StepNames, NoneIsNobody, Leaving
        DEF RegisterFails, Fault, pairs, markers, ghosts, TypeOK, Left
    <2> QED
        BY <1>29, DeliveryBounds, DomainFacts, LocalFacts, StepNames, Leaving, <2>1, <2>2, <2>3,
           <2>4 DEF TypeOK, RegisterFails, Fault, pairs, markers, ghosts, Left
<1>30. ASSUME NEW p \in Procs, MarkFails(p) PROVE TypeOK'
    <2>1. cur' \in [Procs -> Local]
        BY <1>30, IdleIsLocal, LocalFacts, DomainFacts, Leaving
        DEF MarkFails, Go, Fault, pairs, markers, ghosts, TypeOK, Left
    <2>2. pc' \in [Procs -> Steps]
        BY <1>30, StepNames, Leaving
        DEF MarkFails, Go, Fault, pairs, markers, ghosts, TypeOK, Left
    <2>3. key' \in [Domains -> Nat] /\ cert' \in [Domains -> Nat] /\ version' \in [Domains -> Nat]
          /\ active' \in [Domains -> Nat]
        BY <1>30, LocalFacts, StepNames DEF MarkFails, Go, Fault, pairs, markers, ghosts, TypeOK
    <2>4. \A q \in Procs : pc'[q] \in IssueSteps <=> holder' = q
        BY <1>30, StepNames, NoneIsNobody, Leaving
        DEF MarkFails, Go, Fault, pairs, markers, ghosts, TypeOK, Left
    <2> QED
        BY <1>30, DeliveryBounds, DomainFacts, LocalFacts, StepNames, Leaving, <2>1, <2>2, <2>3,
           <2>4 DEF TypeOK, MarkFails, Go, Fault, pairs, markers, ghosts, Left
<1>31. ASSUME NEW p \in Procs, ApplyCertFails(p) PROVE TypeOK'
    <2>1. cur' \in [Procs -> Local]
        BY <1>31, IdleIsLocal, LocalFacts, DomainFacts, Leaving
        DEF ApplyCertFails, Fault, pairs, markers, ghosts, TypeOK, Left
    <2>2. pc' \in [Procs -> Steps]
        BY <1>31, StepNames, Leaving
        DEF ApplyCertFails, Fault, pairs, markers, ghosts, TypeOK, Left
    <2>3. key' \in [Domains -> Nat] /\ cert' \in [Domains -> Nat] /\ version' \in [Domains -> Nat]
          /\ active' \in [Domains -> Nat]
        BY <1>31, LocalFacts, StepNames
        DEF ApplyCertFails, Fault, pairs, markers, ghosts, TypeOK
    <2>4. \A q \in Procs : pc'[q] \in IssueSteps <=> holder' = q
        BY <1>31, StepNames, NoneIsNobody, Leaving
        DEF ApplyCertFails, Fault, pairs, markers, ghosts, TypeOK, Left
    <2> QED
        BY <1>31, DeliveryBounds, DomainFacts, LocalFacts, StepNames, Leaving, <2>1, <2>2, <2>3,
           <2>4 DEF TypeOK, ApplyCertFails, Fault, pairs, markers, ghosts, Left
<1>32. ASSUME NEW p \in Procs, DeliveryFails(p) PROVE TypeOK'
    <2>1. cur' \in [Procs -> Local]
        BY <1>32, IdleIsLocal, LocalFacts, DomainFacts, Leaving
        DEF DeliveryFails, Fault, pairs, markers, ghosts, TypeOK, Left
    <2>2. pc' \in [Procs -> Steps]
        BY <1>32, StepNames, Leaving
        DEF DeliveryFails, Fault, pairs, markers, ghosts, TypeOK, Left
    <2>3. key' \in [Domains -> Nat] /\ cert' \in [Domains -> Nat] /\ version' \in [Domains -> Nat]
          /\ active' \in [Domains -> Nat]
        BY <1>32, LocalFacts, StepNames DEF DeliveryFails, Fault, pairs, markers, ghosts, TypeOK
    <2>4. \A q \in Procs : pc'[q] \in IssueSteps <=> holder' = q
        BY <1>32, StepNames, NoneIsNobody, Leaving
        DEF DeliveryFails, Fault, pairs, markers, ghosts, TypeOK, Left
    <2> QED
        BY <1>32, DeliveryBounds, DomainFacts, LocalFacts, StepNames, Leaving, <2>1, <2>2, <2>3,
           <2>4 DEF TypeOK, DeliveryFails, Fault, pairs, markers, ghosts, Left
<1>33. ASSUME NEW p \in Procs, installNodeFails(p) PROVE TypeOK'
    <2>1. cur' \in [Procs -> Local]
        BY <1>33, IdleIsLocal, LocalFacts, DomainFacts, Leaving
        DEF installNodeFails, Fault, pairs, markers, ghosts, TypeOK, Left
    <2>2. pc' \in [Procs -> Steps]
        BY <1>33, StepNames, Leaving
        DEF installNodeFails, Fault, pairs, markers, ghosts, TypeOK, Left
    <2>3. key' \in [Domains -> Nat] /\ cert' \in [Domains -> Nat] /\ version' \in [Domains -> Nat]
          /\ active' \in [Domains -> Nat]
        BY <1>33, LocalFacts, StepNames
        DEF installNodeFails, Fault, pairs, markers, ghosts, TypeOK
    <2>4. \A q \in Procs : pc'[q] \in IssueSteps <=> holder' = q
        BY <1>33, StepNames, NoneIsNobody, Leaving
        DEF installNodeFails, Fault, pairs, markers, ghosts, TypeOK, Left
    <2> QED
        BY <1>33, DeliveryBounds, DomainFacts, LocalFacts, StepNames, Leaving, <2>1, <2>2, <2>3,
           <2>4 DEF TypeOK, installNodeFails, Fault, pairs, markers, ghosts, Left
<1>34. ASSUME NEW p \in Procs, Crash(p) PROVE TypeOK'
    <2>1. cur' \in [Procs -> Local]
        BY <1>34, IdleIsLocal, LocalFacts, DomainFacts, Leaving
        DEF Crash, Fault, pairs, markers, ghosts, TypeOK, Left
    <2>2. pc' \in [Procs -> Steps]
        BY <1>34, StepNames, Leaving DEF Crash, Fault, pairs, markers, ghosts, TypeOK, Left
    <2>3. key' \in [Domains -> Nat] /\ cert' \in [Domains -> Nat] /\ version' \in [Domains -> Nat]
          /\ active' \in [Domains -> Nat]
        BY <1>34, LocalFacts, StepNames DEF Crash, Fault, pairs, markers, ghosts, TypeOK
    <2>4. \A q \in Procs : pc'[q] \in IssueSteps <=> holder' = q
        BY <1>34, StepNames, NoneIsNobody, Leaving
        DEF Crash, Fault, pairs, markers, ghosts, TypeOK, Left
    <2> QED
        BY <1>34, DeliveryBounds, DomainFacts, LocalFacts, StepNames, Leaving, <2>1, <2>2, <2>3,
           <2>4 DEF TypeOK, Crash, Fault, pairs, markers, ghosts, Left
<1>35. CASE UNCHANGED vars
    BY <1>35 DEF TypeOK, Steps, vars, pairs, markers, ghosts
<1> QED
    BY <1>1, <1>2, <1>3, <1>4, <1>5, <1>6, <1>7, <1>8, <1>9, <1>10, <1>11, <1>12, <1>13,
           <1>14, <1>15, <1>16, <1>17, <1>18, <1>19, <1>20, <1>21, <1>22, <1>23, <1>24, <1>25,
           <1>26, <1>27, <1>28, <1>29, <1>30, <1>31, <1>32, <1>33, <1>34, <1>35, StartActions,
           TimerIsAProcess DEF Next, Step, Fail
(* Each step keeps which operation is at which step.                       *)
LEMMA NextOpInv ==
    TypeOK /\ OpInv /\ [Next]_vars => OpInv'
<1> SUFFICES ASSUME TypeOK, OpInv, [Next]_vars
             PROVE  OpInv'
    OBVIOUS
<1>1. ASSUME NEW e \in Domains, Expire(e) PROVE OpInv'
    BY <1>1, StepNames, IdleIsLocal, LocalFacts, DomainFacts, NoneIsNobody, HubIsNoSpoke
    DEF TypeOK, OpInv, Expire, Event, pairs, markers, ghosts
<1>2. ASSUME NEW p \in Procs, runCert(p) PROVE OpInv'
    BY <1>2, StepNames, IdleIsLocal, LocalFacts, DomainFacts, NoneIsNobody, HubIsNoSpoke
    DEF TypeOK, OpInv, runCert, Begin, Go, Idle, pairs, markers, ghosts
<1>3. ASSUME NEW p \in Procs, NEW ds \in SUBSET Domains, forceRenew(p, ds) PROVE OpInv'
    BY <1>3, StepNames, IdleIsLocal, LocalFacts, DomainFacts, NoneIsNobody, HubIsNoSpoke
    DEF TypeOK, OpInv, forceRenew, Begin, Go, Event, Idle, pairs, markers, ghosts
<1>4. ASSUME NEW p \in Procs, NEW n \in Spokes, JoinNode(p, n) PROVE OpInv'
    BY <1>4, StepNames, IdleIsLocal, LocalFacts, DomainFacts, NoneIsNobody, HubIsNoSpoke
    DEF TypeOK, OpInv, JoinNode, Begin, Go, Claim, Others, Idle, pairs, markers, ghosts
<1>5. ASSUME NEW p \in Procs, NEW n \in Spokes, CheckHealth(p, n) PROVE OpInv'
    BY <1>5, StepNames, IdleIsLocal, LocalFacts, DomainFacts, NoneIsNobody, HubIsNoSpoke
    DEF TypeOK, OpInv, CheckHealth, Begin, Go, Claim, Others, Idle, pairs, markers, ghosts
<1>6. ASSUME NEW p \in Procs, RetryHub(p) PROVE OpInv'
    <2>1. /\ \A q \in Procs \ {p} : pc'[q] = pc[q] /\ cur'[q] = cur[q]
          /\ installed' = installed /\ pc[p] = "retryHub"
          /\ pc'[p] \in {"hubRestart", "retryLoad"}
        BY <1>6 DEF RetryHub, Go, TypeOK, markers
    <2>2. /\ cur'[p].op = cur[p].op /\ cur'[p].phase = cur[p].phase /\ cur'[p].work = cur[p].work
          /\ pc'[p] = "hubRestart" => cur'[p].dom = Hub
        BY <1>6 DEF RetryHub, Go, TypeOK, Local
    <2>3. cur'[p].op # "join"
        BY <2>1, <2>2, StepNames DEF OpInv
    <2>4. pc'[p] \in AtDomain => pc'[p] = "hubRestart"
        BY <2>1, StepNames
    <2>5. Hub # None
        BY NoneIsNobody
    <2> QED
        BY <2>1, <2>2, <2>3, <2>4, <2>5 DEF OpInv
<1>7. ASSUME NEW p \in Procs, RetryLoad(p) PROVE OpInv'
    BY <1>7, StepNames, IdleIsLocal, LocalFacts, DomainFacts, NoneIsNobody, HubIsNoSpoke
    DEF TypeOK, OpInv, RetryLoad, Go, pairs, markers, ghosts
<1>8. ASSUME NEW p \in Procs, Inventory(p) PROVE OpInv'
    BY <1>8, StepNames, IdleIsLocal, LocalFacts, DomainFacts, NoneIsNobody, HubIsNoSpoke
    DEF TypeOK, OpInv, Inventory, Go, pairs, markers, ghosts
<1>9. ASSUME NEW p \in Procs, NEW e \in Domains, NextTarget(p, e) PROVE OpInv'
    BY <1>9, StepNames, IdleIsLocal, LocalFacts, DomainFacts, NoneIsNobody, HubIsNoSpoke
    DEF TypeOK, OpInv, NextTarget, Go, Claim, Others, pairs, markers, ghosts
<1>10. ASSUME NEW p \in Procs, NoMoreTargets(p) PROVE OpInv'
    BY <1>10, StepNames, IdleIsLocal, LocalFacts, DomainFacts, NoneIsNobody, HubIsNoSpoke,
           Leaving DEF TypeOK, OpInv, NoMoreTargets, Go, pairs, markers, ghosts, Left
<1>11. ASSUME NEW p \in Procs, lockIssuance(p) PROVE OpInv'
    BY <1>11, StepNames, IdleIsLocal, LocalFacts, DomainFacts, NoneIsNobody, HubIsNoSpoke
    DEF TypeOK, OpInv, lockIssuance, Go, pairs, markers, ghosts
<1>12. ASSUME NEW p \in Procs, Recheck(p) PROVE OpInv'
    BY <1>12, StepNames, IdleIsLocal, LocalFacts, DomainFacts, NoneIsNobody, HubIsNoSpoke,
           Leaving DEF TypeOK, OpInv, Recheck, Go, pairs, markers, ghosts, Left
<1>13. ASSUME NEW p \in Procs, Obtain(p) PROVE OpInv'
    BY <1>13, StepNames, IdleIsLocal, LocalFacts, DomainFacts, NoneIsNobody, HubIsNoSpoke
    DEF TypeOK, OpInv, Obtain, Go, pairs, markers, ghosts
<1>14. ASSUME NEW p \in Procs, WriteKey(p) PROVE OpInv'
    BY <1>14, StepNames, IdleIsLocal, LocalFacts, DomainFacts, NoneIsNobody, HubIsNoSpoke
    DEF TypeOK, OpInv, WriteKey, Go, pairs, markers, ghosts
<1>15. ASSUME NEW p \in Procs, WriteCert(p) PROVE OpInv'
    BY <1>15, StepNames, IdleIsLocal, LocalFacts, DomainFacts, NoneIsNobody, HubIsNoSpoke
    DEF TypeOK, OpInv, WriteCert, Go, Others, pairs, markers, ghosts
<1>16. ASSUME NEW p \in Procs, Register(p) PROVE OpInv'
    BY <1>16, StepNames, IdleIsLocal, LocalFacts, DomainFacts, NoneIsNobody, HubIsNoSpoke
    DEF TypeOK, OpInv, Register, Go, pairs, markers, ghosts
<1>17. ASSUME NEW p \in Procs, MarkPending(p) PROVE OpInv'
    BY <1>17, StepNames, IdleIsLocal, LocalFacts, DomainFacts, NoneIsNobody, HubIsNoSpoke,
           Leaving DEF TypeOK, OpInv, MarkPending, Go, pairs, markers, ghosts, Left
<1>18. ASSUME NEW p \in Procs, HubRestart(p) PROVE OpInv'
    BY <1>18, StepNames, IdleIsLocal, LocalFacts, DomainFacts, NoneIsNobody, HubIsNoSpoke,
           Leaving DEF TypeOK, OpInv, HubRestart, Go, pairs, markers, ghosts, Left
<1>19. ASSUME NEW p \in Procs, HubClear(p) PROVE OpInv'
    BY <1>19, StepNames, IdleIsLocal, LocalFacts, DomainFacts, NoneIsNobody, HubIsNoSpoke,
           Leaving DEF TypeOK, OpInv, HubClear, pairs, markers, ghosts, Left
<1>20. ASSUME NEW p \in Procs, probeAgent(p) PROVE OpInv'
    BY <1>20, StepNames, IdleIsLocal, LocalFacts, DomainFacts, NoneIsNobody, HubIsNoSpoke,
           Leaving DEF TypeOK, OpInv, probeAgent, Go, pairs, markers, ghosts, Left
<1>21. ASSUME NEW p \in Procs, readCertPair(p) PROVE OpInv'
    <2>1. installed' = installed
        BY <1>21 DEF readCertPair, markers
    <2>2. CASE Leave(p)
        BY <2>1, <2>2, <1>21, Leaving, StepNames DEF OpInv, Left
    <2>3. CASE ~Leave(p)
        <3>1. \A q \in Procs \ {p} : pc'[q] = pc[q] /\ cur'[q] = cur[q]
            BY <1>21, <2>3 DEF readCertPair, Go, TypeOK
        <3>2. /\ cur'[p].op = cur[p].op /\ cur'[p].phase = cur[p].phase /\ cur'[p].work = cur[p].work
              /\ cur'[p].dom = cur[p].dom
              /\ pc'[p] = IF cur[p].op = "join" THEN "install" ELSE "send"
            BY <1>21, <2>3 DEF readCertPair, Go, TypeOK, Local
        <3>3. pc[p] = "read"
            BY <1>21 DEF readCertPair
        <3> QED
            BY <2>1, <3>1, <3>2, <3>3, StepNames DEF OpInv
    <2> QED
        BY <2>2, <2>3
<1>22. ASSUME NEW p \in Procs, ApplyCert(p) PROVE OpInv'
    BY <1>22, StepNames, IdleIsLocal, LocalFacts, DomainFacts, NoneIsNobody, HubIsNoSpoke
    DEF TypeOK, OpInv, ApplyCert, Go, pairs, markers, ghosts
<1>23. ASSUME NEW p \in Procs, ClearPending(p) PROVE OpInv'
    BY <1>23, StepNames, IdleIsLocal, LocalFacts, DomainFacts, NoneIsNobody, HubIsNoSpoke,
           Leaving DEF TypeOK, OpInv, ClearPending, pairs, markers, ghosts, Left
<1>24. ASSUME NEW p \in Procs, installNode(p) PROVE OpInv'
    BY <1>24, StepNames, IdleIsLocal, LocalFacts, DomainFacts, NoneIsNobody, HubIsNoSpoke
    DEF TypeOK, OpInv, installNode, Go, pairs, markers, ghosts
<1>25. ASSUME NEW p \in Procs, CommitNode(p) PROVE OpInv'
    BY <1>25, StepNames, IdleIsLocal, LocalFacts, DomainFacts, NoneIsNobody, HubIsNoSpoke,
           Leaving DEF TypeOK, OpInv, CommitNode, pairs, markers, ghosts, Left
<1>26. ASSUME NEW p \in Procs, RetryFails(p) PROVE OpInv'
    BY <1>26, StepNames, IdleIsLocal, LocalFacts, DomainFacts, NoneIsNobody, HubIsNoSpoke,
           Leaving DEF TypeOK, OpInv, RetryFails, Go, Fault, pairs, markers, ghosts, Left
<1>27. ASSUME NEW p \in Procs, IssueFails(p) PROVE OpInv'
    BY <1>27, StepNames, IdleIsLocal, LocalFacts, DomainFacts, NoneIsNobody, HubIsNoSpoke,
           Leaving DEF TypeOK, OpInv, IssueFails, Fault, pairs, markers, ghosts, Left
<1>28. ASSUME NEW p \in Procs, WriteCertFails(p) PROVE OpInv'
    BY <1>28, StepNames, IdleIsLocal, LocalFacts, DomainFacts, NoneIsNobody, HubIsNoSpoke,
           Leaving DEF TypeOK, OpInv, WriteCertFails, Fault, pairs, markers, ghosts, Left
<1>29. ASSUME NEW p \in Procs, RegisterFails(p) PROVE OpInv'
    BY <1>29, StepNames, IdleIsLocal, LocalFacts, DomainFacts, NoneIsNobody, HubIsNoSpoke,
           Leaving DEF TypeOK, OpInv, RegisterFails, Fault, pairs, markers, ghosts, Left
<1>30. ASSUME NEW p \in Procs, MarkFails(p) PROVE OpInv'
    BY <1>30, StepNames, IdleIsLocal, LocalFacts, DomainFacts, NoneIsNobody, HubIsNoSpoke,
           Leaving DEF TypeOK, OpInv, MarkFails, Go, Fault, pairs, markers, ghosts, Left
<1>31. ASSUME NEW p \in Procs, ApplyCertFails(p) PROVE OpInv'
    BY <1>31, StepNames, IdleIsLocal, LocalFacts, DomainFacts, NoneIsNobody, HubIsNoSpoke,
           Leaving DEF TypeOK, OpInv, ApplyCertFails, Fault, pairs, markers, ghosts, Left
<1>32. ASSUME NEW p \in Procs, DeliveryFails(p) PROVE OpInv'
    BY <1>32, StepNames, IdleIsLocal, LocalFacts, DomainFacts, NoneIsNobody, HubIsNoSpoke,
           Leaving DEF TypeOK, OpInv, DeliveryFails, Fault, pairs, markers, ghosts, Left
<1>33. ASSUME NEW p \in Procs, installNodeFails(p) PROVE OpInv'
    BY <1>33, StepNames, IdleIsLocal, LocalFacts, DomainFacts, NoneIsNobody, HubIsNoSpoke,
           Leaving DEF TypeOK, OpInv, installNodeFails, Fault, pairs, markers, ghosts, Left
<1>34. ASSUME NEW p \in Procs, Crash(p) PROVE OpInv'
    BY <1>34, StepNames, IdleIsLocal, LocalFacts, DomainFacts, NoneIsNobody, HubIsNoSpoke,
           Leaving DEF TypeOK, OpInv, Crash, Fault, pairs, markers, ghosts, Left
<1>35. CASE UNCHANGED vars
    BY <1>35 DEF TypeOK, OpInv, vars, pairs, markers, ghosts
<1> QED
    BY <1>1, <1>2, <1>3, <1>4, <1>5, <1>6, <1>7, <1>8, <1>9, <1>10, <1>11, <1>12, <1>13,
           <1>14, <1>15, <1>16, <1>17, <1>18, <1>19, <1>20, <1>21, <1>22, <1>23, <1>24, <1>25,
           <1>26, <1>27, <1>28, <1>29, <1>30, <1>31, <1>32, <1>33, <1>34, <1>35, StartActions,
           TimerIsAProcess DEF Next, Step, Fail
(* A process turns to a domain only with a look at who else is there.      *)
LEMMA NextSoloInv ==
    TypeOK /\ OpInv /\ SoloInv /\ [Next]_vars => SoloInv'
<1> SUFFICES ASSUME TypeOK, OpInv, SoloInv, [Next]_vars
             PROVE  SoloInv'
    OBVIOUS
<1>1. ASSUME NEW e \in Domains, Expire(e) PROVE SoloInv'
    BY <1>1, IdleIsLocal, LocalFacts DEF TypeOK, SoloInv, Expire, Event, pairs, markers, ghosts
<1>2. ASSUME NEW p \in Procs, runCert(p) PROVE SoloInv'
    BY <1>2, IdleIsLocal, LocalFacts
    DEF TypeOK, SoloInv, runCert, Begin, Go, Idle, pairs, markers, ghosts
<1>3. ASSUME NEW p \in Procs, NEW ds \in SUBSET Domains, forceRenew(p, ds) PROVE SoloInv'
    BY <1>3, IdleIsLocal, LocalFacts
    DEF TypeOK, SoloInv, forceRenew, Begin, Go, Event, Idle, pairs, markers, ghosts
<1>4. ASSUME NEW p \in Procs, NEW n \in Spokes, JoinNode(p, n) PROVE SoloInv'
    BY <1>4, IdleIsLocal, LocalFacts
    DEF TypeOK, SoloInv, JoinNode, Begin, Go, Claim, Others, Idle, pairs, markers, ghosts
<1>5. ASSUME NEW p \in Procs, NEW n \in Spokes, CheckHealth(p, n) PROVE SoloInv'
    BY <1>5, IdleIsLocal, LocalFacts
    DEF TypeOK, SoloInv, CheckHealth, Begin, Go, Claim, Others, Idle, pairs, markers, ghosts
<1>6. ASSUME NEW p \in Procs, RetryHub(p) PROVE SoloInv'
    <2>1. CASE hubPend
        <3>1. /\ \A q \in Procs \ {p} : cur'[q] = cur[q]
              /\ cur'[p].dom = Hub
              /\ contended' = IF {q \in Procs \ {p} : cur[q].dom = Hub} = {}
                                THEN contended ELSE contended \cup {Hub}
            BY <1>6, <2>1 DEF RetryHub, TypeOK, Local, Claim, Others
        <3> QED
            BY <3>1 DEF SoloInv
    <2>2. CASE ~hubPend
        BY <1>6, <2>2 DEF RetryHub, SoloInv
    <2> QED
        BY <2>1, <2>2
<1>7. ASSUME NEW p \in Procs, RetryLoad(p) PROVE SoloInv'
    BY <1>7, IdleIsLocal, LocalFacts DEF TypeOK, SoloInv, RetryLoad, Go, pairs, markers, ghosts
<1>8. ASSUME NEW p \in Procs, Inventory(p) PROVE SoloInv'
    BY <1>8, IdleIsLocal, LocalFacts DEF TypeOK, SoloInv, Inventory, Go, pairs, markers, ghosts
<1>9. ASSUME NEW p \in Procs, NEW e \in Domains, NextTarget(p, e) PROVE SoloInv'
    BY <1>9, IdleIsLocal, LocalFacts
    DEF TypeOK, SoloInv, NextTarget, Go, Claim, Others, pairs, markers, ghosts
<1>10. ASSUME NEW p \in Procs, NoMoreTargets(p) PROVE SoloInv'
    BY <1>10, IdleIsLocal, LocalFacts, Leaving
    DEF TypeOK, SoloInv, NoMoreTargets, Go, pairs, markers, ghosts, Left
<1>11. ASSUME NEW p \in Procs, lockIssuance(p) PROVE SoloInv'
    BY <1>11, IdleIsLocal, LocalFacts
    DEF TypeOK, SoloInv, lockIssuance, Go, pairs, markers, ghosts
<1>12. ASSUME NEW p \in Procs, Recheck(p) PROVE SoloInv'
    BY <1>12, IdleIsLocal, LocalFacts, Leaving
    DEF TypeOK, SoloInv, Recheck, Go, pairs, markers, ghosts, Left
<1>13. ASSUME NEW p \in Procs, Obtain(p) PROVE SoloInv'
    BY <1>13, IdleIsLocal, LocalFacts DEF TypeOK, SoloInv, Obtain, Go, pairs, markers, ghosts
<1>14. ASSUME NEW p \in Procs, WriteKey(p) PROVE SoloInv'
    BY <1>14, IdleIsLocal, LocalFacts DEF TypeOK, SoloInv, WriteKey, Go, pairs, markers, ghosts
<1>15. ASSUME NEW p \in Procs, WriteCert(p) PROVE SoloInv'
    BY <1>15, IdleIsLocal, LocalFacts
    DEF TypeOK, SoloInv, WriteCert, Go, Others, pairs, markers, ghosts
<1>16. ASSUME NEW p \in Procs, Register(p) PROVE SoloInv'
    BY <1>16, IdleIsLocal, LocalFacts DEF TypeOK, SoloInv, Register, Go, pairs, markers, ghosts
<1>17. ASSUME NEW p \in Procs, MarkPending(p) PROVE SoloInv'
    BY <1>17, IdleIsLocal, LocalFacts, Leaving
    DEF TypeOK, SoloInv, MarkPending, Go, pairs, markers, ghosts, Left
<1>18. ASSUME NEW p \in Procs, HubRestart(p) PROVE SoloInv'
    BY <1>18, IdleIsLocal, LocalFacts, Leaving
    DEF TypeOK, SoloInv, HubRestart, Go, pairs, markers, ghosts, Left
<1>19. ASSUME NEW p \in Procs, HubClear(p) PROVE SoloInv'
    BY <1>19, IdleIsLocal, LocalFacts, Leaving
    DEF TypeOK, SoloInv, HubClear, pairs, markers, ghosts, Left
<1>20. ASSUME NEW p \in Procs, probeAgent(p) PROVE SoloInv'
    BY <1>20, IdleIsLocal, LocalFacts, Leaving
    DEF TypeOK, SoloInv, probeAgent, Go, pairs, markers, ghosts, Left
<1>21. ASSUME NEW p \in Procs, readCertPair(p) PROVE SoloInv'
    <2>1. contended' = contended
        BY <1>21 DEF readCertPair, ghosts
    <2>2. CASE Leave(p)
        BY <2>1, <2>2, Leaving DEF SoloInv, Left
    <2>3. CASE ~Leave(p)
        <3>1. \A q \in Procs : cur'[q].dom = cur[q].dom
            BY <1>21, <2>3 DEF readCertPair, TypeOK, Local
        <3> QED
            BY <2>1, <3>1 DEF SoloInv
    <2> QED
        BY <2>2, <2>3
<1>22. ASSUME NEW p \in Procs, ApplyCert(p) PROVE SoloInv'
    BY <1>22, IdleIsLocal, LocalFacts DEF TypeOK, SoloInv, ApplyCert, Go, pairs, markers, ghosts
<1>23. ASSUME NEW p \in Procs, ClearPending(p) PROVE SoloInv'
    BY <1>23, IdleIsLocal, LocalFacts, Leaving
    DEF TypeOK, SoloInv, ClearPending, pairs, markers, ghosts, Left
<1>24. ASSUME NEW p \in Procs, installNode(p) PROVE SoloInv'
    BY <1>24, IdleIsLocal, LocalFacts
    DEF TypeOK, SoloInv, installNode, Go, pairs, markers, ghosts
<1>25. ASSUME NEW p \in Procs, CommitNode(p) PROVE SoloInv'
    BY <1>25, IdleIsLocal, LocalFacts, Leaving
    DEF TypeOK, SoloInv, CommitNode, pairs, markers, ghosts, Left
<1>26. ASSUME NEW p \in Procs, RetryFails(p) PROVE SoloInv'
    BY <1>26, IdleIsLocal, LocalFacts, Leaving
    DEF TypeOK, SoloInv, RetryFails, Go, Fault, pairs, markers, ghosts, Left
<1>27. ASSUME NEW p \in Procs, IssueFails(p) PROVE SoloInv'
    BY <1>27, IdleIsLocal, LocalFacts, Leaving
    DEF TypeOK, SoloInv, IssueFails, Fault, pairs, markers, ghosts, Left
<1>28. ASSUME NEW p \in Procs, WriteCertFails(p) PROVE SoloInv'
    BY <1>28, IdleIsLocal, LocalFacts, Leaving
    DEF TypeOK, SoloInv, WriteCertFails, Fault, pairs, markers, ghosts, Left
<1>29. ASSUME NEW p \in Procs, RegisterFails(p) PROVE SoloInv'
    BY <1>29, IdleIsLocal, LocalFacts, Leaving
    DEF TypeOK, SoloInv, RegisterFails, Fault, pairs, markers, ghosts, Left
<1>30. ASSUME NEW p \in Procs, MarkFails(p) PROVE SoloInv'
    BY <1>30, IdleIsLocal, LocalFacts, Leaving
    DEF TypeOK, SoloInv, MarkFails, Go, Fault, pairs, markers, ghosts, Left
<1>31. ASSUME NEW p \in Procs, ApplyCertFails(p) PROVE SoloInv'
    BY <1>31, IdleIsLocal, LocalFacts, Leaving
    DEF TypeOK, SoloInv, ApplyCertFails, Fault, pairs, markers, ghosts, Left
<1>32. ASSUME NEW p \in Procs, DeliveryFails(p) PROVE SoloInv'
    BY <1>32, IdleIsLocal, LocalFacts, Leaving
    DEF TypeOK, SoloInv, DeliveryFails, Fault, pairs, markers, ghosts, Left
<1>33. ASSUME NEW p \in Procs, installNodeFails(p) PROVE SoloInv'
    BY <1>33, IdleIsLocal, LocalFacts, Leaving
    DEF TypeOK, SoloInv, installNodeFails, Fault, pairs, markers, ghosts, Left
<1>34. ASSUME NEW p \in Procs, Crash(p) PROVE SoloInv'
    BY <1>34, IdleIsLocal, LocalFacts, Leaving
    DEF TypeOK, SoloInv, Crash, Fault, pairs, markers, ghosts, Left
<1>35. CASE UNCHANGED vars
    BY <1>35 DEF TypeOK, SoloInv, vars, pairs, markers, ghosts
<1> QED
    BY <1>1, <1>2, <1>3, <1>4, <1>5, <1>6, <1>7, <1>8, <1>9, <1>10, <1>11, <1>12, <1>13,
           <1>14, <1>15, <1>16, <1>17, <1>18, <1>19, <1>20, <1>21, <1>22, <1>23, <1>24, <1>25,
           <1>26, <1>27, <1>28, <1>29, <1>30, <1>31, <1>32, <1>33, <1>34, <1>35, StartActions,
           TimerIsAProcess DEF Next, Step, Fail
(* The lock makes the two renames of a pair one; what cuts them is recorded. *)
LEMMA NextPairInv ==
    TypeOK /\ OpInv /\ PairInv /\ [Next]_vars => PairInv'
<1> SUFFICES ASSUME TypeOK, OpInv, PairInv, [Next]_vars
             PROVE  PairInv'
    OBVIOUS
<1>1. ASSUME NEW e \in Domains, Expire(e) PROVE PairInv'
    BY <1>1, StepNames, LocalFacts, NoneIsNobody
    DEF TypeOK, PairInv, Expire, Event, pairs, markers, ghosts
<1>2. ASSUME NEW p \in Procs, runCert(p) PROVE PairInv'
    BY <1>2, StepNames, LocalFacts, NoneIsNobody
    DEF TypeOK, PairInv, runCert, Begin, Go, Idle, pairs, markers, ghosts
<1>3. ASSUME NEW p \in Procs, NEW ds \in SUBSET Domains, forceRenew(p, ds) PROVE PairInv'
    BY <1>3, StepNames, LocalFacts, NoneIsNobody
    DEF TypeOK, PairInv, forceRenew, Begin, Go, Event, Idle, pairs, markers, ghosts
<1>4. ASSUME NEW p \in Procs, NEW n \in Spokes, JoinNode(p, n) PROVE PairInv'
    BY <1>4, StepNames, LocalFacts, NoneIsNobody
    DEF TypeOK, PairInv, JoinNode, Begin, Go, Claim, Others, Idle, pairs, markers, ghosts
<1>5. ASSUME NEW p \in Procs, NEW n \in Spokes, CheckHealth(p, n) PROVE PairInv'
    BY <1>5, StepNames, LocalFacts, NoneIsNobody
    DEF TypeOK, PairInv, CheckHealth, Begin, Go, Claim, Others, Idle, pairs, markers, ghosts
<1>6. ASSUME NEW p \in Procs, RetryHub(p) PROVE PairInv'
    BY <1>6, StepNames, LocalFacts, NoneIsNobody
    DEF TypeOK, PairInv, RetryHub, Go, Claim, Others, pairs, markers, ghosts
<1>7. ASSUME NEW p \in Procs, RetryLoad(p) PROVE PairInv'
    BY <1>7, StepNames, LocalFacts, NoneIsNobody
    DEF TypeOK, PairInv, RetryLoad, Go, pairs, markers, ghosts
<1>8. ASSUME NEW p \in Procs, Inventory(p) PROVE PairInv'
    BY <1>8, StepNames, LocalFacts, NoneIsNobody
    DEF TypeOK, PairInv, Inventory, Go, pairs, markers, ghosts
<1>9. ASSUME NEW p \in Procs, NEW e \in Domains, NextTarget(p, e) PROVE PairInv'
    BY <1>9, StepNames, LocalFacts, NoneIsNobody
    DEF TypeOK, PairInv, NextTarget, Go, Claim, Others, pairs, markers, ghosts
<1>10. ASSUME NEW p \in Procs, NoMoreTargets(p) PROVE PairInv'
    BY <1>10, StepNames, LocalFacts, NoneIsNobody, Leaving
    DEF TypeOK, PairInv, NoMoreTargets, Go, pairs, markers, ghosts, Left
<1>11. ASSUME NEW p \in Procs, lockIssuance(p) PROVE PairInv'
    BY <1>11, StepNames, LocalFacts, NoneIsNobody
    DEF TypeOK, PairInv, lockIssuance, Go, pairs, markers, ghosts
<1>12. ASSUME NEW p \in Procs, Recheck(p) PROVE PairInv'
    BY <1>12, StepNames, LocalFacts, NoneIsNobody, Leaving
    DEF TypeOK, PairInv, Recheck, Go, pairs, markers, ghosts, Left
<1>13. ASSUME NEW p \in Procs, Obtain(p) PROVE PairInv'
    BY <1>13, StepNames, LocalFacts, NoneIsNobody
    DEF TypeOK, PairInv, Obtain, Go, pairs, markers, ghosts
<1>14. ASSUME NEW p \in Procs, WriteKey(p) PROVE PairInv'
    BY <1>14, StepNames, LocalFacts, NoneIsNobody
    DEF TypeOK, PairInv, WriteKey, Go, pairs, markers, ghosts
<1>15. ASSUME NEW p \in Procs, WriteCert(p) PROVE PairInv'
    BY <1>15, StepNames, LocalFacts, NoneIsNobody
    DEF TypeOK, PairInv, WriteCert, Go, Others, pairs, markers, ghosts
<1>16. ASSUME NEW p \in Procs, Register(p) PROVE PairInv'
    BY <1>16, StepNames, LocalFacts, NoneIsNobody
    DEF TypeOK, PairInv, Register, Go, pairs, markers, ghosts
<1>17. ASSUME NEW p \in Procs, MarkPending(p) PROVE PairInv'
    BY <1>17, StepNames, LocalFacts, NoneIsNobody, Leaving
    DEF TypeOK, PairInv, MarkPending, Go, pairs, markers, ghosts, Left
<1>18. ASSUME NEW p \in Procs, HubRestart(p) PROVE PairInv'
    BY <1>18, StepNames, LocalFacts, NoneIsNobody, Leaving
    DEF TypeOK, PairInv, HubRestart, Go, pairs, markers, ghosts, Left
<1>19. ASSUME NEW p \in Procs, HubClear(p) PROVE PairInv'
    BY <1>19, StepNames, LocalFacts, NoneIsNobody, Leaving
    DEF TypeOK, PairInv, HubClear, pairs, markers, ghosts, Left
<1>20. ASSUME NEW p \in Procs, probeAgent(p) PROVE PairInv'
    BY <1>20, StepNames, LocalFacts, NoneIsNobody, Leaving
    DEF TypeOK, PairInv, probeAgent, Go, pairs, markers, ghosts, Left
<1>21. ASSUME NEW p \in Procs, readCertPair(p) PROVE PairInv'
    BY <1>21, StepNames, LocalFacts, NoneIsNobody, Leaving
    DEF TypeOK, PairInv, readCertPair, Go, pairs, markers, ghosts, Left
<1>22. ASSUME NEW p \in Procs, ApplyCert(p) PROVE PairInv'
    BY <1>22, StepNames, LocalFacts, NoneIsNobody
    DEF TypeOK, PairInv, ApplyCert, Go, pairs, markers, ghosts
<1>23. ASSUME NEW p \in Procs, ClearPending(p) PROVE PairInv'
    BY <1>23, StepNames, LocalFacts, NoneIsNobody, Leaving
    DEF TypeOK, PairInv, ClearPending, pairs, markers, ghosts, Left
<1>24. ASSUME NEW p \in Procs, installNode(p) PROVE PairInv'
    BY <1>24, StepNames, LocalFacts, NoneIsNobody
    DEF TypeOK, PairInv, installNode, Go, pairs, markers, ghosts
<1>25. ASSUME NEW p \in Procs, CommitNode(p) PROVE PairInv'
    BY <1>25, StepNames, LocalFacts, NoneIsNobody, Leaving
    DEF TypeOK, PairInv, CommitNode, pairs, markers, ghosts, Left
<1>26. ASSUME NEW p \in Procs, RetryFails(p) PROVE PairInv'
    BY <1>26, StepNames, LocalFacts, NoneIsNobody, Leaving
    DEF TypeOK, PairInv, RetryFails, Go, Fault, pairs, markers, ghosts, Left
<1>27. ASSUME NEW p \in Procs, IssueFails(p) PROVE PairInv'
    BY <1>27, StepNames, LocalFacts, NoneIsNobody, Leaving
    DEF TypeOK, PairInv, IssueFails, Fault, pairs, markers, ghosts, Left
<1>28. ASSUME NEW p \in Procs, WriteCertFails(p) PROVE PairInv'
    BY <1>28, StepNames, LocalFacts, NoneIsNobody, Leaving
    DEF TypeOK, PairInv, WriteCertFails, Fault, pairs, markers, ghosts, Left
<1>29. ASSUME NEW p \in Procs, RegisterFails(p) PROVE PairInv'
    BY <1>29, StepNames, LocalFacts, NoneIsNobody, Leaving
    DEF TypeOK, PairInv, RegisterFails, Fault, pairs, markers, ghosts, Left
<1>30. ASSUME NEW p \in Procs, MarkFails(p) PROVE PairInv'
    BY <1>30, StepNames, LocalFacts, NoneIsNobody, Leaving
    DEF TypeOK, PairInv, MarkFails, Go, Fault, pairs, markers, ghosts, Left
<1>31. ASSUME NEW p \in Procs, ApplyCertFails(p) PROVE PairInv'
    BY <1>31, StepNames, LocalFacts, NoneIsNobody, Leaving
    DEF TypeOK, PairInv, ApplyCertFails, Fault, pairs, markers, ghosts, Left
<1>32. ASSUME NEW p \in Procs, DeliveryFails(p) PROVE PairInv'
    BY <1>32, StepNames, LocalFacts, NoneIsNobody, Leaving
    DEF TypeOK, PairInv, DeliveryFails, Fault, pairs, markers, ghosts, Left
<1>33. ASSUME NEW p \in Procs, installNodeFails(p) PROVE PairInv'
    BY <1>33, StepNames, LocalFacts, NoneIsNobody, Leaving
    DEF TypeOK, PairInv, installNodeFails, Fault, pairs, markers, ghosts, Left
<1>34. ASSUME NEW p \in Procs, Crash(p) PROVE PairInv'
    BY <1>34, StepNames, LocalFacts, NoneIsNobody, Leaving
    DEF TypeOK, PairInv, Crash, Fault, pairs, markers, ghosts, Left
<1>35. CASE UNCHANGED vars
    BY <1>35 DEF TypeOK, PairInv, vars, pairs, markers, ghosts
<1> QED
    BY <1>1, <1>2, <1>3, <1>4, <1>5, <1>6, <1>7, <1>8, <1>9, <1>10, <1>11, <1>12, <1>13,
           <1>14, <1>15, <1>16, <1>17, <1>18, <1>19, <1>20, <1>21, <1>22, <1>23, <1>24, <1>25,
           <1>26, <1>27, <1>28, <1>29, <1>30, <1>31, <1>32, <1>33, <1>34, <1>35, StartActions,
           TimerIsAProcess DEF Next, Step, Fail
(* Nothing takes the reason for an order away while the lock is held.      *)
LEMMA NextOrderInv ==
    TypeOK /\ OpInv /\ OrderInv /\ [Next]_vars => OrderInv'
<1> SUFFICES ASSUME TypeOK, OpInv, OrderInv, [Next]_vars
             PROVE  OrderInv'
    OBVIOUS
<1>1. ASSUME NEW e \in Domains, Expire(e) PROVE OrderInv'
    BY <1>1, StepNames, LocalFacts, NoneIsNobody
    DEF TypeOK, OrderInv, renewalDue, Expire, Event, pairs, markers, ghosts
<1>2. ASSUME NEW p \in Procs, runCert(p) PROVE OrderInv'
    BY <1>2, StepNames, LocalFacts, NoneIsNobody
    DEF TypeOK, OrderInv, renewalDue, runCert, Begin, Go, Idle, pairs, markers, ghosts
<1>3. ASSUME NEW p \in Procs, NEW ds \in SUBSET Domains, forceRenew(p, ds) PROVE OrderInv'
    BY <1>3, StepNames, LocalFacts, NoneIsNobody
    DEF TypeOK, OrderInv, renewalDue, forceRenew, Begin, Go, Event, Idle, pairs, markers,
        ghosts
<1>4. ASSUME NEW p \in Procs, NEW n \in Spokes, JoinNode(p, n) PROVE OrderInv'
    BY <1>4, StepNames, LocalFacts, NoneIsNobody
    DEF TypeOK, OrderInv, renewalDue, JoinNode, Begin, Go, Claim, Others, Idle, pairs,
        markers, ghosts
<1>5. ASSUME NEW p \in Procs, NEW n \in Spokes, CheckHealth(p, n) PROVE OrderInv'
    BY <1>5, StepNames, LocalFacts, NoneIsNobody
    DEF TypeOK, OrderInv, renewalDue, CheckHealth, Begin, Go, Claim, Others, Idle, pairs,
        markers, ghosts
<1>6. ASSUME NEW p \in Procs, RetryHub(p) PROVE OrderInv'
    BY <1>6, StepNames, LocalFacts, NoneIsNobody
    DEF TypeOK, OrderInv, renewalDue, RetryHub, Go, Claim, Others, pairs, markers, ghosts
<1>7. ASSUME NEW p \in Procs, RetryLoad(p) PROVE OrderInv'
    BY <1>7, StepNames, LocalFacts, NoneIsNobody
    DEF TypeOK, OrderInv, renewalDue, RetryLoad, Go, pairs, markers, ghosts
<1>8. ASSUME NEW p \in Procs, Inventory(p) PROVE OrderInv'
    BY <1>8, StepNames, LocalFacts, NoneIsNobody
    DEF TypeOK, OrderInv, renewalDue, Inventory, Go, pairs, markers, ghosts
<1>9. ASSUME NEW p \in Procs, NEW e \in Domains, NextTarget(p, e) PROVE OrderInv'
    BY <1>9, StepNames, LocalFacts, NoneIsNobody
    DEF TypeOK, OrderInv, renewalDue, NextTarget, Go, Claim, Others, pairs, markers, ghosts
<1>10. ASSUME NEW p \in Procs, NoMoreTargets(p) PROVE OrderInv'
    BY <1>10, StepNames, LocalFacts, NoneIsNobody, Leaving
    DEF TypeOK, OrderInv, renewalDue, NoMoreTargets, Go, pairs, markers, ghosts, Left
<1>11. ASSUME NEW p \in Procs, lockIssuance(p) PROVE OrderInv'
    BY <1>11, StepNames, LocalFacts, NoneIsNobody
    DEF TypeOK, OrderInv, renewalDue, lockIssuance, Go, pairs, markers, ghosts
<1>12. ASSUME NEW p \in Procs, Recheck(p) PROVE OrderInv'
    BY <1>12, StepNames, LocalFacts, NoneIsNobody, Leaving
    DEF TypeOK, OrderInv, renewalDue, Recheck, Go, pairs, markers, ghosts, Left
<1>13. ASSUME NEW p \in Procs, Obtain(p) PROVE OrderInv'
    BY <1>13, StepNames, LocalFacts, NoneIsNobody
    DEF TypeOK, OrderInv, renewalDue, Obtain, Go, pairs, markers, ghosts
<1>14. ASSUME NEW p \in Procs, WriteKey(p) PROVE OrderInv'
    BY <1>14, StepNames, LocalFacts, NoneIsNobody
    DEF TypeOK, OrderInv, renewalDue, WriteKey, Go, pairs, markers, ghosts
<1>15. ASSUME NEW p \in Procs, WriteCert(p) PROVE OrderInv'
    BY <1>15, StepNames, LocalFacts, NoneIsNobody
    DEF TypeOK, OrderInv, renewalDue, WriteCert, Go, Others, pairs, markers, ghosts
<1>16. ASSUME NEW p \in Procs, Register(p) PROVE OrderInv'
    BY <1>16, StepNames, LocalFacts, NoneIsNobody
    DEF TypeOK, OrderInv, renewalDue, Register, Go, pairs, markers, ghosts
<1>17. ASSUME NEW p \in Procs, MarkPending(p) PROVE OrderInv'
    BY <1>17, StepNames, LocalFacts, NoneIsNobody, Leaving
    DEF TypeOK, OrderInv, renewalDue, MarkPending, Go, pairs, markers, ghosts, Left
<1>18. ASSUME NEW p \in Procs, HubRestart(p) PROVE OrderInv'
    BY <1>18, StepNames, LocalFacts, NoneIsNobody, Leaving
    DEF TypeOK, OrderInv, renewalDue, HubRestart, Go, pairs, markers, ghosts, Left
<1>19. ASSUME NEW p \in Procs, HubClear(p) PROVE OrderInv'
    BY <1>19, StepNames, LocalFacts, NoneIsNobody, Leaving
    DEF TypeOK, OrderInv, renewalDue, HubClear, pairs, markers, ghosts, Left
<1>20. ASSUME NEW p \in Procs, probeAgent(p) PROVE OrderInv'
    BY <1>20, StepNames, LocalFacts, NoneIsNobody, Leaving
    DEF TypeOK, OrderInv, renewalDue, probeAgent, Go, pairs, markers, ghosts, Left
<1>21. ASSUME NEW p \in Procs, readCertPair(p) PROVE OrderInv'
    BY <1>21, StepNames, LocalFacts, NoneIsNobody, Leaving
    DEF TypeOK, OrderInv, renewalDue, readCertPair, Go, pairs, markers, ghosts, Left
<1>22. ASSUME NEW p \in Procs, ApplyCert(p) PROVE OrderInv'
    BY <1>22, StepNames, LocalFacts, NoneIsNobody
    DEF TypeOK, OrderInv, renewalDue, ApplyCert, Go, pairs, markers, ghosts
<1>23. ASSUME NEW p \in Procs, ClearPending(p) PROVE OrderInv'
    BY <1>23, StepNames, LocalFacts, NoneIsNobody, Leaving
    DEF TypeOK, OrderInv, renewalDue, ClearPending, pairs, markers, ghosts, Left
<1>24. ASSUME NEW p \in Procs, installNode(p) PROVE OrderInv'
    BY <1>24, StepNames, LocalFacts, NoneIsNobody
    DEF TypeOK, OrderInv, renewalDue, installNode, Go, pairs, markers, ghosts
<1>25. ASSUME NEW p \in Procs, CommitNode(p) PROVE OrderInv'
    BY <1>25, StepNames, LocalFacts, NoneIsNobody, Leaving
    DEF TypeOK, OrderInv, renewalDue, CommitNode, pairs, markers, ghosts, Left
<1>26. ASSUME NEW p \in Procs, RetryFails(p) PROVE OrderInv'
    BY <1>26, StepNames, LocalFacts, NoneIsNobody, Leaving
    DEF TypeOK, OrderInv, renewalDue, RetryFails, Go, Fault, pairs, markers, ghosts, Left
<1>27. ASSUME NEW p \in Procs, IssueFails(p) PROVE OrderInv'
    BY <1>27, StepNames, LocalFacts, NoneIsNobody, Leaving
    DEF TypeOK, OrderInv, renewalDue, IssueFails, Fault, pairs, markers, ghosts, Left
<1>28. ASSUME NEW p \in Procs, WriteCertFails(p) PROVE OrderInv'
    BY <1>28, StepNames, LocalFacts, NoneIsNobody, Leaving
    DEF TypeOK, OrderInv, renewalDue, WriteCertFails, Fault, pairs, markers, ghosts, Left
<1>29. ASSUME NEW p \in Procs, RegisterFails(p) PROVE OrderInv'
    BY <1>29, StepNames, LocalFacts, NoneIsNobody, Leaving
    DEF TypeOK, OrderInv, renewalDue, RegisterFails, Fault, pairs, markers, ghosts, Left
<1>30. ASSUME NEW p \in Procs, MarkFails(p) PROVE OrderInv'
    BY <1>30, StepNames, LocalFacts, NoneIsNobody, Leaving
    DEF TypeOK, OrderInv, renewalDue, MarkFails, Go, Fault, pairs, markers, ghosts, Left
<1>31. ASSUME NEW p \in Procs, ApplyCertFails(p) PROVE OrderInv'
    BY <1>31, StepNames, LocalFacts, NoneIsNobody, Leaving
    DEF TypeOK, OrderInv, renewalDue, ApplyCertFails, Fault, pairs, markers, ghosts, Left
<1>32. ASSUME NEW p \in Procs, DeliveryFails(p) PROVE OrderInv'
    BY <1>32, StepNames, LocalFacts, NoneIsNobody, Leaving
    DEF TypeOK, OrderInv, renewalDue, DeliveryFails, Fault, pairs, markers, ghosts, Left
<1>33. ASSUME NEW p \in Procs, installNodeFails(p) PROVE OrderInv'
    BY <1>33, StepNames, LocalFacts, NoneIsNobody, Leaving
    DEF TypeOK, OrderInv, renewalDue, installNodeFails, Fault, pairs, markers, ghosts, Left
<1>34. ASSUME NEW p \in Procs, Crash(p) PROVE OrderInv'
    BY <1>34, StepNames, LocalFacts, NoneIsNobody, Leaving
    DEF TypeOK, OrderInv, renewalDue, Crash, Fault, pairs, markers, ghosts, Left
<1>35. CASE UNCHANGED vars
    BY <1>35 DEF TypeOK, OrderInv, renewalDue, vars, pairs, markers, ghosts
<1> QED
    BY <1>1, <1>2, <1>3, <1>4, <1>5, <1>6, <1>7, <1>8, <1>9, <1>10, <1>11, <1>12, <1>13,
           <1>14, <1>15, <1>16, <1>17, <1>18, <1>19, <1>20, <1>21, <1>22, <1>23, <1>24, <1>25,
           <1>26, <1>27, <1>28, <1>29, <1>30, <1>31, <1>32, <1>33, <1>34, <1>35, StartActions,
           TimerIsAProcess DEF Next, Step, Fail
(* A step settles the delivery of the domain it is at, or leaves it owed.  *)
LEMMA NextDeliveryInv ==
    TypeOK /\ OpInv /\ SoloInv /\ DeliveryInv /\ [Next]_vars => DeliveryInv'
<1> SUFFICES ASSUME TypeOK, OpInv, SoloInv, DeliveryInv, [Next]_vars
             PROVE  DeliveryInv'
    OBVIOUS
<1>1. ASSUME NEW e \in Domains, Expire(e) PROVE DeliveryInv'
    BY <1>1, StepNames, LocalFacts, NoneIsNobody, HubIsNoSpoke, DomainFacts
    DEF TypeOK, DeliveryInv, Settled, Renewing, Clean, Consumed, Owed, Expire, Event, pairs,
        markers, ghosts
<1>2. ASSUME NEW p \in Procs, runCert(p) PROVE DeliveryInv'
    BY <1>2, StepNames, LocalFacts, NoneIsNobody, HubIsNoSpoke, DomainFacts
    DEF TypeOK, DeliveryInv, Settled, Renewing, Clean, Consumed, Owed, runCert, Begin, Go,
        Idle, pairs, markers, ghosts
<1>3. ASSUME NEW p \in Procs, NEW ds \in SUBSET Domains, forceRenew(p, ds)
      PROVE  DeliveryInv'
    BY <1>3, StepNames, LocalFacts, NoneIsNobody, HubIsNoSpoke, DomainFacts
    DEF TypeOK, DeliveryInv, Settled, Renewing, Clean, Consumed, Owed, forceRenew, Begin, Go,
        Event, Idle, pairs, markers, ghosts
<1>4. ASSUME NEW p \in Procs, NEW n \in Spokes, JoinNode(p, n) PROVE DeliveryInv'
    BY <1>4, StepNames, LocalFacts, NoneIsNobody, HubIsNoSpoke, DomainFacts
    DEF TypeOK, DeliveryInv, Settled, Renewing, Clean, Consumed, Owed, JoinNode, Begin, Go,
        Claim, Others, Idle, pairs, markers, ghosts
<1>5. ASSUME NEW p \in Procs, NEW n \in Spokes, CheckHealth(p, n) PROVE DeliveryInv'
    BY <1>5, StepNames, LocalFacts, NoneIsNobody, HubIsNoSpoke, DomainFacts
    DEF TypeOK, DeliveryInv, Settled, Renewing, Clean, Consumed, Owed, CheckHealth, Begin,
        Go, Claim, Others, Idle, pairs, markers, ghosts
<1>6. ASSUME NEW p \in Procs, RetryHub(p) PROVE DeliveryInv'
    BY <1>6, StepNames, LocalFacts, NoneIsNobody, HubIsNoSpoke, DomainFacts
    DEF TypeOK, DeliveryInv, Settled, Renewing, Clean, Consumed, Owed, RetryHub, Go, Claim,
        Others, pairs, markers, ghosts
<1>7. ASSUME NEW p \in Procs, RetryLoad(p) PROVE DeliveryInv'
    BY <1>7, StepNames, LocalFacts, NoneIsNobody, HubIsNoSpoke, DomainFacts
    DEF TypeOK, DeliveryInv, Settled, Renewing, Clean, Consumed, Owed, RetryLoad, Go, pairs,
        markers, ghosts
<1>8. ASSUME NEW p \in Procs, Inventory(p) PROVE DeliveryInv'
    BY <1>8, StepNames, LocalFacts, NoneIsNobody, HubIsNoSpoke, DomainFacts
    DEF TypeOK, DeliveryInv, Settled, Renewing, Clean, Consumed, Owed, Inventory, Go, pairs,
        markers, ghosts
<1>9. ASSUME NEW p \in Procs, NEW e \in Domains, NextTarget(p, e) PROVE DeliveryInv'
    BY <1>9, StepNames, LocalFacts, NoneIsNobody, HubIsNoSpoke, DomainFacts
    DEF TypeOK, DeliveryInv, Settled, Renewing, Clean, Consumed, Owed, NextTarget, Go, Claim,
        Others, pairs, markers, ghosts
<1>10. ASSUME NEW p \in Procs, NoMoreTargets(p) PROVE DeliveryInv'
    BY <1>10, StepNames, LocalFacts, NoneIsNobody, HubIsNoSpoke, DomainFacts, Leaving
    DEF TypeOK, DeliveryInv, Settled, Renewing, Clean, Consumed, Owed, NoMoreTargets, Go,
        pairs, markers, ghosts, Left
<1>11. ASSUME NEW p \in Procs, lockIssuance(p) PROVE DeliveryInv'
    BY <1>11, StepNames, LocalFacts, NoneIsNobody, HubIsNoSpoke, DomainFacts
    DEF TypeOK, DeliveryInv, Settled, Renewing, Clean, Consumed, Owed, lockIssuance, Go,
        pairs, markers, ghosts
<1>12. ASSUME NEW p \in Procs, Recheck(p) PROVE DeliveryInv'
    BY <1>12, StepNames, LocalFacts, NoneIsNobody, HubIsNoSpoke, DomainFacts, Leaving
    DEF TypeOK, DeliveryInv, Settled, Renewing, Clean, Consumed, Owed, Recheck, Go, pairs,
        markers, ghosts, Left
<1>13. ASSUME NEW p \in Procs, Obtain(p) PROVE DeliveryInv'
    BY <1>13, StepNames, LocalFacts, NoneIsNobody, HubIsNoSpoke, DomainFacts
    DEF TypeOK, DeliveryInv, Settled, Renewing, Clean, Consumed, Owed, Obtain, Go, pairs,
        markers, ghosts
<1>14. ASSUME NEW p \in Procs, WriteKey(p) PROVE DeliveryInv'
    BY <1>14, StepNames, LocalFacts, NoneIsNobody, HubIsNoSpoke, DomainFacts
    DEF TypeOK, DeliveryInv, Settled, Renewing, Clean, Consumed, Owed, WriteKey, Go, pairs,
        markers, ghosts
<1>15. ASSUME NEW p \in Procs, WriteCert(p) PROVE DeliveryInv'
    BY <1>15, StepNames, LocalFacts, NoneIsNobody, HubIsNoSpoke, DomainFacts
    DEF TypeOK, DeliveryInv, Settled, Renewing, Clean, Consumed, Owed, WriteCert, Go, Others,
        pairs, markers, ghosts, SoloInv
<1>16. ASSUME NEW p \in Procs, Register(p) PROVE DeliveryInv'
    BY <1>16, StepNames, LocalFacts, NoneIsNobody, HubIsNoSpoke, DomainFacts
    DEF TypeOK, DeliveryInv, Settled, Renewing, Clean, Consumed, Owed, Register, Go, pairs,
        markers, ghosts, OpInv
<1>17. ASSUME NEW p \in Procs, MarkPending(p) PROVE DeliveryInv'
    BY <1>17, StepNames, LocalFacts, NoneIsNobody, HubIsNoSpoke, DomainFacts, Leaving
    DEF TypeOK, DeliveryInv, Settled, Renewing, Clean, Consumed, Owed, MarkPending, Go,
        pairs, markers, ghosts, Left
<1>18. ASSUME NEW p \in Procs, HubRestart(p) PROVE DeliveryInv'
    BY <1>18, StepNames, LocalFacts, NoneIsNobody, HubIsNoSpoke, DomainFacts, Leaving
    DEF TypeOK, DeliveryInv, Settled, Renewing, Clean, Consumed, Owed, HubRestart, Go, pairs,
        markers, ghosts, OpInv, Left
<1>19. ASSUME NEW p \in Procs, HubClear(p) PROVE DeliveryInv'
    BY <1>19, StepNames, LocalFacts, NoneIsNobody, HubIsNoSpoke, DomainFacts, Leaving
    DEF TypeOK, DeliveryInv, Settled, Renewing, Clean, Consumed, Owed, HubClear, pairs,
        markers, ghosts, OpInv, Left
<1>20. ASSUME NEW p \in Procs, probeAgent(p) PROVE DeliveryInv'
    BY <1>20, StepNames, LocalFacts, NoneIsNobody, HubIsNoSpoke, DomainFacts, Leaving
    DEF TypeOK, DeliveryInv, Settled, Renewing, Clean, Consumed, Owed, probeAgent, Go, pairs,
        markers, ghosts, Left
<1>21. ASSUME NEW p \in Procs, readCertPair(p) PROVE DeliveryInv'
    <2>1. /\ contended' = contended /\ missed' = missed /\ broken' = broken /\ installed' = installed
          /\ pend' = pend /\ hubPend' = hubPend /\ cert' = cert /\ active' = active
        BY <1>21 DEF readCertPair, ghosts, pairs, markers
    <2>2. CASE Leave(p)
        <3>1. pc[p] = "read"
            BY <1>21 DEF readCertPair
        <3> QED
            BY <2>1, <2>2, <3>1, Leaving
            DEF Left, DeliveryInv, Settled, Renewing, Clean, Consumed, Owed
    <2>3. CASE ~Leave(p)
        <3>1. /\ \A q \in Procs \ {p} : pc'[q] = pc[q] /\ cur'[q] = cur[q]
              /\ pc[p] = "read" /\ pc'[p] \in {"install", "send"}
              /\ cur'[p].dom = cur[p].dom /\ cur'[p].ver = cert[cur[p].dom]
            BY <1>21, <2>3 DEF readCertPair, Go, TypeOK, Local
        <3> QED
            BY <2>1, <3>1 DEF DeliveryInv, Settled, Renewing, Clean, Consumed, Owed
    <2> QED
        BY <2>2, <2>3
<1>22. ASSUME NEW p \in Procs, ApplyCert(p) PROVE DeliveryInv'
    BY <1>22, StepNames, LocalFacts, NoneIsNobody, HubIsNoSpoke, DomainFacts
    DEF TypeOK, DeliveryInv, Settled, Renewing, Clean, Consumed, Owed, ApplyCert, Go, pairs,
        markers, ghosts
<1>23. ASSUME NEW p \in Procs, ClearPending(p) PROVE DeliveryInv'
    BY <1>23, StepNames, LocalFacts, NoneIsNobody, HubIsNoSpoke, DomainFacts, Leaving
    DEF TypeOK, DeliveryInv, Settled, Renewing, Clean, Consumed, Owed, ClearPending, pairs,
        markers, ghosts, Left
<1>24. ASSUME NEW p \in Procs, installNode(p) PROVE DeliveryInv'
    BY <1>24, StepNames, LocalFacts, NoneIsNobody, HubIsNoSpoke, DomainFacts
    DEF TypeOK, DeliveryInv, Settled, Renewing, Clean, Consumed, Owed, installNode, Go,
        pairs, markers, ghosts
<1>25. ASSUME NEW p \in Procs, CommitNode(p) PROVE DeliveryInv'
    BY <1>25, StepNames, LocalFacts, NoneIsNobody, HubIsNoSpoke, DomainFacts, Leaving
    DEF TypeOK, DeliveryInv, Settled, Renewing, Clean, Consumed, Owed, CommitNode, pairs,
        markers, ghosts, Left
<1>26. ASSUME NEW p \in Procs, RetryFails(p) PROVE DeliveryInv'
    BY <1>26, StepNames, LocalFacts, NoneIsNobody, HubIsNoSpoke, DomainFacts, Leaving
    DEF TypeOK, DeliveryInv, Settled, Renewing, Clean, Consumed, Owed, RetryFails, Go, Fault,
        pairs, markers, ghosts, Left
<1>27. ASSUME NEW p \in Procs, IssueFails(p) PROVE DeliveryInv'
    BY <1>27, StepNames, LocalFacts, NoneIsNobody, HubIsNoSpoke, DomainFacts, Leaving
    DEF TypeOK, DeliveryInv, Settled, Renewing, Clean, Consumed, Owed, IssueFails, Fault,
        pairs, markers, ghosts, Left
<1>28. ASSUME NEW p \in Procs, WriteCertFails(p) PROVE DeliveryInv'
    BY <1>28, StepNames, LocalFacts, NoneIsNobody, HubIsNoSpoke, DomainFacts, Leaving
    DEF TypeOK, DeliveryInv, Settled, Renewing, Clean, Consumed, Owed, WriteCertFails, Fault,
        pairs, markers, ghosts, Left
<1>29. ASSUME NEW p \in Procs, RegisterFails(p) PROVE DeliveryInv'
    BY <1>29, StepNames, LocalFacts, NoneIsNobody, HubIsNoSpoke, DomainFacts, Leaving
    DEF TypeOK, DeliveryInv, Settled, Renewing, Clean, Consumed, Owed, RegisterFails, Fault,
        pairs, markers, ghosts, Left
<1>30. ASSUME NEW p \in Procs, MarkFails(p) PROVE DeliveryInv'
    BY <1>30, StepNames, LocalFacts, NoneIsNobody, HubIsNoSpoke, DomainFacts, Leaving
    DEF TypeOK, DeliveryInv, Settled, Renewing, Clean, Consumed, Owed, MarkFails, Go, Fault,
        pairs, markers, ghosts, Left
<1>31. ASSUME NEW p \in Procs, ApplyCertFails(p) PROVE DeliveryInv'
    BY <1>31, StepNames, LocalFacts, NoneIsNobody, HubIsNoSpoke, DomainFacts, Leaving
    DEF TypeOK, DeliveryInv, Settled, Renewing, Clean, Consumed, Owed, ApplyCertFails, Fault,
        pairs, markers, ghosts, Left
<1>32. ASSUME NEW p \in Procs, DeliveryFails(p) PROVE DeliveryInv'
    BY <1>32, StepNames, LocalFacts, NoneIsNobody, HubIsNoSpoke, DomainFacts, Leaving
    DEF TypeOK, DeliveryInv, Settled, Renewing, Clean, Consumed, Owed, DeliveryFails, Fault,
        pairs, markers, ghosts, Left
<1>33. ASSUME NEW p \in Procs, installNodeFails(p) PROVE DeliveryInv'
    BY <1>33, StepNames, LocalFacts, NoneIsNobody, HubIsNoSpoke, DomainFacts, Leaving
    DEF TypeOK, DeliveryInv, Settled, Renewing, Clean, Consumed, Owed, installNodeFails,
        Fault, pairs, markers, ghosts, Left
<1>34. ASSUME NEW p \in Procs, Crash(p) PROVE DeliveryInv'
    BY <1>34, StepNames, LocalFacts, NoneIsNobody, HubIsNoSpoke, DomainFacts, Leaving
    DEF TypeOK, DeliveryInv, Settled, Renewing, Clean, Consumed, Owed, Crash, Fault, pairs,
        markers, ghosts, Left
<1>35. CASE UNCHANGED vars
    BY <1>35
    DEF TypeOK, DeliveryInv, Settled, Renewing, Clean, Consumed, Owed, vars, pairs, markers,
        ghosts
<1> QED
    BY <1>1, <1>2, <1>3, <1>4, <1>5, <1>6, <1>7, <1>8, <1>9, <1>10, <1>11, <1>12, <1>13,
           <1>14, <1>15, <1>16, <1>17, <1>18, <1>19, <1>20, <1>21, <1>22, <1>23, <1>24, <1>25,
           <1>26, <1>27, <1>28, <1>29, <1>30, <1>31, <1>32, <1>33, <1>34, <1>35, StartActions,
           TimerIsAProcess DEF Next, Step, Fail

-----------------------------------------------------------------------------
\* The invariant holds initially.
LEMMA InitIInv == Init => IInv
<1> SUFFICES ASSUME Init PROVE IInv
    OBVIOUS
<1>1. TypeOK
    BY InitTypeOK
<1>2. \A p \in Procs : pc[p] = "idle" /\ cur[p] = Idle
    BY DEF Init
<1>3. OpInv /\ OrderInv
    BY <1>2, IdleIsLocal, StepNames DEF OpInv, OrderInv
<1>4. SoloInv
    BY <1>2, IdleIsLocal DEF SoloInv
<1>5. PairInv
    BY <1>2 DEF PairInv, Init
<1>6. DeliveryInv
    BY <1>2 DEF DeliveryInv, Init, Settled, Clean
<1> QED
    BY <1>1, <1>3, <1>4, <1>5, <1>6 DEF IInv

(* The parts of the invariant hold together along every behaviour.         *)
THEOREM Invariance == Spec => []IInv
<1>1. IInv /\ [Next]_vars => IInv'
    BY NextTypeOK, NextOpInv, NextSoloInv, NextPairInv, NextOrderInv, NextDeliveryInv DEF IInv
<1> QED
    BY <1>1, InitIInv, PTL DEF Spec

(* lockIssuance: one process at a time is inside an issuance, and a marker *)
(* belongs to an installed spoke, whichever processes start, fail or crash.*)
THEOREM TypeCorrect == Spec => []TypeOK
    BY Invariance, PTL DEF IInv

(* writeFilePair under the lock: outside of an issuance the two files of a *)
(* pair match, unless their writer was cut off between the renames.        *)
THEOREM PairsStayMatched == Spec => []PairsMatch
<1>1. IInv => PairsMatch
    BY NoneIsNobody, StepNames DEF IInv, TypeOK, PairInv, PairsMatch
<1> QED
    BY <1>1, Invariance, PTL

(* DistributeCertificate: when nobody works on a domain its consumer serves*)
(* the hub's pair or its delivery is marked, however deliveries, failures, *)
(* crashes and retries interleave.                                         *)
THEOREM RenewalsAreDeliveredOrPending == Spec => []DeliveredOrPending
<1>1. IInv => DeliveredOrPending
    BY DomainFacts
    DEF IInv, TypeOK, DeliveryInv, DeliveredOrPending, Settled, Renewing, Clean, Consumed, Working
<1> QED
    BY <1>1, Invariance, PTL

(* EnsureIssued: a sweep or an add never orders a certificate that the pair*)
(* does not need, although it chose its targets without the lock.          *)
THEOREM OrdersAreNeeded == Spec => NoDuplicateOrder
<1> DEFINE Needed == \A p \in Procs : pc[p] = "order" /\ pc'[p] = "key" /\ cur[p].op # "force" =>
                                          renewalDue(cur[p].dom)
<1>1. IInv => [Needed]_vars
    BY DEF IInv, OrderInv
<1> HIDE DEF Needed
<1>2. Spec => [][Needed]_vars
    BY <1>1, Invariance, PTL DEF Spec
<1> QED
    BY <1>2 DEF Needed, NoDuplicateOrder
=============================================================================
