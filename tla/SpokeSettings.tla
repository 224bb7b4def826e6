--------------------------- MODULE SpokeSettings ---------------------------
(***************************************************************************)
(* Settings of one spoke, and of the hub itself, changed by operators who  *)
(* do not know of each other.  The registry is the hub's list of nodes;    *)
(* the spoke keeps its own state files, a running configuration and open   *)
(* firewall ports.  A transaction of ui/spoke_reconfigure.go writes the    *)
(* registry first, pushes the change to the agent, and undoes both when    *)
(* the push fails.  The agent serves one request at a time (its mutation   *)
(* gate), so a deployment is one step to everybody else; its outcome is    *)
(* composed from the steps of Orchestrator.Reconfigure.                    *)
(***************************************************************************)
EXTENDS Naturals, FiniteSets

CONSTANTS Sessions,     \* operators, each with one request to make
          Requests,     \* what an operator may ask for
          Protocols,    \* names of protocols; as a field, the protocol's port
          Transport,    \* [Protocols -> {"tcp", "udp"}]
          Initial,      \* the settings the fleet starts with
          Credential,   \* the credential every protocol starts with
          MaxFaults,    \* failures of commands, calls and writes in one run
          None          \* the absence of a value

ASSUME SettingsAssumption ==
  /\ Protocols # {} /\ MaxFaults \in Nat
  /\ Transport \in [Protocols -> {"tcp", "udp"}]

(* A protocol's name is no other field's, a form offers known protocols,   *)
(* and the absence of a value is no answer.                                *)
ASSUME NoneAssumption == None \notin {"ok", "restored", "failed", "refused"}
ASSUME NamesAssumption == Protocols \cap {"enabled", "sni", "alias", "monitor"} = {}
ASSUME RequestsAssumption ==
  \A r \in Requests : /\ r.kind \in {"select", "hubSelect"} => r.enabled \subseteq Protocols
                      /\ r.kind = "edit" => r.proto \in Protocols

VARIABLES reg,     \* the node's entry in the registry: settings and generations
          spoke,   \* state files, credentials, config.json, what runs, open ports
          hub,     \* the same for the hub's own sing-box
          sess,    \* what every operator's transaction is at
          faults,  \* failures so far
          writer,  \* the session that last wrote a registry field
          doubt,   \* hosts whose state files a failure may have left half written
          overlap, \* two transactions were in flight at once
          revision \* what became of the revision that a session has read

vars == <<reg, spoke, hub, sess, faults, writer, doubt, overlap, revision>>

(* nodes.Node: the settings an operator edits.  A protocol's name stands   *)
(* for its port.                                                           *)
ProtocolFields == {"enabled", "sni"} \cup Protocols
Fields == ProtocolFields \cup {"alias", "monitor"}
ASSUME InitialAssumption == Initial = [f \in Fields |-> Initial[f]]

ProtocolKinds == {"select", "edit", "sni"}
RegistryKinds == ProtocolKinds \cup {"alias", "monitor"}
HubKinds == {"hubSelect", "hubRegenerate"}

(* config.firewallPorts: the ports of the enabled protocols it knows.      *)
firewallPorts(set) == {<<Transport[p], set[p]>> : p \in set["enabled"] \cap Protocols}

(* Config.ValidatePorts, ensureProtocolMaterial: no number is used twice.  *)
ValidatePorts(set) ==
  \A p, q \in set["enabled"] : p # q => set[p] # set[q]

(* nodeapi.ProtocolStateRevision: a hash over protocol fields and          *)
(* credentials; hashes of different states differ.                         *)
ProtocolState(host) ==
  [set |-> [f \in ProtocolFields |-> host.set[f]], cred |-> host.cred]

(* The registry change of every form, as the fields it sets, given the     *)
(* list of nodes the form was opened with: a selection also sets the ports *)
(* of the protocols it adds.                                               *)
spokeProtocolSelectionRegistryChange(r, view) ==
  [f \in {"enabled"} \cup (r.enabled \ view["enabled"]) |->
      IF f = "enabled" THEN r.enabled ELSE r.port]
spokeProtocolEditRegistryChange(r) == [f \in {r.proto} |-> r.port]
spokeRealitySNIRegistryChange(r) == [f \in {"sni"} |-> r.value]
applySpokeSubscription(r) == [f \in {"alias"} |-> r.value]
applySpokeMonitor(r) == [f \in {"monitor"} |-> r.value]

Writes(r, view) ==
  CASE r.kind = "select" -> spokeProtocolSelectionRegistryChange(r, view)
    [] r.kind = "edit" -> spokeProtocolEditRegistryChange(r)
    [] r.kind = "sni" -> spokeRealitySNIRegistryChange(r)
    [] r.kind = "alias" -> applySpokeSubscription(r)
    [] r.kind = "monitor" -> applySpokeMonitor(r)
    [] OTHER -> [f \in {} |-> None]

(* Settings with the fields that a form sets.                              *)
Changed(set, w) == [f \in Fields |-> IF f \in DOMAIN w THEN w[f] ELSE set[f]]

(* The counter a transaction's fields are guarded by; the monitor form has *)
(* none.                                                                   *)
Counter(r) == IF r.kind = "alias" THEN "subscription"
              ELSE IF r.kind \in ProtocolKinds THEN "protocol" ELSE "none"

Idle == [pc |-> "idle", req |-> None, view |-> None, form |-> None, seen |-> None,
         orig |-> None, upd |-> None, target |-> None, sent |-> None,
         conflict |-> FALSE, undo |-> FALSE, told |-> None]

Host == [set |-> Initial, cred |-> [p \in Protocols |-> Credential],
         live |-> [set |-> [f \in ProtocolFields |-> Initial[f]],
                   cred |-> [p \in Protocols |-> Credential]],
         conf |-> [set |-> [f \in ProtocolFields |-> Initial[f]],
                   cred |-> [p \in Protocols |-> Credential]],
         open |-> firewallPorts(Initial), left |-> {}]

Init ==
  /\ reg = [set |-> Initial, gen |-> [protocol |-> 0, subscription |-> 0, none |-> 0]]
  /\ spoke = Host
  /\ hub = [set |-> Host.set, cred |-> Host.cred, live |-> Host.live, open |-> Host.open,
            conf |-> Host.conf]
  /\ sess = [s \in Sessions |-> Idle]
  /\ faults = 0
  /\ writer = [f \in Fields |-> None]
  /\ doubt = {}
  /\ overlap = FALSE
  /\ revision = [s \in Sessions |-> "none"]

Fault == faults < MaxFaults /\ faults' = faults + 1

At(s, pc) == sess[s].pc = pc
Upd(s, r) == sess' = [sess EXCEPT ![s] = r]

(* A transaction ends: what its operator is told, and nothing else is kept. *)
Finish(s, told) == sess' = [sess EXCEPT ![s] = [Idle EXCEPT !.pc = "done",
                      !.req = sess[s].req,
                      !.told = IF sess[s].told = "failed" THEN "failed" ELSE told]]

InFlight(s) == sess[s].pc \notin {"idle", "form", "done"}
Began(s) == overlap' = (overlap \/ \E t \in Sessions \ {s} : InFlight(t))

-----------------------------------------------------------------------------
(* Opening a screen: the manager lists the nodes, or loads the hub's own   *)
(* configuration; the editor of one protocol also reads the spoke and      *)
(* refuses to edit a spoke that differs from the registry (startEditForm,  *)
(* validateSpokeProtocolState).                                            *)
startEditForm(s, r) ==
  /\ At(s, "idle")
  /\ r.kind = "edit" => r.proto \in reg.set["enabled"]
  /\ IF r.kind = "edit" /\ \E f \in ProtocolFields : spoke.set[f] # reg.set[f]
       THEN Upd(s, [sess[s] EXCEPT !.pc = "done", !.req = r, !.told = "refused"])
       ELSE Upd(s, [sess[s] EXCEPT !.pc = "form", !.req = r,
                    !.view = IF r.kind \in HubKinds THEN hub.set ELSE reg.set,
                    !.form = IF r.kind = "edit" THEN ProtocolState(spoke) ELSE None])
  /\ UNCHANGED <<reg, spoke, hub, faults, writer, doubt, overlap, revision>>

(* applySpokeProtocol up to the transaction: the current state is fetched, *)
(* and an editor whose form is older than it gives up.                     *)
applySpokeProtocol(s) ==
  /\ At(s, "form") /\ sess[s].req.kind \in ProtocolKinds
  /\ IF sess[s].req.kind = "edit" /\ ProtocolState(spoke) # sess[s].form
       THEN Finish(s, "refused")
       ELSE Upd(s, [sess[s] EXCEPT !.pc = "apply", !.seen = ProtocolState(spoke)])
  /\ revision' = [revision EXCEPT ![s] = "fresh"]
  /\ Began(s)
  /\ UNCHANGED <<reg, spoke, hub, faults, writer, doubt>>

FetchFails(s) ==
  /\ At(s, "form") /\ sess[s].req.kind \in ProtocolKinds
  /\ Fault /\ Finish(s, "refused")
  /\ UNCHANGED <<reg, spoke, hub, writer, doubt, overlap, revision>>

(* What the spoke will hold once the push is applied: a patch is applied   *)
(* to the state that was fetched, a replacement to its credentials only.   *)
applyProtocolPatchToState(seen, r) ==
  [set |-> [seen.set EXCEPT ![r.proto] = r.port],
   cred |-> [seen.cred EXCEPT ![r.proto] = r.cred]]
spokeProtocolNodeRevision(seen, set) ==
  [set |-> [f \in ProtocolFields |-> set[f]], cred |-> seen.cred]

Target(r, seen, set) ==
  CASE r.kind = "edit" -> applyProtocolPatchToState(seen, r)
    [] r.kind \in {"select", "sni"} -> spokeProtocolNodeRevision(seen, set)
    [] OTHER -> None

(* applySpokeRegistryReconfigure; the monitor form does the same without a *)
(* counter.  The registry is written before the agent is called.           *)
applySpokeRegistryReconfigure(s) ==
  LET r == sess[s].req
      w == Writes(r, sess[s].view)
      set == Changed(reg.set, w)
      c == Counter(r)
  IN /\ \/ At(s, "apply")
        \/ At(s, "form") /\ r.kind \in {"alias", "monitor"}
     /\ reg' = [set |-> set,
                gen |-> [reg.gen EXCEPT ![c] = IF c = "none" THEN 0 ELSE @ + 1]]
     /\ writer' = [f \in Fields |-> IF f \in DOMAIN w THEN s ELSE writer[f]]
     /\ Began(s)
     /\ Upd(s, [sess[s] EXCEPT !.pc = "send", !.orig = reg.set,
                !.target = Target(r, sess[s].seen, set), !.upd = [set |-> set, gen |-> reg'.gen[c]]])
     /\ UNCHANGED <<spoke, hub, faults, doubt, revision>>

(* RegenerateConfigs for the spoke is a push without a change of its own.  *)
RegenerateConfigs(s) ==
  /\ At(s, "form") /\ sess[s].req.kind = "regenerate"
  /\ Upd(s, [sess[s] EXCEPT !.pc = "send"])
  /\ Began(s)
  /\ UNCHANGED <<reg, spoke, hub, faults, writer, doubt, revision>>

-----------------------------------------------------------------------------
(* The push: Controller.reconfigure.                                       *)
IsReplace(s) == sess[s].req.kind \in {"select", "sni"}
IsPatch(s) == sess[s].req.kind = "edit"
PatchPort(s) == IF sess[s].undo THEN sess[s].seen.set[sess[s].req.proto] ELSE sess[s].req.port
PatchCred(s) == IF sess[s].undo THEN sess[s].seen.cred[sess[s].req.proto] ELSE sess[s].req.cred

(* copyNodeProtocolState: a replacement carries its caller's own snapshot  *)
(* of the protocol fields; anything else is read from the registry again.  *)
Desired(s) ==
  [f \in Fields |-> IF IsReplace(s) /\ f \in ProtocolFields
                      THEN sess[s].upd.set[f] ELSE reg.set[f]]

(* CheckHealth, then nodes.Load and the request built from it.             *)
reconfigure(s) ==
  /\ At(s, "send")
  /\ Upd(s, [sess[s] EXCEPT !.pc = "deliver", !.sent = Desired(s)])
  /\ UNCHANGED <<reg, spoke, hub, faults, writer, doubt, overlap, revision>>

(* A push failed: a rollback is over, a bare push has nothing to undo, and *)
(* a transaction restores the registry next.                               *)
PushFailed(s, conflict) ==
  IF sess[s].undo \/ sess[s].req.kind = "regenerate"
    THEN Finish(s, "failed")
    ELSE Upd(s, [sess[s] EXCEPT !.pc = "restore", !.conflict = conflict, !.sent = None])

reconfigureFails(s) ==
  /\ At(s, "send") /\ Fault
  /\ PushFailed(s, FALSE)
  /\ UNCHANGED <<reg, spoke, hub, writer, doubt, overlap, revision>>

(* agentHandler.Install: the revision precondition, then buildSpokeConfig  *)
(* or buildProtocolPatchConfig on the agent's own state.                   *)
RevisionMatches(s) ==
  sess[s].req.kind \in ProtocolKinds =>
    ProtocolState(spoke) = IF sess[s].undo THEN sess[s].target ELSE sess[s].seen

buildSpokeConfig(s) ==
  IF IsPatch(s)
    THEN [set |-> [spoke.set EXCEPT ![sess[s].req.proto] = PatchPort(s)],
          cred |-> [spoke.cred EXCEPT ![sess[s].req.proto] = PatchCred(s)]]
    ELSE [set |-> [f \in Fields |-> IF (f \in ProtocolFields) = IsReplace(s)
                                      THEN sess[s].sent[f] ELSE spoke.set[f]],
          cred |-> spoke.cred]

Buildable(s) ==
  /\ IsPatch(s) => sess[s].req.proto \in spoke.set["enabled"]
  /\ ValidatePorts(buildSpokeConfig(s).set)

(* Orchestrator.Reconfigure, from its steps.  What to open and to close is *)
(* the difference to the state files.  `left` records what the requests so *)
(* far have left behind: "unsettled", the state files are not known to     *)
(* describe what runs; "blind", a request went to work on such a host;     *)
(* "leak", a command that closes ports failed.                             *)
Added(old, new) == firewallPorts(new.set) \ firewallPorts(old.set)
Stale(old, new) == firewallPorts(old.set) \ firewallPorts(new.set)

Touched(left) == IF "unsettled" \in left THEN left \cup {"blind"} ELSE left

(* The Firewall step: the ports o, some or all of the new ones, are open.  *)
Opened(old, o) == [old EXCEPT !.open = @ \cup o, !.left = Touched(@)]

(* Services and Finalize: the new configuration runs and is written down.  *)
Settled(old, new) ==
  [Opened(old, Added(old, new)) EXCEPT
     !.set = new.set, !.cred = new.cred,
     !.conf = ProtocolState(new), !.live = ProtocolState(new),
     !.left = @ \ {"unsettled"}]

(* A command that closes ports fails when it has closed those in c.        *)
Leaky(host, c) == [host EXCEPT !.open = @ \ c, !.left = @ \cup {"leak"}]

(* Firewall cleanup; what follows changes nothing that is modelled.        *)
Deployed(old, new) == [Settled(old, new) EXCEPT !.open = @ \ Stale(old, new)]
CleanupFails(old, new) == {Leaky(Settled(old, new), c) : c \in SUBSET Stale(old, new)}

(* The host after an error before activation: ports were opened in part,   *)
(* or all of them and the candidate did not pass its check, or it did not  *)
(* start and the file that was there before is back and started.           *)
NotActivated(old, new) ==
  {Opened(old, o) : o \in SUBSET Added(old, new)}
    \cup {[Opened(old, Added(old, new)) EXCEPT !.live = old.conf]}

(* The deferred function then closes what was opened; it may fail too.     *)
RolledBack(old, new) ==
  {[h EXCEPT !.open = @ \ Added(old, new)] : h \in NotActivated(old, new)}
RollbackFails(old, new) ==
  {Leaky(h, c) : h \in NotActivated(old, new), c \in SUBSET Added(old, new)}

(* Ports are closed although the new configuration may be the running one. *)
RestoreClosesPorts(old, new) ==
  {[Opened(old, Added(old, new)) EXCEPT !.conf = c, !.live = l,
       !.open = @ \ Added(old, new), !.left = @ \cup {"unsettled"}] :
     c \in {old.conf, ProtocolState(new)}, l \in {old.live, old.conf, ProtocolState(new)}}

(* The previous configuration could not be put back: "retain the new       *)
(* firewall rule", since either of the two may run.                        *)
RestoreConfigFails(old, new) ==
  {[Opened(old, Added(old, new)) EXCEPT !.conf = c, !.live = l,
       !.left = @ \cup {"unsettled"}] :
     c \in {old.conf, ProtocolState(new)}, l \in {old.live, old.conf, ProtocolState(new)}}

(* What a failure of any other step leaves: nothing was touched, or one of *)
(* the above, or everything is done (the last steps write subscription     *)
(* files and reload Nginx) and that failed or the answer was lost.         *)
Failures(old, new) ==
  {old, Deployed(old, new)} \cup RolledBack(old, new) \cup RollbackFails(old, new)
    \cup RestoreConfigFails(old, new) \cup CleanupFails(old, new)

(* Finalize fails when the new configuration already runs, and nothing is  *)
(* undone.  WriteInstallState writes one file after the other, in no fixed *)
(* order: any of the changed fields may have been written.                 *)
HalfPersisted(old, new) ==
  {[Settled(old, new) EXCEPT
      !.set = [f \in Fields |-> IF f \in w THEN new.set[f] ELSE old.set[f]],
      !.cred = IF "cred" \in w THEN new.cred ELSE old.cred,
      !.left = Touched(old.left) \cup {"unsettled"}] :
     w \in SUBSET ({f \in Fields : new.set[f] # old.set[f]} \cup {"cred"})}

(* The agent goes to work: revisions that others have read are stale from  *)
(* here on.  One that was stale and still matched has been reused: the     *)
(* protocols had changed and come back, or were written unchanged.         *)
Passed(s) ==
  revision' = [t \in Sessions |->
     IF sess[s].req.kind \notin ProtocolKinds THEN revision[t]
     ELSE IF t = s THEN (IF revision[t] = "stale" THEN "reused" ELSE revision[t])
     ELSE IF revision[t] = "fresh" THEN "stale" ELSE revision[t]]

Install(s) ==
  /\ At(s, "deliver")
  /\ IF ~RevisionMatches(s) THEN PushFailed(s, TRUE) /\ UNCHANGED <<spoke, revision>>
     ELSE IF ~Buildable(s) THEN PushFailed(s, FALSE) /\ UNCHANGED <<spoke, revision>>
     ELSE /\ spoke' = Deployed(spoke, buildSpokeConfig(s))
          /\ Upd(s, [sess[s] EXCEPT !.pc = "settle", !.sent = None])
          /\ Passed(s)
  /\ UNCHANGED <<reg, hub, faults, writer, doubt, overlap>>

(* A step of the agent fails, other than Finalize.                         *)
InstallFails(s) ==
  /\ At(s, "deliver") /\ RevisionMatches(s) /\ Buildable(s) /\ Fault
  /\ spoke' \in Failures(spoke, buildSpokeConfig(s))
  /\ PushFailed(s, FALSE) /\ Passed(s)
  /\ UNCHANGED <<reg, hub, writer, doubt, overlap>>

FinalizeFails(s) ==
  /\ At(s, "deliver") /\ RevisionMatches(s) /\ Buildable(s) /\ Fault
  /\ spoke' \in HalfPersisted(spoke, buildSpokeConfig(s))
  /\ doubt' = doubt \cup {"spoke"}
  /\ PushFailed(s, FALSE) /\ Passed(s)
  /\ UNCHANGED <<reg, hub, writer, overlap>>

(* Registry status and RefreshSubscriptions end a push.                    *)
RefreshSubscriptions(s) ==
  /\ At(s, "settle")
  /\ Finish(s, IF sess[s].undo THEN "restored" ELSE "ok")
  /\ UNCHANGED <<reg, spoke, hub, faults, writer, doubt, overlap, revision>>

(* A refresh that fails is an error of a protocol change only.             *)
RefreshFails(s) ==
  /\ At(s, "settle") /\ sess[s].req.kind \in ProtocolKinds /\ Fault
  /\ PushFailed(s, FALSE)
  /\ UNCHANGED <<reg, spoke, hub, writer, doubt, overlap, revision>>

-----------------------------------------------------------------------------
(* Equal values taken for one's own, without the generation counter.       *)
RestorableByValue(s) ==
  {f \in DOMAIN Writes(sess[s].req, sess[s].view) : reg.set[f] = sess[s].upd.set[f]}

(* The rollback.  spokeRegistryChange.Restore: the fields that still hold  *)
(* what this transaction wrote, and only while nobody else has written a   *)
(* setting of the same screen.  The monitor form restores in any case.     *)
Restorable(s) ==
  LET r == sess[s].req
      w == DOMAIN Writes(r, sess[s].view)
  IN IF r.kind = "monitor" THEN w
     ELSE IF reg.gen[Counter(r)] # sess[s].upd.gen THEN {}
     ELSE {f \in w : reg.set[f] = sess[s].upd.set[f]}

(* The rollback of the spoke works with the registry's entry as it now is. *)
Rollback(s, set, told) ==
  Upd(s, [sess[s] EXCEPT
          !.pc = IF sess[s].req.kind \notin ProtocolKinds THEN "send"
                 ELSE IF sess[s].conflict THEN "refresh" ELSE "inspect",
          !.undo = TRUE, !.told = told, !.upd = [sess[s].upd EXCEPT !.set = set]])

Undone(s) == [f \in Fields |-> IF f \in Restorable(s) THEN sess[s].orig[f] ELSE reg.set[f]]

Restore(s) ==
  /\ At(s, "restore")
  /\ reg' = [reg EXCEPT !.set = Undone(s)] /\ Rollback(s, Undone(s), None)
  /\ UNCHANGED <<spoke, hub, faults, writer, doubt, overlap, revision>>

(* The registry cannot be read, or not be written: the transaction ends as *)
(* failed, after trying to put the spoke back to what it knows.            *)
RestoreFails(s) ==
  /\ At(s, "restore") /\ Fault
  /\ \E set \in {sess[s].orig, Undone(s)} : Rollback(s, set, "failed")
  /\ UNCHANGED <<reg, spoke, hub, writer, doubt, overlap, revision>>

(* A failed push is taken to have changed nothing.                         *)
RollbackBlindly(s) ==
  /\ At(s, "inspect")
  /\ Upd(s, [sess[s] EXCEPT !.pc = "refresh"])
  /\ UNCHANGED <<reg, spoke, hub, faults, writer, doubt, overlap, revision>>

(* rollbackRemote: the spoke is asked what it holds before anything is     *)
(* pushed back.                                                            *)
rollbackRemote(s) ==
  /\ At(s, "inspect")
  /\ LET now == ProtocolState(spoke) IN
     CASE now = sess[s].seen -> Upd(s, [sess[s] EXCEPT !.pc = "refresh"])
       [] now # sess[s].seen /\ now = sess[s].target -> Upd(s, [sess[s] EXCEPT !.pc = "send"])
       [] OTHER -> Finish(s, "failed")
  /\ UNCHANGED <<reg, spoke, hub, faults, writer, doubt, overlap, revision>>

InspectFails(s) ==
  /\ sess[s].pc \in {"inspect", "refresh"} /\ Fault
  /\ Finish(s, "failed")
  /\ UNCHANGED <<reg, spoke, hub, writer, doubt, overlap, revision>>

RefreshOnly(s) ==
  /\ At(s, "refresh")
  /\ Finish(s, "restored")
  /\ UNCHANGED <<reg, spoke, hub, faults, writer, doubt, overlap, revision>>

-----------------------------------------------------------------------------
(* The hub's own protocols.  protocol.Update changes the settings of the   *)
(* moment as the form asks; every step follows the last without a lock,    *)
(* and a failure leaves what the earlier steps did.                        *)
Update(s) ==
  LET set == Changed(hub.set, spokeProtocolSelectionRegistryChange(sess[s].req, sess[s].view))
  IN /\ At(s, "form") /\ sess[s].req.kind = "hubSelect"
     /\ IF ValidatePorts(set)
          THEN Upd(s, [sess[s] EXCEPT !.pc = "firewall", !.seen = [set |-> hub.set, cred |-> hub.cred],
                       !.upd = [set |-> set, cred |-> hub.cred]])
          ELSE Finish(s, "refused")
     /\ Began(s)
     /\ UNCHANGED <<reg, spoke, hub, faults, writer, doubt, revision>>

(* stalePortsToClose: ports of the old configuration whose number the new  *)
(* one does not use; protocolsNeedingPortChanges: what to open.            *)
stalePortsToClose(old, new) ==
  {k \in firewallPorts(old.set) : \A p \in new.set["enabled"] : new.set[p] # k[2]}
protocolsNeedingPortChanges(old, new) ==
  {<<Transport[p], new.set[p]>> : p \in {q \in new.set["enabled"] :
      q \notin old.set["enabled"] \/ old.set[q] # new.set[q]}}

(* The steps in the code's order; new is what Update computed when it      *)
(* began.                                                                  *)
protocolUpdateSteps(s) ==
  LET old == sess[s].seen
      new == sess[s].upd
  IN /\ \/ /\ At(s, "firewall")
           /\ hub' = [hub EXCEPT !.open = (@ \cup protocolsNeedingPortChanges(old, new))
                                             \ stalePortsToClose(old, new)]
           /\ Upd(s, [sess[s] EXCEPT !.pc = "activate"])
        \/ /\ At(s, "activate")
           /\ hub' = [hub EXCEPT !.conf = ProtocolState(new)]
           /\ Upd(s, [sess[s] EXCEPT !.pc = "state"])
        \/ /\ At(s, "state")
           /\ hub' = [hub EXCEPT !.set = new.set, !.cred = new.cred]
           /\ Upd(s, [sess[s] EXCEPT !.pc = "restart"])
        \/ /\ At(s, "restart")
           /\ hub' = [hub EXCEPT !.live = hub.conf]
           /\ Finish(s, "ok")
     /\ UNCHANGED <<reg, spoke, faults, writer, doubt, overlap, revision>>

(* Any step fails and the rest is not done.                                *)
UpdateFails(s) ==
  /\ sess[s].pc \in {"firewall", "activate", "state", "restart"} /\ Fault
  /\ Finish(s, "failed")
  /\ doubt' = doubt \cup {"hub"}
  /\ UNCHANGED <<reg, spoke, hub, writer, overlap, revision>>

(* regenerateLocal: config.json is rendered from the state files and       *)
(* sing-box restarted; the previous file comes back if it does not start.  *)
regenerateLocal(s) ==
  /\ At(s, "form") /\ sess[s].req.kind = "hubRegenerate"
  /\ Upd(s, [sess[s] EXCEPT !.pc = "rerender", !.seen = hub.conf, !.upd = ProtocolState(hub)])
  /\ Began(s)
  /\ UNCHANGED <<reg, spoke, hub, faults, writer, doubt, revision>>

regenerateLocalSingBox(s) ==
  /\ At(s, "rerender")
  /\ hub' = [hub EXCEPT !.conf = sess[s].upd, !.live = sess[s].upd]
  /\ Finish(s, "ok")
  /\ UNCHANGED <<reg, spoke, faults, writer, doubt, overlap, revision>>

RestartFails(s) ==
  /\ At(s, "rerender") /\ Fault
  /\ \/ /\ hub' = [hub EXCEPT !.conf = sess[s].seen, !.live = sess[s].seen]
        /\ Finish(s, "restored") /\ UNCHANGED doubt
     \/ /\ Finish(s, "failed")
        /\ \E c \in {sess[s].seen, sess[s].upd} : hub' = [hub EXCEPT !.conf = c]
        /\ doubt' = doubt \cup {"hub"}
  /\ UNCHANGED <<reg, spoke, writer, overlap, revision>>

(* Every operator has had an answer.                                       *)
Quiet == (\A s \in Sessions : At(s, "done")) /\ UNCHANGED vars

Next ==
  \/ \E s \in Sessions :
       \/ \E r \in Requests : startEditForm(s, r)
       \/ applySpokeProtocol(s) \/ FetchFails(s) \/ applySpokeRegistryReconfigure(s)
       \/ RegenerateConfigs(s) \/ reconfigure(s) \/ reconfigureFails(s)
       \/ Install(s) \/ InstallFails(s) \/ FinalizeFails(s)
       \/ RefreshSubscriptions(s) \/ RefreshFails(s)
       \/ Restore(s) \/ RestoreFails(s) \/ rollbackRemote(s) \/ InspectFails(s)
       \/ RefreshOnly(s)
       \/ Update(s) \/ protocolUpdateSteps(s) \/ UpdateFails(s)
       \/ regenerateLocal(s) \/ regenerateLocalSingBox(s) \/ RestartFails(s)
  \/ Quiet

Spec == Init /\ [][Next]_vars

-----------------------------------------------------------------------------
Pcs == {"idle", "form", "apply", "send", "deliver", "settle", "restore", "inspect",
        "refresh", "firewall", "activate", "state", "restart", "rerender", "done"}

(* Types: the registry and both hosts know all fields, the enabled         *)
(* protocols are known ones with usable ports, counters count the          *)
(* transactions, and a finished session has been told something.           *)
TypeOK ==
  /\ \A h \in {reg, spoke, hub} : /\ DOMAIN h.set = Fields
                                  /\ h.set["enabled"] \in SUBSET Protocols \ {{}}
  /\ \A h \in {spoke, hub} : DOMAIN h.cred = Protocols /\ (doubt = {} => ValidatePorts(h.set))
  /\ \A c \in DOMAIN reg.gen : reg.gen[c] \in 0..Cardinality(Sessions)
  /\ faults \in 0..MaxFaults /\ doubt \subseteq {"spoke", "hub"} /\ overlap \in BOOLEAN
  /\ revision \in [Sessions -> {"none", "fresh", "stale", "reused"}]
  /\ writer \in [Fields -> Sessions \cup {None}]
  /\ \A s \in Sessions : /\ sess[s].pc \in Pcs
                         /\ sess[s].pc = "done" => sess[s].told \in {"ok", "restored", "failed", "refused"}

(* Whatever fails while the agent applies a request (Orchestrator.         *)
(* Reconfigure), before activation, at it or after it: the ports of the    *)
(* configuration that runs, and of the one on disk that the next start     *)
(* would run, are open, until a request goes to work on a spoke whose last *)
(* activation was neither written down nor undone.  A spoke that is not in *)
(* that state runs what its state files describe; and if no command that   *)
(* closes ports has failed either, no other port is open.                  *)
SpokeConsistent ==
  /\ "blind" \notin spoke.left =>
       firewallPorts(spoke.live.set) \cup firewallPorts(spoke.conf.set) \subseteq spoke.open
  /\ "unsettled" \notin spoke.left =>
       spoke.live = ProtocolState(spoke) /\ spoke.conf = spoke.live
  /\ spoke.left = {} => spoke.open = firewallPorts(spoke.set)

AllDone == \A s \in Sessions : At(s, "done")
Told(s) == sess[s].told

(* When every operator has an answer and no failure was left open, hub and *)
(* spoke agree on the protocols if all changes succeeded, at the same time *)
(* or not, unless a revision was reused; one after the other they agree on *)
(* everything, undone changes included, unless a rollback was reported as  *)
(* failed.  The hub's own files and configuration agree in the same way,   *)
(* and its ports are open.                                                 *)
AgreeWhenQuiet ==
  AllDone =>
    /\ ("spoke" \notin doubt /\ \A s \in Sessions : Told(s) = "ok" /\ revision[s] # "reused") =>
         \A f \in ProtocolFields : reg.set[f] = spoke.set[f]
    /\ ("spoke" \notin doubt /\ ~overlap /\ \A s \in Sessions : Told(s) # "failed") =>
         reg.set = spoke.set
    /\ ("hub" \notin doubt /\ ~overlap) =>
         /\ hub.live = ProtocolState(hub) /\ hub.conf = hub.live
         /\ firewallPorts(hub.set) \subseteq hub.open

(* A rollback takes nothing away from another transaction: of protocol and *)
(* subscription settings, a restore changes only fields that the restoring *)
(* transaction was the last to write ("that concurrent winner must not be  *)
(* overwritten during rollback").                                          *)
RollbackSparesWinners ==
  [][\A s \in Sessions : (At(s, "restore") /\ sess'[s].pc # "restore") =>
       \A f \in Fields \ {"monitor"} : reg'.set[f] # reg.set[f] => writer[f] = s]_vars

(* "The revision precondition prevents an older full protocol form from    *)
(* overwriting a newer single-protocol patch": a replacement begun before  *)
(* the last patch takes no port from the spoke that hub and spoke agree on *)
(* and its form does not set.                                              *)
OlderFormKeepsPatches ==
  [][\A s \in Sessions :
       (At(s, "deliver") /\ IsReplace(s) /\ ~sess[s].undo /\ revision[s] = "stale"
          /\ sess'[s] # sess[s]) =>
         \A p \in Protocols \ DOMAIN Writes(sess[s].req, sess[s].view) :
            reg.set[p] = spoke.set[p] => spoke'.set[p] = spoke.set[p]]_vars

(* An error that ends in "(previous settings restored)" means that what    *)
(* runs on the spoke is what was there before: with one transaction at a   *)
(* time, the configuration in service is the one the registry describes.   *)
RestoredMeansRestored ==
  \A s \in Sessions :
    (Told(s) = "restored" /\ ~overlap /\ AllDone) =>
      \A f \in ProtocolFields : spoke.live.set[f] = reg.set[f]
=============================================================================
