------------------------- MODULE SpokeSettingsProofs -------------------------
(***************************************************************************)
(* For every number of operators, requests, protocols and failures: the    *)
(* spoke runs what its state files describe, a rollback overwrites no      *)
(* other transaction's settings, and registry, spoke and hub agree when    *)
(* every operator has an answer.                                           *)
(***************************************************************************)
EXTENDS SpokeSettings, TLAPS

(* What a session, the registry's entry and the spoke consist of.          *)
SessionRecord(r) ==
    r = [pc |-> r.pc, req |-> r.req, view |-> r.view, form |-> r.form, seen |-> r.seen,
         orig |-> r.orig, upd |-> r.upd, target |-> r.target, sent |-> r.sent,
         conflict |-> r.conflict, undo |-> r.undo, told |-> r.told]
HostRecord(h) == h = [set |-> h.set, cred |-> h.cred, live |-> h.live, conf |-> h.conf,
                      open |-> h.open, left |-> h.left]

Counters == {"protocol", "subscription", "none"}
RegistryInv == reg = [set |-> reg.set, gen |-> reg.gen] /\ reg.gen \in [Counters -> Nat]

(* The settings that two operators' screens guard with a counter.          *)
Counted == ProtocolKinds \cup {"alias"}

(* A transaction that may have to be undone: while its counter stands where *)
(* it left it, nobody else has written one of its fields.                  *)
Guarded(s) ==
    LET r == sess[s].req
        c == Counter(r)
    IN /\ sess[s].upd.gen \in Nat /\ sess[s].upd.gen <= reg.gen[c]
       /\ reg.gen[c] = sess[s].upd.gen => \A f \in DOMAIN Writes(r, sess[s].view) : writer[f] = s

SessionInv(s) ==
    /\ SessionRecord(sess[s])
    /\ sess[s].undo \in BOOLEAN
    /\ sess[s].pc # "idle" => sess[s].req \in Requests
    /\ sess[s].pc \in {"inspect", "refresh"} => sess[s].undo
    /\ sess[s].pc = "restore" => ~sess[s].undo
    /\ (sess[s].pc \in {"send", "deliver", "settle", "restore"} /\ ~sess[s].undo
          /\ sess[s].req.kind \in Counted) => Guarded(s)

SpokeInv == HostRecord(spoke) /\ SpokeConsistent

IInv ==
    /\ RegistryInv /\ SpokeInv
    /\ sess = [s \in Sessions |-> sess[s]]
    /\ \A s \in Sessions : SessionInv(s)

-----------------------------------------------------------------------------
(* The fields that a request writes are those of its screen.               *)
LEMMA WritesOfScreen ==
    ASSUME NEW r \in Requests, NEW view
    PROVE  /\ r.kind \in ProtocolKinds => DOMAIN Writes(r, view) \subseteq ProtocolFields
           /\ r.kind = "alias" => DOMAIN Writes(r, view) = {"alias"}
           /\ r.kind = "monitor" => DOMAIN Writes(r, view) = {"monitor"}
           /\ r.kind \notin Counted \cup {"monitor"} => DOMAIN Writes(r, view) = {}
<1>1. CASE r.kind = "select"
    <2>1. DOMAIN Writes(r, view) = {"enabled"} \cup (r.enabled \ view["enabled"])
        BY <1>1 DEF Writes, spokeProtocolSelectionRegistryChange
    <2> QED
        BY <1>1, <2>1, RequestsAssumption DEF ProtocolFields, ProtocolKinds, Counted
<1>2. CASE r.kind = "edit"
    <2>1. DOMAIN Writes(r, view) = {r.proto}
        BY <1>2 DEF Writes, spokeProtocolEditRegistryChange
    <2> QED
        BY <1>2, <2>1, RequestsAssumption DEF ProtocolFields, ProtocolKinds, Counted
<1>3. CASE r.kind = "sni"
    BY <1>3 DEF Writes, spokeRealitySNIRegistryChange, ProtocolFields, ProtocolKinds, Counted
<1>4. CASE r.kind = "alias"
    BY <1>4 DEF Writes, applySpokeSubscription, ProtocolKinds, Counted
<1>5. CASE r.kind = "monitor"
    BY <1>5 DEF Writes, applySpokeMonitor, ProtocolKinds, Counted
<1>6. CASE r.kind \notin Counted \cup {"monitor"}
    <2>1. r.kind \notin {"select", "edit", "sni", "alias", "monitor"}
        BY <1>6 DEF Counted, ProtocolKinds
    <2>2. Writes(r, view) = [f \in {} |-> None]
        BY <2>1 DEF Writes
    <2> QED
        BY <1>6, <2>1, <2>2 DEF ProtocolKinds
<1> QED
    BY <1>1, <1>2, <1>3, <1>4, <1>5, <1>6 DEF Counted, ProtocolKinds

\* Alias and monitor are no protocol fields.
LEMMA Names == "alias" \notin ProtocolFields /\ "monitor" \notin ProtocolFields
    BY NamesAssumption DEF ProtocolFields

\* Which generation guards a request.
LEMMA CounterFacts ==
    ASSUME NEW r
    PROVE  /\ Counter(r) \in Counters
           /\ r.kind \in ProtocolKinds => Counter(r) = "protocol"
           /\ r.kind = "alias" => Counter(r) = "subscription"
           /\ r.kind \notin Counted => Counter(r) = "none"
    BY DEF Counter, Counters, ProtocolKinds, Counted

-----------------------------------------------------------------------------
(* What a step of session s does to the sessions.                          *)
Others(s) ==
    /\ sess' = [t \in Sessions |-> sess'[t]]
    /\ \A t \in Sessions \ {s} : sess'[t] = sess[t]

\* An update of one session leaves the others.
LEMMA Updating ==
    ASSUME IInv, NEW s \in Sessions, NEW r, Upd(s, r)
    PROVE  sess'[s] = r /\ Others(s)
<1>1. sess = [t \in Sessions |-> sess[t]]
    BY DEF IInv
<1>2. sess' = [t \in Sessions |-> IF t = s THEN r ELSE sess[t]]
    BY <1>1 DEF Upd
<1> QED
    BY <1>2 DEF Others

\* What the invariant says of one session.
LEMMA Mine ==
    ASSUME IInv, NEW s \in Sessions
    PROVE  SessionInv(s) /\ SessionRecord(sess[s]) /\ RegistryInv /\ SpokeInv
    BY DEF IInv, SessionInv

Kept(s) == sess'[s].req = sess[s].req /\ sess'[s].undo = sess[s].undo
           /\ sess'[s].view = sess[s].view /\ sess'[s].upd = sess[s].upd

(* An operator has an answer.                                              *)
LEMMA Finishing ==
    ASSUME IInv, NEW s \in Sessions, NEW told, Finish(s, told), sess[s].pc # "idle"
    PROVE  SessionInv(s)' /\ Others(s) /\ sess'[s].pc = "done"
<1>1. PICK x : Upd(s, [Idle EXCEPT !.pc = "done", !.req = sess[s].req, !.told = x])
    BY DEF Finish, Upd
<1>2. sess'[s] = [Idle EXCEPT !.pc = "done", !.req = sess[s].req, !.told = x] /\ Others(s)
    BY <1>1, Updating
<1>3. SessionRecord(sess'[s]) /\ sess'[s].pc = "done" /\ sess'[s].req = sess[s].req /\ sess'[s].undo = FALSE
    BY <1>2 DEF Idle, SessionRecord
<1>4. sess[s].req \in Requests
    BY Mine DEF SessionInv
<1> QED
    BY <1>2, <1>3, <1>4 DEF SessionInv

(* A transaction that goes on, with the registry's counters as they were.  *)
LEMMA GoingOn ==
    ASSUME IInv, NEW s \in Sessions, SessionRecord(sess'[s]), Kept(s),
           reg'.gen = reg.gen, writer' = writer, sess[s].pc # "idle",
           sess'[s].pc \in {"inspect", "refresh"} => sess[s].undo,
           sess'[s].pc = "restore" => ~sess[s].undo,
           sess'[s].pc \in {"send", "deliver", "settle", "restore"} =>
              \/ sess[s].pc \in {"send", "deliver", "settle", "restore"}
              \/ sess[s].undo \/ sess[s].req.kind \notin Counted
    PROVE  SessionInv(s)'
<1>1. SessionInv(s)
    BY Mine
<1>2. /\ sess'[s].undo \in BOOLEAN
      /\ sess'[s].req \in Requests
    BY <1>1 DEF SessionInv, Kept
<1>3. Guarded(s) => Guarded(s)'
    BY DEF Guarded, Kept
<1>4. (sess'[s].pc \in {"send", "deliver", "settle", "restore"} /\ ~sess'[s].undo
          /\ sess'[s].req.kind \in Counted) => Guarded(s)'
    BY <1>1, <1>3 DEF SessionInv, Kept
<1> QED
    BY <1>2, <1>4 DEF SessionInv, Kept

\* A step that writes no setting keeps what every other session knows.
LEMMA OthersKeep ==
    ASSUME IInv, NEW s \in Sessions, SessionInv(s)', Others(s), reg'.gen = reg.gen, writer' = writer,
           RegistryInv', SpokeInv'
    PROVE  IInv'
<1>1. ASSUME NEW t \in Sessions \ {s} PROVE SessionInv(t)'
    <2>1. SessionInv(t) /\ sess'[t] = sess[t]
        BY Mine DEF Others
    <2>2. Guarded(t) => Guarded(t)'
        BY <2>1 DEF Guarded
    <2> QED
        BY <2>1, <2>2 DEF SessionInv
<1> QED
    BY <1>1 DEF IInv, Others

\* With registry and spoke unchanged their invariants stay.
LEMMA Unmoved ==
    ASSUME RegistryInv, SpokeInv, UNCHANGED <<reg, spoke>>, doubt \subseteq doubt'
    PROVE  RegistryInv' /\ SpokeInv'
<1>1. RegistryInv'
    BY DEF RegistryInv
<1>2. spoke' = spoke
    OBVIOUS
<1>3. HostRecord(spoke)'
    BY <1>2 DEF SpokeInv, HostRecord
<1>4. SpokeConsistent'
    BY <1>2 DEF SpokeInv, SpokeConsistent, ProtocolState, firewallPorts
<1> QED
    BY <1>1, <1>3, <1>4 DEF SpokeInv

(* A push failed: the transaction goes to the rollback, once.              *)
LEMMA PushFailing ==
    ASSUME IInv, NEW s \in Sessions, NEW c, PushFailed(s, c), reg'.gen = reg.gen, writer' = writer,
           sess[s].pc \in {"send", "deliver", "settle"}
    PROVE  SessionInv(s)' /\ Others(s)
<1>1. CASE sess[s].undo \/ sess[s].req.kind = "regenerate"
    BY <1>1, Finishing DEF PushFailed
<1>2. CASE ~(sess[s].undo \/ sess[s].req.kind = "regenerate")
    <2>1. sess'[s] = [sess[s] EXCEPT !.pc = "restore", !.conflict = c, !.sent = None] /\ Others(s)
        BY <1>2, Updating DEF PushFailed
    <2>2. SessionRecord(sess[s])
        BY Mine
    <2>3. SessionRecord(sess'[s]) /\ sess'[s].pc = "restore" /\ Kept(s)
        BY <2>1, <2>2 DEF SessionRecord, Kept
    <2> QED
        BY <1>2, <2>1, <2>3, GoingOn
<1> QED
    BY <1>1, <1>2

\* applySpokeProtocol keeps the invariant.
LEMMA DoesApplySpokeProtocol ==
    ASSUME IInv, NEW s \in Sessions, applySpokeProtocol(s)
    PROVE  IInv' /\ reg' = reg
<1>1. UNCHANGED <<reg, writer, spoke, doubt>>
    BY DEF applySpokeProtocol
<1>2. RegistryInv' /\ SpokeInv'
    BY <1>1, Mine, Unmoved
<1>3. sess[s].pc = "form"
    BY DEF applySpokeProtocol, At
<1>4. SessionInv(s)' /\ Others(s)
    <2>1. CASE sess[s].req.kind = "edit" /\ ProtocolState(spoke) # sess[s].form
        <3>1. PICK told : Finish(s, told)
            BY <2>1 DEF applySpokeProtocol, At
        <3> QED
            BY <3>1, <1>3, Finishing
    <2>2. CASE ~(sess[s].req.kind = "edit" /\ ProtocolState(spoke) # sess[s].form)
        <3>1. sess'[s] = [sess[s] EXCEPT !.pc = "apply", !.seen = ProtocolState(spoke)] /\ Others(s)
            BY <2>2, Updating DEF applySpokeProtocol, At
        <3>2. SessionRecord(sess'[s]) /\ sess'[s].pc = "apply" /\ Kept(s)
            BY Mine, <3>1 DEF SessionRecord, Kept
        <3> QED
            BY <1>1, <1>3, <3>1, <3>2, GoingOn
    <2> QED
        BY <2>1, <2>2
<1> QED
    BY <1>1, <1>2, <1>4, OthersKeep

\* FetchFails keeps the invariant.
LEMMA DoesFetchFails ==
    ASSUME IInv, NEW s \in Sessions, FetchFails(s)
    PROVE  IInv' /\ reg' = reg
<1>1. UNCHANGED <<reg, writer, spoke, doubt>>
    BY DEF FetchFails
<1>2. RegistryInv' /\ SpokeInv'
    BY <1>1, Mine, Unmoved
<1>3. sess[s].pc = "form"
    BY DEF FetchFails, At
<1>4. SessionInv(s)' /\ Others(s)
    <2>1. PICK told : Finish(s, told)
        BY DEF FetchFails, At
    <2> QED
        BY <2>1, <1>3, Finishing
<1> QED
    BY <1>1, <1>2, <1>4, OthersKeep

\* RegenerateConfigs keeps the invariant.
LEMMA DoesRegenerateConfigs ==
    ASSUME IInv, NEW s \in Sessions, RegenerateConfigs(s)
    PROVE  IInv' /\ reg' = reg
<1>1. UNCHANGED <<reg, writer, spoke, doubt>>
    BY DEF RegenerateConfigs
<1>2. RegistryInv' /\ SpokeInv'
    BY <1>1, Mine, Unmoved
<1>3. sess[s].pc = "form"
    BY DEF RegenerateConfigs, At
<1>4. SessionInv(s)' /\ Others(s)
    <2>1. sess'[s] = [sess[s] EXCEPT !.pc = "send"] /\ Others(s)
        BY Updating DEF RegenerateConfigs, At
    <2>2. SessionRecord(sess'[s]) /\ sess'[s].pc = "send" /\ Kept(s)
        BY Mine, <2>1 DEF SessionRecord, Kept
    <2>3. sess[s].req.kind \notin Counted
        BY DEF RegenerateConfigs, Counted, ProtocolKinds
    <2> QED
        BY <1>1, <1>3, <2>1, <2>2, <2>3, GoingOn
<1> QED
    BY <1>1, <1>2, <1>4, OthersKeep

\* reconfigure keeps the invariant.
LEMMA DoesReconfigure ==
    ASSUME IInv, NEW s \in Sessions, reconfigure(s)
    PROVE  IInv' /\ reg' = reg
<1>1. UNCHANGED <<reg, writer, spoke, doubt>>
    BY DEF reconfigure
<1>2. RegistryInv' /\ SpokeInv'
    BY <1>1, Mine, Unmoved
<1>3. sess[s].pc = "send"
    BY DEF reconfigure, At
<1>4. SessionInv(s)' /\ Others(s)
    <2>1. sess'[s] = [sess[s] EXCEPT !.pc = "deliver", !.sent = Desired(s)] /\ Others(s)
        BY Updating DEF reconfigure, At
    <2>2. SessionRecord(sess'[s]) /\ sess'[s].pc = "deliver" /\ Kept(s)
        BY Mine, <2>1 DEF SessionRecord, Kept
    <2> QED
        BY <1>1, <1>3, <2>1, <2>2, GoingOn
<1> QED
    BY <1>1, <1>2, <1>4, OthersKeep

\* RefreshSubscriptions keeps the invariant.
LEMMA DoesRefreshSubscriptions ==
    ASSUME IInv, NEW s \in Sessions, RefreshSubscriptions(s)
    PROVE  IInv' /\ reg' = reg
<1>1. UNCHANGED <<reg, writer, spoke, doubt>>
    BY DEF RefreshSubscriptions
<1>2. RegistryInv' /\ SpokeInv'
    BY <1>1, Mine, Unmoved
<1>3. sess[s].pc = "settle"
    BY DEF RefreshSubscriptions, At
<1>4. SessionInv(s)' /\ Others(s)
    <2>1. PICK told : Finish(s, told)
        BY DEF RefreshSubscriptions, At
    <2> QED
        BY <2>1, <1>3, Finishing
<1> QED
    BY <1>1, <1>2, <1>4, OthersKeep

\* RefreshOnly keeps the invariant.
LEMMA DoesRefreshOnly ==
    ASSUME IInv, NEW s \in Sessions, RefreshOnly(s)
    PROVE  IInv' /\ reg' = reg
<1>1. UNCHANGED <<reg, writer, spoke, doubt>>
    BY DEF RefreshOnly
<1>2. RegistryInv' /\ SpokeInv'
    BY <1>1, Mine, Unmoved
<1>3. sess[s].pc = "refresh"
    BY DEF RefreshOnly, At
<1>4. SessionInv(s)' /\ Others(s)
    <2>1. PICK told : Finish(s, told)
        BY DEF RefreshOnly, At
    <2> QED
        BY <2>1, <1>3, Finishing
<1> QED
    BY <1>1, <1>2, <1>4, OthersKeep

\* InspectFails keeps the invariant.
LEMMA DoesInspectFails ==
    ASSUME IInv, NEW s \in Sessions, InspectFails(s)
    PROVE  IInv' /\ reg' = reg
<1>1. UNCHANGED <<reg, writer, spoke, doubt>>
    BY DEF InspectFails
<1>2. RegistryInv' /\ SpokeInv'
    BY <1>1, Mine, Unmoved
<1>3. sess[s].pc \notin {"idle", "form"}
    BY DEF InspectFails, At
<1>4. SessionInv(s)' /\ Others(s)
    <2>1. PICK told : Finish(s, told)
        BY DEF InspectFails, At
    <2> QED
        BY <2>1, <1>3, Finishing
<1> QED
    BY <1>1, <1>2, <1>4, OthersKeep

\* rollbackRemote keeps the invariant.
LEMMA DoesRollbackRemote ==
    ASSUME IInv, NEW s \in Sessions, rollbackRemote(s)
    PROVE  IInv' /\ reg' = reg
<1>1. UNCHANGED <<reg, writer, spoke, doubt>>
    BY DEF rollbackRemote
<1>2. RegistryInv' /\ SpokeInv'
    BY <1>1, Mine, Unmoved
<1>3. sess[s].pc = "inspect"
    BY DEF rollbackRemote, At
<1>4. SessionInv(s)' /\ Others(s)
    <2>1. CASE ProtocolState(spoke) = sess[s].seen
        <3>1. sess'[s] = [sess[s] EXCEPT !.pc = "refresh"] /\ Others(s)
            BY <2>1, Updating DEF rollbackRemote, At
        <3>2. SessionRecord(sess'[s]) /\ sess'[s].pc = "refresh" /\ Kept(s)
            BY Mine, <3>1 DEF SessionRecord, Kept
        <3>3. sess[s].undo
            BY <1>3, Mine DEF SessionInv
        <3> QED
            BY <1>1, <1>3, <3>1, <3>2, <3>3, GoingOn
    <2>2. CASE ProtocolState(spoke) # sess[s].seen /\ ProtocolState(spoke) = sess[s].target
        <3>1. sess'[s] = [sess[s] EXCEPT !.pc = "send"] /\ Others(s)
            BY <2>2, Updating DEF rollbackRemote, At
        <3>2. SessionRecord(sess'[s]) /\ sess'[s].pc = "send" /\ Kept(s)
            BY Mine, <3>1 DEF SessionRecord, Kept
        <3>3. sess[s].undo
            BY <1>3, Mine DEF SessionInv
        <3> QED
            BY <1>1, <1>3, <3>1, <3>2, <3>3, GoingOn
    <2>3. CASE ProtocolState(spoke) # sess[s].seen /\ ProtocolState(spoke) # sess[s].target
        <3>1. PICK told : Finish(s, told)
            BY <2>3 DEF rollbackRemote, At
        <3> QED
            BY <3>1, <1>3, Finishing
    <2> QED
        BY <2>1, <2>2, <2>3
<1> QED
    BY <1>1, <1>2, <1>4, OthersKeep

\* Update keeps the invariant.
LEMMA DoesUpdate ==
    ASSUME IInv, NEW s \in Sessions, Update(s)
    PROVE  IInv' /\ reg' = reg
<1>1. UNCHANGED <<reg, writer, spoke, doubt>>
    BY DEF Update
<1>2. RegistryInv' /\ SpokeInv'
    BY <1>1, Mine, Unmoved
<1>3. sess[s].pc = "form"
    BY DEF Update, At
<1>4. SessionInv(s)' /\ Others(s)
    <2>1. CASE ValidatePorts(Changed(hub.set, spokeProtocolSelectionRegistryChange(sess[s].req, sess[s].view)))
        <3>1. sess'[s] = [sess[s] EXCEPT !.pc = "firewall", !.seen = [set |-> hub.set, cred |-> hub.cred],
                            !.upd = [set |-> Changed(hub.set, spokeProtocolSelectionRegistryChange(sess[s].req, sess[s].view)),
                                     cred |-> hub.cred]] /\ Others(s)
            BY <2>1, Updating DEF Update, At
        <3>2. SessionRecord(sess'[s]) /\ sess'[s].pc = "firewall" /\ sess'[s].req = sess[s].req /\ sess'[s].undo = sess[s].undo
            BY Mine, <3>1 DEF SessionRecord, Kept
        <3> QED
            BY <1>3, <3>1, <3>2, Mine DEF SessionInv
    <2>2. CASE ~ValidatePorts(Changed(hub.set, spokeProtocolSelectionRegistryChange(sess[s].req, sess[s].view)))
        <3>1. PICK told : Finish(s, told)
            BY <2>2 DEF Update, At
        <3> QED
            BY <3>1, <1>3, Finishing
    <2> QED
        BY <2>1, <2>2
<1> QED
    BY <1>1, <1>2, <1>4, OthersKeep

\* protocolUpdateSteps keeps the invariant.
LEMMA DoesProtocolUpdateSteps ==
    ASSUME IInv, NEW s \in Sessions, protocolUpdateSteps(s)
    PROVE  IInv' /\ reg' = reg
<1>1. UNCHANGED <<reg, writer, spoke, doubt>>
    BY DEF protocolUpdateSteps
<1>2. RegistryInv' /\ SpokeInv'
    BY <1>1, Mine, Unmoved
<1>3. sess[s].pc \notin {"idle", "form"}
    BY DEF protocolUpdateSteps, At
<1>4. SessionInv(s)' /\ Others(s)
    <2>1. CASE sess[s].pc = "firewall"
        <3>1. sess'[s] = [sess[s] EXCEPT !.pc = "activate"] /\ Others(s)
            BY <2>1, Updating DEF protocolUpdateSteps, At
        <3>2. SessionRecord(sess'[s]) /\ sess'[s].pc = "activate" /\ Kept(s)
            BY Mine, <3>1 DEF SessionRecord, Kept
        <3> QED
            BY <1>1, <1>3, <3>1, <3>2, GoingOn
    <2>2. CASE sess[s].pc = "activate"
        <3>1. sess'[s] = [sess[s] EXCEPT !.pc = "state"] /\ Others(s)
            BY <2>2, Updating DEF protocolUpdateSteps, At
        <3>2. SessionRecord(sess'[s]) /\ sess'[s].pc = "state" /\ Kept(s)
            BY Mine, <3>1 DEF SessionRecord, Kept
        <3> QED
            BY <1>1, <1>3, <3>1, <3>2, GoingOn
    <2>3. CASE sess[s].pc = "state"
        <3>1. sess'[s] = [sess[s] EXCEPT !.pc = "restart"] /\ Others(s)
            BY <2>3, Updating DEF protocolUpdateSteps, At
        <3>2. SessionRecord(sess'[s]) /\ sess'[s].pc = "restart" /\ Kept(s)
            BY Mine, <3>1 DEF SessionRecord, Kept
        <3> QED
            BY <1>1, <1>3, <3>1, <3>2, GoingOn
    <2>4. CASE sess[s].pc = "restart"
        <3>1. PICK told : Finish(s, told)
            BY <2>4 DEF protocolUpdateSteps, At
        <3> QED
            BY <3>1, <1>3, Finishing
    <2> QED
        BY <2>1, <2>2, <2>3, <2>4 DEF protocolUpdateSteps, At
<1> QED
    BY <1>1, <1>2, <1>4, OthersKeep

\* UpdateFails keeps the invariant.
LEMMA DoesUpdateFails ==
    ASSUME IInv, NEW s \in Sessions, UpdateFails(s)
    PROVE  IInv' /\ reg' = reg
<1>1. UNCHANGED <<reg, writer, spoke>> /\ doubt \subseteq doubt'
    BY DEF UpdateFails
<1>2. RegistryInv' /\ SpokeInv'
    BY <1>1, Mine, Unmoved
<1>3. sess[s].pc \notin {"idle", "form"}
    BY DEF UpdateFails, At
<1>4. SessionInv(s)' /\ Others(s)
    <2>1. PICK told : Finish(s, told)
        BY DEF UpdateFails, At
    <2> QED
        BY <2>1, <1>3, Finishing
<1> QED
    BY <1>1, <1>2, <1>4, OthersKeep

\* regenerateLocal keeps the invariant.
LEMMA DoesRegenerateLocal ==
    ASSUME IInv, NEW s \in Sessions, regenerateLocal(s)
    PROVE  IInv' /\ reg' = reg
<1>1. UNCHANGED <<reg, writer, spoke, doubt>>
    BY DEF regenerateLocal
<1>2. RegistryInv' /\ SpokeInv'
    BY <1>1, Mine, Unmoved
<1>3. sess[s].pc = "form"
    BY DEF regenerateLocal, At
<1>4. SessionInv(s)' /\ Others(s)
    <2>1. sess'[s] = [sess[s] EXCEPT !.pc = "rerender", !.seen = hub.conf, !.upd = ProtocolState(hub)] /\ Others(s)
        BY Updating DEF regenerateLocal, At
    <2>2. SessionRecord(sess'[s]) /\ sess'[s].pc = "rerender" /\ sess'[s].req = sess[s].req /\ sess'[s].undo = sess[s].undo
        BY Mine, <2>1 DEF SessionRecord, Kept
    <2> QED
        BY <1>3, <2>1, <2>2, Mine DEF SessionInv
<1> QED
    BY <1>1, <1>2, <1>4, OthersKeep

\* regenerateLocalSingBox keeps the invariant.
LEMMA DoesRegenerateLocalSingBox ==
    ASSUME IInv, NEW s \in Sessions, regenerateLocalSingBox(s)
    PROVE  IInv' /\ reg' = reg
<1>1. UNCHANGED <<reg, writer, spoke, doubt>>
    BY DEF regenerateLocalSingBox
<1>2. RegistryInv' /\ SpokeInv'
    BY <1>1, Mine, Unmoved
<1>3. sess[s].pc = "rerender"
    BY DEF regenerateLocalSingBox, At
<1>4. SessionInv(s)' /\ Others(s)
    <2>1. PICK told : Finish(s, told)
        BY DEF regenerateLocalSingBox, At
    <2> QED
        BY <2>1, <1>3, Finishing
<1> QED
    BY <1>1, <1>2, <1>4, OthersKeep

\* RestartFails keeps the invariant.
LEMMA DoesRestartFails ==
    ASSUME IInv, NEW s \in Sessions, RestartFails(s)
    PROVE  IInv' /\ reg' = reg
<1>1. UNCHANGED <<reg, writer, spoke>> /\ doubt \subseteq doubt'
    BY DEF RestartFails
<1>2. RegistryInv' /\ SpokeInv'
    BY <1>1, Mine, Unmoved
<1>3. sess[s].pc = "rerender"
    BY DEF RestartFails, At
<1>4. SessionInv(s)' /\ Others(s)
    <2>1. PICK told : Finish(s, told)
        BY DEF RestartFails, At
    <2> QED
        BY <2>1, <1>3, Finishing
<1> QED
    BY <1>1, <1>2, <1>4, OthersKeep

\* An unchanged spoke stays consistent.
LEMMA StaysConsistent ==
    ASSUME SpokeInv, UNCHANGED <<spoke, doubt>>
    PROVE  SpokeInv'
    BY DEF SpokeInv, HostRecord, SpokeConsistent, ProtocolState, firewallPorts

\* startEditForm keeps the invariant.
LEMMA DoesStartEditForm ==
    ASSUME IInv, NEW s \in Sessions, NEW r \in Requests, startEditForm(s, r)
    PROVE  IInv' /\ reg' = reg
<1>1. UNCHANGED <<reg, writer, spoke, doubt>>
    BY DEF startEditForm
<1>2. RegistryInv' /\ SpokeInv'
    BY <1>1, Mine, Unmoved
<1>3. sess[s].pc = "idle"
    BY DEF startEditForm, At
<1>4. SessionInv(s)' /\ Others(s)
    <2>1. CASE r.kind = "edit" /\ \E f \in ProtocolFields : spoke.set[f] # reg.set[f]
        <3>1. sess'[s] = [sess[s] EXCEPT !.pc = "done", !.req = r, !.told = "refused"] /\ Others(s)
            BY <2>1, Updating DEF startEditForm
        <3>2. SessionRecord(sess'[s]) /\ sess'[s].pc = "done" /\ sess'[s].req = r /\ sess'[s].undo = sess[s].undo
            BY Mine, <3>1 DEF SessionRecord
        <3> QED
            BY <3>1, <3>2, Mine DEF SessionInv
    <2>2. CASE ~(r.kind = "edit" /\ \E f \in ProtocolFields : spoke.set[f] # reg.set[f])
        <3>1. PICK v, x : Upd(s, [sess[s] EXCEPT !.pc = "form", !.req = r, !.view = v, !.form = x])
            BY <2>2 DEF startEditForm
        <3>2. sess'[s] = [sess[s] EXCEPT !.pc = "form", !.req = r, !.view = v, !.form = x] /\ Others(s)
            BY <3>1, Updating
        <3>3. SessionRecord(sess'[s]) /\ sess'[s].pc = "form" /\ sess'[s].req = r /\ sess'[s].undo = sess[s].undo
            BY Mine, <3>2 DEF SessionRecord
        <3> QED
            BY <3>2, <3>3, Mine DEF SessionInv
    <2> QED
        BY <2>1, <2>2
<1> QED
    BY <1>1, <1>2, <1>4, OthersKeep

\* reconfigureFails and RefreshFails keep the invariant.
LEMMA DoesReconfigureFails ==
    ASSUME IInv, NEW s \in Sessions, reconfigureFails(s) \/ RefreshFails(s)
    PROVE  IInv' /\ reg' = reg
<1>1. UNCHANGED <<reg, writer, spoke, doubt>>
    BY DEF reconfigureFails, RefreshFails
<1>2. RegistryInv' /\ SpokeInv'
    BY <1>1, Mine, Unmoved
<1>3. PushFailed(s, FALSE) /\ sess[s].pc \in {"send", "settle"}
    BY DEF reconfigureFails, RefreshFails, At
<1>4. SessionInv(s)' /\ Others(s)
    BY <1>1, <1>3, PushFailing
<1> QED
    BY <1>1, <1>2, <1>4, OthersKeep

(* The registry is written, and the counter of its screen moves on.        *)
LEMMA DoesApplySpokeRegistryReconfigure ==
    ASSUME IInv, NEW s \in Sessions, applySpokeRegistryReconfigure(s)
    PROVE  IInv' /\ sess[s].pc # "restore" /\ Others(s)
<1> DEFINE r == sess[s].req
           c == Counter(r)
           w == Writes(r, sess[s].view)
<1>1. /\ UNCHANGED <<spoke, doubt>>
      /\ sess[s].pc \in {"apply", "form"}
      /\ reg' = [set |-> Changed(reg.set, w),
                 gen |-> [reg.gen EXCEPT ![c] = IF c = "none" THEN 0 ELSE @ + 1]]
      /\ writer' = [f \in Fields |-> IF f \in DOMAIN w THEN s ELSE writer[f]]
    BY DEF applySpokeRegistryReconfigure, At
<1>2. PICK x, u : /\ Upd(s, [sess[s] EXCEPT !.pc = "send", !.orig = reg.set, !.target = x, !.upd = u])
                  /\ u.gen = reg'.gen[c]
    <2> DEFINE x == Target(r, sess[s].seen, Changed(reg.set, w))
               u == [set |-> Changed(reg.set, w), gen |-> reg'.gen[c]]
    <2>1. Upd(s, [sess[s] EXCEPT !.pc = "send", !.orig = reg.set, !.target = x, !.upd = u])
        BY DEF applySpokeRegistryReconfigure
    <2>2. u.gen = reg'.gen[c]
        OBVIOUS
    <2> HIDE DEF x, u
    <2> QED
        BY <2>1, <2>2
<1>3. /\ sess'[s] = [sess[s] EXCEPT !.pc = "send", !.orig = reg.set, !.target = x, !.upd = u]
      /\ Others(s)
    BY <1>2, Updating
<1>4. /\ SessionRecord(sess'[s]) /\ sess'[s].pc = "send" /\ sess'[s].req = r
      /\ sess'[s].undo = sess[s].undo /\ sess'[s].view = sess[s].view
      /\ sess'[s].upd = u
    BY Mine, <1>3 DEF SessionRecord
<1>5. c \in Counters /\ reg.gen \in [Counters -> Nat] /\ r \in Requests
    BY <1>1, CounterFacts, Mine DEF RegistryInv, SessionInv
<1>6. /\ reg'.gen \in [Counters -> Nat]
      /\ c # "none" => reg'.gen[c] = reg.gen[c] + 1
      /\ \A d \in Counters \ {c} : reg'.gen[d] = reg.gen[d]
    BY <1>1, <1>5
<1>7. RegistryInv'
    BY <1>1, <1>6 DEF RegistryInv
<1>8. SpokeInv'
    BY <1>1, Mine, StaysConsistent
<1>9. SessionInv(s)'
    <2>1. ASSUME r.kind \in Counted PROVE Guarded(s)'
        <3>1. \A f \in DOMAIN w : f \in Fields
            BY <2>1, <1>5, WritesOfScreen DEF Counted, Fields
        <3>2. \A f \in DOMAIN w : writer'[f] = s
            BY <1>1, <3>1
        <3> QED
            BY <1>2, <1>4, <1>5, <1>6, <3>2 DEF Guarded
    <2>2. sess[s].undo \in BOOLEAN
        BY Mine DEF SessionInv
    <2> QED
        BY <1>4, <1>5, <2>1, <2>2 DEF SessionInv
<1>10. ASSUME NEW t \in Sessions \ {s} PROVE SessionInv(t)'
    <2>1. SessionInv(t) /\ sess'[t] = sess[t]
        BY Mine, <1>3 DEF Others
    <2>2. ASSUME Guarded(t), sess[t].req \in Requests, sess[t].req.kind \in Counted PROVE Guarded(t)'
        <3> DEFINE d == Counter(sess[t].req)
                   v == Writes(sess[t].req, sess[t].view)
        <3>1. d \in Counters /\ d # "none"
            BY <2>2, CounterFacts DEF Counted
        <3>2. CASE d = c
            BY <1>5, <1>6, <2>1, <2>2, <3>1, <3>2 DEF Guarded
        <3>3. CASE d # c
            <4>1. DOMAIN w \cap DOMAIN v = {}
                BY <1>5, <2>2, <3>3, WritesOfScreen, CounterFacts, Names DEF Counted
            <4>2. \A f \in DOMAIN v : f \in Fields
                BY <2>2, WritesOfScreen DEF Counted, Fields
            <4>3. \A f \in DOMAIN v : writer'[f] = writer[f]
                BY <1>1, <4>1, <4>2
            <4>4. reg'.gen[d] = reg.gen[d]
                BY <1>6, <3>1, <3>3
            <4> QED
                BY <2>1, <2>2, <4>3, <4>4 DEF Guarded
        <3> QED
            BY <3>2, <3>3
    <2> QED
        BY <2>1, <2>2 DEF SessionInv
<1>11. IInv'
    BY <1>3, <1>7, <1>8, <1>9, <1>10 DEF IInv, Others
<1> QED
    BY <1>1, <1>3, <1>11

-----------------------------------------------------------------------------
(* The outcomes of a request that the agent applies.  SpokeConsistent,     *)
(* said of any host:                                                       *)
Sound(h) ==
    /\ "blind" \notin h.left => firewallPorts(h.live.set) \cup firewallPorts(h.conf.set) \subseteq h.open
    /\ "unsettled" \notin h.left => h.live = ProtocolState(h) /\ h.conf = h.live
    /\ h.left = {} => h.open = firewallPorts(h.set)

(* The state files of a host are as they were; or describe what runs.      *)
OldState(old, h) == HostRecord(h) /\ h.set = old.set /\ h.cred = old.cred
NewState(new, h) == /\ HostRecord(h) /\ h.set = new.set /\ h.cred = new.cred
                    /\ h.live = ProtocolState(new) /\ h.conf = ProtocolState(new)

\* A host on which nothing was activated has its old state and at most new ports.
LEMMA NothingActivated ==
    ASSUME NEW old, NEW new, HostRecord(old), NEW h \in NotActivated(old, new)
    PROVE  /\ OldState(old, h) /\ h.conf = old.conf /\ h.live \in {old.live, old.conf}
           /\ h.open \ Added(old, new) = old.open \ Added(old, new)
           /\ old.open \subseteq h.open /\ h.left = Touched(old.left)
<1>1. \/ \E o \in SUBSET Added(old, new) : h = Opened(old, o)
      \/ h = [Opened(old, Added(old, new)) EXCEPT !.live = old.conf]
    BY DEF NotActivated
<1>2. PICK o \in SUBSET Added(old, new), l \in {old.live, old.conf} :
         h = [set |-> old.set, cred |-> old.cred, live |-> l, conf |-> old.conf,
              open |-> old.open \cup o, left |-> Touched(old.left)]
    BY <1>1 DEF Opened, HostRecord
<1> QED
    BY <1>2 DEF OldState, HostRecord

\* What the steps up to Finalize have done, and Firewall cleanup.
LEMMA Settling ==
    ASSUME NEW old, NEW new, HostRecord(old)
    PROVE  /\ NewState(new, Settled(old, new)) /\ NewState(new, Deployed(old, new))
           /\ Settled(old, new).open = old.open \cup Added(old, new)
           /\ Deployed(old, new).open = (old.open \cup Added(old, new)) \ Stale(old, new)
           /\ Settled(old, new).left = Touched(old.left) \ {"unsettled"}
           /\ Deployed(old, new).left = Touched(old.left) \ {"unsettled"}
<1>0. PICK o : o = Opened(old, Added(old, new))
    OBVIOUS
<1>1. /\ o.set = old.set /\ o.open = old.open \cup Added(old, new) /\ o.left = Touched(old.left)
      /\ HostRecord(o)
    BY <1>0, Zenon DEF Opened, HostRecord
<1>2. Settled(old, new) =
         [o EXCEPT !.set = new.set, !.cred = new.cred, !.conf = ProtocolState(new),
                   !.live = ProtocolState(new), !.left = o.left \ {"unsettled"}]
    BY <1>0 DEF Settled
<1>3. Settled(old, new) =
         [set |-> new.set, cred |-> new.cred, live |-> ProtocolState(new), conf |-> ProtocolState(new),
          open |-> old.open \cup Added(old, new), left |-> Touched(old.left) \ {"unsettled"}]
    BY <1>1, <1>2 DEF HostRecord
<1>4. Deployed(old, new) =
         [set |-> new.set, cred |-> new.cred, live |-> ProtocolState(new), conf |-> ProtocolState(new),
          open |-> (old.open \cup Added(old, new)) \ Stale(old, new),
          left |-> Touched(old.left) \ {"unsettled"}]
    BY <1>3 DEF Deployed
<1> QED
    BY <1>3, <1>4 DEF NewState, HostRecord

\* A failure other than Finalize's leaves the old state files or the new ones.
LEMMA Failed ==
    ASSUME NEW old, NEW new, HostRecord(old), NEW h \in Failures(old, new)
    PROVE  OldState(old, h) \/ NewState(new, h)
<1>1. CASE h = old
    BY <1>1 DEF OldState
<1>2. CASE h = Deployed(old, new)
    BY <1>2, Settling
<1>3. CASE h \in RolledBack(old, new)
    <2>1. PICK g \in NotActivated(old, new) : h = [g EXCEPT !.open = g.open \ Added(old, new)]
        BY <1>3 DEF RolledBack
    <2>2. OldState(old, g)
        BY NothingActivated
    <2> QED
        BY <2>1, <2>2 DEF OldState, HostRecord
<1>4. CASE h \in RollbackFails(old, new)
    <2>1. PICK g \in NotActivated(old, new), c \in SUBSET Added(old, new) :
             h = [g EXCEPT !.open = g.open \ c, !.left = g.left \cup {"leak"}]
        <3>1. PICK g \in NotActivated(old, new), c \in SUBSET Added(old, new) : h = Leaky(g, c)
            BY <1>4 DEF RollbackFails
        <3> QED
            BY <3>1 DEF Leaky
    <2>2. OldState(old, g)
        BY NothingActivated
    <2> QED
        BY <2>1, <2>2 DEF OldState, HostRecord
<1>5. CASE h \in RestoreConfigFails(old, new)
    <2>1. PICK c \in {old.conf, ProtocolState(new)}, l \in {old.live, old.conf, ProtocolState(new)} :
             h = [Opened(old, Added(old, new)) EXCEPT !.conf = c, !.live = l, !.left = @ \cup {"unsettled"}]
        BY <1>5 DEF RestoreConfigFails
    <2> QED
        BY <2>1 DEF OldState, HostRecord, Opened
<1>6. CASE h \in CleanupFails(old, new)
    <2> DEFINE g == Settled(old, new)
    <2>1. PICK c \in SUBSET Stale(old, new) : h = [g EXCEPT !.open = g.open \ c, !.left = g.left \cup {"leak"}]
        BY <1>6 DEF CleanupFails, Leaky
    <2>2. NewState(new, g)
        BY Settling
    <2> HIDE DEF g
    <2> QED
        BY <2>1, <2>2 DEF NewState, HostRecord
<1> QED
    BY <1>1, <1>2, <1>3, <1>4, <1>5, <1>6 DEF Failures

\* The new configuration is what runs, and its ports are open.
LEMMA SoundlySettled ==
    ASSUME NEW old, NEW new, HostRecord(old), Sound(old), NEW h, NewState(new, h),
           NEW c \in SUBSET Stale(old, new), h.open = (old.open \cup Added(old, new)) \ c,
           \/ h.left = Touched(old.left) \ {"unsettled"} /\ c = Stale(old, new)
           \/ h.left = (Touched(old.left) \ {"unsettled"}) \cup {"leak"}
    PROVE  Sound(h)
<1>1. /\ h.live = ProtocolState(h) /\ h.conf = h.live
      /\ firewallPorts(h.live.set) = firewallPorts(new.set) /\ firewallPorts(h.set) = firewallPorts(new.set)
    BY DEF NewState, ProtocolState, firewallPorts, ProtocolFields
<1>2. ASSUME "blind" \notin h.left PROVE firewallPorts(new.set) \subseteq h.open
    <2>1. "unsettled" \notin old.left /\ "blind" \notin old.left
        BY <1>2 DEF Touched
    <2>2. old.live = ProtocolState(old) /\ firewallPorts(old.live.set) \subseteq old.open
        BY <2>1 DEF Sound
    <2>3. firewallPorts(old.live.set) = firewallPorts(old.set)
        BY <2>2 DEF ProtocolState, firewallPorts, ProtocolFields
    <2> QED
        BY <2>2, <2>3 DEF Added, Stale
<1>3. ASSUME h.left = {} PROVE h.open = firewallPorts(new.set)
    <2>1. old.left = {} /\ c = Stale(old, new)
        BY <1>3 DEF Touched
    <2>2. old.open = firewallPorts(old.set)
        BY <2>1 DEF Sound
    <2> QED
        BY <2>1, <2>2 DEF Added, Stale
<1> QED
    BY <1>1, <1>2, <1>3 DEF Sound

\* A host whose state was kept: it runs what it ran and no port of that was closed.
LEMMA SoundlyKept ==
    ASSUME NEW old, NEW new, HostRecord(old), Sound(old), NEW h, OldState(old, h),
           h.conf = old.conf, h.live \in {old.live, old.conf},
           \/ h.open = old.open \ Added(old, new) /\ h.left = Touched(old.left)
           \/ old.open \ Added(old, new) \subseteq h.open /\ h.left = Touched(old.left) \cup {"leak"}
    PROVE  Sound(h)
<1>1. ProtocolState(h) = ProtocolState(old) /\ firewallPorts(h.set) = firewallPorts(old.set)
    BY DEF OldState, ProtocolState
<1>2. ASSUME "blind" \notin h.left
      PROVE  firewallPorts(h.live.set) \cup firewallPorts(h.conf.set) \subseteq h.open
    <2>1. "unsettled" \notin old.left /\ "blind" \notin old.left
        BY <1>2 DEF Touched
    <2>2. /\ old.live = ProtocolState(old) /\ old.conf = old.live
          /\ firewallPorts(old.live.set) \subseteq old.open
        BY <2>1 DEF Sound
    <2>3. firewallPorts(old.live.set) = firewallPorts(old.set)
        BY <2>2 DEF ProtocolState, firewallPorts, ProtocolFields
    <2>4. h.live = old.live /\ h.conf = old.live
        BY <2>2
    <2> HIDE DEF Sound
    <2>5. firewallPorts(old.set) \subseteq h.open
        BY <2>2, <2>3 DEF Added
    <2> QED
        BY <2>3, <2>4, <2>5
<1>3. ASSUME "unsettled" \notin h.left PROVE h.live = ProtocolState(h) /\ h.conf = h.live
    <2>1. "unsettled" \notin old.left
        BY <1>3 DEF Touched
    <2> QED
        BY <1>1, <2>1 DEF Sound
<1>4. ASSUME h.left = {} PROVE h.open = firewallPorts(h.set)
    <2>1. old.left = {} /\ h.open = old.open \ Added(old, new)
        BY <1>4 DEF Touched
    <2>2. old.open = firewallPorts(old.set)
        BY <2>1 DEF Sound
    <2> QED
        BY <1>1, <2>1, <2>2 DEF Added
<1> QED
    BY <1>2, <1>3, <1>4 DEF Sound

\* A host that may run the old or the new configuration has the ports of both.
LEMMA SoundlyUnsettled ==
    ASSUME NEW old, NEW new, HostRecord(old), Sound(old), NEW h, h.left = Touched(old.left) \cup {"unsettled"},
           h.open = old.open \cup Added(old, new),
           h.conf \in {old.conf, ProtocolState(new)}, h.live \in {old.live, old.conf, ProtocolState(new)}
    PROVE  Sound(h)
<1>1. ASSUME "blind" \notin h.left
      PROVE  firewallPorts(h.live.set) \cup firewallPorts(h.conf.set) \subseteq h.open
    <2>1. "unsettled" \notin old.left /\ "blind" \notin old.left
        BY <1>1 DEF Touched
    <2>2. /\ old.live = ProtocolState(old) /\ old.conf = old.live
          /\ firewallPorts(old.live.set) \subseteq old.open
        BY <2>1 DEF Sound
    <2>3. /\ firewallPorts(old.live.set) = firewallPorts(old.set)
          /\ firewallPorts(ProtocolState(new).set) = firewallPorts(new.set)
        BY <2>2 DEF ProtocolState, firewallPorts, ProtocolFields
    <2>4. firewallPorts(old.set) \subseteq h.open /\ firewallPorts(new.set) \subseteq h.open
        BY <2>2, <2>3 DEF Added
    <2>5. h.live \in {old.live, ProtocolState(new)} /\ h.conf \in {old.live, ProtocolState(new)}
        BY <2>2
    <2> QED
        BY <2>3, <2>4, <2>5
<1> QED
    BY <1>1 DEF Sound

\* Any failure other than Finalize's leaves a sound host sound.
LEMMA Deploying ==
    ASSUME NEW old, NEW new, HostRecord(old), Sound(old), NEW h \in Failures(old, new)
    PROVE  Sound(h)
<1>1. CASE h = old
    BY <1>1
<1>2. CASE h = Deployed(old, new)
    <2>1. Stale(old, new) \in SUBSET Stale(old, new)
        OBVIOUS
    <2> QED
        BY <1>2, <2>1, Settling, SoundlySettled
<1>3. CASE h \in RolledBack(old, new)
    <2>1. PICK g \in NotActivated(old, new) : h = [g EXCEPT !.open = g.open \ Added(old, new)]
        BY <1>3 DEF RolledBack
    <2>2. /\ OldState(old, g) /\ g.conf = old.conf /\ g.live \in {old.live, old.conf}
          /\ g.open \ Added(old, new) = old.open \ Added(old, new) /\ g.left = Touched(old.left)
        BY NothingActivated
    <2>3. /\ OldState(old, h) /\ h.conf = old.conf /\ h.live \in {old.live, old.conf}
          /\ h.open = old.open \ Added(old, new) /\ h.left = Touched(old.left)
        BY <2>1, <2>2 DEF OldState, HostRecord
    <2> QED
        BY <2>3, SoundlyKept
<1>4. CASE h \in RollbackFails(old, new)
    <2>1. PICK g \in NotActivated(old, new), c \in SUBSET Added(old, new) :
             h = [g EXCEPT !.open = g.open \ c, !.left = g.left \cup {"leak"}]
        <3>1. PICK g \in NotActivated(old, new), c \in SUBSET Added(old, new) : h = Leaky(g, c)
            BY <1>4 DEF RollbackFails
        <3> QED
            BY <3>1 DEF Leaky
    <2>2. /\ OldState(old, g) /\ g.conf = old.conf /\ g.live \in {old.live, old.conf}
          /\ old.open \subseteq g.open /\ g.left = Touched(old.left)
        BY NothingActivated
    <2>3. /\ OldState(old, h) /\ h.conf = old.conf /\ h.live \in {old.live, old.conf}
          /\ h.open = g.open \ c /\ h.left = Touched(old.left) \cup {"leak"}
        BY <2>1, <2>2 DEF OldState, HostRecord
    <2>4. old.open \ Added(old, new) \subseteq h.open
        BY <2>2, <2>3
    <2> QED
        BY <2>3, <2>4, SoundlyKept
<1>5. CASE h \in RestoreConfigFails(old, new)
    <2>1. PICK c \in {old.conf, ProtocolState(new)}, l \in {old.live, old.conf, ProtocolState(new)} :
             h = [Opened(old, Added(old, new)) EXCEPT !.conf = c, !.live = l, !.left = @ \cup {"unsettled"}]
        BY <1>5 DEF RestoreConfigFails
    <2>2. /\ h.conf = c /\ h.live = l /\ h.open = old.open \cup Added(old, new)
          /\ h.left = Touched(old.left) \cup {"unsettled"}
        BY <2>1 DEF HostRecord, Opened
    <2> QED
        BY <2>2, SoundlyUnsettled
<1>6. CASE h \in CleanupFails(old, new)
    <2> DEFINE g == Settled(old, new)
    <2>1. PICK c \in SUBSET Stale(old, new) : h = [g EXCEPT !.open = g.open \ c, !.left = g.left \cup {"leak"}]
        BY <1>6 DEF CleanupFails, Leaky
    <2>2. /\ NewState(new, g) /\ g.open = old.open \cup Added(old, new)
          /\ g.left = Touched(old.left) \ {"unsettled"}
        BY Settling
    <2> HIDE DEF g
    <2>3. /\ NewState(new, h) /\ h.open = (old.open \cup Added(old, new)) \ c
          /\ h.left = (Touched(old.left) \ {"unsettled"}) \cup {"leak"}
        BY <2>1, <2>2 DEF NewState, HostRecord
    <2> QED
        BY <2>3, SoundlySettled
<1> QED
    BY <1>1, <1>2, <1>3, <1>4, <1>5, <1>6 DEF Failures

\* What Finalize leaves when it fails: any of the fields written, the new configuration running.
LEMMA Halving ==
    ASSUME NEW old, NEW new, HostRecord(old), NEW h \in HalfPersisted(old, new)
    PROVE  /\ HostRecord(h) /\ \E w : h.set = [f \in Fields |-> IF f \in w THEN new.set[f] ELSE old.set[f]]
           /\ h.live = ProtocolState(new) /\ h.conf = ProtocolState(new)
           /\ h.open = old.open \cup Added(old, new) /\ h.left = Touched(old.left) \cup {"unsettled"}
<1> DEFINE g == Settled(old, new)
<1>1. \E w, y : h = [g EXCEPT !.set = [f \in Fields |-> IF f \in w THEN new.set[f] ELSE old.set[f]],
                                !.cred = y, !.left = Touched(old.left) \cup {"unsettled"}]
    <2>1. PICK w \in SUBSET ({f \in Fields : new.set[f] # old.set[f]} \cup {"cred"}) :
             h = [g EXCEPT !.set = [f \in Fields |-> IF f \in w THEN new.set[f] ELSE old.set[f]],
                           !.cred = IF "cred" \in w THEN new.cred ELSE old.cred,
                           !.left = Touched(old.left) \cup {"unsettled"}]
        BY DEF HalfPersisted
    <2> HIDE DEF g
    <2> QED
        BY <2>1
<1>2. NewState(new, g) /\ g.open = old.open \cup Added(old, new)
    BY Settling
<1> HIDE DEF g
<1> QED
    <2>1. PICK w, y : h = [g EXCEPT !.set = [f \in Fields |-> IF f \in w THEN new.set[f] ELSE old.set[f]],
                                    !.cred = y, !.left = Touched(old.left) \cup {"unsettled"}]
        BY <1>1
    <2>2. PICK x : x = [f \in Fields |-> IF f \in w THEN new.set[f] ELSE old.set[f]]
        OBVIOUS
    <2>3. PICK l : l = Touched(old.left) \cup {"unsettled"}
        OBVIOUS
    <2>4. h = [g EXCEPT !.set = x, !.cred = y, !.left = l]
        BY <2>1, <2>2, <2>3
    <2>5. HostRecord(h) /\ h.set = x /\ h.live = g.live /\ h.conf = g.conf /\ h.open = g.open /\ h.left = l
        BY <1>2, <2>4 DEF NewState, HostRecord
    <2> QED
        BY <1>2, <2>2, <2>3, <2>5 DEF NewState

\* Both kinds of failure, and success, keep the invariant of the spoke.
LEMMA SpokeKept ==
    ASSUME SpokeInv, NEW new, spoke' \in Failures(spoke, new) \cup HalfPersisted(spoke, new)
    PROVE  SpokeInv'
<1>1. HostRecord(spoke) /\ Sound(spoke)
    BY DEF SpokeInv, SpokeConsistent, Sound
<1>2. HostRecord(spoke') /\ Sound(spoke')
    <2>1. CASE spoke' \in Failures(spoke, new)
        BY <1>1, <2>1, Deploying, Failed DEF OldState, NewState
    <2>2. CASE spoke' \in HalfPersisted(spoke, new)
        BY <1>1, <2>2, Halving, SoundlyUnsettled
    <2> QED
        BY <2>1, <2>2
<1> QED
    BY <1>2 DEF SpokeInv, SpokeConsistent, Sound, HostRecord

\* Install, InstallFails and FinalizeFails keep the invariant.
LEMMA DoesInstall ==
    ASSUME IInv, NEW s \in Sessions, Install(s) \/ InstallFails(s) \/ FinalizeFails(s)
    PROVE  IInv' /\ reg' = reg
<1>1. UNCHANGED <<reg, writer>> /\ sess[s].pc = "deliver"
    BY DEF Install, InstallFails, FinalizeFails, At
<1>2. RegistryInv'
    BY <1>1, Mine DEF RegistryInv
<1>3. CASE Install(s)
    <2>1. CASE ~RevisionMatches(s) \/ ~Buildable(s)
        <3>1. PICK b \in BOOLEAN : PushFailed(s, b)
            BY <1>3, <2>1 DEF Install
        <3>2. UNCHANGED <<spoke, doubt>>
            BY <1>3, <2>1 DEF Install
        <3> QED
            BY <1>1, <1>2, <3>1, <3>2, Mine, Unmoved, PushFailing, OthersKeep
    <2>2. CASE RevisionMatches(s) /\ Buildable(s)
        <3>1. spoke' = Deployed(spoke, buildSpokeConfig(s)) /\ doubt' = doubt
            BY <1>3, <2>2 DEF Install
        <3>2. SpokeInv'
            BY <3>1, Mine, SpokeKept DEF Failures
        <3>3. sess'[s] = [sess[s] EXCEPT !.pc = "settle", !.sent = None] /\ Others(s)
            BY <1>3, <2>2, Updating DEF Install
        <3>4. SessionRecord(sess'[s]) /\ sess'[s].pc = "settle" /\ Kept(s)
            BY Mine, <3>3 DEF SessionRecord, Kept
        <3>5. SessionInv(s)'
            BY <1>1, <3>4, GoingOn
        <3> QED
            BY <1>1, <1>2, <3>2, <3>3, <3>5, OthersKeep
    <2> QED
        BY <2>1, <2>2
<1>4. CASE InstallFails(s)
    <2>1. SpokeInv'
        BY <1>4, Mine, SpokeKept DEF InstallFails
    <2>2. SessionInv(s)' /\ Others(s)
        BY <1>1, <1>4, PushFailing DEF InstallFails
    <2> QED
        BY <1>1, <1>2, <2>1, <2>2, OthersKeep
<1>5. CASE FinalizeFails(s)
    <2>1. SpokeInv'
        BY <1>5, Mine, SpokeKept DEF FinalizeFails
    <2>2. SessionInv(s)' /\ Others(s)
        BY <1>1, <1>5, PushFailing DEF FinalizeFails
    <2> QED
        BY <1>1, <1>2, <2>1, <2>2, OthersKeep
<1> QED
    BY <1>3, <1>4, <1>5

-----------------------------------------------------------------------------
(* The rollback.                                                           *)
LEMMA RollingBack ==
    ASSUME IInv, NEW s \in Sessions, NEW set, NEW told, Rollback(s, set, told), sess[s].pc = "restore"
    PROVE  SessionInv(s)' /\ Others(s)
<1> DEFINE next == IF sess[s].req.kind \notin ProtocolKinds THEN "send"
                   ELSE IF sess[s].conflict THEN "refresh" ELSE "inspect"
           back == [sess[s].upd EXCEPT !.set = set]
<1>0. /\ Upd(s, [sess[s] EXCEPT !.pc = next, !.undo = TRUE, !.told = told, !.upd = back])
      /\ next # "restore"
    BY DEF Rollback
<1> HIDE DEF next, back
<1>1. PICK x, y : Upd(s, [sess[s] EXCEPT !.pc = x, !.undo = TRUE, !.told = told, !.upd = y]) /\ x # "restore"
    BY <1>0
<1>2. sess'[s] = [sess[s] EXCEPT !.pc = x, !.undo = TRUE, !.told = told, !.upd = y] /\ Others(s)
    BY <1>1, Updating
<1>3. SessionRecord(sess'[s]) /\ sess'[s].pc = x /\ sess'[s].undo = TRUE /\ sess'[s].req = sess[s].req
    BY <1>2, Mine DEF SessionRecord
<1> QED
    BY <1>1, <1>2, <1>3, Mine DEF SessionInv

\* Restore keeps the invariant.
LEMMA DoesRestore ==
    ASSUME IInv, NEW s \in Sessions, Restore(s)
    PROVE  /\ IInv' /\ Others(s)
           /\ \A f \in Fields \ {"monitor"} : reg'.set[f] # reg.set[f] => writer[f] = s
<1> DEFINE set == [f \in Fields |-> IF f \in Restorable(s) THEN sess[s].orig[f] ELSE reg.set[f]]
<1>1. /\ sess[s].pc = "restore" /\ UNCHANGED <<spoke, writer, doubt>>
      /\ reg' = [reg EXCEPT !.set = set] /\ Rollback(s, set, None)
    BY DEF Restore, At, Undone
<1>2. reg'.set = set /\ reg'.gen = reg.gen /\ RegistryInv'
    BY <1>1, Mine DEF RegistryInv
<1>3. SpokeInv'
    BY <1>1, Mine, StaysConsistent
<1>4. SessionInv(s)' /\ Others(s)
    BY <1>1, RollingBack
<1>5. IInv'
    BY <1>1, <1>2, <1>3, <1>4, OthersKeep
<1>6. ASSUME NEW f \in Fields \ {"monitor"}, reg'.set[f] # reg.set[f] PROVE writer[f] = s
    <2>1. f \in Restorable(s)
        BY <1>2, <1>6
    <2>2. sess[s].req \in Requests /\ ~sess[s].undo
        BY <1>1, Mine DEF SessionInv
    <2>3. f \in DOMAIN Writes(sess[s].req, sess[s].view)
        BY <2>1 DEF Restorable
    <2>4. sess[s].req.kind \in Counted
        BY <2>2, <2>3, <1>6, WritesOfScreen
    <2>5. Guarded(s)
        BY <1>1, <2>2, <2>4, Mine DEF SessionInv
    <2>6. sess[s].req.kind # "monitor"
        BY <2>4 DEF Counted, ProtocolKinds
    <2>7. reg.gen[Counter(sess[s].req)] = sess[s].upd.gen
        BY <2>1, <2>6 DEF Restorable
    <2> QED
        BY <2>3, <2>5, <2>7 DEF Guarded
<1> QED
    BY <1>4, <1>5, <1>6

\* RestoreFails keeps the invariant.
LEMMA DoesRestoreFails ==
    ASSUME IInv, NEW s \in Sessions, RestoreFails(s)
    PROVE  IInv' /\ reg' = reg
<1>1. /\ UNCHANGED <<reg, writer, spoke, doubt>> /\ sess[s].pc = "restore"
      /\ \E set \in {sess[s].orig, Undone(s)} : Rollback(s, set, "failed")
    BY DEF RestoreFails, At
<1>2. RegistryInv' /\ SpokeInv'
    BY <1>1, Mine, Unmoved
<1>3. SessionInv(s)' /\ Others(s)
    BY <1>1, RollingBack
<1> QED
    BY <1>1, <1>2, <1>3, OthersKeep

-----------------------------------------------------------------------------
(* What a step may do to the settings of the registry.                     *)
SparesWinners ==
    \A s \in Sessions : (At(s, "restore") /\ sess'[s].pc # "restore") =>
        \A f \in Fields \ {"monitor"} : reg'.set[f] # reg.set[f] => writer[f] = s

\* Every step keeps the invariant and spares the winners.
LEMMA StepSafe ==
    ASSUME IInv, [Next]_vars
    PROVE  IInv' /\ SparesWinners
<1>1. reg' = reg => SparesWinners
    BY DEF SparesWinners
<1>2. CASE UNCHANGED vars
    <2>1. UNCHANGED <<reg, spoke, doubt, sess, writer>>
        BY <1>2 DEF vars
    <2>2. RegistryInv /\ SpokeInv
        BY DEF IInv
    <2>3. RegistryInv' /\ SpokeInv'
        BY <2>1, <2>2, Unmoved
    <2>4. ASSUME NEW t \in Sessions PROVE SessionInv(t)'
        <3>1. SessionInv(t)
            BY Mine
        <3> QED
            BY <2>1, <3>1 DEF SessionInv, SessionRecord, Guarded
    <2> QED
        BY <1>1, <2>1, <2>3, <2>4 DEF IInv
<1>3. ASSUME NEW s \in Sessions, applySpokeRegistryReconfigure(s) PROVE IInv' /\ SparesWinners
    BY <1>3, DoesApplySpokeRegistryReconfigure DEF SparesWinners, Others, At
<1>4. ASSUME NEW s \in Sessions, Restore(s) PROVE IInv' /\ SparesWinners
    BY <1>4, DoesRestore DEF SparesWinners, Others, At
<1>5. ASSUME NEW s \in Sessions, NEW r \in Requests, startEditForm(s, r) PROVE IInv' /\ SparesWinners
    BY <1>1, <1>5, DoesStartEditForm
<1>6. ASSUME NEW s \in Sessions,
             \/ applySpokeProtocol(s) \/ FetchFails(s) \/ RegenerateConfigs(s) \/ reconfigure(s)
             \/ reconfigureFails(s) \/ RefreshFails(s)
      PROVE  IInv' /\ SparesWinners
    BY <1>1, <1>6, DoesApplySpokeProtocol, DoesFetchFails, DoesRegenerateConfigs, DoesReconfigure,
       DoesReconfigureFails
<1>7. ASSUME NEW s \in Sessions,
             \/ Install(s) \/ InstallFails(s) \/ FinalizeFails(s) \/ RefreshSubscriptions(s)
             \/ RestoreFails(s) \/ rollbackRemote(s) \/ InspectFails(s) \/ RefreshOnly(s)
      PROVE  IInv' /\ SparesWinners
    BY <1>1, <1>7, DoesInstall, DoesRefreshSubscriptions, DoesRestoreFails, DoesRollbackRemote,
       DoesInspectFails, DoesRefreshOnly
<1>8. ASSUME NEW s \in Sessions,
             \/ Update(s) \/ protocolUpdateSteps(s) \/ UpdateFails(s)
             \/ regenerateLocal(s) \/ regenerateLocalSingBox(s) \/ RestartFails(s)
      PROVE  IInv' /\ SparesWinners
    BY <1>1, <1>8, DoesUpdate, DoesProtocolUpdateSteps, DoesUpdateFails, DoesRegenerateLocal,
       DoesRegenerateLocalSingBox, DoesRestartFails
<1> QED
    BY <1>2, <1>3, <1>4, <1>5, <1>6, <1>7, <1>8 DEF Next, Quiet

\* The invariant holds initially.
LEMMA InitSafe == Init => IInv
<1> SUFFICES ASSUME Init PROVE IInv
    OBVIOUS
<1>1. RegistryInv
    <2>1. reg = [set |-> Initial, gen |-> [protocol |-> 0, subscription |-> 0, none |-> 0]]
        BY DEF Init
    <2>2. [protocol |-> 0, subscription |-> 0, none |-> 0] \in [Counters -> Nat]
        BY DEF Counters
    <2> QED
        BY <2>1, <2>2 DEF RegistryInv
<1>2. SpokeInv
    <2>1. spoke = Host
        BY DEF Init
    <2>2. HostRecord(spoke) /\ spoke.live = ProtocolState(spoke) /\ spoke.conf = spoke.live
        BY <2>1 DEF Host, HostRecord, ProtocolState
    <2>3. spoke.open = firewallPorts(spoke.set) /\ firewallPorts(spoke.live.set) = firewallPorts(spoke.set)
        BY <2>1 DEF Host, firewallPorts, ProtocolFields
    <2> QED
        BY <2>2, <2>3 DEF SpokeInv, SpokeConsistent
<1>3. sess = [s \in Sessions |-> Idle]
    BY DEF Init
<1>4. ASSUME NEW s \in Sessions PROVE SessionInv(s)
    <2>1. sess[s] = Idle
        BY <1>3
    <2> QED
        BY <2>1 DEF SessionInv, SessionRecord, Idle
<1> QED
    BY <1>1, <1>2, <1>3, <1>4 DEF IInv

-----------------------------------------------------------------------------
(* The inductive invariant of the settings transactions (hubctl, ui,       *)
(* Orchestrator.Reconfigure).                                              *)
THEOREM Invariance == Spec => []IInv
<1>1. IInv /\ [Next]_vars => IInv'
    BY StepSafe
<1> QED
    BY InitSafe, <1>1, PTL DEF Spec

(* Whatever fails while the agent applies a request, the ports of what     *)
(* runs and of what would be started next are open, until a request goes   *)
(* to work on a spoke whose last activation was neither written down nor   *)
(* undone; elsewhere the spoke runs what its state files describe, with    *)
(* exactly its ports if all were closed as ordered (Orchestrator.          *)
(* Reconfigure).                                                           *)
THEOREM SpokeRunsItsState == Spec => []SpokeConsistent
<1>1. IInv => SpokeConsistent
    BY DEF IInv, SpokeInv
<1> QED
    BY Invariance, <1>1, PTL

(* A rollback restores only what its own transaction was the last to write *)
(* (spokeRegistryChange.Restore, ui/spoke_reconfigure.go).                 *)
THEOREM WinnersAreSpared == Spec => RollbackSparesWinners
<1>1. IInv /\ [Next]_vars => [SparesWinners]_vars
    BY StepSafe
<1>2. [][SparesWinners]_vars => RollbackSparesWinners
    BY PTL DEF SparesWinners, RollbackSparesWinners
<1> QED
    BY Invariance, <1>1, <1>2, PTL DEF Spec

-----------------------------------------------------------------------------
(***************************************************************************)
(* Agreement.  What follows is about the values of the settings: registry  *)
(* and spoke know all fields.                                              *)
(***************************************************************************)
Settings(x) == x = [f \in Fields |-> x[f]]
HubRecord(h) == h = [set |-> h.set, cred |-> h.cred, live |-> h.live, open |-> h.open, conf |-> h.conf]
HubSteps == {"firewall", "activate", "state", "restart", "rerender"}
Pushing == {"send", "deliver", "settle", "restore"}

(* What a session knows at its steps, whatever the others do.              *)
KnowsAt(s) ==
    /\ sess[s].told = "failed" => sess[s].undo \/ sess[s].pc = "done"
    /\ sess[s].pc \in {"idle", "form", "apply", "done"} \cup HubSteps => ~sess[s].undo
    /\ sess[s].pc \in {"idle", "form"} => revision[s] = "none"
    /\ sess[s].pc \in {"apply", "inspect", "refresh"} => sess[s].req.kind \in ProtocolKinds
    /\ sess[s].pc = "restore" => sess[s].req.kind \in RegistryKinds
    /\ sess[s].pc \in Pushing => sess[s].req.kind \in RegistryKinds \cup {"regenerate"}
    /\ sess[s].pc \in Pushing /\ ~sess[s].undo /\ sess[s].req.kind \in RegistryKinds =>
          sess[s].upd = [set |-> sess[s].upd.set, gen |-> sess[s].upd.gen]
    /\ sess[s].pc = "deliver" /\ IsReplace(s) =>
          \A f \in ProtocolFields : sess[s].sent[f] = sess[s].upd.set[f]

Values == /\ Settings(reg.set) /\ Settings(spoke.set) /\ HubRecord(hub)
          /\ revision = [s \in Sessions |-> revision[s]]
ValuesInv == Values /\ \A s \in Sessions : KnowsAt(s)

(* Nothing has failed or been undone so far.                               *)
StraightAt(s) == ~sess[s].undo /\ sess[s].pc # "restore" /\ (sess[s].pc = "done" => sess[s].told = "ok")
Smooth ==
    /\ "spoke" \notin doubt
    /\ \A s \in Sessions : StraightAt(s) /\ revision[s] # "reused"

(* A protocol change that has read its revision, and one whose push is due. *)
Reader(s) == sess[s].pc \in {"apply", "send", "deliver"} /\ sess[s].req.kind \in ProtocolKinds
Pusher(s) == sess[s].pc \in {"send", "deliver"} /\ sess[s].req.kind \in ProtocolKinds

(* What the only push that can still succeed makes of the spoke.           *)
Plan(s) ==
    /\ IsReplace(s) => \A f \in ProtocolFields : sess[s].upd.set[f] = reg.set[f]
    /\ IsPatch(s) => \A f \in ProtocolFields :
          reg.set[f] = IF f = sess[s].req.proto THEN sess[s].req.port ELSE spoke.set[f]
Agree == \A f \in ProtocolFields : reg.set[f] = spoke.set[f]

ReadInv == \A s \in Sessions : Reader(s) =>
    /\ revision[s] \in {"fresh", "stale"}
    /\ revision[s] = "fresh" => sess[s].seen = ProtocolState(spoke)
RestInv == (\A s \in Sessions : ~Pusher(s)) => Agree
PlanInv == \A s \in Sessions :
    (Pusher(s) /\ (\A t \in Sessions \ {s} : ~Pusher(t)) /\ revision[s] = "fresh") => Plan(s)
SmoothInv == Smooth => ReadInv /\ RestInv /\ PlanInv

(* One transaction at a time: where registry and spoke are at its steps.   *)
Mutates(s) == Changed(sess[s].orig, Writes(sess[s].req, sess[s].view))
OrigState(s) == [f \in ProtocolFields |-> sess[s].orig[f]]

TransactionAt(s) ==
    /\ Settings(sess[s].orig)
    /\ sess[s].req.kind \in ProtocolKinds =>
          /\ sess[s].seen.set = OrigState(s)
          /\ sess[s].target = Target(sess[s].req, sess[s].seen, Mutates(s))
    /\ reg.set = IF sess[s].undo THEN sess[s].orig ELSE Mutates(s)
    /\ sess[s].upd.set = reg.set
    /\ ~sess[s].undo => sess[s].upd.gen = reg.gen[Counter(sess[s].req)]
    /\ sess[s].pc = "deliver" => sess[s].sent = reg.set
Before(s, host) == /\ host.set = sess[s].orig
                   /\ sess[s].req.kind \in ProtocolKinds => ProtocolState(host) = sess[s].seen
After(s, host) == /\ host.set = Mutates(s)
                  /\ sess[s].req.kind \in ProtocolKinds => ProtocolState(host) = sess[s].target

PushedAt(s) ==
    /\ sess[s].pc \in {"send", "deliver"} /\ ~sess[s].undo => Before(s, spoke)
    /\ sess[s].pc = "settle" /\ ~sess[s].undo => After(s, spoke)
    /\ sess[s].pc = "restore" => ~sess[s].conflict
    /\ sess[s].pc \in {"restore", "inspect"} => Before(s, spoke) \/ After(s, spoke)
    /\ sess[s].pc \in {"send", "deliver"} /\ sess[s].undo =>
          After(s, spoke) \/ (sess[s].req.kind \notin ProtocolKinds /\ Before(s, spoke))
    /\ sess[s].pc = "refresh" \/ (sess[s].pc = "settle" /\ sess[s].undo) => spoke.set = reg.set

Steps == {"send", "deliver", "settle", "restore", "inspect", "refresh"}
AloneAt(s) ==
    /\ sess[s].pc \notin Steps \/ sess[s].req.kind = "regenerate" => reg.set = spoke.set
    /\ sess[s].pc = "apply" => sess[s].seen = ProtocolState(spoke)
    /\ sess[s].pc \in Steps /\ sess[s].req.kind = "regenerate" =>
          ~sess[s].undo /\ (sess[s].pc = "deliver" => sess[s].sent = reg.set)
    /\ sess[s].pc \in Steps /\ sess[s].req.kind # "regenerate" => TransactionAt(s) /\ PushedAt(s)

Trusted == "spoke" \notin doubt /\ \A s \in Sessions : Told(s) # "failed"
Lone(s) == \A t \in Sessions \ {s} : ~InFlight(t)

OneInv == ~overlap => \A s \in Sessions : InFlight(s) => Lone(s)
SerialInv == ~overlap /\ Trusted => /\ (\A s \in Sessions : ~InFlight(s)) => reg.set = spoke.set
                                    /\ \A s \in Sessions : Lone(s) => AloneAt(s)

(* The same for the hub's own update.                                      *)
HubSound == /\ hub.live = ProtocolState(hub) /\ hub.conf = hub.live
            /\ firewallPorts(hub.set) \subseteq hub.open
HubAt(s) ==
    /\ sess[s].pc \notin {"activate", "state", "restart"} => HubSound
    /\ sess[s].pc = "firewall" => sess[s].seen = [set |-> hub.set, cred |-> hub.cred]
    /\ sess[s].pc = "rerender" => sess[s].seen = hub.conf /\ sess[s].upd = ProtocolState(hub)
    /\ sess[s].pc \in {"activate", "state", "restart"} => firewallPorts(sess[s].upd.set) \subseteq hub.open
    /\ sess[s].pc \in {"state", "restart"} => hub.conf = ProtocolState(sess[s].upd)
    /\ sess[s].pc = "restart" => hub.set = sess[s].upd.set /\ hub.cred = sess[s].upd.cred

HubInv ==
    ~overlap /\ "hub" \notin doubt =>
        /\ (\A s \in Sessions : ~InFlight(s)) => HubSound
        /\ \A s \in Sessions : Lone(s) => HubAt(s)

AInv == ValuesInv /\ SmoothInv /\ OneInv /\ SerialInv /\ HubInv

-----------------------------------------------------------------------------
(* The fields of a session after a step.                                   *)
Now(s, pc, req, view, seen, orig, upd, target, sent, conflict, undo, told) ==
    /\ sess'[s].pc = pc /\ sess'[s].req = req /\ sess'[s].view = view /\ sess'[s].seen = seen
    /\ sess'[s].orig = orig /\ sess'[s].upd = upd /\ sess'[s].target = target
    /\ sess'[s].sent = sent /\ sess'[s].conflict = conflict /\ sess'[s].undo = undo
    /\ sess'[s].told = told
    /\ Others(s)

Ended(s, told) ==
    Now(s, "done", sess[s].req, None, None, None, None, None, None, FALSE, FALSE,
        IF sess[s].told = "failed" THEN "failed" ELSE told)

\* The fields of a session that has its answer.
LEMMA Ends ==
    ASSUME IInv, NEW s \in Sessions, NEW told, Finish(s, told)
    PROVE  Ended(s, told)
<1> DEFINE x == IF sess[s].told = "failed" THEN "failed" ELSE told
<1>1. Upd(s, [Idle EXCEPT !.pc = "done", !.req = sess[s].req, !.told = x])
    BY DEF Finish, Upd
<1> HIDE DEF x
<1>2. sess'[s] = [Idle EXCEPT !.pc = "done", !.req = sess[s].req, !.told = x] /\ Others(s)
    BY <1>1, Updating
<1> QED
    BY <1>2 DEF Idle, Ended, Now, x

\* The fields of a session whose push failed.
LEMMA Fails ==
    ASSUME IInv, NEW s \in Sessions, NEW c, PushFailed(s, c)
    PROVE  IF sess[s].undo \/ sess[s].req.kind = "regenerate" THEN Ended(s, "failed")
           ELSE Now(s, "restore", sess[s].req, sess[s].view, sess[s].seen, sess[s].orig, sess[s].upd,
                    sess[s].target, None, c, sess[s].undo, sess[s].told)
<1>1. CASE sess[s].undo \/ sess[s].req.kind = "regenerate"
    BY <1>1, Ends DEF PushFailed
<1>2. CASE ~(sess[s].undo \/ sess[s].req.kind = "regenerate")
    <2>1. sess'[s] = [sess[s] EXCEPT !.pc = "restore", !.conflict = c, !.sent = None] /\ Others(s)
        BY <1>2, Updating DEF PushFailed
    <2> QED
        BY <1>2, <2>1, Mine DEF SessionRecord, Now
<1> QED
    BY <1>1, <1>2

-----------------------------------------------------------------------------
(* What a step of session s has to show, in parts: for the values, for the *)
(* hosts and for the agreement of all that has succeeded.                  *)
RevisionsKept(s) ==
    /\ \A t \in Sessions : revision'[t] # "reused" => revision[t] # "reused"
    /\ \A t \in Sessions \ {s} : revision[t] = "none" => revision'[t] = "none"
Keeps(s) ==
    /\ Others(s) /\ Values' /\ KnowsAt(s)'
    /\ doubt \subseteq doubt' /\ (overlap => overlap')
    /\ StraightAt(s)' => StraightAt(s)
    /\ Told(s)' # "failed" => Told(s) # "failed"
    /\ RevisionsKept(s)
    /\ InFlight(s)' /\ ~InFlight(s) => Began(s)
    /\ ~InFlight(s) /\ ~InFlight(s)' => UNCHANGED <<reg, spoke>>
    /\ sess[s].pc \notin HubSteps => hub' = hub
Serves(s) ==
    /\ "spoke" \notin doubt' /\ Told(s)' # "failed" /\ AloneAt(s) => AloneAt(s)'
    /\ "hub" \notin doubt' /\ HubAt(s) => HubAt(s)'

(* A step that is none of a protocol change's.                             *)
Aside(s) ==
    /\ \A f \in ProtocolFields : reg'.set[f] = reg.set[f]
    /\ ProtocolState(spoke)' = ProtocolState(spoke)
    /\ revision' = revision
    /\ Reader(s)' => Reader(s) /\ sess'[s].seen = sess[s].seen
    /\ Pusher(s)' <=> Pusher(s)
    /\ Pusher(s) => sess'[s].req = sess[s].req /\ sess'[s].upd = sess[s].upd

\* What the other sessions know stays.
LEMMA KnowsOn ==
    ASSUME ValuesInv, NEW s \in Sessions, Keeps(s)
    PROVE  ValuesInv'
<1>1. ASSUME NEW t \in Sessions \ {s} PROVE KnowsAt(t)'
    <2>1. sess'[t] = sess[t] /\ KnowsAt(t)
        BY DEF Keeps, Others, ValuesInv
    <2>2. revision[t] = "none" => revision'[t] = "none"
        BY DEF Keeps, RevisionsKept
    <2> QED
        BY <2>1, <2>2 DEF KnowsAt, IsReplace
<1> QED
    BY <1>1 DEF ValuesInv, Keeps

\* What has gone straight so far did so before.
LEMMA SmoothBefore ==
    ASSUME NEW s \in Sessions, Keeps(s), Smooth'
    PROVE  Smooth
<1>1. ASSUME NEW t \in Sessions PROVE StraightAt(t) /\ revision[t] # "reused"
    <2>1. StraightAt(t)' /\ revision'[t] # "reused"
        BY DEF Smooth
    <2>2. CASE t = s
        BY <2>1, <2>2 DEF Keeps, RevisionsKept
    <2>3. CASE t # s
        BY <2>1, <2>3 DEF Keeps, RevisionsKept, Others, StraightAt
    <2> QED
        BY <2>2, <2>3
<1> QED
    BY <1>1 DEF Smooth, Keeps

\* A step aside leaves the plans as they are.
LEMMA SmoothOn ==
    ASSUME SmoothInv, NEW s \in Sessions, Keeps(s), Aside(s)
    PROVE  SmoothInv'
<1> SUFFICES ASSUME Smooth' PROVE ReadInv' /\ RestInv' /\ PlanInv'
    BY DEF SmoothInv
<1>1. ReadInv /\ RestInv /\ PlanInv
    BY SmoothBefore DEF SmoothInv
<1>2. \A t \in Sessions : /\ Reader(t)' => Reader(t) /\ sess'[t].seen = sess[t].seen
                          /\ Pusher(t)' <=> Pusher(t)
                          /\ Pusher(t) => sess'[t].req = sess[t].req /\ sess'[t].upd = sess[t].upd
    BY DEF Keeps, Others, Aside, Reader, Pusher
<1>3. \A f \in ProtocolFields : reg'.set[f] = reg.set[f] /\ spoke'.set[f] = spoke.set[f]
    <2>1. ASSUME NEW f \in ProtocolFields PROVE spoke'.set[f] = spoke.set[f]
        <3>1. ProtocolState(spoke)'.set[f] = ProtocolState(spoke).set[f]
            BY DEF Aside
        <3> QED
            BY <3>1 DEF ProtocolState
    <2> QED
        BY <2>1 DEF Aside
<1>4. ReadInv'
    BY <1>1, <1>2 DEF ReadInv, Aside
<1>5. RestInv'
    BY <1>1, <1>2, <1>3 DEF RestInv, Agree
<1>6. PlanInv'
    <2> SUFFICES ASSUME NEW t \in Sessions, Pusher(t)', \A u \in Sessions \ {t} : ~Pusher(u)',
                        revision'[t] = "fresh"
                 PROVE  Plan(t)'
        BY DEF PlanInv
    <2>1. Plan(t) /\ sess'[t].req = sess[t].req /\ sess'[t].upd = sess[t].upd
        BY <1>1, <1>2 DEF PlanInv, Aside
    <2> QED
        BY <1>3, <2>1 DEF Plan, IsReplace, IsPatch
<1> QED
    BY <1>4, <1>5, <1>6

\* A step that does not go straight has nothing to show.
LEMMA NotSmooth ==
    ASSUME NEW s \in Sessions, ~StraightAt(s)' \/ "spoke" \in doubt' \/ revision'[s] = "reused"
    PROVE  SmoothInv'
    BY DEF SmoothInv, Smooth

\* One transaction at a time.
LEMMA OneOn ==
    ASSUME OneInv, NEW s \in Sessions, Keeps(s)
    PROVE  OneInv'
<1> SUFFICES ASSUME ~overlap', NEW t \in Sessions, InFlight(t)' PROVE Lone(t)'
    BY DEF OneInv
<1>1. ~overlap /\ \A u \in Sessions \ {s} : InFlight(u)' <=> InFlight(u)
    BY DEF Keeps, Others, InFlight
<1>2. Lone(s) => Lone(s)'
    BY <1>1 DEF Lone
<1>3. CASE InFlight(s)
    <2>1. Lone(s)
        BY <1>1, <1>3 DEF OneInv
    <2> QED
        BY <1>2, <2>1 DEF Lone
<1>4. CASE ~InFlight(s) /\ InFlight(s)'
    <2>1. Lone(s)
        BY <1>4 DEF Keeps, Began, Lone
    <2> QED
        BY <1>2, <2>1 DEF Lone
<1>5. CASE ~InFlight(s) /\ ~InFlight(s)'
    <2>1. Lone(t)
        BY <1>1, <1>5 DEF OneInv
    <2> QED
        BY <1>1, <1>5, <2>1 DEF Lone
<1> QED
    BY <1>3, <1>4, <1>5

\* Where registry and spoke are after a step.
LEMMA SerialOn ==
    ASSUME OneInv, SerialInv, NEW s \in Sessions, Keeps(s), Serves(s)
    PROVE  SerialInv'
<1> SUFFICES ASSUME ~overlap', Trusted'
             PROVE  /\ (\A t \in Sessions : ~InFlight(t)') => reg'.set = spoke'.set
                    /\ \A t \in Sessions : Lone(t)' => AloneAt(t)'
    BY DEF SerialInv
<1>1. ~overlap /\ \A u \in Sessions \ {s} : InFlight(u)' <=> InFlight(u)
    BY DEF Keeps, Others, InFlight
<1>2. Trusted
    <2>1. ASSUME NEW t \in Sessions PROVE Told(t) # "failed"
        BY DEF Trusted, Keeps, Others, Told
    <2> QED
        BY <2>1 DEF Trusted, Keeps
<1>3. Lone(s)' => AloneAt(s)'
    <2>1. Lone(s)' => Lone(s)
        BY <1>1 DEF Lone
    <2> QED
        BY <1>1, <1>2, <2>1 DEF SerialInv, Serves, Trusted
<1>4. ASSUME \A t \in Sessions : ~InFlight(t)' PROVE reg'.set = spoke'.set
    <2>1. AloneAt(s)' /\ ~InFlight(s)'
        BY <1>3, <1>4 DEF Lone
    <2> QED
        BY <2>1 DEF AloneAt, InFlight, Steps
<1>5. ASSUME NEW t \in Sessions \ {s}, Lone(t)' PROVE AloneAt(t)'
    <2>1. ~InFlight(s)'
        BY <1>5 DEF Lone
    <2>2. CASE InFlight(t)
        <3>1. Lone(t) /\ ~InFlight(s)
            BY <1>1, <2>2 DEF OneInv, Lone
        <3>2. UNCHANGED <<reg, spoke>> /\ sess'[t] = sess[t]
            BY <2>1, <3>1 DEF Keeps, Others
        <3>3. AloneAt(t)
            BY <1>1, <1>2, <3>1 DEF SerialInv
        <3> QED
            BY <3>2, <3>3 DEF AloneAt, TransactionAt, PushedAt, Before, After, Mutates, OrigState, ProtocolState
    <2>3. CASE ~InFlight(t)
        <3>1. \A u \in Sessions : ~InFlight(u)'
            BY <1>1, <1>5, <2>3 DEF Lone
        <3>2. reg'.set = spoke'.set /\ ~InFlight(t)'
            BY <1>4, <3>1
        <3> QED
            BY <3>2 DEF AloneAt, InFlight, Steps
    <2> QED
        BY <2>2, <2>3
<1> QED
    BY <1>3, <1>4, <1>5

\* Where the hub is after a step.
LEMMA HubOn ==
    ASSUME OneInv, HubInv, NEW s \in Sessions, Keeps(s), Serves(s)
    PROVE  HubInv'
<1> SUFFICES ASSUME ~overlap', "hub" \notin doubt'
             PROVE  /\ (\A t \in Sessions : ~InFlight(t)') => HubSound'
                    /\ \A t \in Sessions : Lone(t)' => HubAt(t)'
    BY DEF HubInv
<1>1. ~overlap /\ \A u \in Sessions \ {s} : InFlight(u)' <=> InFlight(u)
    BY DEF Keeps, Others, InFlight
<1>2. "hub" \notin doubt
    BY DEF Keeps
<1>3. Lone(s)' => HubAt(s)'
    <2>1. Lone(s)' => Lone(s)
        BY <1>1 DEF Lone
    <2> QED
        BY <1>1, <1>2, <2>1 DEF HubInv, Serves
<1>4. ASSUME \A t \in Sessions : ~InFlight(t)' PROVE HubSound'
    <2>1. HubAt(s)' /\ ~InFlight(s)'
        BY <1>3, <1>4 DEF Lone
    <2> QED
        BY <2>1 DEF HubAt, InFlight
<1>5. ASSUME NEW t \in Sessions \ {s}, Lone(t)' PROVE HubAt(t)'
    <2>1. ~InFlight(s)'
        BY <1>5 DEF Lone
    <2>2. CASE InFlight(t)
        <3>1. Lone(t) /\ ~InFlight(s)
            BY <1>1, <2>2 DEF OneInv, Lone
        <3>2. hub' = hub /\ sess'[t] = sess[t]
            BY <3>1 DEF Keeps, Others, InFlight, HubSteps
        <3>3. HubAt(t)
            BY <1>1, <1>2, <3>1 DEF HubInv
        <3> QED
            BY <3>2, <3>3 DEF HubAt, HubSound, ProtocolState
    <2>3. CASE ~InFlight(t)
        <3>1. \A u \in Sessions : ~InFlight(u)'
            BY <1>1, <1>5, <2>3 DEF Lone
        <3>2. HubSound' /\ ~InFlight(t)'
            BY <1>4, <3>1
        <3> QED
            BY <3>2 DEF HubAt, InFlight
    <2> QED
        BY <2>2, <2>3
<1> QED
    BY <1>3, <1>4, <1>5

\* The parts together.
LEMMA Combined ==
    ASSUME AInv, NEW s \in Sessions, Keeps(s), Serves(s), SmoothInv'
    PROVE  AInv'
    BY KnowsOn, OneOn, SerialOn, HubOn DEF AInv

-----------------------------------------------------------------------------
\* What is known before a step.
LEMMA Known ==
    ASSUME IInv, AInv, NEW s \in Sessions
    PROVE  /\ KnowsAt(s) /\ Values /\ SessionRecord(sess[s]) /\ sess[s].undo \in BOOLEAN
           /\ sess[s].pc # "idle" => sess[s].req \in Requests
           /\ sess[s].pc \in {"inspect", "refresh"} => sess[s].undo
           /\ sess[s].pc = "restore" => ~sess[s].undo
           /\ HostRecord(spoke) /\ RegistryInv
    BY Mine DEF AInv, ValuesInv, SessionInv, SpokeInv

\* Unchanged settings are settings.
LEMMA ValuesOn ==
    ASSUME Values, UNCHANGED <<reg, spoke>>, HubRecord(hub)', revision' = [t \in Sessions |-> revision'[t]]
    PROVE  Values'
    BY DEF Values, Settings

\* Unchanged revisions are kept.
LEMMA RevisionsOn ==
    ASSUME Values, NEW s, revision' = revision
    PROVE  RevisionsKept(s) /\ revision' = [t \in Sessions |-> revision'[t]]
    BY DEF RevisionsKept, Values

(* What the end of a transaction has to show.                              *)
MayEnd(s, told) ==
    /\ UNCHANGED <<reg, spoke>> /\ doubt \subseteq doubt' /\ (overlap => overlap')
    /\ RevisionsKept(s) /\ revision' = [t \in Sessions |-> revision'[t]]
    /\ HubRecord(hub)' /\ (sess[s].pc \notin HubSteps => hub' = hub)
    /\ told \in {"ok", "refused", "failed", "restored"}
    /\ told = "ok" =>
          sess[s].pc \in {"settle", "restart", "rerender"} /\ ~sess[s].undo /\ revision' = revision
    /\ told # "failed" /\ AloneAt(s) => reg.set = spoke.set
    /\ "hub" \notin doubt' /\ HubAt(s) => HubSound'

\* The end of a transaction.
LEMMA Ending ==
    ASSUME IInv, AInv, NEW s \in Sessions, NEW told, Ended(s, told), MayEnd(s, told)
    PROVE  AInv'
<1>1. /\ sess'[s].pc = "done" /\ sess'[s].undo = FALSE /\ Others(s)
      /\ sess'[s].told = IF sess[s].told = "failed" THEN "failed" ELSE told
    BY DEF Ended, Now
<1>2. Values'
    BY Known, ValuesOn DEF MayEnd
<1>3. KnowsAt(s)'
    BY <1>1 DEF KnowsAt, HubSteps, Pushing
<1>4. StraightAt(s)' => StraightAt(s) /\ told = "ok"
    BY <1>1 DEF StraightAt, MayEnd
<1>5. ~InFlight(s)'
    BY <1>1 DEF InFlight
<1>6. Keeps(s)
    BY <1>1, <1>2, <1>3, <1>4, <1>5 DEF Keeps, MayEnd, Told
<1>7. Serves(s)
    <2>1. "spoke" \notin doubt' /\ Told(s)' # "failed" /\ AloneAt(s) => AloneAt(s)'
        BY <1>1 DEF MayEnd, Told, AloneAt, Steps
    <2>2. "hub" \notin doubt' /\ HubAt(s) => HubAt(s)'
        BY <1>1 DEF MayEnd, HubAt
    <2> QED
        BY <2>1, <2>2 DEF Serves
<1>8. SmoothInv'
    <2>1. CASE told # "ok"
        BY <1>4, <2>1, NotSmooth
    <2>2. CASE told = "ok"
        <3>1. Aside(s)
            BY <1>1, <2>2 DEF Aside, MayEnd, Reader, Pusher, ProtocolState
        <3> QED
            BY <1>6, <3>1, SmoothOn DEF AInv
    <2> QED
        BY <2>1, <2>2
<1> QED
    BY <1>6, <1>7, <1>8, Combined

\* An operator opens a screen, or is refused.
LEMMA AgreesStartEditForm ==
    ASSUME IInv, AInv, NEW s \in Sessions, NEW r \in Requests, startEditForm(s, r)
    PROVE  AInv'
<1>1. /\ sess[s].pc = "idle" /\ UNCHANGED <<reg, spoke, hub, faults, writer, doubt, overlap, revision>>
    BY DEF startEditForm, At
<1>2. /\ Others(s) /\ sess'[s].undo = sess[s].undo
      /\ \/ sess'[s].pc = "done" /\ sess'[s].told = "refused"
         \/ sess'[s].pc = "form" /\ sess'[s].told = sess[s].told
    <2>1. CASE r.kind = "edit" /\ \E f \in ProtocolFields : spoke.set[f] # reg.set[f]
        <3>1. sess'[s] = [sess[s] EXCEPT !.pc = "done", !.req = r, !.told = "refused"] /\ Others(s)
            BY <2>1, Updating DEF startEditForm
        <3> QED
            BY <3>1, Known DEF SessionRecord
    <2>2. CASE ~(r.kind = "edit" /\ \E f \in ProtocolFields : spoke.set[f] # reg.set[f])
        <3>1. PICK v, x : Upd(s, [sess[s] EXCEPT !.pc = "form", !.req = r, !.view = v, !.form = x])
            BY <2>2 DEF startEditForm
        <3>2. sess'[s] = [sess[s] EXCEPT !.pc = "form", !.req = r, !.view = v, !.form = x] /\ Others(s)
            BY <3>1, Updating
        <3> QED
            BY <3>2, Known DEF SessionRecord
    <2> QED
        BY <2>1, <2>2
<1>3. ~sess[s].undo /\ sess[s].told # "failed" /\ revision[s] = "none"
    BY <1>1, Known DEF KnowsAt
<1>4. KnowsAt(s)'
    BY <1>1, <1>2, <1>3 DEF KnowsAt, HubSteps, Pushing
<1>5. ~InFlight(s) /\ ~InFlight(s)'
    BY <1>1, <1>2 DEF InFlight
<1>6. Values'
    BY <1>1, Known, RevisionsOn, ValuesOn DEF Values, HubRecord
<1>7. Keeps(s)
    BY <1>1, <1>2, <1>3, <1>4, <1>5, <1>6, Known, RevisionsOn DEF Keeps, Told, StraightAt
<1>8. Serves(s)
    BY <1>1, <1>2 DEF Serves, AloneAt, Steps, HubAt, HubSound, ProtocolState
<1>9. Aside(s)
    BY <1>1, <1>2 DEF Aside, Reader, Pusher, ProtocolState
<1> QED
    BY <1>7, <1>8, <1>9, SmoothOn, Combined DEF AInv

\* An operator gives up before anything is written, or cannot fetch the state.
LEMMA AgreesFetchFails ==
    ASSUME IInv, AInv, NEW s \in Sessions, FetchFails(s)
    PROVE  AInv'
<1>1. /\ sess[s].pc = "form" /\ Ended(s, "refused")
      /\ UNCHANGED <<reg, spoke, hub, writer, doubt, overlap, revision>>
    BY Ends DEF FetchFails, At
<1>2. HubRecord(hub)'
    BY <1>1, Known DEF Values, HubRecord
<1>3. MayEnd(s, "refused")
    BY <1>1, <1>2, Known, RevisionsOn DEF MayEnd, AloneAt, Steps, HubAt, HubSound, ProtocolState
<1> QED
    BY <1>1, <1>3, Ending

\* A refresh ends a transaction that has only that left to do.
LEMMA AgreesRefreshOnly ==
    ASSUME IInv, AInv, NEW s \in Sessions, RefreshOnly(s)
    PROVE  AInv'
<1>1. /\ sess[s].pc = "refresh" /\ Ended(s, "restored")
      /\ UNCHANGED <<reg, spoke, hub, faults, writer, doubt, overlap, revision>>
    BY Ends DEF RefreshOnly, At
<1>2. HubRecord(hub)' /\ sess[s].req.kind # "regenerate"
    BY <1>1, Known DEF Values, HubRecord, KnowsAt, ProtocolKinds
<1>3. MayEnd(s, "restored")
    BY <1>1, <1>2, Known, RevisionsOn DEF MayEnd, AloneAt, PushedAt, Steps, HubAt, HubSound, ProtocolState
<1> QED
    BY <1>1, <1>3, Ending

\* The spoke cannot be asked, or the registry not be refreshed.
LEMMA AgreesInspectFails ==
    ASSUME IInv, AInv, NEW s \in Sessions, InspectFails(s)
    PROVE  AInv'
<1>1. /\ sess[s].pc \in {"inspect", "refresh"} /\ Ended(s, "failed")
      /\ UNCHANGED <<reg, spoke, hub, writer, doubt, overlap, revision>>
    BY Ends DEF InspectFails
<1>2. HubRecord(hub)'
    BY <1>1, Known DEF Values, HubRecord
<1>3. MayEnd(s, "failed")
    BY <1>1, <1>2, Known, RevisionsOn DEF MayEnd, HubAt, HubSound, ProtocolState
<1> QED
    BY <1>1, <1>3, Ending

\* A push has gone through.
LEMMA AgreesRefreshSubscriptions ==
    ASSUME IInv, AInv, NEW s \in Sessions, RefreshSubscriptions(s)
    PROVE  AInv'
<1> DEFINE told == IF sess[s].undo THEN "restored" ELSE "ok"
<1>1. /\ sess[s].pc = "settle" /\ Ended(s, told)
      /\ UNCHANGED <<reg, spoke, hub, faults, writer, doubt, overlap, revision>>
    BY Ends DEF RefreshSubscriptions, At
<1>2. HubRecord(hub)'
    BY <1>1, Known DEF Values, HubRecord
<1>3. AloneAt(s) => reg.set = spoke.set
    BY <1>1 DEF AloneAt, PushedAt, TransactionAt, After, Steps
<1>4. "hub" \notin doubt' /\ HubAt(s) => HubSound'
    BY <1>1 DEF HubAt, HubSound, ProtocolState
<1>5. MayEnd(s, told)
    BY <1>1, <1>2, <1>3, <1>4, Known, RevisionsOn DEF MayEnd
<1> HIDE DEF told
<1> QED
    BY <1>1, <1>5, Ending

\* The hub's update fails at some step.
LEMMA AgreesUpdateFails ==
    ASSUME IInv, AInv, NEW s \in Sessions, UpdateFails(s)
    PROVE  AInv'
<1>1. /\ Ended(s, "failed") /\ doubt' = doubt \cup {"hub"}
      /\ UNCHANGED <<reg, spoke, hub, writer, overlap, revision>>
    BY Ends DEF UpdateFails
<1>2. HubRecord(hub)'
    BY <1>1, Known DEF Values, HubRecord
<1>3. MayEnd(s, "failed")
    BY <1>1, <1>2, Known, RevisionsOn DEF MayEnd
<1> QED
    BY <1>1, <1>3, Ending

\* The hub's configuration is rendered again.
LEMMA AgreesRegenerateLocalSingBox ==
    ASSUME IInv, AInv, NEW s \in Sessions, regenerateLocalSingBox(s)
    PROVE  AInv'
<1>1. /\ sess[s].pc = "rerender" /\ Ended(s, "ok")
      /\ hub' = [hub EXCEPT !.conf = sess[s].upd, !.live = sess[s].upd]
      /\ UNCHANGED <<reg, spoke, faults, writer, doubt, overlap, revision>>
    BY Ends DEF regenerateLocalSingBox, At
<1>2. /\ HubRecord(hub)' /\ hub'.conf = sess[s].upd /\ hub'.live = sess[s].upd
      /\ hub'.set = hub.set /\ hub'.cred = hub.cred /\ hub'.open = hub.open
    BY <1>1, Known DEF Values, HubRecord
<1>3. "hub" \notin doubt' /\ HubAt(s) => HubSound'
    BY <1>1, <1>2 DEF HubAt, HubSound, ProtocolState
<1>4. ~sess[s].undo
    BY <1>1, Known DEF KnowsAt, HubSteps
<1>5. AloneAt(s) => reg.set = spoke.set
    BY <1>1 DEF AloneAt, Steps
<1>6. MayEnd(s, "ok")
    BY <1>1, <1>2, <1>3, <1>4, <1>5, Known, RevisionsOn DEF MayEnd, HubSteps
<1> QED
    BY <1>1, <1>6, Ending

\* sing-box does not start with it.
LEMMA AgreesRestartFails ==
    ASSUME IInv, AInv, NEW s \in Sessions, RestartFails(s)
    PROVE  AInv'
<1>1. /\ sess[s].pc = "rerender" /\ UNCHANGED <<reg, spoke, writer, overlap, revision>>
    BY DEF RestartFails, At
<1>2. AloneAt(s) => reg.set = spoke.set
    BY <1>1 DEF AloneAt, Steps
<1>3. CASE /\ hub' = [hub EXCEPT !.conf = sess[s].seen, !.live = sess[s].seen]
           /\ Finish(s, "restored") /\ UNCHANGED doubt
    <2>1. /\ HubRecord(hub)' /\ hub'.conf = sess[s].seen /\ hub'.live = sess[s].seen
          /\ hub'.set = hub.set /\ hub'.cred = hub.cred /\ hub'.open = hub.open
        BY <1>3, Known DEF Values, HubRecord
    <2>2. "hub" \notin doubt' /\ HubAt(s) => HubSound'
        BY <1>1, <2>1 DEF HubAt, HubSound, ProtocolState
    <2>3. MayEnd(s, "restored")
        BY <1>1, <1>2, <1>3, <2>1, <2>2, Known, RevisionsOn DEF MayEnd, HubSteps
    <2> QED
        BY <1>3, <2>3, Ends, Ending
<1>4. ASSUME Finish(s, "failed"), NEW c, hub' = [hub EXCEPT !.conf = c], doubt' = doubt \cup {"hub"}
      PROVE  AInv'
    <2>1. HubRecord(hub)'
        BY <1>4, Known DEF Values, HubRecord
    <2>2. MayEnd(s, "failed")
        BY <1>1, <1>4, <2>1, Known, RevisionsOn DEF MayEnd, HubSteps
    <2> QED
        BY <1>4, <2>2, Ends, Ending
<1> QED
    BY <1>3, <1>4 DEF RestartFails

(* What a step within a transaction has to show.                           *)
MayGo(s) ==
    /\ UNCHANGED <<reg, spoke, doubt, revision>> /\ (overlap => overlap') /\ Others(s)
    /\ HubRecord(hub)' /\ (sess[s].pc \notin HubSteps => hub' = hub)
    /\ sess[s].pc \notin {"restore", "done"} /\ InFlight(s)' /\ (InFlight(s) \/ Began(s))
    /\ sess'[s].undo = sess[s].undo /\ sess'[s].told = sess[s].told /\ sess'[s].req = sess[s].req
    /\ KnowsAt(s)' /\ Serves(s)
    /\ \/ sess'[s].upd = sess[s].upd /\ sess[s].pc = "send" /\ sess'[s].pc = "deliver"
             /\ sess'[s].seen = sess[s].seen
       \/ ~Reader(s)' /\ ~Pusher(s)

\* A step within a transaction.
LEMMA Going ==
    ASSUME IInv, AInv, NEW s \in Sessions, MayGo(s)
    PROVE  AInv'
<1>1. Values' /\ RevisionsKept(s)
    BY Known, RevisionsOn, ValuesOn DEF MayGo
<1>2. StraightAt(s)' => StraightAt(s)
    BY DEF MayGo, StraightAt
<1>3. Keeps(s)
    BY <1>1, <1>2 DEF Keeps, MayGo, Told
<1>4. Aside(s)
    BY DEF MayGo, Aside, Reader, Pusher, ProtocolState
<1>5. Serves(s)
    BY DEF MayGo
<1> QED
    BY <1>3, <1>4, <1>5, SmoothOn, Combined DEF AInv

\* A push without a change of its own begins.
LEMMA AgreesRegenerateConfigs ==
    ASSUME IInv, AInv, NEW s \in Sessions, RegenerateConfigs(s)
    PROVE  AInv'
<1>1. /\ sess[s].pc = "form" /\ sess[s].req.kind = "regenerate" /\ Began(s)
      /\ UNCHANGED <<reg, spoke, hub, faults, writer, doubt, revision>>
      /\ sess'[s] = [sess[s] EXCEPT !.pc = "send"] /\ Others(s)
    BY Updating DEF RegenerateConfigs, At
<1>2. /\ sess'[s].pc = "send" /\ sess'[s].undo = sess[s].undo /\ sess'[s].told = sess[s].told
      /\ sess'[s].req = sess[s].req
    BY <1>1, Known DEF SessionRecord
<1>3. ~sess[s].undo /\ sess[s].told # "failed"
    BY <1>1, Known DEF KnowsAt
<1>4. KnowsAt(s)'
    BY <1>1, <1>2, <1>3 DEF KnowsAt, HubSteps, Pushing, RegistryKinds, ProtocolKinds
<1>5. Serves(s)
    <2>1. AloneAt(s) => AloneAt(s)'
        BY <1>1, <1>2, <1>3 DEF AloneAt, Steps
    <2>2. HubAt(s) => HubAt(s)'
        BY <1>1, <1>2 DEF HubAt, HubSound, ProtocolState
    <2> QED
        BY <2>1, <2>2 DEF Serves
<1>6. ~Reader(s)' /\ ~Pusher(s) /\ InFlight(s)'
    BY <1>1, <1>2 DEF Reader, Pusher, ProtocolKinds, InFlight
<1>7. HubRecord(hub)' /\ (overlap => overlap')
    BY <1>1, Known DEF Values, HubRecord, Began
<1> QED
    BY <1>1, <1>2, <1>4, <1>5, <1>6, <1>7, Going DEF MayGo

\* The request to the agent is built.
LEMMA AgreesReconfigure ==
    ASSUME IInv, AInv, NEW s \in Sessions, reconfigure(s)
    PROVE  AInv'
<1>1. /\ sess[s].pc = "send"
      /\ UNCHANGED <<reg, spoke, hub, faults, writer, doubt, overlap, revision>>
      /\ sess'[s] = [sess[s] EXCEPT !.pc = "deliver", !.sent = Desired(s)] /\ Others(s)
    BY Updating DEF reconfigure, At
<1>2. Now(s, "deliver", sess[s].req, sess[s].view, sess[s].seen, sess[s].orig, sess[s].upd,
          sess[s].target, Desired(s), sess[s].conflict, sess[s].undo, sess[s].told)
    BY <1>1, Known DEF SessionRecord, Now
<1>3. KnowsAt(s)'
    <2>1. KnowsAt(s)
        BY Known
    <2>2. IsReplace(s) => \A f \in ProtocolFields : Desired(s)[f] = sess[s].upd.set[f]
        BY DEF Desired, Fields
    <2> QED
        BY <1>1, <1>2, <2>1, <2>2 DEF KnowsAt, Now, HubSteps, Pushing, IsReplace
<1>4. Serves(s)
    <2>1. AloneAt(s) => AloneAt(s)'
        <3> SUFFICES ASSUME AloneAt(s) PROVE AloneAt(s)'
            OBVIOUS
        <3>0. Settings(reg.set)
            BY Known DEF Values
        <3>1. Desired(s) = reg.set
            <4>1. sess[s].req.kind = "regenerate" => Desired(s) = [f \in Fields |-> reg.set[f]]
                BY DEF Desired, IsReplace
            <4>2. sess[s].req.kind # "regenerate" => sess[s].upd.set = reg.set
                BY <1>1 DEF AloneAt, TransactionAt, Steps
            <4>3. sess[s].upd.set = reg.set => Desired(s) = [f \in Fields |-> reg.set[f]]
                BY DEF Desired
            <4> QED
                BY <3>0, <4>1, <4>2, <4>3 DEF Settings
        <3>2. CASE sess[s].req.kind = "regenerate"
            BY <1>1, <1>2, <3>1, <3>2 DEF AloneAt, Steps, Now
        <3>3. CASE sess[s].req.kind # "regenerate"
            <4>1. TransactionAt(s) /\ PushedAt(s)
                BY <1>1, <3>3 DEF AloneAt, Steps
            <4>2. TransactionAt(s)'
                BY <1>1, <1>2, <3>1, <4>1 DEF TransactionAt, Now, Mutates, OrigState
            <4>3. PushedAt(s)'
                BY <1>1, <1>2, <4>1 DEF PushedAt, Now, Before, After, Mutates, ProtocolState
            <4> QED
                BY <1>2, <3>3, <4>2, <4>3 DEF AloneAt, Now, Steps
        <3> QED
            BY <3>2, <3>3
    <2>2. HubAt(s) => HubAt(s)'
        BY <1>1, <1>2 DEF HubAt, HubSound, ProtocolState, Now
    <2> QED
        BY <2>1, <2>2 DEF Serves
<1>5. HubRecord(hub)' /\ InFlight(s) /\ InFlight(s)'
    BY <1>1, <1>2, Known DEF Values, HubRecord, InFlight, Now
<1> QED
    BY <1>1, <1>2, <1>3, <1>4, <1>5, Going DEF MayGo, Now

\* The hub's update begins, or is refused.
LEMMA AgreesUpdate ==
    ASSUME IInv, AInv, NEW s \in Sessions, Update(s)
    PROVE  AInv'
<1> DEFINE set == Changed(hub.set, spokeProtocolSelectionRegistryChange(sess[s].req, sess[s].view))
<1>1. /\ sess[s].pc = "form" /\ Began(s)
      /\ UNCHANGED <<reg, spoke, hub, faults, writer, doubt, revision>>
    BY DEF Update, At
<1>2. HubRecord(hub)' /\ (overlap => overlap')
    BY <1>1, Known DEF Values, HubRecord, Began
<1>3. CASE ValidatePorts(set)
    <2>1. PICK u : Upd(s, [sess[s] EXCEPT !.pc = "firewall",
                             !.seen = [set |-> hub.set, cred |-> hub.cred], !.upd = u])
        BY <1>3 DEF Update
    <2>2. /\ sess'[s] = [sess[s] EXCEPT !.pc = "firewall",
                             !.seen = [set |-> hub.set, cred |-> hub.cred], !.upd = u]
          /\ Others(s)
        BY <2>1, Updating
    <2>3. /\ sess'[s].pc = "firewall" /\ sess'[s].undo = sess[s].undo /\ sess'[s].told = sess[s].told
          /\ sess'[s].req = sess[s].req /\ sess'[s].seen = [set |-> hub.set, cred |-> hub.cred]
        BY <2>2, Known DEF SessionRecord
    <2>4. ~sess[s].undo /\ sess[s].told # "failed"
        BY <1>1, Known DEF KnowsAt
    <2>5. KnowsAt(s)'
        BY <2>3, <2>4 DEF KnowsAt, HubSteps, Pushing
    <2>6. Serves(s)
        <3>1. AloneAt(s) => AloneAt(s)'
            BY <1>1, <2>3 DEF AloneAt, Steps
        <3>2. HubAt(s) => HubAt(s)'
            BY <1>1, <2>3 DEF HubAt, HubSound, ProtocolState
        <3> QED
            BY <3>1, <3>2 DEF Serves
    <2>7. ~Reader(s)' /\ ~Pusher(s) /\ InFlight(s)'
        BY <1>1, <2>3 DEF Reader, Pusher, InFlight
    <2> QED
        BY <1>1, <1>2, <2>2, <2>3, <2>5, <2>6, <2>7, Going DEF MayGo
<1>4. CASE ~ValidatePorts(set)
    <2>1. Finish(s, "refused")
        BY <1>4 DEF Update
    <2>2. MayEnd(s, "refused")
        BY <1>1, <1>2, Known, RevisionsOn DEF MayEnd, AloneAt, Steps, HubAt, HubSound, ProtocolState
    <2> QED
        BY <2>1, <2>2, Ends, Ending
<1> QED
    BY <1>3, <1>4

\* The hub's configuration is to be rendered again.
LEMMA AgreesRegenerateLocal ==
    ASSUME IInv, AInv, NEW s \in Sessions, regenerateLocal(s)
    PROVE  AInv'
<1>1. /\ sess[s].pc = "form" /\ Began(s)
      /\ UNCHANGED <<reg, spoke, hub, faults, writer, doubt, revision>>
      /\ sess'[s] = [sess[s] EXCEPT !.pc = "rerender", !.seen = hub.conf, !.upd = ProtocolState(hub)]
      /\ Others(s)
    BY Updating DEF regenerateLocal, At
<1>2. /\ sess'[s].pc = "rerender" /\ sess'[s].undo = sess[s].undo /\ sess'[s].told = sess[s].told
      /\ sess'[s].req = sess[s].req /\ sess'[s].seen = hub.conf /\ sess'[s].upd = ProtocolState(hub)
    BY <1>1, Known DEF SessionRecord
<1>3. ~sess[s].undo /\ sess[s].told # "failed"
    BY <1>1, Known DEF KnowsAt
<1>4. KnowsAt(s)'
    BY <1>2, <1>3 DEF KnowsAt, HubSteps, Pushing
<1>5. Serves(s)
    <2>1. AloneAt(s) => AloneAt(s)'
        BY <1>1, <1>2 DEF AloneAt, Steps
    <2>2. HubAt(s) => HubAt(s)'
        BY <1>1, <1>2 DEF HubAt, HubSound, ProtocolState
    <2> QED
        BY <2>1, <2>2 DEF Serves
<1>6. ~Reader(s)' /\ ~Pusher(s) /\ InFlight(s)'
    BY <1>1, <1>2 DEF Reader, Pusher, InFlight
<1>7. HubRecord(hub)' /\ (overlap => overlap')
    BY <1>1, Known DEF Values, HubRecord, Began
<1> QED
    BY <1>1, <1>2, <1>4, <1>5, <1>6, <1>7, Going DEF MayGo

\* The ports the new selection needs are open after the firewall step.
LEMMA PortsOpened ==
    ASSUME NEW old, NEW new, NEW open, firewallPorts(old.set) \subseteq open
    PROVE  firewallPorts(new.set) \subseteq
              (open \cup protocolsNeedingPortChanges(old, new)) \ stalePortsToClose(old, new)
<1> SUFFICES ASSUME NEW p \in new.set["enabled"] \cap Protocols
             PROVE  <<Transport[p], new.set[p]>> \in
                       (open \cup protocolsNeedingPortChanges(old, new)) \ stalePortsToClose(old, new)
    BY DEF firewallPorts
<1>1. <<Transport[p], new.set[p]>> \notin stalePortsToClose(old, new)
    BY DEF stalePortsToClose
<1>2. CASE p \notin old.set["enabled"] \/ old.set[p] # new.set[p]
    BY <1>1, <1>2 DEF protocolsNeedingPortChanges
<1>3. CASE p \in old.set["enabled"] /\ old.set[p] = new.set[p]
    <2>1. <<Transport[p], new.set[p]>> \in firewallPorts(old.set)
        BY <1>3 DEF firewallPorts
    <2> QED
        BY <1>1, <2>1
<1> QED
    BY <1>2, <1>3

\* A step of the hub's update.
LEMMA HubGoing ==
    ASSUME IInv, AInv, NEW s \in Sessions, NEW pc \in {"activate", "state", "restart"},
           sess[s].pc \in {"firewall", "activate", "state"},
           UNCHANGED <<reg, spoke, faults, writer, doubt, overlap, revision>>, HubRecord(hub)',
           Upd(s, [sess[s] EXCEPT !.pc = pc]),
           /\ HubAt(s) => firewallPorts(sess[s].upd.set) \subseteq hub'.open
           /\ HubAt(s) /\ pc # "activate" => hub'.conf = ProtocolState(sess[s].upd)
           /\ pc = "restart" => hub'.set = sess[s].upd.set /\ hub'.cred = sess[s].upd.cred
    PROVE  AInv'
<1>1. sess'[s] = [sess[s] EXCEPT !.pc = pc] /\ Others(s)
    BY Updating
<1>2. /\ sess'[s].pc = pc /\ sess'[s].undo = sess[s].undo /\ sess'[s].told = sess[s].told
      /\ sess'[s].req = sess[s].req /\ sess'[s].upd = sess[s].upd
    BY <1>1, Known DEF SessionRecord
<1>3. ~sess[s].undo /\ sess[s].told # "failed"
    BY Known DEF KnowsAt, HubSteps
<1>4. KnowsAt(s)'
    BY <1>2, <1>3 DEF KnowsAt, HubSteps, Pushing
<1>5. Serves(s)
    <2>1. AloneAt(s) => AloneAt(s)'
        BY <1>2 DEF AloneAt, Steps
    <2>2. HubAt(s) => HubAt(s)'
        BY <1>2 DEF HubAt
    <2> QED
        BY <2>1, <2>2 DEF Serves
<1>6. ~Reader(s)' /\ ~Pusher(s) /\ InFlight(s)' /\ InFlight(s)
    BY <1>2 DEF Reader, Pusher, InFlight
<1> QED
    BY <1>1, <1>2, <1>4, <1>5, <1>6, Going DEF MayGo, HubSteps

\* The steps of the hub's update.
LEMMA AgreesProtocolUpdateSteps ==
    ASSUME IInv, AInv, NEW s \in Sessions, protocolUpdateSteps(s)
    PROVE  AInv'
<1> DEFINE old == sess[s].seen
           new == sess[s].upd
<1>1. UNCHANGED <<reg, spoke, faults, writer, doubt, overlap, revision>>
    BY DEF protocolUpdateSteps
<1>2. HubRecord(hub)
    BY Known DEF Values
<1>3. CASE /\ At(s, "firewall")
           /\ hub' = [hub EXCEPT !.open = (@ \cup protocolsNeedingPortChanges(old, new))
                                             \ stalePortsToClose(old, new)]
           /\ Upd(s, [sess[s] EXCEPT !.pc = "activate"])
    <2>1. /\ hub'.open = (hub.open \cup protocolsNeedingPortChanges(old, new)) \ stalePortsToClose(old, new)
          /\ HubRecord(hub)'
        BY <1>2, <1>3 DEF HubRecord
    <2>2. HubAt(s) => firewallPorts(old.set) \subseteq hub.open
        BY <1>3 DEF HubAt, HubSound, At
    <2>3. HubAt(s) => firewallPorts(new.set) \subseteq hub'.open
        BY <2>1, <2>2, PortsOpened
    <2> HIDE DEF old
    <2> QED
        BY <1>1, <1>3, <2>1, <2>3, HubGoing DEF At
<1>4. CASE At(s, "activate") /\ hub' = [hub EXCEPT !.conf = ProtocolState(new)]
           /\ Upd(s, [sess[s] EXCEPT !.pc = "state"])
    <2>1. hub'.open = hub.open /\ hub'.conf = ProtocolState(new) /\ HubRecord(hub)'
        BY <1>2, <1>4 DEF HubRecord
    <2>2. HubAt(s) => firewallPorts(new.set) \subseteq hub'.open
        BY <1>4, <2>1 DEF HubAt, At
    <2> QED
        BY <1>1, <1>4, <2>1, <2>2, HubGoing DEF At
<1>5. CASE At(s, "state") /\ hub' = [hub EXCEPT !.set = new.set, !.cred = new.cred]
           /\ Upd(s, [sess[s] EXCEPT !.pc = "restart"])
    <2>1. /\ hub'.open = hub.open /\ hub'.conf = hub.conf /\ HubRecord(hub)'
          /\ hub'.set = new.set /\ hub'.cred = new.cred
        BY <1>2, <1>5 DEF HubRecord
    <2>2. HubAt(s) => firewallPorts(new.set) \subseteq hub'.open /\ hub'.conf = ProtocolState(new)
        BY <1>5, <2>1 DEF HubAt, At
    <2> QED
        BY <1>1, <1>5, <2>1, <2>2, HubGoing DEF At
<1>6. CASE At(s, "restart") /\ hub' = [hub EXCEPT !.live = hub.conf] /\ Finish(s, "ok")
    <2>1. /\ hub'.open = hub.open /\ hub'.conf = hub.conf /\ hub'.live = hub.conf /\ HubRecord(hub)'
          /\ hub'.set = hub.set /\ hub'.cred = hub.cred
        BY <1>2, <1>6 DEF HubRecord
    <2>2. HubAt(s) => HubSound'
        BY <1>6, <2>1 DEF HubAt, HubSound, At, ProtocolState
    <2>3. ~sess[s].undo
        BY <1>6, Known DEF KnowsAt, HubSteps, At
    <2>4. AloneAt(s) => reg.set = spoke.set
        BY <1>6 DEF AloneAt, Steps, At
    <2>5. MayEnd(s, "ok")
        BY <1>1, <1>6, <2>1, <2>2, <2>3, <2>4, Known, RevisionsOn DEF MayEnd, HubSteps, At
    <2> QED
        BY <1>6, <2>5, Ends, Ending
<1> QED
    BY <1>3, <1>4, <1>5, <1>6 DEF protocolUpdateSteps

\* The state of the spoke is fetched, or the form turns out to be outdated.
LEMMA AgreesApplySpokeProtocol ==
    ASSUME IInv, AInv, NEW s \in Sessions, applySpokeProtocol(s)
    PROVE  AInv'
<1>1. /\ sess[s].pc = "form" /\ sess[s].req.kind \in ProtocolKinds /\ Began(s)
      /\ revision' = [revision EXCEPT ![s] = "fresh"]
      /\ UNCHANGED <<reg, spoke, hub, faults, writer, doubt>>
    BY DEF applySpokeProtocol, At
<1>2. HubRecord(hub)' /\ (overlap => overlap')
    BY <1>1, Known DEF Values, HubRecord, Began
<1>3. ~sess[s].undo /\ sess[s].told # "failed" /\ revision[s] = "none"
    BY <1>1, Known DEF KnowsAt
<1>4. revision' = [t \in Sessions |-> IF t = s THEN "fresh" ELSE revision[t]]
    BY <1>1, Known DEF Values
<1>5. revision' = [t \in Sessions |-> revision'[t]] /\ RevisionsKept(s)
    BY <1>3, <1>4 DEF RevisionsKept
<1>6. CASE sess[s].req.kind = "edit" /\ ProtocolState(spoke) # sess[s].form
    <2>1. Finish(s, "refused")
        BY <1>6 DEF applySpokeProtocol
    <2>2. MayEnd(s, "refused")
        BY <1>1, <1>2, <1>5 DEF MayEnd, AloneAt, Steps, HubAt, HubSound, ProtocolState
    <2> QED
        BY <2>1, <2>2, Ends, Ending
<1>7. CASE ~(sess[s].req.kind = "edit" /\ ProtocolState(spoke) # sess[s].form)
    <2>1. sess'[s] = [sess[s] EXCEPT !.pc = "apply", !.seen = ProtocolState(spoke)] /\ Others(s)
        BY <1>7, Updating DEF applySpokeProtocol
    <2>2. /\ sess'[s].pc = "apply" /\ sess'[s].undo = sess[s].undo /\ sess'[s].told = sess[s].told
          /\ sess'[s].req = sess[s].req /\ sess'[s].seen = ProtocolState(spoke)
        BY <2>1, Known DEF SessionRecord
    <2>3. KnowsAt(s)'
        BY <1>1, <1>3, <2>2 DEF KnowsAt, HubSteps, Pushing
    <2>4. Values'
        BY <1>1, <1>2, <1>5, Known, ValuesOn
    <2>5. Keeps(s)
        BY <1>1, <1>2, <1>3, <1>5, <2>1, <2>2, <2>3, <2>4 DEF Keeps, StraightAt, Told, InFlight
    <2>6. Serves(s)
        <3>1. AloneAt(s) => AloneAt(s)'
            BY <1>1, <2>2 DEF AloneAt, Steps, ProtocolState
        <3>2. HubAt(s) => HubAt(s)'
            BY <1>1, <2>2 DEF HubAt, HubSound, ProtocolState
        <3> QED
            BY <3>1, <3>2 DEF Serves
    <2>7. SmoothInv'
        <3> SUFFICES ASSUME Smooth' PROVE ReadInv' /\ RestInv' /\ PlanInv'
            BY DEF SmoothInv
        <3>1. ReadInv /\ RestInv /\ PlanInv
            BY <2>5, SmoothBefore DEF SmoothInv, AInv
        <3>2. \A t \in Sessions : Pusher(t)' <=> Pusher(t)
            BY <1>1, <2>1, <2>2 DEF Others, Pusher
        <3>3. \A t \in Sessions : Pusher(t) => t # s /\ sess'[t] = sess[t] /\ revision'[t] = revision[t]
            BY <1>1, <1>4, <2>1 DEF Others, Pusher
        <3>4. ReadInv'
            <4> SUFFICES ASSUME NEW t \in Sessions, Reader(t)'
                         PROVE  /\ revision'[t] \in {"fresh", "stale"}
                                /\ revision'[t] = "fresh" => sess'[t].seen = ProtocolState(spoke)'
                BY DEF ReadInv
            <4>1. ProtocolState(spoke)' = ProtocolState(spoke)
                BY <1>1 DEF ProtocolState
            <4>2. CASE t = s
                BY <1>4, <2>2, <4>1, <4>2
            <4>3. CASE t # s
                BY <1>4, <2>1, <3>1, <4>1, <4>3 DEF Others, Reader, ReadInv
            <4> QED
                BY <4>2, <4>3
        <3>5. RestInv'
            BY <1>1, <3>1, <3>2 DEF RestInv, Agree
        <3>6. PlanInv'
            BY <1>1, <3>1, <3>2, <3>3 DEF PlanInv, Plan, IsReplace, IsPatch
        <3> QED
            BY <3>4, <3>5, <3>6
    <2> QED
        BY <2>5, <2>6, <2>7, Combined
<1> QED
    BY <1>6, <1>7

-----------------------------------------------------------------------------
\* Settings with the same values are the same.
LEMMA SameSettings ==
    ASSUME NEW x, NEW y, Settings(x), Settings(y), \A f \in Fields : x[f] = y[f]
    PROVE  x = y
    BY DEF Settings

\* What a request makes of settings.
LEMMA Mutated ==
    ASSUME NEW set, NEW r \in Requests, NEW view
    PROVE  LET x == Changed(set, Writes(r, view)) IN
           /\ Settings(x)
           /\ \A f \in Fields \ DOMAIN Writes(r, view) : x[f] = set[f]
           /\ r.kind \in ProtocolKinds => \A f \in Fields \ ProtocolFields : x[f] = set[f]
           /\ r.kind \in {"alias", "monitor"} => \A f \in ProtocolFields : x[f] = set[f]
<1> DEFINE w == Writes(r, view)
           x == Changed(set, w)
<1>1. x = [f \in Fields |-> IF f \in DOMAIN w THEN w[f] ELSE set[f]]
    BY DEF Changed
<1>2. Settings(x) /\ \A f \in Fields \ DOMAIN w : x[f] = set[f]
    BY <1>1 DEF Settings
<1>3. ASSUME r.kind \in ProtocolKinds PROVE \A f \in Fields \ ProtocolFields : x[f] = set[f]
    BY <1>2, <1>3, WritesOfScreen
<1>4. ASSUME r.kind \in {"alias", "monitor"} PROVE \A f \in ProtocolFields : x[f] = set[f]
    BY <1>2, <1>4, WritesOfScreen, Names DEF Fields
<1> QED
    BY <1>2, <1>3, <1>4

\* What a patch makes of settings.
LEMMA Patched ==
    ASSUME NEW set, NEW r, NEW view, r.kind = "edit"
    PROVE  Changed(set, Writes(r, view)) = [f \in Fields |-> IF f = r.proto THEN r.port ELSE set[f]]
<1>1. Writes(r, view) = [g \in {r.proto} |-> r.port]
    BY DEF Writes, spokeProtocolEditRegistryChange
<1>2. Changed(set, Writes(r, view))
        = [g \in Fields |-> IF g \in {r.proto} THEN [h \in {r.proto} |-> r.port][g] ELSE set[g]]
    BY <1>1 DEF Changed
<1> QED
    BY <1>2

\* What the agent builds of its own state and of a request.
LEMMA Built ==
    ASSUME Settings(spoke.set), NEW s \in Sessions
    PROVE  LET new == buildSpokeConfig(s) IN
           /\ Settings(new.set)
           /\ IsPatch(s) =>
                 /\ \A f \in Fields : new.set[f] = IF f = sess[s].req.proto THEN PatchPort(s) ELSE spoke.set[f]
                 /\ new.cred = [spoke.cred EXCEPT ![sess[s].req.proto] = PatchCred(s)]
           /\ IsReplace(s) =>
                 /\ \A f \in Fields : new.set[f] = IF f \in ProtocolFields THEN sess[s].sent[f] ELSE spoke.set[f]
                 /\ new.cred = spoke.cred
           /\ ~IsPatch(s) /\ ~IsReplace(s) =>
                 \A f \in Fields : new.set[f] = IF f \in ProtocolFields THEN spoke.set[f] ELSE sess[s].sent[f]
<1> DEFINE new == buildSpokeConfig(s)
<1>1. CASE IsPatch(s)
    <2>1. /\ new.set = [spoke.set EXCEPT ![sess[s].req.proto] = PatchPort(s)]
          /\ new.cred = [spoke.cred EXCEPT ![sess[s].req.proto] = PatchCred(s)]
        BY <1>1 DEF buildSpokeConfig
    <2>2. ~IsReplace(s)
        BY <1>1 DEF IsPatch, IsReplace
    <2> QED
        BY <1>1, <2>1, <2>2 DEF Settings
<1>2. CASE ~IsPatch(s)
    <2>1. /\ new.set = [f \in Fields |-> IF (f \in ProtocolFields) = IsReplace(s)
                                            THEN sess[s].sent[f] ELSE spoke.set[f]]
          /\ new.cred = spoke.cred
        BY <1>2 DEF buildSpokeConfig
    <2>2. IsReplace(s) \in BOOLEAN
        BY DEF IsReplace
    <2>3. Settings(new.set)
        BY <2>1 DEF Settings
    <2>4. ASSUME IsReplace(s), NEW f \in Fields
          PROVE  new.set[f] = IF f \in ProtocolFields THEN sess[s].sent[f] ELSE spoke.set[f]
        <3>1. ((f \in ProtocolFields) = IsReplace(s)) <=> f \in ProtocolFields
            BY <2>4
        <3> QED
            BY <2>1, <3>1
    <2>5. ASSUME ~IsReplace(s), NEW f \in Fields
          PROVE  new.set[f] = IF f \in ProtocolFields THEN spoke.set[f] ELSE sess[s].sent[f]
        <3>1. ((f \in ProtocolFields) = IsReplace(s)) <=> f \notin ProtocolFields
            BY <2>2, <2>5
        <3> QED
            BY <2>1, <3>1
    <2> QED
        BY <1>2, <2>1, <2>3, <2>4, <2>5
<1> QED
    BY <1>1, <1>2

(* What a failed push has to show.                                         *)
MayFail(s, conflict) ==
    /\ sess[s].pc \in {"send", "deliver", "settle"}
    /\ UNCHANGED <<reg, hub, overlap>> /\ doubt \subseteq doubt' /\ Settings(spoke.set)'
    /\ RevisionsKept(s) /\ revision' = [t \in Sessions |-> revision'[t]]
    /\ "spoke" \notin doubt' /\ ~sess[s].undo /\ sess[s].req.kind # "regenerate" /\ AloneAt(s) =>
          ~conflict /\ (Before(s, spoke') \/ After(s, spoke'))

\* A failed push.
LEMMA Failing ==
    ASSUME IInv, AInv, NEW s \in Sessions, NEW c, PushFailed(s, c), MayFail(s, c)
    PROVE  AInv'
<1>1. Values'
    BY Known DEF MayFail, Values, HubRecord, Settings
<1>2. HubAt(s) => HubSound'
    BY DEF MayFail, HubAt, HubSound, ProtocolState
<1>3. InFlight(s)
    BY DEF MayFail, InFlight
<1>4. CASE sess[s].undo \/ sess[s].req.kind = "regenerate"
    <2>1. sess'[s].pc = "done" /\ sess'[s].undo = FALSE /\ Others(s) /\ sess'[s].told = "failed"
        BY <1>4, Fails DEF Ended, Now
    <2>2. KnowsAt(s)'
        BY <2>1 DEF KnowsAt, HubSteps, Pushing
    <2>3. ~StraightAt(s)'
        BY <2>1 DEF StraightAt
    <2>4. Keeps(s)
        BY <1>1, <1>3, <2>1, <2>2, <2>3 DEF Keeps, MayFail, Told
    <2>5. Serves(s)
        BY <1>2, <2>1 DEF Serves, Told, HubAt
    <2> QED
        BY <2>3, <2>4, <2>5, NotSmooth, Combined
<1>5. CASE ~(sess[s].undo \/ sess[s].req.kind = "regenerate")
    <2>1. Now(s, "restore", sess[s].req, sess[s].view, sess[s].seen, sess[s].orig, sess[s].upd,
              sess[s].target, None, c, sess[s].undo, sess[s].told)
        BY <1>5, Fails
    <2>2. KnowsAt(s)'
        <3>1. KnowsAt(s)
            BY Known
        <3> QED
            BY <1>5, <2>1, <3>1 DEF KnowsAt, Now, MayFail, HubSteps, Pushing
    <2>3. ~StraightAt(s)'
        BY <2>1 DEF StraightAt, Now
    <2>4. InFlight(s)'
        BY <2>1 DEF InFlight, Now
    <2>5. Keeps(s)
        BY <1>1, <1>3, <2>1, <2>2, <2>3, <2>4 DEF Keeps, MayFail, Told, Now
    <2>6. Serves(s)
        <3>1. ASSUME "spoke" \notin doubt', AloneAt(s) PROVE AloneAt(s)'
            <4>1. TransactionAt(s) /\ ~c /\ (Before(s, spoke') \/ After(s, spoke'))
                BY <1>5, <3>1 DEF AloneAt, MayFail, Steps
            <4>2. TransactionAt(s)'
                BY <2>1, <4>1 DEF TransactionAt, Now, Mutates, OrigState, MayFail
            <4>3. Before(s, spoke)' \/ After(s, spoke)'
                BY <2>1, <4>1 DEF Before, After, Now, Mutates, ProtocolState
            <4>4. PushedAt(s)'
                BY <2>1, <4>1, <4>3 DEF PushedAt, Now
            <4> QED
                BY <1>5, <2>1, <4>2, <4>4 DEF AloneAt, Now, Steps
        <3>2. HubAt(s) => HubAt(s)'
            BY <1>2, <2>1 DEF HubAt, Now
        <3> QED
            BY <3>1, <3>2 DEF Serves
    <2> QED
        BY <2>3, <2>5, <2>6, NotSmooth, Combined
<1> QED
    BY <1>4, <1>5

\* The agent is not reached, or the subscriptions cannot be refreshed.
LEMMA AgreesReconfigureFails ==
    ASSUME IInv, AInv, NEW s \in Sessions, reconfigureFails(s) \/ RefreshFails(s)
    PROVE  AInv'
<1>1. /\ sess[s].pc \in {"send", "settle"} /\ PushFailed(s, FALSE)
      /\ UNCHANGED <<reg, spoke, hub, writer, doubt, overlap, revision>>
    BY DEF reconfigureFails, RefreshFails, At
<1>2. Settings(spoke.set)'
    BY <1>1, Known DEF Values, Settings
<1>3. ~sess[s].undo /\ sess[s].req.kind # "regenerate" /\ AloneAt(s) =>
          Before(s, spoke) \/ After(s, spoke)
    BY <1>1 DEF AloneAt, PushedAt, Steps
<1>4. ~sess[s].undo /\ sess[s].req.kind # "regenerate" /\ AloneAt(s) =>
          Before(s, spoke') \/ After(s, spoke')
    BY <1>1, <1>3
<1>5. MayFail(s, FALSE)
    BY <1>1, <1>2, <1>4, Known, RevisionsOn DEF MayFail
<1> QED
    BY <1>1, <1>5, Failing

-----------------------------------------------------------------------------
\* The fields of a session that has restored the registry, or failed to.
LEMMA Restores ==
    ASSUME IInv, AInv, NEW s \in Sessions, NEW set, NEW told, sess[s].pc = "restore", Rollback(s, set, told)
    PROVE  \E x : /\ x.set = set
                  /\ Now(s, IF sess[s].req.kind \notin ProtocolKinds THEN "send"
                            ELSE IF sess[s].conflict THEN "refresh" ELSE "inspect",
                         sess[s].req, sess[s].view, sess[s].seen, sess[s].orig, x, sess[s].target,
                         sess[s].sent, sess[s].conflict, TRUE, told)
<1> DEFINE next == IF sess[s].req.kind \notin ProtocolKinds THEN "send"
                   ELSE IF sess[s].conflict THEN "refresh" ELSE "inspect"
           back == [sess[s].upd EXCEPT !.set = set]
<1>1. Upd(s, [sess[s] EXCEPT !.pc = next, !.undo = TRUE, !.told = told, !.upd = back])
    BY DEF Rollback
<1>2. sess[s].upd = [set |-> sess[s].upd.set, gen |-> sess[s].upd.gen]
    BY Known DEF KnowsAt, Pushing
<1>3. back.set = set
    BY <1>2
<1> HIDE DEF next, back
<1>4. sess'[s] = [sess[s] EXCEPT !.pc = next, !.undo = TRUE, !.told = told, !.upd = back] /\ Others(s)
    BY <1>1, Updating
<1>5. Now(s, next, sess[s].req, sess[s].view, sess[s].seen, sess[s].orig, back, sess[s].target,
          sess[s].sent, sess[s].conflict, TRUE, told)
    BY <1>4, Known DEF SessionRecord, Now
<1> QED
    BY <1>3, <1>5 DEF next

\* The registry is restored, or cannot be.
LEMMA AgreesRestore ==
    ASSUME IInv, AInv, NEW s \in Sessions, Restore(s) \/ RestoreFails(s)
    PROVE  AInv'
<1> DEFINE back == [f \in Fields |-> IF f \in Restorable(s) THEN sess[s].orig[f] ELSE reg.set[f]]
           next == IF sess[s].req.kind \notin ProtocolKinds THEN "send"
                   ELSE IF sess[s].conflict THEN "refresh" ELSE "inspect"
<1>1. /\ sess[s].pc = "restore"
      /\ UNCHANGED <<spoke, hub, writer, doubt, overlap, revision>>
    BY DEF Restore, RestoreFails, At
<1>2. PICK set, told :
         /\ Rollback(s, set, told)
         /\ \/ told = None /\ set = back /\ reg' = [reg EXCEPT !.set = back]
            \/ told = "failed" /\ reg' = reg
    <2>1. CASE Restore(s)
        <3>1. Rollback(s, back, None) /\ reg' = [reg EXCEPT !.set = back]
            BY <2>1 DEF Restore, Undone
        <3> HIDE DEF back
        <3> QED
            BY <3>1
    <2>2. CASE RestoreFails(s)
        <3>1. /\ \E set : Rollback(s, set, "failed")
              /\ reg' = reg
            BY <2>2 DEF RestoreFails
        <3> HIDE DEF back
        <3> QED
            BY <3>1
    <2> QED
        BY <2>1, <2>2
<1>3. /\ reg'.gen = reg.gen /\ Settings(reg.set)'
      /\ told # "failed" => reg'.set = back /\ set = back
    BY <1>2, Known DEF RegistryInv, Values, Settings
<1>4. PICK x : /\ x.set = set
               /\ Now(s, next, sess[s].req, sess[s].view, sess[s].seen, sess[s].orig, x, sess[s].target,
                      sess[s].sent, sess[s].conflict, TRUE, told)
    BY <1>1, <1>2, Restores
<1>5. sess[s].req.kind \in RegistryKinds /\ ~sess[s].undo /\ sess[s].told # "failed" /\ sess[s].req \in Requests
    BY <1>1, Known DEF KnowsAt
<1>6. /\ sess'[s].pc = "send" => sess[s].req.kind \notin ProtocolKinds
      /\ sess'[s].pc \in {"refresh", "inspect"} => sess[s].req.kind \in ProtocolKinds
      /\ sess'[s].pc \in {"send", "refresh", "inspect"}
    BY <1>4 DEF Now
<1>7. /\ sess'[s].undo = TRUE /\ sess'[s].req = sess[s].req /\ sess'[s].told = told /\ Others(s)
    BY <1>4 DEF Now
<1>8. KnowsAt(s)'
    BY <1>5, <1>6, <1>7 DEF KnowsAt, HubSteps, Pushing
<1>9. Values'
    BY <1>1, <1>3, Known DEF Values, HubRecord, Settings
<1>10. ~StraightAt(s)' /\ InFlight(s)
    BY <1>1, <1>7 DEF StraightAt, InFlight
<1>11. Keeps(s)
    BY <1>1, <1>5, <1>7, <1>8, <1>9, <1>10, Known, RevisionsOn DEF Keeps, Told
<1>12. ASSUME told # "failed", AloneAt(s) PROVE AloneAt(s)'
    <2>1. TransactionAt(s) /\ PushedAt(s)
        BY <1>1, <1>5, <1>12 DEF AloneAt, Steps, RegistryKinds, ProtocolKinds
    <2>2. /\ Settings(sess[s].orig) /\ reg.set = Mutates(s) /\ sess[s].upd.set = reg.set
          /\ sess[s].upd.gen = reg.gen[Counter(sess[s].req)]
        BY <1>5, <2>1 DEF TransactionAt
    <2>3. Restorable(s) = DOMAIN Writes(sess[s].req, sess[s].view)
        BY <2>2 DEF Restorable
    <2>4. \A f \in Fields : back[f] = sess[s].orig[f]
        BY <1>5, <2>2, <2>3, Mutated DEF Mutates
    <2>5. back = sess[s].orig
        BY <2>2, <2>4, SameSettings DEF Settings
    <2>6. reg'.set = sess[s].orig /\ x.set = sess[s].orig
        BY <1>3, <1>4, <1>12, <2>5
    <2>7. TransactionAt(s)'
        BY <1>4, <1>6, <2>1, <2>6 DEF TransactionAt, Now, Mutates, OrigState
    <2>8. /\ Before(s, spoke) \/ After(s, spoke)
          /\ ~sess[s].conflict
        BY <1>1, <2>1 DEF PushedAt
    <2>9. Before(s, spoke)' \/ After(s, spoke)'
        BY <1>1, <1>4, <2>8 DEF Before, After, Now, Mutates, ProtocolState
    <2>10. sess'[s].pc \in {"send", "inspect"}
        BY <1>4, <2>8 DEF Now
    <2>11. PushedAt(s)'
        BY <1>6, <1>7, <2>9, <2>10 DEF PushedAt
    <2> QED
        BY <1>5, <1>7, <2>7, <2>10, <2>11 DEF AloneAt, Steps, RegistryKinds, ProtocolKinds
<1>13. HubAt(s) => HubAt(s)'
    BY <1>1, <1>6 DEF HubAt, HubSound, ProtocolState
<1>14. Serves(s)
    BY <1>7, <1>12, <1>13 DEF Serves, Told
<1> QED
    BY <1>10, <1>11, <1>14, NotSmooth, Combined

\* The spoke is asked what it holds.
LEMMA AgreesRollbackRemote ==
    ASSUME IInv, AInv, NEW s \in Sessions, rollbackRemote(s)
    PROVE  AInv'
<1> DEFINE now == ProtocolState(spoke)
<1>1. /\ sess[s].pc = "inspect"
      /\ UNCHANGED <<reg, spoke, hub, faults, writer, doubt, overlap, revision>>
    BY DEF rollbackRemote, At
<1>2. /\ sess[s].undo /\ sess[s].req.kind \in ProtocolKinds /\ sess[s].req \in Requests
      /\ KnowsAt(s) /\ HubRecord(hub)'
    BY <1>1, Known DEF KnowsAt, Values, HubRecord
<1>3. ASSUME NEW pc \in {"refresh", "send"}, Upd(s, [sess[s] EXCEPT !.pc = pc]),
             AloneAt(s) => IF pc = "refresh" THEN spoke.set = reg.set ELSE After(s, spoke)
      PROVE  AInv'
    <2>1. sess'[s] = [sess[s] EXCEPT !.pc = pc] /\ Others(s)
        BY <1>3, Updating
    <2>2. Now(s, pc, sess[s].req, sess[s].view, sess[s].seen, sess[s].orig, sess[s].upd,
              sess[s].target, sess[s].sent, sess[s].conflict, sess[s].undo, sess[s].told)
        BY <2>1, Known DEF SessionRecord, Now
    <2>3. KnowsAt(s)'
        BY <1>2, <2>2 DEF KnowsAt, Now, HubSteps, Pushing, RegistryKinds
    <2>4. ~StraightAt(s)' /\ InFlight(s)
        BY <1>1, <1>2, <2>2 DEF StraightAt, InFlight, Now
    <2>5. Values' /\ RevisionsKept(s)
        BY <1>1, <1>2, Known, ValuesOn, RevisionsOn
    <2>6. Keeps(s)
        BY <1>1, <2>2, <2>3, <2>4, <2>5 DEF Keeps, Told, Now
    <2>7. ASSUME AloneAt(s) PROVE AloneAt(s)'
        <3>1. TransactionAt(s)
            BY <1>1, <1>2, <2>7 DEF AloneAt, Steps, ProtocolKinds
        <3>2. TransactionAt(s)'
            BY <1>1, <1>3, <2>2, <3>1 DEF TransactionAt, Now, Mutates, OrigState
        <3>3. PushedAt(s)'
            <4>1. CASE pc = "refresh"
                BY <1>1, <1>3, <2>2, <2>7, <4>1 DEF PushedAt, Now
            <4>2. CASE pc = "send"
                <5>1. After(s, spoke)'
                    BY <1>1, <1>3, <2>2, <2>7, <4>2 DEF After, Now, Mutates, ProtocolState
                <5> QED
                    BY <1>2, <2>2, <4>2, <5>1 DEF PushedAt, Now
            <4> QED
                BY <4>1, <4>2
        <3> QED
            BY <1>2, <1>3, <2>2, <3>2, <3>3 DEF AloneAt, Now, Steps, ProtocolKinds
    <2>8. HubAt(s) => HubAt(s)'
        BY <1>1, <1>3, <2>2 DEF HubAt, HubSound, ProtocolState, Now
    <2>9. Serves(s)
        BY <2>7, <2>8 DEF Serves
    <2> QED
        BY <2>4, <2>6, <2>9, NotSmooth, Combined
<1>4. ASSUME AloneAt(s)
      PROVE  /\ Before(s, spoke) \/ After(s, spoke)
             /\ Settings(sess[s].orig) /\ reg.set = sess[s].orig /\ sess[s].seen.set = OrigState(s)
    BY <1>1, <1>2, <1>4 DEF AloneAt, PushedAt, TransactionAt, Steps, ProtocolKinds
<1>5. CASE now = sess[s].seen
    <2>1. Upd(s, [sess[s] EXCEPT !.pc = "refresh"])
        BY <1>5 DEF rollbackRemote
    <2>2. ASSUME AloneAt(s) PROVE spoke.set = reg.set
        <3>1. CASE Before(s, spoke)
            BY <1>4, <2>2, <3>1 DEF Before
        <3>2. CASE After(s, spoke)
            <4>1. \A f \in ProtocolFields : spoke.set[f] = sess[s].orig[f]
                <5>1. now.set = OrigState(s)
                    BY <1>4, <1>5, <2>2
                <5> QED
                    BY <5>1 DEF ProtocolState, OrigState
            <4>2. \A f \in Fields \ ProtocolFields : spoke.set[f] = sess[s].orig[f]
                BY <1>2, <3>2, Mutated DEF After, Mutates
            <4>3. Settings(spoke.set)
                BY Known DEF Values
            <4> QED
                BY <1>4, <2>2, <4>1, <4>2, <4>3, SameSettings
        <3> QED
            BY <1>4, <2>2, <3>1, <3>2
    <2> QED
        BY <1>3, <2>1, <2>2
<1>6. CASE now # sess[s].seen /\ now = sess[s].target
    <2>1. Upd(s, [sess[s] EXCEPT !.pc = "send"])
        BY <1>6 DEF rollbackRemote
    <2>2. AloneAt(s) => After(s, spoke)
        BY <1>2, <1>4, <1>6 DEF Before
    <2> QED
        BY <1>3, <2>1, <2>2
<1>7. CASE now # sess[s].seen /\ now # sess[s].target
    <2>1. Finish(s, "failed")
        BY <1>7 DEF rollbackRemote
    <2>2. MayEnd(s, "failed")
        BY <1>1, <1>2, Known, RevisionsOn DEF MayEnd, HubAt, HubSound, ProtocolState
    <2> QED
        BY <2>1, <2>2, Ends, Ending
<1> QED
    BY <1>5, <1>6, <1>7

\* The registry is written.
LEMMA AgreesApplySpokeRegistryReconfigure ==
    ASSUME IInv, AInv, NEW s \in Sessions, applySpokeRegistryReconfigure(s)
    PROVE  AInv'
<1> DEFINE r == sess[s].req
           w == Writes(r, sess[s].view)
           set == Changed(reg.set, w)
           c == Counter(r)
           target == Target(r, sess[s].seen, set)
           upd == [set |-> set, gen |-> reg'.gen[c]]
<1>1. /\ sess[s].pc = "apply" \/ (sess[s].pc = "form" /\ r.kind \in {"alias", "monitor"})
      /\ UNCHANGED <<spoke, hub, faults, doubt, revision>> /\ Began(s)
      /\ reg'.set = set
      /\ Upd(s, [sess[s] EXCEPT !.pc = "send", !.orig = reg.set, !.target = target, !.upd = upd])
    BY DEF applySpokeRegistryReconfigure, At
<1>2. upd.set = set /\ upd.gen = reg'.gen[c] /\ upd = [set |-> upd.set, gen |-> upd.gen]
    OBVIOUS
<1>3. /\ r \in Requests /\ ~sess[s].undo /\ sess[s].told # "failed"
      /\ r.kind \in RegistryKinds
      /\ sess[s].pc = "apply" => r.kind \in ProtocolKinds
    BY <1>1, Known DEF KnowsAt, RegistryKinds
<1>4. Settings(set) /\ Settings(reg.set)
    BY <1>3, Known, Mutated DEF Values
<1>5. /\ sess'[s] = [sess[s] EXCEPT !.pc = "send", !.orig = reg.set, !.target = target, !.upd = upd]
      /\ Others(s)
    <2> HIDE DEF upd, target
    <2> QED
        BY <1>1, Updating
<1>6. Now(s, "send", r, sess[s].view, sess[s].seen, reg.set, upd, target, sess[s].sent,
          sess[s].conflict, sess[s].undo, sess[s].told)
    <2> HIDE DEF upd, target
    <2> QED
        BY <1>5, Known DEF SessionRecord, Now
<1>7. KnowsAt(s)'
    <2> HIDE DEF upd, target
    <2> QED
        BY <1>2, <1>3, <1>6 DEF KnowsAt, Now, HubSteps, Pushing
<1>8. Values' /\ RevisionsKept(s)
    BY <1>1, <1>4, Known, RevisionsOn DEF Values, HubRecord, Settings
<1>9. StraightAt(s)' => StraightAt(s)
    BY <1>1, <1>3 DEF StraightAt
<1>10. Keeps(s)
    <2>1. InFlight(s)' /\ (overlap => overlap')
        BY <1>1, <1>6 DEF InFlight, Began, Now
    <2> HIDE DEF upd, target
    <2> QED
        BY <1>1, <1>3, <1>6, <1>7, <1>8, <1>9, <2>1 DEF Keeps, Told, Now
<1>11. ASSUME AloneAt(s) PROVE AloneAt(s)'
    <2>1. reg.set = spoke.set /\ (r.kind \in ProtocolKinds => sess[s].seen = ProtocolState(spoke))
        BY <1>1, <1>11 DEF AloneAt, Steps, ProtocolKinds
    <2>2. r.kind \in ProtocolKinds => sess[s].seen.set = [f \in ProtocolFields |-> reg.set[f]]
        BY <2>1 DEF ProtocolState
    <2> HIDE DEF upd
    <2>3. Mutates(s)' = set
        BY <1>6 DEF Mutates, Now
    <2>4. TransactionAt(s)'
        BY <1>1, <1>2, <1>3, <1>4, <1>6, <2>2, <2>3 DEF TransactionAt, Now, OrigState
    <2>5. Before(s, spoke)'
        BY <1>1, <1>6, <2>1 DEF Before, Now, ProtocolState
    <2>6. PushedAt(s)'
        BY <1>3, <1>6, <2>5 DEF PushedAt, Now
    <2> QED
        BY <1>3, <1>6, <2>4, <2>6 DEF AloneAt, Steps, Now, RegistryKinds, ProtocolKinds
<1>12. HubAt(s) => HubAt(s)'
    BY <1>1, <1>6 DEF HubAt, HubSound, ProtocolState, Now
<1>13. Serves(s)
    BY <1>11, <1>12 DEF Serves
<1>14. SmoothInv'
    <2>1. CASE r.kind \notin ProtocolKinds
        <3>1. \A f \in ProtocolFields : reg'.set[f] = reg.set[f]
            BY <1>1, <1>3, <2>1, Mutated DEF RegistryKinds
        <3>2. ~Reader(s)' /\ ~Pusher(s)' /\ ~Pusher(s)
            BY <1>6, <2>1 DEF Reader, Pusher, Now
        <3>3. Aside(s)
            BY <1>1, <3>1, <3>2 DEF Aside, ProtocolState
        <3> QED
            BY <1>10, <3>3, SmoothOn DEF AInv
    <2>2. CASE r.kind \in ProtocolKinds
        <3> SUFFICES ASSUME Smooth' PROVE ReadInv' /\ RestInv' /\ PlanInv'
            BY DEF SmoothInv
        <3>1. ReadInv /\ RestInv /\ PlanInv
            BY <1>10, SmoothBefore DEF SmoothInv, AInv
        <3>2. sess[s].pc = "apply"
            BY <1>1, <2>2 DEF ProtocolKinds
        <3>3. Reader(s) /\ ~Pusher(s) /\ Reader(s)' /\ Pusher(s)'
            BY <1>6, <2>2, <3>2 DEF Reader, Pusher, Now
        <3>4. \A t \in Sessions \ {s} : sess'[t] = sess[t]
            BY <1>5 DEF Others
        <3>5. ReadInv'
            <4>1. sess'[s].seen = sess[s].seen
                BY <1>6 DEF Now
            <4>2. ProtocolState(spoke)' = ProtocolState(spoke) /\ revision' = revision
                BY <1>1 DEF ProtocolState
            <4>3. ASSUME NEW t \in Sessions, Reader(t)' PROVE Reader(t) /\ sess'[t].seen = sess[t].seen
                <5>1. CASE t = s
                    BY <3>3, <4>1, <5>1
                <5>2. CASE t # s
                    BY <3>4, <4>3, <5>2 DEF Reader
                <5> QED
                    BY <5>1, <5>2
            <4> QED
                BY <3>1, <4>2, <4>3 DEF ReadInv
        <3>6. RestInv'
            BY <3>3 DEF RestInv
        <3>7. PlanInv'
            <4> SUFFICES ASSUME NEW t \in Sessions, Pusher(t)', \A u \in Sessions \ {t} : ~Pusher(u)'
                         PROVE  Plan(t)'
                BY DEF PlanInv
            <4>1. t = s
                BY <3>3
            <4>2. Agree
                <5>1. ASSUME NEW u \in Sessions PROVE ~Pusher(u)
                    <6>1. CASE u = s
                        BY <3>3, <6>1
                    <6>2. CASE u # s
                        <7>1. ~Pusher(u)'
                            BY <4>1, <6>2
                        <7> QED
                            BY <3>4, <6>2, <7>1 DEF Pusher
                    <6> QED
                        BY <6>1, <6>2
                <5> QED
                    BY <3>1, <5>1 DEF RestInv
            <4>3. IsReplace(s)' => \A f \in ProtocolFields : sess'[s].upd.set[f] = reg'.set[f]
                <5> HIDE DEF upd
                <5> QED
                    BY <1>1, <1>2, <1>6 DEF Now
            <4>4. IsPatch(s)' => \A f \in ProtocolFields :
                     reg'.set[f] = IF f = sess'[s].req.proto THEN sess'[s].req.port ELSE spoke'.set[f]
                <5>1. IsPatch(s)' => \A f \in ProtocolFields : set[f] = IF f = r.proto THEN r.port ELSE reg.set[f]
                    <6>1. IsPatch(s)' => r.kind = "edit"
                        BY <1>6 DEF IsPatch, Now
                    <6>2. ASSUME r.kind = "edit", NEW f \in Fields
                          PROVE  set[f] = IF f = r.proto THEN r.port ELSE reg.set[f]
                        <7>1. set = [g \in Fields |-> IF g = r.proto THEN r.port ELSE reg.set[g]]
                            BY <6>2, Patched
                        <7> HIDE DEF set
                        <7> QED
                            BY <6>2, <7>1
                    <6> QED
                        BY <6>1, <6>2 DEF Fields
                <5> HIDE DEF upd, target, set
                <5> QED
                    BY <1>1, <1>6, <4>2, <5>1 DEF Now, Agree
            <4> QED
                BY <4>1, <4>3, <4>4 DEF Plan
        <3> QED
            BY <3>5, <3>6, <3>7
    <2> QED
        BY <2>1, <2>2
<1> QED
    BY <1>10, <1>13, <1>14, Combined

-----------------------------------------------------------------------------
\* A single transaction finds the revision it expects.
LEMMA Matches ==
    ASSUME NEW s \in Sessions, AloneAt(s), sess[s].pc = "deliver"
    PROVE  RevisionMatches(s)
<1> SUFFICES ASSUME sess[s].req.kind \in ProtocolKinds
             PROVE  ProtocolState(spoke) = IF sess[s].undo THEN sess[s].target ELSE sess[s].seen
    BY DEF RevisionMatches
<1>1. PushedAt(s)
    BY DEF AloneAt, Steps, ProtocolKinds
<1> QED
    BY <1>1 DEF PushedAt, Before, After

\* What a single push makes of the spoke: what it was meant to.
LEMMA Forward ==
    ASSUME Values, NEW s \in Sessions, AloneAt(s), sess[s].pc = "deliver", ~sess[s].undo,
           sess[s].req \in Requests, sess[s].req.kind \in RegistryKinds,
           NEW host, host.set = buildSpokeConfig(s).set, host.cred = buildSpokeConfig(s).cred
    PROVE  After(s, host)
<1> DEFINE new == buildSpokeConfig(s)
           r == sess[s].req
<1>1. TransactionAt(s) /\ Before(s, spoke)
    BY DEF AloneAt, PushedAt, Steps, RegistryKinds, ProtocolKinds
<1>2. /\ Settings(sess[s].orig) /\ sess[s].sent = Mutates(s) /\ spoke.set = sess[s].orig
      /\ r.kind \in ProtocolKinds => /\ sess[s].target = Target(r, sess[s].seen, Mutates(s))
                                     /\ sess[s].seen = ProtocolState(spoke)
    BY <1>1 DEF TransactionAt, Before
<1>3. Settings(new.set) /\ Settings(spoke.set) /\ Settings(Mutates(s))
    BY Built, Mutated DEF Values, Mutates
<1>4. CASE IsPatch(s)
    <2>1. r.kind = "edit" /\ PatchPort(s) = r.port /\ PatchCred(s) = r.cred /\ r.proto \in ProtocolFields
        BY <1>4, RequestsAssumption DEF IsPatch, PatchPort, PatchCred, ProtocolFields
    <2>2. /\ \A f \in Fields : new.set[f] = IF f = r.proto THEN r.port ELSE spoke.set[f]
          /\ new.cred = [spoke.cred EXCEPT ![r.proto] = r.cred]
        BY <1>3, <1>4, <2>1, Built
    <2>3. Mutates(s) = [f \in Fields |-> IF f = r.proto THEN r.port ELSE sess[s].orig[f]]
        BY <2>1, Patched DEF Mutates
    <2>4. \A f \in Fields : new.set[f] = Mutates(s)[f]
        BY <1>2, <2>2, <2>3
    <2>5. host.set = Mutates(s)
        BY <1>3, <2>4, SameSettings
    <2>6. sess[s].target = applyProtocolPatchToState(ProtocolState(spoke), r)
        BY <1>2, <2>1 DEF Target, ProtocolKinds
    <2>7. [f \in ProtocolFields |-> host.set[f]]
             = [[f \in ProtocolFields |-> spoke.set[f]] EXCEPT ![r.proto] = r.port]
        <3>1. \A f \in ProtocolFields : host.set[f] = IF f = r.proto THEN r.port ELSE spoke.set[f]
            BY <2>2 DEF Fields
        <3> QED
            BY <2>1, <3>1
    <2>8. ProtocolState(host) = sess[s].target
        BY <2>2, <2>6, <2>7 DEF ProtocolState, applyProtocolPatchToState
    <2> QED
        BY <2>5, <2>8 DEF After
<1>5. CASE IsReplace(s)
    <2>1. r.kind \in {"select", "sni"} /\ r.kind \in ProtocolKinds
        BY <1>5 DEF IsReplace, ProtocolKinds
    <2>2. /\ \A f \in Fields : new.set[f] = IF f \in ProtocolFields THEN sess[s].sent[f] ELSE spoke.set[f]
          /\ new.cred = spoke.cred
        BY <1>3, <1>5, Built
    <2>3. \A f \in Fields \ ProtocolFields : Mutates(s)[f] = sess[s].orig[f]
        BY <2>1, Mutated DEF Mutates
    <2>4. \A f \in Fields : new.set[f] = Mutates(s)[f]
        BY <1>2, <2>2, <2>3
    <2>5. host.set = Mutates(s)
        BY <1>3, <2>4, SameSettings
    <2>6. sess[s].target = spokeProtocolNodeRevision(ProtocolState(spoke), Mutates(s))
        BY <1>2, <2>1 DEF Target, ProtocolKinds
    <2>7. ProtocolState(host) = sess[s].target
        BY <2>2, <2>5, <2>6 DEF ProtocolState, spokeProtocolNodeRevision
    <2> QED
        BY <2>5, <2>7 DEF After
<1>6. CASE ~IsPatch(s) /\ ~IsReplace(s)
    <2>1. r.kind \in {"alias", "monitor"} /\ r.kind \notin ProtocolKinds
        BY <1>6 DEF IsReplace, IsPatch, ProtocolKinds, RegistryKinds
    <2>2. \A f \in Fields : new.set[f] = IF f \in ProtocolFields THEN spoke.set[f] ELSE sess[s].sent[f]
        BY <1>3, <1>6, Built
    <2>3. \A f \in ProtocolFields : Mutates(s)[f] = sess[s].orig[f]
        BY <2>1, Mutated DEF Mutates
    <2>4. \A f \in Fields : new.set[f] = Mutates(s)[f]
        BY <1>2, <2>2, <2>3
    <2>5. host.set = Mutates(s)
        BY <1>3, <2>4, SameSettings
    <2> QED
        BY <2>1, <2>5 DEF After
<1> QED
    BY <1>4, <1>5, <1>6

\* What the push of a rollback makes of the spoke: what it was.
LEMMA Backward ==
    ASSUME Values, NEW s \in Sessions, AloneAt(s), sess[s].pc = "deliver",
           sess[s].undo \/ sess[s].req.kind = "regenerate",
           sess[s].req \in Requests, sess[s].req.kind \in RegistryKinds \cup {"regenerate"}
    PROVE  buildSpokeConfig(s).set = reg.set
<1> DEFINE new == buildSpokeConfig(s)
           r == sess[s].req
<1>0. Settings(spoke.set) /\ Settings(reg.set) /\ Settings(new.set)
    BY Built DEF Values
<1>1. CASE r.kind = "regenerate"
    <2>1. reg.set = spoke.set /\ sess[s].sent = reg.set
        BY <1>1 DEF AloneAt, Steps
    <2>2. ~IsPatch(s) /\ ~IsReplace(s)
        BY <1>1 DEF IsPatch, IsReplace
    <2>3. \A f \in Fields : new.set[f] = reg.set[f]
        BY <1>0, <2>1, <2>2, Built
    <2> QED
        BY <1>0, <2>3, SameSettings
<1>2. CASE r.kind # "regenerate"
    <2>1. TransactionAt(s) /\ PushedAt(s) /\ sess[s].undo
        BY <1>2 DEF AloneAt, Steps
    <2>2. /\ Settings(sess[s].orig) /\ sess[s].sent = reg.set /\ reg.set = sess[s].orig
          /\ r.kind \in ProtocolKinds => sess[s].seen.set = OrigState(s)
        BY <2>1 DEF TransactionAt
    <2>3. /\ spoke.set = Mutates(s) \/ spoke.set = sess[s].orig
          /\ r.kind \in ProtocolKinds => spoke.set = Mutates(s)
        BY <2>1 DEF PushedAt, Before, After
    <2>4. CASE IsPatch(s)
        <3>1. r.kind = "edit" /\ r.kind \in ProtocolKinds /\ r.proto \in ProtocolFields
            BY <2>4, RequestsAssumption DEF IsPatch, ProtocolKinds, ProtocolFields
        <3>2. PatchPort(s) = sess[s].orig[r.proto]
            BY <2>1, <2>2, <3>1 DEF PatchPort, OrigState
        <3>3. \A f \in Fields : new.set[f] = IF f = r.proto THEN PatchPort(s) ELSE spoke.set[f]
            BY <1>0, <2>4, Built
        <3>4. Mutates(s) = [f \in Fields |-> IF f = r.proto THEN r.port ELSE sess[s].orig[f]]
            BY <3>1, Patched DEF Mutates
        <3>5. \A f \in Fields : new.set[f] = reg.set[f]
            BY <2>2, <2>3, <3>1, <3>2, <3>3, <3>4
        <3> QED
            BY <1>0, <3>5, SameSettings
    <2>5. CASE IsReplace(s)
        <3>1. r.kind \in ProtocolKinds
            BY <2>5 DEF IsReplace, ProtocolKinds
        <3>2. \A f \in Fields : new.set[f] = IF f \in ProtocolFields THEN sess[s].sent[f] ELSE spoke.set[f]
            BY <1>0, <2>5, Built
        <3>3. \A f \in Fields \ ProtocolFields : Mutates(s)[f] = sess[s].orig[f]
            BY <3>1, Mutated DEF Mutates
        <3>4. \A f \in Fields : new.set[f] = reg.set[f]
            BY <2>2, <2>3, <3>1, <3>2, <3>3
        <3> QED
            BY <1>0, <3>4, SameSettings
    <2>6. CASE ~IsPatch(s) /\ ~IsReplace(s)
        <3>1. r.kind \in {"alias", "monitor"}
            BY <1>2, <2>6 DEF IsReplace, IsPatch, ProtocolKinds, RegistryKinds
        <3>2. \A f \in Fields : new.set[f] = IF f \in ProtocolFields THEN spoke.set[f] ELSE sess[s].sent[f]
            BY <1>0, <2>6, Built
        <3>3. \A f \in ProtocolFields : Mutates(s)[f] = sess[s].orig[f]
            BY <3>1, Mutated DEF Mutates
        <3>4. \A f \in Fields : new.set[f] = reg.set[f]
            BY <2>2, <2>3, <3>2, <3>3
        <3> QED
            BY <1>0, <3>4, SameSettings
    <2> QED
        BY <2>4, <2>5, <2>6
<1> QED
    BY <1>1, <1>2

\* The agent goes to work.
LEMMA RevisionsPassed ==
    ASSUME NEW s \in Sessions, Passed(s)
    PROVE  /\ RevisionsKept(s) /\ revision' = [t \in Sessions |-> revision'[t]]
           /\ sess[s].req.kind \notin ProtocolKinds => \A t \in Sessions : revision'[t] = revision[t]
           /\ sess[s].req.kind \in ProtocolKinds =>
                 /\ revision[s] = "stale" => revision'[s] = "reused"
                 /\ \A t \in Sessions \ {s} :
                       revision'[t] = IF revision[t] = "fresh" THEN "stale" ELSE revision[t]
<1>1. ASSUME NEW t \in Sessions
      PROVE  revision'[t] = IF sess[s].req.kind \notin ProtocolKinds THEN revision[t]
               ELSE IF t = s THEN (IF revision[t] = "stale" THEN "reused" ELSE revision[t])
               ELSE IF revision[t] = "fresh" THEN "stale" ELSE revision[t]
    BY DEF Passed
<1>2. revision' = [t \in Sessions |-> revision'[t]]
    BY DEF Passed
<1>3. RevisionsKept(s)
    BY <1>1 DEF RevisionsKept
<1> QED
    BY <1>1, <1>2, <1>3

\* The agent applies a request.
LEMMA Installed ==
    ASSUME IInv, AInv, NEW s \in Sessions, Install(s), RevisionMatches(s), Buildable(s)
    PROVE  AInv'
<1> DEFINE new == buildSpokeConfig(s)
           r == sess[s].req
<1>1. /\ sess[s].pc = "deliver" /\ UNCHANGED <<reg, hub, faults, writer, doubt, overlap>>
      /\ spoke' = Deployed(spoke, new) /\ Passed(s)
      /\ Upd(s, [sess[s] EXCEPT !.pc = "settle", !.sent = None])
    BY DEF Install, At
<1>2. sess'[s] = [sess[s] EXCEPT !.pc = "settle", !.sent = None] /\ Others(s)
    BY <1>1, Updating
<1>3. Now(s, "settle", r, sess[s].view, sess[s].seen, sess[s].orig, sess[s].upd, sess[s].target, None,
          sess[s].conflict, sess[s].undo, sess[s].told)
    BY <1>2, Known DEF SessionRecord, Now
<1>4. spoke'.set = new.set /\ spoke'.cred = new.cred
    <2>1. HostRecord(spoke)
        BY Known
    <2> QED
        BY <1>1, <2>1, Settling DEF NewState
<1>5. KnowsAt(s) /\ Values /\ r \in Requests /\ r.kind \in RegistryKinds \cup {"regenerate"}
    BY <1>1, Known DEF KnowsAt, Pushing
<1>6. KnowsAt(s)'
    BY <1>1, <1>3, <1>5 DEF KnowsAt, Now, HubSteps, Pushing
<1>7. Settings(spoke.set) /\ Settings(new.set)
    BY <1>5, Built DEF Values
<1>8. RevisionsKept(s) /\ Values'
    BY <1>1, <1>4, <1>5, <1>7, RevisionsPassed DEF Values, HubRecord, Settings
<1>9. StraightAt(s)' => StraightAt(s)
    BY <1>1, <1>3 DEF StraightAt, Now
<1>10. InFlight(s)
    BY <1>1 DEF InFlight
<1>11. Keeps(s)
    BY <1>1, <1>3, <1>6, <1>8, <1>9, <1>10 DEF Keeps, Told, Now
<1>12. ASSUME AloneAt(s) PROVE AloneAt(s)'
    <2>1. CASE r.kind = "regenerate"
        <3>1. spoke'.set = reg'.set /\ ~sess[s].undo
            BY <1>1, <1>4, <1>5, <1>12, <2>1, Backward DEF AloneAt, Steps
        <3> QED
            BY <1>3, <2>1, <3>1 DEF AloneAt, Now, Steps
    <2>2. CASE r.kind # "regenerate"
        <3>1. TransactionAt(s)
            BY <1>1, <1>12, <2>2 DEF AloneAt, Steps
        <3>2. TransactionAt(s)'
            BY <1>1, <1>3, <3>1 DEF TransactionAt, Now, Mutates, OrigState
        <3>3. PushedAt(s)'
            <4>1. CASE sess[s].undo
                <5>1. spoke'.set = reg'.set
                    BY <1>1, <1>4, <1>5, <1>12, <4>1, Backward
                <5> QED
                    BY <1>3, <4>1, <5>1 DEF PushedAt, Now
            <4>2. CASE ~sess[s].undo
                <5>1. After(s, spoke')
                    BY <1>1, <1>4, <1>5, <1>12, <2>2, <4>2, Forward
                <5>2. After(s, spoke)'
                    BY <1>3, <5>1 DEF After, Now, Mutates, ProtocolState
                <5> QED
                    BY <1>3, <4>2, <5>2 DEF PushedAt, Now
            <4> QED
                BY <4>1, <4>2
        <3> QED
            BY <1>3, <2>2, <3>2, <3>3 DEF AloneAt, Now, Steps
    <2> QED
        BY <2>1, <2>2
<1>13. HubAt(s) => HubAt(s)'
    BY <1>1, <1>3 DEF HubAt, HubSound, ProtocolState, Now
<1>14. Serves(s)
    BY <1>12, <1>13 DEF Serves
<1>15. SmoothInv'
    <2>1. CASE r.kind \notin ProtocolKinds
        <3>1. ~IsPatch(s) /\ ~IsReplace(s)
            BY <2>1 DEF IsPatch, IsReplace, ProtocolKinds
        <3>2. new.cred = spoke.cred
            BY <3>1 DEF buildSpokeConfig
        <3>3. \A f \in ProtocolFields : new.set[f] = spoke.set[f]
            BY <1>7, <3>1, Built DEF Fields
        <3>4. ProtocolState(spoke)' = ProtocolState(spoke)
            BY <1>4, <3>2, <3>3 DEF ProtocolState
        <3>5. revision' = revision
            <4>1. \A t \in Sessions : revision'[t] = revision[t]
                BY <1>1, <2>1, RevisionsPassed
            <4> QED
                BY <1>5, <1>8, <4>1 DEF Values
        <3>6. ~Reader(s)' /\ ~Pusher(s)' /\ ~Pusher(s)
            BY <1>3, <2>1 DEF Reader, Pusher, Now
        <3>7. Aside(s)
            BY <1>1, <3>4, <3>5, <3>6 DEF Aside
        <3> QED
            BY <1>11, <3>7, SmoothOn DEF AInv
    <2>2. CASE r.kind \in ProtocolKinds /\ sess[s].undo
        <3>1. ~StraightAt(s)'
            BY <1>3, <2>2 DEF StraightAt, Now
        <3> QED
            BY <3>1, NotSmooth
    <2>3. CASE r.kind \in ProtocolKinds /\ ~sess[s].undo
        <3> SUFFICES ASSUME Smooth' PROVE ReadInv' /\ RestInv' /\ PlanInv'
            BY DEF SmoothInv
        <3>1. ReadInv /\ RestInv /\ PlanInv
            BY <1>11, SmoothBefore DEF SmoothInv, AInv
        <3>2. Reader(s) /\ Pusher(s) /\ ~Reader(s)' /\ ~Pusher(s)'
            BY <1>1, <1>3, <2>3 DEF Reader, Pusher, Now
        <3>3. revision[s] = "fresh"
            <4>1. revision[s] \in {"fresh", "stale"}
                BY <3>1, <3>2 DEF ReadInv
            <4>2. revision'[s] # "reused"
                BY DEF Smooth
            <4> QED
                BY <1>1, <2>3, <4>1, <4>2, RevisionsPassed
        <3>4. ASSUME NEW t \in Sessions \ {s}
              PROVE  /\ sess'[t] = sess[t]
                     /\ revision'[t] = IF revision[t] = "fresh" THEN "stale" ELSE revision[t]
            BY <1>1, <1>2, <2>3, RevisionsPassed DEF Others
        <3>5. ReadInv'
            <4> SUFFICES ASSUME NEW t \in Sessions, Reader(t)' PROVE revision'[t] = "stale"
                BY DEF ReadInv
            <4>1. t # s
                BY <3>2
            <4>2. Reader(t)
                BY <3>4, <4>1 DEF Reader
            <4>3. revision[t] \in {"fresh", "stale"}
                BY <3>1, <4>2 DEF ReadInv
            <4> QED
                BY <3>4, <4>1, <4>3
        <3>6. RestInv'
            <4> SUFFICES ASSUME \A t \in Sessions : ~Pusher(t)' PROVE Agree'
                BY DEF RestInv
            <4>1. ASSUME NEW t \in Sessions \ {s} PROVE ~Pusher(t)
                <5>1. ~Pusher(t)'
                    OBVIOUS
                <5> QED
                    BY <3>4, <5>1 DEF Pusher
            <4>2. Plan(s)
                BY <3>1, <3>2, <3>3, <4>1 DEF PlanInv
            <4>3. CASE IsReplace(s)
                <5>1. \A f \in ProtocolFields : new.set[f] = sess[s].sent[f]
                    BY <1>7, <4>3, Built DEF Fields
                <5>2. \A f \in ProtocolFields : sess[s].sent[f] = sess[s].upd.set[f]
                    BY <1>1, <1>5, <4>3 DEF KnowsAt
                <5> QED
                    BY <1>1, <1>4, <4>2, <4>3, <5>1, <5>2 DEF Plan, Agree
            <4>4. CASE IsPatch(s)
                <5>1. PatchPort(s) = r.port
                    BY <2>3 DEF PatchPort
                <5>2. \A f \in ProtocolFields : new.set[f] = IF f = r.proto THEN r.port ELSE spoke.set[f]
                    BY <1>7, <4>4, <5>1, Built DEF Fields
                <5> QED
                    BY <1>1, <1>4, <4>2, <4>4, <5>2 DEF Plan, Agree
            <4> QED
                BY <2>3, <4>3, <4>4 DEF IsReplace, IsPatch, ProtocolKinds
        <3>7. PlanInv'
            <4> SUFFICES ASSUME NEW t \in Sessions, Pusher(t)', revision'[t] = "fresh" PROVE FALSE
                BY DEF PlanInv
            <4>1. t # s
                BY <3>2
            <4> QED
                BY <3>4, <4>1
        <3> QED
            BY <3>5, <3>6, <3>7
    <2> QED
        BY <2>1, <2>2, <2>3
<1> QED
    BY <1>11, <1>14, <1>15, Combined

\* The settings of a spoke after a request, however far it got.
LEMMA SpokeSettled ==
    ASSUME NEW s \in Sessions, Settings(spoke.set), HostRecord(spoke),
           spoke' \in Failures(spoke, buildSpokeConfig(s)) \cup HalfPersisted(spoke, buildSpokeConfig(s))
    PROVE  Settings(spoke.set)'
<1> DEFINE new == buildSpokeConfig(s)
<1>1. Settings(new.set)
    BY Built
<1> HIDE DEF new
<1>2. CASE spoke' \in Failures(spoke, new)
    BY <1>1, <1>2, Failed DEF OldState, NewState, Settings
<1>3. CASE spoke' \in HalfPersisted(spoke, new)
    <2>1. PICK w : spoke'.set = [f \in Fields |-> IF f \in w THEN new.set[f] ELSE spoke.set[f]]
        BY <1>3, Halving
    <2> QED
        BY <2>1 DEF Settings
<1> QED
    BY <1>2, <1>3 DEF new

\* Install, InstallFails and FinalizeFails.
LEMMA AgreesInstall ==
    ASSUME IInv, AInv, NEW s \in Sessions, Install(s) \/ InstallFails(s) \/ FinalizeFails(s)
    PROVE  AInv'
<1> DEFINE new == buildSpokeConfig(s)
<1>1. sess[s].pc = "deliver" /\ UNCHANGED <<reg, hub, overlap>>
    BY DEF Install, InstallFails, FinalizeFails, At
<1>2. /\ Values /\ HostRecord(spoke) /\ Settings(spoke.set) /\ sess[s].req \in Requests
      /\ sess[s].req.kind \in RegistryKinds \cup {"regenerate"}
    BY <1>1, Known DEF Values, KnowsAt, Pushing
<1>3. ~sess[s].undo /\ sess[s].req.kind # "regenerate" /\ AloneAt(s) => Before(s, spoke)
    BY <1>1 DEF AloneAt, PushedAt, Steps
<1>4. CASE Install(s)
    <2>1. CASE RevisionMatches(s) /\ Buildable(s)
        BY <1>4, <2>1, Installed
    <2>2. CASE ~RevisionMatches(s)
        <3>1. PushFailed(s, TRUE) /\ UNCHANGED <<spoke, revision, doubt>>
            BY <1>4, <2>2 DEF Install
        <3>2. ~AloneAt(s)
            BY <1>1, <2>2, Matches
        <3>3. Settings(spoke.set)'
            BY <1>2, <3>1 DEF Settings
        <3>4. MayFail(s, TRUE)
            BY <1>1, <1>2, <3>1, <3>2, <3>3, RevisionsOn DEF MayFail
        <3> QED
            BY <3>1, <3>4, Failing
    <2>3. CASE RevisionMatches(s) /\ ~Buildable(s)
        <3>1. PushFailed(s, FALSE) /\ UNCHANGED <<spoke, revision, doubt>>
            BY <1>4, <2>3 DEF Install
        <3>2. Settings(spoke.set)'
            BY <1>2, <3>1 DEF Settings
        <3>3. MayFail(s, FALSE)
            BY <1>1, <1>2, <1>3, <3>1, <3>2, RevisionsOn DEF MayFail
        <3> QED
            BY <3>1, <3>3, Failing
    <2> QED
        BY <2>1, <2>2, <2>3
<1>5. CASE InstallFails(s)
    <2>1. /\ PushFailed(s, FALSE) /\ Passed(s) /\ UNCHANGED doubt
          /\ spoke' \in Failures(spoke, new)
        BY <1>5 DEF InstallFails
    <2>2. Settings(spoke.set)'
        BY <1>2, <2>1, SpokeSettled
    <2>3. ASSUME ~sess[s].undo, sess[s].req.kind # "regenerate", AloneAt(s)
          PROVE  Before(s, spoke') \/ After(s, spoke')
        <3>1. \/ spoke'.set = spoke.set /\ spoke'.cred = spoke.cred
              \/ spoke'.set = new.set /\ spoke'.cred = new.cred
            BY <1>2, <2>1, Failed DEF OldState, NewState
        <3>2. CASE spoke'.set = spoke.set /\ spoke'.cred = spoke.cred
            BY <1>3, <2>3, <3>2 DEF Before, ProtocolState
        <3>3. CASE spoke'.set = new.set /\ spoke'.cred = new.cred
            BY <1>1, <1>2, <2>3, <3>3, Forward
        <3> QED
            BY <3>1, <3>2, <3>3
    <2>4. MayFail(s, FALSE)
        BY <1>1, <2>1, <2>2, <2>3, RevisionsPassed DEF MayFail
    <2> QED
        BY <2>1, <2>4, Failing
<1>6. CASE FinalizeFails(s)
    <2>1. /\ PushFailed(s, FALSE) /\ Passed(s) /\ doubt' = doubt \cup {"spoke"}
          /\ spoke' \in HalfPersisted(spoke, new)
        BY <1>6 DEF FinalizeFails
    <2>2. Settings(spoke.set)'
        BY <1>2, <2>1, SpokeSettled
    <2>3. MayFail(s, FALSE)
        BY <1>1, <2>1, <2>2, RevisionsPassed DEF MayFail
    <2> QED
        BY <2>1, <2>3, Failing
<1> QED
    BY <1>4, <1>5, <1>6

\* A step that changes nothing.
LEMMA AgreesUnchanged ==
    ASSUME AInv, UNCHANGED vars
    PROVE  AInv'
<1>1. UNCHANGED <<reg, spoke, hub, sess, doubt, overlap, revision>>
    BY DEF vars
<1>2. \A s \in Sessions : (KnowsAt(s)' <=> KnowsAt(s)) /\ (StraightAt(s)' <=> StraightAt(s))
    BY <1>1 DEF KnowsAt, StraightAt, IsReplace
<1>3. Values' <=> Values
    BY <1>1 DEF Values, Settings, HubRecord
<1>4. ValuesInv'
    BY <1>2, <1>3 DEF AInv, ValuesInv
<1>5. \A s \in Sessions : (Reader(s)' <=> Reader(s)) /\ (Pusher(s)' <=> Pusher(s)) /\ (Plan(s)' <=> Plan(s))
    BY <1>1 DEF Reader, Pusher, Plan, IsReplace, IsPatch
<1>6. (Smooth' <=> Smooth) /\ (Agree' <=> Agree)
    BY <1>1, <1>2 DEF Smooth, Agree
<1>7. SmoothInv'
    <2>1. ReadInv => ReadInv'
        BY <1>1, <1>5 DEF ReadInv, ProtocolState
    <2>2. RestInv => RestInv'
        BY <1>5, <1>6 DEF RestInv
    <2>3. PlanInv => PlanInv'
        BY <1>1, <1>5 DEF PlanInv
    <2> QED
        BY <1>6, <2>1, <2>2, <2>3 DEF AInv, SmoothInv
<1>8. \A s \in Sessions : (InFlight(s)' <=> InFlight(s)) /\ (Lone(s)' <=> Lone(s))
    BY <1>1 DEF InFlight, Lone
<1>9. OneInv'
    BY <1>1, <1>8 DEF AInv, OneInv
<1>10. \A s \in Sessions : AloneAt(s) => AloneAt(s)'
    BY <1>1 DEF AloneAt, TransactionAt, PushedAt, Before, After, Mutates, OrigState, ProtocolState
<1>11. SerialInv'
    <2>1. Trusted' => Trusted
        BY <1>1 DEF Trusted, Told
    <2> QED
        BY <1>1, <1>8, <1>10, <2>1 DEF AInv, SerialInv
<1>12. \A s \in Sessions : HubAt(s) => HubAt(s)'
    BY <1>1 DEF HubAt, HubSound, ProtocolState, firewallPorts
<1>13. HubInv'
    <2>1. HubSound => HubSound'
        BY <1>1 DEF HubSound, ProtocolState, firewallPorts
    <2> QED
        BY <1>1, <1>8, <1>12, <2>1 DEF AInv, HubInv
<1> QED
    BY <1>4, <1>7, <1>9, <1>11, <1>13 DEF AInv

\* Every step keeps the agreement.
LEMMA StepAgrees ==
    ASSUME IInv, AInv, [Next]_vars
    PROVE  AInv'
<1>1. CASE UNCHANGED vars
    BY <1>1, AgreesUnchanged
<1>2. ASSUME NEW s \in Sessions, NEW r \in Requests, startEditForm(s, r) PROVE AInv'
    BY <1>2, AgreesStartEditForm
<1>3. ASSUME NEW s \in Sessions,
             \/ applySpokeProtocol(s) \/ FetchFails(s) \/ applySpokeRegistryReconfigure(s)
             \/ RegenerateConfigs(s) \/ reconfigure(s) \/ reconfigureFails(s) \/ RefreshFails(s)
      PROVE  AInv'
    BY <1>3, AgreesApplySpokeProtocol, AgreesFetchFails, AgreesApplySpokeRegistryReconfigure,
       AgreesRegenerateConfigs, AgreesReconfigure, AgreesReconfigureFails
<1>4. ASSUME NEW s \in Sessions,
             \/ Install(s) \/ InstallFails(s) \/ FinalizeFails(s) \/ RefreshSubscriptions(s)
             \/ Restore(s) \/ RestoreFails(s) \/ rollbackRemote(s) \/ InspectFails(s) \/ RefreshOnly(s)
      PROVE  AInv'
    BY <1>4, AgreesInstall, AgreesRefreshSubscriptions, AgreesRestore, AgreesRollbackRemote,
       AgreesInspectFails, AgreesRefreshOnly
<1>5. ASSUME NEW s \in Sessions,
             \/ Update(s) \/ protocolUpdateSteps(s) \/ UpdateFails(s)
             \/ regenerateLocal(s) \/ regenerateLocalSingBox(s) \/ RestartFails(s)
      PROVE  AInv'
    BY <1>5, AgreesUpdate, AgreesProtocolUpdateSteps, AgreesUpdateFails, AgreesRegenerateLocal,
       AgreesRegenerateLocalSingBox, AgreesRestartFails
<1> QED
    BY <1>1, <1>2, <1>3, <1>4, <1>5 DEF Next, Quiet

\* Registry, spoke and hub agree initially.
LEMMA InitAgrees == Init => AInv
<1> SUFFICES ASSUME Init PROVE AInv
    OBVIOUS
<1>1. ASSUME NEW s \in Sessions
      PROVE  /\ sess[s].pc = "idle" /\ sess[s].told = None /\ sess[s].undo = FALSE /\ sess[s].req = None
             /\ revision[s] = "none"
    BY DEF Init, Idle
<1>2. reg.set = Initial /\ spoke.set = Initial
    BY DEF Init, Host
<1>3. /\ hub.set = Initial /\ hub.cred = [p \in Protocols |-> Credential]
      /\ hub.live = [set |-> [f \in ProtocolFields |-> Initial[f]], cred |-> [p \in Protocols |-> Credential]]
      /\ hub.open = firewallPorts(Initial) /\ hub.conf = hub.live /\ HubRecord(hub)
    BY DEF Init, Host, HubRecord
<1>4. HubSound
    BY <1>3 DEF HubSound, ProtocolState
<1>5. ValuesInv
    <2>1. Values
        BY <1>2, <1>3, InitialAssumption DEF Init, Values, Settings
    <2>2. ASSUME NEW s \in Sessions PROVE KnowsAt(s)
        BY <1>1, NoneAssumption DEF KnowsAt, Pushing, HubSteps
    <2> QED
        BY <2>1, <2>2 DEF ValuesInv
<1>6. SmoothInv
    <2>1. \A s \in Sessions : ~Reader(s) /\ ~Pusher(s)
        BY <1>1 DEF Reader, Pusher
    <2> QED
        BY <1>2, <2>1 DEF SmoothInv, ReadInv, RestInv, PlanInv, Agree
<1>7. \A s \in Sessions : ~InFlight(s)
    BY <1>1 DEF InFlight
<1>8. ASSUME NEW s \in Sessions PROVE AloneAt(s) /\ HubAt(s)
    BY <1>1, <1>2, <1>4 DEF AloneAt, HubAt, Steps
<1> QED
    BY <1>2, <1>4, <1>5, <1>6, <1>7, <1>8 DEF AInv, OneInv, SerialInv, HubInv

(* The invariant of the agreement between registry, spoke and hub.         *)
THEOREM Agreement == Spec => []AInv
<1>1. IInv /\ AInv /\ [Next]_vars => AInv'
    BY StepAgrees
<1> QED
    BY Invariance, InitAgrees, <1>1, PTL DEF Spec

(* When every operator has an answer and no failure was left open, hub and *)
(* spoke agree: on the protocols if all changes succeeded and no revision  *)
(* was reused, on everything if they were made one after the other, undone *)
(* ones included.  The hub's own files, configuration and ports agree in   *)
(* the same way (ui/spoke_reconfigure.go, protocol.Update).                *)
THEOREM QuietMeansAgreement == Spec => []AgreeWhenQuiet
<1>1. ASSUME AInv, AllDone PROVE AgreeWhenQuiet
    <2>1. \A s \in Sessions : sess[s].pc = "done" /\ ~sess[s].undo /\ ~InFlight(s) /\ ~Pusher(s)
        BY <1>1 DEF AllDone, At, InFlight, Pusher, AInv, ValuesInv, KnowsAt
    <2>2. ASSUME "spoke" \notin doubt, \A s \in Sessions : Told(s) = "ok" /\ revision[s] # "reused"
          PROVE  \A f \in ProtocolFields : reg.set[f] = spoke.set[f]
        <3>1. Smooth
            BY <2>1, <2>2 DEF Smooth, StraightAt, Told
        <3> QED
            BY <1>1, <2>1, <3>1 DEF AInv, SmoothInv, RestInv, Agree
    <2>3. ASSUME "spoke" \notin doubt, ~overlap, \A s \in Sessions : Told(s) # "failed"
          PROVE  reg.set = spoke.set
        BY <1>1, <2>1, <2>3 DEF AInv, SerialInv, Trusted
    <2>4. ASSUME "hub" \notin doubt, ~overlap PROVE HubSound
        BY <1>1, <2>1, <2>4 DEF AInv, HubInv
    <2> QED
        BY <2>2, <2>3, <2>4 DEF AgreeWhenQuiet, HubSound
<1>2. AInv => AgreeWhenQuiet
    BY <1>1 DEF AgreeWhenQuiet
<1> QED
    BY Agreement, <1>2, PTL
==============================================================================
