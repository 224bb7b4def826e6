--------------------------- MODULE OperatorConsole ---------------------------
(***************************************************************************)
(* The terminal interface of the hub: internal/ui.  One bubbletea program  *)
(* owns one main menu and at most one open screen ("flow"); every message  *)
(* - a key, the answer of a background read, a line of a running command - *)
(* goes to the open screen, whichever screen asked for it.                 *)
(*                                                                         *)
(* A command that changes the fleet runs in a goroutine that reports over  *)
(* a buffered channel; the screen reads it one message at a time, each     *)
(* message asking for the next (waitForRun).  Messages do not name the run *)
(* they belong to.  Some reads carry an id that the screen compares with   *)
(* its own; some do not.                                                   *)
(*                                                                         *)
(* A key handler is a table: an operator of the screen and the key whose   *)
(* value is the set of outcomes [flow, cmd, done] the handler can return;  *)
(* a key the screen ignores has none.  Cursor movement, ticking, scrolling *)
(* and typing change only what the next Enter picks, and are the choice    *)
(* among the outcomes of Enter; a rejected field is an Enter that changes  *)
(* nothing.  "q" is a synonym of esc in lists and is not listed.           *)
(***************************************************************************)
EXTENDS Naturals, Sequences, FiniteSets, Bags

CONSTANTS
    Nodes,      \* the spokes a selector offers
    Protos,     \* the protocols an edit screen offers
    Nil,        \* no spoke, protocol, message or suspended flow
    MaxEvents,  \* bound: progress lines of one command
    Cap,        \* capacity of a run's channel (64 in the code)
    MaxPending, \* bound: commands of one session and reads in flight
    MaxLoadID   \* bound: reads one screen starts or cancels

ASSUME ConsoleAssumption ==
    /\ Nil \notin Nodes \cup Protos
    /\ {MaxEvents, MaxPending, MaxLoadID} \subseteq Nat
    /\ Cap \in Nat \ {0}

VARIABLES
    flow,       \* the open screen; kind "menu" is the main menu
    suspended,  \* the screen that handed over to Certificate management
    runs,       \* the commands started in this session, in order
    loads,      \* bag of background reads whose answer is still to come
    replaced,   \* a self-update of this session committed a new binary
    late        \* history: an untagged answer reached a screen not waiting

consoleVars == <<flow, suspended, runs, loads, replaced, late>>

Keys == {"enter", "esc", "back", "y", "n", "r"}
Yes == {"enter", "y"}
No == {"esc", "n"}

\* The phases of each screen ("LoadErr" is the screen whose files could not
\* be read when it opened: loadErr # nil).
installPhase == {"Preflight", "Form", "Confirm", "Running", "Done"}
protocolPhase ==
    {"LoadErr", "Action", "Select", "EditPick", "Loading", "Form", "Confirm",
     "Running", "Done"}
relayPhase == {"Action", "Landing", "Relay", "Confirm", "Running", "Done"}
subscriptionPhase ==
    {"LoadErr", "Action", "Form", "Reorder", "Confirm", "Running", "Done"}
monitorPhase ==
    {"LoadErr", "Action", "Form", "Loading", "Confirm", "ServiceConfirm",
     "Running", "Done", "LogsLoading", "Logs"}
corePhase ==
    {"Action", "StableLoading", "StableSelect", "Confirm", "Running", "Done",
     "LogsLoading", "Logs"}
certPhase ==
    {"List", "ZonePick", "ZoneList", "HostForm", "ZoneForm", "RenewPick",
     "RenewConfirm", "CertPick", "CertDeleteConfirm", "ZoneDeletePick",
     "ZoneDeleteConfirm", "Running", "Done"}
nodePhase ==
    {"List", "Form", "HostKeyScan", "HostKeyConfirm", "DeletePick",
     "RemoveConfirm", "ForceConfirm", "Running", "Done"}
selfUpdatePhase == {"Checking", "Check", "Confirm", "Running", "Done"}
regeneratePhase == {"Select", "Confirm", "Running", "Done"}
uninstallPhase == {"Confirm", "Running", "Done"}

\* The main menu, a program that has ended, and the screens of the Model.
Phases ==
    [menu |-> {"Menu"}, quit |-> {"Quit"}, install |-> installPhase,
     protocols |-> protocolPhase, relay |-> relayPhase,
     subscribe |-> subscriptionPhase, monitor |-> monitorPhase,
     core |-> corePhase, certificates |-> certPhase, nodes |-> nodePhase,
     selfupdate |-> selfUpdatePhase, regenerate |-> regeneratePhase,
     uninstall |-> uninstallPhase]

Screens == DOMAIN Phases \ {"menu", "quit"}

\* A screen just opened, with everything else at its zero value.  able is
\* hostCanApply (root, no SELinux), canProceed or hubReady: what the screen
\* learned of the host when it was made.
Fresh(kind, phase, able) ==
    [kind |-> kind, phase |-> phase, able |-> able, action |-> Nil,
     node |-> Nil, proto |-> Nil, shown |-> Nil, load |-> 0,
     fields |-> FALSE, ask |-> FALSE, redirected |-> FALSE,
     resumeIssue |-> FALSE, pickHost |-> FALSE, refused |-> "no",
     tag |-> FALSE, ch |-> 0, complete |-> FALSE, failed |-> FALSE]

MainMenu == Fresh("menu", "Menu", FALSE)
QuitState == Fresh("quit", "Quit", FALSE)

(* ------------------------- outcomes of a handler ------------------------ *)
NoCmd == [type |-> "none"]
RunCmd == [type |-> "run"]
QuitCmd == [type |-> "quit"]
LoadCmd(what, id, node, proto) ==
    [type |-> "load", what |-> what, id |-> id, node |-> node, proto |-> proto]

Out(f, cmd, done) == [flow |-> f, cmd |-> cmd, done |-> done]
Stay(f) == {Out(f, NoCmd, FALSE)}
Close(f) == {Out(f, NoCmd, TRUE)}
Goto(f, p) == Stay([f EXCEPT !.phase = p])
When(cond, outcomes) == IF cond THEN outcomes ELSE {}

(* --------------------------- command_run.go ----------------------------- *)
ResetKeepsResult(f) == [f EXCEPT !.ch = Len(runs) + 1]

\* resetRun: a screen's run state before a command starts.
resetRun(f) ==
    [f EXCEPT !.ch = Len(runs) + 1, !.complete = FALSE, !.failed = FALSE]

\* The end every startRun has in common: reset, launch the goroutine, wait.
Launch(f) == {Out([resetRun(f) EXCEPT !.phase = "Running"], RunCmd, FALSE)}

\* A running command leaves its screen only by Enter after it completed.
RunningKey(f, k) ==
    When(f.phase = "Running" /\ k = "enter" /\ f.complete, Goto(f, "Done"))

\* handleDoneKey: any key but the scroll keys closes the screen.
handleDoneKey(f, k) == When(f.phase = "Done", Close(f))

(* ------------------------------- Setup ---------------------------------- *)
\* The fields are checked one by one (an invalid one stays); a domain that no
\* managed certificate covers asks for Certificate management.
installComplete(f) == Goto(f, "Confirm") \cup Stay([f EXCEPT !.ask = TRUE])

\* A configuration that cannot be built is a failed run without a channel.
buildConfigFails(f) == Stay([f EXCEPT !.phase = "Done", !.failed = TRUE])

installStart(f) == Launch(f) \cup buildConfigFails(f)

installKey(f, k) ==
    LET at(p) == f.phase = p IN
    UNION {
      When(at("Preflight") /\ k = "enter" /\ f.able, Goto(f, "Form")),
      When(at("Preflight") /\ k = "esc", Close(f)),
      When(at("Form") /\ k = "enter", installComplete(f)),
      When(at("Form") /\ k = "esc", Close(f)),
      When(at("Confirm") /\ k \in Yes, installStart(f)),
      When(at("Confirm") /\ k = "back", Goto(f, "Form")),
      When(at("Confirm") /\ k \in No, Close(f)),
      RunningKey(f, k),
      handleDoneKey(f, k) }

(* -------------------------- Protocol settings --------------------------- *)
SpokeAction(f) == f.action \in {"changeSpoke", "editSpoke", "sniSpoke"}

\* Cancelling a read also makes its answer unwelcome: the id moves on.
cancelSpokeStateLoad(f) == [f EXCEPT !.load = @ + 1]

startSpokeSelector(f) ==
    [f EXCEPT !.node = Nil, !.phase = "Form", !.fields = TRUE]

protocolsActivate(f) ==
    LET base == [cancelSpokeStateLoad(f) EXCEPT !.node = Nil, !.shown = Nil]
        Pick(a) == [base EXCEPT !.action = a]
    IN  UNION {
          Goto(Pick("change"), "Select"),
          Goto(Pick("edit"), "EditPick"),
          Stay(IF f.able
               THEN [Pick("sni") EXCEPT !.phase = "Form", !.fields = TRUE]
               ELSE Pick("sni")),
          {Out(IF f.able /\ Nodes # {} THEN startSpokeSelector(Pick(a))
                                       ELSE Pick(a), NoCmd, FALSE) :
             a \in {"changeSpoke", "editSpoke", "sniSpoke"}} }

\* The selected protocol set needs parameters (a form) or none (confirm).
prepareChangeConfirm(f) ==
    When(f.able, {Out([f EXCEPT !.fields = b,
                                !.phase = IF b THEN "Form" ELSE "Confirm"],
                      NoCmd, FALSE) : b \in BOOLEAN})

\* A spoke's settings are read from the spoke before its form opens.
startEditForm(f) ==
    LET next(p) == [cancelSpokeStateLoad(f) EXCEPT
                      !.proto = p, !.shown = Nil, !.phase = "Loading"]
    IN  When(f.able,
          IF f.action = "editSpoke"
          THEN {Out(next(p), LoadCmd("state", next(p).load, f.node, p), FALSE) :
                  p \in Protos}
          ELSE {Out([f EXCEPT !.proto = p, !.phase = "Form", !.fields = TRUE],
                    NoCmd, FALSE) : p \in Protos})

\* Complete of the parameter form: a selector that named its spoke goes on
\* with the action (continueSpokeAction), any other form to the confirmation.
protocolsComplete(f) ==
    IF SpokeAction(f) /\ f.node = Nil
    THEN {Out([f EXCEPT
                 !.node = n,
                 !.phase = CASE f.action = "changeSpoke" -> "Select"
                             [] f.action = "editSpoke" -> "EditPick"
                             [] OTHER -> "Form"], NoCmd, FALSE) : n \in Nodes}
    ELSE Goto(f, "Confirm")

\* Back from the first field of a form.
previousField(f) ==
    Stay(CASE SpokeAction(f) /\ f.node = Nil -> [f EXCEPT !.phase = "Action"]
           [] f.action \in {"changeSpoke", "change"} ->
                [f EXCEPT !.phase = "Select"]
           [] f.action \in {"editSpoke", "edit"} ->
                [f EXCEPT !.phase = "EditPick"]
           [] f.action = "sniSpoke" -> startSpokeSelector(f)
           [] OTHER -> [f EXCEPT !.phase = "Action"])

backFromConfirm(f) ==
    Goto(f, IF f.fields THEN "Form"
            ELSE CASE f.action = "edit" -> "EditPick"
                   [] f.action = "sni" -> "Action"
                   [] OTHER -> "Select")

protocolsStart(f) == Launch(f)

protocolsKey(f, k) ==
    LET at(p) == f.phase = p IN
    UNION {
      When(at("LoadErr") /\ k \in {"enter", "esc"}, Close(f)),
      When(at("Action") /\ k = "enter", protocolsActivate(f)),
      When(at("Select") /\ k = "enter", prepareChangeConfirm(f)),
      When(at("EditPick") /\ k = "enter", startEditForm(f)),
      When(f.phase \in {"Select", "EditPick"} /\ k = "back",
           IF SpokeAction(f) THEN Stay(startSpokeSelector(f))
                             ELSE Goto(f, "Action")),
      When(f.phase \in {"Action", "Select", "EditPick", "Form"} /\ k = "esc",
           Close(f)),
      When(at("Loading") /\ k \in {"back", "esc"},
           {Out([cancelSpokeStateLoad(f) EXCEPT !.phase = "EditPick"],
                NoCmd, k = "esc")}),
      When(at("Form") /\ k = "enter", protocolsComplete(f)),
      When(at("Form") /\ k = "back", previousField(f)),
      When(at("Confirm") /\ k \in Yes, protocolsStart(f)),
      When(at("Confirm") /\ k = "back", backFromConfirm(f)),
      When(at("Confirm") /\ k \in No, Close(f)),
      RunningKey(f, k),
      handleDoneKey(f, k) }

\* The read failed, or validateSpokeProtocolState found that the state does
\* not match the registry: back to the choice of the protocol.
RejectSpokeState(f) == [cancelSpokeStateLoad(f) EXCEPT !.phase = "EditPick"]

StateTakenUnchecked(f, msg) ==
    {IF msg.err THEN RejectSpokeState(f)
                ELSE [cancelSpokeStateLoad(f) EXCEPT
                        !.shown = <<msg.node, msg.proto>>, !.phase = "Form",
                        !.fields = TRUE]}

\* The answer of a spoke: taken only by the screen waiting for this very
\* read.
handleSpokeProtocolState(f, msg) ==
    IF \/ f.phase # "Loading" \/ msg.id # f.load
       \/ msg.node # f.node \/ msg.proto # f.proto
    THEN {f}
    ELSE {RejectSpokeState(f)} \cup
         When(~msg.err, {[cancelSpokeStateLoad(f) EXCEPT
                            !.shown = <<msg.node, msg.proto>>,
                            !.phase = "Form", !.fields = TRUE]})

(* ------------------------- Subscription settings ------------------------ *)
\* node is the index of the chosen spoke or group (editNodeIndex,
\* editGroupIndex).
subscriptionActions ==
    {"displayName", "local", "editSpoke", "addGroup", "editGroup",
     "deleteGroup", "reorder", "refresh"}

subscriptionsActivate(f) ==
    {Out([f EXCEPT !.node = Nil, !.action = a,
                   !.fields = a \notin {"reorder", "refresh"},
                   !.phase = CASE a = "reorder" -> "Reorder"
                               [] a = "refresh" -> "Confirm"
                               [] OTHER -> "Form"], NoCmd, FALSE) :
       a \in subscriptionActions}
    \cup {Out([f EXCEPT !.node = Nil, !.action = a], NoCmd, FALSE) :
            a \in {"editSpoke", "editGroup", "deleteGroup"}}

\* Complete of a form: a selector opens the form of what it named, any other
\* form goes to the confirmation.
subscriptionsComplete(f) ==
    IF f.action \in {"editSpoke", "editGroup"} /\ f.node = Nil
    THEN {Out([f EXCEPT !.node = n], NoCmd, FALSE) : n \in Nodes}
    ELSE Goto(f, "Confirm")

subscriptionsStart(f) == IF f.able THEN Launch(f) ELSE Goto(f, "Action")

subscriptionsKey(f, k) ==
    LET at(p) == f.phase = p IN
    UNION {
      When(at("LoadErr") /\ k \in {"enter", "esc"}, Close(f)),
      When(at("Action") /\ k = "enter", subscriptionsActivate(f)),
      When(f.phase \in {"Action", "Form", "Reorder"} /\ k = "esc", Close(f)),
      When(at("Form") /\ k = "enter", subscriptionsComplete(f)),
      When(at("Form") /\ k = "back",
           IF f.action \in {"editSpoke", "editGroup"} /\ f.node # Nil
           THEN Stay([f EXCEPT !.node = Nil])
           ELSE Goto(f, "Action")),
      When(at("Reorder") /\ k = "enter", Goto(f, "Confirm")),
      When(at("Confirm") /\ k \in Yes, subscriptionsStart(f)),
      When(at("Confirm") /\ k = "back",
           Goto(f, IF f.action = "reorder" THEN "Reorder"
                   ELSE IF f.fields THEN "Form" ELSE "Action")),
      When(at("Confirm") /\ k \in No, Close(f)),
      RunningKey(f, k),
      handleDoneKey(f, k) }

(* ------------------------------ Monitoring ------------------------------ *)
cancelSpokeUsageLoad(f) == [f EXCEPT !.load = @ + 1]

startSpokeTrafficSelector(f) ==
    [cancelSpokeUsageLoad(f) EXCEPT
       !.node = Nil, !.shown = Nil,
       !.phase = IF Nodes = {} THEN "Action" ELSE "Form", !.fields = TRUE]

loadServiceLogsCmd(f) ==
    {Out([f EXCEPT !.phase = "LogsLoading"],
         LoadCmd("monitorLogs", 0, Nil, Nil), FALSE)}

\* The service actions stop at their own confirmation, the others at a form;
\* the ones that need the host's permission or a spoke may be refused.
monitorActivate(f) ==
    LET base == [cancelSpokeUsageLoad(f) EXCEPT !.node = Nil, !.shown = Nil]
        Pick(a) == [base EXCEPT !.action = a]
        form(a) == [Pick(a) EXCEPT !.phase = "Form", !.fields = TRUE]
    IN  UNION {
          {Out(form(a), NoCmd, FALSE) : a \in {"local", "usage"}},
          Stay(IF Nodes # {} THEN form("editSpoke") ELSE Pick("editSpoke")),
          Stay(IF Nodes # {} /\ f.able
               THEN startSpokeTrafficSelector(Pick("spokeUsage"))
               ELSE Pick("spokeUsage")),
          {Out(IF f.able THEN form(a) ELSE Pick(a), NoCmd, FALSE) :
             a \in {"addPackage", "reset"}},
          loadServiceLogsCmd(Pick("logs")),
          Stay(IF f.able THEN [Pick("service") EXCEPT !.phase = "ServiceConfirm"]
                         ELSE Pick("service")) }

startSpokeTrafficUsageLoad(f, n) ==
    LET next == [cancelSpokeUsageLoad(f) EXCEPT
                   !.node = n, !.shown = Nil, !.phase = "Loading"]
    IN  Out(next, LoadCmd("usage", next.load, n, Nil), FALSE)

\* Complete of a form; only the hub's own settings hold a domain, whose
\* refusal asks for Certificate management.
monitorComplete(f) ==
    CASE f.action = "editSpoke" /\ f.node = Nil ->
           {Out([f EXCEPT !.node = n], NoCmd, FALSE) : n \in Nodes}
      [] f.action = "spokeUsage" /\ f.node = Nil ->
           {startSpokeTrafficUsageLoad(f, n) : n \in Nodes}
      [] OTHER ->
           Goto(f, "Confirm") \cup
           When(f.action = "local", Stay([f EXCEPT !.ask = TRUE]))

monitorStart(f) == IF f.able THEN Launch(f) ELSE Goto(f, "Action")

startServiceRun(f) == IF f.able THEN Launch(f) ELSE Goto(f, "Action")

monitorKey(f, k) ==
    LET at(p) == f.phase = p IN
    UNION {
      When(at("LoadErr") /\ k \in {"enter", "esc"}, Close(f)),
      When(at("Action") /\ k = "enter", monitorActivate(f)),
      When(f.phase \in {"Action", "Form"} /\ k = "esc", Close(f)),
      When(at("Form") /\ k = "enter", monitorComplete(f)),
      When(at("Form") /\ k = "back",
           Stay(IF f.node # Nil /\ f.action = "editSpoke"
                THEN [f EXCEPT !.node = Nil]
                ELSE IF f.node # Nil /\ f.action = "spokeUsage"
                THEN startSpokeTrafficSelector(f)
                ELSE [f EXCEPT !.phase = "Action"])),
      When(at("Loading") /\ k = "back", Stay(startSpokeTrafficSelector(f))),
      When(at("Loading") /\ k = "esc", Close(cancelSpokeUsageLoad(f))),
      When(at("Confirm") /\ k \in Yes, monitorStart(f)),
      When(at("Confirm") /\ k = "back",
           Goto(f, IF f.fields THEN "Form" ELSE "Action")),
      When(at("ServiceConfirm") /\ k \in Yes, startServiceRun(f)),
      When(at("ServiceConfirm") /\ k = "back", Goto(f, "Action")),
      When(f.phase \in {"Confirm", "ServiceConfirm"} /\ k \in No, Close(f)),
      When(at("LogsLoading") /\ k = "esc", Goto(f, "Action")),
      When(at("Logs") /\ k = "r", loadServiceLogsCmd(f)),
      When(at("Logs") /\ k \in {"esc", "enter"}, Goto(f, "Action")),
      RunningKey(f, k),
      handleDoneKey(f, k) }

handleSpokeTrafficUsage(f, msg) ==
    IF f.phase # "Loading" \/ msg.id # f.load \/ msg.node # f.node
    THEN {f}
    ELSE LET cancelled == cancelSpokeUsageLoad(f)
         IN  {startSpokeTrafficSelector(cancelled)} \cup
             (IF msg.err THEN {}
              ELSE {[cancelled EXCEPT !.shown = <<msg.node, Nil>>,
                                      !.phase = "Form", !.fields = TRUE]})

(* ----------------------------- sing-box core ---------------------------- *)
loadStableTagsCmd(f) ==
    {Out([f EXCEPT !.phase = "StableLoading"],
         LoadCmd("tags", 0, Nil, Nil), FALSE)}

loadLogsCmd(f) ==
    {Out([f EXCEPT !.phase = "LogsLoading"],
         LoadCmd("coreLogs", 0, Nil, Nil), FALSE)}

coreActivate(f) ==
    LET Pick(a) == [f EXCEPT !.action = a]
    IN  UNION {
          loadLogsCmd(Pick("logs")),
          IF f.able THEN loadStableTagsCmd(Pick("change"))
                    ELSE Stay(Pick("change")),
          IF f.able THEN Goto(Pick("service"), "Confirm")
                    ELSE Stay(Pick("service")) }

coreStart(f) == Launch(f)

coreKey(f, k) ==
    LET at(p) == f.phase = p IN
    UNION {
      When(at("Action") /\ k = "enter", coreActivate(f)),
      When(at("StableSelect") /\ k = "enter", Goto(f, "Confirm")),
      When(at("StableSelect") /\ k = "back", Goto(f, "Action")),
      When(f.phase \in {"Action", "StableSelect"} /\ k = "esc", Close(f)),
      When(at("Confirm") /\ k \in Yes, coreStart(f)),
      When(at("Confirm") /\ k = "back",
           Goto(f, IF f.action = "change" THEN "StableSelect" ELSE "Action")),
      When(at("Confirm") /\ k \in No, Close(f)),
      When(f.phase \in {"StableLoading", "LogsLoading"} /\ k = "esc",
           Goto(f, "Action")),
      When(at("Logs") /\ k = "r", loadLogsCmd(f)),
      When(at("Logs") /\ k \in {"esc", "enter"}, Goto(f, "Action")),
      RunningKey(f, k),
      handleDoneKey(f, k) }

\* The answer of the release lookup, in whatever phase the screen is.
applyStableTags(f, msg) ==
    {[f EXCEPT !.phase = IF msg.err THEN "Action" ELSE "StableSelect"]}

(* ------------------------------ Self-update ----------------------------- *)
checkCmd == LoadCmd("checked", 0, Nil, Nil)

\* refused: "error" if a lookup failed or the version may not follow this one
\* (checkErr, never cleared), "current" if this one is the latest (upToDate).
applyCheckResult(f, msg) ==
    {[f EXCEPT !.phase = "Check", !.refused = r] :
       r \in IF msg.err \/ f.refused = "error" THEN {"error"}
             ELSE {"no", "current", "error"}}

selfUpdateStart(f) ==
    IF f.able THEN Launch(f)
    ELSE Stay([f EXCEPT !.phase = "Check", !.refused = "error"])

SelfUpdateDonePlain(f, k) == When(f.phase = "Done", Close(f))

\* A process whose binary was replaced never returns to the menu.
selfUpdateDoneKey(f, k) ==
    When(f.phase = "Done",
         IF f.tag THEN {Out(f, QuitCmd, FALSE)} ELSE handleDoneKey(f, k))

selfUpdateKey(f, k) ==
    LET at(p) == f.phase = p
        go == f.refused = "no"
    IN UNION {
      When(at("Checking") /\ k = "esc", Close(f)),
      When(at("Check") /\ ~go, Close(f)),
      When(at("Check") /\ go /\ k \in Yes, Goto(f, "Confirm")),
      When(at("Check") /\ go /\ k \in No, Close(f)),
      When(at("Confirm") /\ k \in Yes, selfUpdateStart(f)),
      When(at("Confirm") /\ k = "back", Goto(f, "Check")),
      When(at("Confirm") /\ k \in No, Close(f)),
      RunningKey(f, k),
      selfUpdateDoneKey(f, k) }

(* ------------------------ Certificate management ------------------------ *)
startCertificateRun(f) == Launch(f)

\* beginAddForDomain: the domain's zone is known, or is asked for first.
newCertManagerForDomain ==
    LET base == [Fresh("certificates", "List", FALSE) EXCEPT
                   !.redirected = TRUE]
    IN  {[base EXCEPT !.phase = "HostForm"],
         [base EXCEPT !.phase = "ZoneForm", !.resumeIssue = TRUE]}

\* The domain is managed already or unreadable, lacks a zone, or is issued.
continueAdd(f) ==
    UNION { Goto(f, "List"),
            Stay([f EXCEPT !.resumeIssue = TRUE, !.phase = "ZoneForm"]),
            startCertificateRun(f) }

\* A zone that cannot be saved leaves both intentions standing; one that is
\* saved continues with what the zone was wanted for.
completeZoneForm(f) ==
    LET saved == [f EXCEPT !.pickHost = FALSE, !.resumeIssue = FALSE]
    IN  UNION { Goto(f, "ZoneList"),
                Goto(saved, IF f.pickHost THEN "HostForm" ELSE "ZoneList"),
                When(f.resumeIssue, continueAdd(saved)) }

completeForm(f) ==
    IF f.phase = "ZoneForm" THEN completeZoneForm(f) ELSE continueAdd(f)

cancelForm(f) ==
    Stay(CASE f.phase = "ZoneForm" /\ f.pickHost ->
                [f EXCEPT !.pickHost = FALSE, !.phase = "ZonePick"]
           [] f.phase = "ZoneForm" ->
                [f EXCEPT !.resumeIssue = FALSE, !.phase = "ZoneList"]
           [] OTHER -> [f EXCEPT !.phase = "ZonePick"])

\* The form of a screen another one opened answers esc with "done", which
\* the caller drops (updateForm and updateZonePick discard it): no outcome.
updateForm(f, k) ==
    UNION { When(k = "enter", completeForm(f)),
            When(k = "esc" /\ ~f.redirected, cancelForm(f)) }

updateList(f, k) ==
    UNION { When(k = "enter",
                 UNION {Goto(f, p) : p \in {"ZonePick", "RenewPick",
                                            "CertPick", "ZoneList"}}),
            When(k = "esc", Close(f)) }

updateZoneList(f, k) ==
    UNION { When(k = "enter", Goto(f, "ZoneForm") \cup Goto(f, "ZoneDeletePick")),
            When(k = "esc", Goto(f, "List")) }

updateZonePick(f, k) ==
    UNION { When(k = "enter",
                 Goto(f, "HostForm") \cup
                 Stay([f EXCEPT !.pickHost = TRUE, !.phase = "ZoneForm"])),
            When(k = "esc" /\ ~f.redirected, Goto(f, "List")) }

updateRenew(f, k) ==
    UNION { When(f.phase = "RenewPick" /\ k = "enter", Goto(f, "RenewConfirm")),
            When(f.phase = "RenewPick" /\ k = "esc", Goto(f, "List")),
            When(f.phase = "RenewConfirm" /\ k = "y", startCertificateRun(f)),
            When(f.phase = "RenewConfirm" /\ k \in No, Goto(f, "List")) }

\* A certificate in use is not offered for deletion; one that cannot be
\* looked up sends the operator back to the list.
updateCertDelete(f, k) ==
    UNION { When(f.phase = "CertPick" /\ k = "enter",
                 Goto(f, "CertDeleteConfirm") \cup Goto(f, "List")),
            When(f.phase = "CertPick" /\ k = "esc", Goto(f, "List")),
            When(f.phase = "CertDeleteConfirm" /\ k = "y", Goto(f, "List")),
            When(f.phase = "CertDeleteConfirm" /\ k \in No, Goto(f, "CertPick")) }

updateZoneDelete(f, k) ==
    UNION { When(f.phase = "ZoneDeletePick" /\ k = "enter",
                 Goto(f, "ZoneDeleteConfirm")),
            When(f.phase = "ZoneDeletePick" /\ k = "esc", Goto(f, "ZoneList")),
            When(f.phase = "ZoneDeleteConfirm" /\ k = "y", Goto(f, "ZoneList")),
            When(f.phase = "ZoneDeleteConfirm" /\ k \in No,
                 Goto(f, "ZoneDeletePick")) }

certificatesKey(f, k) ==
    CASE f.phase = "Done" -> IF f.redirected THEN Close(f) ELSE Goto(f, "List")
      [] f.phase \in {"HostForm", "ZoneForm"} -> updateForm(f, k)
      [] f.phase = "List" -> updateList(f, k)
      [] f.phase = "ZonePick" -> updateZonePick(f, k)
      [] f.phase = "ZoneList" -> updateZoneList(f, k)
      [] f.phase \in {"RenewPick", "RenewConfirm"} -> updateRenew(f, k)
      [] f.phase \in {"CertPick", "CertDeleteConfirm"} -> updateCertDelete(f, k)
      [] f.phase \in {"ZoneDeletePick", "ZoneDeleteConfirm"} ->
           updateZoneDelete(f, k)
      [] OTHER -> {}

(* ------------------------------ Spoke nodes ----------------------------- *)
\* The private key file may be unreadable; else the host key is looked up.
nodesCompleteForm(f) ==
    Goto(f, "List") \cup
    {Out([f EXCEPT !.phase = "HostKeyScan"], LoadCmd("scan", 0, Nil, Nil),
         FALSE)}

startAdd(f) == Launch(f)
startRemove(f) == Launch(f)
startForceDetach(f) == Launch(f)

nodesUpdateList(f, k) ==
    UNION { When(k = "enter" /\ f.able, Goto(f, "Form")),
            When(k = "enter" /\ Nodes # {},
                 {Out([f EXCEPT !.action = a, !.phase = "DeletePick"],
                      NoCmd, FALSE) : a \in {Nil, "force"}}),
            When(k = "esc", Close(f)) }

updatePick(f, k) ==
    UNION { When(k = "enter",
                 {Out([f EXCEPT !.node = n,
                                !.phase = IF f.action = "force"
                                          THEN "ForceConfirm"
                                          ELSE "RemoveConfirm"],
                      NoCmd, FALSE) : n \in Nodes}),
            When(k = "esc", Goto([f EXCEPT !.action = Nil], "List")) }

updateRemoval(f, k) ==
    LET spent == [f EXCEPT !.node = Nil] IN
    UNION { When(f.phase = "RemoveConfirm" /\ k = "y", startRemove(spent)),
            When(f.phase = "ForceConfirm" /\ k = "y", startForceDetach(spent)),
            When(k \in No, Goto([spent EXCEPT !.action = Nil], "List")) }

\* A spoke's domain that no managed certificate covers asks for one first.
validateForm(f) == Stay([f EXCEPT !.ask = TRUE])

nodesUpdateForm(f, k) ==
    UNION { When(k = "enter", nodesCompleteForm(f) \cup validateForm(f)),
            When(k = "esc", Goto(f, "List")) }

updateHostKeyConfirm(f, k) ==
    UNION { When(k = "y", startAdd(f) \cup Goto(f, "List")),
            When(k \in No, Goto(f, "List")) }

nodesKey(f, k) ==
    CASE f.phase = "Done" -> Goto(f, "List")
      [] f.phase = "Form" -> nodesUpdateForm(f, k)
      [] f.phase = "HostKeyConfirm" -> updateHostKeyConfirm(f, k)
      [] f.phase = "List" -> nodesUpdateList(f, k)
      [] f.phase = "DeletePick" -> updatePick(f, k)
      [] f.phase \in {"RemoveConfirm", "ForceConfirm"} -> updateRemoval(f, k)
      [] OTHER -> {}

handleHostKeyScan(f, msg) ==
    {IF f.phase # "HostKeyScan" THEN f
     ELSE [f EXCEPT !.phase = IF msg.err THEN "List" ELSE "HostKeyConfirm"]}

(* --------------------------------- Relay -------------------------------- *)
\* Adding picks an unlinked landing node, the other actions a linked one; an
\* action without candidates only shows why.
relayStartAction(f) ==
    LET Pick(a) == [f EXCEPT !.action = a]
    IN  UNION {Stay(Pick(a)) \cup Goto(Pick(a), "Landing") :
                 a \in {"add", "change", "remove", "reset"}}

\* Removing and clearing need no relay; adding and changing pick one, and its
\* ports are planned before the confirmation.
confirmPick(f) ==
    IF f.phase = "Landing"
    THEN Goto(f, IF f.action \in {"remove", "reset"} THEN "Confirm" ELSE "Relay")
    ELSE Goto(f, "Confirm")

relayBack(f) ==
    Goto(f, CASE f.phase = "Relay" -> "Landing"
              [] f.phase = "Confirm" ->
                   IF f.action \in {"remove", "reset"} THEN "Landing" ELSE "Relay"
              [] OTHER -> "Action")

\* Clearing first resolves what to clear, and stays where it is if a link or
\* its relay is gone.
relayStart(f) == When(f.action = "reset", Stay(f)) \cup Launch(f)

relayKey(f, k) ==
    UNION {
      When(f.phase = "Action" /\ k = "enter", relayStartAction(f)),
      When(f.phase = "Action" /\ k = "esc", Close(f)),
      When(f.phase \in {"Landing", "Relay"} /\ k = "enter", confirmPick(f)),
      When(f.phase \in {"Landing", "Relay"} /\ k \in {"back", "esc"},
           relayBack(f)),
      When(f.phase = "Confirm" /\ k \in Yes, relayStart(f)),
      When(f.phase = "Confirm" /\ k \in No \cup {"back"}, relayBack(f)),
      RunningKey(f, k),
      handleDoneKey(f, k) }

(* ----------------- Regenerate node configs and Uninstall ---------------- *)
regenerateStart(f) == IF f.able THEN Launch(f) ELSE Goto(f, "Select")

regenerateKey(f, k) ==
    UNION {
      When(f.phase = "Select" /\ k = "enter", Goto(f, "Confirm")),
      When(f.phase = "Select" /\ k = "esc", Close(f)),
      When(f.phase = "Confirm" /\ k \in Yes, regenerateStart(f)),
      When(f.phase = "Confirm" /\ k = "back", Goto(f, "Select")),
      When(f.phase = "Confirm" /\ k \in No, Close(f)),
      RunningKey(f, k),
      handleDoneKey(f, k) }

uninstallStart(f) == When(f.able, Launch(f))

UninstallKeyLeaves(f, k) ==
    UNION {
      When(f.phase = "Confirm" /\ k \in Yes, uninstallStart(f)),
      When(f.phase \in {"Confirm", "Running"} /\ k \in No, Close(f)),
      RunningKey(f, k),
      handleDoneKey(f, k) }

uninstallKey(f, k) ==
    UNION {
      When(f.phase = "Confirm" /\ k \in Yes, uninstallStart(f)),
      When(f.phase = "Confirm" /\ k \in No, Close(f)),
      RunningKey(f, k),
      handleDoneKey(f, k) }

(* -------------------- model.go: the one active screen ------------------- *)
handleKey(f, k) ==
    CASE f.kind = "install" -> installKey(f, k)
      [] f.kind = "protocols" -> protocolsKey(f, k)
      [] f.kind = "relay" -> relayKey(f, k)
      [] f.kind = "subscribe" -> subscriptionsKey(f, k)
      [] f.kind = "monitor" -> monitorKey(f, k)
      [] f.kind = "core" -> coreKey(f, k)
      [] f.kind = "certificates" -> certificatesKey(f, k)
      [] f.kind = "nodes" -> nodesKey(f, k)
      [] f.kind = "selfupdate" -> selfUpdateKey(f, k)
      [] f.kind = "regenerate" -> regenerateKey(f, k)
      [] f.kind = "uninstall" -> uninstallKey(f, k)
      [] OTHER -> {}

\* The answer of a background read, given to the screen that is open; every
\* screen ignores the answers it has no case for.
handleLoad(f, msg) ==
    CASE f.kind = "protocols" /\ msg.what = "state" ->
           handleSpokeProtocolState(f, msg)
      [] f.kind = "monitor" /\ msg.what = "usage" ->
           handleSpokeTrafficUsage(f, msg)
      [] f.kind = "monitor" /\ msg.what = "monitorLogs" ->
           {[f EXCEPT !.phase = "Logs"]}
      [] f.kind = "core" /\ msg.what = "coreLogs" -> {[f EXCEPT !.phase = "Logs"]}
      [] f.kind = "core" /\ msg.what = "tags" -> applyStableTags(f, msg)
      [] f.kind = "selfupdate" /\ msg.what = "checked" -> applyCheckResult(f, msg)
      [] f.kind = "nodes" /\ msg.what = "scan" -> handleHostKeyScan(f, msg)
      [] OTHER -> {f}

\* The phase in which a screen waits for the answer of an untagged read.
WaitsFor(f, what) ==
    CASE what \in {"coreLogs", "monitorLogs"} -> f.phase = "LogsLoading"
      [] what = "tags" -> f.phase = "StableLoading"
      [] what = "checked" -> f.phase = "Checking"
      [] OTHER -> TRUE

EventForgotten(f, msg) ==
    [flow |-> IF ~msg.done THEN f
              ELSE [f EXCEPT !.failed = ~msg.ok, !.complete = @ \/ msg.ok,
                             !.phase = IF msg.ok THEN @ ELSE "Done"],
     wait |-> 0]

\* handleCommandRun: the new state of the screen's run, and the channel to
\* wait on next (0: none).  The message is not checked against the channel.
handleCommandRun(f, msg) ==
    IF ~msg.done THEN [flow |-> f, wait |-> f.ch]
    ELSE [flow |-> [f EXCEPT !.failed = ~msg.ok,
                             !.complete = @ \/ msg.ok,
                             !.phase = IF msg.ok THEN @ ELSE "Done"],
          wait |-> 0]

\* A line of a run, given to the screen that is open.  Spoke nodes and
\* Certificate management take it only while running, and leave that phase
\* with the last one; Self-update notes the installed release.
handleRun(f, msg) ==
    LET taken == handleCommandRun(f, msg)
    IN  CASE f.kind \in {"menu", "quit"} -> [flow |-> f, wait |-> 0]
          [] f.kind \in {"nodes", "certificates"} ->
               IF f.phase # "Running" THEN [flow |-> f, wait |-> 0]
               ELSE [taken EXCEPT !.flow.phase = IF msg.done THEN "Done" ELSE @]
          [] f.kind = "selfupdate" -> [taken EXCEPT !.flow.tag = @ \/ msg.tag]
          [] OTHER -> taken

DropsSuspended(s) == {MainMenu}

\* resumeSuspendedFlow: the screen that handed over comes back as it was.
resumeSuspendedFlow(s) == {IF s = Nil THEN MainMenu ELSE s}

(* ------------------------------- the state ------------------------------ *)
NewRun(kind) ==
    [selfupdate |-> kind = "selfupdate", working |-> TRUE, ok |-> FALSE, tag |-> FALSE, sent |-> 0,
     chan |-> <<>>, waiters |-> 1]

ConsoleInit ==
    /\ flow = MainMenu
    /\ suspended = Nil
    /\ runs = <<>>
    /\ loads = EmptyBag
    /\ replaced = FALSE
    /\ late = FALSE

Room == Len(runs) + BagCardinality(loads) < MaxPending

\* The command a handler returned: a new goroutine, or a background read.
Issue(cmd, kind) ==
    CASE cmd.type = "run" ->
           /\ Room
           /\ runs' = Append(runs, NewRun(kind))
           /\ UNCHANGED loads
      [] cmd.type = "load" ->
           /\ Room
           /\ loads' = loads (+) SetToBag({cmd})
           /\ UNCHANGED runs
      [] OTHER -> UNCHANGED <<runs, loads>>

\* tea.Quit ends the process, and with it every goroutine.
Exit ==
    /\ flow' = QuitState
    /\ suspended' = Nil
    /\ runs' = <<>>
    /\ loads' = EmptyBag
    /\ replaced' = FALSE
    /\ late' = FALSE

\* activate: Enter on a menu item opens a fresh screen.
Activate ==
    /\ flow.kind = "menu"
    /\ \E able \in BOOLEAN, kind \in Screens :
         \E phase \in CASE kind = "install" -> {"Preflight"}
                        [] kind \in {"relay", "core"} -> {"Action"}
                        [] kind \in {"certificates", "nodes"} -> {"List"}
                        [] kind = "selfupdate" -> {"Checking"}
                        [] kind = "regenerate" -> {"Select"}
                        [] kind = "uninstall" -> {"Confirm"}
                        [] OTHER -> {"Action", "LoadErr"} :
           /\ flow' = Fresh(kind, phase, able)
           /\ Issue(IF kind = "selfupdate" THEN checkCmd ELSE NoCmd, kind)
    /\ UNCHANGED <<suspended, replaced, late>>

\* Model.Update for a key: the open screen handles it; a screen that needs a
\* certificate is kept aside, a screen that is done gives way to the menu or
\* to the screen that opened it.
Press ==
    \E k \in Keys : \E o \in handleKey(flow, k) :
      IF o.cmd = QuitCmd THEN Exit
      ELSE /\ o.flow.load <= MaxLoadID
           /\ Issue(o.cmd, flow.kind)
           /\ CASE o.flow.ask ->
                     /\ suspended' = [o.flow EXCEPT !.ask = FALSE]
                     /\ flow' \in newCertManagerForDomain
                [] ~o.flow.ask /\ o.done /\ flow.kind = "certificates" ->
                     /\ flow' \in resumeSuspendedFlow(suspended)
                     /\ suspended' = Nil
                [] ~o.flow.ask /\ o.done /\ flow.kind # "certificates" ->
                     /\ flow' = MainMenu
                     /\ UNCHANGED suspended
                [] OTHER ->
                     /\ flow' = o.flow
                     /\ UNCHANGED suspended
           /\ UNCHANGED <<replaced, late>>

\* Ctrl+C quits from every screen, and so does esc on the menu.
CtrlC == flow.kind # "quit" /\ Exit

\* The operator starts the program again.
Relaunch ==
    /\ flow.kind = "quit"
    /\ flow' = MainMenu
    /\ UNCHANGED <<suspended, runs, loads, replaced, late>>

\* A background read ends, well or not, and the open screen gets the answer.
Answer ==
    \E req \in BagToSet(loads), err \in BOOLEAN :
      LET msg == [what |-> req.what, id |-> req.id, node |-> req.node,
                  proto |-> req.proto, err |-> err]
      IN  /\ loads' = loads (-) SetToBag({req})
          /\ flow' \in handleLoad(flow, msg)
          /\ flow'.load <= MaxLoadID
          /\ late' = (late \/ (flow' # flow /\ ~WaitsFor(flow, req.what)))
          /\ UNCHANGED <<suspended, runs, replaced>>

\* The goroutine of run r reports progress; a full channel makes it wait.
PostEvent(r) ==
    /\ runs[r].working /\ runs[r].sent < MaxEvents
    /\ Len(runs[r].chan) < Cap
    /\ runs' = [runs EXCEPT
                  ![r].sent = @ + 1,
                  ![r].chan = Append(@, [done |-> FALSE, ok |-> FALSE,
                                         tag |-> FALSE])]
    /\ UNCHANGED <<flow, suspended, loads, replaced, late>>

\* A self-update commits the new binary before it reports.
Commit(r) ==
    /\ runs[r].working /\ runs[r].selfupdate /\ ~runs[r].tag
    /\ runs' = [runs EXCEPT ![r].tag = TRUE]
    /\ replaced' = TRUE
    /\ UNCHANGED <<flow, suspended, loads, late>>

\* The goroutine ends with its result; a self-update names its release when
\* it succeeded (it may have found nothing to do) or had committed.
Finish(r, ok) ==
    /\ runs[r].working /\ Len(runs[r].chan) < Cap
    /\ runs' = [runs EXCEPT
                  ![r].working = FALSE, ![r].ok = ok, ![r].sent = 0,
                  ![r].chan = Append(@, [done |-> TRUE, ok |-> ok,
                    tag |-> runs[r].selfupdate /\ (ok \/ runs[r].tag)])]
    /\ UNCHANGED <<flow, suspended, loads, replaced, late>>

\* A pending waitForRun takes a message of channel r to Model.Update; two
\* pending ones may deliver in either order.
Deliver(r) ==
    /\ runs[r].waiters > 0
    /\ \E i \in 1..Len(runs[r].chan) :
         /\ i <= runs[r].waiters
         /\ LET taken == handleRun(flow, runs[r].chan[i])
                rest == [runs EXCEPT
                           ![r].chan = SubSeq(@, 1, i - 1) \o
                                       SubSeq(@, i + 1, Len(@)),
                           ![r].waiters = @ - 1]
            IN  /\ flow' = taken.flow
                /\ runs' = IF taken.wait = 0 THEN rest
                           ELSE [rest EXCEPT ![taken.wait].waiters = @ + 1]
    /\ UNCHANGED <<suspended, loads, replaced, late>>

ConsoleNext ==
    \/ Activate
    \/ Press
    \/ CtrlC
    \/ Relaunch
    \/ Answer
    \/ \E r \in DOMAIN runs : PostEvent(r)
    \/ \E r \in DOMAIN runs : Commit(r)
    \/ \E r \in DOMAIN runs, ok \in BOOLEAN : Finish(r, ok)
    \/ \E r \in DOMAIN runs : Deliver(r)

ConsoleSpec == ConsoleInit /\ [][ConsoleNext]_consoleVars

\* A goroutine that can go on does, and so does a receive that has a message.
Fairness ==
    \A r \in 1..MaxPending :
      /\ WF_consoleVars(r \in DOMAIN runs /\ \E ok \in BOOLEAN : Finish(r, ok))
      /\ WF_consoleVars(r \in DOMAIN runs /\ Deliver(r))

FairSpec == ConsoleSpec /\ Fairness

(* ------------------------------ properties ------------------------------ *)
\* Types: every screen is in a phase of its own, a screen that shows a run
\* shows one of this session, a channel holds no more than its capacity, and
\* the menu keeps nothing of a screen.
ScreensTypeOK ==
    /\ flow.kind \in DOMAIN Phases
    /\ flow.phase \in Phases[flow.kind]
    /\ flow.ch \in 0..Len(runs)
    /\ flow.load \in 0..MaxLoadID
    /\ flow.node \in Nodes \cup {Nil} /\ flow.proto \in Protos \cup {Nil}
    /\ flow.kind = "menu" => flow = MainMenu
    /\ suspended # Nil => suspended.phase \in Phases[suspended.kind]
    /\ \A r \in DOMAIN runs :
         Len(runs[r].chan) <= Cap /\ runs[r].waiters \in Nat
    /\ replaced \in BOOLEAN /\ late \in BOOLEAN

\* A form that edits what a spoke holds shows the state of the spoke and the
\* protocol the operator chose: not the answer for an earlier choice that
\* arrived late, nor that of a screen closed meanwhile.
FormShowsChosenSpoke ==
    /\ flow.kind = "protocols" /\ flow.action = "editSpoke" /\ flow.node # Nil
         /\ flow.phase \in {"Form", "Confirm", "Running"}
       => flow.shown = <<flow.node, flow.proto>>
    /\ flow.kind = "monitor" /\ flow.action = "spokeUsage" /\ flow.node # Nil
         /\ flow.phase \in {"Form", "Confirm", "Running"}
       => flow.shown = <<flow.node, Nil>>

\* Unless an untagged answer came late, every goroutine still at work is the
\* one run of the open screen, which is in its running phase and reads its
\* channel: no second command beside it, no command nobody watches.
RunIsWatched ==
    late \/ \A r \in DOMAIN runs :
              runs[r].working =>
                /\ flow.ch = r /\ flow.phase = "Running" /\ ~flow.complete
                /\ runs[r].waiters > 0

\* Unless an untagged answer came late, a screen that says its command
\* completed, or failed, says so of a command that did.
CompletionIsTrue ==
    late \/ flow.ch = 0 \/
      /\ flow.complete => ~runs[flow.ch].working /\ runs[flow.ch].ok
      /\ flow.failed => ~runs[flow.ch].working /\ ~runs[flow.ch].ok

\* The screen that handed over to Certificate management is kept, as it was,
\* while that screen is open on its behalf, and is what follows it: it is
\* never lost, replaced or left behind (Model.Update, resumeSuspendedFlow).
SuspendedComesBack ==
    [][suspended # Nil =>
         /\ flow.kind = "certificates" /\ flow.redirected
         /\ \/ flow'.kind = "certificates" /\ suspended' = suspended
            \/ flow' = suspended /\ suspended' = Nil
            \/ flow'.kind = "quit"]_consoleVars

\* Unless an untagged answer came late, a process whose binary a self-update
\* replaced shows the self-update screen until it ends: it never returns to
\* the menu with the previous agent and version in memory.
NoMenuAfterReplacement ==
    replaced /\ ~late => flow.kind \in {"selfupdate", "quit"}

\* A command that runs is reported: its screen comes to say that it
\* completed or failed, unless the operator quits (or an answer came late).
RunEndsOnScreen ==
    \A r \in 1..MaxPending :
      (r \in DOMAIN runs /\ runs[r].working)
        ~> \/ flow.ch = r /\ (flow.complete \/ flow.failed)
           \/ late \/ flow.kind = "quit"

\* Cancelling Certificate management gives the suspended screen back: esc in
\* a form opened on its behalf returns to it.  Not checked in a run: TLC
\* refutes it, because the handlers drop the answer of their cancel callback.
CancelReturns ==
    suspended # Nil /\ flow.phase \in {"HostForm", "ZoneForm", "ZonePick"}
      => \E o \in handleKey(flow, "esc") : o.done

\* The two properties above without their exception for late answers.  Not
\* checked in a run: TLC refutes it.
RunIsAlwaysWatched ==
    \A r \in DOMAIN runs :
      runs[r].working => flow.ch = r /\ flow.phase = "Running"

=============================================================================
