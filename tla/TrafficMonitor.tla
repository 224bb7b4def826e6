--------------------------- MODULE TrafficMonitor ---------------------------
(***************************************************************************)
(* The traffic monitor of one host: the sampling loop, the SQLite store,   *)
(* the quota that stops and restarts sing-box, the operator's adjustments  *)
(* and packages, the per-address accounting, and the two ways the monitor  *)
(* is run, as the hub's systemd service or inside the spoke's agent under  *)
(* its supervisor.                                                         *)
(*                                                                         *)
(* Time is counted in ticks; an hour has TicksPerHour of them, a day       *)
(* HoursPerDay hours, and month m has MonthDays[m] days.  Bytes are small  *)
(* numbers; MaxInt and MaxUint stand for the limits of int64 and uint64.   *)
(***************************************************************************)
EXTENDS Integers, Sequences, FiniteSets, Functions

CONSTANTS
    MonthDays,         \* the days of each month of the calendar
    HoursPerDay, TicksPerHour,
    ResetDay, ResetHour,   \* the configured quota boundary
    LastTick,          \* the end of the stretch of time explored
    RawRetention,      \* ticks after which raw rows are folded (two hours)
    DayRetention,      \* ticks after which hourly address rows become days
    HistoryRetention,  \* ticks after which history is deleted (90 days)
    LimitChoices,      \* the limit records an operator may configure
    Grants,            \* the package sizes an operator may grant
    MaxInt,            \* the largest int64
    Addresses,         \* the client addresses the accounting table tells apart
    KeptAddresses,     \* how many of them a prune keeps (500)
    Machines           \* the hosts to explore, with the bounds of each:
                       \* [host, nft, clients, limits, start, last, in, out,
                       \* faults, edits]

Directions == {"in", "out"}
MaxUint == 2 * MaxInt + 1
NoLimits == [in |-> 0, out |-> 0, total |-> 0]
NoBytes == [d \in Directions |-> 0]

ASSUME CalendarAssumption ==
    /\ MonthDays \in Seq(Nat) /\ MonthDays # <<>> /\ ResetDay \in Nat
    /\ \A m \in 1..Len(MonthDays) : ResetDay \in 1..MonthDays[m]
    /\ ResetHour \in 0..(HoursPerDay - 1)
    /\ HoursPerDay \in Nat \ {0} /\ TicksPerHour \in Nat \ {0}
ASSUME LimitAssumption ==
    /\ MaxInt \in Nat
    /\ LimitChoices \subseteq [{"in", "out", "total"} -> 0..MaxUint]
    /\ Grants \subseteq [{"in", "out", "total"} -> 0..MaxUint]
ASSUME AddressAssumption == KeptAddresses \in Nat
ASSUME ClockAssumption ==
    /\ \A m \in Machines : m.start \in Nat /\ m.last \in Nat
    /\ RawRetention \in Nat /\ DayRetention \in Nat /\ HistoryRetention \in Nat

(***************************************************************************)
(* The calendar.  AddMonths normalises an impossible date the way Go's     *)
(* AddDate does: the days past the end of a month fall into the next one.  *)
(***************************************************************************)
DayTicks == HoursPerDay * TicksPerHour
MonthStart[m \in 1..(Len(MonthDays) + 1)] ==
    IF m = 1 THEN 0 ELSE MonthStart[m - 1] + MonthDays[m - 1] * DayTicks
MonthOf(t) == CHOOSE m \in 1..Len(MonthDays) :
                  MonthStart[m] <= t /\ t < MonthStart[m + 1]
Date(m, d, h) == MonthStart[m] + (d - 1) * DayTicks + h * TicksPerHour
AddMonths(t, n) == MonthStart[MonthOf(t) + n] + (t - MonthStart[MonthOf(t)])

clampDay(m, day) == IF day > MonthDays[m] THEN MonthDays[m] ELSE day

CycleStart(t) ==
    LET m == MonthOf(t)
        candidate == Date(m, clampDay(m, ResetDay), ResetHour)
        p == MonthOf(AddMonths(t, -1))
    IN  IF candidate <= t THEN candidate ELSE Date(p, clampDay(p, ResetDay), ResetHour)

NextCycleReset(t) ==
    LET m == MonthOf(AddMonths(CycleStart(t), 1))
    IN  Date(m, clampDay(m, ResetDay), ResetHour)

\* Every configured boundary of the calendar, the reference for CycleStart.
Boundaries == {Date(m, ResetDay, ResetHour) : m \in 1..Len(MonthDays)}

\* The stretch of time explored has a cycle before it and a reset after it,
\* and history outlives every cycle (90 days against a month).
ASSUME StretchAssumption ==
    /\ LastTick \in Nat
    /\ \A m \in Machines :
          /\ Date(1, ResetDay, ResetHour) <= m.start /\ m.start <= m.last
          /\ m.last <= LastTick /\ m.last < Date(Len(MonthDays), ResetDay, ResetHour)
    /\ \A m \in 1..Len(MonthDays) : MonthDays[m] * DayTicks <= HistoryRetention

HourRoundedUp(t) == ((t + TicksPerHour - 1) \div TicksPerHour) * TicksPerHour
HourOf(t) == (t \div TicksPerHour) * TicksPerHour
DayOf(t) == (t \div DayTicks) * DayTicks

VARIABLES
    machine,       \* which of Machines this is
    now,           \* the clock
    counters,      \* the interface's byte counters since boot
    carried,       \* ghost: the bytes carried since the start
    sent,          \* ghost: the same by client address
    samples,       \* raw rows: tick -> [c : counters, d : deltas]
    hourly,        \* folded rows: hour -> deltas
    adjustments,   \* signed corrections: tick -> deltas
    packages,      \* signed package rows: tick -> [in, out, total]
    stopped,       \* the durable marker "stopped_by_quota"
    granted,       \* ghost: cycle -> the package the operators meant it to have
    settings,      \* [monitor, limits]: the durable configuration
    mon,           \* the running monitor
    orphan,        \* a step of a retired sampler that has not ended yet
    sup,           \* the supervisor or the hub's settings flow
    retry,         \* the supervisor's retry timer is armed
    up, downBy,    \* sing-box, and ghost: who took it down
    lateStop,      \* ghost: a retired sampler stopped sing-box
    seen,          \* the cycle an operator read before typing an adjustment
    nft,           \* the accounting table: NoTable when absent, else its counters
    ip,            \* address -> its history: [raw, hour, day : tick -> bytes]
    ipCycle,       \* the cycle the history belongs to, 0 when none recorded
    left           \* what remains of its bounds: [in, out, faults, edits]

host == machine.host
store == <<samples, hourly, adjustments, packages, stopped>>
service == <<up, downBy, lateStop>>
kernel == <<counters, carried, sent, nft>>
control == <<settings, sup, retry, orphan>>
address == <<ip, ipCycle>>
vars == <<machine, now, counters, carried, sent, samples, hourly, adjustments, packages,
          stopped, granted, settings, mon, orphan, sup, retry, up, downBy,
          lateStop, seen, nft, ip, ipCycle, left>>

Empty == [t \in {} |-> 0]
NoHistory == [raw |-> Empty, hour |-> Empty, day |-> Empty]
NoCount == [a \in Addresses |-> 0]
NoTable == [a \in Addresses |-> -1]
Installed == nft # NoTable
SumOver(f, S) == FoldFunctionOnSet(+, 0, f, DOMAIN f \cap S)
Since(t) == t..LastTick
Column(f, k) == [t \in DOMAIN f |-> f[t][k]]
Put(f, t, row) == [u \in DOMAIN f \cup {t} |-> IF u = t THEN row ELSE f[u]]
Plus(f, t, row) ==
    Put(f, t, IF t \in DOMAIN f THEN [k \in DOMAIN row |-> f[t][k] + row[k]] ELSE row)
NonNegative(n) == IF n <= 0 THEN 0 ELSE n

(***************************************************************************)
(* What the store reports of a cycle.                                      *)
(***************************************************************************)
TotalsSince(since) ==
    [d \in Directions |->
        NonNegative(SumOver([t \in DOMAIN samples |-> samples[t].d[d]], Since(since))
                    + SumOver(Column(hourly, d), Since(since))
                    + SumOver(Column(adjustments, d), Since(since)))]

PackageSince(since) ==
    [k \in {"in", "out", "total"} |-> NonNegative(SumOver(Column(packages, k), Since(since)))]

ExtendLimitBare(limit, extra) == limit + extra
extendLimit(limit, extra) ==
    IF limit = 0 THEN 0 ELSE IF extra > MaxUint - limit THEN MaxUint ELSE limit + extra
WithPackage(limits, pkg) == [k \in DOMAIN limits |-> extendLimit(limits[k], pkg[k])]
limitExceeded(limit, used) == limit > 0 /\ used >= limit
UsedOf(totals) == [in |-> totals["in"], out |-> totals["out"],
                   total |-> totals["in"] + totals["out"]]
Exceeded(limits, totals) ==
    LET used == UsedOf(totals)
    IN  \E k \in DOMAIN limits : limitExceeded(limits[k], used[k])
Remaining(limit, used) == IF limit = 0 \/ used >= limit THEN 0 ELSE limit - used
saturatingAdd(a, b) == IF b > MaxUint - a THEN MaxUint ELSE a + b

Effective(limits) == WithPackage(limits, PackageSince(CycleStart(now)))
OverQuota(limits) == Exceeded(Effective(limits), TotalsSince(CycleStart(now)))

\* What /api/summary reports for each limit: the extended limit and what is left.
Summary(limits) ==
    LET effective == Effective(limits)
        used == UsedOf(TotalsSince(CycleStart(now)))
    IN  [k \in DOMAIN limits |-> [limit |-> effective[k], left |-> Remaining(effective[k], used[k])]]

Delta(previous, current) == IF current < previous THEN 0 ELSE current - previous
counterDelta(previous, current) == IF current >= previous THEN current - previous ELSE current

(***************************************************************************)
(* Starting a monitor.  New restores the ownership marker when it can be   *)
(* read, Run the last counters of the raw table, so that what passed while *)
(* the monitor was down is counted once.  A marker that cannot be read is  *)
(* logged and taken for unset; the ghost mon.blind says so.                *)
(***************************************************************************)
Off == [pc |-> "off", limits |-> NoLimits, prev |-> NoBytes, havePrev |-> FALSE,
        stopped |-> FALSE, next |-> "idle", loaded |-> FALSE, ipPrev |-> NoCount,
        blind |-> FALSE]

LatestCounters ==
    LET last == CHOOSE t \in DOMAIN samples : \A u \in DOMAIN samples : u <= t
    IN  IF DOMAIN samples = {} THEN [ok |-> FALSE, c |-> NoBytes]
                               ELSE [ok |-> TRUE, c |-> samples[last].c]

Restored(marker, blind) ==
    [Off EXCEPT !.pc = "idle", !.limits = settings.limits, !.stopped = marker,
                !.havePrev = LatestCounters.ok, !.prev = LatestCounters.c, !.blind = blind]
NewForgetting(read) == Restored(FALSE, ~read)
New(read) == Restored(read /\ stopped, ~read)

Init ==
    /\ machine \in Machines
    /\ now = machine.start
    /\ counters = NoBytes /\ carried = NoBytes /\ sent = NoCount
    /\ samples = Empty /\ hourly = Empty /\ adjustments = Empty /\ packages = Empty
    /\ stopped = FALSE
    /\ granted = [c \in Boundaries |-> NoLimits]
    /\ settings = [monitor |-> TRUE, limits |-> machine.limits]
    /\ mon = Off /\ orphan = "none" /\ sup = "idle" /\ retry = (host = "agent")
    /\ up = TRUE /\ downBy = "nobody" /\ lateStop = FALSE
    /\ seen = 0
    /\ nft = NoTable /\ ip = [a \in Addresses |-> NoHistory] /\ ipCycle = 0
    /\ left = [in |-> machine.in, out |-> machine.out, faults |-> machine.faults,
               edits |-> machine.edits]

Spend(kind) == left[kind] > 0 /\ left' = [left EXCEPT ![kind] = @ - 1]
Fault == Spend("faults")
Edit == Spend("edits")

-----------------------------------------------------------------------------
(***************************************************************************)
(* The world: time, traffic, a reboot, an operator at systemctl.           *)
(***************************************************************************)
\* A sampling round reads the clock once and uses that reading to its end.
Tick == /\ now < machine.last
        /\ mon.pc \in {"off", "idle"}
        /\ now' = now + 1
        /\ UNCHANGED <<machine, kernel, store, granted, control, mon, service, seen,
                       address, left>>

Carry(d, a) ==
    /\ Spend(d)
    /\ a \in machine.clients
    /\ counters' = [counters EXCEPT ![d] = @ + 1]
    /\ carried' = [carried EXCEPT ![d] = @ + 1]
    /\ sent' = [sent EXCEPT ![a] = @ + 1]
    /\ nft' = IF Installed THEN [nft EXCEPT ![a] = @ + 1] ELSE nft
    /\ UNCHANGED <<machine, now, store, granted, control, mon, service, seen, address>>

\* The counters and the accounting table are the kernel's; sing-box is an
\* enabled unit, so a boot starts it whatever the quota said.
Reboot ==
    /\ Fault
    /\ counters' = NoBytes /\ nft' = NoTable
    /\ mon' = Off /\ orphan' = "none" /\ sup' = "idle" /\ retry' = (host = "agent")
    /\ up' = TRUE /\ downBy' = "nobody"
    /\ UNCHANGED <<machine, now, carried, sent, store, granted, settings, lateStop, seen,
                   address>>

\* The monitor's process dies; the agent's death takes the supervisor along.
Crash ==
    /\ Fault
    /\ mon.pc # "off"
    /\ mon' = Off /\ orphan' = "none"
    /\ IF host = "agent" THEN sup' = "idle" /\ retry' = TRUE
                         ELSE UNCHANGED <<sup, retry>>
    /\ UNCHANGED <<machine, now, kernel, store, granted, settings, service, seen,
                   address>>

\* Another part of the program, or a person, stops or starts sing-box.
OperatorStops ==
    /\ Edit
    /\ up
    /\ up' = FALSE /\ downBy' = "operator"
    /\ UNCHANGED <<machine, now, kernel, store, granted, control, mon, lateStop, seen,
                   address>>

OperatorStarts ==
    /\ Edit
    /\ ~up
    /\ up' = TRUE /\ downBy' = "nobody"
    /\ UNCHANGED <<machine, now, kernel, store, granted, control, mon, lateStop, seen,
                   address>>

\* A firewall reload flushes the accounting table under the monitor.
FlushTable ==
    /\ Fault
    /\ Installed
    /\ nft' = NoTable
    /\ UNCHANGED <<machine, now, counters, carried, sent, store, granted, control, mon,
                   service, seen, address>>

-----------------------------------------------------------------------------
(***************************************************************************)
(* The sampling loop.  From the read of the counters to the end of the     *)
(* quota decision the monitor holds trafficMu: mon.pc is then not "idle".  *)
(***************************************************************************)
SampleDeltaFromZero(cur) == [d \in Directions |-> Delta(mon.prev[d], cur[d])]
SampleDelta(cur) == [d \in Directions |-> IF mon.havePrev THEN Delta(mon.prev[d], cur[d]) ELSE 0]

sampleOnce ==
    /\ mon.pc = "idle"
    /\ samples' = LET row == SampleDelta(counters)
                      old == IF now \in DOMAIN samples THEN samples[now].d ELSE NoBytes
                  IN  Put(samples, now, [c |-> counters,
                                         d |-> [d \in Directions |-> old[d] + row[d]]])
    /\ mon' = [mon EXCEPT !.prev = counters, !.havePrev = TRUE, !.pc = "decide",
                          !.next = "address"]
    /\ UNCHANGED <<machine, now, kernel, hourly, adjustments, packages, stopped, granted,
                   control, service, seen, address, left>>

\* The counters were read and the row was not written: its delta is lost.
InsertSampleFails ==
    /\ Fault
    /\ mon.pc = "idle"
    /\ mon' = [mon EXCEPT !.prev = counters, !.havePrev = TRUE, !.pc = "address"]
    /\ UNCHANGED <<machine, now, kernel, store, granted, control, service, seen, address>>

Goto(pc) == mon' = [mon EXCEPT !.pc = pc]

reconcileUnpersisted ==
    /\ mon.pc = "decide"
    /\ LET over == mon.limits # NoLimits /\ OverQuota(mon.limits)
       IN  Goto(IF over /\ up THEN "stop"
                ELSE IF ~over /\ mon.stopped THEN "start" ELSE mon.next)
    /\ UNCHANGED <<machine, now, kernel, store, granted, control, service, seen, address,
                   left>>
\* reconcileQuota's decision, from the limits the monitor was started with.
reconcileQuota ==
    /\ mon.pc = "decide"
    /\ LET over == mon.limits # NoLimits /\ OverQuota(mon.limits)
       IN  Goto(IF over /\ up THEN "persist"
                ELSE IF ~over /\ mon.stopped THEN "start" ELSE mon.next)
    /\ UNCHANGED <<machine, now, kernel, store, granted, control, service, seen, address,
                   left>>

\* Ownership of the stop is persisted before sing-box is stopped.
PersistStop ==
    /\ mon.pc = "persist"
    /\ stopped' = TRUE
    /\ mon' = [mon EXCEPT !.stopped = TRUE, !.pc = "stop"]
    /\ UNCHANGED <<machine, now, kernel, samples, hourly, adjustments, packages, granted,
                   control, service, seen, address, left>>

StopSingBox ==
    /\ mon.pc = "stop"
    /\ up' = FALSE /\ downBy' = (IF up THEN "quota" ELSE downBy)
    /\ Goto(mon.next)
    /\ UNCHANGED <<machine, now, kernel, store, granted, control, lateStop, seen, address,
                   left>>

StartSingBox ==
    /\ mon.pc = "start"
    /\ up' = TRUE /\ downBy' = "nobody"
    /\ Goto("clear")
    /\ UNCHANGED <<machine, now, kernel, store, granted, control, lateStop, seen, address,
                   left>>

ClearStop ==
    /\ mon.pc = "clear"
    /\ stopped' = FALSE
    /\ mon' = [mon EXCEPT !.stopped = FALSE, !.pc = mon.next]
    /\ UNCHANGED <<machine, now, kernel, samples, hourly, adjustments, packages, granted,
                   control, service, seen, address, left>>

\* A step of the decision fails: it is logged, and the next sample decides again.
ReconcileFails ==
    /\ Fault
    /\ mon.pc \in {"decide", "persist", "stop", "start", "clear"}
    /\ Goto(mon.next)
    /\ UNCHANGED <<machine, now, kernel, store, granted, control, service, seen, address>>

\* maintenance: fold the old raw rows into hours, the old hours of the
\* per-address history into days, and delete what is past its retention.
Folded(f, g, before, floor(_)) ==
    LET old == {t \in DOMAIN f : t < before}
        bins == {floor(t) : t \in old}
    IN  [raw |-> [t \in DOMAIN f \ old |-> f[t]],
         into |-> [b \in DOMAIN g \cup bins |->
                      (IF b \in DOMAIN g THEN g[b] ELSE 0)
                      + SumOver(f, {t \in old : floor(t) = b})]]

AggregateHourly ==
    LET part(d) == Folded([t \in DOMAIN samples |-> samples[t].d[d]], Column(hourly, d),
                          now - RawRetention, HourOf)
        kept == {t \in DOMAIN samples : t >= now - RawRetention}
    IN  /\ samples' = [t \in kept |-> samples[t]]
        /\ hourly' = [h \in {g \in DOMAIN part("in").into : g >= now - HistoryRetention} |->
                         [d \in Directions |-> part(d).into[h]]]

FoldedIP(h) ==
    LET hours == Folded(h.raw, h.hour, now - RawRetention, HourOf)
        days == Folded(hours.into, h.day, DayOf(now) - DayRetention, DayOf)
    IN  [raw |-> hours.raw, hour |-> days.raw, day |-> days.into]
AggregateIP == [a \in Addresses |-> FoldedIP(ip[a])]

\* PruneIPTraffic keeps the busiest addresses, weighed over all three tables,
\* and deletes every row of the others.  Which of two equals is kept is the
\* database's choice; its three statements make the same one.
BytesOf(h) == SumOver(h.raw, Nat) + SumOver(h.hour, Nat) + SumOver(h.day, Nat)
Busiest(bytes) ==
    {K \in SUBSET Addresses :
        /\ Cardinality(K) <= KeptAddresses
        /\ K # Addresses => Cardinality(K) = KeptAddresses
        /\ \A a \in K, b \in Addresses \ K : bytes[a] >= bytes[b]}
SurvivorsByRaw(history) == Busiest([a \in Addresses |-> SumOver(history[a].raw, Nat)])
Survivors(history) == Busiest([a \in Addresses |-> BytesOf(history[a])])
PruneIPTraffic(history) ==
    \E K \in Survivors(history) :
        ip' = [a \in Addresses |-> IF a \in K THEN history[a] ELSE NoHistory]

maintenance ==
    /\ mon.pc = "idle"
    /\ AggregateHourly
    /\ PruneIPTraffic(AggregateIP)
    /\ adjustments' = [t \in DOMAIN adjustments \cap Since(now - HistoryRetention) |->
                          adjustments[t]]
    /\ packages' = [t \in DOMAIN packages \cap Since(now - HistoryRetention) |-> packages[t]]
    /\ UNCHANGED <<machine, now, kernel, stopped, granted, control, mon, service, seen,
                   ipCycle, left>>

-----------------------------------------------------------------------------
(***************************************************************************)
(* Per-address accounting, the second half of a sampling round.            *)
(***************************************************************************)
\* The history of the running cycle: cleared when the cycle has rolled.
ResetIPTrafficForCycle ==
    IF ipCycle \notin {0, CycleStart(now)} THEN [a \in Addresses |-> NoHistory] ELSE ip

AddBytes(h, n) ==
    IF n = 0 THEN h
    ELSE [h EXCEPT !.raw = Put(h.raw, now, n + (IF now \in DOMAIN h.raw THEN h.raw[now] ELSE 0))]

\* The table is installed when it is not loaded, and the growth of each counter
\* recorded.  A fresh table counts from zero, so no earlier reading is
\* subtracted from it.
ipSampleOnce ==
    /\ mon.pc = "address" /\ machine.nft
    /\ mon.loaded => Installed
    /\ LET kept == ResetIPTrafficForCycle
           present == IF mon.loaded THEN nft ELSE NoCount
           previous == IF mon.loaded THEN mon.ipPrev ELSE NoCount
       IN  /\ nft' = present
           /\ ip' = [a \in Addresses |-> AddBytes(kept[a], counterDelta(previous[a], present[a]))]
           /\ mon' = [mon EXCEPT !.pc = "idle", !.loaded = TRUE, !.ipPrev = present]
    /\ ipCycle' = CycleStart(now)
    /\ UNCHANGED <<machine, now, counters, carried, sent, store, granted, control, service,
                   seen, left>>

\* A host without the nft utility keeps no per-address history.
AccountingDisabled ==
    /\ mon.pc = "address" /\ ~machine.nft
    /\ Goto("idle")
    /\ UNCHANGED <<machine, now, kernel, store, granted, control, service, seen, address,
                   left>>

\* The table is gone: the round reports nothing and the next one rebuilds it.
CollectFails ==
    /\ mon.pc = "address"
    /\ mon.loaded /\ ~Installed
    /\ ip' = ResetIPTrafficForCycle
    /\ ipCycle' = CycleStart(now)
    /\ mon' = [mon EXCEPT !.pc = "idle", !.loaded = FALSE, !.ipPrev = NoCount]
    /\ UNCHANGED <<machine, now, kernel, store, granted, control, service, seen, left>>

\* The readings moved on and the rows were not written.
AddIPTrafficFails ==
    /\ Fault
    /\ mon.pc = "address"
    /\ mon.loaded /\ Installed
    /\ mon' = [mon EXCEPT !.pc = "idle", !.ipPrev = nft]
    /\ ip' = ResetIPTrafficForCycle
    /\ ipCycle' = CycleStart(now)
    /\ UNCHANGED <<machine, now, kernel, store, granted, control, service, seen>>

\* An operator clears the per-address history from another process.
ResetHistory ==
    /\ Edit
    /\ \E a \in Addresses : ip[a] # NoHistory
    /\ ip' = [a \in Addresses |-> NoHistory]
    /\ UNCHANGED <<machine, now, kernel, store, granted, control, mon, service, seen,
                   ipCycle>>

-----------------------------------------------------------------------------
(***************************************************************************)
(* Adjustments.  On a spoke an operator reads the current cycle through    *)
(* the agent, types new numbers, and sends them with the cycle they were   *)
(* read in.  On the hub the terminal writes to the store beside the        *)
(* running monitor, for whatever cycle it is when it writes.               *)
(***************************************************************************)
ReadUsage ==
    /\ host = "agent" /\ seen = 0
    /\ mon.pc # "off" \/ ~settings.monitor
    /\ left.edits > 0
    /\ seen' = CycleStart(now)
    /\ UNCHANGED <<machine, now, kernel, store, granted, control, mon, service, address,
                   left>>

\* Replacing the totals by zero, the correction that makes rows negative.
ReplaceTotals ==
    adjustments' = Plus(adjustments, now,
                        [d \in Directions |-> 0 - TotalsSince(CycleStart(now))[d]])

InRange(target) == \A k \in DOMAIN target : target[k] <= MaxInt
adjustPackage(target) ==
    packages' = Plus(packages, now,
                     [k \in DOMAIN target |-> target[k] - PackageSince(CycleStart(now))[k]])

ReplaceCurrentTrafficUsage(cycle) ==
    /\ CycleStart(now) = cycle
    /\ ReplaceTotals
    /\ adjustPackage(NoLimits)
    /\ granted' = [granted EXCEPT ![cycle] = NoLimits]

Topped(pkg) == [k \in DOMAIN pkg |-> saturatingAdd(PackageSince(CycleStart(now))[k], pkg[k])]

GrantWhateverCycle(cycle, pkg) ==
    /\ InRange(Topped(pkg))
    /\ adjustPackage(Topped(pkg))
    /\ granted' = [granted EXCEPT ![cycle] = Topped(pkg)]
GrantCurrentTrafficPackage(cycle, pkg) ==
    /\ CycleStart(now) = cycle
    /\ InRange(Topped(pkg))
    /\ adjustPackage(Topped(pkg))
    /\ granted' = [granted EXCEPT ![cycle] = Topped(pkg)]

\* The agent's answer to an adjustment: applied and reconciled under trafficMu.
SetCurrentTrafficUsage ==
    /\ Edit
    /\ seen # 0 /\ mon.pc = "idle"
    /\ seen' = 0
    /\ ReplaceCurrentTrafficUsage(seen)
    /\ mon' = [mon EXCEPT !.pc = "decide", !.next = "idle"]
    /\ UNCHANGED <<machine, now, kernel, samples, hourly, stopped, control, service, address>>

GrantTrafficPackage(pkg) ==
    /\ Edit
    /\ seen # 0 /\ mon.pc = "idle"
    /\ seen' = 0
    /\ GrantCurrentTrafficPackage(seen, pkg)
    /\ mon' = [mon EXCEPT !.pc = "decide", !.next = "idle"]
    /\ UNCHANGED <<machine, now, kernel, samples, hourly, adjustments, stopped, control,
                   service, address>>

\* With the monitor disabled the agent opens the store itself; there is no
\* quota to reconcile.
withStoredTrafficUsage ==
    /\ Edit
    /\ seen # 0 /\ ~settings.monitor /\ sup = "idle"
    /\ seen' = 0
    /\ \/ ReplaceCurrentTrafficUsage(seen)
       \/ /\ \E pkg \in Grants : GrantCurrentTrafficPackage(seen, pkg)
          /\ UNCHANGED adjustments
    /\ UNCHANGED <<machine, now, kernel, samples, hourly, stopped, control, mon, service,
                   address>>

\* The totals are replaced in one transaction, the package in another; when
\* the second fails the request fails and nothing is reconciled.
SetUsageHalfway ==
    /\ left.edits > 0 /\ left.faults > 0
    /\ left' = [left EXCEPT !.edits = @ - 1, !.faults = @ - 1]
    /\ seen # 0 /\ mon.pc = "idle" /\ CycleStart(now) = seen
    /\ seen' = 0
    /\ ReplaceTotals
    /\ UNCHANGED <<machine, now, kernel, samples, hourly, packages, stopped, granted, control,
                   mon, service, address>>

\* The cycle rolled between the read and the write: the request is refused.
TrafficCycleChanged ==
    /\ seen # 0 /\ CycleStart(now) # seen
    /\ seen' = 0
    /\ UNCHANGED <<machine, now, kernel, store, granted, control, mon, service, address,
                   left>>

setManageCurrentTrafficTotals ==
    /\ Edit
    /\ host = "hub"
    /\ ReplaceCurrentTrafficUsage(CycleStart(now))
    /\ UNCHANGED <<machine, now, kernel, samples, hourly, stopped, control, mon, service,
                   seen, address>>

AddTrafficPackage(pkg) ==
    /\ Edit
    /\ host = "hub"
    /\ GrantCurrentTrafficPackage(CycleStart(now), pkg)
    /\ UNCHANGED <<machine, now, kernel, samples, hourly, adjustments, stopped, control, mon,
                   service, seen, address>>

-----------------------------------------------------------------------------
(***************************************************************************)
(* The agent's supervisor: reload stops the running monitor, waits for Run *)
(* to return, and starts a new one or releases the quota's stop.  Run does *)
(* not wait for its sampling goroutine, so a step it was in the middle of  *)
(* may still be taken afterwards, with the store already closed.           *)
(***************************************************************************)
stopRunning ==
    /\ mon' = Off
    /\ orphan' = IF orphan = "none" /\ mon.pc \in {"stop", "start"} THEN mon.pc ELSE orphan
    /\ nft' = IF mon.loaded THEN NoTable ELSE nft

applySpokeMonitor(new) ==
    /\ Edit
    /\ host = "agent" /\ sup = "idle" /\ new # settings
    /\ settings' = new
    /\ sup' = "reload"
    /\ UNCHANGED <<machine, now, kernel, store, granted, mon, orphan, retry, service, seen,
                   address>>

RetryFires ==
    /\ retry /\ sup = "idle"
    /\ sup' = "reload" /\ retry' = FALSE
    /\ UNCHANGED <<machine, now, kernel, store, granted, settings, mon, orphan, service, seen,
                   address, left>>

reload ==
    /\ sup = "reload"
    /\ stopRunning
    /\ retry' = FALSE
    /\ sup' = IF settings.monitor THEN "boot" ELSE "release"
    /\ UNCHANGED <<machine, now, counters, carried, sent, store, granted, settings, service, seen,
                   address, left>>

StartMonitor ==
    /\ sup = "boot"
    /\ mon' = New(TRUE)
    /\ sup' = "idle"
    /\ UNCHANGED <<machine, now, kernel, store, granted, settings, orphan, retry, service,
                   seen, address, left>>

\* The configuration or the store cannot be opened: the supervisor arms its
\* timer.  A retried release arrives here too.
StartMonitorFails ==
    /\ Fault
    /\ host = "agent" /\ sup = "boot"
    /\ sup' = "idle" /\ retry' = TRUE
    /\ UNCHANGED <<machine, now, kernel, store, granted, settings, mon, orphan, service, seen,
                   address>>

OrphanStops ==
    /\ orphan = "stop"
    /\ orphan' = "none"
    /\ up' = FALSE
    /\ downBy' = IF up THEN "quota" ELSE downBy
    /\ lateStop' = (lateStop \/ up)
    /\ UNCHANGED <<machine, now, kernel, store, granted, settings, mon, sup, retry, seen,
                   address, left>>

OrphanStarts ==
    /\ orphan = "start"
    /\ orphan' = "none"
    /\ up' = TRUE /\ downBy' = "nobody"
    /\ UNCHANGED <<machine, now, kernel, store, granted, settings, mon, sup, retry, lateStop,
                   seen, address, left>>

-----------------------------------------------------------------------------
(***************************************************************************)
(* The hub's service: systemd ends the whole process before it starts the  *)
(* next, and disabling or stopping it releases the quota's stop.           *)
(***************************************************************************)
applyManageMonitorService(limits) ==
    /\ Edit
    /\ host = "hub" /\ sup = "idle" /\ limits # settings.limits
    /\ settings' = [monitor |-> TRUE, limits |-> limits]
    /\ mon' = Off
    /\ nft' = IF mon.loaded THEN NoTable ELSE nft
    /\ sup' = "boot"
    /\ UNCHANGED <<machine, now, counters, carried, sent, store, granted, orphan, retry, service,
                   seen, address>>

runMonitorServiceAction ==
    /\ Edit
    /\ host = "hub" /\ sup = "idle" /\ settings.monitor
    /\ settings' = [settings EXCEPT !.monitor = FALSE]
    /\ mon' = Off
    /\ nft' = IF mon.loaded THEN NoTable ELSE nft
    /\ sup' = "release"
    /\ UNCHANGED <<machine, now, counters, carried, sent, store, granted, orphan, retry, service,
                   seen, address>>

\* Restart=on-failure, or the operator's start.
SystemdStarts ==
    /\ host = "hub" /\ sup = "idle" /\ settings.monitor /\ mon.pc = "off"
    /\ mon' = New(TRUE)
    /\ UNCHANGED <<machine, now, kernel, store, granted, control, service, seen, address,
                   left>>

\* Either start, with a marker that could not be read.
StartsBlind ==
    /\ Fault
    /\ \/ sup = "boot"
       \/ host = "hub" /\ sup = "idle" /\ settings.monitor /\ mon.pc = "off"
    /\ mon' = New(FALSE)
    /\ sup' = "idle"
    /\ UNCHANGED <<machine, now, kernel, store, granted, settings, orphan, retry, service,
                   seen, address>>

\* The marker is cleared only after sing-box was started.
ReleaseQuotaStop ==
    /\ sup = "release"
    /\ IF stopped THEN up' = TRUE /\ downBy' = "nobody" /\ sup' = "clear"
                  ELSE sup' = "idle" /\ UNCHANGED <<up, downBy>>
    /\ UNCHANGED <<machine, now, kernel, store, granted, settings, mon, orphan, retry,
                   lateStop, seen, address, left>>

ReleaseClears ==
    /\ sup = "clear"
    /\ stopped' = FALSE
    /\ sup' = "idle"
    /\ UNCHANGED <<machine, now, kernel, samples, hourly, adjustments, packages, granted,
                   settings, mon, orphan, retry, service, seen, address, left>>

\* The agent retries by its timer; the hub restores the monitor it disabled.
ReleaseFails ==
    /\ Fault
    /\ sup \in {"release", "clear"} /\ stopped
    /\ sup' = "idle"
    /\ retry' = (host = "agent")
    /\ settings' = [settings EXCEPT !.monitor = (host = "hub")]
    /\ UNCHANGED <<machine, now, kernel, store, granted, mon, orphan, service, seen, address>>

-----------------------------------------------------------------------------
Adjusting ==
    \/ ReadUsage \/ SetCurrentTrafficUsage \/ SetUsageHalfway \/ TrafficCycleChanged
    \/ withStoredTrafficUsage
    \/ setManageCurrentTrafficTotals
    \/ \E pkg \in Grants : GrantTrafficPackage(pkg) \/ AddTrafficPackage(pkg)

Sampling ==
    \/ sampleOnce \/ reconcileQuota \/ PersistStop \/ StopSingBox \/ StartSingBox
    \/ ClearStop \/ ipSampleOnce \/ CollectFails \/ AccountingDisabled

Supervising ==
    \/ RetryFires \/ reload \/ StartMonitor \/ SystemdStarts \/ ReleaseQuotaStop
    \/ ReleaseClears \/ OrphanStops \/ OrphanStarts

Failing ==
    \/ InsertSampleFails \/ ReconcileFails \/ AddIPTrafficFails \/ StartMonitorFails
    \/ StartsBlind \/ ReleaseFails \/ Crash \/ Reboot \/ FlushTable

Configuring ==
    \/ \E m \in BOOLEAN, l \in LimitChoices : applySpokeMonitor([monitor |-> m, limits |-> l])
    \/ \E l \in LimitChoices : applyManageMonitorService(l)
    \/ runMonitorServiceAction
    \/ ResetHistory

World ==
    \/ Tick \/ OperatorStops \/ OperatorStarts
    \/ \E d \in Directions, a \in Addresses : Carry(d, a)

Next == Adjusting \/ Sampling \/ Supervising \/ Failing \/ Configuring \/ World \/ maintenance

Spec == Init /\ [][Next]_vars

\* The tickers fire, the supervisor's goroutines and systemd run on.
FairSpec == Spec /\ WF_vars(Sampling) /\ WF_vars(Supervising)

-----------------------------------------------------------------------------
\* Types: every delta and every counter is a byte count that fits its column.
TypeOK ==
    /\ now \in machine.start..machine.last
    /\ \A t \in DOMAIN samples : \A d \in Directions : samples[t].d[d] \in 0..machine[d]
    /\ \A h \in DOMAIN hourly : h % TicksPerHour = 0
    /\ mon.pc \in {"off", "idle", "decide", "persist", "stop", "start", "clear", "address"}
    /\ sup \in {"idle", "reload", "boot", "release", "clear"}
    /\ orphan \in {"none", "stop", "start"}
    /\ downBy \in {"nobody", "operator", "quota"} /\ (up <=> downBy = "nobody")
    /\ nft = NoTable \/ nft \in [Addresses -> 0..(machine.in + machine.out)]

\* Each carried byte is counted at most once, by the interface's rows and by
\* the rows of the address that sent or received it, across restarts, reboots,
\* failed writes, folding and a flushed table (sampleOnce, LatestCounters,
\* ipSampleOnce, maintenance).
IPTotal(a) == BytesOf(ip[a])
NeverOvercounts ==
    /\ \A d \in Directions :
          SumOver([t \in DOMAIN samples |-> samples[t].d[d]], Nat)
          + SumOver(Column(hourly, d), Nat) <= carried[d]
    /\ \A a \in Addresses : IPTotal(a) <= sent[a]

\* Maintenance leaves the usage and the package of the running cycle as they
\* were, whichever rows it folds or deletes; an address keeps its whole total,
\* or loses all of it to KeptAddresses others that each hold at least as much
\* and keep theirs (AggregateHourly, AggregateIPHourly, AggregateIPDaily,
\* Cleanup, PruneIPTraffic).
FoldKeepsUsage ==
    [][maintenance
         => /\ TotalsSince(CycleStart(now))' = TotalsSince(CycleStart(now))
            /\ PackageSince(CycleStart(now))' = PackageSince(CycleStart(now))
            /\ \A a \in Addresses :
                  \/ IPTotal(a)' = IPTotal(a)
                  \/ /\ IPTotal(a)' = 0
                     /\ \E K \in SUBSET (Addresses \ {a}) :
                           /\ Cardinality(K) = KeptAddresses
                           /\ \A b \in K : IPTotal(b)' = IPTotal(b) /\ IPTotal(b) >= IPTotal(a)
      ]_vars

\* A sing-box that the quota took down carries the durable marker that lets a
\* later monitor or a disabled monitor start it again, after every crash and
\* failure; only a retired sampler's late stop escapes (reconcileQuota,
\* ReleaseQuotaStop, stopRunning).
StopsAreOwned == downBy = "quota" => stopped \/ lateStop

\* The same without the exception: what the comment on the marker promises.
QuotaStopIsOwned == downBy = "quota" => stopped

\* A package counts in the cycle its operator saw and in no other: it lapses
\* with the boundary, also when the write races the reset, and two grants add
\* up (GrantCurrentTrafficPackage, adjustPackage, CycleStart).
PackagesStayInTheirCycle ==
    LET past == {b \in Boundaries : b <= now}
        cycle == CHOOSE b \in past : \A c \in past : c <= b
    IN  /\ PackageSince(CycleStart(now)) = granted[cycle]
        /\ NextCycleReset(now) = CHOOSE b \in Boundaries :
               b > now /\ \A c \in Boundaries : c > now => b <= c

\* The dashboard and the quota agree: sing-box is over quota exactly when a
\* limited direction has nothing left, and a package neither creates a limit
\* nor lowers one, also at the edge of the integers (extendLimit, Remaining).
SummaryAgrees ==
    \A limits \in LimitChoices :
        LET shown == Summary(limits)
        IN  /\ OverQuota(limits)
                  <=> \E k \in DOMAIN limits : shown[k].limit > 0 /\ shown[k].left = 0
            /\ \A k \in DOMAIN limits :
                  /\ shown[k].limit = 0 <=> limits[k] = 0
                  /\ shown[k].limit \in limits[k]..MaxUint

\* Whatever fails on the way, a sing-box the quota took down comes back once
\* the usage allows it or the monitor is turned off, and one that runs over
\* its quota is taken down (New, reconcileQuota, reload, ReleaseQuotaStop).
\* Two things escape: the late stop of a retired sampler, and a monitor that
\* could not read the marker when it was started, for as long as it runs; the
\* next monitor that reads it must bring sing-box back.
Held == settings.monitor /\ OverQuota(settings.limits)
QuotaFollowsUsage ==
    /\ (downBy = "quota" /\ ~Held) ~> (downBy # "quota" \/ Held \/ lateStop \/ mon.blind)
    /\ (up /\ Held) ~> (~up \/ ~Held)

=============================================================================
