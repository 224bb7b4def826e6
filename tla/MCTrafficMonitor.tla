-------------------------- MODULE MCTrafficMonitor --------------------------
(* Instances of TrafficMonitor for TLC: months of one day, days of two      *)
(* hours, hours of two ticks, so that a few ticks cross a quota boundary.   *)
EXTENDS TrafficMonitor

Months == <<1, 1, 1, 1>>
Total(n) == [in |-> 0, out |-> 0, total |-> n]
Choices == {NoLimits, Total(1), [in |-> 1, out |-> 0, total |-> 6]}
Sizes == {[in |-> 1, out |-> 0, total |-> 2]}

Machine(h, l, start, last, in, out, faults, edits) ==
    [host |-> h, nft |-> FALSE, clients |-> {"a"}, limits |-> l, start |-> start, last |-> last,
     in |-> in, out |-> out, faults |-> faults, edits |-> edits]
Accounting(clients, start, last, in, out, faults, edits) ==
    [Machine("hub", NoLimits, start, last, in, out, faults, edits)
        EXCEPT !.nft = TRUE, !.clients = clients]
\* A fault beside an edit, two edits, both directions, and the per-address
\* history across two folds, a boundary and a prune that drops an address.
QuotaMachines ==
    {Machine("hub", Total(1), 9, 10, 1, 0, 1, 1),
     Machine("agent", Total(1), 9, 10, 1, 0, 1, 1),
     Machine("hub", Total(1), 9, 10, 1, 0, 0, 2),
     Machine("agent", Total(1), 10, 10, 0, 1, 0, 2),
     Machine("hub", Total(2), 9, 10, 1, 1, 0, 1),
     Accounting({"a"}, 5, 8, 1, 0, 1, 0),
     Accounting({"a"}, 9, 10, 1, 0, 0, 1),
     Accounting({"a", "b"}, 8, 10, 0, 3, 0, 0)}
LateStopMachines == {Machine("agent", Total(1), 9, 10, 1, 0, 0, 1)}
=============================================================================
