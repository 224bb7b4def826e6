SPECIFICATION FairSpec
CONSTANTS
    Procs = {timer, tui}
    Timer = timer
    Spokes = {n1}
    Hub = hub
    Joining = {n1}
    None = None
    MaxEvents = 2
    MaxFaults = 1
INVARIANTS
    DeliveredOrPending
    PairsMatch
PROPERTIES
    NoDuplicateOrder
    PendingIsDelivered
    TornPairIsReissued
