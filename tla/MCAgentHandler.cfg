SPECIFICATION FairSpec
CONSTANTS
    Requests = {r1, r2}
    Transactions = {t1, t2}
    MaxVersion = 3
    None = None
    MaxFaults = 3
INVARIANTS
    UninstallIsComplete
    HubCanRetry
    FailedUpgradeUndone
PROPERTIES
    AcceptedUpgradeRuns
CHECK_DEADLOCK FALSE
