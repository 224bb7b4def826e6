SPECIFICATION FairSpec
CONSTANTS
    MonthDays <- Months
    HoursPerDay = 2
    TicksPerHour = 2
    ResetDay = 1
    ResetHour = 1
    LastTick = 10
    RawRetention = 1
    DayRetention = 1
    HistoryRetention = 4
    LimitChoices <- Choices
    Grants <- Sizes
    MaxInt = 3
    Addresses = {"a", "b"}
    KeptAddresses = 1
    Machines <- QuotaMachines
INVARIANTS
    NeverOvercounts
    StopsAreOwned
    PackagesStayInTheirCycle
    SummaryAgrees
PROPERTIES
    FoldKeepsUsage
    QuotaFollowsUsage
CHECK_DEADLOCK FALSE
