SPECIFICATION Spec
CONSTANTS
    p1 = p1
    p2 = p2
    s1 = s1
    s2 = s2
    Hub = Hub
    None = None
    Consoles = {p1, p2}
    Changer = p1
    SpokeOrder <- MCSpokeOrder
    MaxVersion = 3
    c1 = c1
    c2 = c2
    Cores = {c1, c2}
    OldCore = c1
    MaxFaults = 2
    MaxRuns = 2

    
PROPERTIES
    NoAgentFallsBehind
    OutcomeIsTrue
CHECK_DEADLOCK FALSE
