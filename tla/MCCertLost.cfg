SPECIFICATION Spec
CONSTANTS
    Procs = {timer, tui}
    Timer = timer
    Spokes = {n1}
    Hub = hub
    Joining = {}
    None = None
    MaxEvents = 2
    MaxFaults = 0
INVARIANT
    RenewalReachesConsumer
