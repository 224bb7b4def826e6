SPECIFICATION Spec
CONSTANTS
    a = a
    b = b
    hub = hub
    g1 = g1
    g2 = g2
    s1 = s1
    s2 = s2
    c1 = c1
    c2 = c2
    r1 = r1
    r2 = r2
    Spokes = {a, b}
    Hub = hub
    Consoles = {c1, c2}
    Timer = timer
    GroupIds = {g1, g2}
    Salts = {s1, s2}
    FirstGroup = g1
    FirstSalt = s1
    Ports = {0, 1}
    RelayPorts = {r1, r2}
    Changes <- MCChanges
    Exhausted = {b}
    None = None
    MaxChanges = 2
    MaxPublishers = 2
    MaxTrouble = 1
SYMMETRY Symmetry
CHECK_DEADLOCK FALSE
INVARIANTS
    RegistriesSound
    FilesHaveKeys

    
