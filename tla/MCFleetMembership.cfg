SPECIFICATION Spec
CONSTANTS
    h1 = h1
    h1b = h1b
    h2 = h2
    h3 = h3
    s1 = s1
    s2 = s2
    s3 = s3
    Operators = {o1, o2}
    Ids = {i1, i2}
    Hosts = {h1, h1b, h2, h3}
    Servers = {s1, s2, s3}
    HostOf <- MCHostOf
    Standalone = {s3}
    IPs = {2, 3}
    NoId = NoId
    MaxFaults = 2
SYMMETRY MCSymmetry
INVARIANTS
    TypeOK
    RegistryUnique
    CommittedNodeKeepsPeer
    
    DurableConfigCurrent
