SPECIFICATION Spec
CONSTANTS
    t1 = t1
    t2 = t2
    t3 = t3
    p1 = p1
    p2 = p2
    Threads = {t1, t2, t3}
    Procs = {p1, p2}
    ProcOf <- MCProcOf
    Entries = {e1, e2}
    Values = {v1, v2}
    None = None
    Missing = Missing
    MaxFaults = 2
INVARIANTS
    TypeOK
    NoLostUpdate
    CommittedTreeOnDisk
    ReadersSeeWholeTrees
PROPERTIES
    RefinesAtomicTree
SYMMETRY MCSymmetry
