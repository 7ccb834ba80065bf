SPECIFICATION Spec
CONSTANTS
    s1 = s1
    s2 = s2
    r1 = r1
    e1 = e1
    e2 = e2
    e3 = e3
    Sessions <- MCSessions
    Requests <- MCRequests
    Execs <- MCExecs
    Capacity = 1
    TTL = 1
    MaxTime = 3
SYMMETRY MCSymmetry
INVARIANTS
    RegistrySound
PROPERTIES
    KeptWhileRecent
CHECK_DEADLOCK FALSE
