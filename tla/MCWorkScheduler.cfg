SPECIFICATION SchedSpec
CONSTANTS
    s1 = s1
    c1 = c1
    c2 = c2
    m1 = m1
    Sessions <- MCSessions
    Execs <- MCExecs
    LatestFirst <- MCLatestFirst
    MaxGen = 1
    Outcomes = {"returned"}
    None = None
INVARIANTS
    ResultOwned
PROPERTIES
    CancelledNeverStarts
    StartOrder
    PendingSettles
CHECK_DEADLOCK FALSE
