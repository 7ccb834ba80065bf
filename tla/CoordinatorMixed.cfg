SPECIFICATION Safety
CONSTANTS
    s1 = s1
    e1 = e1
    e2 = e2
    e3 = e3
    None = None
    MaxGen = 1
    Outcomes = {"returned"}
    Sessions <- MCSessions
    Execs <- MCThree
    LatestFirst <- MCOuter
    Chats <- MCOuter
    Streams <- MCNone
    Messages <- MCNone
    Directs <- MCOther
    Stubborn <- MCOne
INVARIANTS
    OneUncancelled
    ClosedIsSettled
CHECK_DEADLOCK FALSE
