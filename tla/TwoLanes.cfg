SPECIFICATION Safety
CONSTANTS
    s1 = s1
    e1 = e1
    e2 = e2
    e3 = e3
    None = None
    MaxGen = 1
    Outcomes = {"returned"}
    Sessions <- MCSessions
    Execs <- MCTwo
    LatestFirst <- MCTwo
    Chats <- MCOther
    Streams <- MCOne
    Messages <- MCNone
    Directs <- MCNone
    Stubborn <- MCNone
INVARIANTS OneAtATime
CHECK_DEADLOCK FALSE
