SPECIFICATION Spec
CONSTANTS
    s1 = s1
    e1 = e1
    e2 = e2
    e3 = e3
    None = None
    MaxGen = 1
    Outcomes = {"returned"}
    Sessions <- MCSessions
    Execs <- MCTwo
    LatestFirst <- MCOne
    Chats <- MCNone
    Streams <- MCOne
    Messages <- MCOther
    Directs <- MCNone
    Stubborn <- MCOther
PROPERTIES
    UsesScheduler
    OwnerEnds
    CloseReturns
CHECK_DEADLOCK FALSE
