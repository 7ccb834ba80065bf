SPECIFICATION Safety
CONSTANTS
    s1 = s1
    e1 = e1
    e2 = e2
    e3 = e3
    None = None
    MaxGen = 2
    Outcomes = {"returned", "raised"}
    Sessions <- MCSessions
    Execs <- MCTwo
    LatestFirst <- MCTwo
    Chats <- MCTwo
    Streams <- MCNone
    Messages <- MCNone
    Directs <- MCNone
    Stubborn <- MCNone
SYMMETRY MCSymmetry
INVARIANTS
    OneAtATime
    StateTracksWork
    CloseFence
    NoLeakedHandle
CHECK_DEADLOCK FALSE
