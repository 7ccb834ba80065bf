SPECIFICATION Spec
CONSTANTS
    r1 = r1
    r2 = r2
    c1 = c1
    c2 = c2
    c3 = c3
    k = k
    s = s
    Requests = {r1, r2}
    Connections = {c1, c2, c3}
    Keys = {k}
    Sessions = {s}
    Key <- MCKey
    Session <- MCSession
    Conn <- MCConn
    Streams = {r1, r2}
    Reloads = {r2}
    Rpc = {c2}
    QueueLimit = 1
    MaxMarks = 4
    None = None
INVARIANTS
    TypeOK
    BooksExact
    PushFollowsNewest
PROPERTIES
    StaysBack
    QueuedSettles
CHECK_DEADLOCK FALSE
