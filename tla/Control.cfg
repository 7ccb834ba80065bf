SPECIFICATION Safety
CONSTANTS
    Chats = {c}
    Messages = {}
    Heartbeats = {h}
    Inputs = {i}
    UnaryAnswers = {u}
    StreamAnswers = {s}
    Questions <- MCQuestions
    Tuples <- MCTuples
    q1 = q1
    q2 = q2
    MaxExecs = 3
    MaxFaults = 1
    BelowAsks = FALSE
    None = None
SYMMETRY MCSymmetry
INVARIANTS
    OneDelivery
    NobodyStranded
    GateGuards
PROPERTIES
    QuestionsKept
    ExpiredIsFailed
CHECK_DEADLOCK FALSE
