SPECIFICATION Spec
CONSTANTS
    Chats = {c}
    Messages = {m}
    Heartbeats = {}
    Inputs = {}
    UnaryAnswers = {u}
    StreamAnswers = {s}
    Questions <- MCQuestions
    Tuples <- MCTuples
    q1 = q1
    q2 = q2
    MaxExecs = 3
    MaxFaults = 0
    BelowAsks = FALSE
    None = None
PROPERTIES
    ClaimSettles
    MessagePasses
CHECK_DEADLOCK FALSE
