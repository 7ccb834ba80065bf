SPECIFICATION Safety
CONSTANTS
    MaxMessages = 2
    MaxTasks = 4
    MaxCalls = 1
    MaxFaults = 2
    MaxLoad = 3
INVARIANTS
    TypeOK
    AtMostOnce
    RunningIsOwned
    DeletedIsEmpty
    QueueIsServed
PROPERTIES
    TasksInTurn
    HeldStaysBack
CHECK_DEADLOCK FALSE
