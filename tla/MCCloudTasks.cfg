CONSTANTS
    q1 = q1
    NoTask = NoTask
    Queue <- MCQueue
    Request <- MCRequestAny
    MaxName = 2
    MaxTasks = 2
    MaxExits = 2
    DataDir = TRUE

SPECIFICATION LiveSpec

INVARIANTS
    TypeOK
    AttemptsWithinLimit
    Attended
    FileLags
PROPERTIES
    GoneForGood
    TaskLeaves
