CONSTANTS
    q1 = q1
    NoTask = NoTask
    Queue <- MCQueue
    Request <- MCRequest
    MaxName = 2
    MaxTasks = 2
    MaxExits = 1
    DataDir = TRUE

SPECIFICATION Spec

INVARIANTS
    DispatchingIsPosted
