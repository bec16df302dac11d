CONSTANTS
    d1 = d1
    d2 = d2
    w1 = w1
    w2 = w2
    c1 = c1
    t1 = t1
    NoClient = NoClient
    Doc <- MCDoc
    Writer <- MCWriter
    Batch <- MCBatches
    Client <- MCClient
    Target <- MCTarget
    Filter <- MCWhole
    LogSize = 2
    MaxWrites = 4
    MaxTx = 1
    MaxExits = 1
    DataDir = TRUE
    Capacity = 1
    Merged = 1
    MaxOpens = 2

SPECIFICATION MCSpec

INVARIANTS
    TypeOK
    LogIsRecent
    ResumeComplete
    FileCurrent
    ListenTypeOK
    Converged
    NoWatcherLeaks

PROPERTIES
    CatchesUp

CHECK_DEADLOCK FALSE
