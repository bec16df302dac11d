CONSTANTS
    d1 = d1
    d2 = d2
    w1 = w1
    w2 = w2
    c1 = c1
    t1 = t1
    NoClient = NoClient
    Doc <- MCDoc
    Writer <- MCWriter
    Batch <- MCBatch
    Client <- MCClient
    Target <- MCTarget
    Filter <- MCFilter
    LogSize = 2
    MaxWrites = 3
    MaxTx = 0
    MaxExits = 0
    DataDir = FALSE
    Capacity = 1
    Merged = 1
    MaxOpens = 2

SPECIFICATION ListenSpec

INVARIANTS
    ResumedConverged

CHECK_DEADLOCK FALSE
