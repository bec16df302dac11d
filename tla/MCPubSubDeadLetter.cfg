CONSTANTS
    t = t
    dead = dead
    p = p
    NoTopic = NoTopic
    DeletedTopic = DeletedTopic
    NoSub = NoSub
    Topic <- MCTopic
    Sub <- MCSub
    Config <- MCConfig
    MaxId = 2
    MaxBatch = 1
    AttemptCap = 2
    MaxExits = 1
    DataDir = TRUE

SPECIFICATION HistorySpec

INVARIANT ForwardedAfterFailures
