CONSTANTS
    t = t
    dead = dead
    p = p
    d = d
    NoTopic = NoTopic
    DeletedTopic = DeletedTopic
    NoSub = NoSub
    Topic <- MCTopic
    Sub <- MCSub
    Config <- MCConfig
    MaxId = 2
    MaxBatch = 1
    AttemptCap = 1
    MaxExits = 1
    DataDir = TRUE

SPECIFICATION Spec

INVARIANTS
    TypeOK
    AckFinal
    IndexAgrees
    FileCurrent
PROPERTIES
    DeadLetterKept
    IdsAreFresh
