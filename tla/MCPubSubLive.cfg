CONSTANTS
    work = work
    dead = dead
    pushed = pushed
    pulled = pulled
    Limit = 2
    NoTopic = NoTopic
    DeletedTopic = DeletedTopic
    NoSub = NoSub
    Topic <- MCTopic
    Sub <- MCSub
    Config <- MCConfig
    MaxId = 4
    MaxBatch = 1
    AttemptCap = 3
    MaxExits = 1
    DataDir = TRUE

SPECIFICATION LiveSpec

INVARIANTS
    AttemptsBounded
PROPERTIES
    ImplementsMailbox
    PushDrains
    StreamRedelivers
