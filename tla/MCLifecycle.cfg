CONSTANTS
    Service = {lazy, other}
    Lazy = lazy
    Conn = {c1, c2}
    Nobody = Nobody
    Main = Main
    MaxRetries = 3
    InitialBackoff = 1
    Multiplier = 2
    MaxBackoff = 3
    MaxExits = 2
    DataDir = TRUE

SPECIFICATION Spec
\* After its last exit the process need not be started again.
CHECK_DEADLOCK FALSE

INVARIANTS
    LifecycleTypeOK
    NothingForgotten
    StartedHasContainer
    HonestResult
PROPERTIES
    Answered
    Recovers
    RunEnds
    ImplementsDelivery
