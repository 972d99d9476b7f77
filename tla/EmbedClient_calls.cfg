SPECIFICATION ClientSpec
CONSTANTS
    Call = {p, h}
    Hasty = {h}
    Text = {p, h}
    Body <- MCBody
    Vector <- MCVector
    Encode <- MCEncode
    NoTask = NoTask
    MaxRetries = 1
    MaxConnections = 1
INVARIANTS
    TypeOK
    RaisesWhenSpent
    DepartureCostsOneAttempt
PROPERTIES
    EveryCallEnds
    OnlyStrandedWorkLingers
CHECK_DEADLOCK FALSE
