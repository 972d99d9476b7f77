SPECIFICATION FairSpec
CONSTANTS
    Request = {r1, r2, r3}
    t1 = t1
    t2 = t2
    Text = {t1, t2}
    Bodies <- MCBodies
    Vector <- MCVector
    Encode <- MCEncode
    Cancellable = {r1}
    Malformed = {}
    NoTask = NoTask
PROPERTIES
    NobodyWaitsForever
CHECK_DEADLOCK FALSE
