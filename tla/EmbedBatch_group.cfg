SPECIFICATION FairSpec
CONSTANTS
    Request = {r1, r2, r3, r4}
    t1 = t1
    t2 = t2
    Text = {t1, t2}
    Bodies <- MCBodies
    Vector <- MCVector
    Encode <- MCEncode
    Cancellable = {r1, r2}
    Malformed = {r4}
    NoTask = NoTask
INVARIANTS
    TypeOK
    DoorAttended
    OwnVectors
    StrandedOnlyInABrokenGroup
    MergeConcatenates
PROPERTIES
    ImplementsService
    OnlyBrokenGroupsKeepWaiting
CHECK_DEADLOCK FALSE
