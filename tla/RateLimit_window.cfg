SPECIFICATION FairSpec
CONSTANTS
    Subject = {s1, s2}
    Faulty = {s2}
    Request = {r1, r2}
    Limit = 2
    Window = 3
    NoKey = NoKey
INVARIANTS
    TypeOK
    RefillScheduled
    AtMostTwoAllowances
PROPERTIES
    AllowanceRefills
