SPECIFICATION SandboxFairSpec
CONSTANTS
    Call = {c1, c2, c3}
    Programs <- MCPrograms
    Inner = 2
    Outer = 4
INVARIANTS
    SandboxTypeOK
    TimeoutNeedsACrowd
PROPERTIES
    EveryExecuteEnds
CHECK_DEADLOCK FALSE
