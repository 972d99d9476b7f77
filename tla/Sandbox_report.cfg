SPECIFICATION SandboxSpec
CONSTANTS
    Call = {c1, c2}
    Programs <- MCPrograms
    Inner = 2
    Outer = 4
INVARIANTS
    EndedCodeIsReported
CHECK_DEADLOCK FALSE
