SPECIFICATION AgentSpec
CONSTANTS
    Evidence = {"a", "b", "c"}
    MaxDocs = 2
    MaxEntities = 2
    Tool = {"calculator", "graph_lookup", "python_sandbox", "web_search", "vector_search"}
    Raising = {"vector_search"}
    GraphTool = "graph_lookup"
    UnknownTool = "unknown"
    MaxExponent = 2
    MaxPowerBase = 3
    Literals = {0, 2, 3, 4}
    MaxLiteral = 4
    MaxLiterals = 4
INVARIANTS
    OnlyPrimariesEndTheRun
    NoEvidenceOnlyByChoice
    EvidenceIsWhole
    NumbersStayShort
CHECK_DEADLOCK FALSE
