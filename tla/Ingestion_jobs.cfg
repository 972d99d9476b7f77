SPECIFICATION UploadsSpec
CONSTANTS
    j1 = j1  j2 = j2  d1 = d1  d2 = d2  d3 = d3  a = a  b = b  x = x  y = y
    n = n  m = m  Nothing = Nothing  Unsent = Unsent
    Job = {j1, j2}
    Doc = {d1, d2, d3}
    Name = {n, m}
    Text = {a, b}
    Entity = {x, y}
    Scopes <- AnySet
    Row <- MCRow
    RowsOf <- MCRowsOf
    TextOf <- MCTextOf
    NodesOf <- MCNodesOf
    EdgesOf <- MCEdgesOf
    ContentsOf <- MCContentsOf
    Under <- MCUnder
    MaxLost = 1
    MaxUploads = 2
SYMMETRY Symmetry
INVARIANTS
    TypeOK
    CopiesNeedOverlap
    OnePointPerText
    CompleteMeansIndexed
    VectorsFollowGraphs
    CurrentIsSearchable
CHECK_DEADLOCK FALSE
