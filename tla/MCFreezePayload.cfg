SPECIFICATION FreezeSpec
CONSTANTS
    InvalidId = 3
    RevisionMax = 3
    AppendChild = 3
    NodeData = {d1, d2}
    EdgeData = {e1, e2}
    NoEdge = NoEdge
    NoRecord = NoRecord
    InvalidNode = 9
    DefaultEdge = DefaultEdge
VIEW View
INVARIANT SnapshotMatchesSource
SYMMETRY PayloadSymmetry
