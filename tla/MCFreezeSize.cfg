SPECIFICATION FreezeSpec
CONSTANTS
    InvalidId = 4
    RevisionMax = 5
    AppendChild = 3
    NodeData = {d1}
    EdgeData = {e1}
    NoEdge = NoEdge
    NoRecord = NoRecord
    InvalidNode = 3
    DefaultEdge = DefaultEdge
VIEW View
INVARIANT OutcomeFollowsSize
