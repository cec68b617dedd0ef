SPECIFICATION FreezeSpec
CONSTANTS
    InvalidId = 3
    RevisionMax = 4
    AppendChild = 3
    NodeData = {d1}
    EdgeData = {e1}
    NoEdge = NoEdge
    NoRecord = NoRecord
    InvalidNode = 2
    DefaultEdge = DefaultEdge
VIEW View
INVARIANT AcceptedTreesFit
