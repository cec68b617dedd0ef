SPECIFICATION Spec
CONSTANTS
    InvalidId = 3
    RevisionMax = 6
    AppendChild = 3
    NodeData = {d1, d2}
    EdgeData = {e1, e2}
    NoEdge = NoEdge
    NoRecord = NoRecord
VIEW View

PROPERTY ImplementsContract
SYMMETRY PayloadSymmetry
