SPECIFICATION FreezeSpec
CONSTANTS
    InvalidId = 3
    RevisionMax = 5
    AppendChild = 3
    NodeData = {d1}
    EdgeData = {e1}
    NoEdge = NoEdge
    NoRecord = NoRecord
    InvalidNode = 9
    DefaultEdge = DefaultEdge
VIEW View
INVARIANTS ValidateAcceptsReachableTrees SnapshotIsPreorder RefreezeIsEqual
