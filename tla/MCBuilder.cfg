SPECIFICATION Spec
CONSTANTS
    InvalidNode = 5
    DefaultEdge = DefaultEdge
    NodeData = {n1}
    EdgeData = {e1, e2}
    MaxNodes = 4
SYMMETRY PayloadSymmetry
VIEW View
INVARIANTS TypeOK ParentsMatchEdges BuildRejectsExactlyCycles OrdersRespectParents LevelsAreDepths RowsMatchParents BuildIgnoresInterleaving DepthFirstUnfolds BreadthFirstUnfolds DepthsAgree TruncationKeepsPrefix SiblingsLinked PathsReplayEdges
