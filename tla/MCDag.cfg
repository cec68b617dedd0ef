SPECIFICATION Spec
CONSTANTS
    InvalidNode = 5
    DefaultEdge = DefaultEdge
    NodeData = {n1}
    EdgeData = {e1, e2}
    MaxNodes = 3
    MaxEdges = 4
SYMMETRY PayloadSymmetry
INVARIANTS TablesHoldTheEdges DagOrderRespectsEdges TraversalsVisitOnce
