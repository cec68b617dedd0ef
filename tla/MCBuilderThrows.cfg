SPECIFICATION Spec
CONSTANTS
    InvalidNode = 3
    DefaultEdge = DefaultEdge
    NodeData = {n1}
    EdgeData = {e1}
    MaxNodes = 2
VIEW View
INVARIANT BuiltIsAcyclic
