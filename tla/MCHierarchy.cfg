SPECIFICATION Spec
CONSTANTS
    InvalidId = 4
    RevisionMax = 9
    AppendChild = 4
    NodeData = {d1}
    EdgeData = {e1}
    NoEdge = NoEdge
    NoRecord = NoRecord
VIEW View
INVARIANTS TypeOK SlotTableOK NextIdFresh ForestOK Acyclic
PROPERTIES SiblingOrderKept IdentityNeverReused
