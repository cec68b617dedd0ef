SPECIFICATION MovesSpec
CONSTANTS
    InvalidId = 2
    RevisionMax = 3
    AppendChild = 1
    NodeData = {d1}
    EdgeData = {e1}
    NoEdge = NoEdge
    NoRecord = NoRecord
VIEW View
INVARIANTS BothTreesSound SnapshotFollowsDomain DomainNeverReissues
