SPECIFICATION Spec
CONSTANTS
    InvalidNode = 7
    DefaultEdge = DefaultEdge
    Payload = Payload
    MaxNodes = 3
    Object = {o1, o2, o3}
    NoObject = NoObject
    MaxBuffers = 2
INVARIANTS LivesOnce FreedBuffersEmpty OwnersMatchBuffers
