SPECIFICATION Spec
CONSTANTS
    InvalidNode = 7
    DefaultEdge = DefaultEdge
    Payload = Payload
    MaxNodes = 4
    MaxSeeds = 2
INVARIANTS TypeOK MarksFollowOrder ClosureFitsReserve
PROPERTIES CallReturns ImplementsClosureContract
