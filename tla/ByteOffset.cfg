SPECIFICATION Spec
CONSTANTS
    Node <- MCNode
    NoNode = NoNode
    Graphs <- ByValue
    Offsets <- MCOffsets
    Ways <- MCWays
    MaxNesting = 5
INVARIANTS
    TypeOK
    PointersAreFound
PROPERTIES
    LastMemberStays
    SearchEnds
