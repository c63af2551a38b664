SPECIFICATION Spec
CONSTANTS
    Node <- MCNode
    NoNode = NoNode
    Graphs <- ThroughPointer
    Offsets <- MCOffsets
    Ways <- MCWays
    MaxNesting = 5
PROPERTY
    CandidatesNarrow
