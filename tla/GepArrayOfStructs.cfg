SPECIFICATION Spec
CONSTANTS
    Node <- MCNode
    NoNode = NoNode
    MaxNesting = 6
    Graphs <- ArrayGraphs
    CallPaths <- ArrayOfStructs
INVARIANTS
    IndexInElements
CHECK_DEADLOCK FALSE
