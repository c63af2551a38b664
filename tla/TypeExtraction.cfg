SPECIFICATION Spec
CONSTANTS
    Node <- MCNode
    NoNode = NoNode
    MaxNesting = 6
    Graphs <- MCGraphs
    CallPaths <- MCCallPaths
INVARIANTS
    TypeOK
    PathInStep
    PathFits
    
    MemberHit
    AssertionsHold
    ElementsInBounds

    
