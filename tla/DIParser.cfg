SPECIFICATION Spec
CONSTANTS
    Node <- MCNode
    NoNode = NoNode
    Graphs <- MCGraphs
    MaxNesting = 6
INVARIANTS
    TypeOK
    StacksAgree
    AssertionsHold
    ResultIsDescribed
PROPERTY
    TraversalEnds
