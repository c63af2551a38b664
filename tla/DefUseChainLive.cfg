SPECIFICATION FairSpec
CONSTANTS
    a = a
    b = b
    c = c
    Value <- MCValue
    Graphs <- ShapedGraphs
    Matchers <- AllMatchers
PROPERTIES
    TraversalEnds
    ImplementsReachability
