SPECIFICATION Spec
CONSTANTS
    Node <- MCNode
    NoNode = NoNode
    Graphs <- EnumInBase
    MaxNesting = 6
INVARIANT
    BaseClassesAreKept
