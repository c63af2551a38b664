SPECIFICATION Spec
CONSTANTS
    Node <- MCNode
    NoNode = NoNode
    Graphs <- PointerToConstVoid
    MaxNesting = 6
INVARIANT
    MembersAreAdded
