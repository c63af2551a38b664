SPECIFICATION Spec
CONSTANTS
    a = a
    b = b
    c = c
    Value <- MCValue
    Graphs <- AllGraphs
    Matchers <- AllMatchers
SYMMETRY Permuted
INVARIANTS
    TypeOK
    PathsAreSimple
    StaleEntriesAreExhausted
    OnlyMergesAreRepeated
    WaitingPathsFollowOneBranch
    ExhaustedMeansComplete
