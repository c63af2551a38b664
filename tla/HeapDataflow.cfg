SPECIFICATION Spec
CONSTANTS
    m = m
    b = b
    x = x
    y = y
    s = s
    t = t
    u = u
    r = r
    Value <- MCValue
    Programs <- MCPrograms
INVARIANTS
    TypeOK
    AnchorsComplete
    PathsEndInTypeRoots
    SharedMatcherAddsNothing
    NewPathsInAnchorOrder
    TargetsComplete
    DimensionsComplete
    DimensionsCountedOnce
PROPERTY
    QueryReturns
