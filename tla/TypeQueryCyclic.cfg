SPECIFICATION Spec
CONSTANTS
    c = c
    d = d
    f = f
    a = a
    b = b
    k = k
    l = l
    g = g
    h = h
    s = s
    e = e
    m = m
    u = u
    x = x
    t = t
    o = o
    NoValue = NoValue
    Value <- MCValue
    Programs <- CyclicPrograms
    Configs <- MCConfigs
    MaxDepth = 8
INVARIANT
    QuestionNotReentered
