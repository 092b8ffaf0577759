CONSTANTS
    Ids = {i1, i2, i3}
    Services <- MCServices
    Methods = {m1, m2}
    Callers = {p1, p2}
    None = None
    MaxQueue = 3
    EngineMayBeLate = FALSE
SYMMETRY Symmetry
SPECIFICATION Spec
INVARIANT ResponsesAreHeard
