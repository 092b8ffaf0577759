CONSTANTS
    Ids = {i1, i2, i3}
    Services <- MCServices
    Methods = {m1, m2}
    Callers = {p1}
    None = None
    MaxQueue = 3
    EngineMayBeLate = TRUE
SYMMETRY Symmetry
CHECK_DEADLOCK FALSE
SPECIFICATION Spec
INVARIANTS
    TypeOK
    ResponsesAreHeard
    EntriesBacked
