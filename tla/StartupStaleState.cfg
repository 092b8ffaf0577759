CONSTANTS
    HandlerIds = {i1, i2}
    Transports = {t1, t2}
    Names = {n1, n2}
    ChannelCapacity = 1
    None = None
SYMMETRY Symmetry
SPECIFICATION Spec
INVARIANT StartedByOwnState
CHECK_DEADLOCK FALSE
