CONSTANTS
    Ids = {i1, i2}
    Transports = {t1, t2}
    Configs = {c1, c2}
    Callers = {p1, p2, p3}
    Callbacks = {k1}
    None = None
SYMMETRY Symmetry
SPECIFICATION Spec
INVARIANTS
    TypeOK
    PoolConsistent
    OneHolderPerId
    CorruptionErrorsUnreachable
    NoDeadlock
PROPERTY ImplementsAllocation
