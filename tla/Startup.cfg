CONSTANTS
    HandlerIds = {i1, i2}
    Transports = {t1, t2}
    Names = {n1, n2}
    ChannelCapacity = 1
    None = None
SPECIFICATION FairSpec
INVARIANTS
    TypeOK
    IdsAccountedFor
    AppLivesWithTransport
    StrangersWereWaiting
PROPERTY StartReturns
CHECK_DEADLOCK FALSE
