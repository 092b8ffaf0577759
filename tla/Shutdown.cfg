CONSTANTS
    t1 = t1
    t2 = t2
    c1 = c1
    c2 = c2
    None = None
    Ids = {i1, i2}
    Transports = {t1, t2}
    Configs = {c1, c2}
    Registrations <- TwoAndOne
    Messages = {m1}
    MaxQueue = 1
    EngineMayBeLate = TRUE
SPECIFICATION FairSpec
INVARIANTS
    TypeOK
    NothingHeldAfterDrop
    QuietAfterDrop
    StraysWereOvertaken
    DropCanGoOn
PROPERTY DropReturns
CHECK_DEADLOCK FALSE
