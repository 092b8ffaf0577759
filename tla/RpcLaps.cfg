CONSTANTS
    Clients = {c1, c2}
    Servers = {s1}
    ReqIds = {r1, r2, r3, r4}
    Statuses <- SomeStatuses
    ServerReqIds = {u1, u2, u3}
    SessionModulus = 3
    VsomeipSkipsZero = TRUE
    None = None
SYMMETRY Symmetry
SPECIFICATION Spec
INVARIANTS
    TypeOK
    AnswersWithinOneLap
    NoneRefusedWithinOneLap
    AnsweredAtMostOnce
    ResponsesGoToTheirAsker
    StatusSurvives
CHECK_DEADLOCK FALSE
