CONSTANTS
    Clients = {c1}
    Servers = {s1}
    ReqIds = {r1, r2, r3, r4}
    Statuses <- NoStatusOnly
    ServerReqIds = {u1, u2, u3}
    SessionModulus = 2
    VsomeipSkipsZero = TRUE
    None = None
SYMMETRY Symmetry
SPECIFICATION Spec
INVARIANT AnswersItsRequest
CHECK_DEADLOCK FALSE
