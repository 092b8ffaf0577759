-------------------------- MODULE RpcCorrelation --------------------------
(***************************************************************************)
(* How a response finds its request: storage/rpc_correlation.rs, used by   *)
(* message_conversions.rs when the engine sends (convert_umsg...) and when *)
(* a vsomeip callback receives (convert_vsomeip_msg_to_umsg).              *)
(*                                                                         *)
(* SOME/IP identifies a request by its client and session id; uProtocol by *)
(* a UUID.  The client's transport cannot read the session id vsomeip puts *)
(* on a request, so it counts along, and remembers the UUID under the id   *)
(* it expects.  The server's transport makes up a UUID for the request and *)
(* remembers the request id under it.                                      *)
(*                                                                         *)
(* The network may lose, duplicate and reorder messages: what was sent     *)
(* stays receivable, and need never be received.                           *)
(***************************************************************************)
EXTENDS StatusCodes, Naturals, Sequences, FiniteSets

CONSTANTS
    Clients,           \* transports that send requests, named by client id
    Servers,           \* transports that answer them
    ReqIds,            \* UUIDs of the requests; one is sent at most once
    Statuses,          \* the commstatus that listeners give their responses
    ServerReqIds,      \* fresh UUIDs of the requests as servers see them
    SessionModulus,    \* number of session ids (2^16 in the code)
    VsomeipSkipsZero,  \* whether vsomeip's own session ids skip 0 on wrapping
    None               \* "no such thing"

ASSUME RpcAssumption ==
    /\ SessionModulus \in Nat /\ SessionModulus > 1
    /\ VsomeipSkipsZero \in BOOLEAN
    /\ Statuses \subseteq CommStatuses
    /\ None \notin ReqIds /\ None \notin Clients \X (0 .. SessionModulus - 1)

Sessions == 0 .. SessionModulus - 1
RequestIds == Clients \X Sessions   \* create_request_id: client << 16 | session

VARIABLES
    nextSession,      \* nextSession[c]: client_id_session_id_tracking
    ueCorrelation,    \* ueCorrelation[c][n]: the UUID c expects session n for
    vsomeipSession,   \* vsomeipSession[c]: the session of vsomeip's next request
    meCorrelation,    \* meCorrelation[s][u]: the request id s answers u to
    sent,             \* sent[c]: the UUIDs c has tried to send
    network,          \* every SOME/IP message ever sent
    origin,           \* history: the request the server's UUID u stands for
    inbox,            \* the server-side UUIDs whose listener was called
    answers           \* history: the answers r was given, and to what request

vars == <<nextSession, ueCorrelation, vsomeipSession, meCorrelation, sent, network,
          origin, inbox, answers>>

RequestMessages ==
    [type : {"MT_REQUEST"}, to : Servers, id : RequestIds, token : ReqIds]
ResponseMessages ==
    [type : {"MT_RESPONSE", "MT_ERROR"}, to : Clients, id : RequestIds, code : ReturnCodes,
     token : ReqIds, given : CommStatuses]
Answers == [token : ReqIds, given : CommStatuses, status : UCodes]

TypeOK ==
    /\ nextSession \in [Clients -> Sessions]
    /\ ueCorrelation \in [Clients -> [Sessions -> ReqIds \cup {None}]]
    /\ vsomeipSession \in [Clients -> Sessions]
    /\ meCorrelation \in [Servers -> [ServerReqIds -> RequestIds \cup {None}]]
    /\ sent \in [Clients -> SUBSET ReqIds]
    /\ network \subseteq RequestMessages \cup ResponseMessages
    /\ origin \in [ServerReqIds -> ReqIds \cup {None}]
    /\ inbox \subseteq ServerReqIds
    /\ answers \in [ReqIds -> Seq(Answers)]

(* Mutant: the count of session ids starts at 0.                           *)
InitCountingFrom0 ==
    /\ nextSession = [c \in Clients |-> 0]
    /\ ueCorrelation = [c \in Clients |-> [n \in Sessions |-> None]]
    /\ vsomeipSession = [c \in Clients |-> 1]
    /\ meCorrelation = [s \in Servers |-> [u \in ServerReqIds |-> None]]
    /\ sent = [c \in Clients |-> {}]
    /\ network = {}
    /\ origin = [u \in ServerReqIds |-> None]
    /\ inbox = {}
    /\ answers = [r \in ReqIds |-> <<>>]

Init ==
    /\ nextSession = [c \in Clients |-> 1]
    /\ ueCorrelation = [c \in Clients |-> [n \in Sessions |-> None]]
    /\ vsomeipSession = [c \in Clients |-> 1]
    /\ meCorrelation = [s \in Servers |-> [u \in ServerReqIds |-> None]]
    /\ sent = [c \in Clients |-> {}]
    /\ network = {}
    /\ origin = [u \in ServerReqIds |-> None]
    /\ inbox = {}
    /\ answers = [r \in ReqIds |-> <<>>]

-----------------------------------------------------------------------------
(* Mutant: the count does not wrap where vsomeip's does.                   *)
FollowingWithoutWrapping(n) == n + 1

(* Mutant: the count wraps one session id early.                           *)
FollowingShort(n) == (n + 1) % (SessionModulus - 1)

(* retrieve_session_id: += 1 on a u16, which wraps to 0 in a release build.*)
Following(n) == (n + 1) % SessionModulus

(* The session id vsomeip gives the request after n.                       *)
VsomeipFollowing(n) ==
    IF VsomeipSkipsZero /\ Following(n) = 0 THEN 1 ELSE Following(n)

(* The registry: inserting refuses to overwrite, so callers look first;    *)
(* removing is taking the entry out.                                       *)
InsertUeRequestCorrelation(c, n, r) ==
    ueCorrelation' = [ueCorrelation EXCEPT ![c][n] = r]

(* Mutant: the entry is looked up and left in place.                       *)
LookUpUeRequestCorrelation(c, n) == UNCHANGED ueCorrelation

RemoveUeRequestCorrelation(c, n) ==
    ueCorrelation' = [ueCorrelation EXCEPT ![c][n] = None]

InsertMeRequestCorrelation(s, u, id) ==
    meCorrelation' = [meCorrelation EXCEPT ![s][u] = id]

RemoveMeRequestCorrelation(s, u) ==
    meCorrelation' = [meCorrelation EXCEPT ![s][u] = None]

-----------------------------------------------------------------------------
(* umsg_request_to_vsomeip_message and the send that follows it.  The      *)
(* session id is used up before insert_ue_request_correlation may refuse   *)
(* to overwrite an entry, and then nothing is sent.                        *)
Request(c, r, s) ==
    [type |-> "MT_REQUEST", to |-> s, id |-> <<c, vsomeipSession[c]>>, token |-> r]

SendRequest(c, r, s) ==
    LET n == nextSession[c] IN
    /\ \A d \in Clients : r \notin sent[d]
    /\ sent' = [sent EXCEPT ![c] = @ \cup {r}]
    /\ nextSession' = [nextSession EXCEPT ![c] = Following(n)]
    /\ IF ueCorrelation[c][n] = None
       THEN /\ InsertUeRequestCorrelation(c, n, r)
            /\ vsomeipSession' = [vsomeipSession EXCEPT ![c] = VsomeipFollowing(@)]
            /\ network' = network \cup {Request(c, r, s)}
       ELSE UNCHANGED <<ueCorrelation, vsomeipSession, network>>
    /\ UNCHANGED <<meCorrelation, origin, inbox, answers>>

(* convert_vsomeip_mt_request_to_umsg under a fresh UUID, which no entry   *)
(* can have; the listener may be gone by the time it is looked up, and     *)
(* then is not called.                                                     *)
ReceiveRequest(s, m, u) ==
    /\ m.type = "MT_REQUEST" /\ m.to = s
    /\ origin[u] = None
    /\ origin' = [origin EXCEPT ![u] = m.token]
    /\ InsertMeRequestCorrelation(s, u, m.id)
    /\ inbox' \in {inbox, inbox \cup {u}}
    /\ UNCHANGED <<nextSession, ueCorrelation, vsomeipSession, sent, network, answers>>

(* token and given are history: the request that was answered, and with    *)
(* what.                                                                   *)
Response(id, r, commstatus) ==
    [type |-> TypeOnWire(commstatus), to |-> id[1], id |-> id, code |-> CodeOnWire(commstatus),
     token |-> r, given |-> commstatus]

(* Mutant: the response takes the id of any request still unanswered.      *)
SendUnderAnyId(s, u, commstatus) ==
    \E v \in inbox :
        LET id == meCorrelation[s][v] IN
        /\ id # None
        /\ RemoveMeRequestCorrelation(s, v)
        /\ network' = network \cup {Response(id, origin[u], commstatus)}
        /\ UNCHANGED <<nextSession, ueCorrelation, vsomeipSession, sent, origin, inbox, answers>>

(* umsg_response_to_vsomeip_message: a second answer finds no entry, is    *)
(* refused with NOT_FOUND and changes nothing.                             *)
SendResponse(s, u, commstatus) ==
    LET id == meCorrelation[s][u] IN
    /\ id # None
    /\ RemoveMeRequestCorrelation(s, u)
    /\ network' = network \cup {Response(id, origin[u], commstatus)}
    /\ UNCHANGED <<nextSession, ueCorrelation, vsomeipSession, sent, origin, inbox, answers>>

Answer(m) == [token |-> m.token, given |-> m.given, status |-> StatusReceived(m.type, m.code)]

(* convert_vsomeip_mt_response_to_umsg and ..._mt_error_to_umsg; without   *)
(* an entry the message is dropped, and without a listener as well.        *)
ReceiveResponse(c, m) ==
    LET n == m.id[2]
        r == ueCorrelation[c][n]
    IN
    /\ m.type # "MT_REQUEST" /\ m.to = c
    /\ r # None
    /\ RemoveUeRequestCorrelation(c, n)
    /\ answers' \in {answers, [answers EXCEPT ![r] = Append(@, Answer(m))]}
    /\ UNCHANGED <<nextSession, vsomeipSession, meCorrelation, sent, network, origin, inbox>>

Next ==
    \/ \E c \in Clients, r \in ReqIds, s \in Servers : SendRequest(c, r, s)
    \/ \E c \in Clients, m \in network : ReceiveResponse(c, m)
    \/ \E s \in Servers, m \in network, u \in ServerReqIds : ReceiveRequest(s, m, u)
    \/ \E s \in Servers, u \in inbox, commstatus \in Statuses : SendResponse(s, u, commstatus)

Spec == Init /\ [][Next]_vars

-----------------------------------------------------------------------------
(* The client is given, under a request's UUID, only the answer a server   *)
(* gave to that very request.                                              *)
AnsweredRight(r) == \A n \in DOMAIN answers[r] : answers[r][n].token = r
AnswersItsRequest == \A r \in ReqIds : AnsweredRight(r)

(* Until a client uses its first session id again, that is the case of its *)
(* requests: nothing the network or another client does, and no request    *)
(* that stays unanswered, changes it.                                      *)
AnswersWithinOneLap ==
    \A c \in Clients : Cardinality(sent[c]) < SessionModulus => \A r \in sent[c] : AnsweredRight(r)

(* No request is refused, and so lost, before the client has used every    *)
(* session id: not even if no request is ever answered, so that no entry is*)
(* ever removed, and although the client counts through the id 0, which    *)
(* vsomeip may skip.  From the next lap on, an entry that was never removed*)
(* is in the way of a request.                                             *)
Asked(r) == \E q \in network : q.type = "MT_REQUEST" /\ q.token = r
NoneRefusedWithinOneLap ==
    \A c \in Clients : Cardinality(sent[c]) <= SessionModulus => \A r \in sent[c] : Asked(r)

(* A request is answered at most once, whatever the network duplicates and *)
(* however often the session ids wrap.                                     *)
AnsweredAtMostOnce == \A r \in ReqIds : Len(answers[r]) <= 1

(* A response on the wire carries the client and session id of the request *)
(* it answers, also when a server answers several clients at once.         *)
ResponsesGoToTheirAsker ==
    \A m \in network : m.type # "MT_REQUEST" =>
        \E q \in network : q.type = "MT_REQUEST" /\ q.id = m.id /\ q.token = m.token

(* What the asker is told is what the listener said, as far as SOME/IP can *)
(* say it: a success is never taken for a failure nor the other way round, *)
(* though it travels as an error, or with the return code of a failure;    *)
(* and a code that changed on the way does not change again when a         *)
(* streamer passes the response on through another transport.              *)
StatusSurvives ==
    \A r \in ReqIds : \A n \in DOMAIN answers[r] :
        LET a == answers[r][n] IN
        /\ a.status = "OK" <=> IsSuccess(a.given)
        /\ Delivered(a.status) = a.status
=============================================================================
