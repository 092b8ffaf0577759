------------------------ MODULE RpcCorrelationProofs ------------------------
(***************************************************************************)
(* Proofs about RpcCorrelation, for every number of clients, servers,      *)
(* requests and session ids, and for all status codes.                     *)
(*                                                                         *)
(* The inductive invariant has seven parts:                                *)
(*   TypeOK   the types;                                                   *)
(*   Tracked  a UUID is expected under one session id at most, and only    *)
(*            until it is answered;                                        *)
(*   Backed   what a server has to answer, and every response, goes back   *)
(*            to a request on the wire;                                    *)
(*   OnWire   a response carries what its status becomes on the wire;      *)
(*   SentOnce a UUID is sent by one client, which alone expects it;        *)
(*   Lap      within one lap of a client's session ids both counts agree,  *)
(*            and each id has been used for one request;                   *)
(*   Unrefused  until a lap is over, every request tried is on the wire.   *)
(***************************************************************************)
EXTENDS RpcCorrelation, FiniteSetTheorems, TLAPS

-----------------------------------------------------------------------------
(* Every UCode becomes some return code, every return code some UCode.     *)
LEMMA ErrCodeIsReturnCode == ASSUME NEW u PROVE ucode_to_vsomeip_err_code(u) \in ReturnCodes
  BY DEF ucode_to_vsomeip_err_code, ReturnCodes

LEMMA ErrCodeBackIsUCode == ASSUME NEW code PROVE vsomeip_err_code_to_ucode(code) \in UCodes
  BY DEF vsomeip_err_code_to_ucode, UCodes

LEMMA CodesConvert ==
    /\ \A s \in CommStatuses : TypeOnWire(s) \in {"MT_RESPONSE", "MT_ERROR"}
                               /\ CodeOnWire(s) \in ReturnCodes
    /\ \A code, type : StatusReceived(type, code) \in UCodes
  <1>1. ASSUME NEW s
        PROVE  TypeOnWire(s) \in {"MT_RESPONSE", "MT_ERROR"} /\ CodeOnWire(s) \in ReturnCodes
    BY ErrCodeIsReturnCode DEF TypeOnWire, CodeOnWire
  <1>2. ASSUME NEW code, NEW type
        PROVE  StatusReceived(type, code) \in UCodes
    <2>1. "OK" \in UCodes
      BY DEF UCodes
    <2> QED
      BY <2>1, ErrCodeBackIsUCode DEF StatusReceived
  <1> QED
    BY <1>1, <1>2

(* A UCode with a return code of its own comes back as itself, UNAVAILABLE *)
(* as the one whose return code it shares, and every other as UNKNOWN.     *)
Invertible == {"OK", "INVALID_ARGUMENT", "DEADLINE_EXCEEDED", "NOT_FOUND", "DATA_LOSS",
               "INTERNAL", "UNKNOWN", "FAILED_PRECONDITION"}

LEMMA ThereAndBack ==
    ASSUME NEW u \in UCodes
    PROVE  vsomeip_err_code_to_ucode(ucode_to_vsomeip_err_code(u)) =
             IF u \in Invertible THEN u ELSE IF u = "UNAVAILABLE" THEN "NOT_FOUND" ELSE "UNKNOWN"
  <1>1. CASE u \in {"OK", "INVALID_ARGUMENT"}
    BY <1>1 DEF ucode_to_vsomeip_err_code, vsomeip_err_code_to_ucode, Invertible
  <1>2. CASE u \in {"DEADLINE_EXCEEDED", "NOT_FOUND"}
    BY <1>2 DEF ucode_to_vsomeip_err_code, vsomeip_err_code_to_ucode, Invertible
  <1>3. CASE u \in {"DATA_LOSS", "INTERNAL"}
    BY <1>3 DEF ucode_to_vsomeip_err_code, vsomeip_err_code_to_ucode, Invertible
  <1>4. CASE u \in {"UNKNOWN", "FAILED_PRECONDITION"}
    BY <1>4 DEF ucode_to_vsomeip_err_code, vsomeip_err_code_to_ucode, Invertible
  <1>5. CASE u = "UNAVAILABLE"
    BY <1>5 DEF ucode_to_vsomeip_err_code, vsomeip_err_code_to_ucode, Invertible
  <1>6. CASE u \notin Invertible \cup {"UNAVAILABLE"}
    <2>1. ucode_to_vsomeip_err_code(u) = "E_UNKNOWN"
      BY <1>6 DEF ucode_to_vsomeip_err_code, Invertible
    <2>2. vsomeip_err_code_to_ucode("E_UNKNOWN") = "UNKNOWN"
      BY DEF vsomeip_err_code_to_ucode
    <2> QED
      BY <1>6, <2>1, <2>2
  <1> QED
    BY <1>1, <1>2, <1>3, <1>4, <1>5, <1>6 DEF Invertible

(* The outcome of a request survives its way through SOME/IP: successes,   *)
(* and they only, arrive as OK, and what a code has become stays that on   *)
(* every further trip (ucode_to_vsomeip_err_code and its inverse).         *)
THEOREM StatusRoundTrip ==
    \A s \in CommStatuses :
        /\ Delivered(s) = "OK" <=> IsSuccess(s)
        /\ Delivered(Delivered(s)) = Delivered(s)
  <1>1. \A u \in UCodes : Delivered(u) = vsomeip_err_code_to_ucode(ucode_to_vsomeip_err_code(u))
    BY DEF Delivered, StatusReceived, TypeOnWire, CodeOnWire, UCodes, NoStatus
  <1>2. Delivered(NoStatus) = "OK"
    BY DEF Delivered, StatusReceived, TypeOnWire
  <1>3. \A u \in UCodes :
          Delivered(u) = IF u \in Invertible THEN u
                         ELSE IF u = "UNAVAILABLE" THEN "NOT_FOUND" ELSE "UNKNOWN"
    BY <1>1, ThereAndBack
  <1>4. "OK" \in Invertible /\ "UNKNOWN" \in Invertible /\ "NOT_FOUND" \in Invertible
    BY DEF Invertible
  <1>5. Invertible \subseteq UCodes /\ NoStatus \notin UCodes
    BY DEF Invertible, UCodes, NoStatus
  <1> QED
    BY <1>2, <1>3, <1>4, <1>5 DEF CommStatuses, IsSuccess

(* The count of session ids wraps to 0 after the last one.                 *)
LEMMA FollowingWraps ==
    ASSUME NEW n \in Sessions
    PROVE  /\ Following(n) \in Sessions
           /\ Following(n) = IF n + 1 = SessionModulus THEN 0 ELSE n + 1
  <1>1. CASE n + 1 = SessionModulus
    BY <1>1, RpcAssumption DEF Sessions, Following
  <1>2. CASE n + 1 # SessionModulus
    BY <1>2, RpcAssumption DEF Sessions, Following
  <1> QED
    BY <1>1, <1>2

LEMMA NoneIsNothing == None \notin ReqIds /\ None \notin RequestIds
  BY RpcAssumption DEF RequestIds, Sessions

-----------------------------------------------------------------------------
(* Types.                                                                  *)
LEMMA InitTypeOK == Init => TypeOK
  <1>1. 1 \in Sessions
    BY RpcAssumption DEF Sessions
  <1> QED
    BY <1>1 DEF Init, TypeOK

LEMMA ResponseType ==
    ASSUME NEW id \in RequestIds, NEW r \in ReqIds, NEW commstatus \in Statuses
    PROVE  Response(id, r, commstatus) \in ResponseMessages
  <1>1. commstatus \in CommStatuses
    BY RpcAssumption
  <1>2. id[1] \in Clients
    BY DEF RequestIds
  <1> QED
    BY <1>1, <1>2, CodesConvert DEF Response, ResponseMessages

LEMMA AnswerType ==
    ASSUME NEW m \in ResponseMessages
    PROVE  Answer(m) \in Answers
  <1>1. m.token \in ReqIds /\ m.given \in CommStatuses
    BY DEF ResponseMessages
  <1>2. StatusReceived(m.type, m.code) \in UCodes
    BY CodesConvert
  <1> QED
    BY <1>1, <1>2 DEF Answer, Answers

(* What the types of network say of a message by its type.                 *)
LEMMA MessageTypes ==
    ASSUME TypeOK, NEW m \in network
    PROVE  /\ m.type = "MT_REQUEST" => m \in RequestMessages
           /\ m.type # "MT_REQUEST" => m \in ResponseMessages
           /\ m.id \in RequestIds /\ m.token \in ReqIds
           /\ m.id = <<m.id[1], m.id[2]>> /\ m.id[1] \in Clients /\ m.id[2] \in Sessions
  BY DEF TypeOK, RequestMessages, ResponseMessages, RequestIds

(* A response that a client takes is for a request it waits for.           *)
LEMMA Received ==
    ASSUME TypeOK, NEW c \in Clients, NEW m \in network, ReceiveResponse(c, m)
    PROVE  /\ m \in ResponseMessages /\ Answer(m) \in Answers
           /\ m.id[2] \in Sessions /\ ueCorrelation[c][m.id[2]] \in ReqIds
  <1>1. m \in ResponseMessages /\ m.id[2] \in Sessions
    BY MessageTypes DEF ReceiveResponse
  <1>2. ueCorrelation[c][m.id[2]] \in ReqIds \cup {None}
    BY <1>1 DEF TypeOK
  <1>3. ueCorrelation[c][m.id[2]] # None
    BY DEF ReceiveResponse
  <1> QED
    BY <1>1, <1>2, <1>3, AnswerType

(* What a server's UUID stands for, once it has an entry to answer it.     *)
LEMMA EntryType ==
    ASSUME TypeOK, NEW s \in Servers, NEW u \in inbox, meCorrelation[s][u] # None
    PROVE  u \in ServerReqIds /\ meCorrelation[s][u] \in RequestIds
  BY DEF TypeOK

(* Every request with an entry has an origin: needed for the type of the   *)
(* responses.                                                              *)
EntriesHaveOrigin ==
    \A s \in Servers, u \in ServerReqIds : meCorrelation[s][u] # None => origin[u] # None

(* Setting one entry of a table of tables.                                 *)
LEMMA TableUpdate ==
    ASSUME NEW A, NEW B, NEW S, NEW f \in [A -> [B -> S]], NEW a \in A, NEW b \in B, NEW v \in S
    PROVE  /\ [f EXCEPT ![a][b] = v] \in [A -> [B -> S]]
           /\ \A x \in A, y \in B : [f EXCEPT ![a][b] = v][x][y] =
                                     IF x = a /\ y = b THEN v ELSE f[x][y]
  <1>1. [f EXCEPT ![a][b] = v] = [f EXCEPT ![a] = [f[a] EXCEPT ![b] = v]]
    OBVIOUS
  <1>2. f[a] \in [B -> S] /\ [f[a] EXCEPT ![b] = v] \in [B -> S]
    OBVIOUS
  <1>3. \A x \in A : [f EXCEPT ![a] = [f[a] EXCEPT ![b] = v]][x] =
                      IF x = a THEN [f[a] EXCEPT ![b] = v] ELSE f[x]
    OBVIOUS
  <1>4. \A y \in B : [f[a] EXCEPT ![b] = v][y] = IF y = b THEN v ELSE f[a][y]
    BY <1>2
  <1> QED
    BY <1>1, <1>2, <1>3, <1>4

LEMMA TypeStep == TypeOK /\ EntriesHaveOrigin /\ [Next]_vars => (TypeOK /\ EntriesHaveOrigin)'
  <1> SUFFICES ASSUME TypeOK, EntriesHaveOrigin, [Next]_vars
               PROVE  (TypeOK /\ EntriesHaveOrigin)'
    OBVIOUS
  <1>1. ASSUME NEW c \in Clients, NEW r \in ReqIds, NEW s \in Servers, SendRequest(c, r, s)
        PROVE  (TypeOK /\ EntriesHaveOrigin)'
    <2>1. nextSession[c] \in Sessions /\ vsomeipSession[c] \in Sessions
      BY DEF TypeOK
    <2>2. Following(nextSession[c]) \in Sessions /\ VsomeipFollowing(vsomeipSession[c]) \in Sessions
      BY <2>1, FollowingWraps, RpcAssumption DEF VsomeipFollowing, Sessions
    <2>3. nextSession' \in [Clients -> Sessions] /\ sent' \in [Clients -> SUBSET ReqIds]
      BY <1>1, <2>2 DEF TypeOK, SendRequest
    <2>4. CASE ueCorrelation[c][nextSession[c]] = None
      <3>1. ueCorrelation' \in [Clients -> [Sessions -> ReqIds \cup {None}]]
        <4>1. ueCorrelation' = [ueCorrelation EXCEPT ![c][nextSession[c]] = r]
          BY <1>1, <2>4 DEF SendRequest, InsertUeRequestCorrelation
        <4>2. ueCorrelation \in [Clients -> [Sessions -> ReqIds \cup {None}]]
          BY DEF TypeOK
        <4> QED
          BY <2>1, <4>1, <4>2, TableUpdate
      <3>2. vsomeipSession' \in [Clients -> Sessions]
        BY <1>1, <2>2, <2>4 DEF TypeOK, SendRequest
      <3>3. Request(c, r, s) \in RequestMessages
        BY <2>1 DEF RequestMessages, RequestIds, Request
      <3>4. network' \subseteq RequestMessages \cup ResponseMessages
        BY <1>1, <2>4, <3>3 DEF TypeOK, SendRequest
      <3> QED
        BY <1>1, <2>3, <3>1, <3>2, <3>4 DEF TypeOK, EntriesHaveOrigin, SendRequest
    <2>5. CASE ueCorrelation[c][nextSession[c]] # None
      BY <1>1, <2>3, <2>5 DEF TypeOK, EntriesHaveOrigin, SendRequest
    <2> QED
      BY <2>4, <2>5
  <1>2. ASSUME NEW c \in Clients, NEW m \in network, ReceiveResponse(c, m)
        PROVE  (TypeOK /\ EntriesHaveOrigin)'
    <2>1. m \in ResponseMessages /\ m.id[2] \in Sessions
      BY <1>2, MessageTypes DEF ReceiveResponse
    <2>2. ueCorrelation' \in [Clients -> [Sessions -> ReqIds \cup {None}]]
      <3>1. ueCorrelation' = [ueCorrelation EXCEPT ![c][m.id[2]] = None]
        BY <1>2 DEF ReceiveResponse, RemoveUeRequestCorrelation
      <3>2. ueCorrelation \in [Clients -> [Sessions -> ReqIds \cup {None}]]
        BY DEF TypeOK
      <3> QED
        BY <2>1, <3>1, <3>2, TableUpdate
    <2>3. Answer(m) \in Answers
      BY <2>1, AnswerType
    <2>4. ueCorrelation[c][m.id[2]] \in ReqIds
      BY <1>2, Received
    <2>5. answers' \in [ReqIds -> Seq(Answers)]
      <3>1. answers \in [ReqIds -> Seq(Answers)]
        BY DEF TypeOK
      <3>2. Append(answers[ueCorrelation[c][m.id[2]]], Answer(m)) \in Seq(Answers)
        BY <2>3, <2>4, <3>1
      <3>3. \/ answers' = answers
            \/ answers' = [answers EXCEPT ![ueCorrelation[c][m.id[2]]] = Append(@, Answer(m))]
        BY <1>2 DEF ReceiveResponse
      <3> QED
        BY <2>4, <3>1, <3>2, <3>3
    <2> QED
      BY <1>2, <2>2, <2>5 DEF TypeOK, EntriesHaveOrigin, ReceiveResponse
  <1>3. ASSUME NEW s \in Servers, NEW m \in network, NEW u \in ServerReqIds, ReceiveRequest(s, m, u)
        PROVE  (TypeOK /\ EntriesHaveOrigin)'
    <2>1. m.id \in RequestIds /\ m.token \in ReqIds
      BY MessageTypes
    <2>2. TypeOK'
      BY <1>3, <2>1 DEF TypeOK, ReceiveRequest, InsertMeRequestCorrelation
    <2>3. EntriesHaveOrigin'
      BY <1>3, <2>1, NoneIsNothing DEF TypeOK, EntriesHaveOrigin, ReceiveRequest, InsertMeRequestCorrelation
    <2> QED
      BY <2>2, <2>3
  <1>4. ASSUME NEW s \in Servers, NEW u \in inbox, NEW commstatus \in Statuses,
               SendResponse(s, u, commstatus)
        PROVE  (TypeOK /\ EntriesHaveOrigin)'
    <2>1. u \in ServerReqIds /\ meCorrelation[s][u] \in RequestIds /\ origin[u] \in ReqIds
      BY <1>4, EntryType DEF TypeOK, EntriesHaveOrigin, SendResponse
    <2>2. Response(meCorrelation[s][u], origin[u], commstatus) \in ResponseMessages
      BY <2>1, ResponseType
    <2>3. TypeOK'
      BY <1>4, <2>1, <2>2 DEF TypeOK, SendResponse, RemoveMeRequestCorrelation
    <2>4. EntriesHaveOrigin'
      BY <1>4, <2>1 DEF TypeOK, EntriesHaveOrigin, SendResponse, RemoveMeRequestCorrelation
    <2> QED
      BY <2>3, <2>4
  <1>5. CASE UNCHANGED vars
    BY <1>5 DEF vars, TypeOK, EntriesHaveOrigin
  <1> QED
    BY <1>1, <1>2, <1>3, <1>4, <1>5 DEF Next

TypeInv == TypeOK /\ EntriesHaveOrigin

(* Type correctness: every variable of the correlation registries, of the  *)
(* session counts and of the network has its type in every reachable state.*)
THEOREM TypeCorrect == Spec => []TypeOK
  <1>1. Init => TypeInv
    BY InitTypeOK DEF Init, TypeInv, EntriesHaveOrigin
  <1>2. TypeInv /\ [Next]_vars => TypeInv'
    BY TypeStep DEF TypeInv
  <1>3. TypeInv => TypeOK
    BY DEF TypeInv
  <1> QED
    BY <1>1, <1>2, <1>3, PTL DEF Spec

-----------------------------------------------------------------------------
(* What the two steps that touch the client's table do to it.              *)
LEMMA InsertedEntry ==
    ASSUME TypeOK, NEW c \in Clients, NEW r \in ReqIds,
           InsertUeRequestCorrelation(c, nextSession[c], r)
    PROVE  \A d \in Clients, n \in Sessions :
             ueCorrelation'[d][n] = IF d = c /\ n = nextSession[c] THEN r ELSE ueCorrelation[d][n]
  <1>1. nextSession[c] \in Sessions
    BY DEF TypeOK
  <1>2. ueCorrelation \in [Clients -> [Sessions -> ReqIds \cup {None}]]
    BY DEF TypeOK
  <1>3. ueCorrelation' = [ueCorrelation EXCEPT ![c][nextSession[c]] = r]
    BY DEF InsertUeRequestCorrelation
  <1> QED
    BY <1>1, <1>2, <1>3, TableUpdate

LEMMA RemovedEntry ==
    ASSUME TypeOK, NEW c \in Clients, NEW n \in Sessions, RemoveUeRequestCorrelation(c, n)
    PROVE  \A d \in Clients, k \in Sessions :
             ueCorrelation'[d][k] = IF d = c /\ k = n THEN None ELSE ueCorrelation[d][k]
  <1>1. ueCorrelation \in [Clients -> [Sessions -> ReqIds \cup {None}]]
    BY DEF TypeOK
  <1>2. ueCorrelation' = [ueCorrelation EXCEPT ![c][n] = None]
    BY DEF RemoveUeRequestCorrelation
  <1> QED
    BY <1>1, <1>2, TableUpdate

Waiting(r) == \E c \in Clients, n \in Sessions : ueCorrelation[c][n] = r
IsSent(r) == \E c \in Clients : r \in sent[c]

LEMMA SentNow ==
    ASSUME TypeOK, NEW c \in Clients, NEW r \in ReqIds, NEW s \in Servers, SendRequest(c, r, s)
    PROVE  /\ ~IsSent(r)
           /\ \A d \in Clients : sent'[d] = IF d = c THEN sent[c] \cup {r} ELSE sent[d]
           /\ \A q : IsSent(q)' <=> IsSent(q) \/ q = r
  <1>1. /\ \A d \in Clients : r \notin sent[d]
        /\ sent' = [sent EXCEPT ![c] = sent[c] \cup {r}] /\ sent \in [Clients -> SUBSET ReqIds]
    BY DEF SendRequest, TypeOK
  <1>2. \A d \in Clients : sent'[d] = IF d = c THEN sent[c] \cup {r} ELSE sent[d]
    BY <1>1
  <1> QED
    BY <1>1, <1>2 DEF IsSent

(* A UUID is expected under one session id at most, and only from its      *)
(* sending to its answer.                                                  *)
Tracked ==
    /\ \A c, d \in Clients, m, n \in Sessions :
          ueCorrelation[c][m] # None /\ ueCorrelation[c][m] = ueCorrelation[d][n] => c = d /\ m = n
    /\ \A r \in ReqIds :
          /\ Waiting(r) => IsSent(r) /\ answers[r] = <<>>
          /\ ~IsSent(r) => answers[r] = <<>>
          /\ Len(answers[r]) <= 1

LEMMA TrackedStep == TypeInv /\ Tracked /\ [Next]_vars => Tracked'
  <1> SUFFICES ASSUME TypeOK, Tracked, [Next]_vars
               PROVE  Tracked'
    BY DEF TypeInv
  <1>0. None \notin ReqIds
    BY NoneIsNothing
  <1>1. ASSUME NEW c \in Clients, NEW r \in ReqIds, NEW s \in Servers, SendRequest(c, r, s)
        PROVE  Tracked'
    <2>1. ~IsSent(r) /\ (\A q : IsSent(q)' <=> IsSent(q) \/ q = r) /\ answers' = answers
      BY <1>1, SentNow DEF SendRequest
    <2>2. CASE ueCorrelation[c][nextSession[c]] = None
      <3>1. \A d \in Clients, n \in Sessions :
              ueCorrelation'[d][n] = IF d = c /\ n = nextSession[c] THEN r ELSE ueCorrelation[d][n]
        BY <1>1, <2>2, InsertedEntry DEF SendRequest
      <3>2. ~Waiting(r)
        BY <2>1 DEF Tracked
      <3> QED
        BY <1>0, <2>1, <3>1, <3>2 DEF Tracked, Waiting
    <2>3. CASE ueCorrelation[c][nextSession[c]] # None
      <3>1. ueCorrelation' = ueCorrelation
        BY <1>1, <2>3 DEF SendRequest
      <3> QED
        BY <2>1, <3>1 DEF Tracked, Waiting
    <2> QED
      BY <2>2, <2>3
  <1>2. ASSUME NEW c \in Clients, NEW m \in network, ReceiveResponse(c, m)
        PROVE  Tracked'
    <2> DEFINE n == m.id[2]
               r == ueCorrelation[c][n]
    <2>1. n \in Sessions /\ r \in ReqIds /\ sent' = sent
      <3>1. sent' = sent
        BY <1>2 DEF ReceiveResponse
      <3> QED
        BY <1>2, <3>1, Received
    <2>2. \A d \in Clients, k \in Sessions :
            ueCorrelation'[d][k] = IF d = c /\ k = n THEN None ELSE ueCorrelation[d][k]
      <3>1. RemoveUeRequestCorrelation(c, n)
        BY <1>2 DEF ReceiveResponse
      <3> QED
        BY <2>1, <3>1, RemovedEntry
    <2>3. Waiting(r) /\ answers[r] = <<>> /\ IsSent(r)
      BY <2>1 DEF Waiting, Tracked
    <2>4. answers' \in {answers, [answers EXCEPT ![r] = Append(@, Answer(m))]}
      BY <1>2 DEF ReceiveResponse
    <2>5. /\ \A q \in ReqIds \ {r} : answers'[q] = answers[q]
          /\ answers'[r] = <<>> \/ answers'[r] = Append(<<>>, Answer(m))
      BY <2>1, <2>3, <2>4 DEF TypeOK
    <2>6. ASSUME NEW q \in ReqIds PROVE Len(answers'[q]) <= 1
      <3>1. Append(<<>>, Answer(m)) = <<Answer(m)>>
        OBVIOUS
      <3>2. Len(<<>>) = 0 /\ Len(<<Answer(m)>>) = 1
        OBVIOUS
      <3>3. CASE q # r
        BY <2>5, <3>3 DEF Tracked
      <3>4. CASE q = r
        <4>1. CASE answers'[q] = <<>>
          BY <3>2, <4>1
        <4>2. CASE answers'[q] = Append(<<>>, Answer(m))
          <5>1. answers'[q] = <<Answer(m)>>
            BY <3>1, <4>2
          <5> QED
            BY <3>2, <5>1
        <4> QED
          BY <2>5, <3>4, <4>1, <4>2
      <3> QED
        BY <3>3, <3>4
    <2>7. ASSUME NEW q \in ReqIds, Waiting(q)'
          PROVE  Waiting(q) /\ q # r
      <3>1. PICK d \in Clients, k \in Sessions : ueCorrelation'[d][k] = q
        BY <2>7 DEF Waiting
      <3>2. ueCorrelation[d][k] = q /\ ~(d = c /\ k = n)
        BY <1>0, <2>2, <3>1
      <3>3. q # r
        BY <1>0, <2>1, <3>2 DEF Tracked
      <3> QED
        BY <3>2, <3>3 DEF Waiting
    <2>8. \A d, e \in Clients, j, k \in Sessions :
            ueCorrelation'[d][j] # None /\ ueCorrelation'[d][j] = ueCorrelation'[e][k] => d = e /\ j = k
      BY <2>2 DEF Tracked
    <2>9. \A q \in ReqIds : /\ Waiting(q)' => IsSent(q)' /\ answers'[q] = <<>>
                            /\ ~IsSent(q)' => answers'[q] = <<>>
      <3>1. \A q : IsSent(q)' <=> IsSent(q)
        BY <2>1 DEF IsSent
      <3> QED
        BY <2>3, <2>5, <2>7, <3>1 DEF Tracked
    <2> QED
      BY <2>6, <2>8, <2>9 DEF Tracked
  <1>3. ASSUME NEW s \in Servers, NEW m \in network, NEW u \in ServerReqIds, ReceiveRequest(s, m, u)
        PROVE  Tracked'
    BY <1>3 DEF ReceiveRequest, Tracked, Waiting, IsSent
  <1>4. ASSUME NEW s \in Servers, NEW u \in inbox, NEW commstatus \in Statuses,
               SendResponse(s, u, commstatus)
        PROVE  Tracked'
    BY <1>4 DEF SendResponse, Tracked, Waiting, IsSent
  <1>5. CASE UNCHANGED vars
    BY <1>5 DEF vars, Tracked, Waiting, IsSent
  <1> QED
    BY <1>1, <1>2, <1>3, <1>4, <1>5 DEF Next

(* Whatever the network duplicates or reorders, and however often the      *)
(* session ids wrap: a request is answered at most once, because an answer *)
(* takes the UUID out of the one place it is expected in.                  *)
THEOREM AtMostOneAnswer == Spec => []AnsweredAtMostOnce
  <1>1. Init => TypeInv /\ Tracked
    <2>1. ASSUME Init PROVE Tracked
      BY <2>1, NoneIsNothing DEF Init, Tracked, Waiting
    <2> QED
      BY <2>1, InitTypeOK DEF Init, TypeInv, EntriesHaveOrigin
  <1>2. TypeInv /\ Tracked /\ [Next]_vars => (TypeInv /\ Tracked)'
    BY TypeStep, TrackedStep DEF TypeInv
  <1>3. Tracked => AnsweredAtMostOnce
    BY DEF Tracked, AnsweredAtMostOnce
  <1> QED
    BY <1>1, <1>2, <1>3, PTL DEF Spec

-----------------------------------------------------------------------------
(* A request with this id on the wire that stands for r.                   *)
AskedBy(id, r) == \E q \in network : q.type = "MT_REQUEST" /\ q.id = id /\ q.token = r

(* What a server has to answer, and every response, goes back to a request *)
(* that is on the wire under the same client and session id.               *)
Backed ==
    /\ \A s \in Servers, u \in ServerReqIds :
          meCorrelation[s][u] # None => AskedBy(meCorrelation[s][u], origin[u])
    /\ \A m \in network : m.type # "MT_REQUEST" => AskedBy(m.id, m.token)

(* A response carries what its status becomes on the wire and goes to the  *)
(* client of its id; an answer has the status that was delivered.          *)
OnWire ==
    /\ \A m \in network : m.type # "MT_REQUEST" =>
          m.type = TypeOnWire(m.given) /\ m.code = CodeOnWire(m.given) /\ m.to = m.id[1]
    /\ \A r \in ReqIds : \A n \in DOMAIN answers[r] : answers[r][n].status = Delivered(answers[r][n].given)

(* Only a request joins the network, or a response to one.                 *)
LEMMA NewMessages ==
    ASSUME TypeInv, [Next]_vars, NEW m \in network' \ network
    PROVE  \/ \E c \in Clients, r \in ReqIds, s \in Servers :
                 SendRequest(c, r, s) /\ m = Request(c, r, s)
           \/ \E s \in Servers, u \in ServerReqIds, commstatus \in Statuses :
                 /\ meCorrelation[s][u] # None
                 /\ m = Response(meCorrelation[s][u], origin[u], commstatus)
  <1>1. ASSUME NEW c \in Clients, NEW r \in ReqIds, NEW s \in Servers, SendRequest(c, r, s)
        PROVE  m = Request(c, r, s)
    BY <1>1 DEF SendRequest
  <1>2. ASSUME NEW s \in Servers, NEW u \in inbox, NEW commstatus \in Statuses,
               SendResponse(s, u, commstatus)
        PROVE  u \in ServerReqIds /\ meCorrelation[s][u] # None
               /\ m = Response(meCorrelation[s][u], origin[u], commstatus)
    BY <1>2 DEF SendResponse, TypeInv, TypeOK
  <1>3. ASSUME NEW c \in Clients, NEW q \in network, ReceiveResponse(c, q)
        PROVE  FALSE
    BY <1>3 DEF ReceiveResponse
  <1>4. ASSUME NEW s \in Servers, NEW q \in network, NEW u \in ServerReqIds, ReceiveRequest(s, q, u)
        PROVE  FALSE
    BY <1>4 DEF ReceiveRequest
  <1>5. CASE UNCHANGED vars
    BY <1>5 DEF vars
  <1> QED
    BY <1>1, <1>2, <1>3, <1>4, <1>5 DEF Next

LEMMA NetworkGrows ==
    ASSUME [Next]_vars
    PROVE  network \subseteq network'
  BY DEF Next, SendRequest, ReceiveResponse, ReceiveRequest, SendResponse, vars

LEMMA BackedStep == TypeInv /\ Backed /\ [Next]_vars => Backed'
  <1> SUFFICES ASSUME TypeInv, Backed, [Next]_vars
               PROVE  Backed'
    OBVIOUS
  <1>1. \A id, r : AskedBy(id, r) => AskedBy(id, r)'
    BY NetworkGrows DEF AskedBy
  <1>2. ASSUME NEW m \in network', m.type # "MT_REQUEST"
        PROVE  AskedBy(m.id, m.token)'
    <2>1. CASE m \in network
      BY <1>1, <1>2, <2>1 DEF Backed
    <2>2. CASE m \notin network
      <3>1. \A c \in Clients, r \in ReqIds, s \in Servers : m # Request(c, r, s)
        BY <1>2 DEF Request
      <3>2. PICK s \in Servers, u \in ServerReqIds, commstatus \in Statuses :
              /\ meCorrelation[s][u] # None
              /\ m = Response(meCorrelation[s][u], origin[u], commstatus)
        BY <2>2, <3>1, NewMessages
      <3>3. m.id = meCorrelation[s][u] /\ m.token = origin[u]
        BY <3>2 DEF Response
      <3> QED
        BY <1>1, <3>2, <3>3 DEF Backed
    <2> QED
      BY <2>1, <2>2
  <1>3. ASSUME NEW s \in Servers, NEW u \in ServerReqIds, meCorrelation'[s][u] # None
        PROVE  AskedBy(meCorrelation[s][u], origin[u])'
    <2>1. CASE meCorrelation'[s][u] = meCorrelation[s][u] /\ origin'[u] = origin[u]
      BY <1>1, <1>3, <2>1 DEF Backed
    <2>2. ASSUME NEW z \in Servers, NEW m \in network, NEW v \in ServerReqIds, ReceiveRequest(z, m, v)
          PROVE  AskedBy(meCorrelation[s][u], origin[u])'
      <3>1. /\ origin[v] = None /\ origin' = [origin EXCEPT ![v] = m.token]
            /\ meCorrelation' = [meCorrelation EXCEPT ![z][v] = m.id]
            /\ m.type = "MT_REQUEST"
        BY <2>2 DEF ReceiveRequest, InsertMeRequestCorrelation
      <3>2. m.id \in RequestIds
        BY MessageTypes DEF TypeInv
      <3>3. meCorrelation'[s][u] = IF s = z /\ u = v THEN m.id ELSE meCorrelation[s][u]
        BY <3>1, <3>2, TableUpdate DEF TypeInv, TypeOK
      <3>4. CASE u = v
        <4>1. s = z
          BY <1>3, <3>1, <3>3, <3>4 DEF TypeInv, EntriesHaveOrigin
        <4>2. meCorrelation'[s][u] = m.id /\ origin'[u] = m.token
          BY <3>1, <3>3, <3>4, <4>1 DEF TypeInv, TypeOK
        <4>3. AskedBy(m.id, m.token)
          BY <3>1 DEF AskedBy
        <4> QED
          BY <1>1, <4>2, <4>3
      <3>5. CASE u # v
        BY <2>1, <3>1, <3>3, <3>5 DEF TypeInv, TypeOK
      <3> QED
        BY <3>4, <3>5
    <2>3. ASSUME NEW z \in Servers, NEW v \in inbox, NEW commstatus \in Statuses,
                 SendResponse(z, v, commstatus)
          PROVE  AskedBy(meCorrelation[s][u], origin[u])'
      <3>1. origin' = origin /\ meCorrelation' = [meCorrelation EXCEPT ![z][v] = None]
        BY <2>3 DEF SendResponse, RemoveMeRequestCorrelation
      <3>2. v \in ServerReqIds
        BY DEF TypeInv, TypeOK
      <3>3. meCorrelation'[s][u] = IF s = z /\ u = v THEN None ELSE meCorrelation[s][u]
        BY <3>1, <3>2, TableUpdate DEF TypeInv, TypeOK
      <3> QED
        BY <1>3, <2>1, <3>1, <3>3
    <2>4. ASSUME NEW c \in Clients, NEW r \in ReqIds, NEW z \in Servers, SendRequest(c, r, z)
          PROVE  AskedBy(meCorrelation[s][u], origin[u])'
      BY <2>1, <2>4 DEF SendRequest
    <2>5. ASSUME NEW c \in Clients, NEW m \in network, ReceiveResponse(c, m)
          PROVE  AskedBy(meCorrelation[s][u], origin[u])'
      BY <2>1, <2>5 DEF ReceiveResponse
    <2>6. CASE UNCHANGED vars
      BY <2>1, <2>6 DEF vars
    <2> QED
      BY <2>2, <2>3, <2>4, <2>5, <2>6 DEF Next
  <1> QED
    BY <1>2, <1>3 DEF Backed

(* A response on the wire carries the id of the request it answers.        *)
THEOREM ResponsesAnswerRequests == Spec => []ResponsesGoToTheirAsker
  <1>1. Init => TypeInv /\ Backed
    BY InitTypeOK DEF Init, TypeInv, EntriesHaveOrigin, Backed
  <1>2. TypeInv /\ Backed /\ [Next]_vars => (TypeInv /\ Backed)'
    BY TypeStep, BackedStep DEF TypeInv
  <1>3. Backed => ResponsesGoToTheirAsker
    BY DEF Backed, AskedBy, ResponsesGoToTheirAsker
  <1> QED
    BY <1>1, <1>2, <1>3, PTL DEF Spec

-----------------------------------------------------------------------------
(* What happens to the answers: nothing, or the response m is appended to  *)
(* those of the request that its session id is expected for.               *)
AnsweredBy(c, m) ==
    /\ m \in network /\ m.type # "MT_REQUEST" /\ m.to = c
    /\ ueCorrelation[c][m.id[2]] # None

LEMMA AnswerStep ==
    ASSUME TypeOK, [Next]_vars, NEW r \in ReqIds, NEW n \in DOMAIN answers'[r]
    PROVE  \/ n \in DOMAIN answers[r] /\ answers'[r][n] = answers[r][n]
           \/ \E c \in Clients, m \in network :
                 AnsweredBy(c, m) /\ r = ueCorrelation[c][m.id[2]] /\ answers'[r][n] = Answer(m)
  <1>1. ASSUME answers' = answers
        PROVE  n \in DOMAIN answers[r] /\ answers'[r][n] = answers[r][n]
    BY <1>1
  <1>2. ASSUME NEW c \in Clients, NEW m \in network, ReceiveResponse(c, m), answers' # answers
        PROVE  \/ n \in DOMAIN answers[r] /\ answers'[r][n] = answers[r][n]
               \/ AnsweredBy(c, m) /\ r = ueCorrelation[c][m.id[2]] /\ answers'[r][n] = Answer(m)
    <2> DEFINE q == ueCorrelation[c][m.id[2]]
    <2>1. AnsweredBy(c, m)
      BY <1>2 DEF ReceiveResponse, AnsweredBy
    <2>2. q \in ReqIds /\ Answer(m) \in Answers
      BY <1>2, Received
    <2>3. answers' = [answers EXCEPT ![q] = Append(answers[q], Answer(m))]
      BY <1>2 DEF ReceiveResponse
    <2>4. CASE r # q
      BY <2>2, <2>3, <2>4 DEF TypeOK
    <2>5. CASE r = q
      <3>1. answers[r] \in Seq(Answers) /\ answers'[r] = Append(answers[r], Answer(m))
        BY <2>3, <2>5 DEF TypeOK
      <3>2. n \in DOMAIN answers[r] \/ n = Len(answers[r]) + 1
        BY <2>2, <3>1
      <3> HIDE DEF q
      <3>3. CASE n \in DOMAIN answers[r]
        BY <2>2, <3>1, <3>3
      <3>4. CASE n = Len(answers[r]) + 1
        <4>1. answers'[r][n] = Answer(m)
          BY <2>2, <3>1, <3>4
        <4> QED
          BY <2>1, <2>5, <4>1 DEF q
      <3> QED
        BY <3>2, <3>3, <3>4
    <2> QED
      BY <2>4, <2>5
  <1>3. answers' = answers \/ \E c \in Clients, m \in network : ReceiveResponse(c, m)
    BY DEF Next, SendRequest, ReceiveRequest, SendResponse, vars
  <1> QED
    BY <1>1, <1>2, <1>3

LEMMA OnWireStep == TypeInv /\ OnWire /\ [Next]_vars => OnWire'
  <1> SUFFICES ASSUME TypeInv, OnWire, [Next]_vars
               PROVE  OnWire'
    OBVIOUS
  <1>1. ASSUME NEW m \in network', m.type # "MT_REQUEST"
        PROVE  m.type = TypeOnWire(m.given) /\ m.code = CodeOnWire(m.given) /\ m.to = m.id[1]
    <2>1. CASE m \in network
      BY <1>1, <2>1 DEF OnWire
    <2>2. CASE m \notin network
      <3>1. \A c \in Clients, r \in ReqIds, s \in Servers : m # Request(c, r, s)
        BY <1>1 DEF Request
      <3>2. PICK s \in Servers, u \in ServerReqIds, commstatus \in Statuses :
              m = Response(meCorrelation[s][u], origin[u], commstatus)
        BY <2>2, <3>1, NewMessages
      <3> QED
        BY <3>2 DEF Response
    <2> QED
      BY <2>1, <2>2
  <1>2. ASSUME NEW r \in ReqIds, NEW n \in DOMAIN answers'[r]
        PROVE  answers'[r][n].status = Delivered(answers'[r][n].given)
    <2>1. CASE n \in DOMAIN answers[r] /\ answers'[r][n] = answers[r][n]
      BY <2>1 DEF OnWire
    <2>2. ASSUME NEW c \in Clients, NEW m \in network, AnsweredBy(c, m), answers'[r][n] = Answer(m)
          PROVE  answers'[r][n].status = Delivered(answers'[r][n].given)
      BY <2>2 DEF OnWire, AnsweredBy, Answer, Delivered
    <2> QED
      BY <2>1, <2>2, AnswerStep DEF TypeInv
  <1> QED
    BY <1>1, <1>2 DEF OnWire

(* The asker is told a success exactly when the listener said one, and no  *)
(* code that a further trip would change, for all status codes.            *)
THEOREM StatusArrives == Spec => []StatusSurvives
  <1>1. Init => TypeInv /\ OnWire
    BY InitTypeOK DEF Init, TypeInv, EntriesHaveOrigin, OnWire
  <1>2. TypeInv /\ OnWire /\ [Next]_vars => (TypeInv /\ OnWire)'
    BY TypeStep, OnWireStep DEF TypeInv
  <1>3. TypeInv /\ OnWire => StatusSurvives
    <2> SUFFICES ASSUME TypeInv, OnWire, NEW r \in ReqIds, NEW n \in DOMAIN answers[r]
                 PROVE  LET a == answers[r][n] IN
                        (a.status = "OK" <=> IsSuccess(a.given)) /\ Delivered(a.status) = a.status
      BY DEF StatusSurvives
    <2>1. answers[r] \in Seq(Answers)
      BY DEF TypeInv, TypeOK
    <2>2. answers[r][n] \in Answers
      BY <2>1
    <2>3. answers[r][n].given \in CommStatuses
      BY <2>2 DEF Answers
    <2>4. answers[r][n].status = Delivered(answers[r][n].given)
      BY DEF OnWire
    <2> QED
      BY <2>3, <2>4, StatusRoundTrip
  <1> QED
    BY <1>1, <1>2, <1>3, PTL DEF Spec

-----------------------------------------------------------------------------
(* Session n of client c has not been used yet.                            *)
Fresh(c, n) == nextSession[c] # 0 /\ n >= nextSession[c]

(* The client's count is vsomeip's, and as far on as requests were tried;  *)
(* it wraps only when all but one session ids are used up.                 *)
CountsAgree(c) ==
    IF nextSession[c] = 0 THEN Cardinality(sent[c]) >= SessionModulus - 1
    ELSE vsomeipSession[c] = nextSession[c] /\ nextSession[c] <= Cardinality(sent[c]) + 1

(* A session id that is fresh is on no message and expected by nobody; one *)
(* that is not is on requests for one UUID only, the one it is expected to *)
(* be answered under.                                                      *)
IdsUsedOnce(c) ==
    /\ \A n \in Sessions : Fresh(c, n) => ueCorrelation[c][n] = None
    /\ \A q \in network : q.type = "MT_REQUEST" /\ q.id[1] = c =>
          ~Fresh(c, q.id[2]) /\ ueCorrelation[c][q.id[2]] \in {None, q.token}

WithinLap(c) == CountsAgree(c) /\ IdsUsedOnce(c) /\ \A r \in sent[c] : AnsweredRight(r)

SentOnce ==
    /\ \A c \in Clients, n \in Sessions : ueCorrelation[c][n] # None => ueCorrelation[c][n] \in sent[c]
    /\ \A c, d \in Clients : \A r : r \in sent[c] /\ r \in sent[d] => c = d

Lap ==
    \A c \in Clients : /\ IsFiniteSet(sent[c])
                       /\ Cardinality(sent[c]) < SessionModulus => WithinLap(c)

LEMMA SentOnceStep == TypeInv /\ SentOnce /\ [Next]_vars => SentOnce'
  <1> SUFFICES ASSUME TypeOK, SentOnce, [Next]_vars
               PROVE  SentOnce'
    BY DEF TypeInv
  <1>1. ASSUME NEW c \in Clients, NEW r \in ReqIds, NEW s \in Servers, SendRequest(c, r, s)
        PROVE  SentOnce'
    <2>1. /\ ~IsSent(r)
          /\ \A d \in Clients : sent'[d] = IF d = c THEN sent[c] \cup {r} ELSE sent[d]
      BY <1>1, SentNow
    <2>2. \A d \in Clients, k \in Sessions :
            ueCorrelation'[d][k] = ueCorrelation[d][k] \/ (d = c /\ ueCorrelation'[d][k] = r)
      <3>1. CASE ueCorrelation[c][nextSession[c]] = None
        BY <1>1, <3>1, InsertedEntry DEF SendRequest
      <3>2. CASE ueCorrelation[c][nextSession[c]] # None
        BY <1>1, <3>2 DEF SendRequest
      <3> QED
        BY <3>1, <3>2
    <2>3. ASSUME NEW d \in Clients, NEW e \in Clients, NEW q, q \in sent'[d], q \in sent'[e]
          PROVE  d = e
      BY <2>1, <2>3 DEF SentOnce, IsSent
    <2>4. ASSUME NEW d \in Clients, NEW k \in Sessions, ueCorrelation'[d][k] # None
          PROVE  ueCorrelation'[d][k] \in sent'[d]
      BY <2>1, <2>2, <2>4 DEF SentOnce
    <2> QED
      BY <2>3, <2>4 DEF SentOnce
  <1>2. ASSUME NEW c \in Clients, NEW m \in network, ReceiveResponse(c, m)
        PROVE  SentOnce'
    <2>1. m.id[2] \in Sessions /\ sent' = sent /\ RemoveUeRequestCorrelation(c, m.id[2])
      BY <1>2, Received DEF ReceiveResponse
    <2>2. \A d \in Clients, k \in Sessions :
            ueCorrelation'[d][k] = IF d = c /\ k = m.id[2] THEN None ELSE ueCorrelation[d][k]
      BY <2>1, RemovedEntry
    <2> QED
      BY <2>1, <2>2 DEF SentOnce
  <1>3. ASSUME UNCHANGED <<ueCorrelation, sent>>
        PROVE  SentOnce'
    BY <1>3 DEF SentOnce
  <1> QED
    BY <1>1, <1>2, <1>3 DEF Next, ReceiveRequest, SendResponse, vars

(* A client's request keeps its lap...                                     *)
LEMMA LapOfSendRequest ==
    ASSUME TypeInv, Tracked, NEW c \in Clients, IsFiniteSet(sent[c]), WithinLap(c),
           NEW r \in ReqIds, NEW s \in Servers, SendRequest(c, r, s),
           Cardinality(sent[c]) \in Nat, Cardinality(sent'[c]) = Cardinality(sent[c]) + 1,
           Cardinality(sent'[c]) < SessionModulus
    PROVE  WithinLap(c)'
  <1> DEFINE n == nextSession[c]
  <1>1. n \in Sessions /\ nextSession \in [Clients -> Sessions]
        /\ vsomeipSession \in [Clients -> Sessions] /\ SessionModulus \in Nat
    BY RpcAssumption DEF TypeInv, TypeOK
  <1>2. n # 0 /\ vsomeipSession[c] = n /\ n <= Cardinality(sent[c]) + 1
    BY <1>1 DEF WithinLap, CountsAgree, Sessions
  <1>3. Fresh(c, n) /\ ueCorrelation[c][n] = None
    BY <1>1, <1>2 DEF Fresh, Sessions, WithinLap, IdsUsedOnce
  <1>4. nextSession' = [nextSession EXCEPT ![c] = Following(n)]
        /\ vsomeipSession' = [vsomeipSession EXCEPT ![c] = VsomeipFollowing(vsomeipSession[c])]
        /\ network' = network \cup {Request(c, r, s)}
        /\ answers' = answers
    BY <1>3 DEF SendRequest
  <1>5. \A k \in Sessions : ueCorrelation'[c][k] = IF k = n THEN r ELSE ueCorrelation[c][k]
    BY <1>3, InsertedEntry DEF SendRequest, TypeInv
  <1>6. Following(n) = IF n + 1 = SessionModulus THEN 0 ELSE n + 1
    BY <1>1, FollowingWraps
  <1>7. nextSession'[c] = Following(n) /\ vsomeipSession'[c] = VsomeipFollowing(n)
    BY <1>1, <1>2, <1>4
  <1>8. CountsAgree(c)'
    <2>1. CASE n + 1 = SessionModulus
      BY <1>1, <1>2, <1>6, <1>7, <2>1 DEF CountsAgree, Sessions
    <2>2. CASE n + 1 # SessionModulus
      <3>1. Following(n) = n + 1 /\ n + 1 # 0
        BY <1>1, <1>6, <2>2 DEF Sessions
      <3>2. VsomeipFollowing(n) = n + 1
        BY <3>1 DEF VsomeipFollowing
      <3> QED
        BY <1>1, <1>2, <1>7, <3>1, <3>2 DEF CountsAgree, Sessions
    <2> QED
      BY <2>1, <2>2
  <1>9. \A k \in Sessions : Fresh(c, k)' => Fresh(c, k) /\ k # n
    <2> SUFFICES ASSUME NEW k \in Sessions, Fresh(c, k)'
                 PROVE  Fresh(c, k) /\ k # n
      OBVIOUS
    <2>1. nextSession'[c] = n + 1 /\ k >= n + 1
      BY <1>6, <1>7 DEF Fresh
    <2> QED
      BY <1>1, <1>2, <2>1 DEF Fresh, Sessions
  <1>10. IdsUsedOnce(c)'
    <2>1. ASSUME NEW k \in Sessions, Fresh(c, k)'
          PROVE  ueCorrelation'[c][k] = None
      <3>1. Fresh(c, k) /\ k # n
        BY <1>9, <2>1
      <3> QED
        BY <1>5, <3>1 DEF WithinLap, IdsUsedOnce
    <2>2. ASSUME NEW q \in network', q.type = "MT_REQUEST", q.id[1] = c
          PROVE  ~Fresh(c, q.id[2])' /\ ueCorrelation'[c][q.id[2]] \in {None, q.token}
      <3>1. CASE q \in network
        <4>1. PICK k \in Sessions : k = q.id[2]
          BY <3>1, MessageTypes DEF TypeInv
        <4>2. ~Fresh(c, k) /\ ueCorrelation[c][k] \in {None, q.token}
          BY <2>2, <3>1, <4>1 DEF WithinLap, IdsUsedOnce
        <4>3. k # n
          BY <1>3, <4>2
        <4>4. ~Fresh(c, k)' /\ ueCorrelation'[c][k] = ueCorrelation[c][k]
          BY <1>5, <1>9, <4>2, <4>3
        <4> QED
          BY <4>1, <4>2, <4>4
      <3>2. CASE q = Request(c, r, s)
        <4>1. PICK k \in Sessions : k = n
          BY <1>1
        <4>2. q.id[2] = k /\ q.token = r
          BY <1>2, <3>2, <4>1 DEF Request
        <4>3. ueCorrelation'[c][k] = r
          BY <1>5, <4>1
        <4>4. ~Fresh(c, k)'
          BY <1>9, <4>1
        <4> QED
          BY <4>2, <4>3, <4>4
      <3> QED
        BY <1>4, <2>2, <3>1, <3>2
    <2> QED
      BY <2>1, <2>2 DEF IdsUsedOnce
  <1>11. ASSUME NEW q \in sent'[c]
         PROVE  AnsweredRight(q)'
    <2>1. ~IsSent(r) /\ sent'[c] = sent[c] \cup {r}
      BY SentNow DEF TypeInv
    <2>2. CASE q \in sent[c]
      BY <1>4, <2>2 DEF WithinLap, AnsweredRight
    <2>3. CASE q = r
      <3>1. answers[r] = <<>>
        BY <2>1 DEF Tracked
      <3>2. DOMAIN answers'[q] = {}
        BY <1>4, <2>3, <3>1
      <3> QED
        BY <3>2 DEF AnsweredRight
    <2> QED
      BY <2>1, <2>2, <2>3
  <1> QED
    BY <1>8, <1>10, <1>11 DEF WithinLap

(* ... and so does a response that it receives.                            *)
LEMMA LapOfReceiveResponse ==
    ASSUME TypeInv, Backed, OnWire, SentOnce, NEW c \in Clients, WithinLap(c),
           NEW d \in Clients, NEW m \in network, ReceiveResponse(d, m)
    PROVE  WithinLap(c)'
  <1> DEFINE n == m.id[2]
  <1>1. n \in Sessions /\ m.type # "MT_REQUEST"
    BY MessageTypes DEF TypeInv, ReceiveResponse
  <1>2. \A k \in Sessions : ueCorrelation'[c][k] \in {None, ueCorrelation[c][k]}
    <2>1. RemoveUeRequestCorrelation(d, n)
      BY DEF ReceiveResponse
    <2> QED
      BY <1>1, <2>1, RemovedEntry DEF TypeInv
  <1>3. nextSession' = nextSession /\ vsomeipSession' = vsomeipSession /\ network' = network /\ sent' = sent
    BY DEF ReceiveResponse
  <1>4. CountsAgree(c)'
    BY <1>3 DEF WithinLap, CountsAgree
  <1>5. IdsUsedOnce(c)'
    <2>1. \A k \in Sessions : Fresh(c, k)' => ueCorrelation'[c][k] = None
      BY <1>2, <1>3 DEF WithinLap, IdsUsedOnce, Fresh
    <2>2. ASSUME NEW q \in network, q.type = "MT_REQUEST", q.id[1] = c
          PROVE  ~Fresh(c, q.id[2])' /\ ueCorrelation'[c][q.id[2]] \in {None, q.token}
      <3>1. PICK k \in Sessions : k = q.id[2]
        BY MessageTypes DEF TypeInv
      <3>2. ~Fresh(c, k) /\ ueCorrelation[c][k] \in {None, q.token}
        BY <2>2, <3>1 DEF WithinLap, IdsUsedOnce
      <3>3. ~Fresh(c, k)' /\ ueCorrelation'[c][k] \in {None, q.token}
        BY <1>2, <1>3, <3>2 DEF Fresh
      <3> QED
        BY <3>1, <3>3
    <2> QED
      BY <1>3, <2>1, <2>2 DEF IdsUsedOnce
  <1>6. ASSUME NEW r \in sent[c], NEW k \in DOMAIN answers'[r]
        PROVE  answers'[r][k].token = r
    <2>0. r \in ReqIds
      BY DEF TypeInv, TypeOK
    <2>1. CASE k \in DOMAIN answers[r] /\ answers'[r][k] = answers[r][k]
      BY <2>1 DEF WithinLap, AnsweredRight
    <2>2. ASSUME NEW e \in Clients, NEW w \in network, AnsweredBy(e, w),
                 r = ueCorrelation[e][w.id[2]], answers'[r][k] = Answer(w)
          PROVE  answers'[r][k].token = r
      <3>1. PICK q \in network : q.type = "MT_REQUEST" /\ q.id = w.id /\ q.token = w.token
        BY <2>2 DEF Backed, AskedBy, AnsweredBy
      <3>2. w.id[1] = e /\ w.id[2] \in Sessions /\ r # None
        BY <2>2, MessageTypes DEF AnsweredBy, OnWire, TypeInv
      <3>3. e = c
        BY <2>2, <3>2 DEF SentOnce
      <3>4. ueCorrelation[c][w.id[2]] = w.token
        BY <2>2, <3>1, <3>2, <3>3 DEF WithinLap, IdsUsedOnce
      <3> QED
        BY <2>2, <3>3, <3>4 DEF Answer
    <2>3. [Next]_vars
      BY DEF Next
    <2> QED
      BY <2>0, <2>1, <2>2, <2>3, AnswerStep DEF TypeInv
  <1> QED
    BY <1>3, <1>4, <1>5, <1>6 DEF WithinLap, AnsweredRight

(* What others send does not touch it.                                     *)
LEMMA LapOfOthers ==
    ASSUME TypeInv, NEW c \in Clients, WithinLap(c), answers' = answers,
           nextSession'[c] = nextSession[c], vsomeipSession'[c] = vsomeipSession[c],
           sent'[c] = sent[c], \A k \in Sessions : ueCorrelation'[c][k] = ueCorrelation[c][k],
           \A q \in network' \ network : ~(q.type = "MT_REQUEST" /\ q.id[1] = c)
    PROVE  WithinLap(c)'
  <1>1. CountsAgree(c)' /\ \A r \in sent'[c] : AnsweredRight(r)'
    BY DEF WithinLap, CountsAgree, AnsweredRight
  <1>2. ASSUME NEW q \in network', q.type = "MT_REQUEST", q.id[1] = c
        PROVE  ~Fresh(c, q.id[2])' /\ ueCorrelation'[c][q.id[2]] \in {None, q.token}
    <2>1. q \in network
      BY <1>2
    <2>2. q.id[2] \in Sessions
      BY <2>1, MessageTypes DEF TypeInv
    <2>3. ~Fresh(c, q.id[2]) /\ ueCorrelation[c][q.id[2]] \in {None, q.token}
      BY <1>2, <2>1 DEF WithinLap, IdsUsedOnce
    <2> QED
      BY <2>2, <2>3 DEF Fresh
  <1>3. IdsUsedOnce(c)'
    BY <1>2 DEF WithinLap, IdsUsedOnce, Fresh
  <1> QED
    BY <1>1, <1>3 DEF WithinLap

IInv == TypeInv /\ Tracked /\ Backed /\ OnWire /\ SentOnce /\ Lap

LEMMA LapOfOtherClients ==
    ASSUME TypeInv, NEW c \in Clients, WithinLap(c),
           NEW d \in Clients, d # c, NEW r \in ReqIds, NEW s \in Servers, SendRequest(d, r, s)
    PROVE  WithinLap(c)'
  <1>1. nextSession'[c] = nextSession[c] /\ vsomeipSession'[c] = vsomeipSession[c]
    BY DEF SendRequest, TypeInv, TypeOK
  <1>2. sent'[c] = sent[c] /\ answers' = answers
    BY SentNow DEF SendRequest, TypeInv
  <1>3. \A k \in Sessions : ueCorrelation'[c][k] = ueCorrelation[c][k]
    <2>1. CASE ueCorrelation[d][nextSession[d]] = None
      BY <2>1, InsertedEntry DEF SendRequest, TypeInv
    <2>2. CASE ueCorrelation[d][nextSession[d]] # None
      BY <2>2 DEF SendRequest
    <2> QED
      BY <2>1, <2>2
  <1>4. \A q \in network' \ network : q.id[1] = d
    BY DEF SendRequest, Request
  <1> QED
    BY <1>1, <1>2, <1>3, <1>4, LapOfOthers

LEMMA LapStep == IInv /\ [Next]_vars => Lap'
  <1> SUFFICES ASSUME IInv, [Next]_vars, NEW c \in Clients
               PROVE  /\ IsFiniteSet(sent'[c])
                      /\ Cardinality(sent'[c]) < SessionModulus => WithinLap(c)'
    BY DEF Lap
  <1>1. /\ TypeInv /\ Tracked /\ Backed /\ OnWire /\ SentOnce /\ IsFiniteSet(sent[c])
        /\ Cardinality(sent[c]) < SessionModulus => WithinLap(c)
        /\ Cardinality(sent[c]) \in Nat /\ SessionModulus \in Nat
    BY FS_CardinalityType, RpcAssumption DEF IInv, Lap
  <1>2. ASSUME NEW d \in Clients, NEW r \in ReqIds, NEW s \in Servers, SendRequest(d, r, s)
        PROVE  /\ IsFiniteSet(sent'[c])
               /\ Cardinality(sent'[c]) < SessionModulus => WithinLap(c)'
    <2>1. ~IsSent(r) /\ \A e \in Clients : sent'[e] = IF e = d THEN sent[d] \cup {r} ELSE sent[e]
      BY <1>1, <1>2, SentNow DEF TypeInv
    <2>2. CASE d = c
      <3>1. sent'[c] = sent[c] \cup {r} /\ r \notin sent[c]
        BY <2>1, <2>2 DEF IsSent
      <3>2. IsFiniteSet(sent'[c]) /\ Cardinality(sent'[c]) = Cardinality(sent[c]) + 1
        BY <1>1, <3>1, FS_AddElement
      <3>3. ASSUME Cardinality(sent'[c]) < SessionModulus
            PROVE  WithinLap(c)'
        <4>1. WithinLap(c)
          BY <1>1, <3>2, <3>3
        <4>2. SendRequest(c, r, s)
          BY <1>2, <2>2
        <4> QED
          BY <1>1, <3>2, <3>3, <4>1, <4>2, LapOfSendRequest
      <3> QED
        BY <3>2, <3>3
    <2>3. CASE d # c
      <3>1. sent'[c] = sent[c]
        BY <2>1, <2>3
      <3> QED
        BY <1>1, <1>2, <2>3, <3>1, LapOfOtherClients
    <2> QED
      BY <2>2, <2>3
  <1>3. ASSUME NEW d \in Clients, NEW m \in network, ReceiveResponse(d, m)
        PROVE  /\ IsFiniteSet(sent'[c])
               /\ Cardinality(sent'[c]) < SessionModulus => WithinLap(c)'
    <2>1. sent' = sent
      BY <1>3 DEF ReceiveResponse
    <2> QED
      BY <1>1, <1>3, <2>1, LapOfReceiveResponse
  <1>4. ASSUME UNCHANGED <<nextSession, vsomeipSession, ueCorrelation, sent, answers>>,
               \A q \in network' \ network : q.type # "MT_REQUEST"
        PROVE  /\ IsFiniteSet(sent'[c])
               /\ Cardinality(sent'[c]) < SessionModulus => WithinLap(c)'
    BY <1>1, <1>4, LapOfOthers
  <1>5. ASSUME NEW s \in Servers, NEW u \in inbox, NEW commstatus \in Statuses,
               SendResponse(s, u, commstatus)
        PROVE  \A q \in network' \ network : q.type # "MT_REQUEST"
    BY <1>5 DEF SendResponse, Response, TypeOnWire
  <1> QED
    BY <1>2, <1>3, <1>4, <1>5 DEF Next, ReceiveRequest, SendResponse, vars

LEMMA InitIInv == Init => IInv
  <1> SUFFICES ASSUME Init
               PROVE  IInv
    OBVIOUS
  <1>1. TypeInv /\ Tracked /\ Backed /\ OnWire
    BY InitTypeOK, NoneIsNothing DEF Init, TypeInv, EntriesHaveOrigin, Tracked, Waiting, Backed, OnWire
  <1>2. SentOnce
    BY DEF Init, SentOnce
  <1>3. ASSUME NEW c \in Clients
        PROVE  IsFiniteSet(sent[c]) /\ WithinLap(c)
    <2>1. sent[c] = {} /\ nextSession[c] = 1 /\ vsomeipSession[c] = 1 /\ network = {}
      BY DEF Init
    <2>2. IsFiniteSet(sent[c]) /\ Cardinality(sent[c]) = 0
      BY <2>1, FS_EmptySet
    <2>3. CountsAgree(c)
      BY <2>1, <2>2 DEF CountsAgree
    <2>4. IdsUsedOnce(c)
      BY <2>1 DEF Init, IdsUsedOnce
    <2> QED
      BY <2>1, <2>2, <2>3, <2>4 DEF WithinLap
  <1> QED
    BY <1>1, <1>2, <1>3 DEF IInv, Lap

LEMMA IInvStep == IInv /\ [Next]_vars => IInv'
  BY TypeStep, TrackedStep, BackedStep, OnWireStep, SentOnceStep, LapStep DEF IInv, TypeInv

(* Until a client's session ids are used up once, it is given, under the   *)
(* UUID of a request, nothing but the answer to that request: for every    *)
(* number of session ids, whether or not vsomeip skips 0, and however many *)
(* requests the other clients send.                                        *)
THEOREM RightAnswerWithinOneLap == Spec => []AnswersWithinOneLap
  <1>1. IInv => AnswersWithinOneLap
    BY DEF IInv, Lap, WithinLap, AnswersWithinOneLap
  <1> QED
    BY InitIInv, IInvStep, <1>1, PTL DEF Spec

(* Until a lap is over, the entry of the id 0, at its end, is not there.   *)
Unrefused ==
    \A c \in Clients :
        /\ Cardinality(sent[c]) < SessionModulus => ueCorrelation[c][0] = None
        /\ Cardinality(sent[c]) <= SessionModulus => \A r \in sent[c] : Asked(r)

LEMMA UnrefusedStep == IInv /\ Unrefused /\ [Next]_vars => Unrefused'
  <1> SUFFICES ASSUME IInv, Unrefused, [Next]_vars, NEW c \in Clients
               PROVE  /\ Cardinality(sent'[c]) < SessionModulus => ueCorrelation'[c][0] = None
                      /\ Cardinality(sent'[c]) <= SessionModulus => \A r \in sent'[c] : Asked(r)'
    BY DEF Unrefused
  <1>1. /\ TypeInv /\ IsFiniteSet(sent[c])
        /\ Cardinality(sent[c]) < SessionModulus => WithinLap(c)
        /\ Cardinality(sent[c]) \in Nat /\ SessionModulus \in Nat /\ 0 \in Sessions
    BY FS_CardinalityType, RpcAssumption DEF IInv, Lap, Sessions
  <1>2. network \subseteq network'
    BY DEF Next, SendRequest, ReceiveResponse, ReceiveRequest, SendResponse, vars
  <1>3. \A r : Asked(r) => Asked(r)'
    BY <1>2 DEF Asked
  <1>4. ASSUME sent'[c] = sent[c], ueCorrelation'[c][0] \in {None, ueCorrelation[c][0]}
        PROVE  /\ Cardinality(sent'[c]) < SessionModulus => ueCorrelation'[c][0] = None
               /\ Cardinality(sent'[c]) <= SessionModulus => \A r \in sent'[c] : Asked(r)'
    BY <1>3, <1>4 DEF Unrefused
  <1>5. ASSUME NEW r \in ReqIds, NEW s \in Servers, SendRequest(c, r, s)
        PROVE  /\ Cardinality(sent'[c]) < SessionModulus => ueCorrelation'[c][0] = None
               /\ Cardinality(sent'[c]) <= SessionModulus => \A q \in sent'[c] : Asked(q)'
    <2> DEFINE n == nextSession[c]
    <2>1. sent'[c] = sent[c] \cup {r} /\ r \notin sent[c] /\ n \in Sessions
      BY <1>1, <1>5, SentNow DEF IsSent, TypeInv, TypeOK
    <2>2. Cardinality(sent'[c]) = Cardinality(sent[c]) + 1
      BY <1>1, <2>1, FS_AddElement
    <2>3. ASSUME Cardinality(sent'[c]) <= SessionModulus
          PROVE  ueCorrelation[c][n] = None
      <3>1. Cardinality(sent[c]) < SessionModulus /\ WithinLap(c)
        BY <1>1, <2>2, <2>3
      <3>2. CASE n = 0
        BY <3>1, <3>2 DEF Unrefused
      <3>3. CASE n # 0
        <4>1. Fresh(c, n)
          BY <2>1, <3>3 DEF Fresh, Sessions
        <4> QED
          BY <2>1, <3>1, <4>1 DEF WithinLap, IdsUsedOnce
      <3> QED
        BY <3>2, <3>3
    <2>4. ASSUME Cardinality(sent'[c]) <= SessionModulus
          PROVE  \A q \in sent'[c] : Asked(q)'
      <3>1. Request(c, r, s) \in network'
        BY <1>5, <2>3, <2>4 DEF SendRequest
      <3>2. Asked(r)'
        BY <3>1 DEF Asked, Request
      <3>3. \A q \in sent[c] : Asked(q)
        BY <1>1, <2>2, <2>4 DEF Unrefused
      <3> QED
        BY <1>3, <2>1, <3>2, <3>3
    <2>5. ASSUME Cardinality(sent'[c]) < SessionModulus
          PROVE  ueCorrelation'[c][0] = None
      <3>1. WithinLap(c) /\ Cardinality(sent[c]) < SessionModulus - 1
        BY <1>1, <2>2, <2>5
      <3>2. n # 0
        BY <1>1, <3>1 DEF WithinLap, CountsAgree
      <3>3. ueCorrelation[c][n] = None
        BY <1>1, <2>2, <2>3, <2>5
      <3>4. ueCorrelation'[c][0] = ueCorrelation[c][0]
        BY <1>1, <1>5, <3>2, <3>3, InsertedEntry DEF SendRequest, TypeInv
      <3> QED
        BY <3>1, <3>4, <1>1 DEF Unrefused
    <2> QED
      BY <2>4, <2>5
  <1>6. ASSUME NEW d \in Clients, d # c, NEW r \in ReqIds, NEW s \in Servers, SendRequest(d, r, s)
        PROVE  sent'[c] = sent[c] /\ ueCorrelation'[c][0] = ueCorrelation[c][0]
    <2>1. sent'[c] = sent[c]
      BY <1>1, <1>6, SentNow DEF TypeInv
    <2>2. CASE ueCorrelation[d][nextSession[d]] = None
      BY <1>1, <1>6, <2>1, <2>2, InsertedEntry DEF SendRequest, TypeInv
    <2>3. CASE ueCorrelation[d][nextSession[d]] # None
      BY <1>6, <2>1, <2>3 DEF SendRequest
    <2> QED
      BY <2>2, <2>3
  <1>7. ASSUME NEW d \in Clients, NEW m \in network, ReceiveResponse(d, m)
        PROVE  sent' = sent /\ ueCorrelation'[c][0] \in {None, ueCorrelation[c][0]}
    <2>1. sent' = sent /\ m.id[2] \in Sessions /\ RemoveUeRequestCorrelation(d, m.id[2])
      BY <1>1, <1>7, MessageTypes DEF ReceiveResponse, TypeInv
    <2> QED
      BY <1>1, <2>1, RemovedEntry DEF TypeInv
  <1>8. ASSUME UNCHANGED <<sent, ueCorrelation>>
        PROVE  sent'[c] = sent[c] /\ ueCorrelation'[c][0] = ueCorrelation[c][0]
    BY <1>8
  <1> QED
    BY <1>4, <1>5, <1>6, <1>7, <1>8 DEF Next, ReceiveRequest, SendResponse, vars

(* No request is refused until its client has used every session id,       *)
(* however many requests stay unanswered and their entries in the table.   *)
THEOREM NoneIsRefusedWithinOneLap == Spec => []NoneRefusedWithinOneLap
  <1>1. Init => Unrefused
    <2>1. 0 \in Sessions
      BY RpcAssumption DEF Sessions
    <2> QED
      BY <2>1 DEF Init, Unrefused
  <1>2. Unrefused => NoneRefusedWithinOneLap
    BY DEF Unrefused, NoneRefusedWithinOneLap
  <1> QED
    BY InitIInv, IInvStep, UnrefusedStep, <1>1, <1>2, PTL DEF Spec
=============================================================================
