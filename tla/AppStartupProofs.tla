-------------------------- MODULE AppStartupProofs --------------------------
(***************************************************************************)
(* Proofs about AppStartup, for any number of transports and state         *)
(* handlers and any bound of their channels.                               *)
(*                                                                         *)
(* The inductive invariant has five parts:                                 *)
(*   TypeInv   the types, and when create_app has an id in hand;           *)
(*   Recycled  whose hands an id is in, and what vsomeip knows of it;      *)
(*   AllOwn    who reports under a state handler with nothing waiting;     *)
(*   Steps     how far the program, the engine and vsomeip are with the    *)
(*             same transport;                                             *)
(*   Named     who has a name, and whose application bears it.             *)
(***************************************************************************)
EXTENDS AppStartup, FiniteSetTheorems, TLAPS

LEMMA Nothing == None \notin HandlerIds \cup Transports \cup Names \cup {"Ok", "Err"}
  BY StartupAssumption DEF StartupAssumption

-----------------------------------------------------------------------------
(* create_app has an id in hand from find_available to free.               *)
InHand == {"create", "wait", "unregister", "freeId"}

TypeInv ==
    /\ TypeOK
    /\ channel \in [HandlerIds -> Seq(Transports)]
    /\ \A t \in Transports : handlerId[t] # None <=> pc[t] \in InHand

LEMMA InitTypeInv == Init => TypeInv
  <1> SUFFICES ASSUME Init PROVE TypeInv
    OBVIOUS
  <1>1. \A i \in HandlerIds : channel[i] = <<>> /\ Len(channel[i]) <= ChannelCapacity
    BY StartupAssumption DEF Init, StartupAssumption
  <1> QED
    BY <1>1 DEF Init, TypeInv, TypeOK, InHand

LEMMA TypeStep == TypeInv /\ [Next]_vars => TypeInv'
  <1> SUFFICES ASSUME TypeInv, [Next]_vars
               PROVE  TypeInv'
    OBVIOUS
  <1> USE Nothing DEF TypeInv, TypeOK
  <1>1. ASSUME NEW t \in Transports, TransportStep(t)
        PROVE  TypeInv'
    <2>1. CASE New(t)
      <3>1. name' \in [Transports -> Names \cup {None}] /\ crowded' \subseteq Transports
        BY <2>1 DEF New
      <3>2. /\ pc' = [pc EXCEPT ![t] = "checkName"] /\ owner' = [owner EXCEPT ![t] = "constructing"]
            /\ pc[t] = "none"
            /\ UNCHANGED <<answer, stopQueued, handlerId, freeIds, channel, app, stateHandler, reporting,
                           received, lost, tainted>>
        BY <2>1 DEF New, Goto, vsomeip
      <3> QED
        BY <3>1, <3>2 DEF InHand
    <2>2. CASE AwaitStart(t) \/ AwaitStartTimeout(t) \/ Drop(t)
      <3>1. /\ owner' \in [Transports -> {"none", "constructing", "running"}]
            /\ answer' \in [Transports -> {"Ok", "Err", None}]
            /\ stopQueued' \in [Transports -> BOOLEAN]
        <4>1. CASE AwaitStart(t)
          <5>1. \/ owner' = [owner EXCEPT ![t] = "running"] /\ stopQueued' = stopQueued
                \/ DropNow(t)
            BY <4>1 DEF AwaitStart
          <5>2. answer' = [answer EXCEPT ![t] = None]
            BY <4>1 DEF AwaitStart
          <5>3. CASE DropNow(t)
            BY <5>2, <5>3 DEF DropNow
          <5> QED
            BY <5>1, <5>2, <5>3
        <4>2. CASE AwaitStartTimeout(t)
          BY <4>2 DEF AwaitStartTimeout, DropNow
        <4>3. CASE Drop(t)
          BY <4>3 DEF Drop, DropNow
        <4> QED
          BY <2>2, <4>1, <4>2, <4>3
      <3>2. UNCHANGED <<name, pc, handlerId, freeIds, channel, app, stateHandler, reporting,
                        received, lost, tainted, crowded>>
        BY <2>2 DEF AwaitStart, AwaitStartTimeout, Drop, vsomeip, history
      <3> QED
        BY <3>1, <3>2
    <2> QED
      BY <1>1, <2>1, <2>2 DEF TransportStep
  <1>2. ASSUME NEW t \in Transports, CheckName(t)
        PROVE  TypeInv'
    <2>1. /\ pc[t] = "checkName"
          /\ UNCHANGED <<owner, name, stopQueued, handlerId, freeIds, channel, vsomeip, history>>
      BY <1>2 DEF CheckName
    <2>2. CASE pc' = [pc EXCEPT ![t] = "findId"] /\ UNCHANGED answer
      BY <2>1, <2>2 DEF vsomeip, history, InHand
    <2>3. CASE Return(t, "Err")
      BY <2>1, <2>3 DEF Return, Goto, vsomeip, history, InHand
    <2> QED
      BY <1>2, <2>2, <2>3 DEF CheckName, Goto
  <1>3. ASSUME NEW t \in Transports, FindId(t)
        PROVE  TypeInv'
    <2>1. pc[t] = "findId" /\ UNCHANGED <<owner, name, stopQueued, channel, vsomeip, received, lost, crowded>>
      BY <1>3 DEF FindId
    <2>2. ASSUME NEW i \in freeIds,
                 freeIds' = freeIds \ {i}, handlerId' = [handlerId EXCEPT ![t] = i],
                 tainted' = IF InUse(i) THEN tainted \cup {i} ELSE tainted,
                 pc' = [pc EXCEPT ![t] = "create"], answer' = answer
          PROVE  TypeInv'
      BY <2>1, <2>2 DEF vsomeip, InHand
    <2>3. CASE UNCHANGED <<freeIds, handlerId, tainted>> /\ Return(t, "Err")
      BY <2>1, <2>3 DEF vsomeip, Return, Goto, InHand
    <2> QED
      BY <1>3, <2>2, <2>3 DEF FindId, Goto
  <1>4. ASSUME NEW t \in Transports, CreateApp(t)
        PROVE  TypeInv'
    <2>1. /\ pc[t] = "create"
          /\ UNCHANGED <<owner, name, stopQueued, freeIds, channel, reporting, received, crowded>>
      BY <1>4 DEF CreateApp
    <2>2. CASE /\ app' = [app EXCEPT ![t] = "created"]
               /\ stateHandler' = [stateHandler EXCEPT ![t] = handlerId[t]]
               /\ pc' = [pc EXCEPT ![t] = "wait"] /\ UNCHANGED <<answer, handlerId, lost, tainted>>
      BY <2>1, <2>2 DEF InHand
    <2>3. CASE LoseId(t) /\ UNCHANGED <<app, stateHandler>>
      BY <2>1, <2>3 DEF LoseId, Return, Goto, InHand
    <2> QED
      BY <1>4, <2>2, <2>3 DEF CreateApp, Goto
  <1>5. ASSUME NEW t \in Transports, ReceiveState(t)
        PROVE  TypeInv'
    <2>1. handlerId[t] \in HandlerIds /\ channel[handlerId[t]] \in Seq(Transports) \ {<<>>}
      BY <1>5 DEF ReceiveState, InHand
    <2>2. /\ Head(channel[handlerId[t]]) \in Transports
          /\ Tail(channel[handlerId[t]]) \in Seq(Transports)
          /\ Len(Tail(channel[handlerId[t]])) <= ChannelCapacity
      BY <2>1, StartupAssumption DEF StartupAssumption
    <2> QED
      BY <1>5, <2>1, <2>2 DEF ReceiveState, Goto, transport, vsomeip, InHand
  <1>6. ASSUME NEW t \in Transports, ReceiveTimeout(t)
        PROVE  TypeInv'
    BY <1>6 DEF ReceiveTimeout, LoseId, Return, Goto, vsomeip, InHand
  <1>7. ASSUME NEW t \in Transports, UnregisterStateHandler(t)
        PROVE  TypeInv'
    BY <1>7 DEF UnregisterStateHandler, Goto, transport, history, InHand
  <1>8. ASSUME NEW t \in Transports, FreeId(t)
        PROVE  TypeInv'
    BY <1>8 DEF FreeId, Return, Goto, vsomeip, InHand
  <1>9. ASSUME NEW t \in Transports, StopApp(t)
        PROVE  TypeInv'
    BY <1>9 DEF StopApp, Goto, GetApplication, InHand
  <1>10. ASSUME NEW t \in Transports, AppStarts(t) \/ StateChanges(t) \/ AppEnds(t)
        PROVE  TypeInv'
    <2>1. UNCHANGED <<transport, pc, handlerId, freeIds, channel, history>>
      BY <1>10 DEF AppStarts, StateChanges, AppEnds
    <2>2. /\ app' \in [Transports -> {"none", "created", "started", "stopping"}]
          /\ stateHandler' \in [Transports -> HandlerIds \cup {None}]
          /\ reporting' \in [Transports -> HandlerIds \cup {None}]
      <3>1. CASE AppStarts(t)
        BY <3>1 DEF AppStarts
      <3>2. CASE StateChanges(t)
        BY <3>2 DEF StateChanges
      <3>3. CASE AppEnds(t)
        BY <3>3 DEF AppEnds
      <3> QED
        BY <1>10, <3>1, <3>2, <3>3
    <2> QED
      BY <2>1, <2>2 DEF transport, history, InHand
  <1>11. ASSUME NEW t \in Transports, Report(t)
        PROVE  TypeInv'
    <2>1. reporting[t] \in HandlerIds
      BY <1>11 DEF Report
    <2>2. /\ Append(channel[reporting[t]], t) \in Seq(Transports)
          /\ Len(Append(channel[reporting[t]], t)) <= ChannelCapacity
      BY <1>11, <2>1, StartupAssumption DEF Report, StartupAssumption
    <2> QED
      BY <1>11, <2>1, <2>2 DEF Report, transport, history, InHand
  <1>12. CASE UNCHANGED vars
    BY <1>12 DEF vars, transport, vsomeip, history, InHand
  <1> QED
    BY <1>1, <1>2, <1>3, <1>4, <1>5, <1>6, <1>7, <1>8, <1>9, <1>10, <1>11, <1>12
    DEF Next, EngineStep, VsomeipStep

(* The program's state has the types that the model gives it.              *)
THEOREM TypeCorrect == Spec => []TypeOK
  <1>1. TypeInv => TypeOK
    BY DEF TypeInv
  <1> QED
    BY <1>1, InitTypeInv, TypeStep, PTL DEF Spec

-----------------------------------------------------------------------------
(* An id is free, in one transport's hands or lost.  An application has it *)
(* registered only while its own start waits for it, or if it is lost.     *)
Recycled ==
    /\ freeIds \cap lost = {}
    /\ \A t \in Transports : handlerId[t] # None => handlerId[t] \notin freeIds \cup lost
    /\ \A t, u \in Transports : handlerId[t] # None /\ handlerId[t] = handlerId[u] => t = u
    /\ \A i \in HandlerIds \ (freeIds \cup lost) : \E t \in Transports : handlerId[t] = i
    /\ \A t \in Transports :
          \/ stateHandler[t] = None
          \/ stateHandler[t] \in lost
          \/ pc[t] \in {"wait", "unregister"} /\ handlerId[t] = stateHandler[t]

LEMMA InitRecycled == Init => Recycled
  BY DEF Init, Recycled

(* Where no id changes hands, only a state handler that is dropped matters.*)
LEMMA Undisturbed ==
    ASSUME TypeInv, Recycled, UNCHANGED <<freeIds, handlerId, lost>>,
           \A t \in Transports :
              /\ pc[t] \in {"wait", "unregister"} => pc'[t] \in {"wait", "unregister"} \/ stateHandler'[t] = None
              /\ stateHandler'[t] \in {stateHandler[t], None}
    PROVE  Recycled'
  BY DEF Recycled

LEMMA RecycledStep == TypeInv /\ Recycled /\ [Next]_vars => Recycled'
  <1> SUFFICES ASSUME TypeInv, Recycled, [Next]_vars
               PROVE  Recycled'
    OBVIOUS
  <1> USE Nothing
  <1>1. ASSUME NEW t \in Transports,
               TransportStep(t) \/ CheckName(t) \/ ReceiveState(t) \/ UnregisterStateHandler(t) \/ StopApp(t)
        PROVE  Recycled'
    <2>1. UNCHANGED <<freeIds, handlerId, lost>>
      BY <1>1 DEF TransportStep, New, AwaitStart, AwaitStartTimeout, Drop, CheckName, ReceiveState,
                  UnregisterStateHandler, StopApp, history
    <2>2. \A u \in Transports :
            /\ pc[u] \in {"wait", "unregister"} => pc'[u] \in {"wait", "unregister"} \/ stateHandler'[u] = None
            /\ stateHandler'[u] \in {stateHandler[u], None}
      <3>1. CASE TransportStep(t)
        BY <3>1 DEF TransportStep, New, AwaitStart, AwaitStartTimeout, Drop, Goto, vsomeip, TypeInv, TypeOK
      <3>2. CASE CheckName(t) \/ ReceiveState(t) \/ UnregisterStateHandler(t) \/ StopApp(t)
        BY <3>2 DEF CheckName, ReceiveState, UnregisterStateHandler, StopApp, Return, Goto, vsomeip,
                    TypeInv, TypeOK
      <3> QED
        BY <1>1, <3>1, <3>2
    <2> QED
      BY <2>1, <2>2, Undisturbed
  <1>2. ASSUME NEW t \in Transports, VsomeipStep(t)
        PROVE  Recycled'
    <2>1. UNCHANGED <<freeIds, handlerId, lost, pc>>
      BY <1>2 DEF VsomeipStep, AppStarts, StateChanges, Report, AppEnds, history
    <2>2. \A u \in Transports : stateHandler'[u] \in {stateHandler[u], None}
      BY <1>2 DEF VsomeipStep, AppStarts, StateChanges, Report, AppEnds, TypeInv, TypeOK
    <2> QED
      BY <2>1, <2>2, Undisturbed
  <1>3. ASSUME NEW t \in Transports, FindId(t)
        PROVE  Recycled'
    <2>1. handlerId[t] = None /\ pc[t] \notin {"wait", "unregister"}
      BY <1>3 DEF FindId, TypeInv, InHand
    <2>2. CASE freeIds = {} /\ UNCHANGED <<freeIds, handlerId>>
      BY <1>3, <2>1, <2>2 DEF FindId, Return, Goto, vsomeip, Recycled, TypeInv, TypeOK
    <2>3. ASSUME NEW i \in freeIds,
                 freeIds' = freeIds \ {i}, handlerId' = [handlerId EXCEPT ![t] = i]
          PROVE  Recycled'
      <3>1. /\ i \in HandlerIds /\ i \notin lost
            /\ lost' = lost /\ stateHandler' = stateHandler
            /\ \A u \in Transports : u # t => pc'[u] = pc[u]
        BY <1>3 DEF FindId, Return, Goto, vsomeip, Recycled, TypeInv, TypeOK
      <3>2. \A u \in Transports : handlerId'[u] = IF u = t THEN i ELSE handlerId[u]
        BY <2>3 DEF TypeInv, TypeOK
      <3> QED
        BY <2>1, <2>3, <3>1, <3>2 DEF Recycled
    <2> QED
      BY <1>3, <2>2, <2>3 DEF FindId
  <1>4. ASSUME NEW t \in Transports, CreateApp(t) \/ ReceiveTimeout(t)
        PROVE  Recycled'
    <2>1. handlerId[t] \in HandlerIds
      BY <1>4 DEF CreateApp, ReceiveTimeout, TypeInv, TypeOK, InHand
    <2>2. freeIds' = freeIds /\ \A u \in Transports : u # t => pc'[u] = pc[u] /\ stateHandler'[u] = stateHandler[u]
      BY <1>4 DEF CreateApp, ReceiveTimeout, LoseId, Return, Goto, vsomeip, TypeInv, TypeOK
    <2>3. CASE /\ UNCHANGED <<handlerId, lost>>
               /\ pc'[t] = "wait" /\ stateHandler'[t] = handlerId[t]
      BY <2>1, <2>2, <2>3 DEF Recycled
    <2>4. CASE /\ lost' = lost \cup {handlerId[t]} /\ handlerId' = [handlerId EXCEPT ![t] = None]
               /\ stateHandler' = stateHandler
      <3>1. \A u \in Transports : handlerId'[u] = IF u = t THEN None ELSE handlerId[u]
        BY <2>4 DEF TypeInv, TypeOK
      <3> QED
        BY <2>1, <2>2, <2>4, <3>1 DEF Recycled
    <2> QED
      BY <1>4, <2>3, <2>4 DEF CreateApp, ReceiveTimeout, LoseId, Goto, vsomeip, TypeInv, TypeOK
  <1>5. ASSUME NEW t \in Transports, FreeId(t)
        PROVE  Recycled'
    <2>1. /\ handlerId[t] \in HandlerIds /\ pc[t] = "freeId"
          /\ freeIds' = freeIds \cup {handlerId[t]} /\ lost' = lost /\ stateHandler' = stateHandler
          /\ \A u \in Transports : u # t => pc'[u] = pc[u]
      BY <1>5 DEF FreeId, Return, Goto, vsomeip, TypeInv, TypeOK, InHand
    <2>2. \A u \in Transports : handlerId'[u] = IF u = t THEN None ELSE handlerId[u]
      BY <1>5 DEF FreeId, TypeInv, TypeOK
    <2> QED
      BY <2>1, <2>2 DEF Recycled
  <1>6. CASE UNCHANGED vars
    BY <1>6 DEF vars, vsomeip, history, Recycled
  <1> QED
    BY <1>1, <1>2, <1>3, <1>4, <1>5, <1>6 DEF Next, EngineStep

(* No state handler is with two starts, or recycled while an application   *)
(* may still call it, whatever fails and whenever states are reported.     *)
THEOREM IdsStayAccountedFor == Spec => []IdsAccountedFor
  <1>1. TypeInv /\ Recycled => IdsAccountedFor
    <2> SUFFICES ASSUME TypeInv, Recycled, NEW i \in HandlerIds
                 PROVE  LET users == {t \in Transports : handlerId[t] = i} IN
                        /\ i \in freeIds =>
                              users = {} /\ i \notin lost /\ \A t \in Transports : stateHandler[t] # i
                        /\ i \in lost => users = {}
                        /\ i \notin freeIds \cup lost => Cardinality(users) = 1
      BY DEF IdsAccountedFor
    <2> DEFINE users == {t \in Transports : handlerId[t] = i}
    <2>1. i \in freeIds \cup lost => users = {}
      BY Nothing DEF Recycled
    <2>2. i \in freeIds => i \notin lost /\ \A t \in Transports : stateHandler[t] # i
      BY Nothing DEF Recycled
    <2>3. ASSUME i \notin freeIds \cup lost
          PROVE  Cardinality(users) = 1
      <3>1. PICK t \in Transports : handlerId[t] = i
        BY <2>3 DEF Recycled
      <3>2. users = {t}
        BY <3>1, Nothing DEF Recycled
      <3> QED
        BY <3>2, FS_Singleton
    <2> QED
      BY <2>1, <2>2, <2>3
  <1> QED
    BY <1>1, InitTypeInv, TypeStep, InitRecycled, RecycledStep, PTL DEF Spec

-----------------------------------------------------------------------------
(* Only its own application reports under a state handler that had nothing *)
(* waiting when a start found it.                                          *)
OwnOnly(t) ==
    handlerId[t] # None /\ handlerId[t] \notin tainted =>
        /\ \A n \in DOMAIN channel[handlerId[t]] : channel[handlerId[t]][n] = t
        /\ \A u \in Transports : reporting[u] = handlerId[t] => u = t
        /\ pc[t] \in {"unregister", "freeId"} => received[t] = t

AllOwn == \A t \in Transports : OwnOnly(t)

LEMMA OwnStep == TypeInv /\ Recycled /\ AllOwn /\ [Next]_vars => AllOwn'
  <1> SUFFICES ASSUME TypeInv, Recycled, AllOwn, [Next]_vars, NEW t \in Transports
               PROVE  OwnOnly(t)'
    BY DEF AllOwn
  <1> USE Nothing
  <1>1. OwnOnly(t)
    BY DEF AllOwn
  <1>2. ASSUME NEW u \in Transports, TransportStep(u) \/ CheckName(u) \/ StopApp(u)
        PROVE  OwnOnly(t)'
    <2>1. /\ UNCHANGED <<channel, handlerId, reporting, tainted>>
          /\ \/ handlerId[t] = None
             \/ pc'[t] = pc[t] /\ received'[t] = received[t]
      <3>1. CASE New(u) \/ CheckName(u) \/ StopApp(u)
        <4>1. handlerId[u] = None
          BY <3>1 DEF New, CheckName, StopApp, TypeInv, InHand
        <4> QED
          BY <3>1, <4>1 DEF New, CheckName, StopApp, Return, Goto, vsomeip, history, TypeInv, TypeOK
      <3>2. CASE AwaitStart(u) \/ AwaitStartTimeout(u) \/ Drop(u)
        BY <3>2 DEF AwaitStart, AwaitStartTimeout, Drop, vsomeip, history
      <3> QED
        BY <1>2, <3>1, <3>2 DEF TransportStep
    <2> QED
      BY <1>1, <2>1 DEF OwnOnly
  <1>3. ASSUME NEW u \in Transports, FindId(u)
        PROVE  OwnOnly(t)'
    <2>1. /\ handlerId[u] = None
          /\ UNCHANGED <<channel, reporting, received>>
          /\ \A s \in Transports : s # u => pc'[s] = pc[s]
          /\ pc'[u] \notin {"unregister", "freeId"}
      <3>1. pc[u] = "findId" /\ UNCHANGED <<channel, reporting, received>>
        BY <1>3 DEF FindId, vsomeip
      <3>2. handlerId[u] = None
        BY <3>1 DEF TypeInv, InHand
      <3>3. pc' = [pc EXCEPT ![u] = "create"] \/ pc' = [pc EXCEPT ![u] = "idle"]
        BY <1>3 DEF FindId, Return, Goto
      <3> QED
        BY <3>1, <3>2, <3>3 DEF TypeInv, TypeOK
    <2>2. CASE UNCHANGED <<handlerId, tainted>>
      <3>1. CASE u = t
        BY <2>1, <2>2, <3>1 DEF OwnOnly
      <3>2. CASE u # t
        BY <1>1, <2>1, <2>2, <3>2 DEF OwnOnly
      <3> QED
        BY <3>1, <3>2
    <2>3. ASSUME NEW i \in freeIds,
                 handlerId' = [handlerId EXCEPT ![u] = i],
                 tainted' = IF InUse(i) THEN tainted \cup {i} ELSE tainted
          PROVE  OwnOnly(t)'
      <3>1. i \in HandlerIds
        BY DEF TypeInv, TypeOK
      <3>2. CASE u = t
        <4>1. handlerId'[t] = i
          BY <2>3, <3>2 DEF TypeInv, TypeOK
        <4>2. CASE InUse(i)
          BY <2>3, <4>1, <4>2 DEF OwnOnly
        <4>3. CASE ~InUse(i)
          BY <2>1, <3>2, <4>1, <4>3 DEF OwnOnly, InUse
        <4> QED
          BY <4>2, <4>3
      <3>3. CASE u # t
        <4>1. handlerId'[t] = handlerId[t] /\ handlerId[t] # i
          BY <2>3, <3>1, <3>3 DEF TypeInv, TypeOK, Recycled
        <4>2. handlerId[t] \in tainted <=> handlerId[t] \in tainted'
          BY <2>3, <4>1
        <4> QED
          BY <1>1, <2>1, <3>3, <4>1, <4>2 DEF OwnOnly
      <3> QED
        BY <3>2, <3>3
    <2> QED
      BY <1>3, <2>2, <2>3 DEF FindId
  <1>4. ASSUME NEW u \in Transports, CreateApp(u) \/ ReceiveTimeout(u) \/ FreeId(u)
        PROVE  OwnOnly(t)'
    <2>1. /\ handlerId[u] # None
          /\ UNCHANGED <<channel, reporting, received>>
          /\ \A s \in Transports : s # u => pc'[s] = pc[s] /\ handlerId'[s] = handlerId[s]
          /\ pc'[u] \notin {"unregister", "freeId"}
          /\ \/ handlerId'[u] = None /\ tainted' = tainted \ {handlerId[u]}
             \/ handlerId'[u] = handlerId[u] /\ tainted' = tainted
      <3>1. handlerId[u] # None
        BY <1>4 DEF CreateApp, ReceiveTimeout, FreeId, TypeInv, InHand
      <3> QED
        BY <1>4, <3>1 DEF CreateApp, ReceiveTimeout, FreeId, LoseId, Return, Goto, vsomeip, TypeInv, TypeOK
    <2>2. CASE u = t
      BY <1>1, <2>1, <2>2 DEF OwnOnly
    <2>3. CASE u # t
      <3>1. handlerId[t] # None => handlerId[t] # handlerId[u]
        BY <2>3 DEF Recycled
      <3> QED
        BY <1>1, <2>1, <2>3, <3>1 DEF OwnOnly
    <2> QED
      BY <2>2, <2>3
  <1>5. ASSUME NEW u \in Transports, ReceiveState(u)
        PROVE  OwnOnly(t)'
    <2>1. /\ handlerId[u] \in HandlerIds /\ channel[handlerId[u]] \in Seq(Transports) \ {<<>>}
          /\ UNCHANGED <<handlerId, reporting, tainted>>
          /\ \A s \in Transports : s # u => pc'[s] = pc[s] /\ received'[s] = received[s]
          /\ received'[u] = Head(channel[handlerId[u]])
          /\ \A i \in HandlerIds : channel'[i] = IF i = handlerId[u] THEN Tail(channel[i]) ELSE channel[i]
      BY <1>5 DEF ReceiveState, Goto, vsomeip, TypeInv, TypeOK, InHand
    <2>2. CASE u = t
      <3>1. PICK s \in Seq(Transports) \ {<<>>} : s = channel[handlerId[t]]
        BY <2>1, <2>2
      <3>2. /\ 1 \in DOMAIN s /\ Head(s) = s[1]
            /\ \A n \in DOMAIN Tail(s) : n + 1 \in DOMAIN s /\ Tail(s)[n] = s[n + 1]
        OBVIOUS
      <3>3. channel'[handlerId[t]] = Tail(s) /\ received'[t] = Head(s)
        BY <2>1, <2>2, <3>1
      <3> QED
        BY <1>1, <2>1, <2>2, <3>1, <3>2, <3>3 DEF OwnOnly
    <2>3. CASE u # t
      <3>1. handlerId[t] # None => channel'[handlerId[t]] = channel[handlerId[t]]
        BY <2>1, <2>3 DEF Recycled, TypeInv, TypeOK
      <3> QED
        BY <1>1, <2>1, <2>3, <3>1 DEF OwnOnly
    <2> QED
      BY <2>2, <2>3
  <1>6. ASSUME NEW u \in Transports, UnregisterStateHandler(u)
        PROVE  OwnOnly(t)'
    <2>1. /\ UNCHANGED <<channel, handlerId, reporting, received, tainted>> /\ pc[u] = "unregister"
          /\ \A s \in Transports : s # u => pc'[s] = pc[s]
      BY <1>6 DEF UnregisterStateHandler, Goto, history, TypeInv, TypeOK
    <2> QED
      BY <1>1, <2>1 DEF OwnOnly
  <1>7. ASSUME NEW u \in Transports, AppStarts(u) \/ AppEnds(u)
        PROVE  OwnOnly(t)'
    <2>1. UNCHANGED <<channel, handlerId, reporting, received, tainted, pc>>
      BY <1>7 DEF AppStarts, AppEnds, history
    <2> QED
      BY <1>1, <2>1 DEF OwnOnly
  <1>8. ASSUME NEW u \in Transports, StateChanges(u)
        PROVE  OwnOnly(t)'
    <2>1. /\ UNCHANGED <<channel, handlerId, received, tainted, pc>>
          /\ stateHandler[u] # None
          /\ \A s \in Transports : reporting'[s] = IF s = u THEN stateHandler[u] ELSE reporting[s]
      BY <1>8 DEF StateChanges, history, TypeInv, TypeOK
    <2>2. handlerId[t] # None /\ stateHandler[u] = handlerId[t] => u = t
      BY <2>1 DEF Recycled
    <2> QED
      BY <1>1, <2>1, <2>2 DEF OwnOnly
  <1>9. ASSUME NEW u \in Transports, Report(u)
        PROVE  OwnOnly(t)'
    <2>1. PICK i \in HandlerIds : i = reporting[u]
      BY <1>9 DEF Report, TypeInv, TypeOK
    <2>2. /\ UNCHANGED <<handlerId, received, tainted, pc>>
          /\ channel[i] \in Seq(Transports)
          /\ \A j \in HandlerIds : channel'[j] = IF j = i THEN Append(channel[i], u) ELSE channel[j]
          /\ \A s \in Transports : reporting'[s] = IF s = u THEN None ELSE reporting[s]
      BY <1>9, <2>1 DEF Report, history, TypeInv, TypeOK
    <2>3. \A n \in DOMAIN Append(channel[i], u) :
             Append(channel[i], u)[n] = u \/ (n \in DOMAIN channel[i] /\ Append(channel[i], u)[n] = channel[i][n])
      BY <2>2
    <2>4. CASE handlerId[t] = i
      <3>1. handlerId[t] \notin tainted => u = t
        BY <1>1, <2>1, <2>4 DEF OwnOnly
      <3>2. channel'[handlerId[t]] = Append(channel[i], u)
        BY <2>2, <2>4
      <3> QED
        BY <1>1, <2>2, <2>3, <2>4, <3>1, <3>2 DEF OwnOnly
    <2>5. CASE handlerId[t] # i
      <3>1. handlerId[t] # None => channel'[handlerId[t]] = channel[handlerId[t]]
        BY <2>2, <2>5 DEF TypeInv, TypeOK
      <3> QED
        BY <1>1, <2>2, <3>1 DEF OwnOnly
    <2> QED
      BY <2>4, <2>5
  <1>10. CASE UNCHANGED vars
    BY <1>1, <1>10 DEF vars, vsomeip, history, OwnOnly
  <1> QED
    BY <1>2, <1>3, <1>4, <1>5, <1>6, <1>7, <1>8, <1>9, <1>10 DEF Next, EngineStep, VsomeipStep

(* A start is told of another application's state only under a state       *)
(* handler that was handed out with a report waiting or under way; under   *)
(* every other one only its own application reports, for any number of     *)
(* transports, whichever of their starts fail.                             *)
THEOREM StrangersHadToWait == Spec => []StrangersWereWaiting
  <1>1. Init => AllOwn
    BY DEF Init, AllOwn, OwnOnly
  <1>2. TypeInv /\ AllOwn => StrangersWereWaiting
    BY DEF TypeInv, InHand, AllOwn, OwnOnly, StrangersWereWaiting
  <1> QED
    BY <1>1, <1>2, InitTypeInv, TypeStep, InitRecycled, RecycledStep, OwnStep, PTL DEF Spec

-----------------------------------------------------------------------------
(* How far the program, the engine and vsomeip are with one transport.     *)
(* While t's name is not shared, its application is up from CreateApp until*)
(* t's own engine executes StopVsomeipApp.                                 *)
Waiting == {"wait", "unregister", "freeId"}

StepsOf(t) ==
    /\ pc[t] = "none" => owner[t] = "none" /\ ~stopQueued[t]
    /\ pc[t] \in {"checkName", "findId", "create"} => app[t] = "none"
    /\ owner[t] # "none" => ~stopQueued[t]
    /\ owner[t] = "running" => pc[t] = "idle"
    /\ answer[t] # None => owner[t] = "constructing" /\ pc[t] = "idle"
    /\ t \notin crowded =>
          /\ pc[t] \in Waiting \/ answer[t] = "Ok" \/ owner[t] = "running" => Up(t)
          /\ pc[t] = "none" => ~Up(t)

Steps == \A t \in Transports : StepsOf(t)

(* Two transports with one name whose engines are both at work have been   *)
(* noticed; and once a transport with a name of its own has found the name *)
(* unused, no application but its own bears it.                            *)
Named ==
    /\ \A t, u \in Transports :
          pc[t] # "none" /\ pc[u] # "none" /\ name[t] = name[u] /\ t # u => t \in crowded
    /\ \A t, u \in Transports :
          t \notin crowded /\ (pc[t] \in {"findId", "create"} \/ (pc[t] # "none" /\ app[t] # "none"))
             /\ name[t] = name[u] /\ t # u => app[u] = "none"

LEMMA NamedStep == TypeInv /\ Steps /\ Named /\ [Next]_vars => Named'
  <1> SUFFICES ASSUME TypeInv, Steps, Named, [Next]_vars
               PROVE  Named'
    OBVIOUS
  <1> USE Nothing
  <1>1. ASSUME NEW s \in Transports, New(s)
        PROVE  Named'
    <2>1. PICK n \in Names :
             LET namesakes == {u \in Transports \ {s} : name[u] = n /\ pc[u] # "none"} IN
             /\ name' = [name EXCEPT ![s] = n]
             /\ crowded' = IF namesakes = {} THEN crowded \ {s} ELSE crowded \cup namesakes \cup {s}
      BY <1>1 DEF New
    <2> DEFINE namesakes == {u \in Transports \ {s} : name[u] = n /\ pc[u] # "none"}
    <2>2. /\ app' = app /\ app[s] = "none" /\ pc[s] = "none"
          /\ \A u \in Transports : pc'[u] = IF u = s THEN "checkName" ELSE pc[u]
          /\ \A u \in Transports : name'[u] = IF u = s THEN n ELSE name[u]
      BY <1>1, <2>1 DEF New, Goto, vsomeip, TypeInv, TypeOK
    <2>3. /\ \A u \in Transports : u # s /\ u \in crowded => u \in crowded'
          /\ namesakes \subseteq crowded'
          /\ namesakes # {} => s \in crowded'
      BY <2>1
    <2> QED
      BY <2>2, <2>3 DEF Named
  <1>2. ASSUME NEW s \in Transports, CheckName(s)
        PROVE  Named'
    <2>1. /\ UNCHANGED <<name, app, crowded>> /\ pc[s] = "checkName" /\ app[s] = "none"
          /\ \A u \in Transports : u # s => pc'[u] = pc[u]
          /\ \/ pc'[s] = "findId" /\ GetApplication(name[s]) = {}
             \/ pc'[s] = "idle"
      BY <1>2 DEF CheckName, Return, Goto, vsomeip, history, TypeInv, TypeOK, Steps, StepsOf
    <2> QED
      BY <2>1 DEF Named, GetApplication
  <1>3. ASSUME NEW s \in Transports,
               FindId(s) \/ ReceiveState(s) \/ ReceiveTimeout(s) \/ UnregisterStateHandler(s) \/ FreeId(s)
        PROVE  Named'
    <2>1. /\ UNCHANGED <<name, app, crowded>>
          /\ pc[s] # "none" /\ (pc[s] = "findId" \/ pc'[s] \notin {"findId", "create"})
          /\ \A u \in Transports : u # s => pc'[u] = pc[u]
      BY <1>3 DEF FindId, ReceiveState, ReceiveTimeout, UnregisterStateHandler, FreeId, LoseId, Return, Goto,
                  transport, vsomeip, history, TypeInv, TypeOK
    <2> QED
      BY <2>1 DEF Named
  <1>4. ASSUME NEW s \in Transports, CreateApp(s)
        PROVE  Named'
    <2>1. /\ UNCHANGED <<name, crowded>> /\ pc[s] = "create"
          /\ pc'[s] \in {"wait", "idle"}
          /\ \A u \in Transports : u # s => pc'[u] = pc[u] /\ app'[u] = app[u]
      BY <1>4 DEF CreateApp, LoseId, Return, Goto, TypeInv, TypeOK
    <2> QED
      BY <2>1 DEF Named
  <1>5. ASSUME NEW s \in Transports, StopApp(s)
        PROVE  Named'
    <2>1. /\ UNCHANGED <<name, crowded>> /\ pc'[s] = "none"
          /\ \A u \in Transports : u # s => pc'[u] = pc[u]
          /\ \A u \in Transports : app'[u] = "none" <=> app[u] = "none"
      BY <1>5 DEF StopApp, GetApplication, Goto, TypeInv, TypeOK
    <2> QED
      BY <2>1 DEF Named
  <1>6. ASSUME NEW s \in Transports,
               AwaitStart(s) \/ AwaitStartTimeout(s) \/ Drop(s) \/ StateChanges(s) \/ Report(s)
        PROVE  Named'
    <2>1. UNCHANGED <<name, pc, app, crowded>>
      BY <1>6 DEF AwaitStart, AwaitStartTimeout, Drop, StateChanges, Report, transport, vsomeip, history
    <2> QED
      BY <2>1 DEF Named
  <1>7. ASSUME NEW s \in Transports, AppStarts(s) \/ AppEnds(s)
        PROVE  Named'
    <2>1. /\ UNCHANGED <<name, pc, crowded>>
          /\ \A u \in Transports : app[u] = "none" => app'[u] = "none"
          /\ \A u \in Transports : app'[u] # "none" => app[u] # "none"
      BY <1>7 DEF AppStarts, AppEnds, transport, history, TypeInv, TypeOK
    <2> QED
      BY <2>1 DEF Named
  <1>8. CASE UNCHANGED vars
    BY <1>8 DEF vars, transport, vsomeip, history, Named
  <1> QED
    BY <1>1, <1>2, <1>3, <1>4, <1>5, <1>6, <1>7, <1>8 DEF Next, TransportStep, EngineStep, VsomeipStep

LEMMA StepsStep == TypeInv /\ Steps /\ Named /\ [Next]_vars => Steps'
  <1> SUFFICES ASSUME TypeInv, Steps, Named, [Next]_vars, NEW t \in Transports
               PROVE  StepsOf(t)'
    BY DEF Steps
  <1> USE Nothing
  <1>0. StepsOf(t)
    BY DEF Steps
  <1>1. ASSUME NEW s \in Transports, New(s)
        PROVE  StepsOf(t)'
    <2>1. /\ UNCHANGED <<app, answer, stopQueued>> /\ app[s] = "none" /\ pc[s] = "none" /\ owner[s] = "none"
          /\ \A u \in Transports : pc'[u] = IF u = s THEN "checkName" ELSE pc[u]
          /\ \A u \in Transports : owner'[u] = IF u = s THEN "constructing" ELSE owner[u]
          /\ \A u \in Transports : u # s /\ u \in crowded => u \in crowded'
      BY <1>1 DEF New, Goto, vsomeip, TypeInv, TypeOK
    <2>2. ~stopQueued[s] /\ answer[s] = None
      BY <2>1 DEF Steps, StepsOf
    <2>3. CASE s = t
      BY <2>1, <2>2, <2>3 DEF StepsOf, Waiting, Up
    <2>4. CASE s # t
      BY <1>0, <2>1, <2>4 DEF StepsOf, Up
    <2> QED
      BY <2>3, <2>4
  <1>2. ASSUME NEW s \in Transports, AwaitStart(s) \/ AwaitStartTimeout(s) \/ Drop(s)
        PROVE  StepsOf(t)'
    <2>1. /\ UNCHANGED <<pc, app, crowded>>
          /\ \A u \in Transports : u # s =>
                owner'[u] = owner[u] /\ answer'[u] = answer[u] /\ stopQueued'[u] = stopQueued[u]
          /\ answer'[s] = None
          /\ \/ owner'[s] = "running" /\ answer[s] = "Ok" /\ stopQueued'[s] = stopQueued[s]
             \/ owner'[s] = "none" /\ owner[s] # "none"
      <3>1. CASE AwaitStart(s)
        BY <3>1 DEF AwaitStart, DropNow, vsomeip, history, TypeInv, TypeOK
      <3>2. CASE AwaitStartTimeout(s)
        BY <3>2 DEF AwaitStartTimeout, DropNow, vsomeip, history, TypeInv, TypeOK
      <3>3. CASE Drop(s)
        <4>1. answer[s] = None
          BY <3>3 DEF Drop, Steps, StepsOf
        <4> QED
          BY <3>3, <4>1 DEF Drop, DropNow, vsomeip, history, TypeInv, TypeOK
      <3> QED
        BY <1>2, <3>1, <3>2, <3>3
    <2>2. CASE s = t
      BY <1>0, <2>1, <2>2 DEF StepsOf, Up
    <2>3. CASE s # t
      BY <1>0, <2>1, <2>3 DEF StepsOf, Up
    <2> QED
      BY <2>2, <2>3
  <1>3. ASSUME NEW s \in Transports,
               CheckName(s) \/ FindId(s) \/ ReceiveState(s) \/ ReceiveTimeout(s) \/ UnregisterStateHandler(s)
        PROVE  StepsOf(t)'
    <2>1. /\ UNCHANGED <<owner, stopQueued, app, crowded>>
          /\ pc[s] \in {"checkName", "findId"} \cup Waiting
          /\ \A u \in Transports : u # s => pc'[u] = pc[u] /\ answer'[u] = answer[u]
          /\ \/ pc'[s] \in {"findId", "create"} /\ pc[s] \in {"checkName", "findId"} /\ answer'[s] = answer[s]
             \/ pc'[s] \in Waiting /\ pc[s] \in Waiting /\ answer'[s] = answer[s]
             \/ /\ pc'[s] = "idle" /\ answer'[s] \in {"Err", None}
                /\ answer'[s] # None => owner[s] = "constructing"
      BY <1>3 DEF CheckName, FindId, ReceiveState, ReceiveTimeout, UnregisterStateHandler, LoseId, Return, Goto,
                  transport, vsomeip, history, Waiting, TypeInv, TypeOK
    <2> QED
      BY <1>0, <2>1 DEF StepsOf, Waiting, Up
  <1>4. ASSUME NEW s \in Transports, CreateApp(s)
        PROVE  StepsOf(t)'
    <2>1. /\ UNCHANGED <<owner, stopQueued, crowded>>
          /\ pc[s] = "create"
          /\ \A u \in Transports : u # s => pc'[u] = pc[u] /\ answer'[u] = answer[u] /\ app'[u] = app[u]
          /\ \/ pc'[s] = "wait" /\ answer'[s] = answer[s] /\ app'[s] = "created"
             \/ /\ pc'[s] = "idle" /\ answer'[s] \in {"Err", None} /\ app'[s] = app[s]
                /\ answer'[s] # None => owner[s] = "constructing"
      BY <1>4 DEF CreateApp, LoseId, Return, Goto, TypeInv, TypeOK
    <2> QED
      BY <1>0, <2>1 DEF StepsOf, Waiting, Up
  <1>5. ASSUME NEW s \in Transports, FreeId(s)
        PROVE  StepsOf(t)'
    <2>1. /\ UNCHANGED <<owner, stopQueued, app, crowded>>
          /\ pc[s] = "freeId" /\ pc'[s] = "idle"
          /\ \A u \in Transports : u # s => pc'[u] = pc[u] /\ answer'[u] = answer[u]
          /\ answer'[s] # None => owner[s] = "constructing"
      BY <1>5 DEF FreeId, Return, Goto, vsomeip, TypeInv, TypeOK
    <2> QED
      BY <1>0, <2>1 DEF StepsOf, Waiting, Up
  <1>6. ASSUME NEW s \in Transports, StopApp(s)
        PROVE  StepsOf(t)'
    <2>1. /\ UNCHANGED <<owner, answer, crowded>>
          /\ pc[s] = "idle" /\ pc'[s] = "none" /\ stopQueued[s] /\ ~stopQueued'[s]
          /\ \A u \in Transports : u # s => pc'[u] = pc[u] /\ stopQueued'[u] = stopQueued[u]
          /\ \A u \in Transports :
                \/ app'[u] = app[u]
                \/ app[u] # "none" /\ name[u] = name[s] /\ app'[u] = "stopping"
      BY <1>6 DEF StopApp, GetApplication, Goto, TypeInv, TypeOK
    <2>2. owner[s] = "none" /\ answer[s] = None
      BY <2>1 DEF Steps, StepsOf
    <2>3. CASE s = t
      <3>1. t \notin crowded => ~Up(t)'
        <4>1. CASE t \notin crowded /\ app[t] # "none"
          <5>1. GetApplication(name[t]) = {t}
            BY <2>1, <2>3, <4>1 DEF Named, GetApplication
          <5>2. app' = [app EXCEPT ![t] = "stopping"]
            BY <1>6, <2>3, <5>1 DEF StopApp
          <5> QED
            BY <5>2 DEF Up, TypeInv, TypeOK
        <4> QED
          BY <2>1, <4>1 DEF Up
      <3> QED
        BY <2>1, <2>2, <2>3, <3>1 DEF StepsOf, Waiting
    <2>4. CASE s # t
      <3>1. t \notin crowded /\ pc[t] # "none" => app'[t] = app[t]
        BY <2>1, <2>4 DEF Named
      <3>2. Up(t)' => Up(t)
        BY <2>1 DEF Up
      <3>3. (pc[t] \in Waiting \/ answer[t] = "Ok" \/ owner[t] = "running") => pc[t] # "none"
        BY <1>0, Nothing DEF StepsOf, Waiting
      <3> QED
        BY <1>0, <2>1, <2>4, <3>1, <3>2, <3>3 DEF StepsOf, Up
    <2> QED
      BY <2>3, <2>4
  <1>7. ASSUME NEW s \in Transports, VsomeipStep(s)
        PROVE  StepsOf(t)'
    <2>1. UNCHANGED <<owner, answer, stopQueued, pc, crowded>>
      BY <1>7 DEF VsomeipStep, AppStarts, StateChanges, Report, AppEnds, transport, history
    <2>2. app[t] = "none" => app'[t] = "none"
      BY <1>7 DEF VsomeipStep, AppStarts, StateChanges, Report, AppEnds, TypeInv, TypeOK
    <2>3. Up(t)' <=> Up(t)
      BY <1>7 DEF VsomeipStep, AppStarts, StateChanges, Report, AppEnds, Up, TypeInv, TypeOK
    <2> QED
      BY <1>0, <2>1, <2>2, <2>3 DEF StepsOf
  <1>8. CASE UNCHANGED vars
    BY <1>0, <1>8 DEF vars, transport, vsomeip, history, StepsOf, Up
  <1> QED
    BY <1>1, <1>2, <1>3, <1>4, <1>5, <1>6, <1>7, <1>8 DEF Next, TransportStep, EngineStep

(* A transport in use has a running application, and one that its engine is*)
(* done with has none, whatever other transports start, fail and stop and  *)
(* whichever calls time out, unless another transport got its name before. *)
THEOREM AppLivesWithItsTransport == Spec => []AppLivesWithTransport
  <1>1. Init => Steps /\ Named
    <2> SUFFICES ASSUME Init PROVE Steps /\ Named
      OBVIOUS
    <2>1. ASSUME NEW t \in Transports PROVE StepsOf(t)
      <3>1. pc[t] = "none" /\ owner[t] = "none" /\ ~stopQueued[t] /\ answer[t] = None /\ app[t] = "none"
        BY DEF Init
      <3> QED
        BY <3>1, Nothing DEF StepsOf, Waiting, Up
    <2>2. Named
      BY DEF Init, Named
    <2> QED
      BY <2>1, <2>2 DEF Steps
  <1>2. Steps => AppLivesWithTransport
    BY DEF Steps, StepsOf, AppLivesWithTransport
  <1> QED
    BY <1>1, <1>2, InitTypeInv, TypeStep, NamedStep, StepsStep, PTL DEF Spec
=============================================================================
