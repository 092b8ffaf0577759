----------------------- MODULE ListenerLifecycleProofs -----------------------
(***************************************************************************)
(* Proofs about ListenerLifecycle, for any transports, listeners, extern   *)
(* functions and channels.                                                 *)
(*                                                                         *)
(* Answers may be late, and callers do what they like:                     *)
(*   AnswersAlwaysFindTheirCaller                                          *)
(* Answers may be late, if one caller at a time deals with a listener      *)
(* (OneCaller):                                                            *)
(*   EntriesStayBacked          if keys are erased for all or none of their*)
(*                              configurations (KeysApart)                 *)
(*   EstablishedStaysReachable                                             *)
(* Answers are in time, and every key is erased (InTime):                  *)
(*   HandedOutStaysUnused                                                  *)
(*   Implementation             of ListenerService, if besides no two      *)
(*                              configurations share a key (OwnKeys)       *)
(*                                                                         *)
(* Each of them has an invariant of its own (AllAddressed, Backed, Reach,  *)
(* Owned and Waiting, Orderly) on top of TypeInv, most of HeldForCall too. *)
(***************************************************************************)
EXTENDS ListenerLifecycle, FiniteSetTheorems, TLAPS

LEMMA Assumptions ==
    /\ ChannelCapacity \in Nat \ {0} /\ EngineMayBeLate \in BOOLEAN
    /\ None \notin Ids /\ None \notin Callers /\ None \notin Transports \X Configs /\ None # "Ok"
    /\ \A p \in Callers : CallsFor(p) \subseteq Configs
  BY LifecycleAssumption, NoneAssumption DEF LifecycleAssumption, NoneAssumption

(* Every configuration is of one of three kinds, and has its two keys.     *)
LEMMA KindsAndKeys ==
    ASSUME NEW c \in Configs
    PROVE  /\ Kind[c] \in {"Publish", "Request", "Response"}
           /\ RegisterKey[c] \in Keys /\ UnregisterKey[c] \in Keys
           /\ Announcement[c] \in Announcements
  <1>1. Kind[c] = DetermineType(SourceFilter(c), SinkFilter(c)) /\ Kind[c] # "AllPointToPoint"
    BY LifecycleAssumption DEF Kind, LifecycleAssumption
  <1>2. /\ Kind[c] \in {"Publish", "Request", "Response"}
        /\ Kind[c] # "Publish" => SinkFilter(c) # NoSink
    BY <1>1 DEF DetermineType
  <1>3. Source(c) \in Addresses /\ (Kind[c] # "Publish" => Sink(c) \in Addresses)
    BY <1>2 DEF Addresses
  <1>4. \A a \in Addresses : <<a, 1>> \in Keys /\ <<a, Wild>> \in Keys
    BY DEF Keys
  <1>5. CASE Kind[c] = "Publish"
    BY <1>2, <1>3, <1>4, <1>5 DEF RegisterKey, UnregisterKey, Announcement, Announcements
  <1>6. CASE Kind[c] = "Request"
    BY <1>2, <1>3, <1>4, <1>6 DEF RegisterKey, UnregisterKey, Announcement, Announcements
  <1>7. CASE Kind[c] = "Response"
    BY <1>2, <1>3, <1>4, <1>7 DEF RegisterKey, UnregisterKey, Announcement, Announcements
  <1> QED
    BY <1>2, <1>5, <1>6, <1>7

-----------------------------------------------------------------------------
(* What a caller's call is when, and what is in the channels.              *)
CallOK(p) ==
    /\ pc[p] # "idle" => call[p] \in Calls /\ call[p].config \in CallsFor(p)
    /\ pc[p] = "getHandler" => call[p].op = "register"
    /\ pc[p] \in {"send", "await"} /\ call[p].op = "register" => call[p].id \in Ids
    /\ pc[p] = "release" => call[p].op = "unregister"

QueueOK ==
    /\ queue \in [Transports -> Seq(Commands)]
    /\ \A t \in Transports : Len(queue[t]) <= ChannelCapacity
    /\ \A t \in Transports : \A n \in DOMAIN queue[t] :
          queue[t][n].op = "register" => queue[t][n].id \in Ids

TypeInv == TypeOK /\ QueueOK /\ \A p \in Callers : CallOK(p)

(* The channels after a command was sent, executed, or lost its receiver.  *)
LEMMA Sent ==
    ASSUME TypeInv, NEW p \in Callers, SendToEngine(p)
    PROVE  LET t == call[p].transport IN
           /\ t \in Transports /\ call[p].config \in Configs /\ Command(p) \in Commands
           /\ queue' \in [Transports -> Seq(Commands)] /\ Len(queue'[t]) = Len(queue[t]) + 1
           /\ Len(queue'[t]) <= ChannelCapacity
           /\ Len(queue'[t]) \in DOMAIN queue'[t] /\ queue'[t][Len(queue'[t])] = Command(p)
           /\ \A n \in DOMAIN queue[t] : n \in DOMAIN queue'[t] /\ n < Len(queue'[t])
                                         /\ queue'[t][n] = queue[t][n]
           /\ \A n \in DOMAIN queue'[t] : n # Len(queue'[t]) => n \in DOMAIN queue[t]
           /\ \A u \in Transports : u # t => queue'[u] = queue[u]
  <1> DEFINE t == call[p].transport
  <1>1. /\ pc[p] = "send" /\ Len(queue[t]) < ChannelCapacity
        /\ queue' = [queue EXCEPT ![t] = Append(@, Command(p))]
    BY DEF SendToEngine
  <1>2. t \in Transports /\ call[p].config \in Configs /\ Command(p) \in Commands
    BY <1>1, Assumptions DEF TypeInv, CallOK, Command, Calls, Commands
  <1> HIDE DEF t
  <1>3. queue[t] \in Seq(Commands)
    BY <1>2 DEF TypeInv, QueueOK
  <1>4. queue' \in [Transports -> Seq(Commands)] /\ queue'[t] = Append(queue[t], Command(p))
        /\ \A u \in Transports : u # t => queue'[u] = queue[u]
    BY <1>1, <1>2, <1>3 DEF TypeInv, QueueOK
  <1> QED
    BY <1>1, <1>2, <1>3, <1>4, Assumptions DEF t

LEMMA Executed ==
    ASSUME TypeInv, NEW t \in Transports, queue[t] # <<>>,
           queue' = [queue EXCEPT ![t] = Tail(@)]
    PROVE  /\ queue' \in [Transports -> Seq(Commands)] /\ Len(queue'[t]) = Len(queue[t]) - 1
           /\ Len(queue'[t]) <= ChannelCapacity
           /\ 1 \in DOMAIN queue[t] /\ Head(queue[t]) = queue[t][1] /\ Head(queue[t]) \in Commands
           /\ \A n \in DOMAIN queue'[t] : n > 0 /\ n + 1 \in DOMAIN queue[t] /\ queue'[t][n] = queue[t][n + 1]
           /\ \A n \in DOMAIN queue[t] : n # 1 => n - 1 \in DOMAIN queue'[t] /\ queue'[t][n - 1] = queue[t][n]
           /\ \A u \in Transports : u # t => queue'[u] = queue[u]
  <1>1. queue[t] \in Seq(Commands) /\ Len(queue[t]) <= ChannelCapacity
    BY DEF TypeInv, QueueOK
  <1>2. /\ Tail(queue[t]) \in Seq(Commands) /\ Len(Tail(queue[t])) = Len(queue[t]) - 1
        /\ Len(queue[t]) \in Nat \ {0}
        /\ 1 \in DOMAIN queue[t] /\ Head(queue[t]) = queue[t][1] /\ Head(queue[t]) \in Commands
        /\ \A n \in DOMAIN Tail(queue[t]) : n > 0 /\ n + 1 \in DOMAIN queue[t] /\ Tail(queue[t])[n] = queue[t][n + 1]
        /\ \A n \in DOMAIN queue[t] : n # 1 => n - 1 \in DOMAIN Tail(queue[t]) /\ Tail(queue[t])[n - 1] = queue[t][n]
    BY <1>1
  <1>3. queue' \in [Transports -> Seq(Commands)] /\ queue'[t] = Tail(queue[t])
        /\ \A u \in Transports : u # t => queue'[u] = queue[u]
    BY <1>2 DEF TypeInv, QueueOK
  <1> QED
    BY <1>1, <1>2, <1>3, Assumptions

LEMMA Dropped ==
    ASSUME TypeInv, NEW p \in Callers, DropReceiver(p)
    PROVE  /\ queue' \in [Transports -> Seq(Commands)]
           /\ \A t \in Transports :
                 /\ Len(queue'[t]) = Len(queue[t]) /\ DOMAIN queue'[t] = DOMAIN queue[t]
                 /\ \A n \in DOMAIN queue[t] :
                       /\ queue'[t][n].from = IF queue[t][n].from = p THEN None ELSE queue[t][n].from
                       /\ queue'[t][n].op = queue[t][n].op /\ queue'[t][n].config = queue[t][n].config
                       /\ queue'[t][n].id = queue[t][n].id
  <1> DEFINE after(m) == IF m.from = p THEN [m EXCEPT !.from = None] ELSE m
  <1>1. queue' = [t \in Transports |-> [n \in DOMAIN queue[t] |-> after(queue[t][n])]]
    BY DEF DropReceiver
  <1>2. ASSUME NEW m \in Commands
        PROVE  /\ after(m) \in Commands
               /\ after(m).from = IF m.from = p THEN None ELSE m.from
               /\ after(m).op = m.op /\ after(m).config = m.config /\ after(m).id = m.id
    BY <1>2 DEF Commands
  <1> HIDE DEF after
  <1>3. ASSUME NEW t \in Transports
        PROVE  /\ queue'[t] \in Seq(Commands) /\ Len(queue'[t]) = Len(queue[t])
               /\ DOMAIN queue'[t] = DOMAIN queue[t]
               /\ \A n \in DOMAIN queue[t] : queue[t][n] \in Commands /\ queue'[t][n] = after(queue[t][n])
    <2>1. DOMAIN queue[t] = 1 .. Len(queue[t]) /\ Len(queue[t]) \in Nat
          /\ \A n \in DOMAIN queue[t] : queue[t][n] \in Commands
      BY DEF TypeInv, QueueOK
    <2>2. queue'[t] = [n \in DOMAIN queue[t] |-> after(queue[t][n])]
      BY <1>1
    <2> QED
      BY <1>2, <2>1, <2>2
  <1> QED
    BY <1>1, <1>2, <1>3

(* One entry of one transport's table changes.                             *)
LEMMA TableUpdate ==
    ASSUME handlerTable \in [Transports -> [Keys -> Ids \cup {None}]],
           NEW t \in Transports, NEW k \in Keys, NEW i \in Ids \cup {None},
           handlerTable' = [handlerTable EXCEPT ![t][k] = i]
    PROVE  /\ handlerTable' \in [Transports -> [Keys -> Ids \cup {None}]]
           /\ \A u \in Transports, l \in Keys :
                 handlerTable'[u][l] = IF u = t /\ l = k THEN i ELSE handlerTable[u][l]
  <1>1. handlerTable' = [handlerTable EXCEPT ![t] = [handlerTable[t] EXCEPT ![k] = i]]
    OBVIOUS
  <1>2. handlerTable[t] \in [Keys -> Ids \cup {None}]
    OBVIOUS
  <1> DEFINE row == [handlerTable[t] EXCEPT ![k] = i]
  <1>3. row \in [Keys -> Ids \cup {None}] /\ \A l \in Keys : row[l] = IF l = k THEN i ELSE handlerTable[t][l]
    BY <1>2
  <1> HIDE DEF row
  <1>4. handlerTable' = [handlerTable EXCEPT ![t] = row]
    BY <1>1 DEF row
  <1> QED
    BY <1>3, <1>4

LEMMA InitTypeInv == Init => TypeInv
  <1> SUFFICES ASSUME Init PROVE TypeInv
    OBVIOUS
  <1>1. \A t \in Transports : queue[t] = <<>> /\ Len(queue[t]) = 0 /\ DOMAIN queue[t] = {}
    BY DEF Init
  <1>2. TypeOK
    BY <1>1, Assumptions DEF Init, TypeOK
  <1>3. QueueOK
    BY <1>1, Assumptions DEF Init, QueueOK
  <1>4. \A p \in Callers : CallOK(p)
    BY DEF Init, CallOK
  <1> QED
    BY <1>2, <1>3, <1>4 DEF TypeInv

LEMMA QueueStep == TypeInv /\ [Next]_vars => QueueOK'
  <1> SUFFICES ASSUME TypeInv, [Next]_vars
               PROVE  QueueOK'
    OBVIOUS
  <1>1. QueueOK
    BY DEF TypeInv
  <1>2. ASSUME NEW p \in Callers, SendToEngine(p)
        PROVE  QueueOK'
    <2>1. Command(p).op = "register" => Command(p).id \in Ids
      BY <1>2 DEF SendToEngine, Command, TypeInv, CallOK
    <2> DEFINE t == call[p].transport
    <2>2. /\ t \in Transports
          /\ queue' \in [Transports -> Seq(Commands)] /\ Len(queue'[t]) <= ChannelCapacity
          /\ queue'[t][Len(queue'[t])] = Command(p)
          /\ \A n \in DOMAIN queue[t] : queue'[t][n] = queue[t][n]
          /\ \A n \in DOMAIN queue'[t] : n # Len(queue'[t]) => n \in DOMAIN queue[t]
          /\ \A u \in Transports : u # t => queue'[u] = queue[u]
      BY <1>2, Sent
    <2> HIDE DEF t
    <2> QED
      BY <1>1, <2>1, <2>2 DEF QueueOK
  <1>3. ASSUME NEW p \in Callers, DropReceiver(p)
        PROVE  QueueOK'
    <2>1. /\ queue' \in [Transports -> Seq(Commands)]
          /\ \A t \in Transports :
                /\ Len(queue'[t]) = Len(queue[t]) /\ DOMAIN queue'[t] = DOMAIN queue[t]
                /\ \A n \in DOMAIN queue[t] :
                      queue'[t][n].op = queue[t][n].op /\ queue'[t][n].id = queue[t][n].id
      BY <1>3, Dropped
    <2> QED
      BY <1>1, <2>1 DEF QueueOK
  <1>4. ASSUME NEW t \in Transports, EngineStep(t)
        PROVE  QueueOK'
    <2>1. queue[t] # <<>> /\ queue' = [queue EXCEPT ![t] = Tail(@)]
      BY <1>4 DEF EngineStep, RegisterListenerInternal, UnregisterListenerInternal
    <2>2. /\ queue' \in [Transports -> Seq(Commands)] /\ Len(queue'[t]) <= ChannelCapacity
          /\ \A n \in DOMAIN queue'[t] : n + 1 \in DOMAIN queue[t] /\ queue'[t][n] = queue[t][n + 1]
          /\ \A u \in Transports : u # t => queue'[u] = queue[u]
      BY <2>1, Executed
    <2>3. ASSUME NEW u \in Transports
          PROVE  /\ Len(queue'[u]) <= ChannelCapacity
                 /\ \A n \in DOMAIN queue'[u] : queue'[u][n].op = "register" => queue'[u][n].id \in Ids
      <3>1. CASE u = t
        BY <1>1, <2>2, <3>1 DEF QueueOK
      <3>2. CASE u # t
        BY <1>1, <2>2, <3>2 DEF QueueOK
      <3> QED
        BY <3>1, <3>2
    <2> QED
      BY <2>2, <2>3 DEF QueueOK
  <1>5. CASE queue' = queue
    BY <1>1, <1>5 DEF QueueOK
  <1>6. ASSUME NEW p \in Callers,
               CallRegister(p) \/ CallUnregister(p) \/ CallerStep(p) \/ AwaitTimeout(p) \/ CancelRegister(p)
        PROVE  SendToEngine(p) \/ DropReceiver(p) \/ queue' = queue
    BY <1>6 DEF CallRegister, CallUnregister, CallerStep, AwaitTimeout, CancelRegister, GetMessageHandler,
                AwaitEngine, ReleaseMessageHandler
  <1> QED
    BY <1>2, <1>3, <1>4, <1>5, <1>6 DEF Next, vars

LEMMA TypeStep == TypeInv /\ [Next]_vars => TypeInv'
  <1> SUFFICES ASSUME TypeInv, [Next]_vars
               PROVE  TypeOK' /\ \A p \in Callers : CallOK(p)'
    BY QueueStep DEF TypeInv
  <1> USE Assumptions
  <1>1. \A t \in Transports : queue'[t] \in Seq(Commands) /\ Len(queue'[t]) <= ChannelCapacity
    BY QueueStep DEF QueueOK
  <1>2. ASSUME NEW p \in Callers, CallRegister(p) \/ CallUnregister(p)
        PROVE  TypeOK' /\ \A q \in Callers : CallOK(q)'
    <2>1. PICK op \in {"register", "unregister"}, t \in Transports, c \in CallsFor(p) :
             call' = [call EXCEPT ![p] = [op |-> op, transport |-> t, config |-> c, id |-> None]]
             /\ pc' = [pc EXCEPT ![p] = IF op = "register" THEN "getHandler" ELSE "send"]
      BY <1>2 DEF CallRegister, CallUnregister, Goto
    <2> DEFINE r == [op |-> op, transport |-> t, config |-> c, id |-> None]
    <2>2. r \in Calls /\ r.op = op /\ r.config = c
      BY DEF Calls
    <2> HIDE DEF r
    <2>3. /\ call' = [call EXCEPT ![p] = r]
          /\ UNCHANGED <<holder, queue, announced, handlerTable, reply, overridden>>
          /\ established' \subseteq established
      BY <1>2, <2>1 DEF CallRegister, CallUnregister, r
    <2> QED
      BY <1>1, <2>1, <2>2, <2>3 DEF TypeInv, TypeOK, CallOK
  <1>3. ASSUME NEW p \in Callers, GetMessageHandler(p)
        PROVE  TypeOK' /\ \A q \in Callers : CallOK(q)'
    <2>1. /\ pc[p] = "getHandler" /\ call[p] \in Calls /\ call[p].transport \in Transports
          /\ call[p].config \in CallsFor(p) /\ call[p].config \in Configs /\ call[p].op = "register"
          /\ UNCHANGED <<queue, announced, handlerTable, reply, established, overridden>>
      BY <1>3 DEF GetMessageHandler, TypeInv, CallOK, Calls
    <2>2. ASSUME NEW i \in Ids,
                 holder' = [holder EXCEPT ![i] = <<call[p].transport, call[p].config>>],
                 call' = [call EXCEPT ![p].id = i], pc' = [pc EXCEPT ![p] = "send"]
          PROVE  TypeOK' /\ \A q \in Callers : CallOK(q)'
      <3> DEFINE r == [call[p] EXCEPT !.id = i]
      <3>1. r \in Calls /\ r.config = call[p].config /\ r.id = i
        BY <2>1 DEF Calls
      <3>2. call' = [call EXCEPT ![p] = r]
        BY <2>2
      <3> HIDE DEF r
      <3>3. \A q \in Callers : CallOK(q)'
        BY <2>1, <2>2, <3>1, <3>2 DEF TypeInv, TypeOK, CallOK
      <3>4. holder' \in [Ids -> (Transports \X Configs) \cup {None}]
        BY <2>1, <2>2 DEF TypeInv, TypeOK
      <3>5. pc' \in [Callers -> {"idle", "getHandler", "send", "await", "release"}]
            /\ call' \in [Callers -> Calls \cup {None}]
        BY <2>2, <3>1, <3>2 DEF TypeInv, TypeOK
      <3> QED
        BY <1>1, <2>1, <3>3, <3>4, <3>5 DEF TypeInv, TypeOK
    <2>3. CASE Done(p) /\ UNCHANGED holder
      BY <1>1, <2>1, <2>3 DEF Done, Goto, TypeInv, TypeOK, CallOK
    <2> QED
      BY <1>3, <2>2, <2>3 DEF GetMessageHandler, Goto, Unheld
  <1>4. ASSUME NEW p \in Callers, SendToEngine(p)
        PROVE  TypeOK' /\ \A q \in Callers : CallOK(q)'
    BY <1>1, <1>4 DEF SendToEngine, Goto, TypeInv, TypeOK, CallOK
  <1>5. ASSUME NEW p \in Callers, AwaitEngine(p) \/ AwaitTimeout(p)
        PROVE  TypeOK' /\ \A q \in Callers : CallOK(q)'
    <2>1. PICK ok \in BOOLEAN : pc[p] = "await" /\ Awaited(p, ok)
      BY <1>5 DEF AwaitEngine, AwaitTimeout
    <2>2. /\ UNCHANGED <<holder, announced, handlerTable, overridden>>
          /\ reply' \in [Callers -> {"Ok", None}]
      BY <1>5 DEF AwaitEngine, AwaitTimeout, TypeInv, TypeOK
    <2>3. <<call[p].transport, call[p].config>> \in Transports \X Configs
          /\ call[p].op \in {"register", "unregister"}
      BY <2>1 DEF TypeInv, CallOK, Calls
    <2>4. CASE call[p].op = "register"
      <3>1. /\ pc' = [pc EXCEPT ![p] = "idle"] /\ call' = [call EXCEPT ![p] = None]
            /\ established' \subseteq established \cup {<<call[p].transport, call[p].config>>}
        BY <2>1, <2>4 DEF Awaited, Done, Goto
      <3> QED
        BY <1>1, <2>2, <2>3, <3>1 DEF TypeInv, TypeOK, CallOK
    <2>5. CASE call[p].op = "unregister"
      <3>1. pc' = [pc EXCEPT ![p] = "release"] /\ UNCHANGED <<call, established>>
        BY <2>1, <2>5 DEF Awaited, Goto
      <3> QED
        BY <1>1, <2>1, <2>2, <2>5, <3>1 DEF TypeInv, TypeOK, CallOK
    <2> QED
      BY <2>3, <2>4, <2>5
  <1>6. ASSUME NEW p \in Callers, CancelRegister(p)
        PROVE  TypeOK' /\ \A q \in Callers : CallOK(q)'
    BY <1>1, <1>6 DEF CancelRegister, Done, Goto, TypeInv, TypeOK, CallOK
  <1>7. ASSUME NEW p \in Callers, ReleaseMessageHandler(p)
        PROVE  TypeOK' /\ \A q \in Callers : CallOK(q)'
    BY <1>1, <1>7 DEF ReleaseMessageHandler, Done, Goto, TypeInv, TypeOK, CallOK
  <1>8. ASSUME NEW t \in Transports, EngineStep(t)
        PROVE  TypeOK' /\ \A q \in Callers : CallOK(q)'
    <2> DEFINE command == Head(queue[t])
               key == IF command.op = "register" THEN RegisterKey[command.config]
                      ELSE UnregisterKey[command.config]
    <2>1. /\ queue[t] # <<>> /\ queue' = [queue EXCEPT ![t] = Tail(@)]
          /\ UNCHANGED <<holder, pc, call, established>> /\ Answer(command)
      BY <1>8 DEF EngineStep, RegisterListenerInternal, UnregisterListenerInternal
    <2>2. command \in Commands /\ command.config \in Configs
      BY <2>1, Executed DEF Commands
    <2>3. /\ key \in Keys /\ Announcement[command.config] \in Announcements
      BY <2>2, KindsAndKeys
    <2>4. \E i \in Ids \cup {None} : handlerTable' = [handlerTable EXCEPT ![t][key] = i]
      BY <1>8, <2>2 DEF EngineStep, RegisterListenerInternal, UnregisterListenerInternal, Commands
    <2>5. announced' \in [Transports -> SUBSET Announcements]
      <3>1. \/ announced' = announced
            \/ announced' = [announced EXCEPT ![t] = @ \cup {Announcement[command.config]}]
        BY <1>8 DEF EngineStep, RegisterListenerInternal, UnregisterListenerInternal
      <3> QED
        BY <2>3, <3>1 DEF TypeInv, TypeOK
    <2>6. overridden' \subseteq Transports \X Configs
      <3>1. overridden' \subseteq overridden \cup Sharing(t, command.config, key)
        BY <1>8 DEF EngineStep, RegisterListenerInternal, UnregisterListenerInternal
      <3> QED
        BY <3>1 DEF Sharing, TypeInv, TypeOK
    <2>7. reply' \in [Callers -> {"Ok", None}]
      BY <2>1, <2>2 DEF Answer, Commands, TypeInv, TypeOK
    <2> HIDE DEF command, key
    <2>8. handlerTable' \in [Transports -> [Keys -> Ids \cup {None}]]
      BY <2>3, <2>4, TableUpdate DEF TypeInv, TypeOK
    <2> QED
      BY <1>1, <2>1, <2>5, <2>6, <2>7, <2>8 DEF TypeInv, TypeOK, CallOK
  <1>9. CASE UNCHANGED vars
    BY <1>1, <1>9 DEF vars, TypeInv, TypeOK, CallOK
  <1> QED
    BY <1>2, <1>3, <1>4, <1>5, <1>6, <1>7, <1>8, <1>9 DEF Next, CallerStep

(* The program's state has the types that the model gives it, however      *)
(* many callers share the registrations.                                   *)
THEOREM TypeCorrect == Spec => []TypeOK
  <1>1. TypeInv => TypeOK
    BY DEF TypeInv
  <1> QED
    BY <1>1, InitTypeInv, TypeStep, PTL DEF Spec
-----------------------------------------------------------------------------
(* A caller's step leaves the other callers alone.                         *)
Others(p) == \A q \in Callers : q # p => pc'[q] = pc[q] /\ call'[q] = call[q]

LEMMA OneCallerSteps ==
    ASSUME TypeInv, NEW p \in Callers,
           CallRegister(p) \/ CallUnregister(p) \/ CallerStep(p) \/ AwaitTimeout(p) \/ CancelRegister(p)
    PROVE  Others(p)
  <1>1. ASSUME NEW step, Goto(p, step) PROVE \A q \in Callers : q # p => pc'[q] = pc[q]
    BY <1>1 DEF Goto, TypeInv, TypeOK
  <1>2. \A r : call' = [call EXCEPT ![p] = r] => \A q \in Callers : q # p => call'[q] = call[q]
    BY DEF TypeInv, TypeOK
  <1>3. Done(p) => Others(p)
    BY <1>1, <1>2 DEF Done, Others
  <1>4. CASE CallRegister(p) \/ CallUnregister(p)
    BY <1>1, <1>2, <1>4 DEF CallRegister, CallUnregister, Others
  <1>5. CASE GetMessageHandler(p)
    <2>1. \A i : call' = [call EXCEPT ![p].id = i] => \A q \in Callers : q # p => call'[q] = call[q]
      BY DEF TypeInv, TypeOK
    <2> QED
      BY <1>1, <1>3, <1>5, <2>1 DEF GetMessageHandler, Others
  <1>6. CASE SendToEngine(p)
    BY <1>1, <1>6 DEF SendToEngine, Others
  <1>7. CASE AwaitEngine(p) \/ AwaitTimeout(p)
    BY <1>1, <1>3, <1>7 DEF AwaitEngine, AwaitTimeout, Awaited, Others
  <1>8. CASE CancelRegister(p) \/ ReleaseMessageHandler(p)
    BY <1>3, <1>8 DEF CancelRegister, ReleaseMessageHandler
  <1> QED
    BY <1>4, <1>5, <1>6, <1>7, <1>8 DEF CallerStep

(* Where a caller gets to in one step.                                     *)
LEMMA CallerGoes ==
    ASSUME TypeInv, NEW p \in Callers
    PROVE  /\ CallRegister(p) => pc[p] = "idle" /\ pc'[p] = "getHandler"
           /\ CallUnregister(p) => pc[p] = "idle" /\ pc'[p] = "send" /\ call'[p].op = "unregister"
           /\ SendToEngine(p) => pc[p] = "send" /\ pc'[p] = "await" /\ call'[p] = call[p]
           /\ AwaitEngine(p) \/ AwaitTimeout(p) =>
                 /\ pc[p] = "await"
                 /\ \/ pc'[p] = "idle" /\ call[p].op = "register"
                    \/ pc'[p] = "release" /\ call[p].op = "unregister" /\ call'[p] = call[p]
           /\ CancelRegister(p) => pc'[p] = "idle"
           /\ ReleaseMessageHandler(p) => pc[p] = "release" /\ pc'[p] = "idle"
  <1>1. \A step : Goto(p, step) => pc'[p] = step
    BY DEF Goto, TypeInv, TypeOK
  <1>2. Done(p) => pc'[p] = "idle"
    BY <1>1 DEF Done
  <1>3. CallUnregister(p) => call'[p].op = "unregister"
    BY DEF CallUnregister, TypeInv, TypeOK
  <1>4. pc[p] = "await" => call[p].op \in {"register", "unregister"}
    BY DEF TypeInv, CallOK, Calls
  <1> QED
    BY <1>1, <1>2, <1>3, <1>4 DEF CallRegister, CallUnregister, SendToEngine, AwaitEngine, AwaitTimeout,
       Awaited, CancelRegister, ReleaseMessageHandler

(* What get_message_handler does when it succeeds.                         *)
Takes(p, i) ==
    /\ pc[p] = "getHandler" /\ i \in Ids /\ holder[i] = None
    /\ HeldBy(call[p].transport, call[p].config) = {}
    /\ holder' = [holder EXCEPT ![i] = <<call[p].transport, call[p].config>>]
    /\ call' = [call EXCEPT ![p].id = i] /\ pc' = [pc EXCEPT ![p] = "send"]
    /\ UNCHANGED <<queue, announced, handlerTable, reply, established, overridden>>

LEMMA TakesOrFails ==
    ASSUME TypeInv, NEW p \in Callers, GetMessageHandler(p)
    PROVE  (\E i \in Ids : Takes(p, i)) \/ (Done(p) /\ pc'[p] = "idle" /\ UNCHANGED holder)
  <1>1. Done(p) => pc'[p] = "idle"
    BY DEF Done, Goto, TypeInv, TypeOK
  <1> QED
    BY <1>1 DEF GetMessageHandler, Takes, Unheld, Goto

LEMMA Taken ==
    ASSUME TypeInv, NEW p \in Callers, NEW i \in Ids, Takes(p, i)
    PROVE  /\ call[p].op = "register" /\ call[p].config \in CallsFor(p)
           /\ call[p].transport \in Transports /\ call[p].config \in Configs
           /\ pc'[p] = "send" /\ call'[p].op = "register" /\ call'[p].id = i
           /\ call'[p].transport = call[p].transport /\ call'[p].config = call[p].config
           /\ \A j \in Ids : holder'[j] = IF j = i THEN <<call[p].transport, call[p].config>> ELSE holder[j]
  <1>1. /\ call[p] \in Calls /\ call[p].op = "register" /\ call[p].config \in CallsFor(p)
        /\ call[p].transport \in Transports /\ call[p].config \in Configs
    BY DEF TypeInv, CallOK, Calls, Takes
  <1>2. pc'[p] = "send" /\ call'[p] = [call[p] EXCEPT !.id = i]
    BY DEF Takes, TypeInv, TypeOK
  <1>3. \A j \in Ids : holder'[j] = IF j = i THEN <<call[p].transport, call[p].config>> ELSE holder[j]
    BY DEF Takes, TypeInv, TypeOK
  <1> QED
    BY <1>1, <1>2, <1>3 DEF Calls

-----------------------------------------------------------------------------
(* AnswersFindTheirCaller, one caller and one command at a time.           *)
Addressed(q) ==
    /\ \A t \in Transports : \A n \in DOMAIN queue[t] : queue[t][n].from = q =>
          Waits(q) /\ call[q].transport = t /\ queue[t][n] = Command(q)
    /\ \A t \in Transports : \A m, n \in DOMAIN queue[t] :
          queue[t][m].from = q /\ queue[t][n].from = q => m = n
    /\ Waits(q) => \E n \in DOMAIN queue[call[q].transport] : queue[call[q].transport][n].from = q
    /\ reply[q] # None => pc[q] = "await"

AllAddressed == \A q \in Callers : Addressed(q)

LEMMA InitAddressed == Init => AllAddressed
  <1> SUFFICES ASSUME Init PROVE AllAddressed
    OBVIOUS
  <1>1. \A t \in Transports : DOMAIN queue[t] = {}
    BY DEF Init
  <1>2. \A q \in Callers : pc[q] = "idle" /\ reply[q] = None
    BY DEF Init
  <1> QED
    BY <1>1, <1>2 DEF AllAddressed, Addressed, Waits

(* Nothing changes for a caller whose commands only move in their channels.*)
LEMMA AddressedFrame ==
    ASSUME NEW q \in Callers, Addressed(q), pc'[q] = pc[q], call'[q] = call[q], reply'[q] = reply[q],
           pc[q] = "await" => call[q].transport \in Transports,
           NEW shift \in [Transports -> Nat],
           \A t \in Transports : DOMAIN queue[t] \subseteq Nat /\ DOMAIN queue'[t] \subseteq Nat,
           \A t \in Transports : \A n \in DOMAIN queue'[t] : queue'[t][n].from = q =>
              n + shift[t] \in DOMAIN queue[t] /\ queue[t][n + shift[t]] = queue'[t][n],
           \A t \in Transports : \A n \in DOMAIN queue[t] : queue[t][n].from = q =>
              n - shift[t] \in DOMAIN queue'[t] /\ queue'[t][n - shift[t]] = queue[t][n]
    PROVE  Addressed(q)'
  <1>1. Command(q)' = Command(q) /\ Waits(q)' = Waits(q)
    BY DEF Command, Waits
  <1>2. ASSUME NEW t \in Transports, NEW n \in DOMAIN queue'[t], queue'[t][n].from = q
        PROVE  Waits(q) /\ call[q].transport = t /\ queue'[t][n] = Command(q)
    BY <1>2 DEF Addressed
  <1>3. ASSUME NEW t \in Transports, NEW m \in DOMAIN queue'[t], NEW n \in DOMAIN queue'[t],
               queue'[t][m].from = q, queue'[t][n].from = q
        PROVE  m = n
    <2>1. m + shift[t] = n + shift[t]
      BY <1>3 DEF Addressed
    <2>2. m \in Nat /\ n \in Nat /\ shift[t] \in Nat
      OBVIOUS
    <2> QED
      BY <2>1, <2>2
  <1>4. ASSUME Waits(q)
        PROVE  \E n \in DOMAIN queue'[call[q].transport] : queue'[call[q].transport][n].from = q
    <2>1. call[q].transport \in Transports
      BY <1>4 DEF Waits
    <2>2. PICK n \in DOMAIN queue[call[q].transport] : queue[call[q].transport][n].from = q
      BY <1>4 DEF Addressed
    <2> QED
      BY <2>1, <2>2
  <1>5. reply'[q] # None => pc'[q] = "await"
    BY DEF Addressed
  <1> QED
    BY <1>1, <1>2, <1>3, <1>4, <1>5 DEF Addressed

(* A caller that waits neither before nor after a step has no command.     *)
LEMMA NotWaiting ==
    ASSUME NEW q \in Callers, Addressed(q), pc[q] # "await" \/ reply[q] # None,
           pc'[q] # "await", reply'[q] = None, queue' = queue
    PROVE  Addressed(q)'
  <1>1. \A t \in Transports : \A n \in DOMAIN queue'[t] : queue'[t][n].from # q
    BY DEF Addressed, Waits
  <1>2. ~Waits(q)'
    BY DEF Waits
  <1> QED
    BY <1>1, <1>2 DEF Addressed

(* A caller that gives up has no command to be answered left.              *)
LEMMA GivingUp ==
    ASSUME TypeInv, NEW q \in Callers, DropReceiver(q), pc'[q] # "await", reply'[q] = None
    PROVE  Addressed(q)'
  <1>1. \A t \in Transports : DOMAIN queue'[t] = DOMAIN queue[t]
        /\ \A n \in DOMAIN queue[t] :
              queue'[t][n].from = IF queue[t][n].from = q THEN None ELSE queue[t][n].from
    BY Dropped
  <1>2. \A t \in Transports : \A n \in DOMAIN queue'[t] : queue'[t][n].from # q
    BY <1>1, Assumptions
  <1>3. ~Waits(q)'
    BY DEF Waits
  <1> QED
    BY <1>2, <1>3 DEF Addressed

LEMMA SendingAddresses ==
    ASSUME TypeInv, AllAddressed, NEW p \in Callers, SendToEngine(p)
    PROVE  Addressed(p)'
  <1>1. pc[p] = "send" /\ pc'[p] = "await" /\ call'[p] = call[p] /\ reply' = reply
    BY CallerGoes DEF SendToEngine
  <1>2. reply[p] = None /\ \A t \in Transports : \A n \in DOMAIN queue[t] : queue[t][n].from # p
    BY <1>1 DEF AllAddressed, Addressed, Waits
  <1> DEFINE s == call[p].transport
             last == Len(queue'[s])
  <1>3. /\ s \in Transports /\ last \in DOMAIN queue'[s] /\ queue'[s][last] = Command(p)
        /\ \A n \in DOMAIN queue'[s] : n # last => n \in DOMAIN queue[s] /\ queue'[s][n] = queue[s][n]
        /\ \A u \in Transports : u # s => queue'[u] = queue[u]
    BY Sent
  <1>4. Command(p).from = p /\ Command(p)' = Command(p) /\ Waits(p)' /\ call'[p].transport = s
    BY <1>1, <1>2 DEF Command, Waits
  <1> HIDE DEF s, last
  <1>5. ASSUME NEW t \in Transports, NEW n \in DOMAIN queue'[t], queue'[t][n].from = p
        PROVE  t = s /\ n = last
    <2>1. CASE t = s
      BY <1>2, <1>3, <1>5, <2>1
    <2>2. CASE t # s
      BY <1>2, <1>3, <1>5, <2>2
    <2> QED
      BY <2>1, <2>2
  <1> QED
    BY <1>1, <1>2, <1>3, <1>4, <1>5 DEF Addressed

LEMMA AnsweringAddresses ==
    ASSUME TypeInv, AllAddressed, NEW s \in Transports, EngineStep(s), NEW q \in Callers
    PROVE  Addressed(q)'
  <1>1. PICK command : command = Head(queue[s])
    OBVIOUS
  <1>2. /\ queue[s] # <<>> /\ queue' = [queue EXCEPT ![s] = Tail(@)] /\ Answer(command)
        /\ UNCHANGED <<pc, call>>
    BY <1>1 DEF EngineStep, RegisterListenerInternal, UnregisterListenerInternal
  <1>3. /\ queue' \in [Transports -> Seq(Commands)]
        /\ 1 \in DOMAIN queue[s] /\ command = queue[s][1] /\ command.from \in Callers \cup {None}
        /\ \A n \in DOMAIN queue'[s] : n > 0 /\ n + 1 \in DOMAIN queue[s] /\ queue'[s][n] = queue[s][n + 1]
        /\ \A n \in DOMAIN queue[s] : n # 1 => n - 1 \in DOMAIN queue'[s] /\ queue'[s][n - 1] = queue[s][n]
        /\ \A u \in Transports : u # s => queue'[u] = queue[u]
    BY <1>1, <1>2, Executed DEF Commands
  <1>4. \A t \in Transports : DOMAIN queue[t] \subseteq Nat /\ DOMAIN queue'[t] \subseteq Nat
    BY <1>3 DEF TypeInv, QueueOK
  <1>5. Addressed(q)
    BY DEF AllAddressed
  <1>6. CASE command.from = q
    <2>1. q # None
      BY Assumptions
    <2>2. reply'[q] = "Ok" /\ reply'[q] # None
      BY <1>2, <1>6, <2>1, Assumptions DEF Answer, TypeInv, TypeOK
    <2>3. pc'[q] = "await" /\ call[q].transport = s
      BY <1>2, <1>3, <1>5, <1>6 DEF Addressed, Waits
    <2>4. ASSUME NEW t \in Transports, NEW n \in DOMAIN queue'[t]
          PROVE  queue'[t][n].from # q
      <3>1. CASE t = s
        <4>1. n + 1 \in DOMAIN queue[s] /\ queue'[s][n] = queue[s][n + 1] /\ n + 1 # 1
          BY <1>3, <1>4, <3>1
        <4> QED
          BY <1>3, <1>5, <1>6, <3>1, <4>1 DEF Addressed
      <3>2. CASE t # s
        BY <1>3, <1>5, <2>3, <3>2 DEF Addressed
      <3> QED
        BY <3>1, <3>2
    <2> QED
      BY <2>2, <2>3, <2>4 DEF Addressed, Waits
  <1>7. CASE command.from # q
    <2>1. reply'[q] = reply[q] /\ pc'[q] = pc[q] /\ call'[q] = call[q]
      BY <1>2, <1>7 DEF Answer, TypeInv, TypeOK
    <2>2. pc[q] = "await" => call[q].transport \in Transports
      BY DEF TypeInv, CallOK, Calls
    <2>3. PICK shift \in [Transports -> Nat] : shift = [t \in Transports |-> IF t = s THEN 1 ELSE 0]
      OBVIOUS
    <2>4. ASSUME NEW t \in Transports
          PROVE  /\ \A n \in DOMAIN queue'[t] : queue'[t][n].from = q =>
                       n + shift[t] \in DOMAIN queue[t] /\ queue[t][n + shift[t]] = queue'[t][n]
                 /\ \A n \in DOMAIN queue[t] : queue[t][n].from = q =>
                       n - shift[t] \in DOMAIN queue'[t] /\ queue'[t][n - shift[t]] = queue[t][n]
      <3>1. CASE t = s
        <4>1. shift[t] = 1
          BY <2>3, <3>1
        <4> QED
          BY <1>3, <1>7, <3>1, <4>1
      <3>2. CASE t # s
        <4>1. shift[t] = 0 /\ queue'[t] = queue[t]
          BY <1>3, <2>3, <3>2
        <4>2. \A n \in DOMAIN queue[t] : n + 0 = n /\ n - 0 = n
          BY <1>4
        <4> QED
          BY <4>1, <4>2
      <3> QED
        BY <3>1, <3>2
    <2> QED
      BY <1>4, <1>5, <2>1, <2>2, <2>4, AddressedFrame
  <1> QED
    BY <1>6, <1>7

(* What another caller does in its step.                                   *)
LEMMA OthersAddressed ==
    ASSUME TypeInv, AllAddressed, NEW p \in Callers,
           CallRegister(p) \/ CallUnregister(p) \/ CallerStep(p) \/ AwaitTimeout(p) \/ CancelRegister(p),
           NEW q \in Callers, q # p
    PROVE  Addressed(q)'
  <1>1. pc'[q] = pc[q] /\ call'[q] = call[q]
    BY OneCallerSteps DEF Others
  <1>2. reply'[q] = reply[q]
    BY DEF CallRegister, CallUnregister, CallerStep, AwaitTimeout, CancelRegister, GetMessageHandler,
           SendToEngine, AwaitEngine, ReleaseMessageHandler, TypeInv, TypeOK
  <1>3. pc[q] = "await" => call[q].transport \in Transports
    BY DEF TypeInv, CallOK, Calls
  <1>4. SendToEngine(p) \/ DropReceiver(p) \/ queue' = queue
    BY DEF CallRegister, CallUnregister, CallerStep, AwaitTimeout, CancelRegister, GetMessageHandler,
           AwaitEngine, ReleaseMessageHandler
  <1>5. /\ queue' \in [Transports -> Seq(Commands)]
        /\ \A t \in Transports :
              /\ \A n \in DOMAIN queue'[t] : queue'[t][n].from = q =>
                    n \in DOMAIN queue[t] /\ queue[t][n] = queue'[t][n]
              /\ \A n \in DOMAIN queue[t] : queue[t][n].from = q =>
                    n \in DOMAIN queue'[t] /\ queue'[t][n] = queue[t][n]
    <2>1. CASE queue' = queue
      BY <2>1 DEF TypeInv, QueueOK
    <2>2. CASE DropReceiver(p)
      <3>1. /\ queue' \in [Transports -> Seq(Commands)]
            /\ \A t \in Transports : DOMAIN queue'[t] = DOMAIN queue[t]
            /\ \A t \in Transports : \A n \in DOMAIN queue[t] :
                  queue'[t][n].from = IF queue[t][n].from = p THEN None ELSE queue[t][n].from
        BY <2>2, Dropped
      <3>2. \A t \in Transports : \A n \in DOMAIN queue[t] :
               queue[t][n].from # p => queue'[t][n] = queue[t][n]
        BY <2>2 DEF DropReceiver
      <3>3. q # None
        BY Assumptions
      <3> QED
        BY <3>1, <3>2, <3>3
    <2>3. CASE SendToEngine(p)
      <3> DEFINE s == call[p].transport
                 last == Len(queue'[s])
      <3>1. Command(p).from = p
        BY DEF Command
      <3>2. /\ queue' \in [Transports -> Seq(Commands)]
            /\ queue'[s][last] = Command(p)
            /\ \A n \in DOMAIN queue[s] : n \in DOMAIN queue'[s] /\ queue'[s][n] = queue[s][n]
            /\ \A n \in DOMAIN queue'[s] : n # last => n \in DOMAIN queue[s]
            /\ \A u \in Transports : u # s => queue'[u] = queue[u]
        BY <2>3, Sent
      <3> HIDE DEF s, last
      <3>3. ASSUME NEW t \in Transports
            PROVE  /\ \A n \in DOMAIN queue'[t] : queue'[t][n].from = q =>
                         n \in DOMAIN queue[t] /\ queue[t][n] = queue'[t][n]
                   /\ \A n \in DOMAIN queue[t] : queue[t][n].from = q =>
                         n \in DOMAIN queue'[t] /\ queue'[t][n] = queue[t][n]
        <4>1. CASE t = s
          BY <3>1, <3>2, <4>1
        <4>2. CASE t # s
          BY <3>2, <4>2
        <4> QED
          BY <4>1, <4>2
      <3> QED
        BY <3>2, <3>3
    <2> QED
      BY <1>4, <2>1, <2>2, <2>3
  <1>6. \A t \in Transports : DOMAIN queue[t] \subseteq Nat /\ DOMAIN queue'[t] \subseteq Nat
    BY <1>5 DEF TypeInv, QueueOK
  <1>7. PICK shift \in [Transports -> Nat] : \A t \in Transports : shift[t] = 0
    <2>1. [t \in Transports |-> 0] \in [Transports -> Nat]
      OBVIOUS
    <2> QED
      BY <2>1
  <1>8. ASSUME NEW t \in Transports
        PROVE  /\ \A n \in DOMAIN queue'[t] : queue'[t][n].from = q =>
                     n + shift[t] \in DOMAIN queue[t] /\ queue[t][n + shift[t]] = queue'[t][n]
               /\ \A n \in DOMAIN queue[t] : queue[t][n].from = q =>
                     n - shift[t] \in DOMAIN queue'[t] /\ queue'[t][n - shift[t]] = queue[t][n]
    <2>1. \A n \in Nat : n + shift[t] = n /\ n - shift[t] = n
      BY <1>7
    <2>2. DOMAIN queue[t] \subseteq Nat /\ DOMAIN queue'[t] \subseteq Nat
      BY <1>6
    <2> QED
      BY <1>5, <2>1, <2>2
  <1>9. Addressed(q)
    BY DEF AllAddressed
  <1> QED
    BY <1>1, <1>2, <1>3, <1>6, <1>8, <1>9, AddressedFrame

LEMMA AddressedStep == TypeInv /\ AllAddressed /\ [Next]_vars => AllAddressed'
  <1> SUFFICES ASSUME TypeInv, AllAddressed, [Next]_vars PROVE AllAddressed'
    OBVIOUS
  <1>1. ASSUME NEW p \in Callers,
               CallRegister(p) \/ CallUnregister(p) \/ CallerStep(p) \/ AwaitTimeout(p) \/ CancelRegister(p)
        PROVE  Addressed(p)'
    <2>1. Addressed(p)
      BY DEF AllAddressed
    <2>2. CASE CallRegister(p) \/ CallUnregister(p) \/ GetMessageHandler(p) \/ ReleaseMessageHandler(p)
      <3>1. pc[p] # "await" /\ reply' = reply /\ queue' = queue
        BY <2>2 DEF CallRegister, CallUnregister, GetMessageHandler, ReleaseMessageHandler
      <3>2. pc'[p] # "await"
        BY <2>2, CallerGoes, TakesOrFails, Taken
      <3>3. reply'[p] = None
        BY <2>1, <3>1 DEF Addressed
      <3> QED
        BY <2>1, <3>1, <3>2, <3>3, NotWaiting
    <2>3. CASE SendToEngine(p)
      BY <2>3, SendingAddresses
    <2>4. CASE AwaitEngine(p)
      <3>1. reply[p] # None /\ queue' = queue /\ reply'[p] = None
        BY <2>4 DEF AwaitEngine, TypeInv, TypeOK
      <3>2. pc'[p] # "await"
        BY <2>4, CallerGoes
      <3> QED
        BY <2>1, <3>1, <3>2, NotWaiting
    <2>5. CASE AwaitTimeout(p) \/ CancelRegister(p)
      <3>1. DropReceiver(p) /\ reply'[p] = None
        BY <2>5 DEF AwaitTimeout, CancelRegister, TypeInv, TypeOK
      <3>2. pc'[p] # "await"
        BY <2>5, CallerGoes
      <3> QED
        BY <3>1, <3>2, GivingUp
    <2> QED
      BY <1>1, <2>2, <2>3, <2>4, <2>5 DEF CallerStep
  <1>2. ASSUME NEW p \in Callers,
               CallRegister(p) \/ CallUnregister(p) \/ CallerStep(p) \/ AwaitTimeout(p) \/ CancelRegister(p),
               NEW q \in Callers
        PROVE  Addressed(q)'
    BY <1>1, <1>2, OthersAddressed
  <1>3. ASSUME NEW t \in Transports, EngineStep(t), NEW q \in Callers
        PROVE  Addressed(q)'
    BY <1>3, AnsweringAddresses
  <1>4. CASE UNCHANGED vars
    BY <1>4 DEF vars, AllAddressed, Addressed, Waits, Command
  <1> QED
    BY <1>2, <1>3, <1>4 DEF Next, AllAddressed

LEMMA AddressedAnswers == TypeInv /\ AllAddressed => AnswersFindTheirCaller
  <1> SUFFICES ASSUME TypeInv, AllAddressed, NEW p \in Callers
               PROVE  /\ Waits(p) => \E n \in 1 .. ChannelCapacity : ToAnswer(p, call[p].transport) = {n}
                      /\ \A t \in Transports : \A n \in ToAnswer(p, t) :
                            Waits(p) /\ call[p].transport = t /\ queue[t][n] = Command(p)
                      /\ reply[p] # None => pc[p] = "await"
    BY DEF AnswersFindTheirCaller
  <1>1. Addressed(p)
    BY DEF AllAddressed
  <1>2. ASSUME Waits(p)
        PROVE  \E n \in 1 .. ChannelCapacity : ToAnswer(p, call[p].transport) = {n}
    <2>1. PICK t \in Transports : t = call[p].transport
      BY <1>2 DEF Waits, TypeInv, CallOK, Calls
    <2>2. PICK n \in DOMAIN queue[t] : queue[t][n].from = p
      BY <1>1, <1>2, <2>1 DEF Addressed
    <2>3. queue[t] \in Seq(Commands) /\ Len(queue[t]) <= ChannelCapacity
      BY DEF TypeInv, QueueOK
    <2>4. n \in 1 .. ChannelCapacity
      BY <2>2, <2>3, Assumptions
    <2>5. ToAnswer(p, t) = {n}
      BY <1>1, <2>2 DEF ToAnswer, Addressed
    <2> QED
      BY <2>1, <2>4, <2>5
  <1> QED
    BY <1>1, <1>2 DEF Addressed, ToAnswer

(* A caller that waits for the engine has exactly one command to be        *)
(* answered in its channel, and an answer is always to the call its caller *)
(* is in, with any number of callers and listeners, late answers and       *)
(* cancelled calls.                                                        *)
THEOREM AnswersAlwaysFindTheirCaller == Spec => []AnswersFindTheirCaller
  <1>1. TypeInv /\ AllAddressed /\ [Next]_vars => (TypeInv /\ AllAddressed)'
    BY TypeStep, AddressedStep
  <1> QED
    BY <1>1, InitTypeInv, InitAddressed, AddressedAnswers, PTL DEF Spec

-----------------------------------------------------------------------------
(* A function that is being registered is held for the registration.       *)
HeldForCall ==
    \A p \in Callers : pc[p] \in {"send", "await"} /\ call[p].op = "register" =>
        holder[call[p].id] = <<call[p].transport, call[p].config>>

LEMMA InitHeld == Init => HeldForCall
  BY DEF Init, HeldForCall

LEMMA HeldStep ==
    ASSUME OneCaller, TypeInv, HeldForCall, [Next]_vars
    PROVE  HeldForCall'
  <1> USE Assumptions
  <1>1. ASSUME NEW p \in Callers, NEW i \in Ids, Takes(p, i), Others(p)
        PROVE  HeldForCall'
    <2>1. /\ call'[p].id = i
          /\ call'[p].transport = call[p].transport /\ call'[p].config = call[p].config
          /\ \A j \in Ids : holder'[j] = IF j = i THEN <<call[p].transport, call[p].config>> ELSE holder[j]
      BY <1>1, Taken
    <2>2. ASSUME NEW q \in Callers, q # p, pc[q] \in {"send", "await"}, call[q].op = "register"
          PROVE  holder'[call[q].id] = <<call[q].transport, call[q].config>>
      <3>1. call[q].id \in Ids /\ <<call[q].transport, call[q].config>> \in Transports \X Configs
        BY <2>2 DEF TypeInv, CallOK, Calls
      <3>2. holder[call[q].id] = <<call[q].transport, call[q].config>>
        BY <2>2 DEF HeldForCall
      <3> QED
        BY <1>1, <2>1, <3>1, <3>2 DEF Takes
    <2> QED
      BY <1>1, <2>1, <2>2 DEF HeldForCall, Others
  <1>2. ASSUME NEW p \in Callers, ReleaseMessageHandler(p), Others(p)
        PROVE  HeldForCall'
    <2>1. call[p].config \in CallsFor(p) /\ pc'[p] = "idle"
      BY <1>2 DEF ReleaseMessageHandler, Done, Goto, TypeInv, TypeOK, CallOK
    <2>2. ASSUME NEW q \in Callers, q # p, pc[q] \in {"send", "await"}, call[q].op = "register"
          PROVE  holder'[call[q].id] = <<call[q].transport, call[q].config>>
      <3>1. call[q].id \in Ids /\ call[q].config \in CallsFor(q)
        BY <2>2 DEF TypeInv, CallOK
      <3>2. call[q].config # call[p].config
        BY <2>1, <2>2, <3>1 DEF OneCaller
      <3>3. holder[call[q].id] = <<call[q].transport, call[q].config>>
        BY <2>2 DEF HeldForCall
      <3> QED
        BY <1>2, <3>1, <3>2, <3>3 DEF ReleaseMessageHandler, HeldBy
    <2> QED
      BY <1>2, <2>1, <2>2 DEF HeldForCall, Others
  <1>3. ASSUME NEW p \in Callers, Others(p), UNCHANGED holder,
               pc'[p] \in {"send", "await"} /\ call'[p].op = "register" =>
                   pc[p] = "send" /\ call'[p] = call[p]
        PROVE  HeldForCall'
    BY <1>3 DEF HeldForCall, Others
  <1>4. ASSUME NEW p \in Callers,
               CallRegister(p) \/ CallUnregister(p) \/ SendToEngine(p) \/ AwaitEngine(p) \/ AwaitTimeout(p)
               \/ CancelRegister(p)
        PROVE  HeldForCall'
    <2>1. Others(p) /\ UNCHANGED holder
      BY <1>4, OneCallerSteps DEF CallerStep, CallRegister, CallUnregister, SendToEngine, AwaitEngine,
         AwaitTimeout, CancelRegister
    <2> QED
      BY <1>3, <1>4, <2>1, CallerGoes
  <1>5. ASSUME NEW p \in Callers, GetMessageHandler(p) \/ ReleaseMessageHandler(p)
        PROVE  HeldForCall'
    <2>1. Others(p)
      BY <1>5, OneCallerSteps DEF CallerStep
    <2> QED
      BY <1>1, <1>2, <1>3, <1>5, <2>1, TakesOrFails
  <1>6. CASE UNCHANGED <<holder, pc, call>>
    BY <1>6 DEF HeldForCall
  <1> QED
    BY <1>4, <1>5, <1>6 DEF Next, CallerStep, EngineStep, RegisterListenerInternal,
       UnregisterListenerInternal, vars

-----------------------------------------------------------------------------
Followed(t, n, c) ==
    \E m \in DOMAIN queue[t] : m > n /\ queue[t][m].op = "unregister" /\ queue[t][m].config = c

(* A queued registration is of a function that is held for it, or an       *)
(* unregistration comes after it.                                          *)
RegistersOK ==
    \A t \in Transports, c \in Configs : \A n \in DOMAIN queue[t] :
        queue[t][n].op = "register" /\ queue[t][n].config = c =>
            holder[queue[t][n].id] = <<t, c>> \/ Followed(t, n, c)

(* Before a function is released, its unregistration is queued after all   *)
(* registrations, or vsomeip does not have it any more.                    *)
Leaving(p, t, c) ==
    /\ pc[p] \in {"await", "release"}
    /\ call[p].op = "unregister" /\ call[p].transport = t /\ call[p].config = c
NoneQueuedLast(t, c) ==
    \A n \in DOMAIN queue[t] :
        queue[t][n].op = "register" /\ queue[t][n].config = c => Followed(t, n, c)
EntryLeaves(t, c) ==
    RegisterKey[c] \in ErasableKeys /\ holder[handlerTable[t][RegisterKey[c]]] = <<t, c>> =>
        handlerTable[t][RegisterKey[c]] = None \/ WillErase(t, RegisterKey[c])
LeavingOK ==
    \A p \in Callers, t \in Transports, c \in Configs :
        Leaving(p, t, c) => NoneQueuedLast(t, c) /\ EntryLeaves(t, c)

Backed == RegistersOK /\ LeavingOK /\ EntriesBacked

LEMMA WillEraseAt ==
    ASSUME NEW t, NEW k
    PROVE  WillErase(t, k) <=> \E m \in DOMAIN queue[t] : queue[t][m].op = "unregister"
                                                         /\ UnregisterKey[queue[t][m].config] = k
  BY DEF WillErase, Queued

LEMMA ErasableAreKeys == ErasableKeys \subseteq Keys
  BY KindsAndKeys DEF ErasableKeys

LEMMA InitBacked == Init => Backed
  <1> SUFFICES ASSUME Init PROVE Backed
    OBVIOUS
  <1>1. \A t \in Transports : DOMAIN queue[t] = {}
    BY DEF Init
  <1>2. EntriesBacked
    BY ErasableAreKeys DEF Init, EntriesBacked
  <1> QED
    BY <1>1, <1>2 DEF Init, Backed, RegistersOK, LeavingOK, Leaving

(* Steps that change no holder and no table, and what is in the channels   *)
(* in its receiver only.                                                   *)
SameCommands ==
    \A t \in Transports :
        /\ DOMAIN queue'[t] = DOMAIN queue[t]
        /\ \A n \in DOMAIN queue[t] :
              /\ queue'[t][n].op = queue[t][n].op /\ queue'[t][n].config = queue[t][n].config
              /\ queue'[t][n].id = queue[t][n].id

LEMMA Frame ==
    ASSUME TypeInv, Backed, SameCommands, UNCHANGED <<holder, handlerTable>>,
           \A p \in Callers :
              pc'[p] \in {"await", "release"} /\ call'[p].op = "unregister" =>
                  pc[p] \in {"await", "release"} /\ call'[p] = call[p]
    PROVE  Backed'
  <1>1. \A t \in Transports : \A n, c : Followed(t, n, c)' <=> Followed(t, n, c)
    BY DEF SameCommands, Followed
  <1>2. \A t \in Transports : \A k : WillErase(t, k)' <=> WillErase(t, k)
    BY DEF SameCommands, WillErase, Queued
  <1>4. RegistersOK'
    <2> SUFFICES ASSUME NEW t \in Transports, NEW c \in Configs, NEW n \in DOMAIN queue'[t],
                        queue'[t][n].op = "register", queue'[t][n].config = c
                 PROVE  holder[queue'[t][n].id] = <<t, c>> \/ Followed(t, n, c)'
      BY DEF RegistersOK
    <2>1. /\ n \in DOMAIN queue[t] /\ queue[t][n].op = "register" /\ queue[t][n].config = c
          /\ queue'[t][n].id = queue[t][n].id
      BY DEF SameCommands
    <2>2. holder[queue[t][n].id] = <<t, c>> \/ Followed(t, n, c)
      BY <2>1 DEF Backed, RegistersOK
    <2> QED
      BY <1>1, <2>1, <2>2
  <1>5. LeavingOK'
    <2> SUFFICES ASSUME NEW p \in Callers, NEW t \in Transports, NEW c \in Configs, Leaving(p, t, c)'
                 PROVE  NoneQueuedLast(t, c)' /\ EntryLeaves(t, c)'
      BY DEF LeavingOK
    <2>1. Leaving(p, t, c)
      BY DEF Leaving
    <2>2. NoneQueuedLast(t, c) /\ EntryLeaves(t, c)
      BY <2>1 DEF Backed, LeavingOK
    <2>3. NoneQueuedLast(t, c)'
      BY <1>1, <2>2 DEF NoneQueuedLast, SameCommands
    <2>4. EntryLeaves(t, c)'
      BY <1>2, <2>2 DEF EntryLeaves
    <2> QED
      BY <2>3, <2>4
  <1>6. EntriesBacked'
    BY <1>2 DEF Backed, EntriesBacked
  <1> QED
    BY <1>4, <1>5, <1>6 DEF Backed

(* A caller takes a function that nobody holds.                            *)
LEMMA TakingKeepsBacked ==
    ASSUME OneCaller, TypeInv, Backed, NEW p \in Callers, NEW i \in Ids, Takes(p, i), Others(p)
    PROVE  Backed'
  <1> USE Assumptions
  <1>1. PICK r \in Transports \X Configs : r = <<call[p].transport, call[p].config>>
    BY Taken
  <1>2. r[2] \in CallsFor(p) /\ pc'[p] = "send"
    BY <1>1, Taken
  <1>3. holder[i] = None /\ UNCHANGED <<queue, handlerTable>>
    BY DEF Takes
  <1>4. \A j \in Ids : holder'[j] = IF j = i THEN r ELSE holder[j]
    BY <1>1, Taken
  <1>5. \A t \in Transports : \A c \in Configs, j \in Ids : holder[j] = <<t, c>> => holder'[j] = <<t, c>>
    BY <1>3, <1>4
  <1>7. \A t \in Transports : \A n, c : Followed(t, n, c)' <=> Followed(t, n, c)
    BY <1>3 DEF Followed
  <1>8. RegistersOK'
    <2>1. ASSUME NEW t \in Transports, NEW c \in Configs, NEW n \in DOMAIN queue[t],
                 queue[t][n].op = "register", queue[t][n].config = c
          PROVE  holder'[queue[t][n].id] = <<t, c>> \/ Followed(t, n, c)
      <3>1. queue[t][n].id \in Ids
        BY <2>1 DEF TypeInv, QueueOK
      <3> QED
        BY <1>5, <2>1, <3>1 DEF Backed, RegistersOK
    <2> QED
      BY <1>3, <1>7, <2>1 DEF RegistersOK
  <1>9. \A t \in Transports : \A k : WillErase(t, k)' <=> WillErase(t, k)
    BY <1>3 DEF WillErase, Queued
  <1>10. LeavingOK'
    <2> SUFFICES ASSUME NEW q \in Callers, NEW t \in Transports, NEW c \in Configs, Leaving(q, t, c)'
                 PROVE  NoneQueuedLast(t, c)' /\ EntryLeaves(t, c)'
      BY DEF LeavingOK
    <2>1. q # p /\ Leaving(q, t, c) /\ c \in CallsFor(q)
      BY <1>2 DEF Leaving, Others, TypeInv, CallOK
    <2>2. NoneQueuedLast(t, c) /\ EntryLeaves(t, c)
      BY <2>1 DEF Backed, LeavingOK
    <2>3. c # r[2]
      BY <1>2, <2>1 DEF OneCaller
    <2>4. handlerTable[t][RegisterKey[c]] \in Ids \cup {None}
      BY KindsAndKeys DEF TypeInv, TypeOK
    <2>5. \A j \in Ids : holder'[j] = <<t, c>> => holder[j] = <<t, c>>
      BY <1>4, <2>3
    <2>6. NoneQueuedLast(t, c)'
      BY <1>3, <1>7, <2>2 DEF NoneQueuedLast
    <2>7. EntryLeaves(t, c)'
      BY <1>3, <1>9, <2>2, <2>4, <2>5 DEF EntryLeaves
    <2> QED
      BY <2>6, <2>7
  <1>11. EntriesBacked'
    <2>1. ASSUME NEW t \in Transports, NEW k \in ErasableKeys, handlerTable[t][k] # None,
                 NEW c \in Configs, holder[handlerTable[t][k]] = <<t, c>>
          PROVE  holder'[handlerTable[t][k]] = <<t, c>>
      <3>1. handlerTable[t][k] \in Ids
        BY <2>1, ErasableAreKeys DEF TypeInv, TypeOK
      <3> QED
        BY <1>5, <2>1, <3>1
    <2>2. ASSUME NEW t \in Transports, NEW k \in ErasableKeys, handlerTable[t][k] # None, ~WillErase(t, k)
          PROVE  \E c \in Configs : RegisterKey[c] = k /\ holder'[handlerTable[t][k]] = <<t, c>>
      <3>1. PICK c \in Configs : RegisterKey[c] = k /\ holder[handlerTable[t][k]] = <<t, c>>
        BY <2>2 DEF Backed, EntriesBacked
      <3> QED
        BY <2>1, <2>2, <3>1
    <2> QED
      BY <1>3, <1>9, <2>2 DEF EntriesBacked
  <1> QED
    BY <1>8, <1>10, <1>11 DEF Backed

(* A caller releases the function of the registration it unregisters.      *)
LEMMA ReleasingKeepsBacked ==
    ASSUME OneCaller, TypeInv, Backed, NEW p \in Callers, ReleaseMessageHandler(p), Others(p)
    PROVE  Backed'
  <1> USE Assumptions
  <1>1. PICK s \in Transports, d \in Configs : s = call[p].transport /\ d = call[p].config
    BY DEF ReleaseMessageHandler, TypeInv, CallOK, Calls
  <1>2. /\ pc[p] = "release" /\ d \in CallsFor(p) /\ Leaving(p, s, d)
        /\ UNCHANGED <<queue, handlerTable>>
    BY <1>1 DEF ReleaseMessageHandler, TypeInv, CallOK, Leaving
  <1>3. NoneQueuedLast(s, d) /\ EntryLeaves(s, d)
    BY <1>2 DEF Backed, LeavingOK
  <1>4. /\ pc'[p] = "idle"
        /\ \A j \in Ids : holder'[j] = IF holder[j] = <<s, d>> THEN None ELSE holder[j]
    BY <1>1, CallerGoes DEF ReleaseMessageHandler, HeldBy
  <1>5. \A t \in Transports : \A n, c : Followed(t, n, c)' <=> Followed(t, n, c)
    BY <1>2 DEF Followed
  <1>6. \A t \in Transports : \A k : WillErase(t, k)' <=> WillErase(t, k)
    BY <1>2 DEF WillErase, Queued
  <1>8. RegistersOK'
    <2>1. ASSUME NEW t \in Transports, NEW c \in Configs, NEW n \in DOMAIN queue[t],
                 queue[t][n].op = "register", queue[t][n].config = c
          PROVE  holder'[queue[t][n].id] = <<t, c>> \/ Followed(t, n, c)
      <3>1. queue[t][n].id \in Ids
        BY <2>1 DEF TypeInv, QueueOK
      <3>2. CASE t = s /\ c = d
        BY <1>3, <2>1, <3>2 DEF NoneQueuedLast
      <3>3. CASE ~(t = s /\ c = d)
        <4>1. holder[queue[t][n].id] = <<t, c>> \/ Followed(t, n, c)
          BY <2>1 DEF Backed, RegistersOK
        <4> QED
          BY <1>4, <3>1, <3>3, <4>1
      <3> QED
        BY <3>2, <3>3
    <2> QED
      BY <1>2, <1>5, <2>1 DEF RegistersOK
  <1>9. LeavingOK'
    <2> SUFFICES ASSUME NEW q \in Callers, NEW t \in Transports, NEW c \in Configs, Leaving(q, t, c)'
                 PROVE  NoneQueuedLast(t, c)' /\ EntryLeaves(t, c)'
      BY DEF LeavingOK
    <2>1. Leaving(q, t, c)
      BY <1>4 DEF Leaving, Others
    <2>2. NoneQueuedLast(t, c) /\ EntryLeaves(t, c)
      BY <2>1 DEF Backed, LeavingOK
    <2>3. handlerTable[t][RegisterKey[c]] \in Ids \cup {None}
      BY KindsAndKeys DEF TypeInv, TypeOK
    <2>4. \A j \in Ids : holder'[j] = <<t, c>> => holder[j] = <<t, c>>
      <3>1. <<t, c>> # None
        BY <<t, c>> \in Transports \X Configs
      <3> QED
        BY <1>4, <3>1
    <2>5. NoneQueuedLast(t, c)'
      BY <1>2, <1>5, <2>2 DEF NoneQueuedLast
    <2>6. EntryLeaves(t, c)'
      BY <1>2, <1>6, <2>2, <2>3, <2>4 DEF EntryLeaves
    <2> QED
      BY <2>5, <2>6
  <1>10. EntriesBacked'
    <2>1. ASSUME NEW t \in Transports, NEW k \in ErasableKeys, handlerTable[t][k] # None,
                 NEW c \in Configs, RegisterKey[c] = k, holder[handlerTable[t][k]] = <<t, c>>
          PROVE  holder'[handlerTable[t][k]] = <<t, c>> \/ WillErase(t, k)
      <3>1. handlerTable[t][k] \in Ids
        BY <2>1, ErasableAreKeys DEF TypeInv, TypeOK
      <3>2. CASE t = s /\ c = d
        BY <1>3, <2>1, <3>2 DEF EntryLeaves
      <3>3. CASE ~(t = s /\ c = d)
        BY <1>4, <2>1, <3>1, <3>3
      <3> QED
        BY <3>2, <3>3
    <2> QED
      BY <1>2, <1>6, <2>1 DEF Backed, EntriesBacked
  <1> QED
    BY <1>8, <1>9, <1>10 DEF Backed

(* A command is queued behind all others.                                  *)
LEMMA SendingKeepsBacked ==
    ASSUME OneCaller, KeysApart, TypeInv, HeldForCall, Backed,
           NEW p \in Callers, SendToEngine(p), Others(p)
    PROVE  Backed'
  <1>1. PICK s \in Transports, d \in Configs : s = call[p].transport /\ d = call[p].config
    BY Sent
  <1>2. /\ pc[p] = "send" /\ pc'[p] = "await" /\ d \in CallsFor(p)
        /\ UNCHANGED <<holder, handlerTable, call>>
    BY <1>1, CallerGoes DEF SendToEngine, TypeInv, CallOK
  <1>3. PICK e \in DOMAIN queue'[s] :
           /\ queue'[s][e] = Command(p)
           /\ \A n \in DOMAIN queue[s] : n \in DOMAIN queue'[s] /\ n < e /\ queue'[s][n] = queue[s][n]
           /\ \A n \in DOMAIN queue'[s] : n # e => n \in DOMAIN queue[s]
           /\ \A u \in Transports : u # s => queue'[u] = queue[u]
    BY <1>1, Sent
  <1>4. /\ queue'[s][e].op = call[p].op /\ queue'[s][e].config = d
        /\ queue'[s][e].id = call[p].id
    BY <1>1, <1>3 DEF Command
  <1>5. \A t \in Transports : \A n, c : Followed(t, n, c) => Followed(t, n, c)'
    BY <1>3 DEF Followed
  <1>6. \A t \in Transports : \A k : WillErase(t, k) => WillErase(t, k)'
    BY <1>3 DEF WillErase, Queued
  <1>8. RegistersOK'
    <2>1. ASSUME NEW t \in Transports, NEW c \in Configs, NEW n \in DOMAIN queue'[t],
                 queue'[t][n].op = "register", queue'[t][n].config = c
          PROVE  holder[queue'[t][n].id] = <<t, c>> \/ Followed(t, n, c)'
      <3>1. CASE t = s /\ n = e
        BY <1>1, <1>2, <1>4, <2>1, <3>1 DEF HeldForCall
      <3>2. CASE ~(t = s /\ n = e)
        <4>1. n \in DOMAIN queue[t] /\ queue'[t][n] = queue[t][n]
          BY <1>3, <2>1, <3>2
        <4>2. holder[queue[t][n].id] = <<t, c>> \/ Followed(t, n, c)
          BY <2>1, <4>1 DEF Backed, RegistersOK
        <4> QED
          BY <1>5, <4>1, <4>2
      <3> QED
        BY <3>1, <3>2
    <2> QED
      BY <1>2, <2>1 DEF RegistersOK
  <1>9. LeavingOK'
    <2> SUFFICES ASSUME NEW q \in Callers, NEW t \in Transports, NEW c \in Configs, Leaving(q, t, c)'
                 PROVE  NoneQueuedLast(t, c)' /\ EntryLeaves(t, c)'
      BY DEF LeavingOK
    <2>1. CASE q = p
      <3>1. t = s /\ c = d /\ queue'[s][e].op = "unregister"
        BY <1>1, <1>2, <1>4, <2>1 DEF Leaving
      <3>2. \A n \in DOMAIN queue'[t] : n # e => Followed(t, n, c)'
        BY <1>3, <1>4, <3>1 DEF Followed
      <3>3. NoneQueuedLast(t, c)'
        BY <3>1, <3>2 DEF NoneQueuedLast
      <3>4. WillErase(t, UnregisterKey[c])'
        BY <1>4, <3>1 DEF WillErase, Queued
      <3> QED
        BY <3>3, <3>4 DEF EntryLeaves, KeysApart
    <2>2. CASE q # p
      <3>1. Leaving(q, t, c) /\ c \in CallsFor(q)
        BY <1>2, <2>2 DEF Leaving, Others, TypeInv, CallOK
      <3>2. c # d
        BY <1>2, <2>2, <3>1 DEF OneCaller
      <3>3. NoneQueuedLast(t, c) /\ EntryLeaves(t, c)
        BY <3>1 DEF Backed, LeavingOK
      <3>4. ASSUME NEW n \in DOMAIN queue'[t], queue'[t][n].op = "register", queue'[t][n].config = c
            PROVE  Followed(t, n, c)'
        <4>1. n \in DOMAIN queue[t] /\ queue'[t][n] = queue[t][n]
          BY <1>3, <1>4, <3>2, <3>4
        <4> QED
          BY <1>5, <3>3, <3>4, <4>1 DEF NoneQueuedLast
      <3>5. NoneQueuedLast(t, c)'
        BY <3>4 DEF NoneQueuedLast
      <3>6. EntryLeaves(t, c)'
        BY <1>2, <1>6, <3>3 DEF EntryLeaves
      <3> QED
        BY <3>5, <3>6
    <2> QED
      BY <2>1, <2>2
  <1>10. EntriesBacked'
    BY <1>2, <1>6 DEF Backed, EntriesBacked
  <1> QED
    BY <1>8, <1>9, <1>10 DEF Backed

(* The oldest command leaves the channel.                                  *)
Erases(command, k) == command.op = "unregister" /\ UnregisterKey[command.config] = k

LEMMA Advancing ==
    ASSUME TypeInv, Backed, NEW s \in Transports, queue[s] # <<>>,
           queue' = [queue EXCEPT ![s] = Tail(@)], UNCHANGED <<holder, pc, call>>
    PROVE  /\ RegistersOK'
           /\ \A t \in Transports, c \in Configs : NoneQueuedLast(t, c) => NoneQueuedLast(t, c)'
           /\ \A t \in Transports : \A k : WillErase(t, k) =>
                 WillErase(t, k)' \/ (t = s /\ Erases(Head(queue[s]), k))
           /\ \A c : Followed(s, 1, c) => WillErase(s, UnregisterKey[c])'
  <1>1. /\ 1 \in DOMAIN queue[s] /\ Head(queue[s]) = queue[s][1]
        /\ \A n \in DOMAIN queue'[s] : n > 0 /\ n + 1 \in DOMAIN queue[s] /\ queue'[s][n] = queue[s][n + 1]
        /\ \A n \in DOMAIN queue[s] : n # 1 => n - 1 \in DOMAIN queue'[s] /\ queue'[s][n - 1] = queue[s][n]
        /\ \A u \in Transports : u # s => queue'[u] = queue[u]
    BY Executed
  <1>2. DOMAIN queue[s] \subseteq Nat \ {0} /\ DOMAIN queue'[s] \subseteq Nat \ {0}
    <2>1. queue[s] \in Seq(Commands) /\ queue'[s] \in Seq(Commands)
      BY Executed DEF TypeInv, QueueOK
    <2> QED
      BY <2>1
  <1>3. ASSUME NEW n \in DOMAIN queue'[s], NEW c, Followed(s, n + 1, c)
        PROVE  Followed(s, n, c)'
    <2>1. PICK m \in DOMAIN queue[s] : m > n + 1 /\ queue[s][m].op = "unregister" /\ queue[s][m].config = c
      BY <1>3 DEF Followed
    <2>2. m # 1 /\ m - 1 > n
      BY <1>2, <2>1
    <2>3. m - 1 \in DOMAIN queue'[s] /\ queue'[s][m - 1] = queue[s][m]
      BY <1>1, <2>2
    <2> DEFINE l == m - 1
    <2>4. /\ l \in DOMAIN queue'[s] /\ l > n
          /\ queue'[s][l].op = "unregister" /\ queue'[s][l].config = c
      BY <2>1, <2>2, <2>3
    <2> HIDE DEF l
    <2> QED
      BY <2>4 DEF Followed
  <1>4. ASSUME NEW t \in Transports, t # s, NEW n, NEW c, Followed(t, n, c)
        PROVE  Followed(t, n, c)'
    BY <1>1, <1>4 DEF Followed
  <1>6. RegistersOK'
    <2> SUFFICES ASSUME NEW t \in Transports, NEW c \in Configs, NEW n \in DOMAIN queue'[t],
                        queue'[t][n].op = "register", queue'[t][n].config = c
                 PROVE  holder[queue'[t][n].id] = <<t, c>> \/ Followed(t, n, c)'
      BY DEF RegistersOK
    <2>1. CASE t = s
      <3>1. n + 1 \in DOMAIN queue[s] /\ queue'[s][n] = queue[s][n + 1]
        BY <1>1, <2>1
      <3>2. holder[queue[s][n + 1].id] = <<s, c>> \/ Followed(s, n + 1, c)
        BY <2>1, <3>1 DEF Backed, RegistersOK
      <3> QED
        BY <1>3, <2>1, <3>1, <3>2
    <2>2. CASE t # s
      BY <1>1, <1>4, <2>2 DEF Backed, RegistersOK
    <2> QED
      BY <2>1, <2>2
  <1>7. ASSUME NEW t \in Transports, NEW c \in Configs, NoneQueuedLast(t, c)
        PROVE  NoneQueuedLast(t, c)'
    <2>1. CASE t = s
      BY <1>1, <1>3, <1>7, <2>1 DEF NoneQueuedLast
    <2>2. CASE t # s
      BY <1>1, <1>4, <1>7, <2>2 DEF NoneQueuedLast
    <2> QED
      BY <2>1, <2>2
  <1>8. ASSUME NEW t \in Transports, NEW k, WillErase(t, k)
        PROVE  WillErase(t, k)' \/ (t = s /\ Erases(Head(queue[s]), k))
    <2>1. PICK m \in DOMAIN queue[t] : Erases(queue[t][m], k)
      BY <1>8 DEF WillErase, Queued, Erases
    <2>2. CASE t = s /\ m = 1
      BY <1>1, <2>1, <2>2
    <2>3. CASE t = s /\ m # 1
      <3>1. m - 1 \in DOMAIN queue'[t] /\ Erases(queue'[t][m - 1], k)
        BY <1>1, <2>1, <2>3
      <3> QED
        BY <3>1 DEF WillErase, Queued, Erases
    <2>4. CASE t # s
      <3>1. queue'[t] = queue[t]
        BY <1>1, <2>4
      <3> QED
        BY <2>1, <3>1 DEF WillErase, Queued, Erases
    <2> QED
      BY <2>2, <2>3, <2>4
  <1>9. ASSUME NEW c, Followed(s, 1, c)
        PROVE  WillErase(s, UnregisterKey[c])'
    <2>1. PICK m \in DOMAIN queue[s] : m > 1 /\ queue[s][m].op = "unregister" /\ queue[s][m].config = c
      BY <1>9 DEF Followed
    <2>2. m - 1 \in DOMAIN queue'[s] /\ queue'[s][m - 1] = queue[s][m]
      BY <1>1, <1>2, <2>1
    <2> QED
      BY <2>1, <2>2 DEF WillErase, Queued
  <1> QED
    BY <1>6, <1>7, <1>8, <1>9

(* A queued registration is executed.                                      *)
LEMMA RegisteringKeepsBacked ==
    ASSUME KeysApart, TypeInv, Backed, NEW s \in Transports, RegisterListenerInternal(s)
    PROVE  Backed'
  <1>1. PICK command : command = Head(queue[s])
    OBVIOUS
  <1>2. PICK d \in Configs : d = command.config
    BY <1>1, Executed DEF RegisterListenerInternal, Commands
  <1>3. /\ queue[s] # <<>> /\ command.op = "register" /\ queue' = [queue EXCEPT ![s] = Tail(@)]
        /\ UNCHANGED <<holder, pc, call>>
        /\ handlerTable' = [handlerTable EXCEPT ![s][RegisterKey[d]] = command.id]
    BY <1>1, <1>2 DEF RegisterListenerInternal
  <1>4. 1 \in DOMAIN queue[s] /\ command = queue[s][1] /\ command.id \in Ids
    <2>1. 1 \in DOMAIN queue[s] /\ command = queue[s][1]
      BY <1>1, <1>3, Executed
    <2> QED
      BY <1>3, <2>1 DEF TypeInv, QueueOK
  <1>5. /\ RegistersOK'
        /\ \A t \in Transports, c \in Configs : NoneQueuedLast(t, c) => NoneQueuedLast(t, c)'
        /\ \A t \in Transports : \A k : WillErase(t, k) => WillErase(t, k)'
        /\ \A c : Followed(s, 1, c) => WillErase(s, UnregisterKey[c])'
    <2>1. /\ RegistersOK'
          /\ \A t \in Transports, c \in Configs : NoneQueuedLast(t, c) => NoneQueuedLast(t, c)'
          /\ \A t \in Transports : \A k : WillErase(t, k) =>
                WillErase(t, k)' \/ (t = s /\ Erases(Head(queue[s]), k))
          /\ \A c : Followed(s, 1, c) => WillErase(s, UnregisterKey[c])'
      BY <1>1, <1>3, Advancing
    <2>2. \A k : ~Erases(Head(queue[s]), k)
      BY <1>1, <1>3 DEF Erases
    <2>3. ASSUME NEW t \in Transports, NEW k, WillErase(t, k)
          PROVE  WillErase(t, k)'
      BY <2>1, <2>2, <2>3
    <2> QED
      BY <2>1, <2>3
  <1>6. \A t \in Transports, k \in Keys :
           handlerTable'[t][k] = IF t = s /\ k = RegisterKey[d] THEN command.id ELSE handlerTable[t][k]
    BY <1>2, <1>3, <1>4, KindsAndKeys, TableUpdate DEF TypeInv, TypeOK
  <1>7. holder[command.id] = <<s, d>> \/ Followed(s, 1, d)
    BY <1>2, <1>3, <1>4 DEF Backed, RegistersOK
  <1>8. LeavingOK'
    <2> SUFFICES ASSUME NEW q \in Callers, NEW t \in Transports, NEW c \in Configs, Leaving(q, t, c)'
                 PROVE  NoneQueuedLast(t, c)' /\ EntryLeaves(t, c)'
      BY DEF LeavingOK
    <2>1. Leaving(q, t, c)
      BY <1>3 DEF Leaving
    <2>2. NoneQueuedLast(t, c) /\ EntryLeaves(t, c)
      BY <2>1 DEF Backed, LeavingOK
    <2>3. RegisterKey[c] \in Keys
      BY KindsAndKeys
    <2>4. CASE t = s /\ RegisterKey[c] = RegisterKey[d]
      <3> SUFFICES ASSUME RegisterKey[c] \in ErasableKeys, holder[command.id] = <<s, c>>
                   PROVE  WillErase(s, RegisterKey[c])'
        BY <1>3, <1>5, <1>6, <2>2, <2>3, <2>4 DEF EntryLeaves
      <3>1. UnregisterKey[c] = RegisterKey[c] /\ UnregisterKey[d] = RegisterKey[c]
        BY <2>4 DEF KeysApart
      <3>2. CASE c = d
        BY <1>2, <1>3, <1>4, <1>5, <2>2, <2>4, <3>1, <3>2 DEF NoneQueuedLast
      <3>3. CASE c # d
        BY <1>5, <1>7, <3>1, <3>3
      <3> QED
        BY <3>2, <3>3
    <2>5. CASE ~(t = s /\ RegisterKey[c] = RegisterKey[d])
      <3>1. handlerTable'[t][RegisterKey[c]] = handlerTable[t][RegisterKey[c]]
        BY <1>6, <2>3, <2>5
      <3> QED
        BY <1>3, <1>5, <2>2, <3>1 DEF EntryLeaves
    <2> QED
      BY <2>4, <2>5
  <1>9. EntriesBacked'
    <2>1. ASSUME NEW t \in Transports, NEW k \in ErasableKeys, handlerTable'[t][k] # None
          PROVE  (\E c \in Configs : RegisterKey[c] = k /\ holder[handlerTable'[t][k]] = <<t, c>>) \/ WillErase(t, k)'
      <3>1. k \in Keys
        BY ErasableAreKeys
      <3>2. CASE t = s /\ k = RegisterKey[d]
        <4>1. UnregisterKey[d] = k
          BY <3>2 DEF KeysApart
        <4> QED
          BY <1>5, <1>6, <1>7, <3>1, <3>2, <4>1
      <3>3. CASE ~(t = s /\ k = RegisterKey[d])
        <4>1. handlerTable'[t][k] = handlerTable[t][k]
          BY <1>6, <3>1, <3>3
        <4> QED
          BY <1>5, <2>1, <4>1 DEF Backed, EntriesBacked
      <3> QED
        BY <3>2, <3>3
    <2> QED
      BY <1>3, <2>1 DEF EntriesBacked
  <1> QED
    BY <1>5, <1>8, <1>9 DEF Backed

(* A queued unregistration is executed.                                    *)
LEMMA UnregisteringKeepsBacked ==
    ASSUME TypeInv, Backed, NEW s \in Transports, UnregisterListenerInternal(s)
    PROVE  Backed'
  <1>1. PICK command : command = Head(queue[s])
    OBVIOUS
  <1>2. command.config \in Configs
    BY <1>1, Executed DEF UnregisterListenerInternal, Commands
  <1>3. PICK key \in Keys : key = UnregisterKey[command.config]
    BY <1>2, KindsAndKeys
  <1>4. /\ queue[s] # <<>> /\ command.op = "unregister" /\ queue' = [queue EXCEPT ![s] = Tail(@)]
        /\ UNCHANGED <<holder, pc, call>>
        /\ handlerTable' = [handlerTable EXCEPT ![s][key] = None]
    BY <1>1, <1>3 DEF UnregisterListenerInternal
  <1>5. /\ RegistersOK'
        /\ \A t \in Transports, c \in Configs : NoneQueuedLast(t, c) => NoneQueuedLast(t, c)'
        /\ \A t \in Transports : \A k : WillErase(t, k) => WillErase(t, k)' \/ (t = s /\ k = key)
    BY <1>1, <1>3, <1>4, Advancing DEF Erases
  <1>6. \A t \in Transports, k \in Keys :
           handlerTable'[t][k] = IF t = s /\ k = key THEN None ELSE handlerTable[t][k]
    BY <1>4, TableUpdate DEF TypeInv, TypeOK
  <1>7. LeavingOK'
    <2> SUFFICES ASSUME NEW q \in Callers, NEW t \in Transports, NEW c \in Configs, Leaving(q, t, c)'
                 PROVE  NoneQueuedLast(t, c)' /\ EntryLeaves(t, c)'
      BY DEF LeavingOK
    <2>1. Leaving(q, t, c)
      BY <1>4 DEF Leaving
    <2>2. NoneQueuedLast(t, c) /\ EntryLeaves(t, c)
      BY <2>1 DEF Backed, LeavingOK
    <2>3. RegisterKey[c] \in Keys
      BY KindsAndKeys
    <2>4. CASE t = s /\ RegisterKey[c] = key
      BY <1>5, <1>6, <2>2, <2>4 DEF EntryLeaves
    <2>5. CASE ~(t = s /\ RegisterKey[c] = key)
      <3>1. handlerTable'[t][RegisterKey[c]] = handlerTable[t][RegisterKey[c]]
        BY <1>6, <2>3, <2>5
      <3> QED
        BY <1>4, <1>5, <2>2, <2>5, <3>1 DEF EntryLeaves
    <2> QED
      BY <2>4, <2>5
  <1>8. EntriesBacked'
    <2>1. ASSUME NEW t \in Transports, NEW k \in ErasableKeys, handlerTable'[t][k] # None
          PROVE  (\E c \in Configs : RegisterKey[c] = k /\ holder[handlerTable'[t][k]] = <<t, c>>) \/ WillErase(t, k)'
      <3>1. ~(t = s /\ k = key) /\ handlerTable'[t][k] = handlerTable[t][k]
        BY <1>6, <2>1, ErasableAreKeys
      <3> QED
        BY <1>5, <2>1, <3>1 DEF Backed, EntriesBacked
    <2> QED
      BY <1>4, <2>1 DEF EntriesBacked
  <1> QED
    BY <1>5, <1>7, <1>8 DEF Backed

LEMMA BackedStep ==
    ASSUME OneCaller, KeysApart, TypeInv, HeldForCall, Backed, [Next]_vars
    PROVE  Backed'
  <1>1. ASSUME NEW p \in Callers,
               CallRegister(p) \/ CallUnregister(p) \/ AwaitEngine(p) \/ AwaitTimeout(p) \/ CancelRegister(p)
               \/ (Done(p) /\ pc'[p] = "idle" /\ UNCHANGED <<holder, queue, handlerTable>>),
               Others(p)
        PROVE  Backed'
    <2>1. UNCHANGED <<holder, handlerTable>> /\ (queue' = queue \/ DropReceiver(p))
      BY <1>1 DEF CallRegister, CallUnregister, AwaitEngine, AwaitTimeout, CancelRegister
    <2>2. SameCommands
      BY <2>1, Dropped DEF SameCommands
    <2>3. pc'[p] \in {"await", "release"} /\ call'[p].op = "unregister" =>
             pc[p] \in {"await", "release"} /\ call'[p] = call[p]
      BY <1>1, CallerGoes
    <2> QED
      BY <1>1, <2>1, <2>2, <2>3, Frame DEF Others
  <1>2. CASE UNCHANGED vars
    <2>1. SameCommands
      BY <1>2 DEF SameCommands, vars
    <2> QED
      BY <1>2, <2>1, Frame DEF vars
  <1>3. ASSUME NEW p \in Callers,
               CallRegister(p) \/ CallUnregister(p) \/ CallerStep(p) \/ AwaitTimeout(p) \/ CancelRegister(p)
        PROVE  Backed'
    <2>1. Others(p)
      BY <1>3, OneCallerSteps
    <2>2. CASE GetMessageHandler(p)
      <3>1. UNCHANGED <<queue, handlerTable>>
        BY <2>2 DEF GetMessageHandler
      <3> QED
        BY <1>1, <2>1, <2>2, <3>1, TakesOrFails, TakingKeepsBacked
    <2> QED
      BY <1>1, <1>3, <2>1, <2>2, SendingKeepsBacked, ReleasingKeepsBacked DEF CallerStep
  <1> QED
    BY <1>2, <1>3, RegisteringKeepsBacked, UnregisteringKeepsBacked DEF Next, EngineStep

(* vsomeip calls an extern function for a key that unregistering can erase *)
(* only on behalf of a configuration that holds the function and listens   *)
(* to that key, or until an unregistration that is already queued has      *)
(* erased the entry: whatever answers come late, and however often the     *)
(* functions are recycled among transports.                                *)
THEOREM EntriesStayBacked ==
    ASSUME OneCaller, KeysApart
    PROVE  Spec => []EntriesBacked
  <1>1. TypeInv /\ HeldForCall /\ Backed /\ [Next]_vars => TypeInv' /\ HeldForCall' /\ Backed'
    BY TypeStep, HeldStep, BackedStep
  <1>2. Backed => EntriesBacked
    BY DEF Backed
  <1> QED
    BY <1>1, <1>2, InitTypeInv, InitHeld, InitBacked, PTL DEF Spec

-----------------------------------------------------------------------------
(* A command whose caller waits is the last one of its configuration, ...  *)
Answerable ==
    \A p \in Callers, t \in Transports : \A n \in DOMAIN queue[t] : queue[t][n].from = p =>
        /\ pc[p] = "await" /\ reply[p] = None
        /\ call[p].op = queue[t][n].op /\ call[p].transport = t
        /\ call[p].config = queue[t][n].config /\ call[p].id = queue[t][n].id
        /\ \A m \in DOMAIN queue[t] : m > n => queue[t][m].config # queue[t][n].config

Reached(t, c, i) ==
    /\ holder[i] = <<t, c>> /\ Announcement[c] \in announced[t]
    /\ <<t, c>> \in overridden \/ handlerTable[t][RegisterKey[c]] = i

(* ... so that none is left when it is answered, ...                       *)
InQueue(t, c) == \E n \in DOMAIN queue[t] : queue[t][n].config = c
Calling(p, t, c) == call[p].transport = t /\ call[p].config = c
Registering(p, t, c, i) == Calling(p, t, c) /\ call[p].op = "register" /\ call[p].id = i
Answered ==
    \A p \in Callers : reply[p] # None =>
        /\ pc[p] = "await"
        /\ \A t \in Transports, c \in Configs : Calling(p, t, c) => ~InQueue(t, c)
        /\ \A t \in Transports, c \in Configs, i \in Ids : Registering(p, t, c, i) => Reached(t, c, i)

(* ... and none is sent while a registration stands.                       *)
Busy(p, t, c) == pc[p] \in {"send", "await", "release"} /\ Calling(p, t, c)
Standing(t, c) == (\E i \in Ids : Reached(t, c, i)) /\ ~InQueue(t, c)
Established ==
    \A t \in Transports, c \in Configs : <<t, c>> \in established =>
        Standing(t, c) /\ \A p \in Callers : ~Busy(p, t, c)

Reach == Answerable /\ Answered /\ Established

LEMMA InitReach == Init => Reach
  <1> SUFFICES ASSUME Init PROVE Reach
    OBVIOUS
  <1>1. \A t \in Transports : DOMAIN queue[t] = {}
    BY DEF Init
  <1> QED
    BY <1>1 DEF Init, Reach, Answerable, Answered, Established

LEMMA BusyWithOwn ==
    ASSUME OneCaller, TypeInv, NEW p \in Callers, NEW q \in Callers, NEW t, NEW c,
           Busy(p, t, c), Busy(q, t, c)
    PROVE  p = q
  BY DEF OneCaller, TypeInv, CallOK, Busy, Calling

(* The steps of a caller that send nothing: what remains queued is of the  *)
(* other callers, ...                                                      *)
Silent(p) ==
    \A t \in Transports : \A n \in DOMAIN queue'[t] : queue'[t][n].from \in Callers =>
        queue'[t][n].from # p /\ queue'[t][n].from = queue[t][n].from

(* ... only what the caller is busy with is released, ...                  *)
Releasing(p) ==
    \A t \in Transports, c \in Configs, i \in Ids :
        holder[i] = <<t, c>> => holder'[i] = <<t, c>> \/ Busy(p, t, c)

(* ... and only what it has registered is established.                     *)
Establishing(p) ==
    \A t \in Transports, c \in Configs : <<t, c>> \in established' =>
        /\ ~Busy(p, t, c)'
        /\ <<t, c>> \in established \/ (Busy(p, t, c) /\ Standing(t, c)')

LEMMA SilentKeepsReach ==
    ASSUME OneCaller, TypeInv, Reach, NEW p \in Callers,
           Others(p), SameCommands, Silent(p), Releasing(p), Establishing(p),
           UNCHANGED <<announced, handlerTable, overridden>>,
           reply'[p] = None, \A q \in Callers : q # p => reply'[q] = reply[q]
    PROVE  Reach'
  <1>1. \A t \in Transports : \A c : InQueue(t, c)' <=> InQueue(t, c)
    BY DEF SameCommands, InQueue
  <1>2. ASSUME NEW t \in Transports, NEW c \in Configs, NEW i \in Ids, Reached(t, c, i)
        PROVE  Reached(t, c, i)' \/ Busy(p, t, c)
    BY <1>2 DEF Reached, Releasing
  <1>3. Answerable'
    <2> SUFFICES ASSUME NEW q \in Callers, NEW t \in Transports, NEW n \in DOMAIN queue'[t],
                        queue'[t][n].from = q
                 PROVE  /\ pc'[q] = "await" /\ reply'[q] = None
                        /\ call'[q].op = queue'[t][n].op /\ call'[q].transport = t
                        /\ call'[q].config = queue'[t][n].config /\ call'[q].id = queue'[t][n].id
                        /\ \A m \in DOMAIN queue'[t] : m > n => queue'[t][m].config # queue'[t][n].config
      BY DEF Answerable
    <2>1. q # p /\ queue[t][n].from = q /\ n \in DOMAIN queue[t]
      BY DEF Silent, SameCommands
    <2>2. /\ pc[q] = "await" /\ reply[q] = None
          /\ call[q].op = queue[t][n].op /\ call[q].transport = t
          /\ call[q].config = queue[t][n].config /\ call[q].id = queue[t][n].id
          /\ \A m \in DOMAIN queue[t] : m > n => queue[t][m].config # queue[t][n].config
      BY <2>1 DEF Reach, Answerable
    <2> QED
      BY <2>1, <2>2 DEF Others, SameCommands
  <1>4. Answered'
    <2> SUFFICES ASSUME NEW q \in Callers, reply'[q] # None
                 PROVE  /\ pc'[q] = "await"
                        /\ \A t \in Transports, c \in Configs : Calling(q, t, c)' => ~InQueue(t, c)'
                        /\ \A t \in Transports, c \in Configs, i \in Ids :
                              Registering(q, t, c, i)' => Reached(t, c, i)'
      BY DEF Answered
    <2>1. q # p /\ pc'[q] = pc[q] /\ call'[q] = call[q] /\ reply[q] # None
      BY DEF Others
    <2>2. /\ pc[q] = "await"
          /\ \A t \in Transports, c \in Configs : Calling(q, t, c) => ~InQueue(t, c)
          /\ \A t \in Transports, c \in Configs, i \in Ids : Registering(q, t, c, i) => Reached(t, c, i)
      BY <2>1 DEF Reach, Answered
    <2>3. \A t \in Transports, c \in Configs : Calling(q, t, c)' => Calling(q, t, c)
      BY <2>1 DEF Calling
    <2>4. ASSUME NEW t \in Transports, NEW c \in Configs, NEW i \in Ids, Registering(q, t, c, i)'
          PROVE  Reached(t, c, i)'
      <3>1. Registering(q, t, c, i)
        BY <2>1, <2>4 DEF Calling, Registering
      <3>2. ~Busy(p, t, c)
        BY <2>1, <2>2, <3>1, BusyWithOwn DEF Busy, Registering
      <3> QED
        BY <1>2, <2>2, <3>1, <3>2
    <2> QED
      BY <1>1, <2>1, <2>2, <2>3, <2>4
  <1>5. Established'
    <2> SUFFICES ASSUME NEW t \in Transports, NEW c \in Configs, <<t, c>> \in established'
                 PROVE  Standing(t, c)' /\ \A q \in Callers : ~Busy(q, t, c)'
      BY DEF Established
    <2>1. \A q \in Callers : q # p => (Busy(q, t, c)' <=> Busy(q, t, c))
      BY DEF Others, Busy, Calling
    <2>2. ~Busy(p, t, c)'
      BY DEF Establishing
    <2>3. CASE <<t, c>> \in established
      <3>1. (\E i \in Ids : Reached(t, c, i)) /\ ~InQueue(t, c) /\ \A q \in Callers : ~Busy(q, t, c)
        BY <2>3 DEF Reach, Established, Standing
      <3>2. Standing(t, c)'
        BY <1>1, <1>2, <3>1 DEF Standing
      <3> QED
        BY <2>1, <2>2, <3>1, <3>2
    <2>4. CASE Busy(p, t, c) /\ Standing(t, c)'
      BY <2>1, <2>2, <2>4, BusyWithOwn
    <2> QED
      BY <2>3, <2>4 DEF Establishing
  <1> QED
    BY <1>3, <1>4, <1>5 DEF Reach

(* Nothing of a caller is queued, and nothing answered, unless it waits.   *)
LEMMA NothingOutstanding ==
    ASSUME TypeInv, Reach, NEW p \in Callers, UNCHANGED queue, pc[p] # "await" \/ reply[p] # None
    PROVE  Silent(p) /\ SameCommands
  <1>1. \A t \in Transports : \A n \in DOMAIN queue[t] : queue[t][n].from # p
    BY DEF Reach, Answerable
  <1> QED
    BY <1>1 DEF Silent, SameCommands

LEMMA DroppedIsSilent ==
    ASSUME TypeInv, NEW p \in Callers, DropReceiver(p)
    PROVE  Silent(p) /\ SameCommands
  <1>1. \A t \in Transports :
           /\ DOMAIN queue'[t] = DOMAIN queue[t]
           /\ \A n \in DOMAIN queue[t] :
                 /\ queue'[t][n].from = IF queue[t][n].from = p THEN None ELSE queue[t][n].from
                 /\ queue'[t][n].op = queue[t][n].op /\ queue'[t][n].config = queue[t][n].config
                 /\ queue'[t][n].id = queue[t][n].id
    BY Dropped
  <1>2. Silent(p)
    BY <1>1, Assumptions DEF Silent
  <1>3. SameCommands
    BY <1>1 DEF SameCommands
  <1> QED
    BY <1>2, <1>3

(* A caller that is busy stays busy with the same, if it stays busy.       *)
LEMMA NothingEstablished ==
    ASSUME Reach, NEW p \in Callers, UNCHANGED established,
           pc'[p] \in {"send", "await", "release"} =>
               pc[p] \in {"send", "await", "release"} /\ call'[p] = call[p]
    PROVE  Establishing(p)
  <1>1. \A t \in Transports, c \in Configs : Busy(p, t, c)' => Busy(p, t, c)
    BY DEF Busy, Calling
  <1>2. \A t \in Transports, c \in Configs : <<t, c>> \in established => ~Busy(p, t, c)
    BY DEF Reach, Established
  <1> QED
    BY <1>1, <1>2 DEF Establishing

LEMMA CallersKeepReach ==
    ASSUME OneCaller, TypeInv, HeldForCall, Reach, NEW p \in Callers, Others(p), ~SendToEngine(p),
           CallRegister(p) \/ CallUnregister(p) \/ CallerStep(p) \/ AwaitTimeout(p) \/ CancelRegister(p)
    PROVE  Reach'
  <1> USE Assumptions
  <1>1. pc[p] # "await" => reply[p] = None
    BY DEF Reach, Answered
  <1>2. UNCHANGED holder => Releasing(p)
    BY DEF Releasing
  <1>3. CASE CallRegister(p)
    <2>1. pc[p] = "idle" /\ pc'[p] = "getHandler"
      BY <1>3, CallerGoes
    <2>2. UNCHANGED <<holder, queue, announced, handlerTable, reply, established, overridden>>
      BY <1>3 DEF CallRegister
    <2> QED
      BY <1>1, <1>2, <2>1, <2>2, NothingOutstanding, NothingEstablished, SilentKeepsReach
  <1>4. CASE CallUnregister(p)
    <2>1. pc[p] = "idle" /\ pc'[p] = "send"
      BY <1>4, CallerGoes
    <2>2. PICK s \in Transports, d \in CallsFor(p) :
             /\ call' = [call EXCEPT ![p] = [op |-> "unregister", transport |-> s, config |-> d, id |-> None]]
             /\ established' = established \ {<<s, d>>}
             /\ UNCHANGED <<holder, queue, announced, handlerTable, reply, overridden>>
      BY <1>4 DEF CallUnregister
    <2>3. call'[p].transport = s /\ call'[p].config = d
      BY <2>2 DEF TypeInv, TypeOK
    <2>4. Establishing(p)
      BY <2>2, <2>3 DEF Establishing, Busy, Calling
    <2> QED
      BY <1>1, <1>2, <2>1, <2>2, <2>4, NothingOutstanding, SilentKeepsReach
  <1>5. ASSUME NEW i \in Ids, Takes(p, i)
        PROVE  Reach'
    <2>1. /\ pc[p] = "getHandler" /\ holder[i] = None /\ HeldBy(call[p].transport, call[p].config) = {}
          /\ UNCHANGED <<queue, announced, handlerTable, reply, established, overridden>>
      BY <1>5 DEF Takes
    <2>2. /\ call'[p].transport = call[p].transport /\ call'[p].config = call[p].config
          /\ \A j \in Ids : holder'[j] = IF j = i THEN <<call[p].transport, call[p].config>> ELSE holder[j]
      BY <1>5, Taken
    <2>3. Releasing(p)
      BY <2>1, <2>2 DEF Releasing
    <2>4. ASSUME NEW t \in Transports, NEW c \in Configs, <<t, c>> \in established
          PROVE  ~Busy(p, t, c)'
      <3>1. \E j \in Ids : holder[j] = <<t, c>>
        BY <2>4 DEF Reach, Established, Standing, Reached
      <3> QED
        BY <2>1, <2>2, <3>1 DEF HeldBy, Busy, Calling
    <2>5. Establishing(p)
      BY <2>1, <2>4 DEF Establishing
    <2> QED
      BY <1>1, <2>1, <2>3, <2>5, NothingOutstanding, SilentKeepsReach
  <1>6. CASE GetMessageHandler(p)
    <2>1. /\ pc[p] = "getHandler"
          /\ UNCHANGED <<queue, announced, handlerTable, reply, established, overridden>>
      BY <1>6 DEF GetMessageHandler
    <2> QED
      BY <1>1, <1>2, <1>5, <1>6, <2>1, TakesOrFails, NothingOutstanding, NothingEstablished,
         SilentKeepsReach
  <1>7. ASSUME pc[p] = "await", reply'[p] = None, \A q \in Callers : q # p => reply'[q] = reply[q],
               UNCHANGED <<holder, announced, handlerTable, overridden>>, Silent(p), SameCommands,
               UNCHANGED established, pc'[p] = "idle" \/ call'[p] = call[p]
        PROVE  Reach'
    BY <1>2, <1>7, NothingEstablished, SilentKeepsReach
  <1>8. CASE AwaitEngine(p)
    <2>1. /\ pc[p] = "await" /\ reply[p] # None /\ Awaited(p, TRUE)
          /\ reply' = [reply EXCEPT ![p] = None]
          /\ UNCHANGED <<holder, queue, announced, handlerTable, overridden>>
      BY <1>8 DEF AwaitEngine
    <2>2. reply'[p] = None /\ \A q \in Callers : q # p => reply'[q] = reply[q]
      BY <2>1 DEF TypeInv, TypeOK
    <2>3. Silent(p) /\ SameCommands
      BY <2>1, NothingOutstanding
    <2>4. CASE call[p].op = "unregister"
      <3>1. UNCHANGED <<call, established>>
        BY <2>1, <2>4 DEF Awaited
      <3> QED
        BY <1>7, <2>1, <2>2, <2>3, <3>1
    <2>5. CASE call[p].op = "register"
      <3>1. PICK s \in Transports, d \in Configs : Calling(p, s, d)
        BY <2>1 DEF TypeInv, CallOK, Calls, Calling
      <3>2. PICK i \in Ids : Registering(p, s, d, i)
        BY <2>1, <2>5, <3>1 DEF TypeInv, CallOK, Registering
      <3>3. ~InQueue(s, d) /\ Reached(s, d, i)
        BY <2>1, <3>1, <3>2 DEF Reach, Answered
      <3>4. Standing(s, d)'
        BY <2>1, <3>3 DEF Standing, InQueue, Reached
      <3>5. pc'[p] = "idle" /\ Busy(p, s, d)
        BY <1>8, <2>1, <2>5, <3>1, CallerGoes DEF Busy
      <3>6. established' = established \cup {<<s, d>>}
        BY <2>1, <2>5, <3>1 DEF Awaited, Calling
      <3>7. Establishing(p)
        <4>1. \A t, c : ~Busy(p, t, c)'
          BY <3>5 DEF Busy
        <4> QED
          BY <3>4, <3>5, <3>6, <4>1 DEF Establishing
      <3> QED
        BY <1>2, <2>1, <2>2, <2>3, <3>7, SilentKeepsReach
    <2> QED
      BY <1>8, <2>4, <2>5, CallerGoes
  <1>9. CASE AwaitTimeout(p)
    <2>1. /\ pc[p] = "await" /\ reply[p] = None /\ DropReceiver(p) /\ Awaited(p, FALSE)
          /\ UNCHANGED <<holder, announced, handlerTable, reply, overridden>>
      BY <1>9 DEF AwaitTimeout
    <2>2. UNCHANGED established /\ (pc'[p] = "idle" \/ call'[p] = call[p])
      BY <1>9, <2>1, CallerGoes DEF Awaited
    <2> QED
      BY <1>7, <2>1, <2>2, DroppedIsSilent
  <1>10. CASE CancelRegister(p)
    <2>1. /\ DropReceiver(p) /\ reply' = [reply EXCEPT ![p] = None] /\ pc'[p] = "idle"
          /\ UNCHANGED <<holder, announced, handlerTable, established, overridden>>
      BY <1>10, CallerGoes DEF CancelRegister
    <2>2. reply'[p] = None /\ \A q \in Callers : q # p => reply'[q] = reply[q]
      BY <2>1 DEF TypeInv, TypeOK
    <2> QED
      BY <1>2, <2>1, <2>2, DroppedIsSilent, NothingEstablished, SilentKeepsReach
  <1>11. CASE ReleaseMessageHandler(p)
    <2>1. /\ pc[p] = "release" /\ pc'[p] = "idle"
          /\ UNCHANGED <<queue, announced, handlerTable, reply, established, overridden>>
      BY <1>11, CallerGoes DEF ReleaseMessageHandler
    <2>2. Releasing(p)
      BY <1>11, <2>1 DEF ReleaseMessageHandler, HeldBy, Releasing, Busy, Calling
    <2> QED
      BY <1>1, <2>1, <2>2, NothingOutstanding, NothingEstablished, SilentKeepsReach
  <1> QED
    BY <1>3, <1>4, <1>6, <1>8, <1>9, <1>10, <1>11 DEF CallerStep

(* A caller that sends is not heard yet: nothing of its configuration is   *)
(* waited for or established.                                              *)
LEMMA SendingKeepsReach ==
    ASSUME OneCaller, TypeInv, Reach, NEW p \in Callers, SendToEngine(p), Others(p)
    PROVE  Reach'
  <1>1. PICK s \in Transports, d \in Configs : s = call[p].transport /\ d = call[p].config
    BY Sent
  <1>2. /\ pc[p] = "send" /\ pc'[p] = "await" /\ d \in CallsFor(p) /\ reply[p] = None
        /\ UNCHANGED <<holder, announced, handlerTable, call, reply, established, overridden>>
    BY <1>1, CallerGoes DEF SendToEngine, TypeInv, CallOK, Reach, Answered
  <1>3. PICK e \in DOMAIN queue'[s] :
           /\ queue'[s][e] = Command(p)
           /\ \A n \in DOMAIN queue[s] : n \in DOMAIN queue'[s] /\ n < e /\ queue'[s][n] = queue[s][n]
           /\ \A n \in DOMAIN queue'[s] : n # e => n \in DOMAIN queue[s]
           /\ \A u \in Transports : u # s => queue'[u] = queue[u]
    BY <1>1, Sent
  <1>4. /\ queue'[s][e].op = call[p].op /\ queue'[s][e].config = d
        /\ queue'[s][e].id = call[p].id /\ queue'[s][e].from = p
    BY <1>1, <1>3 DEF Command
  <1>5. /\ DOMAIN queue[s] \subseteq Nat /\ DOMAIN queue'[s] \subseteq Nat
        /\ \A m \in DOMAIN queue'[s] : ~(m > e)
    <2>1. queue[s] \in Seq(Commands) /\ queue'[s] \in Seq(Commands)
      BY <1>1, Sent DEF TypeInv, QueueOK
    <2>2. DOMAIN queue[s] \subseteq Nat /\ DOMAIN queue'[s] \subseteq Nat
      BY <2>1
    <2> QED
      BY <1>3, <2>2
  <1>6. \A t \in Transports, c \in Configs : InQueue(t, c)' => InQueue(t, c) \/ (t = s /\ c = d)
    BY <1>3, <1>4 DEF InQueue
  <1>7. \A t \in Transports, c \in Configs, i \in Ids : Reached(t, c, i)' <=> Reached(t, c, i)
    BY <1>2 DEF Reached
  <1>8. Answerable'
    <2> SUFFICES ASSUME NEW q \in Callers, NEW t \in Transports, NEW n \in DOMAIN queue'[t],
                        queue'[t][n].from = q
                 PROVE  /\ pc'[q] = "await" /\ reply[q] = None
                        /\ call[q].op = queue'[t][n].op /\ call[q].transport = t
                        /\ call[q].config = queue'[t][n].config /\ call[q].id = queue'[t][n].id
                        /\ \A m \in DOMAIN queue'[t] : m > n => queue'[t][m].config # queue'[t][n].config
      BY <1>2 DEF Answerable
    <2>1. CASE t = s /\ n = e
      BY <1>1, <1>2, <1>4, <1>5, <2>1
    <2>2. CASE ~(t = s /\ n = e)
      <3>1. n \in DOMAIN queue[t] /\ queue'[t][n] = queue[t][n]
        BY <1>3, <2>2
      <3>2. /\ pc[q] = "await" /\ reply[q] = None
            /\ call[q].op = queue[t][n].op /\ call[q].transport = t
            /\ call[q].config = queue[t][n].config /\ call[q].id = queue[t][n].id
            /\ \A m \in DOMAIN queue[t] : m > n => queue[t][m].config # queue[t][n].config
        BY <3>1 DEF Reach, Answerable
      <3>3. q # p /\ pc'[q] = pc[q]
        BY <1>2, <3>2 DEF Others
      <3>4. queue[t][n].config # d
        BY <1>2, <3>2, <3>3 DEF OneCaller, TypeInv, CallOK
      <3>5. \A m \in DOMAIN queue'[t] : m > n => queue'[t][m].config # queue'[t][n].config
        BY <1>3, <1>4, <3>1, <3>2, <3>4
      <3> QED
        BY <3>1, <3>2, <3>3, <3>5
    <2> QED
      BY <2>1, <2>2
  <1>9. Answered'
    <2> SUFFICES ASSUME NEW q \in Callers, reply[q] # None
                 PROVE  /\ pc'[q] = "await"
                        /\ \A t \in Transports, c \in Configs : Calling(q, t, c)' => ~InQueue(t, c)'
                        /\ \A t \in Transports, c \in Configs, i \in Ids :
                              Registering(q, t, c, i)' => Reached(t, c, i)'
      BY <1>2 DEF Answered
    <2>1. /\ pc[q] = "await"
          /\ \A t \in Transports, c \in Configs : Calling(q, t, c) => ~InQueue(t, c)
          /\ \A t \in Transports, c \in Configs, i \in Ids : Registering(q, t, c, i) => Reached(t, c, i)
      BY DEF Reach, Answered
    <2>2. q # p /\ pc'[q] = pc[q]
      BY <1>2 DEF Others
    <2>3. call[q].config # d
      BY <1>2, <2>1, <2>2 DEF OneCaller, TypeInv, CallOK
    <2>4. \A t \in Transports, c \in Configs : Calling(q, t, c)' => Calling(q, t, c) /\ c # d
      BY <1>2, <2>3 DEF Calling
    <2>5. \A t \in Transports, c \in Configs, i \in Ids : Registering(q, t, c, i)' => Registering(q, t, c, i)
      BY <1>2 DEF Calling, Registering
    <2> QED
      BY <1>6, <1>7, <2>1, <2>2, <2>4, <2>5
  <1>10. Established'
    <2>1. ASSUME NEW t \in Transports, NEW c \in Configs, <<t, c>> \in established
          PROVE  Standing(t, c)' /\ \A q \in Callers : ~Busy(q, t, c)'
      <3>1. (\E i \in Ids : Reached(t, c, i)) /\ ~InQueue(t, c) /\ \A q \in Callers : ~Busy(q, t, c)
        BY <2>1 DEF Reach, Established, Standing
      <3>2. ~(t = s /\ c = d)
        BY <1>1, <1>2, <3>1 DEF Busy, Calling
      <3>3. \A q \in Callers : ~Busy(q, t, c)'
        BY <1>2, <3>1 DEF Busy, Calling, Others
      <3> QED
        BY <1>6, <1>7, <3>1, <3>2, <3>3 DEF Standing
    <2> QED
      BY <1>2, <2>1 DEF Established
  <1> QED
    BY <1>8, <1>9, <1>10 DEF Reach

(* The engine executes the oldest command of a channel.                    *)
LEMMA ExecutingKeepsReach ==
    ASSUME TypeInv, Reach, NEW s \in Transports, NEW command, NEW d \in Configs,
           queue[s] # <<>>, command = Head(queue[s]), d = command.config,
           queue' = [queue EXCEPT ![s] = Tail(@)], Answer(command),
           UNCHANGED <<holder, pc, call, established>>,
           \A t \in Transports, c \in Configs, i \in Ids :
               Reached(t, c, i) /\ ~(t = s /\ c = d) => Reached(t, c, i)',
           command.op = "register" /\ holder[command.id] = <<s, d>> => Reached(s, d, command.id)',
           HeldForCall
    PROVE  Reach'
  <1> USE Assumptions
  <1>1. /\ 1 \in DOMAIN queue[s] /\ command = queue[s][1] /\ command \in Commands
        /\ \A n \in DOMAIN queue'[s] : n > 0 /\ n + 1 \in DOMAIN queue[s] /\ queue'[s][n] = queue[s][n + 1]
        /\ \A u \in Transports : u # s => queue'[u] = queue[u]
    BY Executed
  <1>2. DOMAIN queue[s] \subseteq Nat /\ DOMAIN queue'[s] \subseteq Nat
    <2>1. queue[s] \in Seq(Commands) /\ queue'[s] \in Seq(Commands)
      BY Executed DEF TypeInv, QueueOK
    <2> QED
      BY <2>1
  <1>3. \A t \in Transports : \A c : InQueue(t, c)' => InQueue(t, c)
    BY <1>1 DEF InQueue
  <1>4. InQueue(s, d)
    BY <1>1 DEF InQueue
  <1>5. \A q \in Callers : reply'[q] = IF q = command.from THEN "Ok" ELSE reply[q]
    BY <1>1 DEF Answer, TypeInv, TypeOK
  <1>6. ASSUME NEW q \in Callers, command.from = q
        PROVE  /\ pc[q] = "await" /\ Calling(q, s, d) /\ ~InQueue(s, d)'
               /\ call[q].op = command.op /\ call[q].id = command.id
               /\ \A m \in DOMAIN queue[s] : m > 1 => queue[s][m].config # d
    <2>1. /\ pc[q] = "await" /\ Calling(q, s, d)
          /\ call[q].op = command.op /\ call[q].id = command.id
          /\ \A m \in DOMAIN queue[s] : m > 1 => queue[s][m].config # d
      BY <1>1, <1>6 DEF Reach, Answerable, Calling
    <2> QED
      BY <1>1, <1>2, <2>1 DEF InQueue
  <1>7. Answerable'
    <2> SUFFICES ASSUME NEW q \in Callers, NEW t \in Transports, NEW n \in DOMAIN queue'[t],
                        queue'[t][n].from = q
                 PROVE  /\ pc[q] = "await" /\ reply'[q] = None
                        /\ call[q].op = queue'[t][n].op /\ call[q].transport = t
                        /\ call[q].config = queue'[t][n].config /\ call[q].id = queue'[t][n].id
                        /\ \A m \in DOMAIN queue'[t] : m > n => queue'[t][m].config # queue'[t][n].config
      BY DEF Answerable
    <2>1. CASE t = s
      <3>1. n + 1 \in DOMAIN queue[s] /\ queue'[s][n] = queue[s][n + 1] /\ n + 1 > 1
        BY <1>1, <1>2, <2>1
      <3>2. /\ pc[q] = "await" /\ reply[q] = None
            /\ call[q].op = queue[s][n + 1].op /\ call[q].transport = s
            /\ call[q].config = queue[s][n + 1].config /\ call[q].id = queue[s][n + 1].id
            /\ \A m \in DOMAIN queue[s] : m > n + 1 => queue[s][m].config # queue[s][n + 1].config
        BY <2>1, <3>1 DEF Reach, Answerable
      <3>3. command.from # q
        BY <1>6, <3>1, <3>2 DEF Calling
      <3>4. \A m \in DOMAIN queue'[s] : m > n => queue'[s][m].config # queue'[s][n].config
        <4>1. ASSUME NEW m \in DOMAIN queue'[s], m > n
              PROVE  m + 1 > n + 1 /\ m + 1 \in DOMAIN queue[s] /\ queue'[s][m] = queue[s][m + 1]
          BY <1>1, <1>2, <2>1, <4>1
        <4> QED
          BY <3>1, <3>2, <4>1
      <3> QED
        BY <1>5, <2>1, <3>1, <3>2, <3>3, <3>4
    <2>2. CASE t # s
      <3>1. queue'[t] = queue[t] /\ n \in DOMAIN queue[t] /\ queue[t][n].from = q
        BY <1>1, <2>2
      <3>2. /\ pc[q] = "await" /\ reply[q] = None
            /\ call[q].op = queue[t][n].op /\ call[q].transport = t
            /\ call[q].config = queue[t][n].config /\ call[q].id = queue[t][n].id
            /\ \A m \in DOMAIN queue[t] : m > n => queue[t][m].config # queue[t][n].config
        BY <3>1 DEF Reach, Answerable
      <3>3. command.from # q
        BY <1>6, <2>2, <3>2 DEF Calling
      <3> QED
        BY <1>5, <3>1, <3>2, <3>3
    <2> QED
      BY <2>1, <2>2
  <1>8. Answered'
    <2> SUFFICES ASSUME NEW q \in Callers, reply'[q] # None
                 PROVE  /\ pc[q] = "await"
                        /\ \A t \in Transports, c \in Configs : Calling(q, t, c) => ~InQueue(t, c)'
                        /\ \A t \in Transports, c \in Configs, i \in Ids :
                              Registering(q, t, c, i) => Reached(t, c, i)'
      BY DEF Answered, Calling, Registering
    <2>1. CASE command.from = q
      <3>1. ASSUME NEW t \in Transports, NEW c \in Configs, Calling(q, t, c)
            PROVE  t = s /\ c = d
        BY <1>6, <2>1, <3>1 DEF Calling
      <3>2. ASSUME NEW t \in Transports, NEW c \in Configs, NEW i \in Ids, Registering(q, t, c, i)
            PROVE  Reached(t, c, i)'
        <4>1. t = s /\ c = d /\ i = command.id /\ command.op = "register"
          BY <1>6, <2>1, <3>1, <3>2 DEF Registering
        <4>2. holder[command.id] = <<s, d>>
          BY <1>6, <2>1, <3>2, <4>1 DEF HeldForCall, Registering, Calling
        <4> QED
          BY <4>1, <4>2
      <3> QED
        BY <1>6, <2>1, <3>1, <3>2
    <2>2. CASE command.from # q
      <3>1. reply[q] # None
        BY <1>5, <2>2
      <3>2. /\ pc[q] = "await"
            /\ \A t \in Transports, c \in Configs : Calling(q, t, c) => ~InQueue(t, c)
            /\ \A t \in Transports, c \in Configs, i \in Ids : Registering(q, t, c, i) => Reached(t, c, i)
        BY <3>1 DEF Reach, Answered
      <3>3. \A t \in Transports, c \in Configs, i \in Ids : Registering(q, t, c, i) => Calling(q, t, c)
        BY DEF Registering
      <3> QED
        BY <1>3, <1>4, <3>2, <3>3
    <2> QED
      BY <2>1, <2>2
  <1>9. Established'
    <2>1. ASSUME NEW t \in Transports, NEW c \in Configs, <<t, c>> \in established
          PROVE  Standing(t, c)' /\ \A q \in Callers : ~Busy(q, t, c)
      <3>1. (\E i \in Ids : Reached(t, c, i)) /\ ~InQueue(t, c) /\ \A q \in Callers : ~Busy(q, t, c)
        BY <2>1 DEF Reach, Established, Standing
      <3> QED
        BY <1>3, <1>4, <3>1 DEF Standing
    <2> QED
      BY <2>1 DEF Established, Busy, Calling
  <1> QED
    BY <1>7, <1>8, <1>9 DEF Reach

LEMMA EngineKeepsReach ==
    ASSUME TypeInv, HeldForCall, Reach, NEW s \in Transports, EngineStep(s)
    PROVE  Reach'
  <1>1. PICK command : command = Head(queue[s])
    OBVIOUS
  <1>2. /\ queue[s] # <<>> /\ queue' = [queue EXCEPT ![s] = Tail(@)] /\ Answer(command)
        /\ UNCHANGED <<holder, pc, call, established>>
    BY <1>1 DEF EngineStep, RegisterListenerInternal, UnregisterListenerInternal
  <1>3. PICK d \in Configs : d = command.config
    BY <1>1, <1>2, Executed DEF Commands
  <1>4. command.op = "register" => command.id \in Ids
    BY <1>1, <1>2, Executed DEF TypeInv, QueueOK
  <1>5. CASE RegisterListenerInternal(s)
    <2>1. /\ command.op = "register"
          /\ announced' = [announced EXCEPT ![s] = @ \cup {Announcement[d]}]
          /\ handlerTable' = [handlerTable EXCEPT ![s][RegisterKey[d]] = command.id]
          /\ overridden' = (overridden \ {<<s, d>>}) \cup Sharing(s, d, RegisterKey[d])
      BY <1>1, <1>3, <1>5 DEF RegisterListenerInternal
    <2>2. \A t \in Transports, k \in Keys :
             handlerTable'[t][k] = IF t = s /\ k = RegisterKey[d] THEN command.id ELSE handlerTable[t][k]
      BY <1>4, <2>1, KindsAndKeys, TableUpdate DEF TypeInv, TypeOK
    <2>3. \A t \in Transports : announced[t] \subseteq announced'[t]
      BY <2>1 DEF TypeInv, TypeOK
    <2>4. Announcement[d] \in announced'[s]
      BY <2>1 DEF TypeInv, TypeOK
    <2>5. ASSUME NEW t \in Transports, NEW c \in Configs, NEW i \in Ids, Reached(t, c, i), ~(t = s /\ c = d)
          PROVE  Reached(t, c, i)'
      <3>1. RegisterKey[c] \in Keys
        BY KindsAndKeys
      <3>2. CASE t = s /\ RegisterKey[c] = RegisterKey[d]
        <4>1. <<t, c>> \in overridden'
          BY <2>1, <2>5, <3>2 DEF Sharing
        <4> QED
          BY <1>2, <2>3, <2>5, <4>1 DEF Reached
      <3>3. CASE ~(t = s /\ RegisterKey[c] = RegisterKey[d])
        <4>1. handlerTable'[t][RegisterKey[c]] = handlerTable[t][RegisterKey[c]]
          BY <2>2, <3>1, <3>3
        <4>2. <<t, c>> \in overridden => <<t, c>> \in overridden'
          BY <2>1, <2>5
        <4> QED
          BY <1>2, <2>3, <2>5, <4>1, <4>2 DEF Reached
      <3> QED
        BY <3>2, <3>3
    <2>6. holder[command.id] = <<s, d>> => Reached(s, d, command.id)'
      <3>1. handlerTable'[s][RegisterKey[d]] = command.id
        BY <2>2, KindsAndKeys
      <3> QED
        BY <1>2, <2>4, <3>1 DEF Reached
    <2> QED
      BY <1>1, <1>2, <1>3, <2>5, <2>6, ExecutingKeepsReach
  <1>6. CASE UnregisterListenerInternal(s)
    <2>1. /\ command.op = "unregister" /\ UNCHANGED announced
          /\ handlerTable' = [handlerTable EXCEPT ![s][UnregisterKey[d]] = None]
          /\ overridden' = overridden \cup Sharing(s, d, UnregisterKey[d])
      BY <1>1, <1>3, <1>6 DEF UnregisterListenerInternal
    <2>2. \A t \in Transports, k \in Keys :
             handlerTable'[t][k] = IF t = s /\ k = UnregisterKey[d] THEN None ELSE handlerTable[t][k]
      BY <2>1, KindsAndKeys, TableUpdate DEF TypeInv, TypeOK
    <2>3. ASSUME NEW t \in Transports, NEW c \in Configs, NEW i \in Ids, Reached(t, c, i), ~(t = s /\ c = d)
          PROVE  Reached(t, c, i)'
      <3>1. RegisterKey[c] \in Keys
        BY KindsAndKeys
      <3>2. CASE t = s /\ RegisterKey[c] = UnregisterKey[d]
        <4>1. <<t, c>> \in overridden'
          BY <2>1, <2>3, <3>2 DEF Sharing
        <4> QED
          BY <1>2, <2>1, <2>3, <4>1 DEF Reached
      <3>3. CASE ~(t = s /\ RegisterKey[c] = UnregisterKey[d])
        <4>1. handlerTable'[t][RegisterKey[c]] = handlerTable[t][RegisterKey[c]]
          BY <2>2, <3>1, <3>3
        <4> QED
          BY <1>2, <2>1, <2>3, <4>1 DEF Reached
      <3> QED
        BY <3>2, <3>3
    <2> QED
      BY <1>1, <1>2, <1>3, <2>1, <2>3, ExecutingKeepsReach
  <1> QED
    BY <1>5, <1>6 DEF EngineStep

LEMMA ReachStep ==
    ASSUME OneCaller, TypeInv, HeldForCall, Reach, [Next]_vars
    PROVE  Reach'
  <1>1. ASSUME NEW p \in Callers,
               CallRegister(p) \/ CallUnregister(p) \/ CallerStep(p) \/ AwaitTimeout(p) \/ CancelRegister(p)
        PROVE  Reach'
    <2>1. Others(p)
      BY <1>1, OneCallerSteps
    <2> QED
      BY <1>1, <2>1, CallersKeepReach, SendingKeepsReach
  <1>2. CASE UNCHANGED vars
    <2>1. Answerable'
      BY <1>2 DEF vars, Reach, Answerable
    <2>2. Answered'
      BY <1>2 DEF vars, Reach, Answered, Reached, InQueue, Calling, Registering
    <2>3. Established'
      <3>1. \A t \in Transports, c \in Configs, i \in Ids : Reached(t, c, i) => Reached(t, c, i)'
        BY <1>2 DEF vars, Reached
      <3>2. \A t \in Transports, c \in Configs : InQueue(t, c)' => InQueue(t, c)
        BY <1>2 DEF vars, InQueue
      <3>3. \A t \in Transports, c \in Configs : Standing(t, c) => Standing(t, c)'
        BY <3>1, <3>2 DEF Standing
      <3>4. \A p \in Callers, t \in Transports, c \in Configs : Busy(p, t, c)' => Busy(p, t, c)
        BY <1>2 DEF vars, Busy, Calling
      <3> QED
        BY <1>2, <3>3, <3>4 DEF vars, Reach, Established
    <2> QED
      BY <2>1, <2>2, <2>3 DEF Reach
  <1> QED
    BY <1>1, <1>2, EngineKeepsReach DEF Next

(* A listener whose registration returned Ok, and whose unregistration has *)
(* not begun since, is reachable: vsomeip has, under its key, the function *)
(* that is held for it, unless a configuration that shares the key was     *)
(* registered or unregistered later.  This needs no time limit on answers, *)
(* only that nobody else makes calls about the listener meanwhile.         *)
THEOREM EstablishedStaysReachable ==
    ASSUME OneCaller
    PROVE  Spec => []EstablishedIsReachable
  <1>1. TypeInv /\ HeldForCall /\ Reach /\ [Next]_vars => TypeInv' /\ HeldForCall' /\ Reach'
    BY TypeStep, HeldStep, ReachStep
  <1>2. TypeInv /\ Reach => EstablishedIsReachable
    <2> SUFFICES ASSUME TypeInv, Reach, NEW r \in established \ overridden
                 PROVE  LET i == handlerTable[r[1]][RegisterKey[r[2]]] IN
                        i # None /\ holder[i] = r /\ Announcement[r[2]] \in announced[r[1]]
      BY DEF EstablishedIsReachable
    <2>1. PICK t \in Transports, c \in Configs : r = <<t, c>>
      BY DEF TypeInv, TypeOK
    <2>2. PICK i \in Ids : Reached(t, c, i)
      BY <2>1 DEF Reach, Established, Standing
    <2>3. i = handlerTable[t][RegisterKey[c]] /\ holder[i] = r /\ Announcement[c] \in announced[t]
      BY <2>1, <2>2 DEF Reached
    <2> QED
      BY <2>1, <2>3, Assumptions
  <1> QED
    BY <1>1, <1>2, InitTypeInv, InitHeld, InitReach, PTL DEF Spec

-----------------------------------------------------------------------------
(* When answers come in time and every key is erased, a queued or executed *)
(* registration is of a function that is held for it, ...                  *)
InTime == ~EngineMayBeLate /\ \A c \in Configs : UnregisterKey[c] = RegisterKey[c]

QueueOwned ==
    \A t \in Transports, c \in Configs : \A n \in DOMAIN queue[t] :
        queue[t][n].op = "register" /\ queue[t][n].config = c => holder[queue[t][n].id] = <<t, c>>
TableOwned ==
    \A t \in Transports, k \in Keys : handlerTable[t][k] # None =>
        \E c \in Configs : RegisterKey[c] = k /\ holder[handlerTable[t][k]] = <<t, c>>
Owned == QueueOwned /\ TableOwned

(* ... and when its function is taken or released there is none.           *)
Unheard(t, c) ==
    /\ \A n \in DOMAIN queue[t] : ~(queue[t][n].op = "register" /\ queue[t][n].config = c)
    /\ \A k \in Keys : handlerTable[t][k] # None => holder[handlerTable[t][k]] # <<t, c>>
Aside(p) ==
    \/ pc[p] = "send" /\ call[p].op = "register"
    \/ pc[p] = "await" /\ call[p].op = "unregister" /\ reply[p] # None
    \/ pc[p] = "release"
Waiting ==
    \A p \in Callers, t \in Transports, c \in Configs :
        Aside(p) /\ Calling(p, t, c) => Unheard(t, c)

LEMMA InitOwned == Init => Owned /\ Waiting
  <1> SUFFICES ASSUME Init PROVE Owned /\ Waiting
    OBVIOUS
  <1>1. \A t \in Transports : DOMAIN queue[t] = {}
    BY DEF Init
  <1> QED
    BY <1>1 DEF Init, Owned, QueueOwned, TableOwned, Waiting, Aside

LEMMA AsideAlone ==
    ASSUME OneCaller, TypeInv, NEW p \in Callers, NEW q \in Callers, p # q, Aside(q),
           pc[p] # "idle", NEW t, NEW c, Calling(q, t, c)
    PROVE  call[p].config # c
  BY DEF OneCaller, TypeInv, CallOK, Aside, Calling

(* Steps that change no holder and no table, and what is in the channels   *)
(* in its receiver only.                                                   *)
LEMMA OwnedFrame ==
    ASSUME Owned, Waiting, SameCommands, UNCHANGED <<holder, handlerTable>>,
           \A p \in Callers : Aside(p)' => Aside(p) /\ call'[p] = call[p]
    PROVE  Owned' /\ Waiting'
  <1>1. Owned'
    <2>1. ASSUME NEW t \in Transports, NEW c \in Configs, NEW n \in DOMAIN queue'[t],
                 queue'[t][n].op = "register", queue'[t][n].config = c
          PROVE  holder[queue'[t][n].id] = <<t, c>>
      <3>1. /\ n \in DOMAIN queue[t] /\ queue[t][n].op = "register" /\ queue[t][n].config = c
            /\ queue'[t][n].id = queue[t][n].id
        BY <2>1 DEF SameCommands
      <3> QED
        BY <3>1 DEF Owned, QueueOwned
    <2>2. TableOwned'
      BY DEF Owned, TableOwned
    <2> QED
      BY <2>1, <2>2 DEF Owned, QueueOwned
  <1>2. ASSUME NEW t \in Transports, NEW c \in Configs, Unheard(t, c)
        PROVE  Unheard(t, c)'
    BY <1>2 DEF Unheard, SameCommands
  <1>3. \A p \in Callers, t \in Transports, c \in Configs :
           Aside(p)' /\ Calling(p, t, c)' => Aside(p) /\ Calling(p, t, c)
    BY DEF Calling
  <1> QED
    BY <1>1, <1>2, <1>3 DEF Waiting

LEMMA TakingKeepsOwned ==
    ASSUME OneCaller, TypeInv, Owned, Waiting, NEW p \in Callers, NEW i \in Ids, Takes(p, i), Others(p)
    PROVE  Owned' /\ Waiting'
  <1> USE Assumptions
  <1>1. PICK s \in Transports, d \in Configs : s = call[p].transport /\ d = call[p].config
    BY Taken
  <1>2. /\ pc[p] = "getHandler" /\ holder[i] = None /\ HeldBy(s, d) = {}
        /\ UNCHANGED <<queue, handlerTable, reply>>
    BY <1>1 DEF Takes
  <1>3. \A j \in Ids : holder'[j] = IF j = i THEN <<s, d>> ELSE holder[j]
    BY <1>1, Taken
  <1>4. \A t \in Transports, k \in Keys : handlerTable[t][k] \in Ids \cup {None}
    BY DEF TypeInv, TypeOK
  <1>5. \A t \in Transports : \A n \in DOMAIN queue[t] :
           queue[t][n].op = "register" => queue[t][n].id \in Ids
    BY DEF TypeInv, QueueOK
  <1>6. ASSUME NEW t \in Transports, NEW c \in Configs, NEW j \in Ids, holder[j] = <<t, c>>
        PROVE  j # i /\ holder'[j] = <<t, c>> /\ ~(t = s /\ c = d)
    <2>1. <<t, c>> # None
      BY <<t, c>> \in Transports \X Configs
    <2> QED
      BY <1>2, <1>3, <1>6, <2>1 DEF HeldBy
  <1>7. Owned'
    <2>1. ASSUME NEW t \in Transports, NEW c \in Configs, NEW n \in DOMAIN queue'[t],
                 queue'[t][n].op = "register", queue'[t][n].config = c
          PROVE  holder'[queue'[t][n].id] = <<t, c>>
      <3>1. queue' = queue
        BY <1>2
      <3>2. holder[queue[t][n].id] = <<t, c>> /\ queue[t][n].id \in Ids
        BY <1>5, <2>1, <3>1 DEF Owned, QueueOwned
      <3> QED
        BY <1>6, <3>1, <3>2
    <2>2. ASSUME NEW t \in Transports, NEW k \in Keys, handlerTable'[t][k] # None
          PROVE  \E c \in Configs : RegisterKey[c] = k /\ holder'[handlerTable'[t][k]] = <<t, c>>
      <3>1. handlerTable' = handlerTable
        BY <1>2
      <3>2. PICK c \in Configs : RegisterKey[c] = k /\ holder[handlerTable[t][k]] = <<t, c>>
        BY <2>2, <3>1 DEF Owned, TableOwned
      <3>3. holder'[handlerTable[t][k]] = <<t, c>>
        BY <1>4, <1>6, <2>2, <3>1, <3>2
      <3> QED
        BY <3>1, <3>2, <3>3
    <2>3. QueueOwned'
      BY <2>1 DEF QueueOwned
    <2>4. TableOwned'
      BY <2>2 DEF TableOwned
    <2> QED
      BY <2>3, <2>4 DEF Owned
  <1>8. ASSUME NEW t \in Transports, NEW k \in Keys, handlerTable[t][k] # None
        PROVE  holder'[handlerTable[t][k]] = holder[handlerTable[t][k]]
    BY <1>4, <1>6, <1>8 DEF Owned, QueueOwned, TableOwned
  <1>9. Unheard(s, d)'
    <2>1. \A n \in DOMAIN queue[s] : ~(queue[s][n].op = "register" /\ queue[s][n].config = d)
      BY <1>5, <1>6 DEF Owned, QueueOwned, TableOwned
    <2>2. \A k \in Keys : handlerTable[s][k] # None => holder[handlerTable[s][k]] # <<s, d>>
      BY <1>4, <1>6
    <2> QED
      BY <1>2, <1>8, <2>1, <2>2 DEF Unheard
  <1>10. ASSUME NEW t \in Transports, NEW c \in Configs, Unheard(t, c)
         PROVE  Unheard(t, c)'
    BY <1>2, <1>8, <1>10 DEF Unheard
  <1>11. \A q \in Callers, t \in Transports, c \in Configs :
            Aside(q)' /\ Calling(q, t, c)' => (Aside(q) /\ Calling(q, t, c)) \/ (t = s /\ c = d)
    <2>1. call'[p].transport = s /\ call'[p].config = d
      BY <1>1, Taken
    <2> QED
      BY <1>2, <2>1 DEF Aside, Calling, Others
  <1> QED
    BY <1>7, <1>9, <1>10, <1>11 DEF Waiting

LEMMA ReleasingKeepsOwned ==
    ASSUME OneCaller, TypeInv, Owned, Waiting, NEW p \in Callers, ReleaseMessageHandler(p), Others(p)
    PROVE  Owned' /\ Waiting'
  <1> USE Assumptions
  <1>1. PICK s \in Transports, d \in Configs : Calling(p, s, d)
    BY DEF ReleaseMessageHandler, TypeInv, CallOK, Calls, Calling
  <1>2. pc[p] = "release" /\ pc'[p] = "idle" /\ UNCHANGED <<queue, handlerTable, reply>>
    BY CallerGoes DEF ReleaseMessageHandler
  <1>3. Unheard(s, d)
    BY <1>1, <1>2 DEF Waiting, Aside
  <1>4. \A j \in Ids : holder'[j] = IF holder[j] = <<s, d>> THEN None ELSE holder[j]
    BY <1>1 DEF ReleaseMessageHandler, HeldBy, Calling
  <1>5. \A t \in Transports, k \in Keys : handlerTable[t][k] \in Ids \cup {None}
    BY DEF TypeInv, TypeOK
  <1>6. \A t \in Transports : \A n \in DOMAIN queue[t] :
           queue[t][n].op = "register" => queue[t][n].id \in Ids
    BY DEF TypeInv, QueueOK
  <1>7. ASSUME NEW t \in Transports, NEW k \in Keys, handlerTable[t][k] # None
        PROVE  holder'[handlerTable[t][k]] = holder[handlerTable[t][k]]
    <2>1. PICK c \in Configs : holder[handlerTable[t][k]] = <<t, c>>
      BY <1>7 DEF Owned, QueueOwned, TableOwned
    <2>2. ~(t = s /\ c = d)
      BY <1>3, <1>7, <2>1 DEF Unheard
    <2> QED
      BY <1>4, <1>5, <1>7, <2>1, <2>2
  <1>8. Owned'
    <2>1. ASSUME NEW t \in Transports, NEW c \in Configs, NEW n \in DOMAIN queue[t],
                 queue[t][n].op = "register", queue[t][n].config = c
          PROVE  holder'[queue[t][n].id] = <<t, c>>
      <3>1. holder[queue[t][n].id] = <<t, c>>
        BY <2>1 DEF Owned, QueueOwned, TableOwned
      <3>2. ~(t = s /\ c = d)
        BY <1>3, <2>1 DEF Unheard
      <3> QED
        BY <1>4, <1>6, <2>1, <3>1, <3>2
    <2>2. ASSUME NEW t \in Transports, NEW k \in Keys, handlerTable[t][k] # None
          PROVE  \E c \in Configs : RegisterKey[c] = k /\ holder'[handlerTable[t][k]] = <<t, c>>
      BY <1>7, <2>2 DEF Owned, QueueOwned, TableOwned
    <2>3. QueueOwned'
      BY <1>2, <2>1 DEF QueueOwned
    <2>4. TableOwned'
      BY <1>2, <2>2 DEF TableOwned
    <2> QED
      BY <2>3, <2>4 DEF Owned
  <1>9. ASSUME NEW t \in Transports, NEW c \in Configs, Unheard(t, c)
        PROVE  Unheard(t, c)'
    BY <1>2, <1>7, <1>9 DEF Unheard
  <1>10. \A q \in Callers, t \in Transports, c \in Configs :
            Aside(q)' /\ Calling(q, t, c)' => Aside(q) /\ Calling(q, t, c)
    BY <1>2 DEF Aside, Calling, Others
  <1> QED
    BY <1>8, <1>9, <1>10 DEF Waiting

LEMMA SendingKeepsOwned ==
    ASSUME OneCaller, TypeInv, HeldForCall, Owned, Waiting, NEW p \in Callers, SendToEngine(p), Others(p),
           Reach
    PROVE  Owned' /\ Waiting'
  <1>1. PICK s \in Transports, d \in Configs : s = call[p].transport /\ d = call[p].config
    BY Sent
  <1>2. /\ pc[p] = "send" /\ pc'[p] = "await" /\ reply[p] = None
        /\ UNCHANGED <<holder, handlerTable, call, reply>>
    BY <1>1, CallerGoes DEF SendToEngine, Reach, Answered
  <1>3. PICK e \in DOMAIN queue'[s] :
           /\ queue'[s][e] = Command(p)
           /\ \A n \in DOMAIN queue'[s] : n # e => n \in DOMAIN queue[s] /\ queue'[s][n] = queue[s][n]
           /\ \A u \in Transports : u # s => queue'[u] = queue[u]
    BY <1>1, Sent
  <1>4. /\ queue'[s][e].op = call[p].op /\ queue'[s][e].config = d
        /\ queue'[s][e].id = call[p].id
    BY <1>1, <1>3 DEF Command
  <1>5. Owned'
    <2>1. ASSUME NEW t \in Transports, NEW c \in Configs, NEW n \in DOMAIN queue'[t],
                 queue'[t][n].op = "register", queue'[t][n].config = c
          PROVE  holder[queue'[t][n].id] = <<t, c>>
      <3>1. CASE t = s /\ n = e
        BY <1>1, <1>2, <1>4, <2>1, <3>1 DEF HeldForCall
      <3>2. CASE ~(t = s /\ n = e)
        <4>1. n \in DOMAIN queue[t] /\ queue'[t][n] = queue[t][n]
          BY <1>3, <2>1, <3>2
        <4> QED
          BY <2>1, <4>1 DEF Owned, QueueOwned, TableOwned
      <3> QED
        BY <3>1, <3>2
    <2> QED
      BY <1>2, <2>1 DEF Owned, QueueOwned, TableOwned
  <1>6. ASSUME NEW t \in Transports, NEW c \in Configs, c # d, Unheard(t, c)
        PROVE  Unheard(t, c)'
    <2>1. \A n \in DOMAIN queue'[t] : ~(queue'[t][n].op = "register" /\ queue'[t][n].config = c)
      BY <1>3, <1>4, <1>6 DEF Unheard
    <2> QED
      BY <1>2, <1>6, <2>1 DEF Unheard
  <1>7. ASSUME NEW q \in Callers, NEW t \in Transports, NEW c \in Configs, Aside(q)', Calling(q, t, c)'
        PROVE  Aside(q) /\ Calling(q, t, c) /\ c # d
    <2>1. q # p
      BY <1>2, <1>7 DEF Aside
    <2>2. Aside(q) /\ Calling(q, t, c)
      BY <1>2, <1>7, <2>1 DEF Aside, Calling, Others
    <2> QED
      BY <1>1, <1>2, <2>1, <2>2, AsideAlone
  <1> QED
    BY <1>5, <1>6, <1>7 DEF Waiting

LEMMA EngineKeepsOwned ==
    ASSUME InTime, TypeInv, Reach, Reach', Owned, Waiting, NEW s \in Transports, EngineStep(s)
    PROVE  Owned' /\ Waiting'
  <1> USE Assumptions
  <1>1. PICK command : command = Head(queue[s])
    OBVIOUS
  <1>2. /\ queue[s] # <<>> /\ queue' = [queue EXCEPT ![s] = Tail(@)] /\ Answer(command)
        /\ UNCHANGED <<holder, pc, call>>
    BY <1>1 DEF EngineStep, RegisterListenerInternal, UnregisterListenerInternal
  <1>3. /\ 1 \in DOMAIN queue[s] /\ command = queue[s][1] /\ command \in Commands
        /\ \A n \in DOMAIN queue'[s] : n + 1 \in DOMAIN queue[s] /\ queue'[s][n] = queue[s][n + 1]
        /\ \A u \in Transports : u # s => queue'[u] = queue[u]
    BY <1>1, <1>2, Executed
  <1>4. PICK d \in Configs : d = command.config
    BY <1>3 DEF Commands
  <1>5. PICK key \in Keys : key = RegisterKey[d] /\ key = UnregisterKey[d]
    BY KindsAndKeys DEF InTime
  <1>6. PICK new \in Ids \cup {None} :
           /\ new = IF command.op = "register" THEN command.id ELSE None
           /\ handlerTable' = [handlerTable EXCEPT ![s][key] = new]
    <2>1. command.op = "register" => command.id \in Ids
      BY <1>3 DEF TypeInv, QueueOK
    <2> QED
      BY <1>1, <1>4, <1>5, <2>1 DEF EngineStep, RegisterListenerInternal, UnregisterListenerInternal
  <1>7. \A t \in Transports, k \in Keys :
           handlerTable'[t][k] = IF t = s /\ k = key THEN new ELSE handlerTable[t][k]
    BY <1>6, TableUpdate DEF TypeInv, TypeOK
  <1>8. command.op = "register" => holder[command.id] = <<s, d>>
    <2>1. command = queue[s][1] /\ 1 \in DOMAIN queue[s]
      BY <1>3
    <2> QED
      BY <1>4, <2>1 DEF Owned, QueueOwned
  <1>9. Owned'
    <2>1. ASSUME NEW t \in Transports, NEW c \in Configs, NEW n \in DOMAIN queue'[t],
                 queue'[t][n].op = "register", queue'[t][n].config = c
          PROVE  holder[queue'[t][n].id] = <<t, c>>
      <3>1. CASE t = s
        <4>1. n + 1 \in DOMAIN queue[s] /\ queue'[s][n] = queue[s][n + 1]
          BY <1>3, <3>1
        <4> QED
          BY <2>1, <3>1, <4>1 DEF Owned, QueueOwned
      <3>2. CASE t # s
        <4>1. queue'[t] = queue[t]
          BY <1>3, <3>2
        <4> QED
          BY <2>1, <4>1 DEF Owned, QueueOwned
      <3> QED
        BY <3>1, <3>2
    <2>2. ASSUME NEW t \in Transports, NEW k \in Keys, handlerTable'[t][k] # None
          PROVE  \E c \in Configs : RegisterKey[c] = k /\ holder[handlerTable'[t][k]] = <<t, c>>
      <3>1. CASE t = s /\ k = key
        <4>1. handlerTable'[t][k] = command.id /\ command.op = "register"
          BY <1>6, <1>7, <2>2, <3>1
        <4> QED
          BY <1>5, <1>8, <3>1, <4>1
      <3>2. CASE ~(t = s /\ k = key)
        <4>1. handlerTable'[t][k] = handlerTable[t][k]
          BY <1>7, <3>2
        <4> QED
          BY <2>2, <4>1 DEF Owned, TableOwned
      <3> QED
        BY <3>1, <3>2
    <2>3. QueueOwned'
      <3>1. holder' = holder
        BY <1>2
      <3> QED
        BY <2>1, <3>1, Zenon DEF QueueOwned
    <2>4. TableOwned'
      BY <1>2, <2>2 DEF TableOwned
    <2> QED
      BY <2>3, <2>4 DEF Owned
  <1>10. ASSUME NEW t \in Transports, NEW c \in Configs, Unheard(t, c)
         PROVE  Unheard(t, c)'
    <2>1. \A n \in DOMAIN queue'[t] : ~(queue'[t][n].op = "register" /\ queue'[t][n].config = c)
      BY <1>3, <1>10 DEF Unheard
    <2>2. command.op = "register" => ~(t = s /\ c = d)
      BY <1>3, <1>4, <1>10 DEF Unheard
    <2>3. ASSUME NEW k \in Keys, handlerTable'[t][k] # None
          PROVE  holder[handlerTable'[t][k]] # <<t, c>>
      <3>1. CASE t = s /\ k = key
        BY <1>6, <1>7, <1>8, <2>2, <2>3, <3>1
      <3>2. CASE ~(t = s /\ k = key)
        BY <1>7, <1>10, <2>3, <3>2 DEF Unheard
      <3> QED
        BY <3>1, <3>2
    <2> QED
      BY <1>2, <2>1, <2>3 DEF Unheard
  <1>11. ASSUME NEW q \in Callers, NEW t \in Transports, NEW c \in Configs, Aside(q)', Calling(q, t, c)'
         PROVE  Unheard(t, c)'
    <2>1. Calling(q, t, c)
      BY <1>2, <1>11 DEF Calling
    <2>2. CASE Aside(q)
      BY <1>10, <2>1, <2>2 DEF Waiting
    <2>3. CASE ~Aside(q)
      <3>1. /\ call[q].op = "unregister" /\ reply[q] = None /\ reply'[q] # None
        BY <1>2, <1>11, <2>3 DEF Aside
      <3>2. command.from = q
        BY <1>2, <3>1 DEF Answer, TypeInv, TypeOK
      <3>3. t = s /\ c = d /\ command.op = "unregister"
        BY <1>3, <1>4, <2>1, <3>1, <3>2 DEF Reach, Answerable, Calling
      <3>4. ~InQueue(s, d)'
        BY <1>11, <3>1, <3>3 DEF Reach, Answered
      <3>5. ASSUME NEW k \in Keys, handlerTable'[s][k] # None
            PROVE  holder'[handlerTable'[s][k]] # <<s, d>>
        <4>1. k # key
          BY <1>6, <1>7, <3>3, <3>5
        <4>2. PICK e \in Configs : RegisterKey[e] = k /\ holder'[handlerTable'[s][k]] = <<s, e>>
          BY <1>9, <3>5 DEF Owned, QueueOwned, TableOwned
        <4>3. e # d
          BY <1>5, <4>1, <4>2
        <4> QED
          BY <4>2, <4>3
      <3> QED
        BY <3>3, <3>4, <3>5 DEF Unheard, InQueue
    <2> QED
      BY <2>2, <2>3
  <1> QED
    BY <1>9, <1>11 DEF Waiting

LEMMA OwnedStep ==
    ASSUME OneCaller, InTime, TypeInv, HeldForCall, Reach, Reach', Owned, Waiting, [Next]_vars
    PROVE  Owned' /\ Waiting'
  <1>1. ASSUME NEW p \in Callers, Others(p),
               CallRegister(p) \/ CallUnregister(p) \/ AwaitEngine(p) \/ CancelRegister(p)
               \/ (Done(p) /\ pc'[p] = "idle" /\ UNCHANGED <<holder, queue, handlerTable, reply>>)
        PROVE  Owned' /\ Waiting'
    <2>1. UNCHANGED <<holder, handlerTable>> /\ (queue' = queue \/ DropReceiver(p))
      BY <1>1 DEF CallRegister, CallUnregister, AwaitEngine, CancelRegister
    <2>2. SameCommands
      BY <2>1, Dropped DEF SameCommands
    <2>3. \A q \in Callers : q # p => reply'[q] = reply[q]
      BY <1>1 DEF CallRegister, CallUnregister, AwaitEngine, CancelRegister, TypeInv, TypeOK
    <2>4. Aside(p)' => AwaitEngine(p)
      BY <1>1, CallerGoes DEF Aside
    <2>5. AwaitEngine(p) /\ Aside(p)' => Aside(p) /\ call'[p] = call[p]
      <3>1. AwaitEngine(p) => reply[p] # None
        BY DEF AwaitEngine
      <3> QED
        BY <3>1, CallerGoes DEF Aside
    <2>6. \A q \in Callers : Aside(q)' => Aside(q) /\ call'[q] = call[q]
      BY <1>1, <2>3, <2>4, <2>5 DEF Aside, Others
    <2> QED
      BY <2>1, <2>2, <2>6, OwnedFrame
  <1>2. ASSUME NEW p \in Callers,
               CallRegister(p) \/ CallUnregister(p) \/ CallerStep(p) \/ AwaitTimeout(p) \/ CancelRegister(p)
        PROVE  Owned' /\ Waiting'
    <2>1. Others(p) /\ ~AwaitTimeout(p)
      BY <1>2, OneCallerSteps DEF AwaitTimeout, InTime
    <2>2. CASE GetMessageHandler(p)
      <3>1. UNCHANGED <<queue, handlerTable, reply>>
        BY <2>2 DEF GetMessageHandler
      <3> QED
        BY <1>1, <2>1, <2>2, <3>1, TakesOrFails, TakingKeepsOwned
    <2> QED
      BY <1>1, <1>2, <2>1, <2>2, SendingKeepsOwned, ReleasingKeepsOwned DEF CallerStep
  <1>3. CASE UNCHANGED vars
    <2>1. SameCommands /\ \A q \in Callers : Aside(q)' => Aside(q) /\ call'[q] = call[q]
      BY <1>3 DEF SameCommands, Aside, vars
    <2> QED
      BY <1>3, <2>1, OwnedFrame DEF vars
  <1> QED
    BY <1>2, <1>3, EngineKeepsOwned DEF Next

(* What get_message_handler hands over is unused, as its comment says: no  *)
(* entry of any transport's table has it and no queued registration will   *)
(* set one, if answers come in time, every configuration is unregistered   *)
(* under the key it was registered under and nobody else makes calls about *)
(* the listener meanwhile.  Cancelled registrations do no harm.            *)
THEOREM HandedOutStaysUnused ==
    ASSUME OneCaller, InTime
    PROVE  Spec => []HandedOutIsUnused
  <1>1. TypeInv /\ HeldForCall /\ Reach /\ Owned /\ Waiting /\ [Next]_vars =>
           TypeInv' /\ HeldForCall' /\ Reach' /\ Owned' /\ Waiting'
    BY TypeStep, HeldStep, ReachStep, OwnedStep
  <1>2. TypeInv /\ HeldForCall /\ Owned /\ Waiting => HandedOutIsUnused
    <2> SUFFICES ASSUME TypeInv, HeldForCall, Owned, Waiting, NEW p \in Callers, NEW t \in Transports,
                        pc[p] = "send", call[p].op = "register"
                 PROVE  (\A k \in Keys : handlerTable[t][k] # call[p].id) /\ ~Registers(t, call[p].id)
      BY DEF HandedOutIsUnused
    <2>1. PICK s \in Transports, d \in Configs : s = call[p].transport /\ d = call[p].config
      BY DEF TypeInv, CallOK, Calls
    <2>2. PICK i \in Ids : i = call[p].id /\ holder[i] = <<s, d>>
      BY <2>1 DEF TypeInv, CallOK, HeldForCall
    <2>3. Unheard(s, d)
      BY <2>1 DEF Waiting, Aside, Calling
    <2>4. ASSUME NEW k \in Keys, handlerTable[t][k] = i
          PROVE  FALSE
      <3>1. PICK c \in Configs : holder[i] = <<t, c>>
        BY <2>2, <2>4, Assumptions DEF Owned, TableOwned
      <3> QED
        BY <2>2, <2>3, <2>4, <3>1, Assumptions DEF Unheard
    <2>5. ASSUME Registers(t, i)
          PROVE  FALSE
      <3>1. PICK n \in DOMAIN queue[t] : queue[t][n].op = "register" /\ queue[t][n].id = i
        BY <2>5 DEF Registers, Queued
      <3>2. PICK c \in Configs : c = queue[t][n].config
        <4>1. queue[t][n] \in Commands
          BY <3>1 DEF TypeInv, QueueOK
        <4> QED
          BY <4>1 DEF Commands
      <3>3. holder[i] = <<t, c>>
        BY <3>1, <3>2 DEF Owned, QueueOwned
      <3> QED
        BY <2>2, <2>3, <3>1, <3>2, <3>3 DEF Unheard
    <2> QED
      BY <2>2, <2>4, <2>5
  <1> QED
    BY <1>1, <1>2, InitTypeInv, InitHeld, InitReach, InitOwned, PTL DEF Spec

-----------------------------------------------------------------------------
(* ListenerLifecycle implements ListenerService.  What the refinement needs*)
(* to know besides: no registration holds two functions, ...               *)
OwnKeys == \A c, d \in Configs : RegisterKey[c] = RegisterKey[d] => c = d

OneFunction == \A i, j \in Ids : holder[i] = holder[j] /\ holder[i] # None => i = j
IdleCalls == \A p \in Callers : pc[p] = "idle" => call[p] = None

(* ... and whoever has sent an unregistration waits for it.                *)
Awaiting ==
    \A t \in Transports : \A n \in DOMAIN queue[t] :
        queue[t][n].op = "unregister" => queue[t][n].from \in Callers

Orderly == OneFunction /\ IdleCalls /\ Awaiting /\ overridden = {}

LEMMA InitOrderly == Init => Orderly
  <1> SUFFICES ASSUME Init PROVE Orderly
    OBVIOUS
  <1>1. \A t \in Transports : DOMAIN queue[t] = {}
    BY DEF Init
  <1> QED
    BY <1>1 DEF Init, Orderly, OneFunction, IdleCalls, Awaiting

LEMMA OneFunctionStep ==
    ASSUME TypeInv, OneFunction, [Next]_vars
    PROVE  OneFunction'
  <1> USE Assumptions
  <1>1. ASSUME NEW p \in Callers, NEW i \in Ids, Takes(p, i)
        PROVE  OneFunction'
    <2>1. PICK r : r = <<call[p].transport, call[p].config>>
      OBVIOUS
    <2>2. \A j \in Ids : holder'[j] = IF j = i THEN r ELSE holder[j]
      BY <1>1, <2>1, Taken
    <2>3. \A j \in Ids : holder[j] # r
      BY <1>1, <2>1 DEF Takes, HeldBy
    <2> QED
      BY <2>2, <2>3 DEF OneFunction
  <1>2. ASSUME NEW p \in Callers, ReleaseMessageHandler(p)
        PROVE  OneFunction'
    BY <1>2 DEF ReleaseMessageHandler, OneFunction
  <1>3. CASE UNCHANGED holder
    BY <1>3 DEF OneFunction
  <1>4. ASSUME NEW p \in Callers, GetMessageHandler(p)
        PROVE  OneFunction'
    BY <1>1, <1>3, <1>4, TakesOrFails
  <1> QED
    BY <1>2, <1>3, <1>4 DEF Next, CallerStep, EngineStep, CallRegister, CallUnregister, SendToEngine,
       AwaitEngine, AwaitTimeout, CancelRegister, RegisterListenerInternal, UnregisterListenerInternal, vars

LEMMA IdleCallsStep ==
    ASSUME TypeInv, IdleCalls, [Next]_vars
    PROVE  IdleCalls'
  <1>1. ASSUME NEW p \in Callers, Others(p),
               CallRegister(p) \/ CallUnregister(p) \/ CallerStep(p) \/ AwaitTimeout(p) \/ CancelRegister(p)
        PROVE  IdleCalls'
    <2>1. Done(p) => call'[p] = None
      BY DEF Done, TypeInv, TypeOK
    <2>2. pc'[p] = "idle" => Done(p)
      <3>1. ASSUME GetMessageHandler(p), pc'[p] = "idle" PROVE Done(p)
        <4>1. \A i \in Ids : ~Takes(p, i)
          BY <3>1, Taken
        <4> QED
          BY <3>1, <4>1, TakesOrFails
      <3>2. AwaitEngine(p) \/ AwaitTimeout(p) => Done(p) \/ pc'[p] = "release"
        BY DEF AwaitEngine, AwaitTimeout, Awaited, Goto, TypeInv, TypeOK
      <3> QED
        BY <1>1, <3>1, <3>2, CallerGoes DEF CallerStep, CancelRegister, ReleaseMessageHandler
    <2> QED
      BY <1>1, <2>1, <2>2 DEF IdleCalls, Others
  <1>2. CASE UNCHANGED <<pc, call>>
    BY <1>2 DEF IdleCalls
  <1> QED
    BY <1>1, <1>2, OneCallerSteps DEF Next, EngineStep, RegisterListenerInternal,
       UnregisterListenerInternal, vars

LEMMA AwaitingStep ==
    ASSUME InTime, TypeInv, Reach, Awaiting, [Next]_vars
    PROVE  Awaiting'
  <1>1. ASSUME NEW p \in Callers, SendToEngine(p)
        PROVE  Awaiting'
    <2>1. PICK s \in Transports : s = call[p].transport
      BY <1>1, Sent
    <2>2. PICK e \in DOMAIN queue'[s] :
             /\ queue'[s][e] = Command(p)
             /\ \A n \in DOMAIN queue'[s] : n # e => n \in DOMAIN queue[s] /\ queue'[s][n] = queue[s][n]
             /\ \A u \in Transports : u # s => queue'[u] = queue[u]
      BY <1>1, <2>1, Sent
    <2>3. queue'[s][e].from \in Callers
      BY <2>2 DEF Command
    <2> QED
      BY <2>2, <2>3 DEF Awaiting
  <1>2. ASSUME NEW p \in Callers, CancelRegister(p)
        PROVE  Awaiting'
    <2>1. call[p].op = "register" /\ DropReceiver(p)
      BY <1>2 DEF CancelRegister
    <2>2. \A t \in Transports :
             /\ DOMAIN queue'[t] = DOMAIN queue[t]
             /\ \A n \in DOMAIN queue[t] :
                   /\ queue'[t][n].from = IF queue[t][n].from = p THEN None ELSE queue[t][n].from
                   /\ queue'[t][n].op = queue[t][n].op
      BY <2>1, Dropped
    <2>3. \A t \in Transports : \A n \in DOMAIN queue[t] :
             queue[t][n].op = "unregister" => queue[t][n].from # p
      BY <2>1 DEF Reach, Answerable
    <2> QED
      BY <2>2, <2>3 DEF Awaiting
  <1>3. ASSUME NEW s \in Transports, EngineStep(s)
        PROVE  Awaiting'
    <2>1. queue[s] # <<>> /\ queue' = [queue EXCEPT ![s] = Tail(@)]
      BY <1>3 DEF EngineStep, RegisterListenerInternal, UnregisterListenerInternal
    <2>2. /\ \A n \in DOMAIN queue'[s] : n + 1 \in DOMAIN queue[s] /\ queue'[s][n] = queue[s][n + 1]
          /\ \A u \in Transports : u # s => queue'[u] = queue[u]
      BY <2>1, Executed
    <2> QED
      BY <2>2 DEF Awaiting
  <1>4. CASE queue' = queue
    BY <1>4 DEF Awaiting
  <1> QED
    BY <1>1, <1>2, <1>3, <1>4 DEF Next, CallerStep, CallRegister, CallUnregister, GetMessageHandler,
       AwaitEngine, AwaitTimeout, ReleaseMessageHandler, InTime, vars

LEMMA OrderlyStep ==
    ASSUME InTime, OwnKeys, TypeInv, Reach, Orderly, [Next]_vars
    PROVE  Orderly'
  <1>1. ASSUME NEW s \in Transports, EngineStep(s)
        PROVE  overridden' = {}
    <2>1. Head(queue[s]).config \in Configs
      BY <1>1, Executed DEF EngineStep, RegisterListenerInternal, UnregisterListenerInternal, Commands
    <2>2. \A d \in Configs : Sharing(s, d, RegisterKey[d]) = {} /\ UnregisterKey[d] = RegisterKey[d]
      BY DEF Sharing, OwnKeys, InTime
    <2> QED
      BY <1>1, <2>1, <2>2 DEF EngineStep, RegisterListenerInternal, UnregisterListenerInternal, Orderly
  <1>2. overridden' = {}
    BY <1>1 DEF Next, CallerStep, CallRegister, CallUnregister, GetMessageHandler, SendToEngine,
       AwaitEngine, AwaitTimeout, CancelRegister, ReleaseMessageHandler, vars, Orderly
  <1> QED
    BY <1>2, OneFunctionStep, IdleCallsStep, AwaitingStep DEF Orderly

(* Claimed and heard, registration by registration.                        *)
LEMMA NoneIsNoCall == None \notin Calls /\ IsFiniteSet(Ids)
  BY LifecycleAssumption, NoneAssumption DEF LifecycleAssumption

LEMMA ClaimedIs ==
    ASSUME TypeInv, NEW r \in Transports \X Configs
    PROVE  r \in Claimed <=> \E i \in Ids : holder[i] = r
  BY Assumptions DEF Claimed

LEMMA HeardIs ==
    ASSUME NEW t \in Transports, NEW c \in Configs
    PROVE  <<t, c>> \in Heard <=> \E i \in Ids : holder[i] = <<t, c>> /\ handlerTable[t][RegisterKey[c]] = i
  BY DEF Heard, HeldBy

LEMMA Subsets ==
    ASSUME TypeInv
    PROVE  Claimed \subseteq Transports \X Configs /\ Heard \subseteq Transports \X Configs
  BY DEF Claimed, Heard, TypeInv, TypeOK

LEMMA HeardUnchanged ==
    UNCHANGED <<holder, handlerTable>> => UNCHANGED <<Claimed, Heard>>
  BY DEF Claimed, Heard, HeldBy

LEMMA InCallIs ==
    ASSUME TypeInv, NEW p \in Callers, pc[p] # "idle"
    PROVE  /\ InCall[p] = <<call[p].op, <<call[p].transport, call[p].config>>>>
           /\ <<call[p].transport, call[p].config>> \in Transports \X Configs
           /\ call[p].op \in {"register", "unregister"}
  <1>1. call[p] \in Calls /\ call[p] # None
    BY NoneIsNoCall DEF TypeInv, CallOK
  <1> QED
    BY <1>1 DEF InCall, Calls

LEMMA InCallStays ==
    ASSUME NEW p \in Callers, Others(p),
           call'[p] = None <=> call[p] = None,
           call[p] # None => /\ call'[p].op = call[p].op
                             /\ call'[p].transport = call[p].transport /\ call'[p].config = call[p].config
    PROVE  UNCHANGED InCall
  <1>1. \A q \in Callers : InCall'[q] = InCall[q]
    BY DEF InCall, Others
  <1>2. InCall = [q \in Callers |-> InCall[q]] /\ InCall' = [q \in Callers |-> InCall'[q]]
    BY DEF InCall
  <1> QED
    BY <1>1, <1>2

LEMMA InCallSet ==
    ASSUME NEW p \in Callers, Others(p), NEW v, InCall'[p] = v
    PROVE  InCall' = [InCall EXCEPT ![p] = v]
  <1>1. \A q \in Callers : InCall'[q] = IF q = p THEN v ELSE InCall[q]
    BY DEF InCall, Others
  <1>2. InCall = [q \in Callers |-> InCall[q]] /\ InCall' = [q \in Callers |-> InCall'[q]]
    BY DEF InCall
  <1> QED
    BY <1>1, <1>2

(* As many registrations are claimed as functions are held.                *)
LEMMA ClaimedCardinality ==
    ASSUME TypeInv, OneFunction
    PROVE  /\ Cardinality(Claimed) \in Nat /\ Cardinality(Ids) \in Nat
           /\ Cardinality(Claimed) <= Cardinality(Ids)
           /\ Cardinality(Claimed) = Cardinality(Ids) <=> Unheld = {}
  <1> DEFINE held == {i \in Ids : holder[i] # None}
             f == [i \in held |-> holder[i]]
  <1>1. f \in Bijection(held, Claimed)
    <2>1. f \in [held -> Claimed] /\ \A i \in held : f[i] = holder[i]
      BY DEF Claimed
    <2>2. \A i, j \in held : f[i] = f[j] => i = j
      BY <2>1 DEF OneFunction
    <2>3. \A r \in Claimed : \E i \in held : f[i] = r
      BY <2>1 DEF Claimed
    <2> QED
      BY <2>1, <2>2, <2>3 DEF Bijection, Injection, Surjection, IsInjective
  <1>2. IsFiniteSet(Ids) /\ held \in SUBSET Ids
    BY NoneIsNoCall
  <1> HIDE DEF f
  <1>3. IsFiniteSet(held) /\ Cardinality(held) <= Cardinality(Ids)
        /\ (Cardinality(Ids) = Cardinality(held) => Ids = held)
    BY <1>2, FS_Subset
  <1>4. Cardinality(Claimed) = Cardinality(held)
    BY <1>1, <1>3, FS_Bijection DEF ExistsBijection
  <1>5. Cardinality(held) \in Nat /\ Cardinality(Ids) \in Nat
    BY <1>2, <1>3, FS_CardinalityType
  <1>6. Ids = held <=> Unheld = {}
    BY DEF Unheld
  <1> QED
    BY <1>3, <1>4, <1>5, <1>6

LEMMA SameCardinality == \A S : Service!Cardinality(S) = Cardinality(S)
  BY Zenon DEF Cardinality, Service!Cardinality

LEMMA InitImplements == Init => Service!Init
  <1> SUFFICES ASSUME Init PROVE Service!Init
    OBVIOUS
  <1>1. Claimed = {}
    BY DEF Init, Claimed
  <1>2. Heard = {}
    BY Assumptions DEF Init, Heard, HeldBy
  <1>3. InCall = [p \in Callers |-> None]
    BY DEF Init, InCall
  <1> QED
    BY <1>1, <1>2, <1>3 DEF Service!Init

(* Each step of a caller is one of ListenerService's, or not seen.         *)
LEMMA CallImplements ==
    ASSUME TypeInv, Orderly, NEW p \in Callers, Others(p), CallRegister(p) \/ CallUnregister(p)
    PROVE  \E r \in Transports \X Configs, op \in {"register", "unregister"} : Service!Call(p, op, r)
  <1>1. PICK op \in {"register", "unregister"}, t \in Transports, c \in CallsFor(p) :
           /\ call' = [call EXCEPT ![p] = [op |-> op, transport |-> t, config |-> c, id |-> None]]
           /\ pc[p] = "idle" /\ UNCHANGED <<holder, handlerTable>>
    BY DEF CallRegister, CallUnregister
  <1>2. PICK r \in Transports \X Configs : r = <<t, c>>
    BY Assumptions
  <1>3. PICK new \in Calls : new = [op |-> op, transport |-> t, config |-> c, id |-> None]
    BY Assumptions DEF Calls
  <1>4. call'[p] = new /\ new # None
    BY <1>1, <1>3, NoneIsNoCall DEF TypeInv, TypeOK
  <1>5. InCall'[p] = <<op, r>>
    BY <1>2, <1>3, <1>4 DEF InCall
  <1>6. InCall[p] = None
    BY <1>1 DEF InCall, Orderly, IdleCalls
  <1>7. Service!Call(p, op, r)
    BY <1>1, <1>5, <1>6, HeardUnchanged, InCallSet DEF Service!Call
  <1> QED
    BY <1>7

LEMMA TakingImplements ==
    ASSUME TypeInv, Owned, Orderly, NEW p \in Callers, NEW i \in Ids, Takes(p, i), Others(p)
    PROVE  \E r \in Transports \X Configs : Service!Claim(p, r)
  <1> USE Assumptions
  <1>1. PICK r \in Transports \X Configs : r = <<call[p].transport, call[p].config>>
    BY Taken
  <1>2. /\ pc[p] = "getHandler" /\ holder[i] = None /\ HeldBy(call[p].transport, call[p].config) = {}
        /\ UNCHANGED handlerTable
    BY DEF Takes
  <1>3. \A j \in Ids : holder'[j] = IF j = i THEN r ELSE holder[j]
    BY <1>1, Taken
  <1>4. InCall[p] = <<"register", r>>
    BY <1>1, <1>2, Taken, InCallIs
  <1>5. r \notin Claimed
    BY <1>1, <1>2, ClaimedIs DEF HeldBy
  <1>6. Claimed' = Claimed \cup {r}
    BY <1>2, <1>3 DEF Claimed
  <1>7. Cardinality(Claimed) < Cardinality(Ids)
    <2>1. Unheld # {}
      BY <1>2 DEF Unheld
    <2> QED
      BY <2>1, ClaimedCardinality DEF Orderly
  <1>8. Heard' = Heard
    <2>1. ASSUME NEW t \in Transports, NEW c \in Configs
          PROVE  <<t, c>> \in Heard' <=> <<t, c>> \in Heard
      <3>1. <<t, c>> \in Heard' <=>
                \E j \in Ids : holder'[j] = <<t, c>> /\ handlerTable'[t][RegisterKey[c]] = j
        BY DEF Heard, HeldBy
      <3>2. <<t, c>> # None /\ i # None
        BY <<t, c>> \in Transports \X Configs
      <3>3. handlerTable[t][RegisterKey[c]] # i
        <4>1. \A d \in Configs : <<t, d>> \in Transports \X Configs
          OBVIOUS
        <4>2. \A d \in Configs : holder[i] # <<t, d>>
          BY <1>2, <4>1
        <4>3. RegisterKey[c] \in Keys
          BY KindsAndKeys
        <4> QED
          BY <3>2, <4>2, <4>3 DEF Owned, TableOwned
      <3>4. ASSUME NEW j \in Ids
            PROVE  (holder'[j] = <<t, c>> /\ handlerTable'[t][RegisterKey[c]] = j)
                      <=> (holder[j] = <<t, c>> /\ handlerTable[t][RegisterKey[c]] = j)
        BY <1>2, <1>3, <3>2, <3>3
      <3>5. <<t, c>> \in Heard <=> \E j \in Ids : holder[j] = <<t, c>> /\ handlerTable[t][RegisterKey[c]] = j
        BY HeardIs
      <3> QED
        BY <3>1, <3>4, <3>5, Zenon
    <2>2. Heard' \subseteq Transports \X Configs /\ Heard \subseteq Transports \X Configs
      BY DEF Heard
    <2> QED
      BY <2>1, <2>2
  <1>9. UNCHANGED InCall
    <2>1. call[p] # None /\ call'[p] # None
      <3>1. call[p] \in Calls /\ call'[p] = [call[p] EXCEPT !.id = i]
        BY <1>2 DEF Takes, TypeInv, TypeOK, CallOK
      <3>2. [call[p] EXCEPT !.id = i] \in Calls
        BY <3>1 DEF Calls
      <3> QED
        BY <3>1, <3>2, NoneIsNoCall
    <2>2. /\ call'[p].op = call[p].op /\ call'[p].transport = call[p].transport
          /\ call'[p].config = call[p].config
      BY Taken
    <2> QED
      BY <2>1, <2>2, InCallStays
  <1>10. Service!Claim(p, r)
    BY <1>4, <1>5, <1>6, <1>7, <1>8, <1>9, SameCardinality DEF Service!Claim
  <1> QED
    BY <1>10

LEMMA ReturnIs ==
    ASSUME TypeInv, NEW p \in Callers, Others(p), Done(p)
    PROVE  Service!Return(p)
  <1>1. call'[p] = None
    BY DEF Done, TypeInv, TypeOK
  <1>2. InCall'[p] = None
    BY <1>1 DEF InCall
  <1> QED
    BY <1>2, InCallSet DEF Service!Return

LEMMA FailingImplements ==
    ASSUME TypeInv, Orderly, NEW p \in Callers, Others(p), GetMessageHandler(p), ~\E i \in Ids : Takes(p, i)
    PROVE  \E r \in Transports \X Configs : Service!Refuse(p, r)
  <1>1. PICK r \in Transports \X Configs : r = <<call[p].transport, call[p].config>>
    BY InCallIs DEF GetMessageHandler
  <1>2. /\ pc[p] = "getHandler" /\ Done(p) /\ UNCHANGED <<holder, handlerTable>>
        /\ HeldBy(call[p].transport, call[p].config) # {} \/ Unheld = {}
    BY DEF GetMessageHandler, Takes, Unheld, Goto
  <1>3. InCall[p] = <<"register", r>>
    BY <1>1, <1>2, InCallIs DEF TypeInv, CallOK
  <1>4. r \in Claimed \/ Cardinality(Claimed) = Cardinality(Ids)
    <2>1. HeldBy(call[p].transport, call[p].config) # {} => r \in Claimed
      BY <1>1, ClaimedIs DEF HeldBy
    <2>2. Unheld = {} => Cardinality(Claimed) = Cardinality(Ids)
      BY ClaimedCardinality DEF Orderly
    <2> QED
      BY <1>2, <2>1, <2>2
  <1>5. Service!Refuse(p, r)
    <2>1. UNCHANGED <<Claimed, Heard>>
      BY <1>2, HeardUnchanged
    <2>2. Service!Return(p)
      BY <1>2, ReturnIs
    <2> QED
      BY <1>3, <1>4, <2>1, <2>2, SameCardinality DEF Service!Refuse
  <1> QED
    BY <1>5

LEMMA AwaitingImplements ==
    ASSUME TypeInv, Reach, Orderly, NEW p \in Callers, Others(p), AwaitEngine(p)
    PROVE  (\E r \in Transports \X Configs : Service!Succeed(p, r)) \/ UNCHANGED Service!vars
  <1>1. pc[p] = "await" /\ reply[p] # None /\ Awaited(p, TRUE) /\ UNCHANGED <<holder, handlerTable>>
    BY DEF AwaitEngine
  <1>2. PICK t \in Transports, c \in Configs : Calling(p, t, c) /\ <<t, c>> \in Transports \X Configs
    BY <1>1 DEF TypeInv, CallOK, Calls, Calling
  <1>3. CASE call[p].op = "unregister"
    <2>1. UNCHANGED call
      BY <1>1, <1>3 DEF Awaited
    <2>2. UNCHANGED InCall
      BY <2>1 DEF InCall
    <2> QED
      BY <1>1, <2>2, HeardUnchanged DEF Service!vars
  <1>4. CASE call[p].op = "register"
    <2>1. PICK i \in Ids : Registering(p, t, c, i)
      BY <1>1, <1>2, <1>4 DEF TypeInv, CallOK, Registering
    <2>2. Reached(t, c, i)
      BY <1>1, <2>1 DEF Reach, Answered
    <2>3. <<t, c>> \in Heard
      BY <2>2, HeardIs DEF Reached, Orderly
    <2>4. InCall[p] = <<"register", <<t, c>>>>
      BY <1>1, <1>2, <1>4, InCallIs DEF Calling
    <2>5. Done(p)
      BY <1>1, <1>4 DEF Awaited
    <2>6. Service!Succeed(p, <<t, c>>)
      BY <1>1, <2>3, <2>4, <2>5, ReturnIs, HeardUnchanged DEF Service!Succeed
    <2> QED
      BY <1>2, <2>6
  <1> QED
    BY <1>1, <1>3, <1>4, InCallIs

LEMMA CancellingImplements ==
    ASSUME TypeInv, HeldForCall, NEW p \in Callers, Others(p), CancelRegister(p)
    PROVE  \E r \in Transports \X Configs : Service!Abandon(p, r)
  <1>1. /\ pc[p] \in {"send", "await"} /\ call[p].op = "register" /\ Done(p)
        /\ UNCHANGED <<holder, handlerTable>>
    BY DEF CancelRegister
  <1>2. PICK r \in Transports \X Configs : r = <<call[p].transport, call[p].config>>
    BY <1>1, InCallIs
  <1>3. InCall[p] = <<"register", r>>
    BY <1>1, <1>2, InCallIs
  <1>4. r \in Claimed
    BY <1>1, <1>2, ClaimedIs DEF HeldForCall, TypeInv, CallOK
  <1>5. Service!Abandon(p, r)
    BY <1>1, <1>3, <1>4, ReturnIs, HeardUnchanged DEF Service!Abandon
  <1> QED
    BY <1>5

LEMMA ReleasingImplements ==
    ASSUME TypeInv, Waiting, NEW p \in Callers, Others(p), ReleaseMessageHandler(p)
    PROVE  \E r \in Transports \X Configs : Service!GiveUp(p, r)
  <1> USE Assumptions
  <1>1. PICK s \in Transports, d \in Configs : Calling(p, s, d)
    BY DEF ReleaseMessageHandler, TypeInv, CallOK, Calls, Calling
  <1>2. pc[p] = "release" /\ Done(p) /\ UNCHANGED handlerTable
    BY DEF ReleaseMessageHandler
  <1>3. \A j \in Ids : holder'[j] = IF holder[j] = <<s, d>> THEN None ELSE holder[j]
    BY <1>1 DEF ReleaseMessageHandler, HeldBy, Calling
  <1>4. <<s, d>> \in Transports \X Configs
    OBVIOUS
  <1>5. InCall[p] = <<"unregister", <<s, d>>>>
    BY <1>1, <1>2, InCallIs DEF TypeInv, CallOK, Calling
  <1>6. <<s, d>> \notin Heard
    <2>1. Unheard(s, d)
      BY <1>1, <1>2 DEF Waiting, Aside
    <2>2. <<s, d>> \in Heard <=> \E j \in Ids : holder[j] = <<s, d>> /\ handlerTable[s][RegisterKey[d]] = j
      BY HeardIs
    <2>3. RegisterKey[d] \in Keys
      BY KindsAndKeys
    <2> QED
      BY <2>1, <2>2, <2>3 DEF Unheard
  <1>7. Claimed' = Claimed \ {<<s, d>>}
    BY <1>3 DEF Claimed
  <1>8. Heard' = Heard
    <2>1. ASSUME NEW t \in Transports, NEW c \in Configs
          PROVE  <<t, c>> \in Heard' <=> <<t, c>> \in Heard
      <3>1. <<t, c>> \in Heard' <=>
                \E j \in Ids : holder'[j] = <<t, c>> /\ handlerTable'[t][RegisterKey[c]] = j
        BY DEF Heard, HeldBy
      <3>2. <<t, c>> # None
        BY <<t, c>> \in Transports \X Configs
      <3>3. CASE <<t, c>> = <<s, d>>
        BY <1>3, <1>6, <3>1, <3>2, <3>3
      <3>4. CASE <<t, c>> # <<s, d>>
        <4>1. <<t, c>> \in Heard <=> \E j \in Ids : holder[j] = <<t, c>> /\ handlerTable[t][RegisterKey[c]] = j
          BY HeardIs
        <4>2. \A j \in Ids : holder'[j] = <<t, c>> <=> holder[j] = <<t, c>>
          BY <1>3, <3>2, <3>4
        <4> QED
          BY <1>2, <3>1, <4>1, <4>2
      <3> QED
        BY <3>3, <3>4
    <2>2. Heard' \subseteq Transports \X Configs /\ Heard \subseteq Transports \X Configs
      BY DEF Heard
    <2> QED
      BY <2>1, <2>2
  <1>9. Service!GiveUp(p, <<s, d>>)
    BY <1>2, <1>5, <1>6, <1>7, <1>8, ReturnIs DEF Service!GiveUp
  <1> QED
    BY <1>4, <1>9

(* A registration that the engine executes is heard from then on, and an   *)
(* unregistration is executed while its caller waits for it.               *)
LEMMA EngineImplements ==
    ASSUME InTime, OwnKeys, TypeInv, Reach, Owned, Orderly, NEW s \in Transports, EngineStep(s)
    PROVE  \E r \in Transports \X Configs :
              Service!Hear(r) \/ \E p \in Callers : Service!StopHearing(p, r)
  <1> USE Assumptions
  <1>1. PICK command : command = Head(queue[s])
    OBVIOUS
  <1>2. queue[s] # <<>> /\ queue' = [queue EXCEPT ![s] = Tail(@)] /\ UNCHANGED <<holder, call>>
    BY <1>1 DEF EngineStep, RegisterListenerInternal, UnregisterListenerInternal
  <1>3. 1 \in DOMAIN queue[s] /\ command = queue[s][1] /\ command \in Commands
    BY <1>1, <1>2, Executed
  <1>4. PICK d \in Configs : d = command.config /\ <<s, d>> \in Transports \X Configs
    BY <1>3 DEF Commands
  <1>5. PICK key \in Keys : key = RegisterKey[d] /\ key = UnregisterKey[d]
    BY KindsAndKeys DEF InTime
  <1>6. PICK new \in Ids \cup {None} :
           /\ new = IF command.op = "register" THEN command.id ELSE None
           /\ handlerTable' = [handlerTable EXCEPT ![s][key] = new]
    <2>1. command.op = "register" => command.id \in Ids
      BY <1>3 DEF TypeInv, QueueOK
    <2> QED
      BY <1>1, <1>4, <1>5, <2>1 DEF EngineStep, RegisterListenerInternal, UnregisterListenerInternal
  <1>7. \A t \in Transports, k \in Keys :
           handlerTable'[t][k] = IF t = s /\ k = key THEN new ELSE handlerTable[t][k]
    BY <1>6, TableUpdate DEF TypeInv, TypeOK
  <1>8. UNCHANGED <<Claimed, InCall>>
    BY <1>2 DEF Claimed, InCall
  <1>9. ASSUME NEW t \in Transports, NEW c \in Configs
        PROVE  <<t, c>> \in Heard' <=>
                   \E j \in Ids : holder[j] = <<t, c>> /\ handlerTable'[t][RegisterKey[c]] = j
    BY <1>2 DEF Heard, HeldBy
  <1>10. ASSUME NEW t \in Transports, NEW c \in Configs, <<t, c>> # <<s, d>>
         PROVE  <<t, c>> \in Heard' <=> <<t, c>> \in Heard
    <2>1. ~(t = s /\ RegisterKey[c] = key) /\ RegisterKey[c] \in Keys
      BY <1>5, <1>10, KindsAndKeys DEF OwnKeys
    <2>2. handlerTable'[t][RegisterKey[c]] = handlerTable[t][RegisterKey[c]]
      BY <1>7, <2>1
    <2>3. <<t, c>> \in Heard <=> \E j \in Ids : holder[j] = <<t, c>> /\ handlerTable[t][RegisterKey[c]] = j
      BY HeardIs
    <2>4. <<t, c>> \in Heard' <=> \E j \in Ids : holder[j] = <<t, c>> /\ handlerTable'[t][RegisterKey[c]] = j
      BY <1>9
    <2> QED
      BY <2>2, <2>3, <2>4
  <1>11. Heard' \subseteq Transports \X Configs /\ Heard \subseteq Transports \X Configs
    BY DEF Heard
  <1>12. CASE command.op = "register"
    <2>1. command.id \in Ids /\ holder[command.id] = <<s, d>>
      BY <1>3, <1>4, <1>12 DEF TypeInv, QueueOK, Owned, QueueOwned
    <2>2. <<s, d>> \in Claimed
      BY <1>4, <2>1, ClaimedIs
    <2>3. <<s, d>> \in Heard'
      <3>1. handlerTable'[s][RegisterKey[d]] = command.id
        BY <1>5, <1>6, <1>7, <1>12
      <3> QED
        BY <1>4, <1>9, <2>1, <3>1
    <2>4. Heard' = Heard \cup {<<s, d>>}
      BY <1>4, <1>10, <1>11, <2>3
    <2>5. Service!Hear(<<s, d>>)
      BY <1>8, <2>2, <2>4 DEF Service!Hear
    <2> QED
      BY <1>4, <2>5
  <1>13. CASE command.op = "unregister"
    <2>1. PICK p \in Callers : p = command.from
      BY <1>3, <1>13 DEF Orderly, Awaiting
    <2>2. pc[p] = "await" /\ call[p].op = "unregister" /\ call[p].transport = s /\ call[p].config = d
      BY <1>3, <1>4, <1>13, <2>1 DEF Reach, Answerable
    <2>3. InCall[p] = <<"unregister", <<s, d>>>>
      BY <2>2, InCallIs
    <2>4. <<s, d>> \notin Heard'
      <3>1. handlerTable'[s][RegisterKey[d]] = None
        BY <1>5, <1>6, <1>7, <1>13
      <3> QED
        BY <1>4, <1>9, <3>1
    <2>5. Heard' = Heard \ {<<s, d>>}
      BY <1>4, <1>10, <1>11, <2>4
    <2>6. Service!StopHearing(p, <<s, d>>)
      BY <1>8, <2>3, <2>5 DEF Service!StopHearing
    <2> QED
      BY <1>4, <2>6
  <1> QED
    BY <1>3, <1>12, <1>13 DEF Commands

LEMMA StepImplements ==
    ASSUME OneCaller, InTime, OwnKeys, TypeInv, HeldForCall, Reach, Owned, Waiting, Orderly, [Next]_vars
    PROVE  [Service!Next]_Service!vars
  <1>1. ASSUME NEW p \in Callers,
               CallRegister(p) \/ CallUnregister(p) \/ CallerStep(p) \/ AwaitTimeout(p) \/ CancelRegister(p)
        PROVE  Service!Next \/ UNCHANGED Service!vars
    <2>1. Others(p) /\ ~AwaitTimeout(p)
      BY <1>1, OneCallerSteps DEF AwaitTimeout, InTime
    <2>2. CASE CallRegister(p) \/ CallUnregister(p)
      BY <2>1, <2>2, CallImplements DEF Service!Next
    <2>3. CASE GetMessageHandler(p)
      <3>1. CASE \E i \in Ids : Takes(p, i)
        BY <2>1, <3>1, TakingImplements DEF Service!Next
      <3>2. CASE ~\E i \in Ids : Takes(p, i)
        BY <2>1, <2>3, <3>2, FailingImplements DEF Service!Next
      <3> QED
        BY <3>1, <3>2
    <2>4. CASE SendToEngine(p)
      <3>1. UNCHANGED <<holder, handlerTable, call>>
        BY <2>4 DEF SendToEngine
      <3>2. UNCHANGED InCall
        BY <3>1 DEF InCall
      <3> QED
        BY <3>1, <3>2, HeardUnchanged DEF Service!vars
    <2>5. CASE AwaitEngine(p)
      BY <2>1, <2>5, AwaitingImplements DEF Service!Next
    <2>6. CASE CancelRegister(p)
      BY <2>1, <2>6, CancellingImplements DEF Service!Next
    <2>7. CASE ReleaseMessageHandler(p)
      BY <2>1, <2>7, ReleasingImplements DEF Service!Next
    <2> QED
      BY <1>1, <2>1, <2>2, <2>3, <2>4, <2>5, <2>6, <2>7 DEF CallerStep
  <1>2. ASSUME NEW s \in Transports, EngineStep(s)
        PROVE  Service!Next
    BY <1>2, EngineImplements DEF Service!Next
  <1>3. CASE UNCHANGED vars
    <2>1. UNCHANGED <<holder, handlerTable, call>>
      BY <1>3 DEF vars
    <2>2. UNCHANGED InCall
      BY <2>1 DEF InCall
    <2> QED
      BY <2>1, <2>2, HeardUnchanged DEF Service!vars
  <1> QED
    BY <1>1, <1>2, <1>3 DEF Next

(* Registering and unregistering do what ListenerService says, to every    *)
(* caller: a listener is heard from one instant of its registration until  *)
(* one instant of its unregistration, no matter what other callers do and  *)
(* which functions are recycled, if answers come in time, keys are erased  *)
(* and not shared, and one caller at a time deals with a listener.         *)
THEOREM Implementation ==
    ASSUME OneCaller, InTime, OwnKeys
    PROVE  Spec => ImplementsService
  <1> DEFINE All == TypeInv /\ HeldForCall /\ Reach /\ Owned /\ Waiting /\ Orderly
  <1>1. Init => All /\ Service!Init
    BY InitTypeInv, InitHeld, InitReach, InitOwned, InitOrderly, InitImplements
  <1>2. All /\ [Next]_vars => All'
    BY TypeStep, HeldStep, ReachStep, OwnedStep, OrderlyStep
  <1>3. All /\ [Next]_vars => [Service!Next]_Service!vars
    BY StepImplements
  <1> HIDE DEF All
  <1> QED
    BY <1>1, <1>2, <1>3, PTL DEF Spec, ImplementsService, Service!Spec
=============================================================================
