---------------------- MODULE TransportShutdownProofs ----------------------
(***************************************************************************)
(* Proofs about TransportShutdown, for every number of extern functions,   *)
(* transports, listeners and messages, and whether or not answers are late.*)
(*                                                                         *)
(* The inductive invariant Inv has five parts:                             *)
(*   TypeInv   the types, the stages a callback goes through, and that a   *)
(*             listener that executes a Drop stays at it until it is over; *)
(*   Tracking  what Drop has still to release is in its list;              *)
(*   Tasks     a runtime that ended without force has no tasks;            *)
(*   Waits     the command that a call waits for is the last one in its    *)
(*             channel, and the only one that will be answered;            *)
(*   Serving   as long as nobody gave up waiting for an engine: a channel  *)
(*             holds the command of its transport's call and nothing else, *)
(*             and vsomeip's entries are the functions' holders.           *)
(***************************************************************************)
EXTENDS TransportShutdown, TLAPS

LEMMA Nothing ==
    /\ None \notin Ids /\ None \notin Configs /\ None \notin Transports /\ None \notin Messages
    /\ None \notin Transports \X Configs
    /\ "owner" \notin Messages /\ "owner" # None
  BY ShutdownAssumption

(* Setting one entry of a table of tables.                                 *)
LEMMA TableUpdate ==
    ASSUME NEW A, NEW B, NEW S, NEW f \in [A -> [B -> S]], NEW a \in A, NEW b \in B, NEW v \in S
    PROVE  /\ [f EXCEPT ![a][b] = v] \in [A -> [B -> S]]
           /\ \A x \in A, y \in B : [f EXCEPT ![a][b] = v][x][y] =
                                     IF x = a /\ y = b THEN v ELSE f[x][y]
  <1>1. [f EXCEPT ![a][b] = v] = [f EXCEPT ![a] = [f[a] EXCEPT ![b] = v]]
    OBVIOUS
  <1>2. f[a] \in [B -> S] /\ [f[a] EXCEPT ![b] = v] \in [B -> S]
    OBVIOUS
  <1>3. \A x \in A : [f EXCEPT ![a] = [f[a] EXCEPT ![b] = v]][x] =
                      IF x = a THEN [f[a] EXCEPT ![b] = v] ELSE f[x]
    OBVIOUS
  <1>4. \A y \in B : [f[a] EXCEPT ![b] = v][y] = IF y = b THEN v ELSE f[a][y]
    BY <1>2
  <1> QED
    BY <1>1, <1>2, <1>3, <1>4

-----------------------------------------------------------------------------
(* Types, one variable or group of variables at a time.                    *)
MessageRecords ==
    [stage : Stages, id : Ids \cup {None}, addressee : (Transports \X Configs) \cup {None},
     storage : Transports \cup {None}, listener : (Transports \X Configs) \cup {None},
     overtaken : BOOLEAN]

Steps == {"idle", "awaitRegister", "awaitUnregister", "drop", "awaitStop", "join", "dropped"}

QueueOK == queue \in [Transports -> Seq(Commands)] /\ \A t \in Transports : Len(queue[t]) <= MaxQueue

LEMMA InitTypeOK == Init => TypeOK
  <1> SUFFICES ASSUME Init
               PROVE  TypeOK
    OBVIOUS
  <1>1. QueueOK
    BY ShutdownAssumption DEF Init, QueueOK
  <1>2. Out \in MessageRecords
    BY DEF Out, MessageRecords, Stages
  <1> QED
    BY <1>1, <1>2 DEF Init, TypeOK, QueueOK, MessageRecords

LEMMA EnqueueType ==
    ASSUME QueueOK, NEW t \in Transports, NEW op, NEW c, NEW i, Enqueue(t, op, c, i),
           [op |-> op, config |-> c, id |-> i, awaited |-> TRUE] \in Commands
    PROVE  QueueOK'
  <1> DEFINE new == [op |-> op, config |-> c, id |-> i, awaited |-> TRUE]
  <1>1. Len(queue[t]) < MaxQueue /\ queue' = [queue EXCEPT ![t] = Append(queue[t], new)]
    BY DEF Enqueue
  <1>2. queue[t] \in Seq(Commands) /\ MaxQueue \in Nat
    BY ShutdownAssumption DEF QueueOK
  <1> HIDE DEF new
  <1>3. Append(queue[t], new) \in Seq(Commands) /\ Len(Append(queue[t], new)) = Len(queue[t]) + 1
    BY <1>2 DEF new
  <1>4. Len(Append(queue[t], new)) <= MaxQueue
    BY <1>1, <1>2, <1>3
  <1> QED
    BY <1>1, <1>3, <1>4 DEF QueueOK

LEMMA DropReceiverType ==
    ASSUME QueueOK, NEW t \in Transports, DropReceiver(t)
    PROVE  QueueOK'
  <1> DEFINE new == [n \in DOMAIN queue[t] |-> [queue[t][n] EXCEPT !.awaited = FALSE]]
  <1>1. queue[t] \in Seq(Commands) /\ queue' = [queue EXCEPT ![t] = new]
    BY DEF QueueOK, DropReceiver
  <1>2. \A n \in DOMAIN queue[t] : [queue[t][n] EXCEPT !.awaited = FALSE] \in Commands
    <2> SUFFICES ASSUME NEW command \in Commands
                 PROVE  [command EXCEPT !.awaited = FALSE] \in Commands
      BY <1>1
    <2> QED
      BY DEF Commands
  <1>3. DOMAIN queue[t] = 1 .. Len(queue[t]) /\ Len(queue[t]) \in Nat
    BY <1>1
  <1>4. new \in [1 .. Len(queue[t]) -> Commands]
    BY <1>2, <1>3
  <1> HIDE DEF new
  <1>5. new \in Seq(Commands) /\ Len(new) = Len(queue[t])
    BY <1>3, <1>4
  <1> QED
    BY <1>1, <1>5 DEF QueueOK

LEMMA AwaitEngineType ==
    ASSUME TypeOK, NEW t \in Transports, AwaitEngine(t)
    PROVE  QueueOK' /\ reply' \in [Transports -> BOOLEAN] /\ gaveUp' \in BOOLEAN
  <1>1. CASE reply[t] /\ reply' = [reply EXCEPT ![t] = FALSE] /\ UNCHANGED <<queue, gaveUp>>
    BY <1>1 DEF TypeOK, QueueOK
  <1>2. CASE DropReceiver(t) /\ gaveUp' = TRUE /\ UNCHANGED reply
    BY <1>2, DropReceiverType DEF TypeOK, QueueOK
  <1> QED
    BY <1>1, <1>2 DEF AwaitEngine

(* The fields of a message that steps set.                                 *)
LEMMA MessageUpdate ==
    /\ Out \in MessageRecords
    /\ \A x \in MessageRecords, stage \in Stages : [x EXCEPT !.stage = stage] \in MessageRecords
    /\ \A x \in MessageRecords : [x EXCEPT !.overtaken = TRUE] \in MessageRecords
    /\ \A stage \in Stages, i \in Ids, r \in Transports \X Configs :
          [Out EXCEPT !.stage = stage, !.id = i, !.addressee = r] \in MessageRecords
    /\ \A x \in MessageRecords, stage \in Stages, t \in Transports :
          [x EXCEPT !.stage = stage, !.storage = t] \in MessageRecords
    /\ \A x \in MessageRecords, stage \in Stages, r \in Transports \X Configs :
          [x EXCEPT !.stage = stage, !.listener = r] \in MessageRecords
    /\ \A x \in MessageRecords, stage \in Stages :
          [Out EXCEPT !.stage = stage, !.storage = x.storage] \in MessageRecords
  <1>1. Out \in MessageRecords
    BY DEF MessageRecords, Out, Stages
  <1>2. ASSUME NEW x \in MessageRecords, NEW stage \in Stages
        PROVE  /\ [x EXCEPT !.stage = stage] \in MessageRecords
               /\ \A t \in Transports : [x EXCEPT !.stage = stage, !.storage = t] \in MessageRecords
               /\ \A r \in Transports \X Configs :
                     [x EXCEPT !.stage = stage, !.listener = r] \in MessageRecords
    BY DEF MessageRecords
  <1>3. ASSUME NEW x \in MessageRecords
        PROVE  [x EXCEPT !.overtaken = TRUE] \in MessageRecords
    BY DEF MessageRecords
  <1>4. ASSUME NEW stage \in Stages, NEW i \in Ids, NEW r \in Transports \X Configs
        PROVE  [Out EXCEPT !.stage = stage, !.id = i, !.addressee = r] \in MessageRecords
    BY <1>1 DEF MessageRecords
  <1>5. ASSUME NEW x \in MessageRecords, NEW stage \in Stages
        PROVE  [Out EXCEPT !.stage = stage, !.storage = x.storage] \in MessageRecords
    <2>1. x.storage \in Transports \cup {None}
      BY DEF MessageRecords
    <2> QED
      BY <1>1, <2>1 DEF MessageRecords
  <1> QED
    BY <1>1, <1>2, <1>3, <1>4, <1>5

LEMMA StageNames == {"out", "entered", "hasTransport", "hasListener", "spawned", "running", "dropping"} = Stages
  BY DEF Stages

LEMMA BecomesType ==
    ASSUME TypeOK, NEW m \in Messages, NEW value \in MessageRecords, Becomes(m, value)
    PROVE  TypeOK'
  <1>1. message' \in [Messages -> MessageRecords]
    BY DEF Becomes, TypeOK, MessageRecords
  <1> QED
    BY <1>1 DEF Becomes, Others, engineVars, runtimeVars, TypeOK, MessageRecords

LEMMA ReleaseType ==
    ASSUME TypeOK, NEW ids, ReleaseMessageHandler(ids)
    PROVE  /\ holder' \in [Ids -> (Transports \X Configs) \cup {None}]
           /\ message' \in [Messages -> MessageRecords]
  <1>1. message \in [Messages -> MessageRecords]
    BY DEF TypeOK, MessageRecords
  <1> QED
    BY <1>1, MessageUpdate DEF ReleaseMessageHandler, TypeOK

LEMMA SendUnregisterType ==
    ASSUME TypeOK, NEW t \in Transports, NEW c \in Configs, SendUnregister(t, c)
    PROVE  /\ QueueOK' /\ pc' \in [Transports -> Steps] /\ config' \in [Transports -> Configs \cup {None}]
           /\ UNCHANGED <<holder, handlerTable, appRunning, reply, dropper, runtime, forced, message, gaveUp>>
  <1>1. [op |-> "unregister", config |-> c, id |-> None, awaited |-> TRUE] \in Commands
    BY DEF Commands
  <1>2. QueueOK'
    BY <1>1, EnqueueType DEF SendUnregister, TypeOK, QueueOK
  <1> QED
    BY <1>2 DEF SendUnregister, TypeOK, At, Steps, engineVars, runtimeVars

LEMMA TypeOwnerStep ==
    ASSUME TypeOK, NEW t \in Transports, OwnerStep(t)
    PROVE  TypeOK'
  <1>1. ASSUME NEW c \in Configs, NEW i \in Ids, Register(t, c, i)
        PROVE  TypeOK'
    <2>1. [op |-> "register", config |-> c, id |-> i, awaited |-> TRUE] \in Commands
      BY DEF Commands
    <2>2. QueueOK'
      BY <1>1, <2>1, EnqueueType DEF Register, TypeOK, QueueOK
    <2>3. holder' \in [Ids -> (Transports \X Configs) \cup {None}]
      BY <1>1 DEF Register, TypeOK
    <2> QED
      BY <1>1, <2>2, <2>3 DEF Register, TypeOK, QueueOK, At, engineVars, runtimeVars
  <1>2. ASSUME NEW c \in Configs, CallUnregister(t, c)
        PROVE  TypeOK'
    BY <1>2, SendUnregisterType DEF CallUnregister, TypeOK, QueueOK, Steps
  <1>3. ASSUME NEW who \in Messages \cup {"owner"}, BeginDrop(t, who)
        PROVE  TypeOK'
    <2>1. message' \in [Messages -> MessageRecords]
      <3>1. message \in [Messages -> MessageRecords] /\ "dropping" \in Stages
        BY StageNames DEF TypeOK, MessageRecords
      <3> QED
        BY <1>3, <3>1, MessageUpdate DEF BeginDrop
    <2>2. dropper' \in [Transports -> Messages \cup {"owner", None}]
      BY <1>3 DEF BeginDrop, TypeOK
    <2>3. listed' \in [Transports -> SUBSET Configs]
      BY <1>3 DEF BeginDrop, TypeOK
    <2> QED
      BY <1>3, <2>1, <2>2, <2>3 DEF BeginDrop, TypeOK, At, engineVars, runtimeVars, MessageRecords
  <1>4. CASE AwaitRegister(t)
    <2>1. QueueOK' /\ reply' \in [Transports -> BOOLEAN] /\ gaveUp' \in BOOLEAN
      BY <1>4, AwaitEngineType DEF AwaitRegister
    <2> QED
      BY <1>4, <2>1 DEF AwaitRegister, TypeOK, QueueOK, At, engineVars, runtimeVars
  <1> QED
    BY <1>1, <1>2, <1>3, <1>4 DEF OwnerStep

LEMMA TypeDropStep ==
    ASSUME TypeOK, NEW t \in Transports, DropStep(t)
    PROVE  TypeOK'
  <1>1. ASSUME NEW c \in Configs, UnregisterNext(t, c)
        PROVE  TypeOK'
    <2>1. listed' \in [Transports -> SUBSET Configs]
      BY <1>1 DEF UnregisterNext, TypeOK
    <2> QED
      BY <1>1, <2>1, SendUnregisterType DEF UnregisterNext, TypeOK, QueueOK, Steps
  <1>2. CASE AwaitUnregister(t)
    <2>1. QueueOK' /\ reply' \in [Transports -> BOOLEAN] /\ gaveUp' \in BOOLEAN
      BY <1>2, AwaitEngineType DEF AwaitUnregister
    <2>2. /\ holder' \in [Ids -> (Transports \X Configs) \cup {None}]
          /\ message' \in [Messages -> MessageRecords]
      BY <1>2, ReleaseType DEF AwaitUnregister
    <2>3. pc' \in [Transports -> Steps] /\ config' \in [Transports -> Configs \cup {None}]
      BY <1>2 DEF AwaitUnregister, ReturnFromUnregister, At, TypeOK, Steps
    <2> QED
      BY <1>2, <2>1, <2>2, <2>3 DEF AwaitUnregister, TypeOK, QueueOK, Steps, MessageRecords, engineVars, runtimeVars
  <1>3. CASE ShutdownVsomeipApp(t)
    <2>1. [op |-> "stop", config |-> None, id |-> None, awaited |-> TRUE] \in Commands
      BY DEF Commands
    <2>2. QueueOK'
      BY <1>3, <2>1, EnqueueType DEF ShutdownVsomeipApp, TypeOK, QueueOK
    <2> QED
      BY <1>3, <2>2 DEF ShutdownVsomeipApp, TypeOK, QueueOK, At, engineVars, runtimeVars
  <1>4. CASE SignalShutdown(t)
    <2>1. QueueOK' /\ reply' \in [Transports -> BOOLEAN] /\ gaveUp' \in BOOLEAN
      BY <1>4, AwaitEngineType DEF SignalShutdown
    <2> QED
      BY <1>4, <2>1 DEF SignalShutdown, TypeOK, QueueOK, At, engineVars
  <1>5. CASE Join(t)
    <2>1. message' \in [Messages -> MessageRecords]
      <3>1. message \in [Messages -> MessageRecords] /\ "running" \in Stages
        BY StageNames DEF TypeOK, MessageRecords
      <3> QED
        BY <1>5, <3>1, MessageUpdate DEF Join, Resumed
    <2> QED
      BY <1>5, <2>1 DEF Join, TypeOK, MessageRecords, At, engineVars, runtimeVars
  <1> QED
    BY <1>1, <1>2, <1>3, <1>4, <1>5 DEF DropStep

LEMMA TypeExecute ==
    ASSUME TypeOK, NEW t \in Transports, Execute(t)
    PROVE  TypeOK'
  <1> DEFINE command == Head(queue[t])
  <1>1. queue[t] \in Seq(Commands) /\ queue[t] # <<>> /\ Len(queue[t]) <= MaxQueue
    BY DEF TypeOK, Execute
  <1>2. command \in Commands /\ Tail(queue[t]) \in Seq(Commands) /\ Len(Tail(queue[t])) = Len(queue[t]) - 1
    BY <1>1
  <1>3. QueueOK'
    BY <1>1, <1>2, ShutdownAssumption DEF Execute, TypeOK, QueueOK
  <1>4. command.awaited \in BOOLEAN
    BY <1>2 DEF Commands
  <1>5. reply' \in [Transports -> BOOLEAN]
    BY <1>4 DEF Execute, TypeOK
  <1>6. handlerTable' \in [Transports -> [Configs -> Ids \cup {None}]]
        /\ appRunning' \in [Transports -> BOOLEAN]
    <2>0. handlerTable \in [Transports -> [Configs -> Ids \cup {None}]]
          /\ appRunning \in [Transports -> BOOLEAN]
      BY DEF TypeOK
    <2>1. CASE command.op = "register" /\ appRunning' = appRunning
               /\ handlerTable' = [handlerTable EXCEPT ![t][command.config] = command.id]
      <3>1. command.config \in Configs /\ command.id \in Ids
        BY <1>2, <2>1 DEF Commands
      <3> HIDE DEF command
      <3> QED
        BY <2>0, <2>1, <3>1, TableUpdate
    <2>2. CASE command.op = "unregister" /\ appRunning' = appRunning
               /\ handlerTable' = [handlerTable EXCEPT ![t][command.config] = None]
      <3>1. command.config \in Configs
        BY <1>2, <2>2 DEF Commands
      <3> HIDE DEF command
      <3> QED
        BY <2>0, <2>2, <3>1, TableUpdate
    <2>3. CASE appRunning' = [appRunning EXCEPT ![t] = FALSE] /\ handlerTable' = handlerTable
      BY <2>0, <2>3
    <2> QED
      BY <2>1, <2>2, <2>3 DEF Execute
  <1> QED
    BY <1>3, <1>5, <1>6 DEF Execute, TypeOK, QueueOK, runtimeVars

(* A callback has the id of the extern function it is in, and looks up in  *)
(* a storage when it knows one.                                            *)
CallbackOK(m) ==
    /\ message[m].stage \in {"entered", "hasTransport"} =>
          message[m].id \in Ids /\ message[m].addressee \in Transports \X Configs
    /\ message[m].stage \notin {"out", "entered"} => message[m].storage \in Transports

CallbacksOK == \A m \in Messages : CallbackOK(m)

(* A listener that executes a Drop stays at it, and executes one only.     *)
DroppersOK ==
    /\ \A t \in Transports : pc[t] \in {"idle", "awaitRegister", "dropped"} => dropper[t] = None
    /\ \A t \in Transports : pc[t] \in {"drop", "awaitStop", "join"} => dropper[t] # None
    /\ \A t \in Transports : dropper[t] \in Messages => message[dropper[t]].stage = "dropping"
    /\ \A t, u \in Transports : dropper[t] \in Messages /\ dropper[t] = dropper[u] => t = u

TypeInv == TypeOK /\ CallbacksOK /\ DroppersOK

LEMMA TypeCallbackStep ==
    ASSUME TypeInv, NEW m \in Messages, CallbackStep(m)
    PROVE  TypeOK'
  <1>0. TypeOK
    BY DEF TypeInv
  <1>1. message[m] \in MessageRecords
    BY <1>0 DEF TypeOK, MessageRecords
  <1>2. ASSUME NEW t \in Transports, NEW c \in Configs, Enter(m, t, c)
        PROVE  TypeOK'
    <2>1. handlerTable[t][c] \in Ids
      BY <1>0, <1>2 DEF Enter, TypeOK
    <2>2. [Out EXCEPT !.stage = "entered", !.id = handlerTable[t][c], !.addressee = <<t, c>>]
             \in MessageRecords
      BY <2>1, MessageUpdate, StageNames
    <2> QED
      BY <1>0, <1>2, <2>2, BecomesType DEF Enter
  <1>3. ASSUME message[m].stage \in {"entered", "hasTransport"}
        PROVE  holder[message[m].id] = None \/ holder[message[m].id] \in Transports \X Configs
    BY <1>0, <1>3 DEF TypeInv, CallbacksOK, CallbackOK, TypeOK
  <1>4. ASSUME Becomes(m, Out)
        PROVE  TypeOK'
    BY <1>0, <1>4, MessageUpdate, BecomesType
  <1>5. ASSUME NEW stage \in Stages, Reaches(m, stage)
        PROVE  TypeOK'
    BY <1>0, <1>1, <1>5, MessageUpdate, BecomesType DEF Reaches
  <1>6. CASE GetTransport(m)
    <2> DEFINE r == holder[message[m].id]
               value == [message[m] EXCEPT !.stage = "hasTransport", !.storage = r[1]]
    <2>1. CASE r # None /\ Becomes(m, value)
      <3>1. r[1] \in Transports
        BY <1>3, <1>6, <2>1 DEF GetTransport
      <3>2. value \in MessageRecords
        BY <1>1, <3>1, MessageUpdate, StageNames
      <3> QED
        BY <1>0, <2>1, <3>2, BecomesType
    <2> QED
      BY <1>4, <1>6, <2>1 DEF GetTransport
  <1>7. CASE GetListener(m)
    <2> DEFINE r == holder[message[m].id]
               value == [message[m] EXCEPT !.stage = "hasListener", !.listener = r]
    <2>1. CASE r # None /\ Becomes(m, value)
      <3>1. r \in Transports \X Configs
        BY <1>3, <1>7, <2>1 DEF GetListener
      <3>2. value \in MessageRecords
        BY <1>1, <3>1, MessageUpdate, StageNames
      <3> QED
        BY <1>0, <2>1, <3>2, BecomesType
    <2> QED
      BY <1>4, <1>7, <2>1 DEF GetListener
  <1>8. CASE Spawn(m)
    <2>1. [Out EXCEPT !.stage = "spawned", !.storage = message[m].storage] \in MessageRecords
      BY <1>1, MessageUpdate, StageNames
    <2> QED
      BY <1>0, <1>4, <1>8, <2>1, BecomesType DEF Spawn
  <1> QED
    BY <1>2, <1>4, <1>5, <1>6, <1>7, <1>8, StageNames DEF CallbackStep, Start, Finish, DropTask

ProcessStep(t) == OwnerStep(t) \/ DropStep(t) \/ EndRuntime(t) \/ Execute(t)

LEMMA TypeOKStep == TypeInv /\ [Next]_vars => TypeOK'
  <1> SUFFICES ASSUME TypeInv, [Next]_vars
               PROVE  TypeOK'
    OBVIOUS
  <1>1. ASSUME NEW t \in Transports, EndRuntime(t)
        PROVE  TypeOK'
    BY <1>1 DEF EndRuntime, TypeInv, TypeOK, engineVars
  <1>2. CASE UNCHANGED vars
    BY <1>2 DEF vars, TypeInv, TypeOK, engineVars, runtimeVars
  <1> QED
    BY <1>1, <1>2, TypeOwnerStep, TypeDropStep, TypeExecute, TypeCallbackStep DEF Next, TypeInv

(* What the steps of owners, engines and runtimes do to messages.          *)
LEMMA MessagesKept ==
    ASSUME TypeInv, NEW t \in Transports, ProcessStep(t), NEW m \in Messages
    PROVE  /\ message'[m].id = message[m].id /\ message'[m].addressee = message[m].addressee
           /\ message'[m].storage = message[m].storage /\ message'[m].listener = message[m].listener
           /\ \/ message'[m].stage = message[m].stage /\ ~(dropper[t] = m /\ dropper'[t] # m)
              \/ /\ message[m].stage = "running" /\ message'[m].stage = "dropping"
                 /\ dropper' = [dropper EXCEPT ![t] = m]
              \/ /\ message[m].stage = "dropping" /\ message'[m].stage = "running"
                 /\ m = dropper[t] /\ dropper' = [dropper EXCEPT ![t] = None]
           /\ (message'[m].overtaken = message[m].overtaken \/ message'[m].overtaken = TRUE)
  <1>1. message[m] \in MessageRecords /\ message \in [Messages -> MessageRecords]
    BY DEF TypeInv, TypeOK, MessageRecords
  <1>2. ASSUME message' = message, dropper' = dropper
        PROVE  message'[m] = message[m] /\ ~(dropper[t] = m /\ dropper'[t] # m)
    BY <1>2
  <1>3. ASSUME NEW who \in Messages \cup {"owner"}, BeginDrop(t, who)
        PROVE  /\ m = who => message[m].stage = "running"
               /\ message'[m] = IF m = who THEN [message[m] EXCEPT !.stage = "dropping"] ELSE message[m]
               /\ dropper' = [dropper EXCEPT ![t] = who]
    BY <1>3, Nothing DEF BeginDrop
  <1>4. CASE AwaitUnregister(t)
    <2>1. message'[m] \in {message[m], [message[m] EXCEPT !.overtaken = TRUE]} /\ dropper' = dropper
      BY <1>4 DEF AwaitUnregister, ReleaseMessageHandler
    <2> QED
      BY <1>1, <2>1 DEF MessageRecords
  <1>5. CASE Join(t)
    <2>1. /\ message'[m] = IF m = dropper[t] THEN [message[m] EXCEPT !.stage = "running"] ELSE message[m]
          /\ dropper' = [dropper EXCEPT ![t] = None]
          /\ m = dropper[t] => message[m].stage = "dropping"
      BY <1>5 DEF Join, Resumed, TypeInv, DroppersOK
    <2> QED
      BY <1>1, <2>1 DEF MessageRecords
  <1>6. \/ \E who \in Messages \cup {"owner"} : BeginDrop(t, who)
        \/ AwaitUnregister(t) \/ Join(t)
        \/ message' = message /\ dropper' = dropper
    BY DEF ProcessStep, OwnerStep, Register, CallUnregister, AwaitRegister, DropStep, UnregisterNext,
           SendUnregister, ShutdownVsomeipApp, SignalShutdown, EndRuntime, Execute
  <1>7. CASE \E who \in Messages \cup {"owner"} : BeginDrop(t, who)
    <2>1. PICK who \in Messages \cup {"owner"} : BeginDrop(t, who)
      BY <1>7
    <2>2. CASE m = who
      BY <1>1, <1>3, <2>1, <2>2 DEF MessageRecords
    <2>3. CASE m # who
      <3>1. pc[t] = "idle"
        BY <2>1 DEF BeginDrop
      <3>2. message'[m] = message[m]
        BY <1>3, <2>1, <2>3
      <3>3. dropper[t] = None
        BY <3>1 DEF TypeInv, DroppersOK
      <3>4. dropper[t] # m
        BY <3>3, Nothing
      <3> QED
        BY <3>2, <3>4
    <2> QED
      BY <2>2, <2>3
  <1> QED
    BY <1>2, <1>4, <1>5, <1>6, <1>7

LEMMA CallbackSteps ==
    ASSUME TypeInv, NEW m \in Messages, CallbackStep(m)
    PROVE  /\ UNCHANGED Others
           /\ message[m].stage # "dropping" /\ message'[m].stage # "dropping"
           /\ \A n \in Messages \ {m} : message'[n] = message[n]
           /\ CallbackOK(m)'
  <1>1. message[m] \in MessageRecords /\ message \in [Messages -> MessageRecords]
    BY DEF TypeInv, TypeOK, MessageRecords
  <1>2. ASSUME NEW value, Becomes(m, value)
        PROVE  UNCHANGED Others /\ message'[m] = value /\ \A n \in Messages \ {m} : message'[n] = message[n]
    BY <1>1, <1>2 DEF Becomes
  <1>3. ASSUME Becomes(m, Out)
        PROVE  UNCHANGED Others /\ message'[m].stage = "out" /\ CallbackOK(m)'
               /\ \A n \in Messages \ {m} : message'[n] = message[n]
    <2>1. message'[m].stage = "out"
      BY <1>2, <1>3 DEF Out
    <2> QED
      BY <1>2, <1>3, <2>1 DEF CallbackOK
  <1>4. ASSUME NEW t \in Transports, NEW c \in Configs, Enter(m, t, c)
        PROVE  UNCHANGED Others /\ message[m].stage = "out" /\ message'[m].stage = "entered"
               /\ CallbackOK(m)' /\ \A n \in Messages \ {m} : message'[n] = message[n]
    <2>1. handlerTable[t][c] \in Ids
      BY <1>4 DEF Enter, TypeInv, TypeOK
    <2>2. message'[m] = [Out EXCEPT !.stage = "entered", !.id = handlerTable[t][c], !.addressee = <<t, c>>]
      BY <1>2, <1>4 DEF Enter
    <2>3. message'[m].stage = "entered" /\ message'[m].id = handlerTable[t][c]
          /\ message'[m].addressee = <<t, c>>
      BY <2>2 DEF Out
    <2>4. CallbackOK(m)'
      BY <2>1, <2>3 DEF CallbackOK
    <2> QED
      BY <1>2, <1>4, <2>3, <2>4 DEF Enter
  <1>5. ASSUME GetTransport(m), message'[m].stage # "out"
        PROVE  UNCHANGED Others /\ message'[m].stage = "hasTransport"
               /\ CallbackOK(m)' /\ \A n \in Messages \ {m} : message'[n] = message[n]
    <2> DEFINE r == holder[message[m].id]
    <2>1. message[m].stage = "entered" /\ r # None
          /\ Becomes(m, [message[m] EXCEPT !.stage = "hasTransport", !.storage = r[1]])
      BY <1>2, <1>5 DEF GetTransport, Out
    <2>2. r \in Transports \X Configs
      BY <2>1 DEF TypeInv, TypeOK, CallbacksOK, CallbackOK
    <2>3. message'[m] = [message[m] EXCEPT !.stage = "hasTransport", !.storage = r[1]]
      BY <1>2, <2>1
    <2>4. message'[m].storage = r[1] /\ message'[m].stage = "hasTransport"
          /\ message'[m].id = message[m].id /\ message'[m].addressee = message[m].addressee
      BY <1>1, <2>3 DEF MessageRecords
    <2> QED
      BY <1>2, <2>1, <2>2, <2>4 DEF TypeInv, CallbacksOK, CallbackOK
  <1>6. ASSUME GetListener(m), message'[m].stage # "out"
        PROVE  UNCHANGED Others /\ message'[m].stage = "hasListener"
               /\ CallbackOK(m)' /\ \A n \in Messages \ {m} : message'[n] = message[n]
    <2> DEFINE r == holder[message[m].id]
               value == [message[m] EXCEPT !.stage = "hasListener", !.listener = r]
    <2>1. message[m].stage = "hasTransport" /\ Becomes(m, value)
      BY <1>2, <1>6 DEF GetListener, Out
    <2>2. message'[m] = value
      BY <1>2, <2>1
    <2>3. message'[m].stage = "hasListener" /\ message'[m].storage = message[m].storage
      BY <1>1, <2>2 DEF MessageRecords
    <2> QED
      BY <1>2, <2>1, <2>3 DEF TypeInv, CallbacksOK, CallbackOK
  <1>7. ASSUME Spawn(m), message'[m].stage # "out"
        PROVE  UNCHANGED Others /\ message'[m].stage = "spawned"
               /\ CallbackOK(m)' /\ \A n \in Messages \ {m} : message'[n] = message[n]
    <2> DEFINE value == [Out EXCEPT !.stage = "spawned", !.storage = message[m].storage]
    <2>1. message[m].stage = "hasListener" /\ Becomes(m, value)
      BY <1>2, <1>7 DEF Spawn, Out
    <2>2. message'[m] = value
      BY <1>2, <2>1
    <2>3. message'[m].stage = "spawned" /\ message'[m].storage = message[m].storage
      BY <2>2 DEF Out
    <2> QED
      BY <1>2, <2>1, <2>3 DEF TypeInv, CallbacksOK, CallbackOK
  <1>8. ASSUME Start(m)
        PROVE  UNCHANGED Others /\ message'[m].stage = "running"
               /\ CallbackOK(m)' /\ \A n \in Messages \ {m} : message'[n] = message[n]
    <2> DEFINE value == [message[m] EXCEPT !.stage = "running"]
    <2>1. message[m].stage = "spawned" /\ Becomes(m, value)
      BY <1>8 DEF Start, Reaches
    <2>2. message'[m] = value
      BY <1>2, <2>1
    <2>3. message'[m].stage = "running" /\ message'[m].storage = message[m].storage
      BY <1>1, <2>2 DEF MessageRecords
    <2> QED
      BY <1>2, <2>1, <2>3 DEF TypeInv, CallbacksOK, CallbackOK
  <1>9. message[m].stage # "dropping"
    BY DEF CallbackStep, Enter, GetTransport, GetListener, Spawn, Start, Finish, DropTask
  <1>10. CASE message'[m].stage = "out"
    <2>1. CallbackOK(m)'
      BY <1>10 DEF CallbackOK
    <2>2. UNCHANGED Others /\ \A n \in Messages \ {m} : message'[n] = message[n]
      BY <1>2 DEF CallbackStep, Enter, GetTransport, GetListener, Spawn, Start, Reaches, Finish, DropTask
    <2> QED
      BY <1>9, <1>10, <2>1, <2>2
  <1>11. CASE message'[m].stage # "out"
    <2>1. ~Finish(m) /\ ~DropTask(m)
      BY <1>3, <1>11 DEF Finish, DropTask
    <2> QED
      BY <1>4, <1>5, <1>6, <1>7, <1>8, <1>9, <1>11, <2>1 DEF CallbackStep
  <1> QED
    BY <1>10, <1>11

LEMMA DroppersStep == TypeInv /\ [Next]_vars => (CallbacksOK /\ DroppersOK)'
  <1> SUFFICES ASSUME TypeInv, [Next]_vars
               PROVE  (CallbacksOK /\ DroppersOK)'
    OBVIOUS
  <1>1. ASSUME NEW m \in Messages, CallbackStep(m)
        PROVE  (CallbacksOK /\ DroppersOK)'
    <2>1. dropper' = dropper /\ pc' = pc
      BY <1>1, CallbackSteps DEF Others
    <2>2. \A n \in Messages : message[n].stage = "dropping" => message'[n].stage = "dropping"
      BY <1>1, CallbackSteps
    <2>3. CallbacksOK'
      BY <1>1, CallbackSteps DEF TypeInv, CallbacksOK, CallbackOK
    <2> QED
      BY <2>1, <2>2, <2>3 DEF TypeInv, DroppersOK
  <1>2. ASSUME NEW t \in Transports, ProcessStep(t)
        PROVE  (CallbacksOK /\ DroppersOK)'
    <2>1. CallbacksOK'
      BY <1>2, MessagesKept DEF TypeInv, CallbacksOK, CallbackOK
    <2>2. pc \in [Transports -> Steps] /\ dropper \in [Transports -> Messages \cup {"owner", None}]
      BY DEF TypeInv, TypeOK, Steps
    <2> DEFINE Calm == /\ dropper' = dropper
                       /\ \A u \in Transports : pc'[u] # pc[u] =>
                             \/ pc[u] \in {"idle", "awaitRegister"} /\ pc'[u] \in {"idle", "awaitRegister", "awaitUnregister"}
                             \/ pc[u] \in {"drop", "awaitStop"} /\ pc'[u] \in {"awaitUnregister", "awaitStop", "join"}
                             \/ pc[u] = "awaitUnregister" /\ pc'[u] = IF dropper[u] = None THEN "idle" ELSE "drop"
    <2>3. \/ Calm
          \/ \E who \in Messages \cup {"owner"} : BeginDrop(t, who)
          \/ Join(t)
      <3>1. OwnerStep(t) => Calm \/ \E who \in Messages \cup {"owner"} : BeginDrop(t, who)
        BY <2>2 DEF OwnerStep, Register, CallUnregister, AwaitRegister, SendUnregister, At
      <3>2. DropStep(t) => Calm \/ Join(t)
        BY <2>2 DEF DropStep, UnregisterNext, SendUnregister, AwaitUnregister, ReturnFromUnregister,
           ShutdownVsomeipApp, SignalShutdown, At
      <3>3. EndRuntime(t) \/ Execute(t) => Calm
        BY DEF EndRuntime, Execute
      <3> HIDE DEF Calm
      <3> QED
        BY <1>2, <3>1, <3>2, <3>3 DEF ProcessStep
    <2>4. CASE Calm
      <3>1. \A u \in Transports :
              /\ pc'[u] \in {"idle", "awaitRegister", "dropped"} => dropper[u] = None
              /\ pc'[u] \in {"drop", "awaitStop", "join"} => dropper[u] # None
        BY <2>4 DEF TypeInv, DroppersOK
      <3>2. \A n \in Messages : ~(dropper[t] = n /\ dropper' = [dropper EXCEPT ![t] = None])
        BY <2>2, <2>4, Nothing
      <3>3. ASSUME NEW n \in Messages, message[n].stage = "dropping"
            PROVE  message'[n].stage = "dropping"
        <4> HIDE DEF Calm
        <4>1. \/ message'[n].stage = message[n].stage
              \/ message[n].stage = "running"
              \/ n = dropper[t] /\ dropper' = [dropper EXCEPT ![t] = None]
          BY <1>2, MessagesKept
        <4> QED
          BY <3>2, <3>3, <4>1
      <3> QED
        BY <2>1, <2>4, <3>1, <3>3 DEF TypeInv, DroppersOK
    <2>5. ASSUME NEW who \in Messages \cup {"owner"}, BeginDrop(t, who)
          PROVE  DroppersOK'
      <3>1. dropper' = [dropper EXCEPT ![t] = who] /\ pc' = [pc EXCEPT ![t] = "drop"]
            /\ (who \in Messages => message[who].stage = "running" /\ message'[who].stage = "dropping")
            /\ dropper[t] = None
        <4>1. pc[t] = "idle" /\ dropper' = [dropper EXCEPT ![t] = who] /\ pc' = [pc EXCEPT ![t] = "drop"]
          BY <2>5 DEF BeginDrop, At
        <4>2. ASSUME who \in Messages
              PROVE  message[who].stage = "running" /\ message'[who].stage = "dropping"
          <5>1. message[who] \in MessageRecords /\ message[who].stage = "running"
                /\ message'[who] = [message[who] EXCEPT !.stage = "dropping"]
            BY <2>5, <4>2, Nothing DEF BeginDrop, TypeInv, TypeOK, MessageRecords
          <5> QED
            BY <5>1 DEF MessageRecords
        <4> QED
          BY <4>1, <4>2 DEF TypeInv, DroppersOK
      <3>2. \A n \in Messages : message[n].stage = "dropping" => message'[n].stage = "dropping"
        BY <2>5, Nothing, <3>1 DEF BeginDrop
      <3>3. \A u \in Transports : u # t =>
              /\ dropper'[u] = dropper[u] /\ pc'[u] = pc[u]
              /\ dropper[u] # who \/ who = "owner"
        BY <2>2, <3>1 DEF TypeInv, DroppersOK
      <3>4. dropper'[t] = who /\ who # None /\ pc'[t] = "drop"
        BY <2>2, <3>1, Nothing
      <3> QED
        BY <3>1, <3>2, <3>3, <3>4, Nothing DEF TypeInv, DroppersOK
    <2>6. CASE Join(t)
      <3>1. dropper' = [dropper EXCEPT ![t] = None] /\ pc' = [pc EXCEPT ![t] = "dropped"]
        BY <2>6 DEF Join, At
      <3>2. \A n \in Messages : n # dropper[t] => message'[n] = message[n]
        BY <2>6 DEF Join, Resumed
      <3> QED
        BY <2>1, <2>2, <3>1, <3>2, Nothing DEF TypeInv, DroppersOK
    <2> QED
      BY <2>1, <2>3, <2>4, <2>5, <2>6
  <1>3. CASE UNCHANGED vars
    BY <1>3 DEF vars, TypeInv, CallbacksOK, CallbackOK, DroppersOK
  <1> QED
    BY <1>1, <1>2, <1>3 DEF Next, ProcessStep

LEMMA InitTypeInv == Init => TypeInv
  <1> SUFFICES ASSUME Init
               PROVE  CallbacksOK /\ DroppersOK
    BY InitTypeOK DEF TypeInv
  <1>1. \A m \in Messages : message[m].stage = "out"
    BY DEF Init, Out
  <1> QED
    BY <1>1, Nothing DEF Init, CallbacksOK, CallbackOK, DroppersOK

LEMMA TypeStep == TypeInv /\ [Next]_vars => TypeInv'
  BY TypeOKStep, DroppersStep DEF TypeInv

-----------------------------------------------------------------------------
(* Tracking: once Drop has begun, what its transport holds is in its list, *)
(* or is what it waits to release.                                         *)
TrackedOK(t) ==
    /\ dropper[t] # None =>
          \A i \in Ids, c \in Configs : holder[i] = <<t, c>> =>
             c \in listed[t] \/ (pc[t] = "awaitUnregister" /\ config[t] = c)
    /\ pc[t] \in {"awaitStop", "join"} => listed[t] = {}
    /\ pc[t] = "dropped" => \A i \in Ids, c \in Configs : holder[i] # <<t, c>>

Tracking == \A t \in Transports : TrackedOK(t)

(* Tasks: nothing is left in a runtime that ended by itself, or is added.  *)
TasksOK(t) ==
    /\ pc[t] = "dropped" => runtime[t] = "ended"
    /\ runtime[t] = "ended" /\ ~forced[t] => TasksOf(t) = {}

Tasks == \A t \in Transports : TasksOK(t)

(* Waits: only the last command in a channel is ever awaited, and once it  *)
(* is answered the channel is empty.                                       *)
WaitOK(t) ==
    /\ ~Awaits(t) => ~reply[t] /\ \A n \in DOMAIN queue[t] : ~queue[t][n].awaited
    /\ Awaits(t) /\ reply[t] => queue[t] = <<>>
    /\ Awaits(t) /\ ~reply[t] =>
          /\ queue[t] # <<>> /\ queue[t][Len(queue[t])].awaited
          /\ \A n \in DOMAIN queue[t] : n # Len(queue[t]) => ~queue[t][n].awaited
    /\ pc[t] = "join" => runtime[t] # "up"

Waits == \A t \in Transports : WaitOK(t)

(* Serving: while nobody has given up a wait...                            *)
Command(op, c, i) == [op |-> op, config |-> c, id |-> i, awaited |-> TRUE]
Answered(t) == reply[t] /\ queue[t] = <<>>
Pending(t, op, c, i) == ~reply[t] /\ queue[t] = <<Command(op, c, i)>>

(* ... the channel holds the command that is awaited and nothing else, ... *)
ChannelOK(t) ==
    /\ pc[t] \in {"idle", "drop", "join", "dropped"} => ~reply[t] /\ queue[t] = <<>>
    /\ pc[t] = "awaitRegister" =>
          \/ Answered(t)
          \/ \E c \in Configs, i \in Ids : Pending(t, "register", c, i) /\ holder[i] = <<t, c>>
    /\ pc[t] = "awaitUnregister" =>
          \/ Answered(t) /\ \A c \in Configs : c = config[t] => handlerTable[t][c] = None
          \/ config[t] \in Configs /\ Pending(t, "unregister", config[t], None)
    /\ pc[t] = "awaitStop" => Answered(t) \/ Pending(t, "stop", None, None)

(* ... vsomeip calls the function that is held for the key, ...            *)
EntryOK(t) ==
    \A c \in Configs : handlerTable[t][c] # None => holder[handlerTable[t][c]] = <<t, c>>

(* ... and who was called finds its addressee unless it is overtaken.      *)
AddresseeOK(m) ==
    /\ message[m].stage \in {"entered", "hasTransport"} /\ ~message[m].overtaken =>
          holder[message[m].id] = message[m].addressee
    /\ message[m].listener \notin {None, message[m].addressee} => message[m].overtaken

Serving == ~gaveUp => /\ \A t \in Transports : ChannelOK(t) /\ EntryOK(t)
                      /\ \A m \in Messages : AddresseeOK(m)

Inv == TypeInv /\ Tracking /\ Tasks /\ Waits /\ Serving

-----------------------------------------------------------------------------
(* What a step of one transport leaves alone in another.                   *)
LEMMA Elsewhere ==
    ASSUME TypeInv, NEW t \in Transports, ProcessStep(t), NEW u \in Transports, u # t
    PROVE  /\ pc'[u] = pc[u] /\ config'[u] = config[u] /\ reply'[u] = reply[u]
           /\ listed'[u] = listed[u] /\ dropper'[u] = dropper[u] /\ runtime'[u] = runtime[u]
           /\ forced'[u] = forced[u] /\ queue'[u] = queue[u] /\ handlerTable'[u] = handlerTable[u]
           /\ \A i \in Ids, c \in Configs : holder'[i] = <<u, c>> <=> holder[i] = <<u, c>>
  <1>1. TypeOK
    BY DEF TypeInv
  <1>2. /\ pc'[u] = pc[u] /\ config'[u] = config[u] /\ listed'[u] = listed[u]
        /\ dropper'[u] = dropper[u] /\ runtime'[u] = runtime[u] /\ forced'[u] = forced[u]
    <2>1. CASE OwnerStep(t)
      BY <1>1, <2>1 DEF TypeOK, OwnerStep, Register, CallUnregister, AwaitRegister, BeginDrop,
         SendUnregister, At, runtimeVars
    <2>2. CASE DropStep(t)
      BY <1>1, <2>2 DEF TypeOK, DropStep, UnregisterNext, SendUnregister, AwaitUnregister,
         ReturnFromUnregister, ShutdownVsomeipApp, SignalShutdown, Join, At, runtimeVars
    <2>3. CASE EndRuntime(t) \/ Execute(t)
      BY <1>1, <2>3 DEF TypeOK, EndRuntime, Execute, runtimeVars
    <2> QED
      BY <2>1, <2>2, <2>3 DEF ProcessStep
  <1>3. \A op, c, i : Enqueue(t, op, c, i) => queue'[u] = queue[u]
    BY <1>1 DEF Enqueue, TypeOK
  <1>4. AwaitEngine(t) => queue'[u] = queue[u] /\ reply'[u] = reply[u]
    BY <1>1 DEF AwaitEngine, DropReceiver, TypeOK
  <1>5. queue'[u] = queue[u] /\ reply'[u] = reply[u]
    BY <1>1, <1>3, <1>4 DEF TypeOK, ProcessStep, OwnerStep, DropStep, Register, CallUnregister,
         AwaitRegister, BeginDrop, UnregisterNext, SendUnregister, AwaitUnregister,
         ShutdownVsomeipApp, SignalShutdown, Join, EndRuntime, Execute
  <1>6. handlerTable'[u] = handlerTable[u]
    BY <1>1 DEF TypeOK, ProcessStep, OwnerStep, DropStep, Register, CallUnregister,
         AwaitRegister, BeginDrop, UnregisterNext, SendUnregister, AwaitUnregister,
         ShutdownVsomeipApp, SignalShutdown, Join, EndRuntime, Execute, engineVars
  <1>7. ASSUME NEW i \in Ids, NEW c \in Configs
        PROVE  holder'[i] = <<u, c>> <=> holder[i] = <<u, c>>
    <2>1. ASSUME NEW d \in Configs, NEW j \in Ids, Register(t, d, j)
          PROVE  holder'[i] = <<u, c>> <=> holder[i] = <<u, c>>
      <3>1. holder[j] = None /\ holder' = [holder EXCEPT ![j] = <<t, d>>]
        BY <2>1 DEF Register
      <3>2. <<u, c>> # None
        BY Nothing
      <3> QED
        BY <1>1, <3>1, <3>2 DEF TypeOK
    <2>2. ASSUME AwaitUnregister(t)
          PROVE  holder'[i] = <<u, c>> <=> holder[i] = <<u, c>>
      <3>1. holder'[i] = IF holder[i] = <<t, config[t]>> THEN None ELSE holder[i]
        BY <2>2 DEF AwaitUnregister, ReleaseMessageHandler, HeldBy
      <3>2. <<u, c>> # None
        BY Nothing
      <3> QED
        BY <3>1, <3>2
    <2>3. holder' = holder \/ AwaitUnregister(t) \/ \E d \in Configs, j \in Ids : Register(t, d, j)
      BY DEF ProcessStep, OwnerStep, DropStep, CallUnregister, AwaitRegister, BeginDrop, UnregisterNext,
           SendUnregister, ShutdownVsomeipApp, SignalShutdown, Join, EndRuntime, Execute
    <2> QED
      BY <2>1, <2>2, <2>3
  <1> QED
    BY <1>2, <1>5, <1>6, <1>7

LEMMA TrackedStep ==
    ASSUME TypeInv, NEW t \in Transports, TrackedOK(t), ProcessStep(t)
    PROVE  TrackedOK(t)'
  <1>1. /\ pc \in [Transports -> Steps] /\ config \in [Transports -> Configs \cup {None}]
        /\ listed \in [Transports -> SUBSET Configs] /\ dropper \in [Transports -> Messages \cup {"owner", None}]
        /\ holder \in [Ids -> (Transports \X Configs) \cup {None}]
    BY DEF TypeInv, TypeOK, Steps
  <1>2. /\ pc[t] \in {"idle", "awaitRegister", "dropped"} => dropper[t] = None
        /\ pc[t] \in {"drop", "awaitStop", "join"} => dropper[t] # None
    BY DEF TypeInv, DroppersOK
  <1>3. ASSUME NEW c \in Configs, NEW i \in Ids, Register(t, c, i)
        PROVE  TrackedOK(t)'
    BY <1>1, <1>2, <1>3 DEF Register, At, TrackedOK
  <1>4. ASSUME NEW c \in Configs, CallUnregister(t, c)
        PROVE  TrackedOK(t)'
    BY <1>1, <1>2, <1>4 DEF CallUnregister, SendUnregister, At, TrackedOK
  <1>5. ASSUME NEW who \in Messages \cup {"owner"}, BeginDrop(t, who)
        PROVE  TrackedOK(t)'
    <2>1. listed'[t] = {c \in Configs : HeldBy(t, c) # {}} /\ pc'[t] = "drop" /\ holder' = holder
      BY <1>1, <1>5 DEF BeginDrop, At
    <2>2. \A i \in Ids, c \in Configs : holder[i] = <<t, c>> => c \in listed'[t]
      BY <2>1 DEF HeldBy
    <2> QED
      BY <2>1, <2>2 DEF TrackedOK
  <1>6. CASE AwaitRegister(t)
    BY <1>1, <1>2, <1>6 DEF AwaitRegister, At, TrackedOK
  <1>7. ASSUME NEW c \in Configs, UnregisterNext(t, c)
        PROVE  TrackedOK(t)'
    <2>1. /\ listed'[t] = listed[t] \ {c} /\ pc[t] = "drop" /\ pc'[t] = "awaitUnregister" /\ config'[t] = c
          /\ dropper' = dropper /\ holder' = holder
      BY <1>1, <1>7 DEF UnregisterNext, SendUnregister, At
    <2> QED
      BY <1>2, <2>1 DEF TrackedOK
  <1>8. CASE AwaitUnregister(t)
    <2>1. \A i \in Ids : holder'[i] = IF holder[i] = <<t, config[t]>> THEN None ELSE holder[i]
      BY <1>8 DEF AwaitUnregister, ReleaseMessageHandler, HeldBy
    <2>2. \A c \in Configs : <<t, c>> # None
      BY Nothing
    <2>3. \A i \in Ids, c \in Configs : holder'[i] = <<t, c>> => holder[i] = <<t, c>> /\ c # config[t]
      BY <2>1, <2>2
    <2>4. /\ pc[t] = "awaitUnregister" /\ pc'[t] = IF dropper[t] = None THEN "idle" ELSE "drop"
          /\ listed' = listed /\ dropper' = dropper
      BY <1>1, <1>8 DEF AwaitUnregister, ReturnFromUnregister, At
    <2> QED
      BY <2>3, <2>4 DEF TrackedOK
  <1>9. CASE ShutdownVsomeipApp(t)
    BY <1>1, <1>2, <1>9 DEF ShutdownVsomeipApp, At, TrackedOK
  <1>10. CASE SignalShutdown(t)
    BY <1>1, <1>2, <1>10 DEF SignalShutdown, At, TrackedOK
  <1>11. CASE Join(t)
    BY <1>1, <1>2, <1>11 DEF Join, At, TrackedOK
  <1>12. CASE EndRuntime(t) \/ Execute(t)
    BY <1>12 DEF EndRuntime, Execute, TrackedOK
  <1> QED
    BY <1>3, <1>4, <1>5, <1>6, <1>7, <1>8, <1>9, <1>10, <1>11, <1>12 DEF ProcessStep, OwnerStep, DropStep

LEMMA TrackingStep == TypeInv /\ Tracking /\ [Next]_vars => Tracking'
  <1> SUFFICES ASSUME TypeInv, Tracking, [Next]_vars, NEW u \in Transports
               PROVE  TrackedOK(u)'
    BY DEF Tracking
  <1>1. ASSUME NEW m \in Messages, CallbackStep(m)
        PROVE  TrackedOK(u)'
    BY <1>1, CallbackSteps DEF Others, Tracking, TrackedOK
  <1>2. ASSUME NEW t \in Transports, ProcessStep(t), u # t
        PROVE  TrackedOK(u)'
    BY <1>2, Elsewhere DEF Tracking, TrackedOK
  <1>3. CASE ProcessStep(u)
    BY <1>3, TrackedStep DEF Tracking
  <1>4. CASE UNCHANGED vars
    BY <1>4 DEF vars, Tracking, TrackedOK
  <1> QED
    BY <1>1, <1>2, <1>3, <1>4 DEF Next, ProcessStep

LEMMA InitTracking == Init => Tracking
  BY Nothing DEF Init, Tracking, TrackedOK

-----------------------------------------------------------------------------
(* To be a task of u is a matter of stage and storage, and only callbacks  *)
(* change that.                                                            *)
LEMMA TasksKept ==
    ASSUME TypeInv, NEW t \in Transports, ProcessStep(t), NEW u \in Transports
    PROVE  TasksOf(u)' = TasksOf(u)
  <1>1. ASSUME NEW m \in Messages
        PROVE  m \in TasksOf(u)' <=> m \in TasksOf(u)
    BY MessagesKept DEF TasksOf
  <1> QED
    BY <1>1 DEF TasksOf

LEMMA TasksStep == TypeInv /\ Tasks /\ [Next]_vars => Tasks'
  <1> SUFFICES ASSUME TypeInv, Tasks, [Next]_vars, NEW u \in Transports
               PROVE  TasksOK(u)'
    BY DEF Tasks
  <1>1. ASSUME NEW m \in Messages, CallbackStep(m)
        PROVE  TasksOK(u)'
    <2>1. pc' = pc /\ runtime' = runtime /\ forced' = forced
          /\ \A n \in Messages \ {m} : message'[n] = message[n]
      BY <1>1, CallbackSteps DEF Others, runtimeVars
    <2>2. ASSUME runtime[u] = "ended", ~forced[u]
          PROVE  m \notin TasksOf(u)'
      <3>1. message[m] \in MessageRecords /\ message \in [Messages -> MessageRecords]
        BY DEF TypeInv, TypeOK, MessageRecords
      <3>2. m \notin TasksOf(u)
        BY <2>2 DEF Tasks, TasksOK
      <3>3. CASE message'[m].stage \in {"out", "entered", "hasTransport", "hasListener"}
        BY <3>3 DEF TasksOf
      <3>4. CASE message'[m].stage = "spawned" /\ Working(message[m].storage)
                 /\ message'[m].storage = message[m].storage
        BY <2>2, <3>4 DEF Working, TasksOf
      <3>5. CASE message[m].stage = "spawned" /\ message'[m].storage = message[m].storage
        BY <3>2, <3>5 DEF TasksOf
      <3>6. ASSUME NEW value, Becomes(m, value)
            PROVE  message'[m] = value
        BY <3>1, <3>6 DEF Becomes
      <3>7. ASSUME NEW t \in Transports, NEW c \in Configs, Enter(m, t, c)
            PROVE  message'[m].stage = "entered"
        <4>1. message'[m] = [Out EXCEPT !.stage = "entered", !.id = handlerTable[t][c],
                                        !.addressee = <<t, c>>]
          BY <3>6, <3>7 DEF Enter
        <4> QED
          BY <4>1 DEF Out
      <3>8. ASSUME Becomes(m, Out)
            PROVE  message'[m].stage = "out"
        BY <3>6, <3>8 DEF Out
      <3>9. ASSUME GetTransport(m)
            PROVE  message'[m].stage \in {"out", "hasTransport"}
        <4> DEFINE value == [message[m] EXCEPT !.stage = "hasTransport", !.storage = holder[message[m].id][1]]
        <4>1. message'[m] = value \/ message'[m].stage = "out"
          BY <3>6, <3>8, <3>9 DEF GetTransport
        <4> QED
          BY <3>1, <4>1 DEF MessageRecords
      <3>10. ASSUME GetListener(m)
             PROVE  message'[m].stage \in {"out", "hasListener"}
        <4> DEFINE value == [message[m] EXCEPT !.stage = "hasListener", !.listener = holder[message[m].id]]
        <4>1. message'[m] = value \/ message'[m].stage = "out"
          BY <3>6, <3>8, <3>10 DEF GetListener
        <4> QED
          BY <3>1, <4>1 DEF MessageRecords
      <3>11. ASSUME Spawn(m)
             PROVE  \/ message'[m].stage = "out"
                    \/ /\ message'[m].stage = "spawned" /\ Working(message[m].storage)
                       /\ message'[m].storage = message[m].storage
        <4> DEFINE value == [Out EXCEPT !.stage = "spawned", !.storage = message[m].storage]
        <4>1. (message'[m] = value /\ Working(message[m].storage)) \/ message'[m].stage = "out"
          BY <3>6, <3>8, <3>11 DEF Spawn
        <4> QED
          BY <4>1 DEF Out
      <3>12. ASSUME Start(m)
             PROVE  message[m].stage = "spawned" /\ message'[m].storage = message[m].storage
        <4>1. message[m].stage = "spawned" /\ message'[m] = [message[m] EXCEPT !.stage = "running"]
          BY <3>6, <3>12 DEF Start, Reaches
        <4> QED
          BY <3>1, <4>1 DEF MessageRecords
      <3> QED
        BY <1>1, <3>3, <3>4, <3>5, <3>7, <3>8, <3>9, <3>10, <3>11, <3>12 DEF CallbackStep, Finish, DropTask
    <2>3. ASSUME runtime[u] = "ended", ~forced[u]
          PROVE  TasksOf(u)' = {}
      <3>1. \A n \in Messages \ {m} : n \notin TasksOf(u)'
        BY <2>1, <2>3 DEF TasksOf, Tasks, TasksOK
      <3> QED
        BY <2>2, <2>3, <3>1 DEF TasksOf
    <2> QED
      BY <2>1, <2>3 DEF Tasks, TasksOK
  <1>2. ASSUME NEW t \in Transports, ProcessStep(t)
        PROVE  TasksOK(u)'
    <2>1. TasksOf(u)' = TasksOf(u)
      BY <1>2, TasksKept
    <2>2. CASE u # t
      BY <1>2, <2>1, <2>2, Elsewhere DEF Tasks, TasksOK
    <2>3. ASSUME u = t
          PROVE  TasksOK(t)'
      <3>1. /\ pc \in [Transports -> Steps] /\ runtime \in [Transports -> {"up", "stopping", "ended"}]
            /\ forced \in [Transports -> BOOLEAN] /\ TasksOK(t)
        BY <2>3 DEF TypeInv, TypeOK, Steps, Tasks
      <3>2. CASE OwnerStep(t)
        <4>1. runtime' = runtime /\ forced' = forced /\ pc'[t] # "dropped"
          BY <3>1, <3>2 DEF OwnerStep, Register, CallUnregister, SendUnregister, BeginDrop, AwaitRegister,
             At, runtimeVars
        <4> QED
          BY <2>1, <2>3, <3>1, <4>1 DEF TasksOK
      <3>3. CASE SignalShutdown(t)
        <4>1. runtime'[t] = "stopping" /\ pc'[t] = "join"
          BY <3>1, <3>3 DEF SignalShutdown, At
        <4> QED
          BY <4>1 DEF TasksOK
      <3>4. CASE Join(t)
        <4>1. runtime' = runtime /\ forced' = forced /\ runtime[t] = "ended"
          BY <3>4 DEF Join, runtimeVars
        <4> QED
          BY <2>1, <2>3, <3>1, <4>1 DEF TasksOK
      <3>5. CASE DropStep(t) /\ ~SignalShutdown(t) /\ ~Join(t)
        <4>1. runtime' = runtime /\ forced' = forced /\ pc'[t] # "dropped"
          BY <3>1, <3>5 DEF DropStep, UnregisterNext, SendUnregister, AwaitUnregister, ReturnFromUnregister,
             ShutdownVsomeipApp, At, runtimeVars
        <4> QED
          BY <2>1, <2>3, <3>1, <4>1 DEF TasksOK
      <3>6. CASE EndRuntime(t)
        <4>1. runtime'[t] = "ended" /\ forced'[t] = (TasksOf(t) # {})
          BY <3>1, <3>6 DEF EndRuntime
        <4> QED
          BY <2>1, <2>3, <4>1 DEF TasksOK
      <3>7. CASE Execute(t)
        <4>1. runtime' = runtime /\ forced' = forced /\ pc' = pc
          BY <3>7 DEF Execute, runtimeVars
        <4> QED
          BY <2>1, <2>3, <3>1, <4>1 DEF TasksOK
      <3> QED
        BY <1>2, <3>2, <3>3, <3>4, <3>5, <3>6, <3>7 DEF ProcessStep
    <2> QED
      BY <2>2, <2>3
  <1>3. CASE UNCHANGED vars
    BY <1>3 DEF vars, runtimeVars, Tasks, TasksOK, TasksOf
  <1> QED
    BY <1>1, <1>2, <1>3 DEF Next, ProcessStep

LEMMA InitTasks == Init => Tasks
  BY DEF Init, Tasks, TasksOK

-----------------------------------------------------------------------------
(* What a command that is sent does to its channel.                        *)
LEMMA EnqueueLast ==
    ASSUME QueueOK, NEW t \in Transports, NEW op, NEW c, NEW i, Enqueue(t, op, c, i),
           [op |-> op, config |-> c, id |-> i, awaited |-> TRUE] \in Commands
    PROVE  /\ queue'[t] # <<>> /\ queue'[t][Len(queue'[t])].awaited
           /\ \A n \in DOMAIN queue'[t] : n # Len(queue'[t]) => n \in DOMAIN queue[t]
                                                              /\ queue'[t][n] = queue[t][n]
  <1>1. PICK new \in Commands : new.awaited /\ queue' = [queue EXCEPT ![t] = Append(queue[t], new)]
    BY DEF Enqueue
  <1>2. queue[t] \in Seq(Commands)
    BY DEF QueueOK
  <1>3. queue'[t] = Append(queue[t], new)
    BY <1>1 DEF QueueOK
  <1>4. /\ Append(queue[t], new) # <<>>
        /\ Len(Append(queue[t], new)) = Len(queue[t]) + 1
        /\ Append(queue[t], new)[Len(queue[t]) + 1] = new
        /\ \A n \in DOMAIN Append(queue[t], new) : n # Len(queue[t]) + 1 =>
              n \in DOMAIN queue[t] /\ Append(queue[t], new)[n] = queue[t][n]
    BY <1>2
  <1> QED
    BY <1>1, <1>3, <1>4

(* When a wait has begun, its command is the last one, the only one that   *)
(* is awaited, and nobody has answered yet.                                *)
LEMMA WaitBegins ==
    ASSUME TypeInv, NEW t \in Transports, WaitOK(t), NEW op, NEW c, NEW i, Enqueue(t, op, c, i),
           [op |-> op, config |-> c, id |-> i, awaited |-> TRUE] \in Commands,
           ~Awaits(t), Awaits(t)', reply' = reply
    PROVE  WaitOK(t)'
  <1>1. ~reply'[t] /\ \A n \in DOMAIN queue[t] : ~queue[t][n].awaited
    BY DEF WaitOK
  <1>2. QueueOK
    BY DEF TypeInv, TypeOK, QueueOK
  <1>3. /\ queue'[t] # <<>> /\ queue'[t][Len(queue'[t])].awaited
        /\ \A n \in DOMAIN queue'[t] : n # Len(queue'[t]) => n \in DOMAIN queue[t]
                                                           /\ queue'[t][n] = queue[t][n]
    BY <1>2, EnqueueLast
  <1>4. pc'[t] # "join"
    BY DEF Awaits
  <1> QED
    BY <1>1, <1>3, <1>4 DEF WaitOK

(* When a wait is over, nothing is left that somebody awaits: the answer   *)
(* was to the last command, or the receiver is gone.                       *)
LEMMA WaitEnds ==
    ASSUME TypeInv, NEW t \in Transports, WaitOK(t), AwaitEngine(t), Awaits(t), ~Awaits(t)',
           pc'[t] = "join" => runtime'[t] # "up"
    PROVE  WaitOK(t)'
  <1>1. CASE reply[t] /\ reply' = [reply EXCEPT ![t] = FALSE] /\ queue' = queue
    <2>1. ~reply'[t] /\ queue'[t] = <<>>
      BY <1>1 DEF WaitOK, TypeInv, TypeOK
    <2> QED
      BY <2>1 DEF WaitOK
  <1>2. CASE ~reply[t] /\ DropReceiver(t) /\ reply' = reply
    <2>1. queue[t] \in Seq(Commands)
      BY DEF TypeInv, TypeOK
    <2>2. queue'[t] = [n \in DOMAIN queue[t] |-> [queue[t][n] EXCEPT !.awaited = FALSE]]
      BY <1>2 DEF DropReceiver, TypeInv, TypeOK
    <2>3. ASSUME NEW n \in DOMAIN queue'[t]
          PROVE  ~queue'[t][n].awaited
      <3>1. n \in DOMAIN queue[t] /\ queue'[t][n] = [queue[t][n] EXCEPT !.awaited = FALSE]
        BY <2>2
      <3>2. PICK command \in Commands : command = queue[t][n]
        BY <2>1, <3>1
      <3>3. ~[command EXCEPT !.awaited = FALSE].awaited
        BY DEF Commands
      <3> QED
        BY <3>1, <3>2, <3>3
    <2> QED
      BY <1>2, <2>3 DEF WaitOK
  <1> QED
    BY <1>1, <1>2 DEF AwaitEngine

(* The engine comes to the awaited command last, and answers it then.      *)
LEMMA ExecutedWait ==
    ASSUME TypeInv, NEW t \in Transports, WaitOK(t), Execute(t)
    PROVE  WaitOK(t)'
  <1>1. queue[t] \in Seq(Commands) /\ queue[t] # <<>>
    BY DEF Execute, TypeInv, TypeOK
  <1>2. /\ queue'[t] = Tail(queue[t]) /\ reply'[t] = Head(queue[t]).awaited
        /\ pc' = pc /\ runtime' = runtime
    BY DEF Execute, runtimeVars, TypeInv, TypeOK
  <1>3. /\ Len(queue[t]) \in Nat \ {0} /\ 1 \in DOMAIN queue[t]
        /\ Head(queue[t]) = queue[t][1] /\ Len(Tail(queue[t])) = Len(queue[t]) - 1
        /\ Tail(queue[t]) = <<>> <=> Len(queue[t]) = 1
        /\ \A n \in DOMAIN Tail(queue[t]) : n \in Nat /\ n + 1 \in DOMAIN queue[t]
                                            /\ Tail(queue[t])[n] = queue[t][n + 1]
    <2>1. PICK s \in Seq(Commands) : s = queue[t] /\ s # <<>>
      BY <1>1
    <2>2. /\ Len(s) \in Nat \ {0} /\ DOMAIN s = 1 .. Len(s) /\ Head(s) = s[1]
          /\ Tail(s) \in Seq(Commands) /\ Len(Tail(s)) = Len(s) - 1
          /\ \A n \in 1 .. Len(Tail(s)) : Tail(s)[n] = s[n + 1]
      BY <2>1
    <2>3. \A r \in Seq(Commands) : DOMAIN r = 1 .. Len(r) /\ (r = <<>> <=> Len(r) = 0)
      OBVIOUS
    <2>4. DOMAIN Tail(s) = 1 .. Len(Tail(s)) /\ (Tail(s) = <<>> <=> Len(Tail(s)) = 0)
      <3>1. Tail(s) \in Seq(Commands)
        BY <2>2
      <3> QED
        BY <2>3, <3>1, Zenon
    <2>5. Tail(s) = <<>> <=> Len(s) = 1
      BY <2>2, <2>4
    <2>6. ASSUME NEW n \in DOMAIN Tail(s)
          PROVE  n \in Nat /\ n + 1 \in DOMAIN s /\ Tail(s)[n] = s[n + 1]
      BY <2>2, <2>4
    <2>7. 1 \in DOMAIN s
      BY <2>2
    <2> QED
      BY <2>1, <2>2, <2>5, <2>6, <2>7
  <1>4. CASE ~Awaits(t)
    <2>1. ~reply'[t]
      BY <1>2, <1>3, <1>4 DEF WaitOK
    <2>2. \A n \in DOMAIN queue'[t] : ~queue'[t][n].awaited
      BY <1>2, <1>3, <1>4 DEF WaitOK
    <2> QED
      BY <1>2, <1>4, <2>1, <2>2 DEF WaitOK, Awaits
  <1>5. CASE Awaits(t)
    <2>1. ~reply[t] /\ queue[t][Len(queue[t])].awaited
          /\ \A n \in DOMAIN queue[t] : n # Len(queue[t]) => ~queue[t][n].awaited
      BY <1>1, <1>5 DEF WaitOK
    <2>2. CASE Len(queue[t]) = 1
      <3>1. reply'[t] /\ queue'[t] = <<>>
        BY <1>2, <1>3, <2>1, <2>2
      <3> QED
        BY <1>2, <1>5, <3>1 DEF WaitOK, Awaits
    <2>3. CASE Len(queue[t]) # 1
      <3>1. ~reply'[t] /\ queue'[t] # <<>>
        BY <1>2, <1>3, <2>1, <2>3
      <3>2. Len(queue'[t]) = Len(queue[t]) - 1 /\ Len(queue'[t]) \in DOMAIN Tail(queue[t])
        BY <1>1, <1>2, <1>3, <2>3
      <3>3. queue'[t][Len(queue'[t])].awaited
        <4>1. queue'[t][Len(queue'[t])] = queue[t][Len(queue'[t]) + 1]
          BY <1>2, <1>3, <3>2
        <4>2. Len(queue'[t]) + 1 = Len(queue[t])
          BY <1>3, <3>2
        <4> QED
          BY <2>1, <4>1, <4>2
      <3>4. ASSUME NEW n \in DOMAIN queue'[t], n # Len(queue'[t])
            PROVE  ~queue'[t][n].awaited
        <4>1. n + 1 \in DOMAIN queue[t] /\ queue'[t][n] = queue[t][n + 1] /\ n \in Nat
          BY <1>2, <1>3
        <4>2. n + 1 # Len(queue[t])
          BY <1>3, <3>2, <3>4, <4>1
        <4> QED
          BY <2>1, <4>1, <4>2
      <3> QED
        BY <1>2, <1>5, <3>1, <3>3, <3>4 DEF WaitOK, Awaits
    <2> QED
      BY <2>2, <2>3
  <1> QED
    BY <1>4, <1>5

LEMMA WaitStep ==
    ASSUME TypeInv, NEW t \in Transports, WaitOK(t), ProcessStep(t)
    PROVE  WaitOK(t)'
  <1>1. pc \in [Transports -> Steps] /\ runtime \in [Transports -> {"up", "stopping", "ended"}]
    BY DEF TypeInv, TypeOK, Steps
  <1>2. ASSUME NEW c \in Configs, NEW i \in Ids, Register(t, c, i)
        PROVE  WaitOK(t)'
    <2>1. Enqueue(t, "register", c, i) /\ ~Awaits(t) /\ Awaits(t)' /\ reply' = reply
      BY <1>1, <1>2 DEF Register, At, Awaits
    <2>2. [op |-> "register", config |-> c, id |-> i, awaited |-> TRUE] \in Commands
      BY DEF Commands
    <2> QED
      BY <2>1, <2>2, WaitBegins
  <1>3. ASSUME NEW c \in Configs, SendUnregister(t, c), pc[t] \in {"idle", "drop"}
        PROVE  WaitOK(t)'
    <2>1. Enqueue(t, "unregister", c, None) /\ ~Awaits(t) /\ Awaits(t)' /\ reply' = reply
      BY <1>1, <1>3 DEF SendUnregister, At, Awaits
    <2>2. [op |-> "unregister", config |-> c, id |-> None, awaited |-> TRUE] \in Commands
      BY DEF Commands
    <2> QED
      BY <2>1, <2>2, WaitBegins
  <1>4. CASE ShutdownVsomeipApp(t)
    <2>1. Enqueue(t, "stop", None, None) /\ ~Awaits(t) /\ Awaits(t)' /\ reply' = reply
      BY <1>1, <1>4 DEF ShutdownVsomeipApp, At, Awaits
    <2>2. [op |-> "stop", config |-> None, id |-> None, awaited |-> TRUE] \in Commands
      BY DEF Commands
    <2> QED
      BY <2>1, <2>2, WaitBegins
  <1>5. CASE AwaitRegister(t) \/ AwaitUnregister(t) \/ SignalShutdown(t)
    <2>1. AwaitEngine(t) /\ Awaits(t) /\ pc'[t] \in {"idle", "drop", "join"}
      BY <1>1, <1>5 DEF AwaitRegister, AwaitUnregister, ReturnFromUnregister, SignalShutdown, At, Awaits
    <2>2. pc'[t] = "join" => runtime'[t] = "stopping"
      BY <1>1, <1>5 DEF AwaitRegister, AwaitUnregister, ReturnFromUnregister, SignalShutdown, At
    <2> QED
      BY <2>1, <2>2, WaitEnds DEF Awaits
  <1>6. CASE Join(t) \/ \E who \in Messages \cup {"owner"} : BeginDrop(t, who)
    <2>1. pc[t] \in {"idle", "join"} /\ reply' = reply /\ queue' = queue /\ pc'[t] \in {"drop", "dropped"}
      BY <1>1, <1>6 DEF Join, BeginDrop, At
    <2> QED
      BY <2>1 DEF WaitOK, Awaits
  <1>7. CASE EndRuntime(t)
    <2>1. pc' = pc /\ reply' = reply /\ queue' = queue /\ runtime'[t] = "ended"
      BY <1>1, <1>7 DEF EndRuntime
    <2> QED
      BY <2>1 DEF WaitOK, Awaits
  <1>8. CASE Execute(t)
    BY <1>8, ExecutedWait
  <1> QED
    BY <1>2, <1>3, <1>4, <1>5, <1>6, <1>7, <1>8 DEF ProcessStep, OwnerStep, DropStep, CallUnregister, UnregisterNext

LEMMA WaitsStep == TypeInv /\ Waits /\ [Next]_vars => Waits'
  <1> SUFFICES ASSUME TypeInv, Waits, [Next]_vars, NEW u \in Transports
               PROVE  WaitOK(u)'
    BY DEF Waits
  <1>1. WaitOK(u)
    BY DEF Waits
  <1>2. ASSUME NEW m \in Messages, CallbackStep(m)
        PROVE  WaitOK(u)'
    BY <1>1, <1>2, CallbackSteps DEF Others, runtimeVars, WaitOK, Awaits
  <1>3. ASSUME NEW t \in Transports, ProcessStep(t)
        PROVE  WaitOK(u)'
    <2>1. CASE u = t
      BY <1>1, <1>3, <2>1, WaitStep
    <2>2. CASE u # t
      <3>1. pc'[u] = pc[u] /\ reply'[u] = reply[u] /\ queue'[u] = queue[u] /\ runtime'[u] = runtime[u]
        BY <1>3, <2>2, Elsewhere
      <3> QED
        BY <1>1, <3>1 DEF WaitOK, Awaits
    <2> QED
      BY <2>1, <2>2
  <1>4. CASE UNCHANGED vars
    BY <1>1, <1>4 DEF vars, runtimeVars, WaitOK, Awaits
  <1> QED
    BY <1>2, <1>3, <1>4 DEF Next, ProcessStep

LEMMA InitWaits == Init => Waits
  BY DEF Init, Waits, WaitOK, Awaits

-----------------------------------------------------------------------------
LEMMA OneCommand ==
    ASSUME NEW x
    PROVE  Append(<<>>, x) = <<x>> /\ Head(<<x>>) = x /\ Tail(<<x>>) = <<>> /\ <<x>> # <<>>
  <1>1. <<>> \in Seq({x}) /\ <<x>> \in Seq({x})
    OBVIOUS
  <1> QED
    BY <1>1

(* Nobody has given up before a step after which nobody has; and a wait    *)
(* that has ended was answered.                                            *)
LEMMA Answer ==
    ASSUME NEW t \in Transports, AwaitEngine(t), ~gaveUp'
    PROVE  reply[t] /\ reply' = [reply EXCEPT ![t] = FALSE] /\ queue' = queue /\ ~gaveUp
  BY DEF AwaitEngine

LEMMA NotBefore == [Next]_vars /\ ~gaveUp' /\ TypeInv => ~gaveUp
  <1> SUFFICES ASSUME [Next]_vars, ~gaveUp', TypeInv
               PROVE  ~gaveUp
    OBVIOUS
  <1>1. ASSUME NEW m \in Messages, CallbackStep(m)
        PROVE  ~gaveUp
    BY <1>1, CallbackSteps DEF Others
  <1>2. ASSUME NEW t \in Transports, ProcessStep(t)
        PROVE  ~gaveUp
    BY <1>2, Answer DEF ProcessStep, OwnerStep, DropStep, Register, CallUnregister, AwaitRegister, BeginDrop,
       UnregisterNext, SendUnregister, AwaitUnregister, ShutdownVsomeipApp, SignalShutdown, Join,
       EndRuntime, Execute
  <1>3. CASE UNCHANGED vars
    BY <1>3 DEF vars
  <1> QED
    BY <1>1, <1>2, <1>3 DEF Next, ProcessStep

(* What the steps that do not execute commands do to a channel.            *)
LEMMA ChannelStep ==
    ASSUME TypeInv, NEW t \in Transports, ChannelOK(t), ~gaveUp', OwnerStep(t) \/ DropStep(t)
    PROVE  ChannelOK(t)'
  <1>1. /\ pc \in [Transports -> Steps] /\ config \in [Transports -> Configs \cup {None}]
        /\ reply \in [Transports -> BOOLEAN] /\ queue \in [Transports -> Seq(Commands)]
        /\ holder \in [Ids -> (Transports \X Configs) \cup {None}]
    BY DEF TypeInv, TypeOK, Steps
  <1>2. ASSUME NEW op, NEW c, NEW i, Enqueue(t, op, c, i), queue[t] = <<>>
        PROVE  queue'[t] = <<Command(op, c, i)>>
    BY <1>1, <1>2, OneCommand DEF Enqueue, Command
  <1>3. ASSUME AwaitEngine(t), pc[t] \in {"awaitRegister", "awaitUnregister", "awaitStop"}
        PROVE  ~reply'[t] /\ queue'[t] = <<>>
    <2>1. reply[t] /\ reply' = [reply EXCEPT ![t] = FALSE] /\ queue' = queue
      BY <1>3, Answer
    <2>2. queue[t] = <<>>
      BY <1>3, <2>1 DEF ChannelOK, Answered, Pending
    <2> QED
      BY <1>1, <2>1, <2>2
  <1>4. ASSUME NEW c \in Configs, NEW i \in Ids, Register(t, c, i)
        PROVE  ChannelOK(t)'
    <2>1. /\ ~reply'[t] /\ pc'[t] = "awaitRegister" /\ holder'[i] = <<t, c>> /\ queue[t] = <<>>
      BY <1>1, <1>4 DEF Register, At, ChannelOK
    <2>2. queue'[t] = <<Command("register", c, i)>>
      BY <1>2, <1>4, <2>1 DEF Register
    <2> QED
      BY <2>1, <2>2 DEF ChannelOK, Pending, Command
  <1>5. ASSUME NEW c \in Configs, SendUnregister(t, c), pc[t] \in {"idle", "drop"}
        PROVE  ChannelOK(t)'
    <2>1. ~reply'[t] /\ pc'[t] = "awaitUnregister" /\ config'[t] = c /\ queue[t] = <<>>
      BY <1>1, <1>5 DEF SendUnregister, At, ChannelOK
    <2>2. queue'[t] = <<Command("unregister", c, None)>>
      BY <1>2, <1>5, <2>1 DEF SendUnregister
    <2> QED
      BY <2>1, <2>2 DEF ChannelOK, Pending, Command
  <1>6. CASE ShutdownVsomeipApp(t)
    <2>1. ~reply'[t] /\ pc'[t] = "awaitStop" /\ queue[t] = <<>>
      BY <1>1, <1>6 DEF ShutdownVsomeipApp, At, ChannelOK
    <2>2. queue'[t] = <<Command("stop", None, None)>>
      BY <1>2, <1>6, <2>1 DEF ShutdownVsomeipApp
    <2> QED
      BY <2>1, <2>2 DEF ChannelOK, Pending, Command
  <1>7. CASE AwaitRegister(t) \/ AwaitUnregister(t) \/ SignalShutdown(t)
    <2>1. ~reply'[t] /\ queue'[t] = <<>>
      BY <1>3, <1>7 DEF AwaitRegister, AwaitUnregister, SignalShutdown
    <2>2. pc'[t] \in {"idle", "drop", "join"}
      BY <1>1, <1>7 DEF AwaitRegister, AwaitUnregister, ReturnFromUnregister, SignalShutdown, At
    <2> QED
      BY <2>1, <2>2 DEF ChannelOK
  <1>8. CASE Join(t) \/ \E who \in Messages \cup {"owner"} : BeginDrop(t, who)
    <2>1. pc[t] \in {"idle", "join"} /\ reply' = reply /\ queue' = queue /\ pc'[t] \in {"drop", "dropped"}
      BY <1>1, <1>8 DEF Join, BeginDrop, At
    <2> QED
      BY <2>1 DEF ChannelOK
  <1> QED
    BY <1>4, <1>5, <1>6, <1>7, <1>8 DEF OwnerStep, DropStep, CallUnregister, UnregisterNext

(* The engine finds the awaited command in the channel, and leaves it      *)
(* empty with the answer on its way.                                       *)
LEMMA ExecuteStep ==
    ASSUME TypeInv, NEW t \in Transports, ChannelOK(t), EntryOK(t), Execute(t)
    PROVE  ChannelOK(t)' /\ EntryOK(t)'
  <1>1. /\ pc \in [Transports -> Steps] /\ config \in [Transports -> Configs \cup {None}]
        /\ reply \in [Transports -> BOOLEAN] /\ queue \in [Transports -> Seq(Commands)]
        /\ handlerTable \in [Transports -> [Configs -> Ids \cup {None}]]
    BY DEF TypeInv, TypeOK, Steps
  <1>2. queue[t] # <<>> /\ pc' = pc /\ config' = config /\ holder' = holder
        /\ queue'[t] = Tail(queue[t]) /\ reply'[t] = Head(queue[t]).awaited
    BY <1>1 DEF Execute
  <1>3. ASSUME NEW op, NEW c, NEW i, Pending(t, op, c, i)
        PROVE  /\ Answered(t)'
               /\ op = "register" => handlerTable' = [handlerTable EXCEPT ![t][c] = i]
               /\ op = "unregister" => handlerTable' = [handlerTable EXCEPT ![t][c] = None]
               /\ op = "stop" => handlerTable' = handlerTable
    <2>1. queue[t] = <<Command(op, c, i)>>
      BY <1>3 DEF Pending
    <2>2. Head(queue[t]) = Command(op, c, i) /\ Tail(queue[t]) = <<>>
      BY <2>1, OneCommand
    <2>3. Head(queue[t]).op = op /\ Head(queue[t]).config = c /\ Head(queue[t]).id = i /\ Head(queue[t]).awaited
      BY <2>2 DEF Command
    <2>4. Answered(t)'
      BY <1>2, <2>2, <2>3 DEF Answered
    <2> QED
      BY <2>3, <2>4 DEF Execute
  <1>4. CASE pc[t] = "awaitRegister"
    <2>1. PICK c \in Configs, i \in Ids : Pending(t, "register", c, i) /\ holder[i] = <<t, c>>
      BY <1>2, <1>4 DEF ChannelOK, Answered
    <2>2. Answered(t)' /\ handlerTable' = [handlerTable EXCEPT ![t][c] = i]
      BY <1>3, <2>1
    <2>3. \A d \in Configs : handlerTable'[t][d] = IF d = c THEN i ELSE handlerTable[t][d]
      BY <1>1, <2>2, TableUpdate
    <2>4. EntryOK(t)'
      BY <1>2, <2>1, <2>3 DEF EntryOK
    <2>5. ChannelOK(t)'
      BY <1>2, <1>4, <2>2 DEF ChannelOK
    <2> QED
      BY <2>4, <2>5
  <1>5. CASE pc[t] = "awaitUnregister"
    <2>1. config[t] \in Configs /\ Pending(t, "unregister", config[t], None)
      BY <1>2, <1>5 DEF ChannelOK, Answered
    <2>2. Answered(t)' /\ handlerTable' = [handlerTable EXCEPT ![t][config[t]] = None]
      BY <1>3, <2>1
    <2>3. \A d \in Configs : handlerTable'[t][d] = IF d = config[t] THEN None ELSE handlerTable[t][d]
      BY <1>1, <2>1, <2>2, TableUpdate
    <2>4. EntryOK(t)'
      BY <1>2, <2>3 DEF EntryOK
    <2>5. ChannelOK(t)'
      BY <1>2, <1>5, <2>2, <2>3 DEF ChannelOK
    <2> QED
      BY <2>4, <2>5
  <1>6. CASE pc[t] = "awaitStop"
    <2>1. Answered(t)' /\ handlerTable' = handlerTable
      BY <1>2, <1>3, <1>6 DEF ChannelOK, Answered
    <2> QED
      BY <1>2, <1>6, <2>1 DEF ChannelOK, EntryOK
  <1>7. pc[t] \in {"awaitRegister", "awaitUnregister", "awaitStop"}
    BY <1>1, <1>2 DEF ChannelOK, Steps
  <1> QED
    BY <1>4, <1>5, <1>6, <1>7

(* A function that is taken was free, and one that is released has lost    *)
(* its entry: so every entry is still that of its holder.                  *)
LEMMA EntryStep ==
    ASSUME TypeInv, NEW t \in Transports, ChannelOK(t), EntryOK(t), ~gaveUp', OwnerStep(t) \/ DropStep(t)
    PROVE  EntryOK(t)'
  <1>1. /\ handlerTable \in [Transports -> [Configs -> Ids \cup {None}]]
        /\ holder \in [Ids -> (Transports \X Configs) \cup {None}]
    BY DEF TypeInv, TypeOK
  <1>2. handlerTable' = handlerTable
    BY DEF OwnerStep, DropStep, Register, CallUnregister, AwaitRegister, BeginDrop,
       UnregisterNext, SendUnregister, AwaitUnregister, ShutdownVsomeipApp, SignalShutdown, Join, engineVars
  <1> SUFFICES ASSUME NEW c \in Configs, handlerTable[t][c] # None
               PROVE  holder'[handlerTable[t][c]] = <<t, c>>
    BY <1>2 DEF EntryOK
  <1>3. handlerTable[t][c] \in Ids /\ holder[handlerTable[t][c]] = <<t, c>> /\ <<t, c>> # None
    BY <1>1, Nothing DEF EntryOK
  <1>4. ASSUME NEW d \in Configs, NEW i \in Ids, Register(t, d, i)
        PROVE  holder'[handlerTable[t][c]] = <<t, c>>
    BY <1>1, <1>3, <1>4 DEF Register
  <1>5. CASE AwaitUnregister(t)
    <2>1. Answered(t) /\ (c = config[t] => handlerTable[t][c] = None)
      <3>1. reply[t] /\ pc[t] = "awaitUnregister"
        BY <1>5, Answer DEF AwaitUnregister
      <3> QED
        BY <3>1 DEF ChannelOK, Pending
    <2>2. \A i \in Ids : holder'[i] = IF holder[i] = <<t, config[t]>> THEN None ELSE holder[i]
      BY <1>5 DEF AwaitUnregister, ReleaseMessageHandler, HeldBy
    <2> QED
      BY <1>3, <2>1, <2>2
  <1>6. holder' = holder \/ AwaitUnregister(t) \/ \E d \in Configs, i \in Ids : Register(t, d, i)
    BY DEF OwnerStep, DropStep, CallUnregister, AwaitRegister, BeginDrop, UnregisterNext,
       SendUnregister, ShutdownVsomeipApp, SignalShutdown, Join
  <1> QED
    BY <1>3, <1>4, <1>5, <1>6

(* Who holds the function a callback is in changes by a release only, and  *)
(* that overtakes the callback.                                            *)
LEMMA AddresseeKept ==
    ASSUME TypeInv, NEW t \in Transports, ProcessStep(t), NEW m \in Messages, AddresseeOK(m)
    PROVE  AddresseeOK(m)'
  <1>1. /\ message[m] \in MessageRecords /\ message \in [Messages -> MessageRecords]
        /\ holder \in [Ids -> (Transports \X Configs) \cup {None}]
    BY DEF TypeInv, TypeOK, MessageRecords
  <1>2. /\ message'[m].id = message[m].id /\ message'[m].addressee = message[m].addressee
        /\ message'[m].listener = message[m].listener
        /\ message'[m].overtaken = message[m].overtaken \/ message'[m].overtaken = TRUE
    BY MessagesKept
  <1>3. message'[m].stage \in {"entered", "hasTransport"} => message'[m].stage = message[m].stage
    BY MessagesKept
  <1>4. ASSUME message'[m].stage \in {"entered", "hasTransport"}, ~message'[m].overtaken
        PROVE  holder'[message[m].id] = message[m].addressee
    <2>1. message[m].stage \in {"entered", "hasTransport"} /\ ~message[m].overtaken
      BY <1>2, <1>3, <1>4
    <2>2. message[m].id \in Ids /\ holder[message[m].id] = message[m].addressee
          /\ message[m].addressee # None
      BY <2>1, Nothing DEF TypeInv, CallbacksOK, CallbackOK, AddresseeOK
    <2>3. ASSUME NEW c \in Configs, NEW i \in Ids, Register(t, c, i)
          PROVE  holder'[message[m].id] = message[m].addressee
      BY <1>1, <2>2, <2>3 DEF Register
    <2>4. CASE AwaitUnregister(t)
      <3> DEFINE ids == HeldBy(t, config[t])
      <3>1. /\ message'[m] = IF message[m].stage \in {"entered", "hasTransport"} /\ message[m].id \in ids
                             THEN [message[m] EXCEPT !.overtaken = TRUE] ELSE message[m]
            /\ \A i \in Ids : holder'[i] = IF i \in ids THEN None ELSE holder[i]
        BY <2>4 DEF AwaitUnregister, ReleaseMessageHandler
      <3> HIDE DEF ids
      <3>2. message[m].id \notin ids
        <4> SUFFICES ASSUME message[m].id \in ids
                     PROVE  FALSE
          OBVIOUS
        <4>1. message'[m] = [message[m] EXCEPT !.overtaken = TRUE]
          BY <2>1, <3>1
        <4>2. message'[m].overtaken = TRUE
          BY <1>1, <4>1 DEF MessageRecords
        <4> QED
          BY <1>4, <4>2
      <3> QED
        BY <2>2, <3>1, <3>2
    <2>5. holder' = holder \/ AwaitUnregister(t) \/ \E c \in Configs, i \in Ids : Register(t, c, i)
      BY DEF ProcessStep, OwnerStep, DropStep, CallUnregister, AwaitRegister, BeginDrop, UnregisterNext,
         SendUnregister, ShutdownVsomeipApp, SignalShutdown, Join, EndRuntime, Execute
    <2> QED
      BY <2>2, <2>3, <2>4, <2>5
  <1> QED
    BY <1>2, <1>4 DEF AddresseeOK

(* A callback enters the function of its addressee, and looks up who holds *)
(* it: both as long as they are the same.                                  *)
LEMMA AddresseeStep ==
    ASSUME TypeInv, NEW m \in Messages, CallbackStep(m), AddresseeOK(m),
           \A t \in Transports : EntryOK(t)
    PROVE  AddresseeOK(m)'
  <1>1. message[m] \in MessageRecords /\ message \in [Messages -> MessageRecords]
    BY DEF TypeInv, TypeOK, MessageRecords
  <1>2. ASSUME NEW value, Becomes(m, value)
        PROVE  message'[m] = value /\ holder' = holder
    BY <1>1, <1>2 DEF Becomes, Others
  <1>3. ASSUME NEW value, Becomes(m, value), value.stage \notin {"entered", "hasTransport"},
               value.listener = None
        PROVE  AddresseeOK(m)'
    BY <1>2, <1>3 DEF AddresseeOK
  <1>4. ASSUME Becomes(m, Out)
        PROVE  AddresseeOK(m)'
    BY <1>3, <1>4 DEF Out
  <1>5. ASSUME NEW stage \in {"running"}, Reaches(m, stage)
        PROVE  AddresseeOK(m)'
    <2>1. message'[m] = [message[m] EXCEPT !.stage = stage]
      BY <1>2, <1>5 DEF Reaches
    <2>2. /\ message'[m].stage = "running" /\ message'[m].listener = message[m].listener
          /\ message'[m].addressee = message[m].addressee /\ message'[m].overtaken = message[m].overtaken
      BY <1>1, <2>1 DEF MessageRecords
    <2> QED
      BY <2>2 DEF AddresseeOK
  <1>6. ASSUME NEW t \in Transports, NEW c \in Configs, Enter(m, t, c)
        PROVE  AddresseeOK(m)'
    <2>1. /\ message'[m] = [Out EXCEPT !.stage = "entered", !.id = handlerTable[t][c],
                                       !.addressee = <<t, c>>]
          /\ holder' = holder /\ handlerTable[t][c] # None
      BY <1>2, <1>6 DEF Enter
    <2>2. message'[m].id = handlerTable[t][c] /\ message'[m].addressee = <<t, c>>
          /\ message'[m].listener = None
      BY <2>1 DEF Out
    <2>3. holder[handlerTable[t][c]] = <<t, c>>
      BY <2>1 DEF EntryOK
    <2> QED
      BY <2>1, <2>2, <2>3 DEF AddresseeOK
  <1>7. CASE GetTransport(m)
    <2> DEFINE value == [message[m] EXCEPT !.stage = "hasTransport", !.storage = holder[message[m].id][1]]
    <2>1. CASE message[m].stage = "entered" /\ Becomes(m, value)
      <3>1. message'[m] = value /\ holder' = holder
        BY <1>2, <2>1
      <3>2. /\ message'[m].id = message[m].id /\ message'[m].listener = message[m].listener
            /\ message'[m].addressee = message[m].addressee /\ message'[m].overtaken = message[m].overtaken
        BY <1>1, <3>1 DEF MessageRecords
      <3> QED
        BY <2>1, <3>1, <3>2 DEF AddresseeOK
    <2> QED
      BY <1>4, <1>7, <2>1 DEF GetTransport
  <1>8. CASE GetListener(m)
    <2> DEFINE value == [message[m] EXCEPT !.stage = "hasListener", !.listener = holder[message[m].id]]
    <2>1. CASE message[m].stage = "hasTransport" /\ Becomes(m, value)
      <3>1. message'[m] = value
        BY <1>2, <2>1
      <3>2. /\ message'[m].stage = "hasListener" /\ message'[m].listener = holder[message[m].id]
            /\ message'[m].addressee = message[m].addressee /\ message'[m].overtaken = message[m].overtaken
        BY <1>1, <3>1 DEF MessageRecords
      <3> QED
        BY <2>1, <3>2 DEF AddresseeOK
    <2> QED
      BY <1>4, <1>8, <2>1 DEF GetListener
  <1>9. CASE Spawn(m)
    <2> DEFINE value == [Out EXCEPT !.stage = "spawned", !.storage = message[m].storage]
    <2>1. CASE Becomes(m, value)
      <3>1. value.stage = "spawned" /\ value.listener = None
        BY DEF Out
      <3> QED
        BY <1>3, <2>1, <3>1
    <2> QED
      BY <1>4, <1>9, <2>1 DEF Spawn
  <1> QED
    BY <1>4, <1>5, <1>6, <1>7, <1>8, <1>9 DEF CallbackStep, Start, Finish, DropTask

LEMMA ServingStep == TypeInv /\ Serving /\ [Next]_vars => Serving'
  <1> SUFFICES ASSUME TypeInv, [Next]_vars, ~gaveUp',
                      \A t \in Transports : ChannelOK(t) /\ EntryOK(t), \A m \in Messages : AddresseeOK(m)
               PROVE  /\ \A u \in Transports : (ChannelOK(u) /\ EntryOK(u))'
                      /\ \A n \in Messages : AddresseeOK(n)'
    BY NotBefore DEF Serving
  <1>1. ASSUME NEW m \in Messages, CallbackStep(m)
        PROVE  /\ \A u \in Transports : (ChannelOK(u) /\ EntryOK(u))'
               /\ \A n \in Messages : AddresseeOK(n)'
    <2>1. UNCHANGED Others /\ \A n \in Messages \ {m} : message'[n] = message[n]
      BY <1>1, CallbackSteps
    <2>2. \A u \in Transports : (ChannelOK(u) /\ EntryOK(u))'
      BY <2>1 DEF Others, engineVars, ChannelOK, EntryOK, Answered, Pending
    <2>3. \A n \in Messages \ {m} : AddresseeOK(n)'
      BY <2>1 DEF Others, AddresseeOK
    <2> QED
      BY <1>1, <2>2, <2>3, AddresseeStep
  <1>2. ASSUME NEW t \in Transports, ProcessStep(t)
        PROVE  /\ \A u \in Transports : (ChannelOK(u) /\ EntryOK(u))'
               /\ \A n \in Messages : AddresseeOK(n)'
    <2>1. ASSUME NEW u \in Transports, u # t
          PROVE  ChannelOK(u)' /\ EntryOK(u)'
      <3>1. /\ pc'[u] = pc[u] /\ config'[u] = config[u] /\ reply'[u] = reply[u]
            /\ queue'[u] = queue[u] /\ handlerTable'[u] = handlerTable[u]
            /\ \A i \in Ids, c \in Configs : holder'[i] = <<u, c>> <=> holder[i] = <<u, c>>
        BY <1>2, <2>1, Elsewhere
      <3>2. ChannelOK(u)'
        <4>1. /\ Answered(u)' <=> Answered(u)
              /\ \A op, c, i : Pending(u, op, c, i)' <=> Pending(u, op, c, i)
          BY <3>1 DEF Answered, Pending
        <4> QED
          BY <3>1, <4>1 DEF ChannelOK
      <3>3. \A c \in Configs : handlerTable[u][c] \in Ids \cup {None}
        BY DEF TypeInv, TypeOK
      <3>4. EntryOK(u)'
        BY <3>1, <3>3 DEF EntryOK
      <3> QED
        BY <3>2, <3>4
    <2>2. ChannelOK(t)' /\ EntryOK(t)'
      <3>1. CASE OwnerStep(t) \/ DropStep(t)
        BY <3>1, ChannelStep, EntryStep
      <3>2. CASE Execute(t)
        BY <3>2, ExecuteStep
      <3>3. CASE EndRuntime(t)
        BY <3>3 DEF EndRuntime, engineVars, ChannelOK, EntryOK, Answered, Pending
      <3> QED
        BY <1>2, <3>1, <3>2, <3>3 DEF ProcessStep
    <2> QED
      BY <1>2, <2>1, <2>2, AddresseeKept
  <1>3. CASE UNCHANGED vars
    <2>1. UNCHANGED <<holder, queue, handlerTable, pc, config, reply, message>>
      BY <1>3 DEF vars, engineVars
    <2>2. \A u \in Transports : ChannelOK(u)'
      BY <2>1 DEF ChannelOK, Answered, Pending
    <2>3. \A u \in Transports : EntryOK(u)'
      BY <2>1 DEF EntryOK
    <2>4. \A n \in Messages : AddresseeOK(n)'
      BY <2>1 DEF AddresseeOK
    <2> QED
      BY <2>2, <2>3, <2>4
  <1> QED
    BY <1>1, <1>2, <1>3 DEF Next, ProcessStep

LEMMA InitServing == Init => Serving
  <1> SUFFICES ASSUME Init
               PROVE  /\ \A u \in Transports : ChannelOK(u) /\ EntryOK(u)
                      /\ \A n \in Messages : AddresseeOK(n)
    BY DEF Serving
  <1>1. \A n \in Messages : message[n].stage = "out" /\ message[n].listener = None
    BY DEF Init, Out
  <1> QED
    BY <1>1 DEF Init, ChannelOK, EntryOK, AddresseeOK

-----------------------------------------------------------------------------
LEMMA Invariant == Spec => []Inv
  <1>1. Init => Inv
    BY InitTypeInv, InitTracking, InitTasks, InitWaits, InitServing DEF Inv
  <1>2. Inv /\ [Next]_vars => Inv'
    BY TypeStep, TrackingStep, TasksStep, WaitsStep, ServingStep DEF Inv
  <1> QED
    BY <1>1, <1>2, PTL DEF Spec

(* Type correctness: in particular no channel holds more than it has room  *)
(* for, although calls that gave up leave their commands behind.           *)
THEOREM TypeCorrect == Spec => []TypeOK
  <1>1. Inv => TypeOK
    BY DEF Inv, TypeInv
  <1> QED
    BY <1>1, Invariant, PTL

(* Drop (lib.rs) releases every extern function of its transport, also     *)
(* when its calls time out: the functions it has not come to are in its    *)
(* list, and nothing is registered once Drop has begun.                    *)
THEOREM DropReleasesEverything == Spec => []NothingHeldAfterDrop
  <1>1. Inv => NothingHeldAfterDrop
    <2> SUFFICES ASSUME Inv, NEW t \in Transports, NEW i \in Ids, pc[t] = "dropped", holder[i] # None
                 PROVE  holder[i][1] # t
      BY DEF NothingHeldAfterDrop
    <2>1. holder[i] \in Transports \X Configs
      BY DEF Inv, TypeInv, TypeOK
    <2>2. holder[i][2] \in Configs /\ holder[i] = <<holder[i][1], holder[i][2]>>
      BY <2>1
    <2> QED
      BY <2>2 DEF Inv, Tracking, TrackedOK
  <1> QED
    BY <1>1, Invariant, PTL

(* Once Drop has returned, no listener of its transport runs or will run,  *)
(* unless one outlasted the two seconds of the runtime's shutdown: what is *)
(* spawned on a runtime that has ended is dropped at once.                 *)
THEOREM DropLeavesQuiet == Spec => []QuietAfterDrop
  <1>1. Inv => QuietAfterDrop
    BY DEF Inv, Tasks, TasksOK, QuietAfterDrop
  <1> QED
    BY <1>1, Invariant, PTL

(* A Drop under way is never stuck, however late the engine answers: what  *)
(* it waits for is answered or still in the channel, where only commands   *)
(* nobody waits for any more are before it, and the runtime whose end it   *)
(* waits for has been told to end.                                         *)
THEOREM DropIsNeverStuck == Spec => []DropCanGoOn
  <1>1. Inv => DropCanGoOn
    <2> SUFFICES ASSUME Inv, NEW t \in Transports, dropper[t] # None, queue[t] = <<>>, runtime[t] # "stopping"
                 PROVE  \/ pc[t] = "drop" /\ Len(queue[t]) < MaxQueue
                        \/ Awaits(t) /\ reply[t]
                        \/ pc[t] = "join" /\ runtime[t] = "ended"
      BY DEF DropCanGoOn
    <2>1. WaitOK(t) /\ pc[t] \in Steps /\ runtime[t] \in {"up", "stopping", "ended"}
      BY DEF Inv, Waits, TypeInv, TypeOK, Steps
    <2>2. pc[t] \notin {"idle", "awaitRegister", "dropped"}
      BY DEF Inv, TypeInv, DroppersOK
    <2>3. Len(queue[t]) < MaxQueue
      BY ShutdownAssumption
    <2> QED
      BY <2>1, <2>2, <2>3 DEF WaitOK, Awaits, Steps
  <1> QED
    BY <1>1, Invariant, PTL

(* As long as every wait for an engine is answered, a message reaches a    *)
(* listener other than its addressee only when the extern function was     *)
(* released while a thread of vsomeip was in it.                           *)
THEOREM OnlyOvertakenStray == Spec => []StraysWereOvertaken
  <1>1. Inv => StraysWereOvertaken
    BY DEF Inv, Serving, AddresseeOK, StraysWereOvertaken
  <1> QED
    BY <1>1, Invariant, PTL
=============================================================================
