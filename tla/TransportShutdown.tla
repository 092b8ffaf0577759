------------------------- MODULE TransportShutdown -------------------------
(***************************************************************************)
(* Dropping a transport while its messages are under way: Drop of          *)
(* UPTransportVsomeip (lib.rs), the thread of its callback runtime         *)
(* (get_callback_runtime_handle) and the extern functions that vsomeip     *)
(* calls (call_shared_extern_fn of the proc macro crate).                  *)
(*                                                                         *)
(* vsomeip's threads enter an extern function and find out from the        *)
(* process-wide registry which transport and listener it serves at that    *)
(* moment; the listener then runs as a task of that transport's runtime.   *)
(* Meanwhile functions are released, by calls and by Drop, and go to other *)
(* listeners, of other transports too.                                     *)
(*                                                                         *)
(* Each transport has one owner, the task that makes its calls (several    *)
(* are the matter of ListenerLifecycle; Drop is alone in any case), but    *)
(* the last reference to it may be a listener's, and then Drop runs inside *)
(* that listener, on a worker of the very runtime it has to shut down.     *)
(***************************************************************************)
EXTENDS Naturals, Sequences, FiniteSets

CONSTANTS
    Ids,               \* the extern functions of the process
    Transports,        \* the UPTransportVsomeip instances of the process
    Configs,           \* request listeners, each with a key of its own
    Registrations,     \* the <<transport, config>> that the calls are about
    Messages,          \* messages that are under way at the same time
    None,              \* "no such thing"
    MaxQueue,          \* bound of the model: commands waiting for an engine
    EngineMayBeLate    \* whether an answer may take longer than the timeout

ASSUME ShutdownAssumption ==
    /\ MaxQueue \in Nat \ {0}
    /\ EngineMayBeLate \in BOOLEAN
    /\ Registrations \subseteq Transports \X Configs
    /\ None \notin Ids \cup Configs \cup Transports \cup Messages \cup (Transports \X Configs)
    /\ "owner" \notin Messages \cup {None}

VARIABLES
    holder,        \* holder[i]: the <<transport, config>> that holds i, or None
    queue,         \* queue[t]: the commands in t's channel, oldest first
    handlerTable,  \* handlerTable[t][c]: vsomeip's handler for c's key, or None
    appRunning,    \* appRunning[t]: whether t's vsomeip application runs
    pc,            \* pc[t]: what t's owner or its Drop does next
    config,        \* config[t]: the configuration t unregisters, or None
    reply,         \* reply[t]: whether the engine's answer is there
    listed,        \* listed[t]: what Drop has still to unregister
    dropper,       \* dropper[t]: who runs t's Drop, "owner" or the listener that
                   \*   is about a message, or None
    runtime,       \* runtime[t]: "up", "stopping", or "ended" (its thread is over)
    forced,        \* forced[t]: the runtime's thread stopped waiting for its tasks
    message,       \* message[m]: how far m has come, and with what
    gaveUp         \* history: some call has stopped waiting for an engine

engineVars == <<handlerTable, appRunning>>
runtimeVars == <<runtime, forced>>
vars == <<holder, queue, engineVars, pc, config, reply, listed, dropper, runtimeVars,
          message, gaveUp>>

Commands == [op : {"register"}, config : Configs, id : Ids, awaited : BOOLEAN]
            \cup [op : {"unregister"}, config : Configs, id : {None}, awaited : BOOLEAN]
            \cup [op : {"stop"}, config : {None}, id : {None}, awaited : BOOLEAN]

(* entered: in the extern function; hasTransport: get_message_handler_id_- *)
(* transport has answered; hasListener: so has get_listener_for_message_-  *)
(* handler_id; spawned, running, dropping: the task of the listener.       *)
Stages == {"out", "entered", "hasTransport", "hasListener", "spawned", "running", "dropping"}
Out == [stage |-> "out", id |-> None, addressee |-> None, storage |-> None,
        listener |-> None, overtaken |-> FALSE]

TypeOK ==
    /\ holder \in [Ids -> (Transports \X Configs) \cup {None}]
    /\ queue \in [Transports -> Seq(Commands)]
    /\ \A t \in Transports : Len(queue[t]) <= MaxQueue
    /\ handlerTable \in [Transports -> [Configs -> Ids \cup {None}]]
    /\ appRunning \in [Transports -> BOOLEAN]
    /\ pc \in [Transports -> {"idle", "awaitRegister", "awaitUnregister",
                              "drop", "awaitStop", "join", "dropped"}]
    /\ config \in [Transports -> Configs \cup {None}]
    /\ reply \in [Transports -> BOOLEAN]
    /\ listed \in [Transports -> SUBSET Configs]
    /\ dropper \in [Transports -> Messages \cup {"owner", None}]
    /\ runtime \in [Transports -> {"up", "stopping", "ended"}]
    /\ forced \in [Transports -> BOOLEAN]
    /\ message \in [Messages -> [stage : Stages, id : Ids \cup {None},
                                 addressee : (Transports \X Configs) \cup {None},
                                 storage : Transports \cup {None},
                                 listener : (Transports \X Configs) \cup {None},
                                 overtaken : BOOLEAN]]
    /\ gaveUp \in BOOLEAN

Init ==
    /\ holder = [i \in Ids |-> None]
    /\ queue = [t \in Transports |-> <<>>]
    /\ handlerTable = [t \in Transports |-> [c \in Configs |-> None]]
    /\ appRunning = [t \in Transports |-> TRUE]
    /\ pc = [t \in Transports |-> "idle"]
    /\ config = [t \in Transports |-> None]
    /\ reply = [t \in Transports |-> FALSE]
    /\ listed = [t \in Transports |-> {}]
    /\ dropper = [t \in Transports |-> None]
    /\ runtime = [t \in Transports |-> "up"]
    /\ forced = [t \in Transports |-> FALSE]
    /\ message = [m \in Messages |-> Out]
    /\ gaveUp = FALSE

-----------------------------------------------------------------------------
HeldBy(t, c) == {i \in Ids : holder[i] = <<t, c>>}
At(t, step, c) == pc' = [pc EXCEPT ![t] = step] /\ config' = [config EXCEPT ![t] = c]

(* Mutant: the channel has no limit.                                       *)
EnqueueUnbounded(t, op, c, i) ==
    queue' = [queue EXCEPT ![t] =
                Append(@, [op |-> op, config |-> c, id |-> i, awaited |-> TRUE])]

Enqueue(t, op, c, i) ==
    /\ Len(queue[t]) < MaxQueue
    /\ queue' = [queue EXCEPT ![t] =
                   Append(@, [op |-> op, config |-> c, id |-> i, awaited |-> TRUE])]

(* The engine's answer is there, or the wait for it times out and the      *)
(* command stays queued with nobody to answer.                             *)
DropReceiver(t) ==
    queue' = [queue EXCEPT ![t] = [n \in DOMAIN @ |-> [@[n] EXCEPT !.awaited = FALSE]]]

AwaitEngine(t) ==
    \/ /\ reply[t]
       /\ reply' = [reply EXCEPT ![t] = FALSE]
       /\ UNCHANGED <<queue, gaveUp>>
    \/ /\ EngineMayBeLate
       /\ ~reply[t]
       /\ DropReceiver(t)
       /\ gaveUp' = TRUE
       /\ UNCHANGED reply

-----------------------------------------------------------------------------
(* register_listener takes a function and sends its command, or fails at   *)
(* once.  (What may happen in between is the matter of ListenerLifecycle.) *)
Register(t, c, i) ==
    /\ pc[t] = "idle"
    /\ <<t, c>> \in Registrations
    /\ HeldBy(t, c) = {} /\ holder[i] = None
    /\ holder' = [holder EXCEPT ![i] = <<t, c>>]
    /\ Enqueue(t, "register", c, i)
    /\ At(t, "awaitRegister", None)
    /\ UNCHANGED <<engineVars, reply, listed, dropper, runtimeVars, message, gaveUp>>

AwaitRegister(t) ==
    /\ pc[t] = "awaitRegister"
    /\ AwaitEngine(t)
    /\ At(t, "idle", None)
    /\ UNCHANGED <<holder, engineVars, listed, dropper, runtimeVars, message>>

-----------------------------------------------------------------------------
(* unregister_listener, called by the owner or in Drop's loop, which takes *)
(* the next configuration of its list, in no particular order.             *)
SendUnregister(t, c) ==
    /\ Enqueue(t, "unregister", c, None)
    /\ At(t, "awaitUnregister", c)
    /\ UNCHANGED <<holder, engineVars, reply, dropper, runtimeVars, message, gaveUp>>

CallUnregister(t, c) ==
    /\ pc[t] = "idle"
    /\ <<t, c>> \in Registrations
    /\ SendUnregister(t, c)
    /\ UNCHANGED listed

UnregisterNext(t, c) ==
    /\ pc[t] = "drop"
    /\ c \in listed[t]
    /\ SendUnregister(t, c)
    /\ listed' = [listed EXCEPT ![t] = @ \ {c}]

(* A function is overtaken by its release when a callback has entered it   *)
(* and not yet looked up its listener.                                     *)
ReleaseMessageHandler(ids) ==
    /\ holder' = [i \in Ids |-> IF i \in ids THEN None ELSE holder[i]]
    /\ message' = [m \in Messages |->
                     IF message[m].stage \in {"entered", "hasTransport"} /\ message[m].id \in ids
                     THEN [message[m] EXCEPT !.overtaken = TRUE] ELSE message[m]]

ReturnFromUnregister(t) == At(t, IF dropper[t] = None THEN "idle" ELSE "drop", None)

(* Mutant: the function is released before the engine has answered.        *)
ReleaseWithoutAwaiting(t) ==
    /\ pc[t] = "awaitUnregister"
    /\ ReleaseMessageHandler(HeldBy(t, config[t]))
    /\ DropReceiver(t)
    /\ reply' = [reply EXCEPT ![t] = FALSE]
    /\ ReturnFromUnregister(t)
    /\ UNCHANGED <<engineVars, listed, dropper, runtimeVars, gaveUp>>

(* Mutant: the function is kept when the unregistration timed out.         *)
ReleaseIfAnswered(t) ==
    /\ pc[t] = "awaitUnregister"
    /\ AwaitEngine(t)
    /\ ReleaseMessageHandler(IF reply[t] THEN HeldBy(t, config[t]) ELSE {})
    /\ ReturnFromUnregister(t)
    /\ UNCHANGED <<engineVars, listed, dropper, runtimeVars>>

(* The function is released whatever the engine has answered.              *)
AwaitUnregister(t) ==
    /\ pc[t] = "awaitUnregister"
    /\ AwaitEngine(t)
    /\ ReleaseMessageHandler(HeldBy(t, config[t]))
    /\ ReturnFromUnregister(t)
    /\ UNCHANGED <<engineVars, listed, dropper, runtimeVars>>

-----------------------------------------------------------------------------
(* Drop begins: get_all_listener_configs lists what is held.  The last     *)
(* reference was the owner's or that of a listener which is running.       *)
BeginDrop(t, who) ==
    /\ pc[t] = "idle"
    /\ who # "owner" => message[who].stage = "running"
    /\ dropper' = [dropper EXCEPT ![t] = who]
    /\ message' = [m \in Messages |->
                     IF m = who THEN [message[m] EXCEPT !.stage = "dropping"] ELSE message[m]]
    /\ listed' = [listed EXCEPT ![t] = {c \in Configs : HeldBy(t, c) # {}}]
    /\ At(t, "drop", None)
    /\ UNCHANGED <<holder, queue, engineVars, reply, runtimeVars, gaveUp>>

(* shutdown_vsomeip_app; its errors are only logged.                       *)
ShutdownVsomeipApp(t) ==
    /\ pc[t] = "drop"
    /\ listed[t] = {}
    /\ Enqueue(t, "stop", None, None)
    /\ At(t, "awaitStop", None)
    /\ UNCHANGED <<holder, engineVars, reply, listed, dropper, runtimeVars, message, gaveUp>>

(* Mutant: Drop does not signal the runtime when the engine was late.      *)
SignalIfAnswered(t) ==
    /\ pc[t] = "awaitStop"
    /\ AwaitEngine(t)
    /\ runtime' = [runtime EXCEPT ![t] = IF reply[t] THEN "stopping" ELSE @]
    /\ At(t, "join", None)
    /\ UNCHANGED <<holder, engineVars, listed, dropper, forced, message>>

(* Then the runtime's thread is signalled, and starts to shut it down.     *)
SignalShutdown(t) ==
    /\ pc[t] = "awaitStop"
    /\ AwaitEngine(t)
    /\ runtime' = [runtime EXCEPT ![t] = "stopping"]
    /\ At(t, "join", None)
    /\ UNCHANGED <<holder, engineVars, listed, dropper, forced, message>>

Resumed(t) ==
    message' = [m \in Messages |->
                  IF m = dropper[t] THEN [message[m] EXCEPT !.stage = "running"] ELSE message[m]]

(* Mutant: Drop does not join the runtime's thread.                        *)
JoinNothing(t) ==
    /\ pc[t] = "join"
    /\ At(t, "dropped", None)
    /\ Resumed(t)
    /\ dropper' = [dropper EXCEPT ![t] = None]
    /\ UNCHANGED <<holder, queue, engineVars, reply, listed, runtimeVars, gaveUp>>

Join(t) ==
    /\ pc[t] = "join"
    /\ runtime[t] = "ended"
    /\ At(t, "dropped", None)
    /\ Resumed(t)
    /\ dropper' = [dropper EXCEPT ![t] = None]
    /\ UNCHANGED <<holder, queue, engineVars, reply, listed, runtimeVars, gaveUp>>

TasksOf(t) == {m \in Messages : message[m].stage \in {"spawned", "running", "dropping"}
                                /\ message[m].storage = t}

(* Mutant: the runtime waits for its tasks without a limit.                *)
EndRuntimePatiently(t) ==
    /\ runtime[t] = "stopping"
    /\ TasksOf(t) = {}
    /\ runtime' = [runtime EXCEPT ![t] = "ended"]
    /\ UNCHANGED <<holder, queue, engineVars, pc, config, reply, listed, dropper, forced, message, gaveUp>>

(* shutdown_timeout: the thread of the runtime ends when the last task has *)
(* stopped, or after two seconds, when some worker is still in a listener. *)
(* (As long as none is, the workers drop what was only spawned.)           *)
EndRuntime(t) ==
    /\ runtime[t] = "stopping"
    /\ TasksOf(t) = {} \/ \E m \in TasksOf(t) : message[m].stage # "spawned"
    /\ runtime' = [runtime EXCEPT ![t] = "ended"]
    /\ forced' = [forced EXCEPT ![t] = TasksOf(t) # {}]
    /\ UNCHANGED <<holder, queue, engineVars, pc, config, reply, listed, dropper, message, gaveUp>>

-----------------------------------------------------------------------------
(* The engine executes its oldest command.                                 *)
Execute(t) ==
    LET command == Head(queue[t]) IN
    /\ queue[t] # <<>>
    /\ queue' = [queue EXCEPT ![t] = Tail(@)]
    /\ \/ /\ command.op = "register"
          /\ handlerTable' = [handlerTable EXCEPT ![t][command.config] = command.id]
          /\ UNCHANGED appRunning
       \/ /\ command.op = "unregister"
          /\ handlerTable' = [handlerTable EXCEPT ![t][command.config] = None]
          /\ UNCHANGED appRunning
       \/ /\ command.op = "stop"
          /\ appRunning' = [appRunning EXCEPT ![t] = FALSE]
          /\ UNCHANGED handlerTable
    /\ reply' = [reply EXCEPT ![t] = command.awaited]
    /\ UNCHANGED <<holder, pc, config, listed, dropper, runtimeVars, message, gaveUp>>

-----------------------------------------------------------------------------
Others == <<holder, queue, engineVars, pc, config, reply, listed, dropper, runtimeVars, gaveUp>>
Becomes(m, value) == message' = [message EXCEPT ![m] = value] /\ UNCHANGED Others
Reaches(m, stage) == Becomes(m, [message[m] EXCEPT !.stage = stage])

(* vsomeip calls the handler of the message's key.                         *)
Enter(m, t, c) ==
    /\ message[m].stage = "out"
    /\ appRunning[t]
    /\ handlerTable[t][c] # None
    /\ Becomes(m, [Out EXCEPT !.stage = "entered", !.id = handlerTable[t][c],
                              !.addressee = <<t, c>>])

(* The function serves nobody, and the message is dropped, or the storage  *)
(* of the transport that holds it now is upgraded to a strong reference.   *)
GetTransport(m) ==
    LET r == holder[message[m].id] IN
    /\ message[m].stage = "entered"
    /\ \/ r = None /\ Becomes(m, Out)
       \/ r # None /\ Becomes(m, [message[m] EXCEPT !.stage = "hasTransport", !.storage = r[1]])

(* After the conversion, which blocks this thread of vsomeip's only: the   *)
(* listener of the function in that transport, if there still is one.      *)
GetListener(m) ==
    LET r == holder[message[m].id] IN
    /\ message[m].stage = "hasTransport"
    /\ \/ /\ r # None /\ r[1] = message[m].storage
          /\ Becomes(m, [message[m] EXCEPT !.stage = "hasListener", !.listener = r])
       \/ /\ ~(r # None /\ r[1] = message[m].storage)
          /\ Becomes(m, Out)

(* spawn hands the listener to the runtime, which drops it at once when it *)
(* has been shut down.                                                     *)
Closed(t) == runtime[t] # "up"
Working(t) == runtime[t] # "ended" \/ forced[t]
Spawn(m) ==
    /\ message[m].stage = "hasListener"
    /\ \/ /\ Working(message[m].storage)
          /\ Becomes(m, [Out EXCEPT !.stage = "spawned", !.storage = message[m].storage])
       \/ Closed(message[m].storage) /\ Becomes(m, Out)

(* A worker polls on_receive, which may take as long as it likes...        *)
Start(m) ==
    /\ message[m].stage = "spawned"
    /\ Working(message[m].storage)
    /\ Reaches(m, "running")

(* ... to its end, or to an await at which the runtime drops it.           *)
Finish(m) ==
    /\ message[m].stage = "running"
    /\ Becomes(m, Out)

DropTask(m) ==
    /\ message[m].stage = "spawned"
    /\ Closed(message[m].storage)
    /\ Becomes(m, Out)

-----------------------------------------------------------------------------
DropStep(t) ==
    \/ \E c \in Configs : UnregisterNext(t, c)
    \/ AwaitUnregister(t) \/ ShutdownVsomeipApp(t) \/ SignalShutdown(t) \/ Join(t)

OwnerStep(t) ==
    \/ \E c \in Configs, i \in Ids : Register(t, c, i)
    \/ \E c \in Configs : CallUnregister(t, c)
    \/ \E who \in Messages \cup {"owner"} : BeginDrop(t, who)
    \/ AwaitRegister(t)

CallbackStep(m) ==
    \/ \E t \in Transports, c \in Configs : Enter(m, t, c)
    \/ GetTransport(m) \/ GetListener(m) \/ Spawn(m)
    \/ Start(m) \/ Finish(m) \/ DropTask(m)

Next ==
    \/ \E t \in Transports : OwnerStep(t) \/ DropStep(t) \/ EndRuntime(t) \/ Execute(t)
    \/ \E m \in Messages : CallbackStep(m)

Spec == Init /\ [][Next]_vars

(* What a runtime that is told to end does: it drops a task or is over.    *)
RuntimeStep(t) == EndRuntime(t) \/ \E m \in TasksOf(t) : DropTask(m)

(* The threads that Drop depends on run: the one that executes it, the     *)
(* engine's and the runtime's.  Of vsomeip, and of listeners, nothing is   *)
(* expected.                                                               *)
FairSpec ==
    /\ Spec
    /\ \A t \in Transports : WF_vars(DropStep(t)) /\ WF_vars(Execute(t)) /\ WF_vars(RuntimeStep(t))

-----------------------------------------------------------------------------
(* Drop leaves nothing in the process-wide registry, also when every one   *)
(* of its calls timed out: an extern function that is still mapped to a    *)
(* transport has a living storage.                                         *)
NothingHeldAfterDrop ==
    \A t \in Transports, i \in Ids : pc[t] = "dropped" => holder[i] = None \/ holder[i][1] # t

(* When Drop has returned, no listener of the transport is running or will *)
(* run, whatever callbacks were under way: unless a listener did not let   *)
(* go of its worker within the two seconds.                                *)
QuietAfterDrop ==
    \A t \in Transports : pc[t] = "dropped" /\ ~forced[t] => TasksOf(t) = {}

(* A message reaches a listener it is not addressed to only if the extern  *)
(* function was released and recycled while vsomeip's thread was in it: if *)
(* no wait was given up, vsomeip enters no function that serves another.   *)
StraysWereOvertaken ==
    \A m \in Messages :
        message[m].listener \notin {None, message[m].addressee} => message[m].overtaken \/ gaveUp

(* A Drop under way is never stuck: it can take its next step itself, or   *)
(* the engine has a command to execute, the awaited one or those that fill *)
(* the channel, or the runtime's thread has been told to end - whichever   *)
(* of the waits before were given up, and whatever was left queued.        *)
Awaits(t) == pc[t] \in {"awaitRegister", "awaitUnregister", "awaitStop"}
DropCanGoOn ==
    \A t \in Transports : dropper[t] # None =>
        \/ pc[t] = "drop" /\ Len(queue[t]) < MaxQueue
        \/ Awaits(t) /\ reply[t]
        \/ pc[t] = "join" /\ runtime[t] = "ended"
        \/ queue[t] # <<>>
        \/ runtime[t] = "stopping"

(* Drop returns, whoever executes it and whatever the listeners do: also   *)
(* inside a listener of the same transport, and while listeners wait for   *)
(* something that never happens.                                           *)
DropReturns == \A t \in Transports : dropper[t] # None ~> pc[t] = "dropped"
=============================================================================
