---------------------------- MODULE PointToPoint ----------------------------
(***************************************************************************)
(* The point-to-point listener of one transport (lib.rs): one listener for *)
(* every service of the vsomeip configuration file, which also receives    *)
(* the responses to the requests this transport sends.  The first request  *)
(* to a method has send register a response listener before it goes out.   *)
(*                                                                         *)
(* The engine executes the commands in the order they were sent, as in     *)
(* ListenerLifecycle; the pool of extern functions is used through the     *)
(* atomic operations of HandlerAllocation.                                 *)
(***************************************************************************)
EXTENDS Naturals, Sequences, FiniteSets

CONSTANTS
    Ids,              \* the extern functions that are left in the pool
    Services,         \* the services of the configuration file, as a sequence
    Methods,          \* remote methods the transport sends requests to
    Callers,          \* tasks that use the transport
    None,             \* "no such thing"
    MaxQueue,         \* bound of the model: commands waiting for the engine
    EngineMayBeLate   \* whether an answer may take longer than the timeout

ServiceConfigs == {<<"service", Services[n]>> : n \in DOMAIN Services}
ResponseConfigs == {"response"} \X Methods
Configs == ServiceConfigs \cup ResponseConfigs

ASSUME PointToPointAssumption ==
    /\ MaxQueue \in Nat \ {0} /\ EngineMayBeLate \in BOOLEAN
    /\ Len(Services) \in Nat \ {0} /\ DOMAIN Services = 1 .. Len(Services)
    /\ None \notin Ids \cup Callers \cup Configs

VARIABLES
    pointToPointListener, \* whether the transport's Option holds the listener
    holder,               \* holder[i]: the configuration that holds i, or None
    queue,                \* the commands of the engine, oldest first
    handlerTable,         \* handlerTable[c]: vsomeip's handler for c's key, or None
    pc,                   \* pc[p]: what caller p does next
    config,               \* config[p]: the configuration p is concerned with, or None
    msgHandler,           \* msgHandler[p]: the extern function p is registering, or None
    reply,                \* reply[p]: whether the engine's answer is there
    unheard               \* history: methods sent to while nobody heard the response

vars == <<pointToPointListener, holder, queue, handlerTable, pc, config,
          msgHandler, reply, unheard>>

Commands == [op : {"register", "unregister", "send"}, config : Configs,
             id : Ids \cup {None}, listening : BOOLEAN, from : Callers \cup {None}]

TypeOK ==
    /\ pointToPointListener \in BOOLEAN
    /\ holder \in [Ids -> Configs \cup {None}]
    /\ queue \in Seq(Commands) /\ Len(queue) <= MaxQueue
    /\ handlerTable \in [Configs -> Ids \cup {None}]
    /\ pc \in [Callers -> {"idle", "offer", "offerTaken", "awaitOffer",
                           "withdraw", "awaitWithdrawn", "prepare", "prepareTaken",
                           "awaitPrepared", "send", "sendUnprepared", "awaitSent",
                           "panicked"}]
    /\ config \in [Callers -> Configs \cup {None}]
    /\ msgHandler \in [Callers -> Ids \cup {None}]
    /\ reply \in [Callers -> BOOLEAN]
    /\ unheard \subseteq Methods

Init ==
    /\ pointToPointListener = FALSE
    /\ holder = [i \in Ids |-> None]
    /\ queue = <<>>
    /\ handlerTable = [c \in Configs |-> None]
    /\ pc = [p \in Callers |-> "idle"]
    /\ config = [p \in Callers |-> None]
    /\ msgHandler = [p \in Callers |-> None]
    /\ reply = [p \in Callers |-> FALSE]
    /\ unheard = {}

-----------------------------------------------------------------------------
HeldBy(c) == {i \in Ids : holder[i] = c}
Unheld == HeldBy(None)
At(p, step, c) == pc' = [pc EXCEPT ![p] = step] /\ config' = [config EXCEPT ![p] = c]
Return(p) == At(p, "idle", None)

(* Mutant: the channel has no bound.                                       *)
EnqueueUnbounded(p, op, c, i, listening) ==
    queue' = Append(queue, [op |-> op, config |-> c, id |-> i,
                            listening |-> listening, from |-> p])

(* send_to_engine_with_status waits for a free slot of the channel.        *)
Enqueue(p, op, c, i, listening) ==
    /\ Len(queue) < MaxQueue
    /\ queue' = Append(queue, [op |-> op, config |-> c, id |-> i,
                               listening |-> listening, from |-> p])

(* The configuration after c in the loop over the services, or None.       *)
Following(c) ==
    LET n == CHOOSE n \in DOMAIN Services : Services[n] = c[2]
    IN  IF n = Len(Services) THEN None ELSE <<"service", Services[n + 1]>>
FirstService == <<"service", Services[1]>>

(* The engine's answer is there, or the wait for it times out: then the    *)
(* command stays queued, with nobody to answer.                            *)
Answered(p) == reply[p] /\ reply' = [reply EXCEPT ![p] = FALSE] /\ UNCHANGED queue
TimedOut(p) ==
    /\ EngineMayBeLate
    /\ ~reply[p]
    /\ queue' = [n \in DOMAIN queue |->
                   IF queue[n].from = p THEN [queue[n] EXCEPT !.from = None] ELSE queue[n]]
    /\ UNCHANGED reply

(* get_message_handler, and later the command that registers what it gave. *)
TakeHandler(p, step) ==
    /\ HeldBy(config[p]) = {}
    /\ \E i \in Unheld :
          /\ holder' = [holder EXCEPT ![i] = config[p]]
          /\ msgHandler' = [msgHandler EXCEPT ![p] = i]
    /\ At(p, step, config[p])

RegisterHandler(p, step) ==
    /\ Enqueue(p, "register", config[p], msgHandler[p], FALSE)
    /\ msgHandler' = [msgHandler EXCEPT ![p] = None]
    /\ At(p, step, config[p])
    /\ UNCHANGED <<pointToPointListener, holder, handlerTable, reply, unheard>>

-----------------------------------------------------------------------------
(* register_point_to_point_listener: the listener is set, or refused...    *)
SetListener(p) ==
    /\ pc[p] = "idle"
    /\ ~pointToPointListener
    /\ pointToPointListener' = TRUE
    /\ At(p, "offer", FirstService)
    /\ UNCHANGED <<msgHandler, holder, queue, handlerTable, reply, unheard>>

(* ... and then each service gets a handler, up to the first failure.      *)
OfferService(p) ==
    LET c == config[p] IN
    /\ pc[p] = "offer"
    /\ \/ TakeHandler(p, "offerTaken")
       \/ /\ HeldBy(c) # {} \/ Unheld = {}
          /\ Return(p)
          /\ UNCHANGED <<holder, msgHandler>>
    /\ UNCHANGED <<pointToPointListener, queue, handlerTable, reply, unheard>>

RegisterService(p) == pc[p] = "offerTaken" /\ RegisterHandler(p, "awaitOffer")

AwaitOffer(p) ==
    LET next == Following(config[p]) IN
    /\ pc[p] = "awaitOffer"
    /\ \/ /\ Answered(p)
          /\ IF next = None THEN Return(p) ELSE At(p, "offer", next)
       \/ /\ TimedOut(p)
          /\ Return(p)
    /\ UNCHANGED <<pointToPointListener, msgHandler, holder, handlerTable, unheard>>

-----------------------------------------------------------------------------
(* unregister_point_to_point_listener: the listener itself stays set.      *)
CallUnregister(p) ==
    /\ pc[p] = "idle"
    /\ pointToPointListener
    /\ At(p, "withdraw", FirstService)
    /\ UNCHANGED <<pointToPointListener, msgHandler, holder, queue, handlerTable, reply, unheard>>

WithdrawService(p) ==
    /\ pc[p] = "withdraw"
    /\ Enqueue(p, "unregister", config[p], None, FALSE)
    /\ At(p, "awaitWithdrawn", config[p])
    /\ UNCHANGED <<pointToPointListener, msgHandler, holder, handlerTable, reply, unheard>>

(* After a timeout the loop goes on without releasing the handler.         *)
AwaitWithdrawn(p) ==
    LET c == config[p]
        next == Following(c)
    IN
    /\ pc[p] = "awaitWithdrawn"
    /\ \/ /\ Answered(p)
          /\ holder' = [i \in Ids |-> IF holder[i] = c THEN None ELSE holder[i]]
       \/ TimedOut(p) /\ UNCHANGED holder
    /\ IF next = None THEN Return(p)
       ELSE At(p, "withdraw", next)
    /\ UNCHANGED <<pointToPointListener, msgHandler, handlerTable, unheard>>

-----------------------------------------------------------------------------
(* send of a request: whether there is a listener is read first.           *)
CallSend(p) ==
    /\ pc[p] = "idle"
    /\ \E m \in Methods :
          At(p, IF pointToPointListener THEN "prepare" ELSE "sendUnprepared", <<"response", m>>)
    /\ UNCHANGED <<pointToPointListener, msgHandler, holder, queue, handlerTable, reply, unheard>>

(* A response listener for the method is registered, taken to be           *)
(* registered already, or the pool is exhausted and send fails.            *)
PrepareResponse(p) ==
    LET c == config[p] IN
    /\ pc[p] = "prepare"
    /\ \/ TakeHandler(p, "prepareTaken")
       \/ /\ HeldBy(c) # {}
          /\ At(p, "send", c)
          /\ UNCHANGED <<holder, msgHandler>>
       \/ /\ HeldBy(c) = {} /\ Unheld = {}
          /\ Return(p)
          /\ UNCHANGED <<holder, msgHandler>>
    /\ UNCHANGED <<pointToPointListener, queue, handlerTable, reply, unheard>>

(* Mutant: the engine is never told of the handler.                        *)
ForgetResponse(p) ==
    /\ pc[p] = "prepareTaken"
    /\ At(p, "send", config[p])
    /\ msgHandler' = [msgHandler EXCEPT ![p] = None]
    /\ UNCHANGED <<pointToPointListener, holder, queue, handlerTable, reply, unheard>>

RegisterResponse(p) == pc[p] = "prepareTaken" /\ RegisterHandler(p, "awaitPrepared")

(* A timeout here panics: the calling task ends.                           *)
AwaitPrepared(p) ==
    /\ pc[p] = "awaitPrepared"
    /\ \/ Answered(p) /\ At(p, "send", config[p])
       \/ TimedOut(p) /\ At(p, "panicked", None)
    /\ UNCHANGED <<pointToPointListener, msgHandler, holder, handlerTable, unheard>>

Send(p) ==
    /\ pc[p] \in {"send", "sendUnprepared"}
    /\ Enqueue(p, "send", config[p], None, pc[p] = "send")
    /\ At(p, "awaitSent", config[p])
    /\ UNCHANGED <<pointToPointListener, msgHandler, holder, handlerTable, reply, unheard>>

AwaitSent(p) ==
    /\ pc[p] = "awaitSent"
    /\ Answered(p) \/ TimedOut(p)
    /\ Return(p)
    /\ UNCHANGED <<pointToPointListener, msgHandler, holder, handlerTable, unheard>>

-----------------------------------------------------------------------------
(* The engine executes its oldest command.  A response listener is         *)
(* unregistered nowhere.                                                   *)
Heard(c) == \E i \in Ids : handlerTable[c] = i /\ holder[i] = c

(* Mutant: the unregistration misses the key of the registration.          *)
HandledButNotErased(command) ==
    IF command.op = "register" THEN [handlerTable EXCEPT ![command.config] = command.id]
    ELSE handlerTable

Handled(command) ==
    CASE command.op = "register" -> [handlerTable EXCEPT ![command.config] = command.id]
      [] command.op = "unregister" -> [handlerTable EXCEPT ![command.config] = None]
      [] command.op = "send" -> handlerTable

Execute ==
    LET command == Head(queue)
        c == command.config
    IN
    /\ queue # <<>>
    /\ queue' = Tail(queue)
    /\ handlerTable' = Handled(command)
    /\ unheard' = IF command.op = "send" /\ command.listening /\ ~Heard(c)
                  THEN unheard \cup {c[2]} ELSE unheard
    /\ reply' = IF command.from = None THEN reply ELSE [reply EXCEPT ![command.from] = TRUE]
    /\ UNCHANGED <<pointToPointListener, holder, pc, config, msgHandler>>

CallerStep(p) ==
    \/ SetListener(p) \/ OfferService(p) \/ RegisterService(p) \/ AwaitOffer(p)
    \/ CallUnregister(p) \/ WithdrawService(p) \/ AwaitWithdrawn(p)
    \/ CallSend(p) \/ PrepareResponse(p) \/ RegisterResponse(p) \/ AwaitPrepared(p)
    \/ Send(p) \/ AwaitSent(p)

Next == (\E p \in Callers : CallerStep(p)) \/ Execute

Spec == Init /\ [][Next]_vars

-----------------------------------------------------------------------------
(* When the engine sends a request of a transport with a point-to-point    *)
(* listener, the handler of its response is in vsomeip's table and leads   *)
(* to that listener.                                                       *)
ResponsesAreHeard == unheard = {}

(* What vsomeip's table holds is held in the pool for that configuration,  *)
(* or an unregistration that is queued will erase it.                      *)
EntriesBacked ==
    \A c \in Configs :
        \/ handlerTable[c] = None
        \/ holder[handlerTable[c]] = c
        \/ \E n \in DOMAIN queue : queue[n].op = "unregister" /\ queue[n].config = c
=============================================================================
