------------------------- MODULE ListenerLifecycle -------------------------
(***************************************************************************)
(* Registering and unregistering listeners: transport.rs (the UTransport   *)
(* methods), lib.rs (unregister_listener, await_engine) and                *)
(* transport_engine.rs (the event loop of each transport).                 *)
(*                                                                         *)
(* A caller takes an extern function from the process-wide pool, sends a   *)
(* command to the transport's engine over a bounded channel and waits for  *)
(* the answer, at most INTERNAL_FUNCTION_TIMEOUT; the engine executes      *)
(* commands one by one, also those whose caller no longer waits, and       *)
(* changes vsomeip's table of message handlers.                            *)
(*                                                                         *)
(* The pool is used through HandlerAllocation's atomic operations, which   *)
(* HandlerRegistry is shown to implement.                                  *)
(***************************************************************************)
EXTENDS MessageClassification, Sequences, FiniteSets

CONSTANTS
    Ids,               \* the extern functions of the process
    Transports,        \* the UPTransportVsomeip instances of the process
    Configs,           \* (source filter, sink filter, listener) triples
    Callers,           \* tasks that register and unregister listeners
    None,              \* "no such thing"
    SourceFilter(_),   \* a configuration's source filter, a UUri
    SinkFilter(_),     \* its sink filter, a UUri or NoSink
    CallsFor(_),       \* the configurations a caller registers and unregisters
    ChannelCapacity,   \* bound of the command channel (10000 in the code)
    EngineMayBeLate    \* whether an answer may take longer than the timeout

(* split_u32_to_u16: vsomeip's service and method are the lower halves of  *)
(* entity id and resource.  vsomeip::ANY_INSTANCE is the same as Wild.      *)
Address(uri) == <<uri.entityType, uri.resource>>
Source(c) == Address(SourceFilter(c))
Sink(c) == Address(SinkFilter(c))
Kind == [c \in Configs |-> DetermineType(SourceFilter(c), SinkFilter(c))]

Addresses == {Source(c) : c \in Configs} \cup {Sink(c) : c \in {d \in Configs : SinkFilter(d) # NoSink}}
Keys == Addresses \X {1, Wild}

ASSUME LifecycleAssumption ==
    /\ \A c \in Configs : Kind[c] # "AllPointToPoint"
    /\ \A p \in Callers : CallsFor(p) \subseteq Configs
    /\ ChannelCapacity \in Nat \ {0}
    /\ EngineMayBeLate \in BOOLEAN
    /\ IsFiniteSet(Ids)

VARIABLES
    holder,        \* holder[i]: the <<transport, config>> that holds i, or None
    queue,         \* queue[t]: the commands in t's channel, oldest first
    announced,     \* announced[t]: t's VsomeipOfferedRequestedRegistry
    handlerTable,  \* handlerTable[t][k]: vsomeip's handler for key k, or None
    pc,            \* pc[p]: what caller p does next
    call,          \* call[p]: the call p is in, or None
    reply,         \* reply[p]: the answer in p's oneshot channel, or None
    established,   \* history: registrations that returned Ok and stand
    overridden     \* history: those whose key another configuration has used since

vars == <<holder, queue, announced, handlerTable, pc, call, reply, established, overridden>>

Calls == [op : {"register", "unregister"}, transport : Transports, config : Configs,
          id : Ids \cup {None}]
Commands == [op : {"register", "unregister"}, config : Configs, id : Ids \cup {None},
             from : Callers \cup {None}]
Announcements == {"event requested", "service offered", "service requested"} \X Addresses

ASSUME NoneAssumption ==
    None \notin Ids \cup Callers \cup (Transports \X Configs) \cup Calls \cup {"Ok"}

TypeOK ==
    /\ holder \in [Ids -> (Transports \X Configs) \cup {None}]
    /\ \A t \in Transports : queue[t] \in Seq(Commands) /\ Len(queue[t]) <= ChannelCapacity
    /\ announced \in [Transports -> SUBSET Announcements]
    /\ handlerTable \in [Transports -> [Keys -> Ids \cup {None}]]
    /\ pc \in [Callers -> {"idle", "getHandler", "send", "await", "release"}]
    /\ call \in [Callers -> Calls \cup {None}]
    /\ reply \in [Callers -> {"Ok", None}]
    /\ established \subseteq Transports \X Configs
    /\ overridden \subseteq Transports \X Configs

Init ==
    /\ holder = [i \in Ids |-> None]
    /\ queue = [t \in Transports |-> <<>>]
    /\ announced = [t \in Transports |-> {}]
    /\ handlerTable = [t \in Transports |-> [k \in Keys |-> None]]
    /\ pc = [p \in Callers |-> "idle"]
    /\ call = [p \in Callers |-> None]
    /\ reply = [p \in Callers |-> None]
    /\ established = {}
    /\ overridden = {}

HeldBy(t, c) == {i \in Ids : holder[i] = <<t, c>>}
Unheld == {i \in Ids : holder[i] = None}
Goto(p, step) == pc' = [pc EXCEPT ![p] = step]
Done(p) == Goto(p, "idle") /\ call' = [call EXCEPT ![p] = None]

-----------------------------------------------------------------------------
(* The key under which the engine registers a configuration's handler, and *)
(* the one under which it unregisters it.                                  *)
RegisterKey == [c \in Configs |->
    CASE Kind[c] = "Publish"  -> <<Source(c), 1>>
      [] Kind[c] = "Request"  -> <<Sink(c), Wild>>
      [] Kind[c] = "Response" -> <<Source(c), Wild>>]

UnregisterKey == [c \in Configs |->
    CASE Kind[c] = "Publish"  -> <<Source(c), Wild>>
      [] Kind[c] = "Request"  -> <<Sink(c), Wild>>
      [] Kind[c] = "Response" -> <<Sink(c), Wild>>]

(* What the engine requests from or offers to vsomeip before it registers. *)
Announcement == [c \in Configs |->
    CASE Kind[c] = "Publish"  -> <<"event requested", Source(c)>>
      [] Kind[c] = "Request"  -> <<"service offered", Sink(c)>>
      [] Kind[c] = "Response" -> <<"service requested", Source(c)>>]

-----------------------------------------------------------------------------
(* register_listener is called.                                            *)
CallRegister(p) ==
    /\ pc[p] = "idle"
    /\ \E t \in Transports, c \in CallsFor(p) :
          call' = [call EXCEPT ![p] = [op |-> "register", transport |-> t, config |-> c, id |-> None]]
    /\ Goto(p, "getHandler")
    /\ UNCHANGED <<holder, queue, announced, handlerTable, reply, established, overridden>>

(* get_message_handler succeeds, or register_listener fails: the pool is   *)
(* exhausted or the configuration is registered already.                   *)
GetMessageHandler(p) ==
    LET t == call[p].transport
        c == call[p].config
    IN
    /\ pc[p] = "getHandler"
    /\ \/ /\ HeldBy(t, c) = {}
          /\ \E i \in Unheld :
                /\ holder' = [holder EXCEPT ![i] = <<t, c>>]
                /\ call' = [call EXCEPT ![p].id = i]
          /\ Goto(p, "send")
       \/ /\ HeldBy(t, c) # {} \/ Unheld = {}
          /\ Done(p)
          /\ UNCHANGED holder
    /\ UNCHANGED <<queue, announced, handlerTable, reply, established, overridden>>

(* unregister_listener is called: its first effect is its command.         *)
CallUnregister(p) ==
    /\ pc[p] = "idle"
    /\ \E t \in Transports, c \in CallsFor(p) :
          /\ call' = [call EXCEPT ![p] = [op |-> "unregister", transport |-> t, config |-> c, id |-> None]]
          /\ established' = established \ {<<t, c>>}
    /\ Goto(p, "send")
    /\ UNCHANGED <<holder, queue, announced, handlerTable, reply, overridden>>

Command(p) == [op |-> call[p].op, config |-> call[p].config, id |-> call[p].id, from |-> p]

(* Mutant: the channel is unbounded.                                       *)
SendUnbounded(p) ==
    /\ pc[p] = "send"
    /\ queue' = [queue EXCEPT ![call[p].transport] = Append(@, Command(p))]
    /\ Goto(p, "await")
    /\ UNCHANGED <<holder, announced, handlerTable, call, reply, established, overridden>>

(* Mutant: the newest command is received first.                           *)
SendToFront(p) ==
    LET t == call[p].transport IN
    /\ pc[p] = "send"
    /\ Len(queue[t]) < ChannelCapacity
    /\ queue' = [queue EXCEPT ![t] = <<Command(p)>> \o @]
    /\ Goto(p, "await")
    /\ UNCHANGED <<holder, announced, handlerTable, call, reply, established, overridden>>

(* send_to_engine_with_status waits while the channel is full.             *)
SendToEngine(p) ==
    LET t == call[p].transport IN
    /\ pc[p] = "send"
    /\ Len(queue[t]) < ChannelCapacity
    /\ queue' = [queue EXCEPT ![t] = Append(@, Command(p))]
    /\ Goto(p, "await")
    /\ UNCHANGED <<holder, announced, handlerTable, call, reply, established, overridden>>

(* What follows await_engine: register_listener returns its result,        *)
(* unregister_listener only warns of an error and goes on.                 *)
Awaited(p, ok) ==
    IF call[p].op = "register"
    THEN /\ Done(p)
         /\ established' = IF ok THEN established \cup {<<call[p].transport, call[p].config>>}
                           ELSE established
    ELSE Goto(p, "release") /\ UNCHANGED <<call, established>>

AwaitEngine(p) ==
    /\ pc[p] = "await"
    /\ reply[p] # None
    /\ reply' = [reply EXCEPT ![p] = None]
    /\ Awaited(p, TRUE)
    /\ UNCHANGED <<holder, queue, announced, handlerTable, overridden>>

(* Mutant: giving up withdraws the command.                                *)
AwaitTimeoutWithdraws(p) ==
    /\ EngineMayBeLate
    /\ pc[p] = "await"
    /\ reply[p] = None
    /\ queue' = [t \in Transports |-> SelectSeq(queue[t], LAMBDA m : m.from # p)]
    /\ Awaited(p, FALSE)
    /\ UNCHANGED <<holder, announced, handlerTable, reply, overridden>>

(* The receiver of the answer is dropped, the command stays queued.        *)
DropReceiver(p) ==
    queue' = [t \in Transports |->
                [n \in DOMAIN queue[t] |->
                   IF queue[t][n].from = p THEN [queue[t][n] EXCEPT !.from = None]
                   ELSE queue[t][n]]]

(* DEADLINE_EXCEEDED.                                                      *)
AwaitTimeout(p) ==
    /\ EngineMayBeLate
    /\ pc[p] = "await"
    /\ reply[p] = None
    /\ DropReceiver(p)
    /\ Awaited(p, FALSE)
    /\ UNCHANGED <<holder, announced, handlerTable, reply, overridden>>

(* Mutant: a cancelled registration gives its function back.               *)
CancelReleasing(p) ==
    /\ pc[p] \in {"send", "await"}
    /\ call[p].op = "register"
    /\ DropReceiver(p)
    /\ reply' = [reply EXCEPT ![p] = None]
    /\ holder' = [holder EXCEPT ![call[p].id] = None]
    /\ Done(p)
    /\ UNCHANGED <<announced, handlerTable, established, overridden>>

(* The future of register_listener is dropped at one of its awaits, by a   *)
(* select or a timeout of the caller's: before the command is in the       *)
(* channel or after.  unregister_listener blocks its thread instead.       *)
CancelRegister(p) ==
    /\ pc[p] \in {"send", "await"}
    /\ call[p].op = "register"
    /\ DropReceiver(p)
    /\ reply' = [reply EXCEPT ![p] = None]
    /\ Done(p)
    /\ UNCHANGED <<holder, announced, handlerTable, established, overridden>>

(* release_message_handler; a configuration that holds no id only warns.   *)
ReleaseMessageHandler(p) ==
    /\ pc[p] = "release"
    /\ holder' = [i \in Ids |->
                    IF i \in HeldBy(call[p].transport, call[p].config) THEN None ELSE holder[i]]
    /\ Done(p)
    /\ UNCHANGED <<queue, announced, handlerTable, reply, established, overridden>>

-----------------------------------------------------------------------------
(* One turn of the event loop: the oldest command is executed and its      *)
(* result sent back, to nobody if the caller gave up.                      *)
Answer(command) ==
    reply' = IF command.from = None THEN reply ELSE [reply EXCEPT ![command.from] = "Ok"]

(* Configurations that share a key with c lose vsomeip's one handler to it.*)
Sharing(t, c, k) == {<<t, d>> : d \in {e \in Configs \ {c} : RegisterKey[e] = k}}

RegisterListenerInternal(t) ==
    LET command == Head(queue[t])
        c == command.config
    IN
    /\ queue[t] # <<>>
    /\ command.op = "register"
    /\ queue' = [queue EXCEPT ![t] = Tail(@)]
    /\ announced' = [announced EXCEPT ![t] = @ \cup {Announcement[c]}]
    /\ handlerTable' = [handlerTable EXCEPT ![t][RegisterKey[c]] = command.id]
    /\ overridden' = (overridden \ {<<t, c>>}) \cup Sharing(t, c, RegisterKey[c])
    /\ Answer(command)
    /\ UNCHANGED <<holder, pc, call, established>>

(* Mutant: the result of an unregistration is not sent back.               *)
UnregisterUnanswered(t) ==
    LET command == Head(queue[t]) IN
    /\ queue[t] # <<>>
    /\ command.op = "unregister"
    /\ queue' = [queue EXCEPT ![t] = Tail(@)]
    /\ handlerTable' = [handlerTable EXCEPT ![t][UnregisterKey[command.config]] = None]
    /\ overridden' = overridden \cup Sharing(t, command.config, UnregisterKey[command.config])
    /\ UNCHANGED <<holder, announced, pc, call, reply, established>>

(* Mutant: a command whose caller gave up is dropped.                      *)
UnregisterUnlessAbandoned(t) ==
    LET command == Head(queue[t]) IN
    /\ queue[t] # <<>>
    /\ command.op = "unregister"
    /\ queue' = [queue EXCEPT ![t] = Tail(@)]
    /\ handlerTable' = IF command.from = None THEN handlerTable
                       ELSE [handlerTable EXCEPT ![t][UnregisterKey[command.config]] = None]
    /\ overridden' = overridden \cup Sharing(t, command.config, UnregisterKey[command.config])
    /\ Answer(command)
    /\ UNCHANGED <<holder, announced, pc, call, established>>

UnregisterListenerInternal(t) ==
    LET command == Head(queue[t]) IN
    /\ queue[t] # <<>>
    /\ command.op = "unregister"
    /\ queue' = [queue EXCEPT ![t] = Tail(@)]
    /\ handlerTable' = [handlerTable EXCEPT ![t][UnregisterKey[command.config]] = None]
    /\ overridden' = overridden \cup Sharing(t, command.config, UnregisterKey[command.config])
    /\ Answer(command)
    /\ UNCHANGED <<holder, announced, pc, call, established>>

-----------------------------------------------------------------------------
CallerStep(p) ==
    \/ GetMessageHandler(p) \/ SendToEngine(p) \/ AwaitEngine(p) \/ ReleaseMessageHandler(p)

EngineStep(t) == RegisterListenerInternal(t) \/ UnregisterListenerInternal(t)

Next ==
    \/ \E p \in Callers :
          \/ CallRegister(p) \/ CallUnregister(p) \/ CallerStep(p)
          \/ AwaitTimeout(p) \/ CancelRegister(p)
    \/ \E t \in Transports : EngineStep(t)

Spec == Init /\ [][Next]_vars

(* The engine thread keeps receiving, the runtime keeps polling a caller   *)
(* that can go on, and tokio's channel hands free slots out in the order   *)
(* its senders queued up, so that a sender waits for no slot forever.      *)
Fairness ==
    /\ \A t \in Transports : WF_vars(EngineStep(t))
    /\ \A p \in Callers :
          /\ WF_vars(GetMessageHandler(p) \/ AwaitEngine(p) \/ ReleaseMessageHandler(p))
          /\ SF_vars(SendToEngine(p))

FairSpec == Spec /\ Fairness

-----------------------------------------------------------------------------
Queued(t) == {queue[t][n] : n \in DOMAIN queue[t]}
Registers(t, i) == \E m \in Queued(t) : m.op = "register" /\ m.id = i
WillErase(t, k) == \E m \in Queued(t) : m.op = "unregister" /\ UnregisterKey[m.config] = k

(* The keys that unregistering a configuration erases.                     *)
ErasableKeys == {RegisterKey[c] : c \in {d \in Configs : RegisterKey[d] = UnregisterKey[d]}}

(* What the theorems of ListenerLifecycleProofs assume and the runs meet:  *)
(* the calls about a configuration are made one after the other, and a key *)
(* that is erased is erased for each of its configurations.                *)
OneCaller == \A p, q \in Callers : CallsFor(p) \cap CallsFor(q) # {} => p = q
KeysApart == \A c \in Configs : RegisterKey[c] \in ErasableKeys => UnregisterKey[c] = RegisterKey[c]

(* vsomeip calls an extern function for a key only on behalf of the        *)
(* configuration that holds the function and listens to that key, or until *)
(* an unregistration that is already queued has erased the entry.  Of the  *)
(* keys under which a configuration is registered and not unregistered,    *)
(* nothing of the kind can be said.                                        *)
EntriesBacked ==
    \A t \in Transports, k \in ErasableKeys :
        LET i == handlerTable[t][k] IN
        \/ i = None
        \/ \E c \in Configs : RegisterKey[c] = k /\ holder[i] = <<t, c>>
        \/ WillErase(t, k)

(* A listener whose registration returned Ok, and whose unregistration has *)
(* not begun since, is in vsomeip's table under its key, with the function *)
(* its transport's registry maps to it, and vsomeip was asked for its      *)
(* service or event - whatever late commands were still queued before, and *)
(* unless another configuration with the same key (one that differs only   *)
(* in its listener, say) was registered or unregistered after it: vsomeip  *)
(* has one handler per key, and then that one is gone.                     *)
EstablishedIsReachable ==
    \A r \in established \ overridden :
        LET t == r[1]
            c == r[2]
            i == handlerTable[t][RegisterKey[c]]
        IN  i # None /\ holder[i] = r /\ Announcement[c] \in announced[t]

(* A caller that waits in await_engine does not wait in vain: exactly one  *)
(* command in its transport's channel, its own, still carries the sender   *)
(* of its answer, and no other channel holds one.  And nobody else is      *)
(* answered: what its caller gave up is executed, and answered to nobody,  *)
(* so that no late answer is taken for that of a later call.               *)
Waits(p) == pc[p] = "await" /\ reply[p] = None
ToAnswer(p, t) == {n \in DOMAIN queue[t] : queue[t][n].from = p}

AnswersFindTheirCaller ==
    \A p \in Callers :
        /\ Waits(p) => \E n \in 1 .. ChannelCapacity : ToAnswer(p, call[p].transport) = {n}
        /\ \A t \in Transports : \A n \in ToAnswer(p, t) :
              Waits(p) /\ call[p].transport = t /\ queue[t][n] = Command(p)
        /\ reply[p] # None => pc[p] = "await"

(* "Gets an unused [MessageHandlerFnPtr] to hand over to a vsomeip         *)
(* application" (message_handler_registry.rs:120): what get_message_handler*)
(* has just returned is not, and will not by a queued command be, the      *)
(* handler of another registration.                                        *)
HandedOutIsUnused ==
    \A p \in Callers :
        pc[p] = "send" /\ call[p].op = "register" =>
            \A t \in Transports :
                /\ \A k \in Keys : handlerTable[t][k] # call[p].id
                /\ ~Registers(t, call[p].id)

(* A registration is claimed while a function is held for it, and heard    *)
(* when vsomeip's entry under its key is that function.                    *)
Claimed == {holder[i] : i \in Ids} \ {None}
Heard == {r \in Transports \X Configs :
            \E i \in HeldBy(r[1], r[2]) : handlerTable[r[1]][RegisterKey[r[2]]] = i}
InCall == [p \in Callers |-> IF call[p] = None THEN None
                             ELSE <<call[p].op, <<call[p].transport, call[p].config>>>>]

Service == INSTANCE ListenerService WITH
    Registrations <- Transports \X Configs, Limit <- Cardinality(Ids),
    claimed <- Claimed, listening <- Heard, busy <- InCall

(* With the pool, the channels, the engines and vsomeip's tables between   *)
(* them, register_listener and unregister_listener look to everybody like  *)
(* the calls of ListenerService: a listener is heard from one instant of   *)
(* its registration until one instant of its unregistration, and not even  *)
(* a function recycled between two transports shows.                       *)
ImplementsService == Service!Spec

(* Every call returns, whatever the other callers do.                      *)
EveryCallReturns == \A p \in Callers : pc[p] # "idle" ~> pc[p] = "idle"

(* Once nobody holds a function for any configuration of a key, vsomeip's  *)
(* entry under that key is erased sooner or later, unless somebody         *)
(* registers one of them again.                                            *)
Unused(t, k) == \A c \in Configs : RegisterKey[c] = k => HeldBy(t, c) = {}
UnregisteredIsErased ==
    \A t \in Transports, k \in ErasableKeys :
        Unused(t, k) ~> handlerTable[t][k] = None \/ ~Unused(t, k)
=============================================================================
