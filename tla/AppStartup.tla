----------------------------- MODULE AppStartup -----------------------------
(***************************************************************************)
(* Starting and stopping the vsomeip application of a transport:           *)
(* transport_engine.rs (create_app, stop_vsomeip_app_internal), the state  *)
(* handlers of the proc macro crate and                                    *)
(* storage/application_state_availability_handler_registry.rs, and what    *)
(* the constructor and Drop of the transport do with them (lib.rs).        *)
(*                                                                         *)
(* A transport is a constructor, an engine thread and a Drop.  The          *)
(* constructor sends StartVsomeipApp to the engine, and Drop, that of a    *)
(* constructor which failed as well, StopVsomeipApp; both give up waiting  *)
(* for the engine after INTERNAL_FUNCTION_TIMEOUT, and then the engine     *)
(* executes the command all the same, perhaps long after the Drop.         *)
(*                                                                         *)
(* create_app waits for the first state the new application reports, for   *)
(* at most 50 ms.  The report comes through one of a process-wide pool of  *)
(* extern "C" functions, each with a channel of its own that is created    *)
(* once and never emptied.                                                 *)
(***************************************************************************)
EXTENDS Naturals, Sequences, FiniteSets

CONSTANTS
    HandlerIds,       \* the generated state handlers (1000 in the code)
    Transports,       \* transports the process creates, drops and creates again
    Names,            \* the names their vsomeip applications may be given
    ChannelCapacity,  \* bound of a state channel (1000 in the code)
    None              \* "no such thing"

ASSUME StartupAssumption ==
    /\ ChannelCapacity \in Nat \ {0}
    /\ None \notin HandlerIds \cup Transports \cup Names \cup {"Ok", "Err"}

VARIABLES
    owner,         \* owner[t]: where the program is with t: none (Drop has begun,
                   \*   or t never was), constructing or running (in use)
    name,          \* name[t]: the application name t was constructed with
    answer,        \* answer[t]: what StartVsomeipApp returned to the constructor
    stopQueued,    \* stopQueued[t]: whether StopVsomeipApp is in t's channel
    pc,            \* pc[t]: the step t's engine does next; idle: it waits for a
                   \*   command, none: it has done its last one
    handlerId,     \* handlerId[t]: the local state_handler_id of create_app
    freeIds,       \* FREE_AVAILABLE_STATE_HANDLER_EXTERN_FN_IDS
    channel,       \* channel[i]: the reports in i's channel, by whose application
    app,           \* app[t]: vsomeip's application that t's engine created
    stateHandler,  \* stateHandler[t]: the state handler that application calls
    reporting,     \* reporting[t]: the handler a thread of it is about to run
    received,      \* history: whose application reported what ended t's wait
    lost,          \* history: the ids create_app took and will never free
    tainted,       \* history: the ids in hand that were found with a report in
                   \*   their channel, or on its way to it
    crowded        \* history: the transports that had their name at the same time
                   \*   as another one

transport == <<owner, name, answer, stopQueued>>
vsomeip == <<app, stateHandler, reporting>>
history == <<received, lost, tainted, crowded>>
vars == <<transport, pc, handlerId, freeIds, channel, vsomeip, history>>

TypeOK ==
    /\ owner \in [Transports -> {"none", "constructing", "running"}]
    /\ name \in [Transports -> Names \cup {None}]
    /\ answer \in [Transports -> {"Ok", "Err", None}]
    /\ stopQueued \in [Transports -> BOOLEAN]
    /\ freeIds \subseteq HandlerIds
    /\ \A i \in HandlerIds : channel[i] \in Seq(Transports) /\ Len(channel[i]) <= ChannelCapacity
    /\ pc \in [Transports -> {"none", "checkName", "findId", "create", "wait",
                              "unregister", "freeId", "idle"}]
    /\ handlerId \in [Transports -> HandlerIds \cup {None}]
    /\ app \in [Transports -> {"none", "created", "started", "stopping"}]
    /\ stateHandler \in [Transports -> HandlerIds \cup {None}]
    /\ reporting \in [Transports -> HandlerIds \cup {None}]
    /\ received \in [Transports -> Transports \cup {None}]
    /\ lost \subseteq HandlerIds
    /\ tainted \subseteq HandlerIds
    /\ crowded \subseteq Transports

Init ==
    /\ owner = [t \in Transports |-> "none"]
    /\ name = [t \in Transports |-> None]
    /\ answer = [t \in Transports |-> None]
    /\ stopQueued = [t \in Transports |-> FALSE]
    /\ freeIds = HandlerIds
    /\ channel = [i \in HandlerIds |-> <<>>]
    /\ pc = [t \in Transports |-> "none"]
    /\ handlerId = [t \in Transports |-> None]
    /\ app = [t \in Transports |-> "none"]
    /\ stateHandler = [t \in Transports |-> None]
    /\ reporting = [t \in Transports |-> None]
    /\ received = [t \in Transports |-> None]
    /\ lost = {}
    /\ tainted = {}
    /\ crowded = {}

Goto(t, step) == pc' = [pc EXCEPT ![t] = step]

(* What vsomeip's get_application can find under a name.                   *)
GetApplication(n) == {t \in Transports : app[t] # "none" /\ name[t] = n}

-----------------------------------------------------------------------------
(* The transport is constructed, and its engine told to StartVsomeipApp.   *)
(* A name is shared when the engine of another transport with that name    *)
(* has not yet executed its last command.                                  *)
New(t) ==
    /\ owner[t] = "none" /\ pc[t] = "none" /\ app[t] = "none"
    /\ \E n \in Names :
          LET namesakes == {u \in Transports \ {t} : name[u] = n /\ pc[u] # "none"} IN
          /\ name' = [name EXCEPT ![t] = n]
          /\ crowded' = IF namesakes = {} THEN crowded \ {t} ELSE crowded \cup namesakes \cup {t}
    /\ owner' = [owner EXCEPT ![t] = "constructing"]
    /\ Goto(t, "checkName")
    /\ UNCHANGED <<answer, stopQueued, handlerId, freeIds, channel, vsomeip, received, lost, tainted>>

(* Drop sends the last command.  Whether it is answered before Drop gives  *)
(* up waiting makes no difference to anybody: the error is only logged, and*)
(* the engine still executes the command, before Drop returns or after.    *)
DropNow(t) ==
    /\ owner' = [owner EXCEPT ![t] = "none"]
    /\ stopQueued' = [stopQueued EXCEPT ![t] = TRUE]

(* The constructor returns the transport, or drops it if it did not start. *)
AwaitStart(t) ==
    /\ owner[t] = "constructing"
    /\ \/ /\ answer[t] = "Ok"
          /\ owner' = [owner EXCEPT ![t] = "running"]
          /\ UNCHANGED stopQueued
       \/ answer[t] = "Err" /\ DropNow(t)
    /\ answer' = [answer EXCEPT ![t] = None]
    /\ UNCHANGED <<name, pc, handlerId, freeIds, channel, vsomeip, history>>

(* DEADLINE_EXCEEDED is a failure like any other.                          *)
AwaitStartTimeout(t) ==
    /\ owner[t] = "constructing"
    /\ answer[t] = None
    /\ DropNow(t)
    /\ UNCHANGED <<name, answer, pc, handlerId, freeIds, channel, vsomeip, history>>

Drop(t) ==
    /\ owner[t] = "running"
    /\ DropNow(t)
    /\ UNCHANGED <<name, answer, pc, handlerId, freeIds, channel, vsomeip, history>>

-----------------------------------------------------------------------------
(* create_app has ended: the result goes to a constructor that still waits.*)
Return(t, result) ==
    /\ Goto(t, "idle")
    /\ answer' = [answer EXCEPT ![t] = IF owner[t] = "constructing" THEN result ELSE None]

(* Mutant: a name in use is not refused.                                   *)
CheckNothing(t) ==
    /\ pc[t] = "checkName"
    /\ Goto(t, "findId")
    /\ UNCHANGED <<transport, handlerId, freeIds, channel, vsomeip, history>>

CheckName(t) ==
    /\ pc[t] = "checkName"
    /\ \/ GetApplication(name[t]) = {} /\ Goto(t, "findId") /\ UNCHANGED answer
       \/ GetApplication(name[t]) # {} /\ Return(t, "Err")
    /\ UNCHANGED <<owner, name, stopQueued, handlerId, freeIds, channel, vsomeip, history>>

(* There is a report in i's channel, or a thread on the way to it.         *)
InUse(i) == channel[i] # <<>> \/ \E u \in Transports : reporting[u] = i

FindId(t) ==
    /\ pc[t] = "findId"
    /\ \/ \E i \in freeIds :
             /\ freeIds' = freeIds \ {i}
             /\ handlerId' = [handlerId EXCEPT ![t] = i]
             /\ tainted' = IF InUse(i) THEN tainted \cup {i} ELSE tainted
             /\ Goto(t, "create")
             /\ UNCHANGED answer
       \/ /\ freeIds = {}
          /\ Return(t, "Err")
          /\ UNCHANGED <<freeIds, handlerId, tainted>>
    /\ UNCHANGED <<owner, name, stopQueued, channel, vsomeip, received, lost, crowded>>

(* The id is given up, and create_app returns an error.                    *)
LoseId(t) ==
    /\ lost' = lost \cup {handlerId[t]}
    /\ tainted' = tainted \ {handlerId[t]}
    /\ handlerId' = [handlerId EXCEPT ![t] = None]
    /\ Return(t, "Err")

(* The application is created, initialised, given its state handler and    *)
(* started on a thread of its own; or vsomeip creates none.                *)
CreateApp(t) ==
    /\ pc[t] = "create"
    /\ \/ /\ app' = [app EXCEPT ![t] = "created"]
          /\ stateHandler' = [stateHandler EXCEPT ![t] = handlerId[t]]
          /\ Goto(t, "wait")
          /\ UNCHANGED <<answer, handlerId, lost, tainted>>
       \/ LoseId(t) /\ UNCHANGED <<app, stateHandler>>
    /\ UNCHANGED <<owner, name, stopQueued, freeIds, channel, reporting, received, crowded>>

(* recv_timeout: whatever state is reported, the application is up.        *)
ReceiveState(t) ==
    LET i == handlerId[t] IN
    /\ pc[t] = "wait"
    /\ channel[i] # <<>>
    /\ received' = [received EXCEPT ![t] = Head(channel[i])]
    /\ channel' = [channel EXCEPT ![i] = Tail(@)]
    /\ Goto(t, "unregister")
    /\ UNCHANGED <<transport, handlerId, freeIds, vsomeip, lost, tainted, crowded>>

(* Mutant: giving up frees the id.                                         *)
TimeoutFreesId(t) ==
    /\ pc[t] = "wait"
    /\ channel[handlerId[t]] = <<>>
    /\ freeIds' = freeIds \cup {handlerId[t]}
    /\ handlerId' = [handlerId EXCEPT ![t] = None]
    /\ Return(t, "Err")
    /\ UNCHANGED <<owner, name, stopQueued, channel, vsomeip, history>>

(* Mutant: recv instead of recv_timeout.                                   *)
NoTimeout(t) == pc[t] = "timeout" /\ UNCHANGED vars

(* 50 ms have passed: the id is not freed, and the handler stays registered*)
ReceiveTimeout(t) ==
    /\ pc[t] = "wait"
    /\ channel[handlerId[t]] = <<>>
    /\ LoseId(t)
    /\ UNCHANGED <<owner, name, stopQueued, freeIds, channel, vsomeip, received, crowded>>

(* Mutant: the application keeps its state handler.                        *)
UnregisterNothing(t) ==
    /\ pc[t] = "unregister"
    /\ Goto(t, "freeId")
    /\ UNCHANGED <<transport, handlerId, freeIds, channel, vsomeip, history>>

UnregisterStateHandler(t) ==
    /\ pc[t] = "unregister"
    /\ stateHandler' = [stateHandler EXCEPT ![t] = None]
    /\ Goto(t, "freeId")
    /\ UNCHANGED <<transport, handlerId, freeIds, channel, app, reporting, history>>

FreeId(t) ==
    /\ pc[t] = "freeId"
    /\ freeIds' = freeIds \cup {handlerId[t]}
    /\ tainted' = tainted \ {handlerId[t]}
    /\ handlerId' = [handlerId EXCEPT ![t] = None]
    /\ Return(t, "Ok")
    /\ UNCHANGED <<owner, name, stopQueued, channel, vsomeip, received, lost, crowded>>

(* StopVsomeipApp, the last command: stop_vsomeip_app_internal stops what  *)
(* has the transport's name, if anything has.                              *)
StopApp(t) ==
    LET found == GetApplication(name[t]) IN
    /\ pc[t] = "idle"
    /\ stopQueued[t]
    /\ stopQueued' = [stopQueued EXCEPT ![t] = FALSE]
    /\ \/ \E u \in found : app' = [app EXCEPT ![u] = "stopping"]
       \/ found = {} /\ UNCHANGED app
    /\ Goto(t, "none")
    /\ received' = [received EXCEPT ![t] = None]
    /\ UNCHANGED <<owner, name, answer, handlerId, freeIds, channel, stateHandler, reporting,
                   lost, tainted, crowded>>

-----------------------------------------------------------------------------
(* vsomeip: an application starts, reports its state whenever it changes,  *)
(* and is gone some time after it was stopped.                             *)
AppStarts(t) ==
    /\ app[t] = "created"
    /\ app' = [app EXCEPT ![t] = "started"]
    /\ UNCHANGED <<transport, pc, handlerId, freeIds, channel, stateHandler, reporting, history>>

StateChanges(t) ==
    /\ app[t] \in {"started", "stopping"}
    /\ stateHandler[t] # None /\ reporting[t] = None
    /\ reporting' = [reporting EXCEPT ![t] = stateHandler[t]]
    /\ UNCHANGED <<transport, pc, handlerId, freeIds, channel, app, stateHandler, history>>

AppEnds(t) ==
    /\ app[t] = "stopping" /\ reporting[t] = None
    /\ app' = [app EXCEPT ![t] = "none"]
    /\ stateHandler' = [stateHandler EXCEPT ![t] = None]
    /\ UNCHANGED <<transport, pc, handlerId, freeIds, channel, reporting, history>>

(* Mutant: the channel is unbounded.                                       *)
ReportUnbounded(t) ==
    LET i == reporting[t] IN
    /\ i # None
    /\ channel' = [channel EXCEPT ![i] = Append(@, t)]
    /\ reporting' = [reporting EXCEPT ![t] = None]
    /\ UNCHANGED <<transport, pc, handlerId, freeIds, app, stateHandler, history>>

(* call_shared_extern_fn of a state handler: it waits for room.            *)
Report(t) ==
    LET i == reporting[t] IN
    /\ i # None
    /\ Len(channel[i]) < ChannelCapacity
    /\ channel' = [channel EXCEPT ![i] = Append(@, t)]
    /\ reporting' = [reporting EXCEPT ![t] = None]
    /\ UNCHANGED <<transport, pc, handlerId, freeIds, app, stateHandler, history>>

-----------------------------------------------------------------------------
EngineStep(t) ==
    \/ CheckName(t) \/ FindId(t) \/ CreateApp(t)
    \/ ReceiveState(t) \/ ReceiveTimeout(t)
    \/ UnregisterStateHandler(t) \/ FreeId(t) \/ StopApp(t)

VsomeipStep(t) == AppStarts(t) \/ StateChanges(t) \/ Report(t) \/ AppEnds(t)

TransportStep(t) ==
    New(t) \/ AwaitStart(t) \/ AwaitStartTimeout(t) \/ Drop(t)

Next == \E t \in Transports : EngineStep(t) \/ VsomeipStep(t) \/ TransportStep(t)

Spec == Init /\ [][Next]_vars

(* The engine thread runs, and so does the constructor that has its answer;*)
(* of vsomeip, and of timeouts, nothing is expected.                       *)
FairSpec == Spec /\ \A t \in Transports : WF_vars(EngineStep(t)) /\ WF_vars(AwaitStart(t))

-----------------------------------------------------------------------------
(* Every state handler is either free, and then no application has it      *)
(* registered; or used by exactly one start in progress; or lost to one    *)
(* that failed.  The extern functions of failed starts are never recycled, *)
(* as their applications may still call them.                              *)
IdsAccountedFor ==
    \A i \in HandlerIds :
        LET users == {t \in Transports : handlerId[t] = i} IN
        /\ i \in freeIds => users = {} /\ i \notin lost /\ \A t \in Transports : stateHandler[t] # i
        /\ i \in lost => users = {}
        /\ i \notin freeIds \cup lost => Cardinality(users) = 1

(* While a transport is in use, its vsomeip application is not stopped: the*)
(* name of an application that exists is refused to any other transport    *)
(* ("Check whether application exists beforehand", transport_engine.rs:141)*)
Up(t) == app[t] \in {"created", "started"}
AppOutlivesTransport == \A t \in Transports : owner[t] = "running" => Up(t)

(* The application of a transport is up while the transport is in use, and *)
(* stopped when its engine has done what Drop asked for: whichever starts  *)
(* failed, whoever gave up waiting, and whoever had the name before, unless*)
(* another transport was given that name before the engine of the first    *)
(* was done.  (A StopVsomeipApp that its Drop did not wait for to the end  *)
(* is part of what has to be done.)                                        *)
AppLivesWithTransport ==
    \A t \in Transports \ crowded :
        /\ owner[t] = "running" => Up(t)
        /\ pc[t] = "none" => ~Up(t)

(* A start that succeeds was told of its own application's state: the      *)
(* error otherwise is "Timed out on waiting for application to start"      *)
(* (transport_engine.rs:224).                                              *)
StartedByOwnState == \A t \in Transports : owner[t] = "running" => received[t] = t

(* A start is told of another application's state only if its state        *)
(* handler had a report waiting, or under way, when find_available handed  *)
(* it out: an application whose start was given up, or that ends or comes  *)
(* up at any time, never reports to a start that follows.                  *)
StrangersWereWaiting ==
    \A t \in Transports :
        pc[t] \in {"unregister", "freeId"} /\ received[t] # t => handlerId[t] \in tainted

(* The constructor of a transport comes to an end, whatever vsomeip does,  *)
(* even if it had no timeout of its own.                                   *)
StartReturns == \A t \in Transports : owner[t] = "constructing" ~> owner[t] # "constructing"
=============================================================================
