-------------------------- MODULE HandlerRegistry --------------------------
(***************************************************************************)
(* The message handler registry, storage/message_handler_registry.rs: a    *)
(* process-wide pool of generated extern "C" functions shared by every     *)
(* transport, with three RwLocks taken one after the other.                *)
(*                                                                         *)
(*   MESSAGE_HANDLER_ID_TO_TRANSPORT_STORAGE   idToTransport, process-wide *)
(*   FREE_MESSAGE_HANDLER_IDS                  freeIds, process-wide       *)
(*   message_handler_id_and_listener_config    listenerConfig[t]           *)
(*                                                                         *)
(* A thread's pc names the statement it is about to execute.  Acquiring a  *)
(* lock is a step of its own; so is every update made under the locks, and *)
(* every rollback step, which also drops the guard its closure owns.       *)
(* Reading one value under a read lock is one step, enabled while no       *)
(* writer holds the lock.                                                  *)
(***************************************************************************)
EXTENDS FiniteSets

CONSTANTS Ids,         \* the generated extern functions
          Transports,  \* the UPTransportVsomeip instances of the process
          Configs,     \* (source filter, sink filter, listener) triples
          Callers,     \* threads that register and unregister listeners
          Callbacks,   \* vsomeip threads that run a registered extern function
          None         \* "no such thing"

VARIABLES
    freeIds,          \* FREE_MESSAGE_HANDLER_IDS
    idToTransport,    \* MESSAGE_HANDLER_ID_TO_TRANSPORT_STORAGE, None: no entry
    listenerConfig,   \* listenerConfig[t]: the BiMap of t, None: no entry
    transportsLock,   \* the thread that write-locks idToTransport, or None
    freeLock,         \* the thread that write-locks freeIds, or None
    configsLock,      \* configsLock[t]: the thread that write-locks t's BiMap
    pc,               \* pc[p]: the statement thread p is about to execute
    request,          \* request[p]: the call p is in, or None
    handlerId,        \* handlerId[p]: the local message_handler_id of p
    outcome,          \* outcome[p]: the result p is about to return, or None
    callback          \* callback[k]: what callback thread k knows so far

pool  == <<freeIds, idToTransport, listenerConfig>>
locks == <<transportsLock, freeLock, configsLock>>
vars  == <<pool, locks, pc, request, handlerId, outcome, callback>>

Requests == [op : {"get", "release"}, transport : Transports, config : Configs]
Failures == {"ExternFnsExhausted", "TransportMappingExists",
             "ListenerIdAlreadyExists", "ListenerConfigAlreadyExists", "NotFound"}
Outcomes == [status : {"Ok"}, id : Ids] \cup [status : Failures, id : {None}]

ASSUME NoneAssumption ==
    None \notin UNION {Ids, Transports, Configs, Callers,
                       Transports \X Configs, Requests, Outcomes}

Statements == {"idle", "lockTransports", "lockFree", "lockConfigs",
               "findId", "insertTransport", "insertConfig",
               "rollbackFree", "rollbackTransport",
               "lookupConfig", "freeId", "removeTransport", "removeConfig",
               "return"}

Reached(where, i, t, c) == [at |-> where, id |-> i, transport |-> t, config |-> c]
Idle == Reached("idle", None, None, None)
CallbackStates ==
    {Idle}
    \cup [at : {"entered"}, id : Ids, transport : {None}, config : {None}]
    \cup [at : {"converting"}, id : Ids, transport : Transports, config : {None}]
    \cup [at : {"delivering"}, id : Ids, transport : Transports, config : Configs]

TypeOK ==
    /\ freeIds \subseteq Ids
    /\ idToTransport \in [Ids -> Transports \cup {None}]
    /\ listenerConfig \in [Transports -> [Ids -> Configs \cup {None}]]
    /\ transportsLock \in Callers \cup {None}
    /\ freeLock \in Callers \cup {None}
    /\ configsLock \in [Transports -> Callers \cup {None}]
    /\ pc \in [Callers -> Statements]
    /\ request \in [Callers -> Requests \cup {None}]
    /\ handlerId \in [Callers -> Ids \cup {None}]
    /\ outcome \in [Callers -> Outcomes \cup {None}]
    /\ callback \in [Callbacks -> CallbackStates]

Init ==
    /\ freeIds = Ids
    /\ idToTransport = [i \in Ids |-> None]
    /\ listenerConfig = [t \in Transports |-> [i \in Ids |-> None]]
    /\ transportsLock = None
    /\ freeLock = None
    /\ configsLock = [t \in Transports |-> None]
    /\ pc = [p \in Callers |-> "idle"]
    /\ request = [p \in Callers |-> None]
    /\ handlerId = [p \in Callers |-> None]
    /\ outcome = [p \in Callers |-> None]
    /\ callback = [k \in Callbacks |-> Idle]

-----------------------------------------------------------------------------
Transport(p) == request[p].transport
Config(p) == request[p].config
Goto(p, statement) == pc' = [pc EXCEPT ![p] = statement]
Fail(p, status) == outcome' = [outcome EXCEPT ![p] = [status |-> status, id |-> None]]
HolderIds(t, c) == {i \in Ids : listenerConfig[t][i] = c}

(* get_message_handler or release_message_handler is called.               *)
Call(p) ==
    /\ pc[p] = "idle"
    /\ \E r \in Requests : request' = [request EXCEPT ![p] = r]
    /\ Goto(p, "lockTransports")
    /\ UNCHANGED <<pool, locks, handlerId, outcome, callback>>

(* Mutant: release takes FREE_MESSAGE_HANDLER_IDS first.                   *)
LockFreeFirstToRelease(p) ==
    /\ pc[p] = "lockTransports"
    /\ \/ /\ request[p].op = "release" /\ freeLock = None
          /\ freeLock' = p
          /\ UNCHANGED <<transportsLock, pc>>
       \/ /\ transportsLock = None
          /\ request[p].op = "release" => freeLock = p
          /\ transportsLock' = p
          /\ Goto(p, IF request[p].op = "release" THEN "lockConfigs" ELSE "lockFree")
          /\ UNCHANGED freeLock
    /\ UNCHANGED <<pool, configsLock, request, handlerId, outcome, callback>>

(* Both functions take the three write locks in the same order.            *)
LockTransports(p) ==
    /\ pc[p] = "lockTransports"
    /\ transportsLock = None
    /\ transportsLock' = p
    /\ Goto(p, "lockFree")
    /\ UNCHANGED <<pool, freeLock, configsLock, request, handlerId, outcome, callback>>

LockFree(p) ==
    /\ pc[p] = "lockFree"
    /\ freeLock = None
    /\ freeLock' = p
    /\ Goto(p, "lockConfigs")
    /\ UNCHANGED <<pool, transportsLock, configsLock, request, handlerId, outcome, callback>>

LockConfigs(p) ==
    /\ pc[p] = "lockConfigs"
    /\ configsLock[Transport(p)] = None
    /\ configsLock' = [configsLock EXCEPT ![Transport(p)] = p]
    /\ Goto(p, IF request[p].op = "get" THEN "findId" ELSE "lookupConfig")
    /\ UNCHANGED <<pool, transportsLock, freeLock, request, handlerId, outcome, callback>>

(* The result is returned and the guards the thread still owns drop.       *)
Return(p) ==
    /\ pc[p] = "return"
    /\ transportsLock' = IF transportsLock = p THEN None ELSE transportsLock
    /\ freeLock' = IF freeLock = p THEN None ELSE freeLock
    /\ configsLock' = [configsLock EXCEPT ![Transport(p)] = None]
    /\ Goto(p, "idle")
    /\ request' = [request EXCEPT ![p] = None]
    /\ handlerId' = [handlerId EXCEPT ![p] = None]
    /\ outcome' = [outcome EXCEPT ![p] = None]
    /\ UNCHANGED <<pool, callback>>

-----------------------------------------------------------------------------
(* get_message_handler                                                     *)

(* find_available_message_handler_id: the first of a HashSet, so any id.   *)
FindId(p) ==
    /\ pc[p] = "findId"
    /\ \/ \E i \in freeIds :
             /\ freeIds' = freeIds \ {i}
             /\ handlerId' = [handlerId EXCEPT ![p] = i]
             /\ Goto(p, "insertTransport")
             /\ UNCHANGED outcome
       \/ /\ freeIds = {}
          /\ Fail(p, "ExternFnsExhausted")
          /\ Goto(p, "return")
          /\ UNCHANGED <<freeIds, handlerId>>
    /\ UNCHANGED <<idToTransport, listenerConfig, locks, request, callback>>

(* insert_message_handler_id_transport: an occupied entry is an error.     *)
InsertTransport(p) ==
    /\ pc[p] = "insertTransport"
    /\ IF idToTransport[handlerId[p]] = None
       THEN /\ idToTransport' = [idToTransport EXCEPT ![handlerId[p]] = Transport(p)]
            /\ Goto(p, "insertConfig")
            /\ UNCHANGED outcome
       ELSE /\ Fail(p, "TransportMappingExists")
            /\ Goto(p, "rollbackFree")
            /\ UNCHANGED idToTransport
    /\ UNCHANGED <<freeIds, listenerConfig, locks, request, handlerId, callback>>

(* Mutant: only the id is looked for, as a HashMap's entry would.          *)
InsertConfigUnderNewId(p) ==
    /\ pc[p] = "insertConfig"
    /\ listenerConfig' = [listenerConfig EXCEPT ![Transport(p)][handlerId[p]] = Config(p)]
    /\ outcome' = [outcome EXCEPT ![p] = [status |-> "Ok", id |-> handlerId[p]]]
    /\ Goto(p, "return")
    /\ UNCHANGED <<freeIds, idToTransport, locks, request, handlerId, callback>>

(* insert_no_overwrite on the BiMap: neither side may be present.          *)
InsertConfig(p) ==
    LET i == handlerId[p]
        t == Transport(p)
    IN
    /\ pc[p] = "insertConfig"
    /\ IF listenerConfig[t][i] = None /\ HolderIds(t, Config(p)) = {}
       THEN /\ listenerConfig' = [listenerConfig EXCEPT ![t][i] = Config(p)]
            /\ outcome' = [outcome EXCEPT ![p] = [status |-> "Ok", id |-> i]]
            /\ Goto(p, "return")
       ELSE /\ Fail(p, IF listenerConfig[t][i] # None
                       THEN "ListenerIdAlreadyExists" ELSE "ListenerConfigAlreadyExists")
            /\ Goto(p, "rollbackFree")
            /\ UNCHANGED listenerConfig
    /\ UNCHANGED <<freeIds, idToTransport, locks, request, handlerId, callback>>

(* Mutant: the transport mapping is not rolled back.                       *)
RollbackOnlyFree(p) ==
    /\ pc[p] = "rollbackFree"
    /\ freeIds' = freeIds \cup {handlerId[p]}
    /\ freeLock' = None
    /\ Goto(p, "return")
    /\ UNCHANGED <<idToTransport, listenerConfig, transportsLock, configsLock,
                   request, handlerId, outcome, callback>>

(* Mutant: the first closure drops every process-wide guard.               *)
RollbackFreeUnlocked(p) ==
    /\ pc[p] = "rollbackFree"
    /\ freeIds' = freeIds \cup {handlerId[p]}
    /\ freeLock' = None
    /\ transportsLock' = None
    /\ Goto(p, "rollbackTransport")
    /\ UNCHANGED <<idToTransport, listenerConfig, configsLock,
                   request, handlerId, outcome, callback>>

(* The rollback closures run in the order they were pushed, and each owns  *)
(* the guard of what it undoes: the lock is dropped with the closure.      *)
RollbackFree(p) ==
    /\ pc[p] = "rollbackFree"
    /\ freeIds' = freeIds \cup {handlerId[p]}
    /\ freeLock' = None
    /\ Goto(p, IF outcome[p].status = "TransportMappingExists"
               THEN "return" ELSE "rollbackTransport")
    /\ UNCHANGED <<idToTransport, listenerConfig, transportsLock, configsLock,
                   request, handlerId, outcome, callback>>

RollbackTransport(p) ==
    /\ pc[p] = "rollbackTransport"
    /\ idToTransport' = [idToTransport EXCEPT ![handlerId[p]] = None]
    /\ transportsLock' = None
    /\ Goto(p, "return")
    /\ UNCHANGED <<freeIds, listenerConfig, freeLock, configsLock,
                   request, handlerId, outcome, callback>>

-----------------------------------------------------------------------------
(* release_message_handler                                                 *)

(* Mutant: an unknown configuration does not return early.                 *)
LookupConfigWithoutReturn(p) ==
    LET found == HolderIds(Transport(p), Config(p)) IN
    /\ pc[p] = "lookupConfig"
    /\ \E i \in IF found = {} THEN {None} ELSE found :
          handlerId' = [handlerId EXCEPT ![p] = i]
    /\ Goto(p, "freeId")
    /\ UNCHANGED <<pool, locks, request, outcome, callback>>

LookupConfig(p) ==
    LET found == HolderIds(Transport(p), Config(p)) IN
    /\ pc[p] = "lookupConfig"
    /\ \/ \E i \in found :
             /\ handlerId' = [handlerId EXCEPT ![p] = i]
             /\ Goto(p, "freeId")
             /\ UNCHANGED outcome
       \/ /\ found = {}
          /\ Fail(p, "NotFound")
          /\ Goto(p, "return")
          /\ UNCHANGED handlerId
    /\ UNCHANGED <<pool, locks, request, callback>>

(* free_message_handler_id                                                 *)
FreeId(p) ==
    /\ pc[p] = "freeId"
    /\ freeIds' = freeIds \cup {handlerId[p]}
    /\ Goto(p, "removeTransport")
    /\ UNCHANGED <<idToTransport, listenerConfig, locks, request, handlerId, outcome, callback>>

(* remove_message_handler_id_transport: a missing entry only warns.        *)
RemoveTransport(p) ==
    /\ pc[p] = "removeTransport"
    /\ idToTransport' = [idToTransport EXCEPT ![handlerId[p]] = None]
    /\ Goto(p, "removeConfig")
    /\ UNCHANGED <<freeIds, listenerConfig, locks, request, handlerId, outcome, callback>>

(* remove_..._based_on_message_handler_id: a missing entry only warns.     *)
RemoveConfig(p) ==
    /\ pc[p] = "removeConfig"
    /\ listenerConfig' = [listenerConfig EXCEPT ![Transport(p)][handlerId[p]] = None]
    /\ outcome' = [outcome EXCEPT ![p] = [status |-> "Ok", id |-> handlerId[p]]]
    /\ Goto(p, "return")
    /\ UNCHANGED <<freeIds, idToTransport, locks, request, handlerId, callback>>

-----------------------------------------------------------------------------
(* call_shared_extern_fn: the id is looked up twice, without a lock held   *)
(* in between (the message is converted there).                            *)

(* vsomeip runs an extern function; which one is its own choice.           *)
Enter(k) ==
    /\ callback[k] = Idle
    /\ \E i \in Ids : callback' = [callback EXCEPT ![k] = Reached("entered", i, None, None)]
    /\ UNCHANGED <<pool, locks, pc, request, handlerId, outcome>>

(* Mutant: the map is read without its lock.                               *)
GetTransportUnlocked(k) ==
    LET t == idToTransport[callback[k].id] IN
    /\ callback[k].at = "entered"
    /\ callback' = [callback EXCEPT ![k] =
                      IF t = None THEN Idle
                      ELSE Reached("converting", @.id, t, None)]
    /\ UNCHANGED <<pool, locks, pc, request, handlerId, outcome>>

GetMessageHandlerIdTransport(k) ==
    LET t == idToTransport[callback[k].id] IN
    /\ callback[k].at = "entered"
    /\ transportsLock = None
    /\ callback' = [callback EXCEPT ![k] =
                      IF t = None THEN Idle
                      ELSE Reached("converting", @.id, t, None)]
    /\ UNCHANGED <<pool, locks, pc, request, handlerId, outcome>>

GetListenerForMessageHandlerId(k) ==
    LET t == callback[k].transport
        c == listenerConfig[t][callback[k].id]
    IN
    /\ callback[k].at = "converting"
    /\ configsLock[t] = None
    /\ callback' = [callback EXCEPT ![k] =
                      IF c = None THEN Idle
                      ELSE Reached("delivering", @.id, t, c)]
    /\ UNCHANGED <<pool, locks, pc, request, handlerId, outcome>>

(* on_receive of the listener runs with the message.                       *)
Deliver(k) ==
    /\ callback[k].at = "delivering"
    /\ callback' = [callback EXCEPT ![k] = Idle]
    /\ UNCHANGED <<pool, locks, pc, request, handlerId, outcome>>

-----------------------------------------------------------------------------
CallerStep(p) ==
    \/ LockTransports(p) \/ LockFree(p) \/ LockConfigs(p)
    \/ FindId(p) \/ InsertTransport(p) \/ InsertConfig(p)
    \/ RollbackFree(p) \/ RollbackTransport(p)
    \/ LookupConfig(p) \/ FreeId(p) \/ RemoveTransport(p) \/ RemoveConfig(p)
    \/ Return(p)

CallbackStep(k) ==
    \/ Enter(k)
    \/ GetMessageHandlerIdTransport(k)
    \/ GetListenerForMessageHandlerId(k)
    \/ Deliver(k)

Next ==
    \/ \E p \in Callers : Call(p) \/ CallerStep(p)
    \/ \E k \in Callbacks : CallbackStep(k)

Spec == Init /\ [][Next]_vars
-----------------------------------------------------------------------------
(* Whenever no thread is inside a transaction, the three structures agree: *)
(* an id is free exactly if it is mapped to no transport, and it is mapped *)
(* to a transport exactly if that transport has a listener under it.  (The *)
(* "partial transactions" the comment at line 162 wants to rule out.)      *)
PoolConsistent ==
    transportsLock = None =>
        \A i \in Ids :
            /\ i \in freeIds <=> idToTransport[i] = None
            /\ \A t \in Transports : idToTransport[i] = t <=> listenerConfig[t][i] # None

(* At every instant, mid-transaction ones included, an id serves at most   *)
(* one transport and a listener configuration is held by at most one id.   *)
OneHolderPerId ==
    /\ \A i \in Ids, t, u \in Transports :
          listenerConfig[t][i] # None /\ listenerConfig[u][i] # None => t = u
    /\ \A t \in Transports, i, j \in Ids :
          listenerConfig[t][i] = listenerConfig[t][j] /\ listenerConfig[t][i] # None => i = j

(* The error branches that would report a corrupted registry are never     *)
(* taken: the id found free is mapped nowhere (line 385), the BiMap has no *)
(* such left value (line 483), and what a rollback or a release removes is *)
(* there to be removed (lines 407 and 456).                                *)
CorruptionErrorsUnreachable ==
    \A p \in Callers :
        LET i == handlerId[p]
            t == Transport(p)
        IN
        /\ pc[p] = "insertTransport" => idToTransport[i] = None
        /\ pc[p] = "insertConfig" => listenerConfig[t][i] = None
        /\ pc[p] \in {"rollbackFree", "freeId"} => i \notin freeIds
        /\ pc[p] \in {"rollbackTransport", "removeTransport"} => idToTransport[i] = t
        /\ pc[p] = "removeConfig" => listenerConfig[t][i] = Config(p)

(* Threads inside a call never all wait for each other: whenever a thread  *)
(* is inside a call, one such thread is not waiting for a lock another one *)
(* holds.  It rests on both functions taking the locks in one order.       *)
Waiting(p) ==
    \/ pc[p] = "lockTransports" /\ transportsLock # None
    \/ pc[p] = "lockFree" /\ freeLock # None
    \/ pc[p] = "lockConfigs" /\ configsLock[Transport(p)] # None

NoDeadlock ==
    (\E p \in Callers : pc[p] # "idle") =>
        \E p \in Callers : pc[p] # "idle" /\ ~Waiting(p)

(* The registry implements HandlerAllocation: each call takes effect in    *)
(* one instant between its invocation and its return, and both lookups of  *)
(* a callback see the registry as those instants left it.  An id's holder  *)
(* is read off the BiMaps.                                                 *)
Holders(i) == {h \in Transports \X Configs : listenerConfig[h[1]][i] = h[2]}
TheOne(S) == CHOOSE x \in S : TRUE
Holder == [i \in Ids |-> IF Holders(i) = {} THEN None ELSE TheOne(Holders(i))]

Allocation == INSTANCE HandlerAllocation WITH holder <- Holder
ImplementsAllocation == Allocation!Spec
=============================================================================
