------------------------- MODULE HandlerAllocation -------------------------
(***************************************************************************)
(* What the message handler registry promises, one atomic step per         *)
(* operation: a process-wide pool of extern "C" functions, identified by   *)
(* Ids, each of which is either unused or held by one listener             *)
(* configuration of one transport.  HandlerRegistry is the code, with its  *)
(* three locks and its rollbacks; it implements this module.               *)
(***************************************************************************)
CONSTANTS Ids,         \* the generated extern functions
          Transports,  \* the UPTransportVsomeip instances of the process
          Configs,     \* (source filter, sink filter, listener) triples
          Callers,     \* threads that call into the registry
          Callbacks,   \* vsomeip threads that run a registered extern function
          None         \* "no such thing"

VARIABLES holder,    \* holder[i]: the <<transport, config>> that holds i, or None
          request,   \* request[p]: the call thread p is in, or None
          outcome,   \* outcome[p]: how that call ended, or None
          callback   \* callback[k]: what callback thread k knows so far

vars == <<holder, request, outcome, callback>>

Requests == [op : {"get", "release"}, transport : Transports, config : Configs]
Failures == {"ExternFnsExhausted", "ListenerConfigAlreadyExists", "NotFound"}
Outcomes == [status : {"Ok"}, id : Ids] \cup [status : Failures, id : {None}]

Unheld == {i \in Ids : holder[i] = None}
HeldBy(t, c) == {i \in Ids : holder[i] = <<t, c>>}

(* The callback thread: entered with an id, then it knows the transport,   *)
(* then the listener it hands the message to.                              *)
Reached(where, i, t, c) == [at |-> where, id |-> i, transport |-> t, config |-> c]
Idle == Reached("idle", None, None, None)

Init ==
    /\ holder = [i \in Ids |-> None]
    /\ request = [p \in Callers |-> None]
    /\ outcome = [p \in Callers |-> None]
    /\ callback = [k \in Callbacks |-> Idle]

Call(p) ==
    /\ request[p] = None
    /\ \E r \in Requests : request' = [request EXCEPT ![p] = r]
    /\ UNCHANGED <<holder, outcome, callback>>

Pending(p, op) ==
    /\ request[p] # None
    /\ request[p].op = op
    /\ outcome[p] = None

Finish(p, status, i) ==
    outcome' = [outcome EXCEPT ![p] = [status |-> status, id |-> i]]

(* An unused id becomes the configuration's, which held none before.       *)
Assign(p) ==
    /\ Pending(p, "get")
    /\ HeldBy(request[p].transport, request[p].config) = {}
    /\ \E i \in Unheld :
          /\ holder' = [holder EXCEPT ![i] = <<request[p].transport, request[p].config>>]
          /\ Finish(p, "Ok", i)
    /\ UNCHANGED <<request, callback>>

Refuse(p) ==
    /\ Pending(p, "get")
    /\ \/ /\ Unheld = {}
          /\ Finish(p, "ExternFnsExhausted", None)
       \/ /\ Unheld # {}
          /\ HeldBy(request[p].transport, request[p].config) # {}
          /\ Finish(p, "ListenerConfigAlreadyExists", None)
    /\ UNCHANGED <<holder, request, callback>>

Release(p) ==
    /\ Pending(p, "release")
    /\ \E i \in HeldBy(request[p].transport, request[p].config) :
          /\ holder' = [holder EXCEPT ![i] = None]
          /\ Finish(p, "Ok", i)
    /\ UNCHANGED <<request, callback>>

ReleaseUnknown(p) ==
    /\ Pending(p, "release")
    /\ HeldBy(request[p].transport, request[p].config) = {}
    /\ Finish(p, "NotFound", None)
    /\ UNCHANGED <<holder, request, callback>>

Return(p) ==
    /\ outcome[p] # None
    /\ request' = [request EXCEPT ![p] = None]
    /\ outcome' = [outcome EXCEPT ![p] = None]
    /\ UNCHANGED <<holder, callback>>

(* vsomeip may run an extern function it was once given at any time.       *)
Enter(k) ==
    /\ callback[k] = Idle
    /\ \E i \in Ids : callback' = [callback EXCEPT ![k] = Reached("entered", i, None, None)]
    /\ UNCHANGED <<holder, request, outcome>>

(* The callback sees the transport of the id's holder at this instant...   *)
SeeTransport(k) ==
    /\ callback[k].at = "entered"
    /\ LET h == holder[callback[k].id] IN
       callback' = [callback EXCEPT ![k] =
                      IF h = None THEN Idle
                      ELSE Reached("converting", @.id, h[1], None)]
    /\ UNCHANGED <<holder, request, outcome>>

(* ... and, later, the listener of the holder at that later instant: one   *)
(* the same transport has under the same id, or none.                      *)
SeeListener(k) ==
    /\ callback[k].at = "converting"
    /\ LET h == holder[callback[k].id] IN
       callback' = [callback EXCEPT ![k] =
                      IF h # None /\ h[1] = callback[k].transport
                      THEN Reached("delivering", @.id, h[1], h[2])
                      ELSE Idle]
    /\ UNCHANGED <<holder, request, outcome>>

Deliver(k) ==
    /\ callback[k].at = "delivering"
    /\ callback' = [callback EXCEPT ![k] = Idle]
    /\ UNCHANGED <<holder, request, outcome>>

Next ==
    \/ \E p \in Callers : \/ Call(p) \/ Assign(p) \/ Refuse(p)
                          \/ Release(p) \/ ReleaseUnknown(p) \/ Return(p)
    \/ \E k \in Callbacks : Enter(k) \/ SeeTransport(k) \/ SeeListener(k) \/ Deliver(k)

Spec == Init /\ [][Next]_vars
=============================================================================
