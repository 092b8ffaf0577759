----------------------- MODULE MCListenerLifecycle -----------------------
(* ListenerLifecycle for TLC: what the configurations of the runs are.     *)
EXTENDS ListenerLifecycle, TLC

CONSTANTS request1, request2, sameKey, publish, response,   \* configurations
          alice, bob                                        \* callers

(* Service 1 is offered by the transport itself, services 2 and 3 are      *)
(* remote.  sameKey is request1 for another listener.                      *)
Uri(authority, service, resource) ==
    [authority |-> authority, entityType |-> service, entityInstance |-> 0,
     version |-> 1, resource |-> resource]
Wildcard ==
    [authority |-> AnyAuthority, entityType |-> Wild, entityInstance |-> Wild,
     version |-> AnyVersion, resource |-> Wild]

MCSourceFilter(c) ==
    CASE c \in {request1, request2, sameKey} -> Wildcard
      [] c = publish -> Uri("remote", 2, 32769)
      [] c = response -> Uri("remote", 3, 1)
MCSinkFilter(c) ==
    CASE c \in {request1, sameKey} -> Uri("local", 1, 1)
      [] c = request2 -> Uri("local", 1, 2)
      [] c = publish -> NoSink
      [] c = response -> Uri("local", 1, 0)

(* A client that makes the calls about one listener one after the other.   *)
OneCallerPerConfig(p) ==
    IF p = alice THEN Configs \cap {request1, publish}
    ELSE Configs \cap {request2, sameKey, response}

(* The hypotheses of the theorems in ListenerLifecycleProofs.              *)
ASSUME MCAssumption == OneCaller /\ KeysApart

IdAndTransportSymmetry == Permutations(Ids) \cup Permutations(Transports)
=============================================================================
