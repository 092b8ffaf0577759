-------------------------- MODULE ListenerService --------------------------
(***************************************************************************)
(* What registering and unregistering a listener promise, seen from        *)
(* outside: a registration is claimed, messages reach its listener from    *)
(* one instant on, and no longer from one instant of the call that         *)
(* unregisters it.  No other call, of whatever task and transport, and no  *)
(* recycling of extern functions makes a listener heard or unheard.        *)
(*                                                                         *)
(* ListenerLifecycle implements this as long as the engine answers in time *)
(* and the calls about one registration are made one after the other.      *)
(***************************************************************************)
EXTENDS Naturals, FiniteSets

CONSTANTS
    Registrations,   \* pairs of a transport and a listener's configuration
    Callers,         \* tasks that make calls
    Limit,           \* how many registrations the process has room for
    None             \* "no call"

VARIABLES
    claimed,         \* the registrations that were begun and not ended
    listening,       \* those whose listener gets its messages
    busy             \* busy[p]: the operation and registration p is in, or None

vars == <<claimed, listening, busy>>

Init ==
    /\ claimed = {}
    /\ listening = {}
    /\ busy = [p \in Callers |-> None]

Return(p) == busy' = [busy EXCEPT ![p] = None]

Call(p, op, r) ==
    /\ busy[p] = None
    /\ busy' = [busy EXCEPT ![p] = <<op, r>>]
    /\ UNCHANGED <<claimed, listening>>

(* A registration is refused only if it stands already or all are taken.   *)
Claim(p, r) ==
    /\ busy[p] = <<"register", r>>
    /\ r \notin claimed
    /\ Cardinality(claimed) < Limit
    /\ claimed' = claimed \cup {r}
    /\ UNCHANGED <<listening, busy>>

Refuse(p, r) ==
    /\ busy[p] = <<"register", r>>
    /\ r \in claimed \/ Cardinality(claimed) = Limit
    /\ Return(p)
    /\ UNCHANGED <<claimed, listening>>

(* Messages begin to reach the listener: before register_listener returns  *)
(* Ok, but possibly after its caller has stopped waiting.                  *)
Hear(r) ==
    /\ r \in claimed
    /\ listening' = listening \cup {r}
    /\ UNCHANGED <<claimed, busy>>

Succeed(p, r) ==
    /\ busy[p] = <<"register", r>>
    /\ r \in listening
    /\ Return(p)
    /\ UNCHANGED <<claimed, listening>>

Abandon(p, r) ==
    /\ busy[p] = <<"register", r>>
    /\ r \in claimed
    /\ Return(p)
    /\ UNCHANGED <<claimed, listening>>

(* Messages stop reaching the listener, and only then is it given up.      *)
StopHearing(p, r) ==
    /\ busy[p] = <<"unregister", r>>
    /\ listening' = listening \ {r}
    /\ UNCHANGED <<claimed, busy>>

GiveUp(p, r) ==
    /\ busy[p] = <<"unregister", r>>
    /\ r \notin listening
    /\ claimed' = claimed \ {r}
    /\ Return(p)
    /\ UNCHANGED listening

Next ==
    \E r \in Registrations :
        \/ Hear(r)
        \/ \E p \in Callers :
              \/ \E op \in {"register", "unregister"} : Call(p, op, r)
              \/ Claim(p, r) \/ Refuse(p, r) \/ Succeed(p, r) \/ Abandon(p, r)
              \/ StopHearing(p, r) \/ GiveUp(p, r)

Spec == Init /\ [][Next]_vars
=============================================================================
