----------------------- MODULE HandlerRegistryProofs -----------------------
(***************************************************************************)
(* Proofs about HandlerRegistry, for every set of ids, transports,         *)
(* configurations, threads and callbacks.                                  *)
(*                                                                         *)
(* The inductive invariant has three layers, each preserved with the help  *)
(* of the ones before it:                                                  *)
(*   TypeInv  the types, and which locals are set at which statement;      *)
(*   LockInv  which thread owns which lock at which statement: only the    *)
(*            owner of the transports lock is inside a transaction;        *)
(*   PoolInv  every id no transaction is at work on is settled, and what   *)
(*            the id under work looks like at each statement.              *)
(***************************************************************************)
EXTENDS HandlerRegistry, TLAPS

-----------------------------------------------------------------------------
(* Statements at which a thread has a message_handler_id in hand, is in    *)
(* get_message_handler, is in release_message_handler, has its result.     *)
HasId == {"insertTransport", "insertConfig", "rollbackFree", "rollbackTransport",
          "freeId", "removeTransport", "removeConfig"}
InGet == {"findId", "insertTransport", "insertConfig", "rollbackFree", "rollbackTransport"}
InRelease == {"lookupConfig", "freeId", "removeTransport", "removeConfig"}
HasOutcome == {"rollbackFree", "rollbackTransport", "return"}

LocalOK(p) ==
    /\ IF pc[p] = "idle" THEN request[p] = None ELSE request[p] \in Requests
    /\ pc[p] \in HasId => handlerId[p] \in Ids
    /\ pc[p] \in InGet => request[p].op = "get"
    /\ pc[p] \in InRelease => request[p].op = "release"
    /\ IF pc[p] \in HasOutcome THEN outcome[p] \in Outcomes ELSE outcome[p] = None

LocalsOK == \A p \in Callers : LocalOK(p)

TypeInv == TypeOK /\ LocalsOK

(* Statements executed under the transports lock, the free ids lock and    *)
(* the configs lock; a thread about to return may own any of them.         *)
UnderConfigs == InGet \cup InRelease
UnderFree == (UnderConfigs \ {"rollbackTransport"}) \cup {"lockConfigs"}
UnderTransports == UnderConfigs \cup {"lockFree", "lockConfigs"}

LockOK(p) ==
    /\ pc[p] \in UnderTransports => transportsLock = p
    /\ transportsLock = p => pc[p] \in UnderTransports \cup {"return"}
    /\ pc[p] \in UnderFree => freeLock = p
    /\ freeLock = p => pc[p] \in UnderFree \cup {"return"}
    /\ pc[p] \in UnderConfigs \cup {"return"} => configsLock[Transport(p)] = p

FreeUnderTransports == freeLock # None => freeLock = transportsLock

ConfigsOwned ==
    \A t \in Transports, p \in Callers :
        configsLock[t] = p => pc[p] \in UnderConfigs \cup {"return"} /\ Transport(p) = t

LockInv == (\A p \in Callers : LockOK(p)) /\ FreeUnderTransports /\ ConfigsOwned

(* An id is settled when the three structures agree on it; it is in        *)
(* transit at the statements between two updates that concern it.          *)
Settled(i) ==
    /\ i \in freeIds <=> idToTransport[i] = None
    /\ \A t \in Transports : idToTransport[i] = t <=> listenerConfig[t][i] # None

InTransit == HasId \ {"freeId"}
NoListener(i) == \A t \in Transports : listenerConfig[t][i] = None
OnlyListener(i, t, c) ==
    /\ listenerConfig[t][i] = c
    /\ \A u \in Transports \ {t} : listenerConfig[u][i] = None

WorkedOn(p) ==
    LET i == handlerId[p]
        t == Transport(p)
        c == Config(p)
    IN
    /\ pc[p] = "insertTransport" =>
          i \notin freeIds /\ idToTransport[i] = None /\ NoListener(i)
    /\ pc[p] \in {"insertConfig", "rollbackFree"} =>
          i \notin freeIds /\ idToTransport[i] = t /\ NoListener(i)
    /\ pc[p] = "rollbackFree" => outcome[p].status = "ListenerConfigAlreadyExists"
    /\ pc[p] = "rollbackTransport" =>
          i \in freeIds /\ idToTransport[i] = t /\ NoListener(i)
    /\ pc[p] = "freeId" =>
          i \notin freeIds /\ idToTransport[i] = t /\ OnlyListener(i, t, c)
    /\ pc[p] = "removeTransport" =>
          i \in freeIds /\ idToTransport[i] = t /\ OnlyListener(i, t, c)
    /\ pc[p] = "removeConfig" =>
          i \in freeIds /\ idToTransport[i] = None /\ OnlyListener(i, t, c)

OneIdPerConfig ==
    \A t \in Transports, i, j \in Ids :
        listenerConfig[t][i] = listenerConfig[t][j] /\ listenerConfig[t][i] # None => i = j

Quiet(i) == \A p \in Callers : pc[p] \in InTransit => handlerId[p] # i

PoolInv ==
    /\ \A i \in Ids : Quiet(i) => Settled(i)
    /\ \A p \in Callers : WorkedOn(p)
    /\ OneIdPerConfig

IInv == TypeInv /\ LockInv /\ PoolInv

-----------------------------------------------------------------------------
(* What the records hold, and that None is none of them.                   *)
LEMMA NoneIsNothing ==
    /\ None \notin Ids /\ None \notin Transports /\ None \notin Configs /\ None \notin Callers
    /\ None \notin Transports \X Configs /\ None \notin Requests /\ None \notin Outcomes
  BY NoneAssumption

(* The fields of a request have the types of the constants.                *)
LEMMA RequestFields ==
    ASSUME NEW r \in Requests
    PROVE  r.op \in {"get", "release"} /\ r.transport \in Transports /\ r.config \in Configs
  BY DEF Requests

(* The three kinds of outcome are different records.                       *)
LEMMA OutcomeRecords ==
    /\ \A i \in Ids : [status |-> "Ok", id |-> i] \in Outcomes
    /\ \A f \in Failures : [status |-> f, id |-> None] \in Outcomes
  BY DEF Outcomes

(* What inserting into or removing from one BiMap leaves in all of them.   *)
LEMMA BiMapUpdate ==
    ASSUME NEW f \in [Transports -> [Ids -> Configs \cup {None}]],
           NEW t \in Transports, NEW i \in Ids, NEW c \in Configs \cup {None}
    PROVE  [f EXCEPT ![t][i] = c] \in [Transports -> [Ids -> Configs \cup {None}]]
  OBVIOUS

-----------------------------------------------------------------------------
(* The types and the locals, statement by statement.                       *)
LEMMA TypeInvInit == Init => TypeInv
  BY NoneAssumption DEF Init, TypeInv, TypeOK, LocalsOK, LocalOK, Statements, CallbackStates,
     HasId, InGet, InRelease, HasOutcome, Idle, Reached

(* Every statement keeps the types and the locals of its thread.           *)
LEMMA TypeInvNext == TypeInv /\ [Next]_vars => TypeInv'
  <1> SUFFICES ASSUME TypeInv, [Next]_vars PROVE TypeInv'
    OBVIOUS
  <1> USE NoneIsNothing, RequestFields, OutcomeRecords
  <1> USE DEF TypeInv, TypeOK, LocalsOK, Statements, Failures, pool, locks, Goto, Fail,
              Transport, Config
  <1>1. ASSUME NEW p \in Callers, Call(p) PROVE TypeInv'
    <2>1. TypeOK'
      BY <1>1 DEF Call, LocalOK, HasId
    <2>2. ASSUME NEW q \in Callers, q # p PROVE LocalOK(q)'
      BY <1>1, <2>2 DEF Call, LocalOK
    <2>3. LocalOK(p)'
      BY <1>1 DEF Call, LocalOK, HasId, InGet, InRelease, HasOutcome
    <2> QED
      BY <2>1, <2>2, <2>3
  <1>2. ASSUME NEW p \in Callers, LockTransports(p) PROVE TypeInv'
    <2>1. TypeOK'
      BY <1>2 DEF LockTransports, LocalOK, HasId
    <2>2. ASSUME NEW q \in Callers, q # p PROVE LocalOK(q)'
      BY <1>2, <2>2 DEF LockTransports, LocalOK
    <2>3. LocalOK(p)'
      BY <1>2 DEF LockTransports, LocalOK, HasId, InGet, InRelease, HasOutcome
    <2> QED
      BY <2>1, <2>2, <2>3
  <1>3. ASSUME NEW p \in Callers, LockFree(p) PROVE TypeInv'
    <2>1. TypeOK'
      BY <1>3 DEF LockFree, LocalOK, HasId
    <2>2. ASSUME NEW q \in Callers, q # p PROVE LocalOK(q)'
      BY <1>3, <2>2 DEF LockFree, LocalOK
    <2>3. LocalOK(p)'
      BY <1>3 DEF LockFree, LocalOK, HasId, InGet, InRelease, HasOutcome
    <2> QED
      BY <2>1, <2>2, <2>3
  <1>4. ASSUME NEW p \in Callers, LockConfigs(p) PROVE TypeInv'
    <2>1. TypeOK'
      BY <1>4 DEF LockConfigs, LocalOK, HasId
    <2>2. ASSUME NEW q \in Callers, q # p PROVE LocalOK(q)'
      BY <1>4, <2>2 DEF LockConfigs, LocalOK
    <2>3. LocalOK(p)'
      BY <1>4 DEF LockConfigs, LocalOK, HasId, InGet, InRelease, HasOutcome
    <2> QED
      BY <2>1, <2>2, <2>3
  <1>5. ASSUME NEW p \in Callers, FindId(p) PROVE TypeInv'
    <2>1. TypeOK'
      <3>1. freeIds' \subseteq Ids /\ handlerId' \in [Callers -> Ids \cup {None}]
        BY <1>5 DEF FindId, LocalOK, HasId
      <3>2. pc' \in [Callers -> Statements]
        BY <1>5 DEF FindId
      <3>3. outcome' \in [Callers -> Outcomes \cup {None}]
        BY <1>5 DEF FindId, LocalOK, HasId
      <3> QED
        BY <1>5, <3>1, <3>2, <3>3 DEF FindId
    <2>2. ASSUME NEW q \in Callers, q # p PROVE LocalOK(q)'
      BY <1>5, <2>2 DEF FindId, LocalOK
    <2>3. LocalOK(p)'
      BY <1>5 DEF FindId, LocalOK, HasId, InGet, InRelease, HasOutcome
    <2> QED
      BY <2>1, <2>2, <2>3
  <1>6. ASSUME NEW p \in Callers, InsertTransport(p) PROVE TypeInv'
    <2>1. TypeOK'
      <3>1. handlerId[p] \in Ids /\ Transport(p) \in Transports
        BY <1>6, RequestFields DEF InsertTransport, LocalOK, HasId, Transport
      <3>2. idToTransport' \in [Ids -> Transports \cup {None}]
        BY <1>6, <3>1 DEF InsertTransport
      <3>3. pc' \in [Callers -> Statements]
        BY <1>6 DEF InsertTransport
      <3>4. outcome' \in [Callers -> Outcomes \cup {None}]
        BY <1>6 DEF InsertTransport
      <3> QED
        BY <1>6, <3>2, <3>3, <3>4 DEF InsertTransport
    <2>2. ASSUME NEW q \in Callers, q # p PROVE LocalOK(q)'
      BY <1>6, <2>2 DEF InsertTransport, LocalOK
    <2>3. LocalOK(p)'
      BY <1>6 DEF InsertTransport, LocalOK, HasId, InGet, InRelease, HasOutcome
    <2> QED
      BY <2>1, <2>2, <2>3
  <1>7. ASSUME NEW p \in Callers, InsertConfig(p) PROVE TypeInv'
    <2>1. TypeOK'
      <3>1. listenerConfig' \in [Transports -> [Ids -> Configs \cup {None}]]
        <4>1. /\ Transport(p) \in Transports /\ Config(p) \in Configs
              /\ handlerId[p] \in Ids
          BY <1>7 DEF InsertConfig, LocalOK, HasId
        <4>2. \/ UNCHANGED listenerConfig
              \/ listenerConfig' = [listenerConfig EXCEPT ![Transport(p)][handlerId[p]] = Config(p)]
          BY <1>7 DEF InsertConfig
        <4>3. [listenerConfig EXCEPT ![Transport(p)][handlerId[p]] = Config(p)]
                \in [Transports -> [Ids -> Configs \cup {None}]]
          BY <4>1, BiMapUpdate
        <4> QED
          BY <4>2, <4>3
      <3>2. pc' \in [Callers -> Statements]
        BY <1>7 DEF InsertConfig
      <3>3. outcome' \in [Callers -> Outcomes \cup {None}]
        BY <1>7 DEF InsertConfig, LocalOK, HasId
      <3> QED
        BY <1>7, <3>1, <3>2, <3>3 DEF InsertConfig
    <2>2. ASSUME NEW q \in Callers, q # p PROVE LocalOK(q)'
      BY <1>7, <2>2 DEF InsertConfig, LocalOK
    <2>3. LocalOK(p)'
      BY <1>7 DEF InsertConfig, LocalOK, HasId, InGet, InRelease, HasOutcome
    <2> QED
      BY <2>1, <2>2, <2>3
  <1>8. ASSUME NEW p \in Callers, RollbackFree(p) PROVE TypeInv'
    <2>1. TypeOK'
      BY <1>8 DEF RollbackFree, LocalOK, HasId
    <2>2. ASSUME NEW q \in Callers, q # p PROVE LocalOK(q)'
      BY <1>8, <2>2 DEF RollbackFree, LocalOK
    <2>3. LocalOK(p)'
      BY <1>8 DEF RollbackFree, LocalOK, HasId, InGet, InRelease, HasOutcome
    <2> QED
      BY <2>1, <2>2, <2>3
  <1>9. ASSUME NEW p \in Callers, RollbackTransport(p) PROVE TypeInv'
    <2>1. TypeOK'
      BY <1>9 DEF RollbackTransport, LocalOK, HasId
    <2>2. ASSUME NEW q \in Callers, q # p PROVE LocalOK(q)'
      BY <1>9, <2>2 DEF RollbackTransport, LocalOK
    <2>3. LocalOK(p)'
      BY <1>9 DEF RollbackTransport, LocalOK, HasId, InGet, InRelease, HasOutcome
    <2> QED
      BY <2>1, <2>2, <2>3
  <1>10. ASSUME NEW p \in Callers, LookupConfig(p) PROVE TypeInv'
    <2>1. TypeOK'
      <3>1. handlerId' \in [Callers -> Ids \cup {None}]
        BY <1>10 DEF LookupConfig, HolderIds, LocalOK, HasId
      <3>2. pc' \in [Callers -> Statements]
        BY <1>10 DEF LookupConfig
      <3>3. outcome' \in [Callers -> Outcomes \cup {None}]
        BY <1>10 DEF LookupConfig, HolderIds, LocalOK, HasId
      <3> QED
        BY <1>10, <3>1, <3>2, <3>3 DEF LookupConfig
    <2>2. ASSUME NEW q \in Callers, q # p PROVE LocalOK(q)'
      BY <1>10, <2>2 DEF LookupConfig, LocalOK
    <2>3. LocalOK(p)'
      BY <1>10 DEF LookupConfig, HolderIds, LocalOK, HasId, InGet, InRelease, HasOutcome
    <2> QED
      BY <2>1, <2>2, <2>3
  <1>11. ASSUME NEW p \in Callers, FreeId(p) PROVE TypeInv'
    <2>1. TypeOK'
      BY <1>11 DEF FreeId, LocalOK, HasId
    <2>2. ASSUME NEW q \in Callers, q # p PROVE LocalOK(q)'
      BY <1>11, <2>2 DEF FreeId, LocalOK
    <2>3. LocalOK(p)'
      BY <1>11 DEF FreeId, LocalOK, HasId, InGet, InRelease, HasOutcome
    <2> QED
      BY <2>1, <2>2, <2>3
  <1>12. ASSUME NEW p \in Callers, RemoveTransport(p) PROVE TypeInv'
    <2>1. TypeOK'
      BY <1>12 DEF RemoveTransport, LocalOK, HasId
    <2>2. ASSUME NEW q \in Callers, q # p PROVE LocalOK(q)'
      BY <1>12, <2>2 DEF RemoveTransport, LocalOK
    <2>3. LocalOK(p)'
      BY <1>12 DEF RemoveTransport, LocalOK, HasId, InGet, InRelease, HasOutcome
    <2> QED
      BY <2>1, <2>2, <2>3
  <1>13. ASSUME NEW p \in Callers, RemoveConfig(p) PROVE TypeInv'
    <2>1. TypeOK'
      BY <1>13 DEF RemoveConfig, LocalOK, HasId
    <2>2. ASSUME NEW q \in Callers, q # p PROVE LocalOK(q)'
      BY <1>13, <2>2 DEF RemoveConfig, LocalOK
    <2>3. LocalOK(p)'
      BY <1>13 DEF RemoveConfig, LocalOK, HasId, InGet, InRelease, HasOutcome
    <2> QED
      BY <2>1, <2>2, <2>3
  <1>14. ASSUME NEW p \in Callers, Return(p) PROVE TypeInv'
    <2>1. TypeOK'
      BY <1>14 DEF Return, LocalOK, HasId
    <2>2. ASSUME NEW q \in Callers, q # p PROVE LocalOK(q)'
      BY <1>14, <2>2 DEF Return, LocalOK
    <2>3. LocalOK(p)'
      BY <1>14 DEF Return, LocalOK, HasId, InGet, InRelease, HasOutcome
    <2> QED
      BY <2>1, <2>2, <2>3
  <1>15. ASSUME NEW k \in Callbacks, CallbackStep(k) PROVE TypeInv'
    <2> USE DEF LocalOK, CallbackStates, Idle, Reached
    <2>1. CASE Enter(k)
      BY <2>1 DEF Enter
    <2>2. CASE GetMessageHandlerIdTransport(k)
      BY <2>2 DEF GetMessageHandlerIdTransport
    <2>3. CASE GetListenerForMessageHandlerId(k)
      BY <2>3 DEF GetListenerForMessageHandlerId
    <2>4. CASE Deliver(k)
      BY <2>4 DEF Deliver
    <2> QED
      BY <1>15, <2>1, <2>2, <2>3, <2>4 DEF CallbackStep
  <1>16. CASE UNCHANGED vars
    BY <1>16 DEF vars, LocalOK
  <1> QED
    BY <1>1, <1>2, <1>3, <1>4, <1>5, <1>6, <1>7, <1>8, <1>9, <1>10, <1>11, <1>12, <1>13,
       <1>14, <1>15, <1>16 DEF Next, CallerStep
-----------------------------------------------------------------------------
(* Who owns which lock at which statement.                                 *)
LEMMA LockInvInit == Init => LockInv
  BY NoneIsNothing DEF Init, LockInv, LockOK, FreeUnderTransports, ConfigsOwned,
     UnderTransports, UnderFree, UnderConfigs, InGet, InRelease

(* Every statement takes and releases the locks its thread should hold.    *)
LEMMA LockInvNext == TypeInv /\ LockInv /\ [Next]_vars => LockInv'
  <1> SUFFICES ASSUME TypeInv, LockInv, [Next]_vars PROVE LockInv'
    OBVIOUS
  <1> USE NoneIsNothing, RequestFields
  <1> USE DEF TypeInv, TypeOK, LocalsOK, LockInv, pool, locks, Goto, Fail, Transport
  <1>1. ASSUME NEW p \in Callers, Call(p) PROVE LockInv'
    <2>1. ASSUME NEW q \in Callers, q # p PROVE LockOK(q)'
      BY <1>1, <2>1 DEF Call, LocalOK, LockOK, ConfigsOwned, UnderTransports, UnderFree,
         UnderConfigs, InGet, InRelease
    <2>2. LockOK(p)'
      BY <1>1 DEF Call, LocalOK, LockOK, ConfigsOwned, UnderTransports, UnderFree,
         UnderConfigs, InGet, InRelease
    <2>3. FreeUnderTransports'
      BY <1>1 DEF Call, LockOK, FreeUnderTransports, UnderTransports, UnderFree,
         UnderConfigs, InGet, InRelease
    <2>4. ConfigsOwned'
      BY <1>1 DEF Call, LocalOK, LockOK, ConfigsOwned, UnderConfigs, InGet, InRelease
    <2> QED
      BY <2>1, <2>2, <2>3, <2>4
  <1>2. ASSUME NEW p \in Callers, LockTransports(p) PROVE LockInv'
    <2>1. ASSUME NEW q \in Callers, q # p PROVE LockOK(q)'
      BY <1>2, <2>1 DEF LockTransports, LocalOK, LockOK, ConfigsOwned, UnderTransports, UnderFree,
         UnderConfigs, InGet, InRelease
    <2>2. LockOK(p)'
      BY <1>2 DEF LockTransports, LocalOK, LockOK, ConfigsOwned, UnderTransports, UnderFree,
         UnderConfigs, InGet, InRelease
    <2>3. FreeUnderTransports'
      BY <1>2 DEF LockTransports, LockOK, FreeUnderTransports, UnderTransports, UnderFree,
         UnderConfigs, InGet, InRelease
    <2>4. ConfigsOwned'
      BY <1>2 DEF LockTransports, LocalOK, LockOK, ConfigsOwned, UnderConfigs, InGet, InRelease
    <2> QED
      BY <2>1, <2>2, <2>3, <2>4
  <1>3. ASSUME NEW p \in Callers, LockFree(p) PROVE LockInv'
    <2>1. ASSUME NEW q \in Callers, q # p PROVE LockOK(q)'
      BY <1>3, <2>1 DEF LockFree, LocalOK, LockOK, ConfigsOwned, UnderTransports, UnderFree,
         UnderConfigs, InGet, InRelease
    <2>2. LockOK(p)'
      BY <1>3 DEF LockFree, LocalOK, LockOK, ConfigsOwned, UnderTransports, UnderFree,
         UnderConfigs, InGet, InRelease
    <2>3. FreeUnderTransports'
      BY <1>3 DEF LockFree, LockOK, FreeUnderTransports, UnderTransports, UnderFree,
         UnderConfigs, InGet, InRelease
    <2>4. ConfigsOwned'
      BY <1>3 DEF LockFree, LocalOK, LockOK, ConfigsOwned, UnderConfigs, InGet, InRelease
    <2> QED
      BY <2>1, <2>2, <2>3, <2>4
  <1>4. ASSUME NEW p \in Callers, LockConfigs(p) PROVE LockInv'
    <2>1. ASSUME NEW q \in Callers, q # p PROVE LockOK(q)'
      BY <1>4, <2>1 DEF LockConfigs, LocalOK, LockOK, ConfigsOwned, UnderTransports, UnderFree,
         UnderConfigs, InGet, InRelease
    <2>2. LockOK(p)'
      BY <1>4 DEF LockConfigs, LocalOK, LockOK, ConfigsOwned, UnderTransports, UnderFree,
         UnderConfigs, InGet, InRelease
    <2>3. FreeUnderTransports'
      BY <1>4 DEF LockConfigs, LockOK, FreeUnderTransports, UnderTransports, UnderFree,
         UnderConfigs, InGet, InRelease
    <2>4. ConfigsOwned'
      BY <1>4 DEF LockConfigs, LocalOK, LockOK, ConfigsOwned, UnderConfigs, InGet, InRelease
    <2> QED
      BY <2>1, <2>2, <2>3, <2>4
  <1>5. ASSUME NEW p \in Callers, FindId(p) PROVE LockInv'
    <2>1. ASSUME NEW q \in Callers, q # p PROVE LockOK(q)'
      BY <1>5, <2>1 DEF FindId, LocalOK, LockOK, ConfigsOwned, UnderTransports, UnderFree,
         UnderConfigs, InGet, InRelease
    <2>2. LockOK(p)'
      BY <1>5 DEF FindId, LocalOK, LockOK, ConfigsOwned, UnderTransports, UnderFree,
         UnderConfigs, InGet, InRelease
    <2>3. FreeUnderTransports'
      BY <1>5 DEF FindId, LockOK, FreeUnderTransports, UnderTransports, UnderFree,
         UnderConfigs, InGet, InRelease
    <2>4. ConfigsOwned'
      BY <1>5 DEF FindId, LocalOK, LockOK, ConfigsOwned, UnderConfigs, InGet, InRelease
    <2> QED
      BY <2>1, <2>2, <2>3, <2>4
  <1>6. ASSUME NEW p \in Callers, InsertTransport(p) PROVE LockInv'
    <2>1. ASSUME NEW q \in Callers, q # p PROVE LockOK(q)'
      BY <1>6, <2>1 DEF InsertTransport, LocalOK, LockOK, ConfigsOwned, UnderTransports, UnderFree,
         UnderConfigs, InGet, InRelease
    <2>2. LockOK(p)'
      BY <1>6 DEF InsertTransport, LocalOK, LockOK, ConfigsOwned, UnderTransports, UnderFree,
         UnderConfigs, InGet, InRelease
    <2>3. FreeUnderTransports'
      BY <1>6 DEF InsertTransport, LockOK, FreeUnderTransports, UnderTransports, UnderFree,
         UnderConfigs, InGet, InRelease
    <2>4. ConfigsOwned'
      BY <1>6 DEF InsertTransport, LocalOK, LockOK, ConfigsOwned, UnderConfigs, InGet, InRelease
    <2> QED
      BY <2>1, <2>2, <2>3, <2>4
  <1>7. ASSUME NEW p \in Callers, InsertConfig(p) PROVE LockInv'
    <2>1. ASSUME NEW q \in Callers, q # p PROVE LockOK(q)'
      BY <1>7, <2>1 DEF InsertConfig, LocalOK, LockOK, ConfigsOwned, UnderTransports, UnderFree,
         UnderConfigs, InGet, InRelease
    <2>2. LockOK(p)'
      BY <1>7 DEF InsertConfig, LocalOK, LockOK, ConfigsOwned, UnderTransports, UnderFree,
         UnderConfigs, InGet, InRelease
    <2>3. FreeUnderTransports'
      BY <1>7 DEF InsertConfig, LockOK, FreeUnderTransports, UnderTransports, UnderFree,
         UnderConfigs, InGet, InRelease
    <2>4. ConfigsOwned'
      BY <1>7 DEF InsertConfig, LocalOK, LockOK, ConfigsOwned, UnderConfigs, InGet, InRelease
    <2> QED
      BY <2>1, <2>2, <2>3, <2>4
  <1>8. ASSUME NEW p \in Callers, RollbackFree(p) PROVE LockInv'
    <2>1. ASSUME NEW q \in Callers, q # p PROVE LockOK(q)'
      BY <1>8, <2>1 DEF RollbackFree, LocalOK, LockOK, ConfigsOwned, UnderTransports, UnderFree,
         UnderConfigs, InGet, InRelease
    <2>2. LockOK(p)'
      BY <1>8 DEF RollbackFree, LocalOK, LockOK, ConfigsOwned, UnderTransports, UnderFree,
         UnderConfigs, InGet, InRelease
    <2>3. FreeUnderTransports'
      BY <1>8 DEF RollbackFree, LockOK, FreeUnderTransports, UnderTransports, UnderFree,
         UnderConfigs, InGet, InRelease
    <2>4. ConfigsOwned'
      BY <1>8 DEF RollbackFree, LocalOK, LockOK, ConfigsOwned, UnderConfigs, InGet, InRelease
    <2> QED
      BY <2>1, <2>2, <2>3, <2>4
  <1>9. ASSUME NEW p \in Callers, RollbackTransport(p) PROVE LockInv'
    <2>1. ASSUME NEW q \in Callers, q # p PROVE LockOK(q)'
      BY <1>9, <2>1 DEF RollbackTransport, LocalOK, LockOK, ConfigsOwned, UnderTransports, UnderFree,
         UnderConfigs, InGet, InRelease
    <2>2. LockOK(p)'
      BY <1>9 DEF RollbackTransport, LocalOK, LockOK, ConfigsOwned, UnderTransports, UnderFree,
         UnderConfigs, InGet, InRelease
    <2>3. FreeUnderTransports'
      BY <1>9 DEF RollbackTransport, LockOK, FreeUnderTransports, UnderTransports, UnderFree,
         UnderConfigs, InGet, InRelease
    <2>4. ConfigsOwned'
      BY <1>9 DEF RollbackTransport, LocalOK, LockOK, ConfigsOwned, UnderConfigs, InGet, InRelease
    <2> QED
      BY <2>1, <2>2, <2>3, <2>4
  <1>10. ASSUME NEW p \in Callers, LookupConfig(p) PROVE LockInv'
    <2>1. ASSUME NEW q \in Callers, q # p PROVE LockOK(q)'
      BY <1>10, <2>1 DEF LookupConfig, LocalOK, LockOK, ConfigsOwned, UnderTransports, UnderFree,
         UnderConfigs, InGet, InRelease
    <2>2. LockOK(p)'
      BY <1>10 DEF LookupConfig, LocalOK, LockOK, ConfigsOwned, UnderTransports, UnderFree,
         UnderConfigs, InGet, InRelease
    <2>3. FreeUnderTransports'
      BY <1>10 DEF LookupConfig, LockOK, FreeUnderTransports, UnderTransports, UnderFree,
         UnderConfigs, InGet, InRelease
    <2>4. ConfigsOwned'
      BY <1>10 DEF LookupConfig, LocalOK, LockOK, ConfigsOwned, UnderConfigs, InGet, InRelease
    <2> QED
      BY <2>1, <2>2, <2>3, <2>4
  <1>11. ASSUME NEW p \in Callers, FreeId(p) PROVE LockInv'
    <2>1. ASSUME NEW q \in Callers, q # p PROVE LockOK(q)'
      BY <1>11, <2>1 DEF FreeId, LocalOK, LockOK, ConfigsOwned, UnderTransports, UnderFree,
         UnderConfigs, InGet, InRelease
    <2>2. LockOK(p)'
      BY <1>11 DEF FreeId, LocalOK, LockOK, ConfigsOwned, UnderTransports, UnderFree,
         UnderConfigs, InGet, InRelease
    <2>3. FreeUnderTransports'
      BY <1>11 DEF FreeId, LockOK, FreeUnderTransports, UnderTransports, UnderFree,
         UnderConfigs, InGet, InRelease
    <2>4. ConfigsOwned'
      BY <1>11 DEF FreeId, LocalOK, LockOK, ConfigsOwned, UnderConfigs, InGet, InRelease
    <2> QED
      BY <2>1, <2>2, <2>3, <2>4
  <1>12. ASSUME NEW p \in Callers, RemoveTransport(p) PROVE LockInv'
    <2>1. ASSUME NEW q \in Callers, q # p PROVE LockOK(q)'
      BY <1>12, <2>1 DEF RemoveTransport, LocalOK, LockOK, ConfigsOwned, UnderTransports, UnderFree,
         UnderConfigs, InGet, InRelease
    <2>2. LockOK(p)'
      BY <1>12 DEF RemoveTransport, LocalOK, LockOK, ConfigsOwned, UnderTransports, UnderFree,
         UnderConfigs, InGet, InRelease
    <2>3. FreeUnderTransports'
      BY <1>12 DEF RemoveTransport, LockOK, FreeUnderTransports, UnderTransports, UnderFree,
         UnderConfigs, InGet, InRelease
    <2>4. ConfigsOwned'
      BY <1>12 DEF RemoveTransport, LocalOK, LockOK, ConfigsOwned, UnderConfigs, InGet, InRelease
    <2> QED
      BY <2>1, <2>2, <2>3, <2>4
  <1>13. ASSUME NEW p \in Callers, RemoveConfig(p) PROVE LockInv'
    <2>1. ASSUME NEW q \in Callers, q # p PROVE LockOK(q)'
      BY <1>13, <2>1 DEF RemoveConfig, LocalOK, LockOK, ConfigsOwned, UnderTransports, UnderFree,
         UnderConfigs, InGet, InRelease
    <2>2. LockOK(p)'
      BY <1>13 DEF RemoveConfig, LocalOK, LockOK, ConfigsOwned, UnderTransports, UnderFree,
         UnderConfigs, InGet, InRelease
    <2>3. FreeUnderTransports'
      BY <1>13 DEF RemoveConfig, LockOK, FreeUnderTransports, UnderTransports, UnderFree,
         UnderConfigs, InGet, InRelease
    <2>4. ConfigsOwned'
      BY <1>13 DEF RemoveConfig, LocalOK, LockOK, ConfigsOwned, UnderConfigs, InGet, InRelease
    <2> QED
      BY <2>1, <2>2, <2>3, <2>4
  <1>14. ASSUME NEW p \in Callers, Return(p) PROVE LockInv'
    <2>1. ASSUME NEW q \in Callers, q # p PROVE LockOK(q)'
      BY <1>14, <2>1 DEF Return, LocalOK, LockOK, ConfigsOwned, UnderTransports, UnderFree,
         UnderConfigs, InGet, InRelease
    <2>2. LockOK(p)'
      BY <1>14 DEF Return, LocalOK, LockOK, ConfigsOwned, UnderTransports, UnderFree,
         UnderConfigs, InGet, InRelease
    <2>3. FreeUnderTransports'
      BY <1>14 DEF Return, LockOK, FreeUnderTransports, UnderTransports, UnderFree,
         UnderConfigs, InGet, InRelease
    <2>4. ConfigsOwned'
      BY <1>14 DEF Return, LocalOK, LockOK, ConfigsOwned, UnderConfigs, InGet, InRelease
    <2> QED
      BY <2>1, <2>2, <2>3, <2>4
  <1>15. ASSUME NEW k \in Callbacks, CallbackStep(k) PROVE LockInv'
    BY <1>15 DEF CallbackStep, Enter, GetMessageHandlerIdTransport,
       GetListenerForMessageHandlerId, Deliver, LockOK, FreeUnderTransports, ConfigsOwned
  <1>16. CASE UNCHANGED vars
    BY <1>16 DEF vars, LockOK, FreeUnderTransports, ConfigsOwned
  <1> QED
    BY <1>1, <1>2, <1>3, <1>4, <1>5, <1>6, <1>7, <1>8, <1>9, <1>10, <1>11, <1>12, <1>13,
       <1>14, <1>15, <1>16 DEF Next, CallerStep
-----------------------------------------------------------------------------
(* At most one thread is inside a transaction.                             *)
LEMMA Alone ==
    ASSUME LockInv, NEW p \in Callers, pc[p] \in UnderTransports
    PROVE  \A q \in Callers \ {p} : pc[q] \notin UnderTransports
  BY DEF LockInv, LockOK

(* The pool, update by update.                                             *)
LEMMA PoolInvInit == Init => PoolInv
  BY NoneIsNothing DEF Init, PoolInv, Settled, WorkedOn, OneIdPerConfig

(* Every statement keeps the pool as far changed as its thread has come.   *)
LEMMA PoolInvNext == TypeInv /\ LockInv /\ PoolInv /\ [Next]_vars => PoolInv'
  <1> SUFFICES ASSUME TypeInv, LockInv, PoolInv, [Next]_vars PROVE PoolInv'
    OBVIOUS
  <1> USE NoneIsNothing, RequestFields
  <1> USE DEF TypeInv, TypeOK, LocalsOK, PoolInv, pool, locks, Goto, Fail, Transport, Config
  <1>1. ASSUME NEW p \in Callers, Call(p) PROVE PoolInv'
    <2>1. \A i \in Ids : Quiet(i)' => Settled(i)'
      BY <1>1 DEF Call, Quiet, Settled, InTransit, HasId
    <2>2. \A q \in Callers : WorkedOn(q)'
      BY <1>1 DEF Call, WorkedOn, NoListener, OnlyListener
    <2>3. OneIdPerConfig'
      BY <1>1 DEF Call, OneIdPerConfig
    <2> QED
      BY <2>1, <2>2, <2>3
  <1>2. ASSUME NEW p \in Callers, LockTransports(p) PROVE PoolInv'
    <2>1. \A i \in Ids : Quiet(i)' => Settled(i)'
      BY <1>2 DEF LockTransports, Quiet, Settled, InTransit, HasId
    <2>2. \A q \in Callers : WorkedOn(q)'
      BY <1>2 DEF LockTransports, WorkedOn, NoListener, OnlyListener
    <2>3. OneIdPerConfig'
      BY <1>2 DEF LockTransports, OneIdPerConfig
    <2> QED
      BY <2>1, <2>2, <2>3
  <1>3. ASSUME NEW p \in Callers, LockFree(p) PROVE PoolInv'
    <2>1. \A i \in Ids : Quiet(i)' => Settled(i)'
      BY <1>3 DEF LockFree, Quiet, Settled, InTransit, HasId
    <2>2. \A q \in Callers : WorkedOn(q)'
      BY <1>3 DEF LockFree, WorkedOn, NoListener, OnlyListener
    <2>3. OneIdPerConfig'
      BY <1>3 DEF LockFree, OneIdPerConfig
    <2> QED
      BY <2>1, <2>2, <2>3
  <1>4. ASSUME NEW p \in Callers, LockConfigs(p) PROVE PoolInv'
    <2>1. \A i \in Ids : Quiet(i)' => Settled(i)'
      BY <1>4 DEF LockConfigs, Quiet, Settled, InTransit, HasId
    <2>2. \A q \in Callers : WorkedOn(q)'
      BY <1>4 DEF LockConfigs, WorkedOn, NoListener, OnlyListener
    <2>3. OneIdPerConfig'
      BY <1>4 DEF LockConfigs, OneIdPerConfig
    <2> QED
      BY <2>1, <2>2, <2>3
  <1>5. ASSUME NEW p \in Callers, Return(p) PROVE PoolInv'
    <2>1. \A i \in Ids : Quiet(i)' => Settled(i)'
      BY <1>5 DEF Return, Quiet, Settled, InTransit, HasId
    <2>2. \A q \in Callers : WorkedOn(q)'
      BY <1>5 DEF Return, WorkedOn, NoListener, OnlyListener
    <2>3. OneIdPerConfig'
      BY <1>5 DEF Return, OneIdPerConfig
    <2> QED
      BY <2>1, <2>2, <2>3
  <1>6. ASSUME NEW p \in Callers, FindId(p) PROVE PoolInv'
    <2>1. \A q \in Callers \ {p} : pc[q] \notin UnderTransports
      BY <1>6, Alone DEF FindId, UnderTransports, UnderConfigs, InGet, InRelease
    <2>2. \A i \in Ids : Quiet(i)' => Settled(i)'
      BY <1>6, <2>1 DEF FindId, LocalOK, Quiet, Settled, WorkedOn, NoListener, OnlyListener,
         UnderTransports, UnderConfigs, InGet, InRelease, InTransit, HasId
    <2>3. ASSUME NEW q \in Callers, q # p PROVE WorkedOn(q)'
      BY <1>6, <2>1, <2>3 DEF FindId, WorkedOn, UnderTransports, UnderConfigs, InGet, InRelease
    <2>4. WorkedOn(p)'
      BY <1>6, <2>1 DEF FindId, LocalOK, Quiet, Settled, WorkedOn, NoListener, OnlyListener,
         UnderTransports, UnderConfigs, InGet, InRelease, InTransit, HasId
    <2>5. OneIdPerConfig'
      BY <1>6 DEF FindId, LocalOK, OneIdPerConfig, WorkedOn, NoListener, OnlyListener, HasId
    <2> QED
      BY <2>2, <2>3, <2>4, <2>5
  <1>7. ASSUME NEW p \in Callers, InsertTransport(p) PROVE PoolInv'
    <2>1. \A q \in Callers \ {p} : pc[q] \notin UnderTransports
      BY <1>7, Alone DEF InsertTransport, UnderTransports, UnderConfigs, InGet, InRelease
    <2>2. \A i \in Ids : Quiet(i)' => Settled(i)'
      BY <1>7, <2>1 DEF InsertTransport, LocalOK, Quiet, Settled, WorkedOn, NoListener, OnlyListener,
         UnderTransports, UnderConfigs, InGet, InRelease, InTransit, HasId
    <2>3. ASSUME NEW q \in Callers, q # p PROVE WorkedOn(q)'
      BY <1>7, <2>1, <2>3 DEF InsertTransport, WorkedOn, UnderTransports, UnderConfigs, InGet, InRelease
    <2>4. WorkedOn(p)'
      BY <1>7, <2>1 DEF InsertTransport, LocalOK, Quiet, Settled, WorkedOn, NoListener, OnlyListener,
         UnderTransports, UnderConfigs, InGet, InRelease, InTransit, HasId
    <2>5. OneIdPerConfig'
      BY <1>7 DEF InsertTransport, LocalOK, OneIdPerConfig, WorkedOn, NoListener, OnlyListener, HasId
    <2> QED
      BY <2>2, <2>3, <2>4, <2>5
  <1>8. ASSUME NEW p \in Callers, InsertConfig(p) PROVE PoolInv'
    <2> DEFINE i0 == handlerId[p]
               t0 == request[p].transport
               c0 == request[p].config
    <2>1. \A q \in Callers \ {p} : pc[q] \notin UnderTransports
      BY <1>8, Alone DEF InsertConfig, UnderTransports, UnderConfigs, InGet, InRelease
    <2>2. /\ pc[p] = "insertConfig"
          /\ i0 \in Ids /\ t0 \in Transports /\ c0 \in Configs
          /\ i0 \notin freeIds /\ idToTransport[i0] = t0 /\ NoListener(i0)
      BY <1>8 DEF InsertConfig, LocalOK, WorkedOn, HasId
    <2>3. ASSUME NEW q \in Callers, q # p PROVE WorkedOn(q)'
      BY <1>8, <2>1, <2>3 DEF InsertConfig, WorkedOn, UnderTransports, UnderConfigs, InGet, InRelease
    <2>4. CASE HolderIds(t0, c0) # {}
      <3>1. /\ pc' = [pc EXCEPT ![p] = "rollbackFree"]
            /\ outcome' = [outcome EXCEPT ![p] =
                             [status |-> "ListenerConfigAlreadyExists", id |-> None]]
            /\ UNCHANGED <<freeIds, idToTransport, listenerConfig, request, handlerId>>
        BY <1>8, <2>2, <2>4 DEF InsertConfig, NoListener
      <3>2. \A i \in Ids : Quiet(i)' => Settled(i)'
        BY <2>2, <3>1 DEF Quiet, Settled, InTransit, HasId
      <3>3. WorkedOn(p)'
        BY <2>2, <3>1 DEF WorkedOn, NoListener
      <3> QED
        BY <2>3, <3>1, <3>2, <3>3 DEF OneIdPerConfig
    <2>5. CASE HolderIds(t0, c0) = {}
      <3>1. /\ pc' = [pc EXCEPT ![p] = "return"]
            /\ listenerConfig' = [listenerConfig EXCEPT ![t0] = [@ EXCEPT ![i0] = c0]]
            /\ UNCHANGED <<freeIds, idToTransport, request, handlerId>>
        BY <1>8, <2>2, <2>5 DEF InsertConfig, NoListener
      <3>2. Settled(i0)'
        BY <2>2, <3>1 DEF Settled, NoListener
      <3>3. ASSUME NEW i \in Ids \ {i0}, Quiet(i)' PROVE Settled(i)'
        <4>1. Quiet(i)
          BY <2>2, <3>1, <3>3 DEF Quiet
        <4>2. \A t \in Transports : listenerConfig'[t][i] = listenerConfig[t][i]
          BY <2>2, <3>1
        <4> QED
          BY <3>1, <4>1, <4>2 DEF Settled
      <3>4. WorkedOn(p)'
        BY <2>2, <3>1 DEF WorkedOn
      <3>5. OneIdPerConfig'
        <4>1. \A t \in Transports, i \in Ids : listenerConfig'[t][i] =
                IF t = t0 /\ i = i0 THEN c0 ELSE listenerConfig[t][i]
          BY <2>2, <3>1
        <4>2. \A i \in Ids : listenerConfig[t0][i] # c0
          BY <2>5 DEF HolderIds
        <4> QED
          BY <4>1, <4>2 DEF OneIdPerConfig
      <3>6. \A i \in Ids : Quiet(i)' => Settled(i)'
        BY <3>1, <3>2, <3>3 DEF Settled
      <3>7. \A q \in Callers : WorkedOn(q)'
        BY <2>3, <3>4
      <3> QED
        BY <3>5, <3>6, <3>7 DEF PoolInv
    <2> QED
      BY <2>4, <2>5
  <1>9. ASSUME NEW p \in Callers, RollbackFree(p) PROVE PoolInv'
    <2>1. \A q \in Callers \ {p} : pc[q] \notin UnderTransports
      BY <1>9, Alone DEF RollbackFree, UnderTransports, UnderConfigs, InGet, InRelease
    <2>2. \A i \in Ids : Quiet(i)' => Settled(i)'
      BY <1>9, <2>1 DEF RollbackFree, LocalOK, Quiet, Settled, WorkedOn, NoListener, OnlyListener,
         UnderTransports, UnderConfigs, InGet, InRelease, InTransit, HasId
    <2>3. ASSUME NEW q \in Callers, q # p PROVE WorkedOn(q)'
      BY <1>9, <2>1, <2>3 DEF RollbackFree, WorkedOn, UnderTransports, UnderConfigs, InGet, InRelease
    <2>4. WorkedOn(p)'
      BY <1>9, <2>1 DEF RollbackFree, LocalOK, Quiet, Settled, WorkedOn, NoListener, OnlyListener,
         UnderTransports, UnderConfigs, InGet, InRelease, InTransit, HasId
    <2>5. OneIdPerConfig'
      BY <1>9 DEF RollbackFree, LocalOK, OneIdPerConfig, WorkedOn, NoListener, OnlyListener, HasId
    <2> QED
      BY <2>2, <2>3, <2>4, <2>5
  <1>10. ASSUME NEW p \in Callers, RollbackTransport(p) PROVE PoolInv'
    <2>1. \A q \in Callers \ {p} : pc[q] \notin UnderTransports
      BY <1>10, Alone DEF RollbackTransport, UnderTransports, UnderConfigs, InGet, InRelease
    <2>2. \A i \in Ids : Quiet(i)' => Settled(i)'
      BY <1>10, <2>1 DEF RollbackTransport, LocalOK, Quiet, Settled, WorkedOn, NoListener, OnlyListener,
         UnderTransports, UnderConfigs, InGet, InRelease, InTransit, HasId
    <2>3. ASSUME NEW q \in Callers, q # p PROVE WorkedOn(q)'
      BY <1>10, <2>1, <2>3 DEF RollbackTransport, WorkedOn, UnderTransports, UnderConfigs, InGet, InRelease
    <2>4. WorkedOn(p)'
      BY <1>10, <2>1 DEF RollbackTransport, LocalOK, Quiet, Settled, WorkedOn, NoListener, OnlyListener,
         UnderTransports, UnderConfigs, InGet, InRelease, InTransit, HasId
    <2>5. OneIdPerConfig'
      BY <1>10 DEF RollbackTransport, LocalOK, OneIdPerConfig, WorkedOn, NoListener, OnlyListener, HasId
    <2> QED
      BY <2>2, <2>3, <2>4, <2>5
  <1>11. ASSUME NEW p \in Callers, LookupConfig(p) PROVE PoolInv'
    <2>1. \A q \in Callers \ {p} : pc[q] \notin UnderTransports
      BY <1>11, Alone DEF LookupConfig, UnderTransports, UnderConfigs, InGet, InRelease
    <2>2. \A i \in Ids : Quiet(i)' => Settled(i)'
      BY <1>11, <2>1 DEF LookupConfig, HolderIds, LocalOK, Quiet, Settled, WorkedOn, NoListener, OnlyListener,
         UnderTransports, UnderConfigs, InGet, InRelease, InTransit, HasId
    <2>3. ASSUME NEW q \in Callers, q # p PROVE WorkedOn(q)'
      BY <1>11, <2>1, <2>3 DEF LookupConfig, WorkedOn, UnderTransports, UnderConfigs, InGet, InRelease
    <2>4. WorkedOn(p)'
      <3>1. CASE pc'[p] = "freeId"
        <4>1. PICK i \in Ids : /\ listenerConfig[Transport(p)][i] = Config(p)
                               /\ pc[p] = "lookupConfig"
                               /\ handlerId' = [handlerId EXCEPT ![p] = i]
                               /\ UNCHANGED <<pool, request>>
          BY <1>11, <3>1 DEF LookupConfig, HolderIds
        <4>2. Transport(p) \in Transports /\ Config(p) \in Configs
          BY <4>1 DEF LocalOK
        <4>3. Quiet(i)
          BY <2>1, <4>1 DEF Quiet, InTransit, HasId, UnderTransports, UnderConfigs, InGet, InRelease
        <4>4. i \notin freeIds /\ idToTransport[i] = Transport(p)
              /\ OnlyListener(i, Transport(p), Config(p))
          BY <4>1, <4>2, <4>3 DEF Settled, OnlyListener
        <4> QED
          BY <3>1, <4>1, <4>4 DEF WorkedOn, OnlyListener
      <3>2. CASE pc'[p] # "freeId"
        BY <1>11, <3>2 DEF LookupConfig, WorkedOn
      <3> QED
        BY <3>1, <3>2
    <2>5. OneIdPerConfig'
      BY <1>11 DEF LookupConfig, HolderIds, LocalOK, OneIdPerConfig, WorkedOn, NoListener, OnlyListener, HasId
    <2> QED
      BY <2>2, <2>3, <2>4, <2>5
  <1>12. ASSUME NEW p \in Callers, FreeId(p) PROVE PoolInv'
    <2>1. \A q \in Callers \ {p} : pc[q] \notin UnderTransports
      BY <1>12, Alone DEF FreeId, UnderTransports, UnderConfigs, InGet, InRelease
    <2>2. \A i \in Ids : Quiet(i)' => Settled(i)'
      BY <1>12, <2>1 DEF FreeId, LocalOK, Quiet, Settled, WorkedOn, NoListener, OnlyListener,
         UnderTransports, UnderConfigs, InGet, InRelease, InTransit, HasId
    <2>3. ASSUME NEW q \in Callers, q # p PROVE WorkedOn(q)'
      BY <1>12, <2>1, <2>3 DEF FreeId, WorkedOn, UnderTransports, UnderConfigs, InGet, InRelease
    <2>4. WorkedOn(p)'
      BY <1>12, <2>1 DEF FreeId, LocalOK, Quiet, Settled, WorkedOn, NoListener, OnlyListener,
         UnderTransports, UnderConfigs, InGet, InRelease, InTransit, HasId
    <2>5. OneIdPerConfig'
      BY <1>12 DEF FreeId, LocalOK, OneIdPerConfig, WorkedOn, NoListener, OnlyListener, HasId
    <2> QED
      BY <2>2, <2>3, <2>4, <2>5
  <1>13. ASSUME NEW p \in Callers, RemoveTransport(p) PROVE PoolInv'
    <2>1. \A q \in Callers \ {p} : pc[q] \notin UnderTransports
      BY <1>13, Alone DEF RemoveTransport, UnderTransports, UnderConfigs, InGet, InRelease
    <2>2. \A i \in Ids : Quiet(i)' => Settled(i)'
      BY <1>13, <2>1 DEF RemoveTransport, LocalOK, Quiet, Settled, WorkedOn, NoListener, OnlyListener,
         UnderTransports, UnderConfigs, InGet, InRelease, InTransit, HasId
    <2>3. ASSUME NEW q \in Callers, q # p PROVE WorkedOn(q)'
      BY <1>13, <2>1, <2>3 DEF RemoveTransport, WorkedOn, UnderTransports, UnderConfigs, InGet, InRelease
    <2>4. WorkedOn(p)'
      BY <1>13, <2>1 DEF RemoveTransport, LocalOK, Quiet, Settled, WorkedOn, NoListener, OnlyListener,
         UnderTransports, UnderConfigs, InGet, InRelease, InTransit, HasId
    <2>5. OneIdPerConfig'
      BY <1>13 DEF RemoveTransport, LocalOK, OneIdPerConfig, WorkedOn, NoListener, OnlyListener, HasId
    <2> QED
      BY <2>2, <2>3, <2>4, <2>5
  <1>14. ASSUME NEW p \in Callers, RemoveConfig(p) PROVE PoolInv'
    <2>1. \A q \in Callers \ {p} : pc[q] \notin UnderTransports
      BY <1>14, Alone DEF RemoveConfig, UnderTransports, UnderConfigs, InGet, InRelease
    <2>2. \A i \in Ids : Quiet(i)' => Settled(i)'
      BY <1>14, <2>1 DEF RemoveConfig, LocalOK, Quiet, Settled, WorkedOn, NoListener, OnlyListener,
         UnderTransports, UnderConfigs, InGet, InRelease, InTransit, HasId
    <2>3. ASSUME NEW q \in Callers, q # p PROVE WorkedOn(q)'
      BY <1>14, <2>1, <2>3 DEF RemoveConfig, WorkedOn, UnderTransports, UnderConfigs, InGet, InRelease
    <2>4. WorkedOn(p)'
      BY <1>14, <2>1 DEF RemoveConfig, LocalOK, Quiet, Settled, WorkedOn, NoListener, OnlyListener,
         UnderTransports, UnderConfigs, InGet, InRelease, InTransit, HasId
    <2>5. OneIdPerConfig'
      BY <1>14 DEF RemoveConfig, LocalOK, OneIdPerConfig, WorkedOn, NoListener, OnlyListener, HasId
    <2> QED
      BY <2>2, <2>3, <2>4, <2>5
  <1>15. ASSUME NEW k \in Callbacks, CallbackStep(k) PROVE PoolInv'
    <2>1. UNCHANGED <<freeIds, idToTransport, listenerConfig, pc, request, handlerId, outcome>>
      BY <1>15 DEF CallbackStep, Enter, GetMessageHandlerIdTransport, GetListenerForMessageHandlerId, Deliver
    <2> QED
      BY <2>1 DEF Quiet, Settled, WorkedOn, NoListener, OnlyListener, OneIdPerConfig
  <1>16. CASE UNCHANGED vars
    BY <1>16 DEF vars, Quiet, Settled, WorkedOn, NoListener, OnlyListener, OneIdPerConfig
  <1> QED
    BY <1>1, <1>2, <1>3, <1>4, <1>5, <1>6, <1>7, <1>8, <1>9, <1>10, <1>11, <1>12, <1>13,
       <1>14, <1>15, <1>16 DEF Next, CallerStep
-----------------------------------------------------------------------------
(* What the inductive invariant says about the checked properties.         *)
LEMMA IInvInvariant == Spec => []IInv
  <1>1. Init => IInv
    BY TypeInvInit, LockInvInit, PoolInvInit DEF IInv
  <1>2. IInv /\ [Next]_vars => IInv'
    BY TypeInvNext, LockInvNext, PoolInvNext DEF IInv
  <1> QED
    BY <1>1, <1>2, PTL DEF Spec

(* With no thread inside a call, what PoolInv says is PoolConsistent.      *)
LEMMA IInvPoolConsistent == IInv => PoolConsistent
  <1> SUFFICES ASSUME IInv, transportsLock = None, NEW i \in Ids PROVE Settled(i)
    BY DEF PoolConsistent, Settled
  <1>1. \A p \in Callers : pc[p] \notin UnderTransports
    BY NoneIsNothing DEF IInv, LockInv, LockOK
  <1>2. Quiet(i)
    BY <1>1 DEF Quiet, InTransit, HasId, UnderTransports, UnderConfigs, InGet, InRelease
  <1> QED
    BY <1>2 DEF IInv, PoolInv

(* PoolInv contains that ids and configurations determine each other.      *)
LEMMA IInvOneHolder == IInv => OneHolderPerId
  <1> SUFFICES ASSUME IInv PROVE OneHolderPerId
    OBVIOUS
  <1>1. ASSUME NEW i \in Ids, NEW t \in Transports, NEW u \in Transports,
               listenerConfig[t][i] # None, listenerConfig[u][i] # None
        PROVE  t = u
    <2>1. CASE Quiet(i)
      BY <1>1, <2>1 DEF IInv, PoolInv, Settled
    <2>2. CASE ~Quiet(i)
      <3>1. PICK p \in Callers : pc[p] \in InTransit /\ handlerId[p] = i
        BY <2>2 DEF Quiet
      <3>2. WorkedOn(p)
        BY DEF IInv, PoolInv
      <3> QED
        BY <1>1, <3>1, <3>2 DEF WorkedOn, NoListener, OnlyListener, InTransit, HasId
    <2> QED
      BY <2>1, <2>2
  <1>2. OneIdPerConfig
    BY DEF IInv, PoolInv
  <1> QED
    BY <1>1, <1>2 DEF OneHolderPerId, OneIdPerConfig

(* At each insertion and removal PoolInv says which branch is taken.       *)
LEMMA IInvNoCorruption == IInv => CorruptionErrorsUnreachable
  <1> SUFFICES ASSUME IInv, NEW p \in Callers
               PROVE  CorruptionErrorsUnreachable!(p)
    BY DEF CorruptionErrorsUnreachable
  <1>1. WorkedOn(p) /\ LocalOK(p)
    BY DEF IInv, PoolInv, TypeInv, LocalsOK
  <1>2. pc[p] # "idle" => Transport(p) \in Transports
    BY <1>1, RequestFields DEF LocalOK, Transport
  <1> QED
    BY <1>1, <1>2 DEF WorkedOn, NoListener, OnlyListener

(* The thread that holds the last of the locks in their order can go on.   *)
LEMMA IInvNoDeadlock == IInv => NoDeadlock
  <1> SUFFICES ASSUME IInv, NEW p \in Callers, pc[p] # "idle"
               PROVE  \E q \in Callers : pc[q] # "idle" /\ ~Waiting(q)
    BY DEF NoDeadlock
  <1> USE NoneIsNothing DEF IInv, TypeInv, TypeOK, LockInv
  <1>1. CASE transportsLock = None
    <2>1. pc[p] \notin UnderTransports
      BY <1>1 DEF LockOK
    <2> QED
      BY <1>1, <2>1 DEF Waiting, UnderTransports
  <1>2. CASE transportsLock # None
    <2>1. PICK q \in Callers : transportsLock = q
      BY <1>2
    <2>2. pc[q] \in UnderTransports \cup {"return"}
      BY <2>1 DEF LockOK
    <2>3. CASE pc[q] = "lockFree"
      BY <2>1, <2>3 DEF LockOK, FreeUnderTransports, Waiting, UnderFree, UnderConfigs, InGet, InRelease
    <2>4. CASE pc[q] = "lockConfigs"
      <3>1. CASE configsLock[Transport(q)] = None
        BY <2>4, <3>1 DEF Waiting
      <3>2. CASE configsLock[Transport(q)] # None
        <4>1. Transport(q) \in Transports
          BY <2>4, RequestFields DEF LocalsOK, LocalOK, Transport
        <4>2. PICK r \in Callers : configsLock[Transport(q)] = r
          BY <3>2, <4>1
        <4>3. pc[r] \in UnderConfigs \cup {"return"}
          BY <4>1, <4>2 DEF ConfigsOwned
        <4>4. r # q
          BY <2>4, <4>3 DEF UnderConfigs, InGet, InRelease
        <4>5. pc[r] \notin UnderTransports
          BY <2>1, <4>4 DEF LockOK
        <4>6. pc[r] = "return"
          BY <4>3, <4>5 DEF UnderTransports
        <4> QED
          BY <4>6 DEF Waiting
      <3> QED
        BY <3>1, <3>2
    <2>5. CASE pc[q] \notin {"lockFree", "lockConfigs"}
      BY <2>2, <2>5 DEF Waiting, UnderTransports, UnderConfigs, InGet, InRelease
    <2> QED
      BY <2>3, <2>4, <2>5
  <1> QED
    BY <1>1, <1>2

-----------------------------------------------------------------------------
(* Every variable of the registry keeps its type in every reachable state. *)
THEOREM TypeCorrect == Spec => []TypeOK
  <1>1. IInv => TypeOK
    BY DEF IInv, TypeInv
  <1> QED
    BY <1>1, IInvInvariant, PTL

(* The free pool, the transport mapping and the BiMaps agree whenever no   *)
(* thread is inside get_message_handler or release_message_handler.        *)
THEOREM PoolIsConsistent == Spec => []PoolConsistent
  BY IInvInvariant, IInvPoolConsistent, PTL

(* No extern function ever serves two transports or listener               *)
(* configurations, and no configuration holds two extern functions.        *)
THEOREM HolderIsUnique == Spec => []OneHolderPerId
  BY IInvInvariant, IInvOneHolder, PTL

(* The branches of get_message_handler and of its rollback that report a   *)
(* corrupted registry are dead code.                                       *)
THEOREM NoCorruption == Spec => []CorruptionErrorsUnreachable
  BY IInvInvariant, IInvNoCorruption, PTL

(* However many threads call, they never all wait for each other's locks.  *)
THEOREM DeadlockFree == Spec => []NoDeadlock
  BY IInvInvariant, IInvNoDeadlock, PTL
-----------------------------------------------------------------------------
(* The refinement: what the mapped holder is, and what each step does.     *)
LEMMA HolderOf ==
    ASSUME OneHolderPerId, TypeOK, NEW i \in Ids
    PROVE  /\ \A t \in Transports, c \in Configs :
                 listenerConfig[t][i] = c <=> Holder[i] = <<t, c>>
           /\ NoListener(i) <=> Holder[i] = None
           /\ Holder[i] # None => Holder[i] \in Transports \X Configs
  <1> USE NoneIsNothing
  <1>1. CASE Holders(i) = {}
    <2>1. Holder[i] = None
      BY <1>1 DEF Holder
    <2>2. \A t \in Transports, c \in Configs : listenerConfig[t][i] # c
      <3> SUFFICES ASSUME NEW t \in Transports, NEW c \in Configs, listenerConfig[t][i] = c
                   PROVE  FALSE
        OBVIOUS
      <3>1. <<t, c>> \in Holders(i)
        BY DEF Holders
      <3> QED
        BY <1>1, <3>1
    <2>3. NoListener(i)
      BY <2>2 DEF TypeOK, NoListener
    <2>4. \A t \in Transports, c \in Configs : None # <<t, c>>
      OBVIOUS
    <2> QED
      BY <2>1, <2>2, <2>3, <2>4
  <1>2. CASE Holders(i) # {}
    <2>1. Holder[i] \in Holders(i)
      BY <1>2 DEF Holder, TheOne
    <2>2. PICK t \in Transports, c \in Configs : Holder[i] = <<t, c>> /\ listenerConfig[t][i] = c
      BY <2>1 DEF Holders
    <2>3. \A u \in Transports, d \in Configs : listenerConfig[u][i] = d => u = t /\ d = c
      BY <2>2 DEF OneHolderPerId
    <2>4. \A u \in Transports, d \in Configs : <<t, c>> = <<u, d>> => u = t /\ d = c
      OBVIOUS
    <2>5. ~NoListener(i)
      BY <2>2 DEF NoListener
    <2>6. Holder[i] # None /\ Holder[i] \in Transports \X Configs
      BY <2>2
    <2> QED
      BY <2>2, <2>3, <2>4, <2>5, <2>6
  <1> QED
    BY <1>1, <1>2

(* Steps that leave the BiMaps alone leave the abstract holder alone.      *)
LEMMA HolderSteady ==
    UNCHANGED listenerConfig => Holder' = Holder
  BY DEF Holder, Holders

(* One change of one BiMap is one change of the abstract holder.           *)
LEMMA HolderUpdate ==
    ASSUME NEW i0 \in Ids, NEW h,
           \A i \in Ids \ {i0} : Holders(i)' = Holders(i),
           IF h = None THEN Holders(i0)' = {} ELSE Holders(i0)' = {h}
    PROVE  Holder' = [Holder EXCEPT ![i0] = h]
  <1>1. TheOne({h}) = h
    BY DEF TheOne
  <1>2. ASSUME NEW i \in Ids PROVE Holder'[i] = IF i = i0 THEN h ELSE Holder[i]
    <2>1. CASE i = i0
      <3>1. CASE h = None
        BY <2>1, <3>1 DEF Holder
      <3>2. CASE h # None
        BY <1>1, <2>1, <3>2 DEF Holder
      <3> QED
        BY <3>1, <3>2
    <2>2. CASE i # i0
      BY <2>2 DEF Holder
    <2> QED
      BY <2>1, <2>2
  <1>3. Holder' = [i \in Ids |-> Holder'[i]] /\ Holder = [i \in Ids |-> Holder[i]]
    BY DEF Holder
  <1> QED
    BY <1>2, <1>3

(* The initial states of the registry map to initial states of the pool.   *)
LEMMA RefinementInit == Init => Allocation!Init
  <1> SUFFICES ASSUME Init PROVE Allocation!Init
    OBVIOUS
  <1>1. \A i \in Ids : Holders(i) = {}
    BY NoneIsNothing DEF Init, Holders
  <1>2. Holder = [i \in Ids |-> None]
    BY <1>1 DEF Holder
  <1> QED
    BY <1>2 DEF Init, Allocation!Init, Idle, Reached, Allocation!Idle, Allocation!Reached

(* Steps that change neither the BiMaps nor what the callers and callbacks *)
(* can see stutter.                                                        *)
LEMMA Stutters ==
    ASSUME UNCHANGED <<listenerConfig, request, outcome, callback>>
    PROVE  UNCHANGED Allocation!vars
  BY HolderSteady DEF Allocation!vars

(* Failing to find an id: every id has a holder.                           *)
LEMMA ExhaustedRefuses ==
    ASSUME IInv, NEW p \in Callers, FindId(p), freeIds = {}
    PROVE  Allocation!Refuse(p)
  <1> USE NoneIsNothing DEF IInv, TypeInv, TypeOK
  <1>1. pc[p] = "findId" /\ UNCHANGED <<listenerConfig, request, callback>>
        /\ outcome' = [outcome EXCEPT ![p] = [status |-> "ExternFnsExhausted", id |-> None]]
    BY DEF FindId, Fail, locks
  <1>2. \A i \in Ids : Quiet(i)
    BY <1>1, Alone DEF Quiet, InTransit, HasId, UnderTransports, UnderConfigs, InGet, InRelease
  <1>3. \A i \in Ids : ~NoListener(i)
    BY <1>2 DEF PoolInv, Settled, NoListener
  <1>4. Allocation!Unheld = {}
    BY <1>3, HolderOf, IInvOneHolder DEF Allocation!Unheld
  <1>5. /\ request[p] # None /\ request[p].op = "get"
        /\ outcome[p] = None
    BY <1>1 DEF LocalsOK, LocalOK, InGet, HasOutcome
  <1> QED
    BY <1>1, <1>4, <1>5, HolderSteady DEF Allocation!Refuse, Allocation!Pending, Allocation!Finish

(* What the pool says a configuration holds is what its BiMap says.        *)
LEMMA HeldByIsHolderIds ==
    ASSUME OneHolderPerId, TypeOK, NEW t \in Transports, NEW c \in Configs
    PROVE  Allocation!HeldBy(t, c) = HolderIds(t, c)
  BY HolderOf DEF Allocation!HeldBy, HolderIds

(* Inserting the configuration assigns the id, or finds one already held.  *)
LEMMA InsertDecides ==
    ASSUME IInv, IInv', NEW p \in Callers, InsertConfig(p)
    PROVE  Allocation!Assign(p) \/ Allocation!Refuse(p)
  <1> USE NoneIsNothing DEF IInv, TypeInv, TypeOK
  <1>0. handlerId[p] \in Ids /\ request[p] \in Requests
    BY DEF InsertConfig, LocalsOK, LocalOK, HasId
  <1> PICK i0 \in Ids, t0 \in Transports, c0 \in Configs :
        i0 = handlerId[p] /\ t0 = Transport(p) /\ c0 = Config(p)
    BY <1>0, RequestFields DEF Transport, Config
  <1>1. /\ pc[p] = "insertConfig"
        /\ UNCHANGED <<request, callback>>
        /\ request[p] # None /\ request[p].op = "get" /\ outcome[p] = None
        /\ NoListener(i0)
    <2>1. pc[p] = "insertConfig" /\ UNCHANGED <<request, callback>>
      BY DEF InsertConfig
    <2>2. request[p] \in Requests /\ request[p].op = "get" /\ outcome[p] = None
      BY <2>1 DEF LocalsOK, LocalOK, InGet, HasOutcome
    <2>3. NoListener(i0)
      BY <2>1 DEF PoolInv, WorkedOn
    <2> QED
      BY <2>1, <2>2, <2>3
  <1>2. i0 \in Allocation!Unheld
    BY <1>1, HolderOf, IInvOneHolder DEF Allocation!Unheld
  <1>3. Allocation!HeldBy(t0, c0) = HolderIds(t0, c0)
    BY <1>1, HeldByIsHolderIds, IInvOneHolder
  <1>4. CASE HolderIds(t0, c0) # {}
    <2>1. UNCHANGED listenerConfig
          /\ outcome' = [outcome EXCEPT ![p] = [status |-> "ListenerConfigAlreadyExists", id |-> None]]
      BY <1>1, <1>4 DEF InsertConfig, Fail, NoListener, Transport, Config
    <2>2. Allocation!Refuse(p)
      BY <1>1, <1>2, <1>3, <1>4, <2>1, HolderSteady
         DEF Allocation!Refuse, Allocation!Pending, Allocation!Finish, Transport, Config
    <2> QED
      BY <2>2
  <1>5. CASE HolderIds(t0, c0) = {}
    <2>1. listenerConfig' = [listenerConfig EXCEPT ![t0] = [@ EXCEPT ![i0] = c0]]
          /\ outcome' = [outcome EXCEPT ![p] = [status |-> "Ok", id |-> i0]]
      BY <1>1, <1>5 DEF InsertConfig, NoListener, Transport, Config
    <2>2. Holder' = [Holder EXCEPT ![i0] = <<t0, c0>>]
      <3>1. \A i \in Ids \ {i0} : Holders(i)' = Holders(i)
        BY <1>1, <2>1 DEF Holders
      <3>2. Holders(i0)' = {<<t0, c0>>}
        <4>1. \A t \in Transports : listenerConfig'[t][i0] = IF t = t0 THEN c0 ELSE None
          BY <1>1, <2>1 DEF NoListener
        <4> QED
          BY <4>1 DEF Holders
      <3>3. <<t0, c0>> # None
        OBVIOUS
      <3> QED
        BY <3>1, <3>2, <3>3, HolderUpdate
    <2>3. Allocation!Assign(p)
      BY <1>1, <1>2, <1>3, <1>5, <2>1, <2>2
         DEF Allocation!Assign, Allocation!Pending, Allocation!Finish, Transport, Config
    <2> QED
      BY <2>3
  <1> QED
    BY <1>4, <1>5

(* Removing the configuration releases the id.                             *)
LEMMA RemoveReleases ==
    ASSUME IInv, IInv', NEW p \in Callers, RemoveConfig(p)
    PROVE  Allocation!Release(p)
  <1> USE NoneIsNothing DEF IInv, TypeInv, TypeOK
  <1>0. handlerId[p] \in Ids /\ request[p] \in Requests
    BY DEF RemoveConfig, LocalsOK, LocalOK, HasId
  <1> PICK i0 \in Ids, t0 \in Transports, c0 \in Configs :
        i0 = handlerId[p] /\ t0 = Transport(p) /\ c0 = Config(p)
    BY <1>0, RequestFields DEF Transport, Config
  <1>1. /\ pc[p] = "removeConfig"
        /\ UNCHANGED <<request, callback>>
        /\ request[p] # None /\ request[p].op = "release" /\ outcome[p] = None
        /\ OnlyListener(i0, t0, c0)
        /\ listenerConfig' = [listenerConfig EXCEPT ![t0] = [@ EXCEPT ![i0] = None]]
        /\ outcome' = [outcome EXCEPT ![p] = [status |-> "Ok", id |-> i0]]
    BY RequestFields DEF RemoveConfig, LocalsOK, LocalOK, HasId, InRelease, HasOutcome,
       PoolInv, WorkedOn, Transport, Config
  <1>2. i0 \in Allocation!HeldBy(t0, c0)
    BY <1>1, HeldByIsHolderIds, IInvOneHolder DEF OnlyListener, HolderIds
  <1>3. Holder' = [Holder EXCEPT ![i0] = None]
    <2>1. \A i \in Ids \ {i0} : Holders(i)' = Holders(i)
      BY <1>1 DEF Holders
    <2>2. \A t \in Transports : listenerConfig'[t][i0] = None
      BY <1>1 DEF OnlyListener
    <2>3. Holders(i0)' = {}
      BY <2>2 DEF Holders
    <2> QED
      BY <2>1, <2>3, HolderUpdate
  <1> QED
    BY <1>1, <1>2, <1>3
       DEF Allocation!Release, Allocation!Pending, Allocation!Finish, Transport, Config

(* A configuration the BiMap does not know holds nothing in the pool.      *)
LEMMA UnknownIsNotHeld ==
    ASSUME IInv, NEW p \in Callers, LookupConfig(p)
    PROVE  Allocation!ReleaseUnknown(p) \/ UNCHANGED Allocation!vars
  <1> USE NoneIsNothing DEF IInv, TypeInv, TypeOK
  <1>1. /\ UNCHANGED <<listenerConfig, request, callback>>
        /\ Transport(p) \in Transports /\ Config(p) \in Configs
        /\ request[p] # None /\ request[p].op = "release" /\ outcome[p] = None
    BY RequestFields DEF LookupConfig, LocalsOK, LocalOK, InRelease, HasOutcome, pool,
       Transport, Config
  <1>2. Allocation!HeldBy(Transport(p), Config(p)) = HolderIds(Transport(p), Config(p))
    BY <1>1, HeldByIsHolderIds, IInvOneHolder
  <1>3. CASE HolderIds(Transport(p), Config(p)) = {}
    <2>1. outcome' = [outcome EXCEPT ![p] = [status |-> "NotFound", id |-> None]]
      BY <1>3 DEF LookupConfig, Fail
    <2>2. Allocation!ReleaseUnknown(p)
      BY <1>1, <1>2, <1>3, <2>1, HolderSteady DEF Allocation!ReleaseUnknown,
         Allocation!Pending, Allocation!Finish, Transport, Config
    <2> QED
      BY <2>2
  <1>4. CASE HolderIds(Transport(p), Config(p)) # {}
    <2>1. UNCHANGED outcome \/ HolderIds(Transport(p), Config(p)) = {}
      BY DEF LookupConfig
    <2> QED
      BY <1>1, <1>4, <2>1, Stutters
  <1> QED
    BY <1>3, <1>4

(* Both lookups of a callback see the holder of this instant.              *)
LEMMA CallbackSees ==
    ASSUME IInv, NEW k \in Callbacks, CallbackStep(k)
    PROVE  \/ Allocation!Enter(k) \/ Allocation!SeeTransport(k)
           \/ Allocation!SeeListener(k) \/ Allocation!Deliver(k)
  <1> USE NoneIsNothing DEF IInv, TypeInv, TypeOK
  <1>1. UNCHANGED <<listenerConfig, request, outcome>>
    BY DEF CallbackStep, Enter, GetMessageHandlerIdTransport, GetListenerForMessageHandlerId,
           Deliver, pool
  <1> USE <1>1, HolderSteady
  <1>2. CASE Enter(k)
    BY <1>2 DEF Enter, Allocation!Enter, Idle, Reached, Allocation!Idle, Allocation!Reached
  <1>3. CASE GetMessageHandlerIdTransport(k)
    <2> DEFINE i == callback[k].id
    <2>1. i \in Ids /\ callback[k].at = "entered" /\ transportsLock = None
      BY <1>3 DEF GetMessageHandlerIdTransport, CallbackStates, Idle, Reached
    <2>2. \A t \in Transports : idToTransport[i] = t <=> listenerConfig[t][i] # None
      BY <2>1, IInvPoolConsistent DEF PoolConsistent
    <2>3. CASE idToTransport[i] = None
      <3>1. NoListener(i)
        BY <2>1, <2>2, <2>3 DEF NoListener
      <3>2. Holder[i] = None
        BY <2>1, <3>1, HolderOf, IInvOneHolder
      <3> QED
        BY <1>3, <2>1, <2>3, <3>2 DEF GetMessageHandlerIdTransport, Allocation!SeeTransport,
           Idle, Reached, Allocation!Idle, Allocation!Reached
    <2>4. CASE idToTransport[i] # None
      <3>1. PICK t \in Transports : idToTransport[i] = t
        BY <2>1, <2>4
      <3>2. PICK c \in Configs : listenerConfig[t][i] = c
        BY <2>1, <2>2, <3>1
      <3>3. Holder[i] = <<t, c>>
        BY <2>1, <3>2, HolderOf, IInvOneHolder
      <3>4. Holder[i] # None /\ Holder[i][1] = t
        BY <3>3
      <3> QED
        BY <1>3, <2>1, <2>4, <3>1, <3>4 DEF GetMessageHandlerIdTransport, Allocation!SeeTransport,
           Idle, Reached, Allocation!Idle, Allocation!Reached
    <2> QED
      BY <2>3, <2>4
  <1>4. CASE GetListenerForMessageHandlerId(k)
    <2> DEFINE i == callback[k].id
               t == callback[k].transport
    <2>1. i \in Ids /\ t \in Transports /\ callback[k].at = "converting"
      BY <1>4 DEF GetListenerForMessageHandlerId, CallbackStates, Idle, Reached
    <2>2. CASE listenerConfig[t][i] = None
      <3>1. ~(Holder[i] # None /\ Holder[i][1] = t)
        <4> SUFFICES ASSUME Holder[i] # None, Holder[i][1] = t PROVE FALSE
          OBVIOUS
        <4>1. PICK u \in Transports, c \in Configs : Holder[i] = <<u, c>>
          BY <2>1, HolderOf, IInvOneHolder
        <4>2. u = t /\ c # None
          BY <4>1
        <4>3. listenerConfig[t][i] = c <=> Holder[i] = <<t, c>>
          BY <2>1, HolderOf, IInvOneHolder
        <4> QED
          BY <2>2, <4>1, <4>2, <4>3
      <3> QED
        BY <1>4, <2>1, <2>2, <3>1 DEF GetListenerForMessageHandlerId, Allocation!SeeListener,
           Idle, Reached, Allocation!Idle, Allocation!Reached
    <2>3. CASE listenerConfig[t][i] # None
      <3>1. PICK c \in Configs : listenerConfig[t][i] = c
        BY <2>1, <2>3
      <3>2. Holder[i] = <<t, c>>
        BY <2>1, <3>1, HolderOf, IInvOneHolder
      <3>3. Holder[i] # None /\ Holder[i][1] = t /\ Holder[i][2] = c
        BY <2>1, <3>2
      <3> QED
        BY <1>4, <2>1, <2>3, <3>1, <3>3 DEF GetListenerForMessageHandlerId, Allocation!SeeListener,
           Idle, Reached, Allocation!Idle, Allocation!Reached
    <2> QED
      BY <2>2, <2>3
  <1>5. CASE Deliver(k)
    BY <1>5 DEF Deliver, Allocation!Deliver, Idle, Reached, Allocation!Idle, Allocation!Reached
  <1> QED
    BY <1>2, <1>3, <1>4, <1>5 DEF CallbackStep

(* Every step of the registry maps to a step of the pool or a stutter.     *)
LEMMA RefinementNext ==
    IInv /\ IInv' /\ [Next]_vars => [Allocation!Next]_(Allocation!vars)
  <1> SUFFICES ASSUME IInv, IInv', [Next]_vars
               PROVE  Allocation!Next \/ UNCHANGED Allocation!vars
    OBVIOUS
  <1>1. ASSUME NEW p \in Callers, Call(p) PROVE Allocation!Call(p)
    BY <1>1, HolderSteady DEF Call, pool, Allocation!Call, Requests, Allocation!Requests,
       IInv, TypeInv, LocalsOK, LocalOK
  <1>2. ASSUME NEW p \in Callers,
               \/ LockTransports(p) \/ LockFree(p) \/ LockConfigs(p)
               \/ RollbackFree(p) \/ RollbackTransport(p) \/ FreeId(p) \/ RemoveTransport(p)
        PROVE  UNCHANGED Allocation!vars
    BY <1>2, Stutters DEF LockTransports, LockFree, LockConfigs, RollbackFree, RollbackTransport,
       FreeId, RemoveTransport, pool
  <1>3. ASSUME NEW p \in Callers, FindId(p)
        PROVE  Allocation!Refuse(p) \/ UNCHANGED Allocation!vars
    <2>1. freeIds = {} \/ UNCHANGED <<listenerConfig, request, outcome, callback>>
      BY <1>3 DEF FindId
    <2> QED
      BY <1>3, <2>1, ExhaustedRefuses, Stutters
  <1>4. ASSUME NEW p \in Callers, InsertTransport(p) PROVE UNCHANGED Allocation!vars
    <2>1. idToTransport[handlerId[p]] = None
      BY <1>4 DEF InsertTransport, IInv, PoolInv, WorkedOn
    <2> QED
      BY <1>4, <2>1, Stutters DEF InsertTransport
  <1>5. ASSUME NEW p \in Callers, InsertConfig(p) PROVE Allocation!Assign(p) \/ Allocation!Refuse(p)
    BY <1>5, InsertDecides
  <1>6. ASSUME NEW p \in Callers, LookupConfig(p)
        PROVE  Allocation!ReleaseUnknown(p) \/ UNCHANGED Allocation!vars
    BY <1>6, UnknownIsNotHeld
  <1>7. ASSUME NEW p \in Callers, RemoveConfig(p) PROVE Allocation!Release(p)
    BY <1>7, RemoveReleases
  <1>8. ASSUME NEW p \in Callers, Return(p) PROVE Allocation!Return(p)
    BY <1>8, HolderSteady, NoneIsNothing DEF Return, pool, Allocation!Return,
       IInv, TypeInv, LocalsOK, LocalOK, HasOutcome
  <1>9. ASSUME NEW k \in Callbacks, CallbackStep(k)
        PROVE  \/ Allocation!Enter(k) \/ Allocation!SeeTransport(k)
               \/ Allocation!SeeListener(k) \/ Allocation!Deliver(k)
    BY <1>9, CallbackSees
  <1>10. CASE UNCHANGED vars
    BY <1>10, Stutters DEF vars, pool
  <1> QED
    BY <1>1, <1>2, <1>3, <1>4, <1>5, <1>6, <1>7, <1>8, <1>9, <1>10
       DEF Next, CallerStep, Allocation!Next

(* The registry, with its locks and rollbacks, implements the pool in      *)
(* which each call takes effect in one instant.                            *)
THEOREM Implementation == Spec => ImplementsAllocation
  BY RefinementInit, RefinementNext, IInvInvariant, PTL
     DEF Spec, ImplementsAllocation, Allocation!Spec
=============================================================================
