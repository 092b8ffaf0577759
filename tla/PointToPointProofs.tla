------------------------- MODULE PointToPointProofs -------------------------
(***************************************************************************)
(* Proofs about PointToPoint, for any services, methods and extern         *)
(* functions, and answers in time or late.  The types are right for any    *)
(* number of callers; all else is proved of a transport that one task      *)
(* uses, since two can get in each other's way.                            *)
(*                                                                         *)
(* The inductive invariant has four parts:                                 *)
(*   TypeInv   the types, and what a caller is concerned with when;        *)
(*   Channel   of the commands only the last one is waited for;            *)
(*   Backed    what vsomeip has, or is about to get, is held for its key;  *)
(*   Prepared  a method is sent to when its response has a handler.        *)
(***************************************************************************)
EXTENDS PointToPoint, TLAPS

Offering == {"offer", "offerTaken", "awaitOffer", "withdraw", "awaitWithdrawn"}
Sending == {"prepare", "prepareTaken", "awaitPrepared", "send", "sendUnprepared", "awaitSent"}
Taken == {"offerTaken", "prepareTaken"}
Awaiting == {"awaitOffer", "awaitWithdrawn", "awaitPrepared", "awaitSent"}

LEMMA Assumptions ==
    /\ MaxQueue \in Nat \ {0} /\ EngineMayBeLate \in BOOLEAN
    /\ None \notin Ids /\ None \notin Callers /\ None \notin Configs
    /\ ServiceConfigs \cap ResponseConfigs = {}
    /\ ServiceConfigs \subseteq Configs /\ ResponseConfigs \subseteq Configs
  <1>1. ServiceConfigs \cap ResponseConfigs = {}
    BY DEF ServiceConfigs, ResponseConfigs
  <1> QED
    BY <1>1, PointToPointAssumption DEF PointToPointAssumption, Configs

(* The loop over the services ends, or goes on with one of them.           *)
LEMMA Loop ==
    /\ FirstService \in ServiceConfigs
    /\ \A c \in ServiceConfigs : Following(c) \in ServiceConfigs \cup {None}
  <1>1. FirstService \in ServiceConfigs
    BY PointToPointAssumption DEF FirstService, ServiceConfigs, PointToPointAssumption
  <1>2. ASSUME NEW c \in ServiceConfigs
        PROVE  Following(c) \in ServiceConfigs \cup {None}
    <2> DEFINE m == CHOOSE m \in DOMAIN Services : Services[m] = c[2]
    <2>1. \E m1 \in DOMAIN Services : Services[m1] = c[2]
      BY DEF ServiceConfigs
    <2>2. m \in 1 .. Len(Services) /\ Len(Services) \in Nat
      BY <2>1, PointToPointAssumption DEF PointToPointAssumption
    <2>3. Following(c) = IF m = Len(Services) THEN None ELSE <<"service", Services[m + 1]>>
      BY DEF Following
    <2>4. ASSUME NEW k \in Nat, NEW n \in 1 .. k, n # k
          PROVE  n + 1 \in 1 .. k
      BY <2>4
    <2>5. m # Len(Services) => m + 1 \in DOMAIN Services
      BY <2>2, <2>4, PointToPointAssumption, Zenon DEF PointToPointAssumption
    <2> HIDE DEF m
    <2> QED
      BY <2>3, <2>5 DEF ServiceConfigs
  <1> QED
    BY <1>1, <1>2

-----------------------------------------------------------------------------
(* The channel: what is in it after a command was put in, taken out, or    *)
(* lost its receiver.                                                      *)
Command(p, op, c, i, listening) ==
    [op |-> op, config |-> c, id |-> i, listening |-> listening, from |-> p]

LEMMA PutIn ==
    ASSUME queue \in Seq(Commands), Len(queue) <= MaxQueue,
           NEW p \in Callers, NEW op \in {"register", "unregister", "send"}, NEW c \in Configs,
           NEW i \in Ids \cup {None}, NEW listening \in BOOLEAN,
           Enqueue(p, op, c, i, listening)
    PROVE  /\ queue' \in Seq(Commands) /\ Len(queue') <= MaxQueue /\ Len(queue') = Len(queue) + 1
           /\ queue'[Len(queue')] = Command(p, op, c, i, listening)
           /\ \A n \in DOMAIN queue' : n # Len(queue') => n \in DOMAIN queue /\ queue'[n] = queue[n]
  <1>1. Command(p, op, c, i, listening) \in Commands
    BY DEF Command, Commands
  <1>2. Len(queue) < MaxQueue /\ queue' = Append(queue, Command(p, op, c, i, listening))
    BY DEF Enqueue, Command
  <1> QED
    BY <1>1, <1>2, Assumptions

LEMMA TakenOut ==
    ASSUME queue \in Seq(Commands), Len(queue) <= MaxQueue, queue # <<>>, queue' = Tail(queue)
    PROVE  /\ queue' \in Seq(Commands) /\ Len(queue') <= MaxQueue /\ Len(queue') = Len(queue) - 1
           /\ Head(queue) = queue[1] /\ Head(queue) \in Commands /\ 1 \in DOMAIN queue
           /\ \A n \in DOMAIN queue' : n + 1 \in DOMAIN queue /\ queue'[n] = queue[n + 1]
           /\ Len(queue) = 1 => queue' = <<>>
  BY Assumptions

LEMMA GivenUp ==
    ASSUME queue \in Seq(Commands), NEW p, TimedOut(p)
    PROVE  /\ queue' \in Seq(Commands) /\ Len(queue') = Len(queue) /\ reply' = reply /\ ~reply[p]
           /\ \A n \in DOMAIN queue' :
                 /\ n \in DOMAIN queue
                 /\ queue'[n].from = IF queue[n].from = p THEN None ELSE queue[n].from
                 /\ queue'[n].op = queue[n].op /\ queue'[n].config = queue[n].config
                 /\ queue'[n].id = queue[n].id /\ queue'[n].listening = queue[n].listening
  <1> DEFINE after(m) == IF m.from = p THEN [m EXCEPT !.from = None] ELSE m
  <1>1. /\ queue' = [n \in DOMAIN queue |-> after(queue[n])] /\ reply' = reply /\ ~reply[p]
    BY DEF TimedOut
  <1>2. ASSUME NEW m \in Commands
        PROVE  /\ after(m) \in Commands
               /\ after(m).from = IF m.from = p THEN None ELSE m.from
               /\ after(m).op = m.op /\ after(m).config = m.config
               /\ after(m).id = m.id /\ after(m).listening = m.listening
    BY <1>2 DEF Commands
  <1> HIDE DEF after
  <1>3. DOMAIN queue = 1 .. Len(queue) /\ Len(queue) \in Nat /\ \A n \in DOMAIN queue : queue[n] \in Commands
    OBVIOUS
  <1>4. queue' \in Seq(Commands) /\ Len(queue') = Len(queue) /\ DOMAIN queue' = DOMAIN queue
    BY <1>1, <1>2, <1>3
  <1> QED
    BY <1>1, <1>2, <1>3, <1>4

-----------------------------------------------------------------------------
CallerInv(p) ==
    /\ pc[p] \in Offering => config[p] \in ServiceConfigs
    /\ pc[p] \in Sending => config[p] \in ResponseConfigs
    /\ pc[p] \in Taken => msgHandler[p] \in Ids

CommandOK(m) ==
    /\ m.op = "register" => m.id \in Ids
    /\ m.op = "unregister" => m.config \in ServiceConfigs
    /\ m.op = "send" => m.config \in ResponseConfigs

QueueOK ==
    /\ queue \in Seq(Commands) /\ Len(queue) <= MaxQueue
    /\ \A n \in DOMAIN queue : CommandOK(queue[n])

TypeInv == TypeOK /\ QueueOK /\ \A p \in Callers : CallerInv(p)

(* Where the callers are, and with what.                                   *)
Steps == Offering \cup Sending \cup {"idle", "panicked"}
CallersOK ==
    /\ pc \in [Callers -> Steps] /\ config \in [Callers -> Configs \cup {None}]
    /\ msgHandler \in [Callers -> Ids \cup {None}]
    /\ \A p \in Callers : CallerInv(p)

LEMMA InitTypeInv == Init => TypeInv
  <1> SUFFICES ASSUME Init PROVE TypeInv
    OBVIOUS
  <1>1. queue \in Seq(Commands) /\ Len(queue) <= MaxQueue /\ DOMAIN queue = {}
    BY Assumptions DEF Init
  <1> QED
    BY <1>1 DEF Init, TypeInv, TypeOK, QueueOK, CallerInv, Offering, Sending, Taken

(* What a caller puts into the channel, and when.                          *)
LEMMA Puts ==
    ASSUME TypeInv, NEW p \in Callers,
           RegisterService(p) \/ RegisterResponse(p) \/ WithdrawService(p) \/ Send(p)
    PROVE  \E op \in {"register", "unregister", "send"}, i \in Ids \cup {None}, listening \in BOOLEAN :
              /\ Enqueue(p, op, config[p], i, listening)
              /\ config[p] \in Configs /\ CommandOK(Command(p, op, config[p], i, listening))
              /\ op = "register" => pc[p] \in Taken /\ i = msgHandler[p]
              /\ pc[p] = "prepareTaken" <=> pc'[p] = "awaitPrepared"
              /\ pc'[p] = "awaitPrepared" => op = "register"
              /\ pc'[p] = "awaitWithdrawn" => op = "unregister"
              /\ op = "send" /\ listening => pc[p] = "send"
              /\ pc'[p] \in Awaiting /\ config' = [config EXCEPT ![p] = config[p]]
  <1> USE Assumptions DEF CommandOK, Command, TypeInv, CallerInv, Offering, Sending, Taken, Awaiting, At, TypeOK
  <1>1. CASE RegisterService(p) \/ RegisterResponse(p)
    BY <1>1 DEF RegisterService, RegisterResponse, RegisterHandler
  <1>2. CASE WithdrawService(p)
    BY <1>2 DEF WithdrawService
  <1>3. CASE Send(p)
    BY <1>3 DEF Send
  <1> QED
    BY <1>1, <1>2, <1>3

LEMMA QueueStep == TypeInv /\ [Next]_vars => QueueOK'
  <1> SUFFICES ASSUME TypeInv, [Next]_vars
               PROVE  QueueOK'
    OBVIOUS
  <1>1. QueueOK
    BY DEF TypeInv
  <1>2. ASSUME NEW p \in Callers,
               RegisterService(p) \/ RegisterResponse(p) \/ WithdrawService(p) \/ Send(p)
        PROVE  QueueOK'
    <2>1. PICK op \in {"register", "unregister", "send"}, i \in Ids \cup {None}, listening \in BOOLEAN :
             /\ Enqueue(p, op, config[p], i, listening)
             /\ config[p] \in Configs /\ CommandOK(Command(p, op, config[p], i, listening))
      BY <1>2, Puts
    <2> QED
      BY <1>1, <2>1, PutIn DEF QueueOK
  <1>3. ASSUME NEW p \in Callers, TimedOut(p)
        PROVE  QueueOK'
    BY <1>1, <1>3, GivenUp DEF QueueOK, CommandOK
  <1>4. CASE Execute
    <2>1. queue # <<>> /\ queue' = Tail(queue)
      BY <1>4 DEF Execute
    <2> QED
      BY <1>1, <2>1, TakenOut DEF QueueOK
  <1>5. CASE queue' = queue
    BY <1>1, <1>5 DEF QueueOK
  <1>6. ASSUME NEW p \in Callers, CallerStep(p)
        PROVE  \/ RegisterService(p) \/ RegisterResponse(p) \/ WithdrawService(p) \/ Send(p)
               \/ TimedOut(p) \/ queue' = queue
    BY <1>6 DEF CallerStep, SetListener, OfferService, AwaitOffer, CallUnregister, AwaitWithdrawn,
                CallSend, PrepareResponse, AwaitPrepared, AwaitSent, Answered
  <1> QED
    BY <1>2, <1>3, <1>4, <1>5, <1>6 DEF Next, vars

(* A caller moves to a step that is about the right kind of configuration. *)
LEMMA Moves ==
    ASSUME TypeInv, NEW p \in Callers, NEW step \in Steps, NEW c \in Configs \cup {None}, At(p, step, c),
           msgHandler' \in [Callers -> Ids \cup {None}],
           \A q \in Callers : q # p => msgHandler'[q] = msgHandler[q],
           step \in Offering => c \in ServiceConfigs,
           step \in Sending => c \in ResponseConfigs,
           step \in Taken => msgHandler'[p] \in Ids
    PROVE  CallersOK'
  <1>1. pc \in [Callers -> Steps] /\ config \in [Callers -> Configs \cup {None}]
    BY DEF TypeInv, TypeOK, Steps, Offering, Sending
  <1>2. pc' = [pc EXCEPT ![p] = step] /\ config' = [config EXCEPT ![p] = c]
    BY DEF At
  <1>3. pc' \in [Callers -> Steps] /\ config' \in [Callers -> Configs \cup {None}]
    BY <1>1, <1>2
  <1>4. pc'[p] = step /\ config'[p] = c
    BY <1>1, <1>2
  <1>5. CallerInv(p)'
    BY <1>4 DEF CallerInv
  <1>6. ASSUME NEW q \in Callers, q # p
        PROVE  CallerInv(q)'
    <2>1. pc'[q] = pc[q] /\ config'[q] = config[q] /\ msgHandler'[q] = msgHandler[q]
      BY <1>1, <1>2, <1>6
    <2>2. CallerInv(q)
      BY DEF TypeInv
    <2> QED
      BY <2>1, <2>2 DEF CallerInv
  <1> QED
    BY <1>3, <1>5, <1>6 DEF CallersOK

(* A caller takes a function out of the pool.                              *)
LEMMA Takes ==
    ASSUME TypeInv, NEW p \in Callers, NEW step \in Taken, TakeHandler(p, step),
           step \in Offering => config[p] \in ServiceConfigs,
           step \in Sending => config[p] \in ResponseConfigs
    PROVE  CallersOK' /\ holder' \in [Ids -> Configs \cup {None}]
  <1>1. /\ holder \in [Ids -> Configs \cup {None}] /\ msgHandler \in [Callers -> Ids \cup {None}]
        /\ config[p] \in Configs \cup {None}
    BY DEF TypeInv, TypeOK
  <1>2. PICK i \in Unheld : /\ holder' = [holder EXCEPT ![i] = config[p]]
                            /\ msgHandler' = [msgHandler EXCEPT ![p] = i]
    BY DEF TakeHandler
  <1>3. i \in Ids /\ At(p, step, config[p]) /\ step \in Steps
    BY DEF TakeHandler, Unheld, HeldBy, Taken, Steps, Offering, Sending
  <1>4. holder' \in [Ids -> Configs \cup {None}]
    BY <1>1, <1>2, <1>3
  <1>5. /\ msgHandler' \in [Callers -> Ids \cup {None}] /\ msgHandler'[p] \in Ids
        /\ \A q \in Callers : q # p => msgHandler'[q] = msgHandler[q]
    BY <1>1, <1>2, <1>3
  <1> QED
    BY <1>1, <1>3, <1>4, <1>5, Moves

(* A caller queues the registration of the function it took.               *)
LEMMA Registers ==
    ASSUME TypeInv, NEW p \in Callers, NEW step \in {"awaitOffer", "awaitPrepared"}, RegisterHandler(p, step),
           step = "awaitOffer" => config[p] \in ServiceConfigs,
           step = "awaitPrepared" => config[p] \in ResponseConfigs
    PROVE  CallersOK'
  <1>1. msgHandler \in [Callers -> Ids \cup {None}] /\ config[p] \in Configs \cup {None}
    BY DEF TypeInv, TypeOK
  <1>2. msgHandler' = [msgHandler EXCEPT ![p] = None] /\ At(p, step, config[p])
    BY DEF RegisterHandler
  <1>3. msgHandler' \in [Callers -> Ids \cup {None}] /\ \A q \in Callers : q # p => msgHandler'[q] = msgHandler[q]
    BY <1>1, <1>2
  <1>4. step \in Steps /\ step \notin Taken
    BY DEF Steps, Taken, Offering, Sending
  <1>5. step \in Offering => config[p] \in ServiceConfigs
    BY DEF Offering
  <1>6. step \in Sending => config[p] \in ResponseConfigs
    BY DEF Sending
  <1> QED
    BY <1>1, <1>2, <1>3, <1>4, <1>5, <1>6, Moves

(* A caller moves and its handler stays as it is.                          *)
LEMMA MovesOn ==
    ASSUME TypeInv, NEW p \in Callers, NEW step \in Steps \ Taken, NEW c \in Configs \cup {None}, At(p, step, c),
           msgHandler' = msgHandler,
           step \in Offering => c \in ServiceConfigs,
           step \in Sending => c \in ResponseConfigs
    PROVE  CallersOK'
  <1>1. msgHandler' \in [Callers -> Ids \cup {None}]
    BY DEF TypeInv, TypeOK
  <1>2. \A q \in Callers : msgHandler'[q] = msgHandler[q]
    OBVIOUS
  <1> QED
    BY <1>1, <1>2, Moves

LEMMA Returns ==
    ASSUME TypeInv, NEW p \in Callers, Return(p), msgHandler' = msgHandler
    PROVE  CallersOK'
  <1>1. "idle" \in Steps \ Taken /\ "idle" \notin Offering /\ "idle" \notin Sending
    BY DEF Steps, Taken, Offering, Sending
  <1> QED
    BY <1>1, MovesOn DEF Return

(* After a service's turn comes the next one's, or the loop ends.          *)
LEMMA GoesOn ==
    ASSUME TypeInv, NEW p \in Callers, config[p] \in ServiceConfigs, msgHandler' = msgHandler,
           NEW step \in {"offer", "withdraw"},
           IF Following(config[p]) = None THEN Return(p) ELSE At(p, step, Following(config[p]))
    PROVE  CallersOK'
  <1>1. Following(config[p]) \in ServiceConfigs \cup {None}
    BY Loop
  <1>2. step \in Steps \ Taken /\ step \notin Sending
    BY DEF Steps, Taken, Offering, Sending
  <1>3. CASE Following(config[p]) = None
    BY <1>3, Returns
  <1>4. CASE Following(config[p]) # None
    <2>1. Following(config[p]) \in ServiceConfigs /\ Following(config[p]) \in Configs
      BY <1>1, <1>4, Assumptions
    <2>2. At(p, step, Following(config[p]))
      BY <1>4
    <2> QED
      BY <1>2, <2>1, <2>2, MovesOn
  <1> QED
    BY <1>3, <1>4

LEMMA CallersStep ==
    ASSUME TypeInv, NEW p \in Callers, CallerStep(p)
    PROVE  CallersOK' /\ holder' \in [Ids -> Configs \cup {None}]
  <1>1. /\ holder \in [Ids -> Configs \cup {None}]
        /\ config[p] \in Configs \cup {None} /\ CallerInv(p)
    BY DEF TypeInv, TypeOK
  <1>2. CASE SetListener(p) \/ CallUnregister(p)
    <2>1. PICK step \in {"offer", "withdraw"} : At(p, step, FirstService)
      BY <1>2 DEF SetListener, CallUnregister
    <2>2. holder' = holder /\ msgHandler' = msgHandler
      BY <1>2 DEF SetListener, CallUnregister
    <2>3. FirstService \in ServiceConfigs /\ FirstService \in Configs
      BY Loop, Assumptions
    <2>4. step \in Steps \ Taken /\ step \notin Sending
      BY DEF Steps, Taken, Offering, Sending
    <2> QED
      BY <1>1, <2>1, <2>2, <2>3, <2>4, MovesOn
  <1>3. CASE CallSend(p)
    <2>1. PICK m \in Methods, step \in {"prepare", "sendUnprepared"} : At(p, step, <<"response", m>>)
      BY <1>3 DEF CallSend
    <2>2. holder' = holder /\ msgHandler' = msgHandler
      BY <1>3 DEF CallSend
    <2>3. <<"response", m>> \in ResponseConfigs
      BY DEF ResponseConfigs
    <2>4. step \in Steps \ Taken /\ step \notin Offering
      BY DEF Steps, Taken, Offering, Sending
    <2> QED
      BY <1>1, <2>1, <2>2, <2>3, <2>4, Assumptions, MovesOn
  <1>4. CASE OfferService(p)
    <2>1. pc[p] = "offer"
      BY <1>4 DEF OfferService
    <2>2. config[p] \in ServiceConfigs
      BY <1>1, <2>1 DEF CallerInv, Offering
    <2>3. CASE TakeHandler(p, "offerTaken")
      <3>1. "offerTaken" \in Taken /\ "offerTaken" \notin Sending
        BY DEF Taken, Sending
      <3> QED
        BY <2>2, <2>3, <3>1, Takes
    <2>4. CASE Return(p) /\ holder' = holder /\ msgHandler' = msgHandler
      BY <1>1, <2>4, Returns
    <2> QED
      BY <1>4, <2>3, <2>4 DEF OfferService
  <1>5. CASE RegisterService(p)
    <2>1. pc[p] = "offerTaken" /\ RegisterHandler(p, "awaitOffer")
      BY <1>5 DEF RegisterService
    <2>2. config[p] \in ServiceConfigs
      BY <1>1, <2>1 DEF CallerInv, Offering
    <2>3. holder' = holder
      BY <2>1 DEF RegisterHandler
    <2> QED
      BY <1>1, <2>1, <2>2, <2>3, Registers
  <1>6. CASE AwaitOffer(p)
    <2>1. pc[p] = "awaitOffer" /\ msgHandler' = msgHandler /\ holder' = holder
      BY <1>6 DEF AwaitOffer
    <2>2. config[p] \in ServiceConfigs
      BY <1>1, <2>1 DEF CallerInv, Offering
    <2>3. \/ IF Following(config[p]) = None THEN Return(p) ELSE At(p, "offer", Following(config[p]))
          \/ Return(p)
      BY <1>6 DEF AwaitOffer
    <2> QED
      BY <1>1, <2>1, <2>2, <2>3, GoesOn, Returns
  <1>7. CASE WithdrawService(p)
    <2>1. /\ pc[p] = "withdraw" /\ At(p, "awaitWithdrawn", config[p])
          /\ msgHandler' = msgHandler /\ holder' = holder
      BY <1>7 DEF WithdrawService
    <2>2. config[p] \in ServiceConfigs
      BY <1>1, <2>1 DEF CallerInv, Offering
    <2>3. "awaitWithdrawn" \in Steps \ Taken /\ "awaitWithdrawn" \notin Sending
      BY DEF Steps, Taken, Offering, Sending
    <2> QED
      BY <1>1, <2>1, <2>2, <2>3, MovesOn
  <1>8. CASE AwaitWithdrawn(p)
    <2>1. /\ pc[p] = "awaitWithdrawn" /\ msgHandler' = msgHandler
          /\ IF Following(config[p]) = None THEN Return(p) ELSE At(p, "withdraw", Following(config[p]))
          /\ \/ holder' = [i \in Ids |-> IF holder[i] = config[p] THEN None ELSE holder[i]]
             \/ holder' = holder
      BY <1>8 DEF AwaitWithdrawn
    <2>2. config[p] \in ServiceConfigs
      BY <1>1, <2>1 DEF CallerInv, Offering
    <2>3. holder' \in [Ids -> Configs \cup {None}]
      BY <1>1, <2>1
    <2> QED
      BY <2>1, <2>2, <2>3, GoesOn
  <1>9. CASE PrepareResponse(p)
    <2>1. pc[p] = "prepare"
      BY <1>9 DEF PrepareResponse
    <2>2. config[p] \in ResponseConfigs
      BY <1>1, <2>1 DEF CallerInv, Sending
    <2>3. CASE TakeHandler(p, "prepareTaken")
      <3>1. "prepareTaken" \in Taken /\ "prepareTaken" \notin Offering
        BY DEF Taken, Offering
      <3> QED
        BY <2>2, <2>3, <3>1, Takes
    <2>4. CASE At(p, "send", config[p]) /\ holder' = holder /\ msgHandler' = msgHandler
      <3>1. "send" \in Steps \ Taken /\ "send" \notin Offering
        BY DEF Steps, Taken, Offering, Sending
      <3> QED
        BY <1>1, <2>2, <2>4, <3>1, MovesOn
    <2>5. CASE Return(p) /\ holder' = holder /\ msgHandler' = msgHandler
      BY <1>1, <2>5, Returns
    <2> QED
      BY <1>9, <2>3, <2>4, <2>5 DEF PrepareResponse
  <1>10. CASE RegisterResponse(p)
    <2>1. pc[p] = "prepareTaken" /\ RegisterHandler(p, "awaitPrepared")
      BY <1>10 DEF RegisterResponse
    <2>2. config[p] \in ResponseConfigs
      BY <1>1, <2>1 DEF CallerInv, Sending
    <2>3. holder' = holder
      BY <2>1 DEF RegisterHandler
    <2> QED
      BY <1>1, <2>1, <2>2, <2>3, Registers
  <1>11. CASE AwaitPrepared(p)
    <2>1. pc[p] = "awaitPrepared" /\ msgHandler' = msgHandler /\ holder' = holder
      BY <1>11 DEF AwaitPrepared
    <2>2. config[p] \in ResponseConfigs
      BY <1>1, <2>1 DEF CallerInv, Sending
    <2>3. CASE At(p, "send", config[p])
      <3>1. "send" \in Steps \ Taken /\ "send" \notin Offering
        BY DEF Steps, Taken, Offering, Sending
      <3> QED
        BY <1>1, <2>1, <2>2, <2>3, <3>1, MovesOn
    <2>4. CASE At(p, "panicked", None)
      <3>1. "panicked" \in Steps \ Taken /\ "panicked" \notin Offering /\ "panicked" \notin Sending
        BY DEF Steps, Taken, Offering, Sending
      <3> QED
        BY <1>1, <2>1, <2>4, <3>1, MovesOn
    <2> QED
      BY <1>11, <2>3, <2>4 DEF AwaitPrepared
  <1>12. CASE Send(p)
    <2>1. /\ pc[p] \in {"send", "sendUnprepared"} /\ At(p, "awaitSent", config[p])
          /\ msgHandler' = msgHandler /\ holder' = holder
      BY <1>12 DEF Send
    <2>2. config[p] \in ResponseConfigs
      BY <1>1, <2>1 DEF CallerInv, Sending
    <2>3. "awaitSent" \in Steps \ Taken /\ "awaitSent" \notin Offering
      BY DEF Steps, Taken, Offering, Sending
    <2> QED
      BY <1>1, <2>1, <2>2, <2>3, MovesOn
  <1>13. CASE AwaitSent(p)
    BY <1>1, <1>13, Returns DEF AwaitSent
  <1> QED
    BY <1>2, <1>3, <1>4, <1>5, <1>6, <1>7, <1>8, <1>9, <1>10, <1>11, <1>12, <1>13 DEF CallerStep

(* What a caller's step does to the rest of the state.                     *)
LEMMA CallerLeaves ==
    ASSUME TypeInv, NEW p \in Callers, CallerStep(p)
    PROVE  /\ pointToPointListener' \in BOOLEAN
           /\ handlerTable' = handlerTable /\ unheard' = unheard
           /\ reply' \in [Callers -> BOOLEAN]
  <1>1. pointToPointListener \in BOOLEAN /\ reply \in [Callers -> BOOLEAN]
    BY DEF TypeInv, TypeOK
  <1>2. CASE \/ SetListener(p) \/ CallUnregister(p) \/ CallSend(p) \/ OfferService(p) \/ PrepareResponse(p)
             \/ WithdrawService(p) \/ Send(p)
    BY <1>1, <1>2 DEF SetListener, CallUnregister, CallSend, OfferService, PrepareResponse,
                      WithdrawService, Send
  <1>3. CASE RegisterService(p) \/ RegisterResponse(p)
    BY <1>1, <1>3 DEF RegisterService, RegisterResponse, RegisterHandler
  <1>4. CASE AwaitOffer(p) \/ AwaitWithdrawn(p) \/ AwaitPrepared(p) \/ AwaitSent(p)
    <2>1. Answered(p) \/ TimedOut(p)
      BY <1>4 DEF AwaitOffer, AwaitWithdrawn, AwaitPrepared, AwaitSent
    <2>2. reply' \in [Callers -> BOOLEAN]
      BY <1>1, <2>1 DEF Answered, TimedOut
    <2> QED
      BY <1>1, <1>4, <2>2 DEF AwaitOffer, AwaitWithdrawn, AwaitPrepared, AwaitSent
  <1> QED
    BY <1>2, <1>3, <1>4 DEF CallerStep

LEMMA TypeStep == TypeInv /\ [Next]_vars => TypeInv'
  <1> SUFFICES ASSUME TypeInv, [Next]_vars
               PROVE  TypeOK' /\ CallersOK'
    BY QueueStep DEF TypeInv, CallersOK
  <1>1. queue' \in Seq(Commands) /\ Len(queue') <= MaxQueue
    BY QueueStep DEF QueueOK
  <1>2. ASSUME NEW p \in Callers, CallerStep(p)
        PROVE  TypeOK' /\ CallersOK'
    <2>1. CallersOK' /\ holder' \in [Ids -> Configs \cup {None}]
      BY <1>2, CallersStep
    <2>2. /\ pointToPointListener' \in BOOLEAN /\ reply' \in [Callers -> BOOLEAN]
          /\ handlerTable' = handlerTable /\ unheard' = unheard
      BY <1>2, CallerLeaves
    <2>3. handlerTable' \in [Configs -> Ids \cup {None}] /\ unheard' \subseteq Methods
      BY <2>2 DEF TypeInv, TypeOK
    <2> QED
      BY <1>1, <2>1, <2>2, <2>3 DEF TypeOK, CallersOK, Steps, Offering, Sending
  <1>3. CASE Execute
    <2> DEFINE command == Head(queue)
    <2>1. /\ queue # <<>> /\ queue' = Tail(queue) /\ handlerTable' = Handled(command)
          /\ unheard' = IF command.op = "send" /\ command.listening /\ ~Heard(command.config)
                        THEN unheard \cup {command.config[2]} ELSE unheard
          /\ reply' = IF command.from = None THEN reply ELSE [reply EXCEPT ![command.from] = TRUE]
          /\ UNCHANGED <<pointToPointListener, holder, pc, config, msgHandler>>
      BY <1>3 DEF Execute
    <2>2. command \in Commands /\ CommandOK(command)
      BY <2>1, TakenOut DEF TypeInv, TypeOK, QueueOK
    <2> HIDE DEF command
    <2>3. handlerTable' \in [Configs -> Ids \cup {None}]
      BY <2>1, <2>2 DEF Handled, Commands, TypeInv, TypeOK
    <2>4. unheard' \subseteq Methods
      BY <2>1, <2>2 DEF CommandOK, TypeInv, TypeOK, ResponseConfigs
    <2>5. reply' \in [Callers -> BOOLEAN]
      BY <2>1, <2>2 DEF Commands, TypeInv, TypeOK
    <2>6. CallersOK'
      BY <2>1 DEF CallersOK, TypeInv, TypeOK, CallerInv, Steps, Offering, Sending
    <2> QED
      BY <1>1, <2>1, <2>3, <2>4, <2>5, <2>6 DEF TypeInv, TypeOK
  <1>4. CASE UNCHANGED vars
    <2>1. CallersOK'
      BY <1>4 DEF vars, CallersOK, TypeInv, TypeOK, CallerInv, Steps, Offering, Sending
    <2> QED
      BY <1>4, <2>1 DEF vars, TypeInv, TypeOK
  <1> QED
    BY <1>2, <1>3, <1>4 DEF Next

(* The program's state has the types that the model gives it, for any      *)
(* number of callers.                                                      *)
THEOREM TypeCorrect == Spec => []TypeOK
  <1>1. TypeInv => TypeOK
    BY DEF TypeInv
  <1> QED
    BY <1>1, InitTypeInv, TypeStep, PTL DEF Spec

-----------------------------------------------------------------------------
(* One task uses the transport.                                            *)
Alone == \A p, q \in Callers : p = q

(* The command that is waited for is the last one, and its answer comes    *)
(* when the channel is empty and the table is as was asked for.            *)
Channel ==
    \A p \in Callers :
        /\ \A n \in DOMAIN queue : queue[n].from # None =>
              /\ n = Len(queue) /\ pc[p] \in Awaiting /\ ~reply[p]
              /\ pc[p] = "awaitWithdrawn" => queue[n].op = "unregister" /\ queue[n].config = config[p]
              /\ pc[p] = "awaitPrepared" => queue[n].op = "register" /\ queue[n].config = config[p]
        /\ reply[p] =>
              /\ queue = <<>> /\ pc[p] \in Awaiting
              /\ pc[p] = "awaitWithdrawn" => handlerTable[config[p]] = None
              /\ pc[p] = "awaitPrepared" => handlerTable[config[p]] # None

(* What is being registered, and what vsomeip has, is held for its key.    *)
Backed ==
    /\ \A p \in Callers : pc[p] \in Taken => holder[msgHandler[p]] = config[p]
    /\ \A n \in DOMAIN queue : queue[n].op = "register" => holder[queue[n].id] = queue[n].config
    /\ \A c \in Configs : handlerTable[c] # None => holder[handlerTable[c]] = c

(* A held response handler is in vsomeip's table, unless its registration  *)
(* is what the task is at, or what it panicked at; so every request that   *)
(* is sent finds it there.                                                 *)
Prepared ==
    /\ \A p \in Callers, c \in ResponseConfigs, i \in Ids : holder[i] = c =>
          \/ handlerTable[c] # None
          \/ pc[p] = "panicked"
          \/ pc[p] \in {"prepareTaken", "awaitPrepared"} /\ config[p] = c
    /\ \A p \in Callers : pc[p] = "send" => handlerTable[config[p]] # None
    /\ \A n \in DOMAIN queue :
          queue[n].op = "send" /\ queue[n].listening => handlerTable[queue[n].config] # None
    /\ unheard = {}

Inv == TypeInv /\ Channel /\ Backed /\ Prepared

LEMMA InitInv == Init => Inv
  <1> SUFFICES ASSUME Init PROVE Inv
    OBVIOUS
  <1>1. TypeInv
    BY InitTypeInv
  <1>2. DOMAIN queue = {}
    BY DEF Init
  <1> QED
    BY <1>1, <1>2, Assumptions DEF Init, Inv, Channel, Backed, Prepared, Awaiting, Taken

(* The task begins a call, or fails to get a handler.                      *)
LEMMA BetweenCommands ==
    ASSUME Alone, Inv, NEW p \in Callers,
           UNCHANGED <<holder, msgHandler, queue, handlerTable, reply, unheard>>,
           pc[p] \notin Awaiting \cup {"send", "prepareTaken", "panicked"},
           pc'[p] \notin Awaiting \cup Taken,
           pc'[p] = "send" => handlerTable[config'[p]] # None
    PROVE  Channel' /\ Backed' /\ Prepared'
  <1>1. Callers = {p}
    BY DEF Alone
  <1>2. Channel'
    BY <1>1 DEF Inv, Channel
  <1>3. Backed'
    BY <1>1 DEF Inv, Backed
  <1>4. Prepared'
    BY <1>1 DEF Inv, Prepared, Awaiting
  <1> QED
    BY <1>2, <1>3, <1>4

(* The task takes a handler from the pool.                                 *)
LEMMA TakingKeeps ==
    ASSUME Alone, Inv, NEW p \in Callers, NEW step \in Taken, TakeHandler(p, step),
           UNCHANGED <<queue, handlerTable, reply, unheard>>,
           \/ pc[p] = "offer" /\ config[p] \in ServiceConfigs
           \/ pc[p] = "prepare" /\ step = "prepareTaken"
    PROVE  Channel' /\ Backed' /\ Prepared'
  <1> USE Assumptions
  <1>1. Callers = {p}
    BY DEF Alone
  <1>2. PICK i \in Ids : holder[i] = None /\ holder' = [holder EXCEPT ![i] = config[p]]
                         /\ msgHandler' = [msgHandler EXCEPT ![p] = i]
    BY DEF TakeHandler, Unheld, HeldBy
  <1>3. /\ pc' = [pc EXCEPT ![p] = step] /\ config' = [config EXCEPT ![p] = config[p]]
        /\ pc'[p] = step /\ config'[p] = config[p] /\ msgHandler'[p] = i
    BY <1>2 DEF TakeHandler, At, Inv, TypeInv, TypeOK
  <1>4. \A j : j \in Ids => holder'[j] = IF j = i THEN config[p] ELSE holder[j]
    BY <1>2 DEF Inv, TypeInv, TypeOK
  <1>5. Channel'
    BY <1>1, <1>3 DEF Inv, Channel, Awaiting, Taken
  <1>6. Backed'
    <2>1. \A n \in DOMAIN queue : queue[n].op = "register" =>
             queue[n].id \in Ids /\ holder[queue[n].id] = queue[n].config /\ queue[n].config \in Configs
      <3>1. \A n \in DOMAIN queue : queue[n] \in Commands /\ CommandOK(queue[n])
        BY DEF Inv, TypeInv, QueueOK
      <3> QED
        BY <3>1 DEF Inv, CommandOK, Backed, Commands
    <2>2. \A c \in Configs : handlerTable[c] # None => handlerTable[c] \in Ids /\ holder[handlerTable[c]] = c
      BY DEF Inv, TypeInv, TypeOK, Backed
    <2>3. \A n \in DOMAIN queue : queue[n].op = "register" => holder'[queue[n].id] = queue[n].config
      BY <1>2, <1>4, <2>1
    <2>4. \A c \in Configs : handlerTable[c] # None => holder'[handlerTable[c]] = c
      BY <1>2, <1>4, <2>2
    <2> QED
      BY <1>1, <1>2, <1>3, <1>4, <2>3, <2>4 DEF Backed
  <1>7. Prepared'
    BY <1>1, <1>3, <1>4 DEF Inv, Prepared, Taken
  <1> QED
    BY <1>5, <1>6, <1>7

(* The task puts a command into the channel.                               *)
LEMMA PuttingKeeps ==
    ASSUME Alone, Inv, NEW p \in Callers,
           RegisterService(p) \/ RegisterResponse(p) \/ WithdrawService(p) \/ Send(p)
    PROVE  Channel' /\ Backed' /\ Prepared'
  <1> USE Assumptions
  <1>1. Callers = {p}
    BY DEF Alone
  <1>2. PICK op \in {"register", "unregister", "send"}, i \in Ids \cup {None}, listening \in BOOLEAN :
           /\ Enqueue(p, op, config[p], i, listening)
           /\ config[p] \in Configs /\ CommandOK(Command(p, op, config[p], i, listening))
           /\ op = "register" => pc[p] \in Taken /\ i = msgHandler[p]
           /\ pc[p] = "prepareTaken" <=> pc'[p] = "awaitPrepared"
           /\ pc'[p] = "awaitPrepared" => op = "register"
           /\ pc'[p] = "awaitWithdrawn" => op = "unregister"
           /\ op = "send" /\ listening => pc[p] = "send"
           /\ pc'[p] \in Awaiting /\ config' = [config EXCEPT ![p] = config[p]]
    BY Puts DEF Inv
  <1>3. /\ UNCHANGED <<holder, handlerTable, reply, unheard>> /\ config'[p] = config[p]
        /\ pc[p] \in Taken \cup {"withdraw", "send", "sendUnprepared"}
    BY <1>2 DEF RegisterService, RegisterResponse, RegisterHandler, WithdrawService, Send, Inv, TypeInv, TypeOK, Taken
  <1>4. /\ queue' \in Seq(Commands) /\ Len(queue') = Len(queue) + 1
        /\ queue'[Len(queue')] = Command(p, op, config[p], i, listening)
        /\ \A n \in DOMAIN queue' : n # Len(queue') => n \in DOMAIN queue /\ queue'[n] = queue[n]
    BY <1>2, PutIn DEF Inv, TypeInv, TypeOK
  <1>5. /\ queue'[Len(queue')].op = op /\ queue'[Len(queue')].config = config[p] /\ queue'[Len(queue')].id = i
        /\ queue'[Len(queue')].listening = listening /\ queue'[Len(queue')].from = p
    BY <1>4 DEF Command
  <1>6. Channel'
    <2>1. ~reply[p] /\ \A n \in DOMAIN queue : queue[n].from = None
      BY <1>3 DEF Inv, Channel, Awaiting, Taken
    <2> QED
      BY <1>1, <1>2, <1>3, <1>4, <1>5, <2>1 DEF Channel
  <1>7. Backed'
    <2>1. op = "register" => holder[i] = config[p]
      BY <1>2 DEF Inv, Backed
    <2>2. \A n \in DOMAIN queue' : queue'[n].op = "register" => holder[queue'[n].id] = queue'[n].config
      BY <1>4, <1>5, <2>1 DEF Inv, Backed
    <2>3. pc'[p] \notin Taken
      BY <1>2 DEF Awaiting, Taken
    <2> QED
      BY <1>1, <1>3, <2>2, <2>3 DEF Inv, Backed
  <1>8. Prepared'
    <2>1. op = "send" /\ listening => handlerTable[config[p]] # None
      BY <1>2 DEF Inv, Prepared
    <2>2. \A n \in DOMAIN queue' :
             queue'[n].op = "send" /\ queue'[n].listening => handlerTable[queue'[n].config] # None
      BY <1>4, <1>5, <2>1 DEF Inv, Prepared
    <2>3. pc'[p] # "send" /\ pc[p] \notin {"panicked", "awaitPrepared"}
      BY <1>2, <1>3 DEF Awaiting, Taken
    <2> QED
      BY <1>1, <1>2, <1>3, <2>2, <2>3 DEF Inv, Prepared
  <1> QED
    BY <1>6, <1>7, <1>8

(* The task gets its answer: then the channel is empty.                    *)
LEMMA AnswersKeep ==
    ASSUME Alone, Inv, NEW p \in Callers, Answered(p),
           AwaitOffer(p) \/ AwaitWithdrawn(p) \/ AwaitPrepared(p) \/ AwaitSent(p)
    PROVE  Channel' /\ Backed' /\ Prepared'
  <1> USE Assumptions
  <1>1. Callers = {p}
    BY DEF Alone
  <1>2. queue = <<>> /\ queue' = <<>> /\ DOMAIN queue' = {} /\ ~reply'[p]
    BY DEF Answered, Inv, Channel, TypeInv, TypeOK
  <1>3. /\ UNCHANGED <<handlerTable, unheard, msgHandler>>
        /\ pc'[p] \notin Awaiting \cup Taken
        /\ pc'[p] = "send" => pc[p] = "awaitPrepared" /\ config'[p] = config[p]
    BY DEF Answered, AwaitOffer, AwaitWithdrawn, AwaitPrepared, AwaitSent, TimedOut, At, Return, Awaiting, Taken,
           Inv, TypeInv, TypeOK
  <1>4. Channel'
    BY <1>1, <1>2, <1>3 DEF Channel
  <1>5. \/ holder' = holder
        \/ /\ pc[p] = "awaitWithdrawn" /\ handlerTable[config[p]] = None /\ config[p] \in ServiceConfigs
           /\ holder' = [i \in Ids |-> IF holder[i] = config[p] THEN None ELSE holder[i]]
    BY DEF Answered, AwaitOffer, AwaitWithdrawn, AwaitPrepared, AwaitSent, TimedOut, Inv, Channel, TypeInv,
           CallerInv, Offering
  <1>6. \A c \in Configs : handlerTable[c] # None => holder'[handlerTable[c]] = c
    BY <1>5 DEF Inv, Backed, TypeInv, TypeOK
  <1>7. Backed'
    BY <1>1, <1>2, <1>3, <1>6 DEF Backed
  <1>8. \A c \in ResponseConfigs, i \in Ids : holder'[i] = c => holder[i] = c
    BY <1>5
  <1>9. \A c \in ResponseConfigs, i \in Ids : holder[i] = c => handlerTable[c] # None
    BY DEF Answered, Inv, Prepared, Channel, Awaiting
  <1>10. pc'[p] = "send" => handlerTable[config'[p]] # None
    BY <1>3 DEF Answered, Inv, Channel
  <1>11. Prepared'
    BY <1>1, <1>2, <1>3, <1>8, <1>9, <1>10 DEF Inv, Prepared
  <1> QED
    BY <1>4, <1>7, <1>11

(* The task gives up: its command stays, and nobody waits for it.          *)
LEMMA TimeoutsKeep ==
    ASSUME Alone, Inv, NEW p \in Callers, TimedOut(p),
           AwaitOffer(p) \/ AwaitWithdrawn(p) \/ AwaitPrepared(p) \/ AwaitSent(p)
    PROVE  Channel' /\ Backed' /\ Prepared'
  <1> USE Assumptions
  <1>1. Callers = {p}
    BY DEF Alone
  <1>2. /\ reply' = reply /\ ~reply[p]
        /\ \A n \in DOMAIN queue' :
              /\ n \in DOMAIN queue /\ queue'[n].from \in {None, queue[n].from} \ {p}
              /\ queue'[n].op = queue[n].op /\ queue'[n].config = queue[n].config
              /\ queue'[n].id = queue[n].id /\ queue'[n].listening = queue[n].listening
    BY GivenUp DEF Inv, TypeInv, TypeOK
  <1>3. \A n \in DOMAIN queue' : queue'[n].from = None
    <2>1. \A n \in DOMAIN queue : queue[n] \in Commands
      BY DEF Inv, TypeInv, TypeOK
    <2>2. \A n \in DOMAIN queue : queue[n].from \in {p, None}
      BY <1>1, <2>1 DEF Commands
    <2> QED
      BY <1>2, <2>2
  <1>4. /\ UNCHANGED <<holder, handlerTable, unheard, msgHandler>>
        /\ pc'[p] \notin Awaiting \cup Taken \cup {"send"}
        /\ pc[p] = "awaitPrepared" => pc'[p] = "panicked"
        /\ pc[p] \in Awaiting
    BY DEF Answered, AwaitOffer, AwaitWithdrawn, AwaitPrepared, AwaitSent, TimedOut, At, Return, Awaiting, Taken,
           Inv, TypeInv, TypeOK
  <1>5. Channel'
    BY <1>1, <1>2, <1>3 DEF Channel
  <1>6. Backed'
    BY <1>1, <1>2, <1>4 DEF Inv, Backed
  <1>7. Prepared'
    BY <1>1, <1>2, <1>4 DEF Inv, Prepared, Awaiting
  <1> QED
    BY <1>5, <1>6, <1>7

(* The engine executes a command.                                          *)
LEMMA ExecutionKeeps == ASSUME Alone, Inv, Execute PROVE Channel' /\ Backed' /\ Prepared'
  <1> USE Assumptions
  <1> DEFINE command == Head(queue)
  <1>1. /\ queue # <<>> /\ queue' = Tail(queue) /\ handlerTable' = Handled(command)
        /\ unheard' = IF command.op = "send" /\ command.listening /\ ~Heard(command.config)
                      THEN unheard \cup {command.config[2]} ELSE unheard
        /\ reply' = IF command.from = None THEN reply ELSE [reply EXCEPT ![command.from] = TRUE]
        /\ UNCHANGED <<pointToPointListener, holder, pc, config, msgHandler>>
    BY DEF Execute
  <1>2. /\ command = queue[1] /\ 1 \in DOMAIN queue /\ command \in Commands /\ CommandOK(command)
        /\ Len(queue') = Len(queue) - 1 /\ (Len(queue) = 1 => queue' = <<>>)
        /\ \A n \in DOMAIN queue' : n + 1 \in DOMAIN queue /\ queue'[n] = queue[n + 1]
    BY <1>1, TakenOut DEF Inv, TypeInv, TypeOK, QueueOK
  <1> HIDE DEF command
  <1>3. Len(queue) \in Nat \ {0} /\ \A n \in DOMAIN queue' : n \in Nat /\ n # 0
    BY <1>1, <1>2 DEF Inv, TypeInv, TypeOK
  <1>4. \A c \in Configs :
          handlerTable'[c] = IF command.op = "send" \/ command.config # c THEN handlerTable[c]
                             ELSE IF command.op = "register" THEN command.id ELSE None
    <2>1. command.op \in {"register", "unregister", "send"} /\ command.config \in Configs
      BY <1>2 DEF Commands
    <2>2. CASE command.op = "register"
      BY <1>1, <2>2 DEF Handled, Inv, TypeInv, TypeOK
    <2>3. CASE command.op = "unregister"
      BY <1>1, <2>3 DEF Handled, Inv, TypeInv, TypeOK
    <2>4. CASE command.op = "send"
      BY <1>1, <2>4 DEF Handled
    <2> QED
      BY <2>1, <2>2, <2>3, <2>4
  <1>5. Backed'
    <2>1. command.op = "register" => holder[command.id] = command.config
      BY <1>2 DEF Inv, Backed
    <2>2. \A c \in Configs : handlerTable'[c] # None => holder[handlerTable'[c]] = c
      BY <1>4, <2>1 DEF Inv, Backed
    <2> QED
      BY <1>1, <1>2, <2>2 DEF Inv, Backed
  <1>6. \A c \in ResponseConfigs : handlerTable[c] # None => handlerTable'[c] # None
    <2>1. command.op \in {"register", "unregister", "send"}
      BY <1>2 DEF Commands
    <2>2. command.op = "register" => command.id # None
      BY <1>2 DEF CommandOK
    <2>3. command.op = "unregister" => command.config \notin ResponseConfigs
      BY <1>2 DEF CommandOK
    <2> QED
      BY <1>4, <2>1, <2>2, <2>3
  <1>7. command.op = "send" /\ command.listening => Heard(command.config)
    <2>1. command.op = "send" /\ command.listening =>
             command.config \in Configs /\ handlerTable[command.config] # None
      BY <1>2 DEF Inv, Prepared, CommandOK
    <2> QED
      BY <2>1 DEF Heard, Inv, Backed, TypeInv, TypeOK
  <1>8. Prepared'
    <2>1. unheard' = {}
      BY <1>1, <1>7 DEF Inv, Prepared
    <2>2. \A n \in DOMAIN queue' :
             queue'[n].op = "send" /\ queue'[n].listening => handlerTable'[queue'[n].config] # None
      BY <1>2, <1>6 DEF Inv, Prepared, TypeInv, QueueOK, CommandOK
    <2>3. \A p \in Callers : pc[p] = "send" => handlerTable'[config[p]] # None
      BY <1>6 DEF Inv, Prepared, TypeInv, CallerInv, Sending
    <2>4. ASSUME NEW p \in Callers, NEW c \in ResponseConfigs, NEW i \in Ids, holder[i] = c
          PROVE  \/ handlerTable'[c] # None
                 \/ pc[p] = "panicked"
                 \/ pc[p] \in {"prepareTaken", "awaitPrepared"} /\ config[p] = c
      BY <1>6, <2>4 DEF Inv, Prepared
    <2> QED
      BY <1>1, <2>1, <2>2, <2>3, <2>4 DEF Prepared
  <1>9. Channel'
    <2> SUFFICES ASSUME NEW p \in Callers
                 PROVE  /\ \A n \in DOMAIN queue' : queue'[n].from # None =>
                              /\ n = Len(queue') /\ pc[p] \in Awaiting /\ ~reply'[p]
                              /\ pc[p] = "awaitWithdrawn" =>
                                    queue'[n].op = "unregister" /\ queue'[n].config = config[p]
                              /\ pc[p] = "awaitPrepared" => queue'[n].op = "register" /\ queue'[n].config = config[p]
                        /\ reply'[p] =>
                              /\ queue' = <<>> /\ pc[p] \in Awaiting
                              /\ pc[p] = "awaitWithdrawn" => handlerTable'[config[p]] = None
                              /\ pc[p] = "awaitPrepared" => handlerTable'[config[p]] # None
      BY <1>1 DEF Channel
    <2>1. ~reply[p]
      BY <1>1 DEF Inv, Channel
    <2>2. CASE command.from = None
      <3>1. reply' = reply
        BY <1>1, <2>2
      <3>2. ASSUME NEW n \in DOMAIN queue', queue'[n].from # None
            PROVE  /\ n + 1 = Len(queue) /\ pc[p] \in Awaiting
                   /\ pc[p] = "awaitWithdrawn" => queue'[n].op = "unregister" /\ queue'[n].config = config[p]
                   /\ pc[p] = "awaitPrepared" => queue'[n].op = "register" /\ queue'[n].config = config[p]
        BY <1>2, <3>2 DEF Inv, Channel
      <3> QED
        BY <1>2, <1>3, <2>1, <3>1, <3>2
    <2>3. CASE command.from # None
      <3>1. /\ Len(queue) = 1 /\ pc[p] \in Awaiting
            /\ pc[p] = "awaitWithdrawn" => command.op = "unregister" /\ command.config = config[p]
            /\ pc[p] = "awaitPrepared" => command.op = "register" /\ command.config = config[p]
        BY <1>2, <2>3 DEF Inv, Channel
      <3>2. queue' = <<>> /\ DOMAIN queue' = {}
        BY <1>2, <3>1
      <3>3. /\ pc[p] = "awaitWithdrawn" => handlerTable'[config[p]] = None
            /\ pc[p] = "awaitPrepared" => handlerTable'[config[p]] # None
        BY <1>2, <1>4, <3>1 DEF CommandOK, Commands
      <3> QED
        BY <3>1, <3>2, <3>3
    <2> QED
      BY <2>2, <2>3
  <1> QED
    BY <1>5, <1>8, <1>9

LEMMA InvStep == Alone /\ Inv /\ [Next]_vars => Inv'
  <1> SUFFICES ASSUME Alone, Inv, [Next]_vars
               PROVE  Channel' /\ Backed' /\ Prepared'
    BY TypeStep DEF Inv
  <1> USE Assumptions
  <1>1. ASSUME NEW p \in Callers, SetListener(p) \/ CallUnregister(p) \/ CallSend(p)
        PROVE  Channel' /\ Backed' /\ Prepared'
    <2>1. /\ UNCHANGED <<holder, msgHandler, queue, handlerTable, reply, unheard>>
          /\ pc[p] = "idle" /\ pc'[p] \in {"offer", "withdraw", "prepare", "sendUnprepared"}
      BY <1>1 DEF SetListener, CallUnregister, CallSend, At, Inv, TypeInv, TypeOK
    <2> QED
      BY <2>1, BetweenCommands DEF Awaiting, Taken
  <1>2. ASSUME NEW p \in Callers, OfferService(p)
        PROVE  Channel' /\ Backed' /\ Prepared'
    <2>1. pc[p] = "offer" /\ config[p] \in ServiceConfigs /\ UNCHANGED <<queue, handlerTable, reply, unheard>>
      BY <1>2 DEF OfferService, Inv, TypeInv, CallerInv, Offering
    <2>2. CASE TakeHandler(p, "offerTaken")
      BY <2>1, <2>2, TakingKeeps DEF Taken
    <2>3. CASE Return(p) /\ UNCHANGED <<holder, msgHandler>>
      <3>1. pc'[p] = "idle"
        BY <2>3 DEF Return, At, Inv, TypeInv, TypeOK
      <3> QED
        BY <2>1, <2>3, <3>1, BetweenCommands DEF Awaiting, Taken
    <2> QED
      BY <1>2, <2>2, <2>3 DEF OfferService
  <1>3. ASSUME NEW p \in Callers, PrepareResponse(p)
        PROVE  Channel' /\ Backed' /\ Prepared'
    <2>1. pc[p] = "prepare" /\ UNCHANGED <<queue, handlerTable, reply, unheard>>
      BY <1>3 DEF PrepareResponse
    <2>2. CASE TakeHandler(p, "prepareTaken")
      BY <2>1, <2>2, TakingKeeps DEF Taken
    <2>3. CASE HeldBy(config[p]) # {} /\ At(p, "send", config[p]) /\ UNCHANGED <<holder, msgHandler>>
      <3>1. handlerTable[config[p]] # None
        BY <2>1, <2>3 DEF HeldBy, Inv, TypeInv, CallerInv, Sending, Prepared
      <3>2. pc'[p] = "send" /\ config'[p] = config[p]
        BY <2>3 DEF At, Inv, TypeInv, TypeOK
      <3> QED
        BY <2>1, <2>3, <3>1, <3>2, BetweenCommands DEF Awaiting, Taken
    <2>4. CASE Return(p) /\ UNCHANGED <<holder, msgHandler>>
      <3>1. pc'[p] = "idle"
        BY <2>4 DEF Return, At, Inv, TypeInv, TypeOK
      <3> QED
        BY <2>1, <2>4, <3>1, BetweenCommands DEF Awaiting, Taken
    <2> QED
      BY <1>3, <2>2, <2>3, <2>4 DEF PrepareResponse
  <1>4. ASSUME NEW p \in Callers,
               RegisterService(p) \/ RegisterResponse(p) \/ WithdrawService(p) \/ Send(p)
        PROVE  Channel' /\ Backed' /\ Prepared'
    BY <1>4, PuttingKeeps
  <1>5. ASSUME NEW p \in Callers, AwaitOffer(p) \/ AwaitWithdrawn(p) \/ AwaitPrepared(p) \/ AwaitSent(p)
        PROVE  Channel' /\ Backed' /\ Prepared'
    <2>1. Answered(p) \/ TimedOut(p)
      BY <1>5 DEF AwaitOffer, AwaitWithdrawn, AwaitPrepared, AwaitSent
    <2> QED
      BY <1>5, <2>1, AnswersKeep, TimeoutsKeep
  <1>6. CASE Execute
    BY <1>6, ExecutionKeeps
  <1>7. CASE UNCHANGED vars
    BY <1>7 DEF vars, Inv, Channel, Backed, Prepared
  <1> QED
    BY <1>1, <1>2, <1>3, <1>4, <1>5, <1>6, <1>7 DEF Next, CallerStep

LEMMA Invariance == ASSUME Alone PROVE Spec => []Inv
  BY Alone, InitInv, InvStep, PTL DEF Spec

(* A transport that one task uses sends no request before the handler of   *)
(* its response is with vsomeip, whatever timed out before.                *)
THEOREM EveryResponseIsHeard == ASSUME Alone PROVE Spec => []ResponsesAreHeard
  <1>1. Inv => ResponsesAreHeard
    BY DEF Inv, Prepared, ResponsesAreHeard
  <1> QED
    BY Alone, Invariance, <1>1, PTL

(* Of such a transport, vsomeip calls no function that is not held for the *)
(* key it is called under.                                                 *)
THEOREM EntriesStayBacked == ASSUME Alone PROVE Spec => []EntriesBacked
  <1>1. Inv => EntriesBacked
    BY DEF Inv, Backed, EntriesBacked
  <1> QED
    BY Alone, Invariance, <1>1, PTL
=============================================================================
