# A TLA+ development of up-transport-vsomeip

This directory models and verifies `up-transport-vsomeip`, the uProtocol transport over
the COVESA vsomeip library (Rust, `src/up-transport-vsomeip` and the proc macro crate
`src/vsomeip-proc-macro`). It holds TLA+ specifications, TLC configurations and TLAPS proofs.

    tlc -config MCHandlerRegistry.cfg MCHandlerRegistry     # any run of PROJECT.json
    tlapm HandlerRegistryProofs.tla                         # any ...Proofs module

`PROJECT.json` lists the runs, the definitions with the source lines they translate, the
mutations each property is known to catch, the hazards and the theorems. Source paths below
are relative to `src/up-transport-vsomeip/src` unless they begin with `vsomeip-`.

## 1. The system

A process creates one or more `UPTransportVsomeip` objects. Each has an *engine*, a thread
of its own that owns the calls into vsomeip and takes commands from a bounded tokio channel,
and a *storage* with its registries. vsomeip calls back on threads of its own, through
`extern "C"` functions without a context argument. Such functions cannot be made at run
time, so a proc macro generates a fixed pool of them per process, and registries map the
number of a function to the transport and the listener it currently serves.

| Component | State | Operations | Interacts with |
|---|---|---|---|
| Message handler registry, `storage/message_handler_registry.rs` | free ids and id-to-transport map (process-wide), a BiMap id/listener per transport; three RwLocks | get, release, two lookups, list all | callers of the transport, callbacks |
| Callbacks, `vsomeip-proc-macro` | none of their own | look up transport, convert, look up listener, run it on the callback runtime | handler registry, RPC correlation |
| Listener lifecycle, `transport.rs`, `lib.rs` | a oneshot channel per call | `register_listener`, `unregister_listener` | handler registry, engine |
| Engine, `transport_engine.rs` | command channel | Register, Unregister, Send, Start, Stop | vsomeip, offered/requested registry |
| RPC correlation, `storage/rpc_correlation.rs` | session count, two maps | retrieve, insert and remove for either side | message conversion |
| Message conversion, `message_conversions.rs` | none | uProtocol to SOME/IP and back | RPC correlation |
| Offered/requested registry, `storage/vsomeip_offered_requested.rs` | three sets | is / insert | engine |
| Application start and stop, `create_app`, `stop_vsomeip_app_internal`, state handler registry | state handler ids, one channel per id | start, first state report or 50 ms timeout, stop | vsomeip, constructor, `Drop` |
| Point-to-point listener, `lib.rs` | `Option` of a listener | register, unregister, response registration in `send` | handler registry, engine |
| Shutdown, `Drop` in `lib.rs` | runtime thread | unregister all, stop, join | all of the above |
| Classification, `determine_message_type.rs` | none | a pure function of two filters | `send`, `register_listener` |
| Configuration files, vsomeip bindings | none | JSON, foreign functions | - |

What is hard about it, and what makes each part correct:

* **Concurrency on the pool.** Three structures change under three locks, with rollbacks that
  release the locks one by one while callbacks read. They must agree whenever nobody is
  inside, never give one function to two listeners, never block for good, and look atomic.
* **Two copies of the truth.** vsomeip's own table of handlers and the registry are changed
  at different times by different threads. An established listener must stay reachable, and
  a function the pool hands out must not still be known to vsomeip from an earlier use.
* **Timeouts.** `await_engine` gives up after a while; the command stays queued and is executed
  later. What is released, kept or reported in the meantime must still fit.
* **Guessing vsomeip's session ids.** The client side counts requests and hopes that vsomeip
  counts alike. A response must reach the request it answers, over a network that loses,
  duplicates and reorders, and after the 16 bit count wraps.
* **Start-up** waits for a callback from another library through a recycled channel.
* **Half-done operations**: point-to-point registration over many services, a constructor that
  fails after the object exists, a future that is cancelled at an await.
* **Shutdown.** `Drop` releases functions while vsomeip's threads are inside them, stops a
  runtime on which listeners are running, and may itself run inside such a listener. It must
  return, leave nothing behind, and no listener may be called afterwards.
* **One handler per key.** vsomeip keeps one handler for a (service, instance, method). Listeners
  that differ only in what the key does not show share it, and the last command wins.

## 2. The modules

| Module | Models | State variables and what they are in the code |
|---|---|---|
| `HandlerAllocation` | what the handler registry promises: one atomic step per operation | `holder`: which listener of which transport an id serves |
| `HandlerRegistry` | `get_message_handler`, `release_message_handler` and the two lookups of a callback, statement by statement | `freeIds`, `idToTransport`, `listenerConfig` are the three structures, `*Lock` their write locks, `pc` the next statement, `callback` what a vsomeip thread has looked up |
| `HandlerRegistryProofs` | theorems about `HandlerRegistry` | - |
| `MessageClassification` | `determine_type` of a source and a sink filter | none: a pure function |
| `ListenerService` | what registering and unregistering listeners promise, without pool, channel, engine and vsomeip | `claimed`, `listening`: the registrations that exist, and those that are heard; `busy`: the calls |
| `ListenerLifecycle` | register and unregister from call to return, cancelled registrations, the channel, the engine, vsomeip's table | `holder` is the pool (through `HandlerAllocation`'s atomic operations), `queue` the channels, `announced` the offered/requested registry, `handlerTable` vsomeip, `reply` the oneshot channels |
| `ListenerLifecycleProofs` | theorems about `ListenerLifecycle`, the refinement of `ListenerService` among them | - |
| `StatusCodes` | the status of a response as vsomeip message type and return code, and back | none: pure functions |
| `RpcCorrelation` | send and receive of requests and responses on both sides | `nextSession`, `ueCorrelation`, `meCorrelation` are the registry; `vsomeipSession`, `network` are vsomeip and the wire |
| `RpcCorrelationProofs` | theorems about `StatusCodes` and `RpcCorrelation` | - |
| `AppStartup` | `create_app`, state handlers, constructor failure, `Drop` and the stop it asks for | `owner` is where the program is with a transport, `answer` and `stopQueued` its channels, `pc` and `handlerId` its engine; `freeIds`, `channel` are the statics of the proc macro; `app`, `stateHandler`, `reporting` are vsomeip |
| `AppStartupProofs` | theorems about `AppStartup` | - |
| `PointToPoint` | the point-to-point listener and the response registration of `send` | `pointToPointListener` is the `Option`, `holder`, `queue`, `handlerTable`, `reply` as above |
| `PointToPointProofs` | theorems about `PointToPoint` | - |
| `TransportShutdown` | `Drop`, the callback runtime's thread, and `call_shared_extern_fn` from the entry into an extern function to the end of its listener's task | `listed`, `dropper`, `config`, `pc` are the locals of `Drop` and of the owner's calls; `runtime`, `forced` the runtime; `message` one thread of vsomeip and the task it spawns; `holder`, `queue`, `handlerTable`, `reply` as above |
| `TransportShutdownProofs` | theorems about `TransportShutdown` | - |
| `MC...` | TLC instances: what the configurations are, symmetry | - |

How they fit together: `HandlerRegistry` implements `HandlerAllocation` (checked by TLC as
`ImplementsAllocation` and proved as `Implementation`), and the modules above it use the pool
only through the atomic steps of `HandlerAllocation`. So an interleaving at the level of the
locks need not be explored again where the engine and its timeouts already give many.
`ListenerLifecycle` in turn implements `ListenerService` (checked as `ImplementsService`, proved as
`ListenerLifecycleProofs!Implementation`) as long as answers are in time: the refinement mapping reads a registration as claimed when some function is
mapped to it, and as heard when vsomeip's entry under its key is that function. Everything
else, the recycling of functions between transports included, stutters. `TransportShutdown`
takes the calls of one owner per transport from `ListenerLifecycle`, in fewer steps, and adds
what that module leaves out: messages under way while functions change hands, and the end
of a transport.

Conventions: a step is what other threads can observe as one. In `HandlerRegistry` this is a
lock acquisition or one update under the locks; elsewhere one call to a registry, one channel
operation, or one command of the engine. A comment beginning "Mutant:" introduces an operator
that replaces the following definition to show that a property notices; no specification
uses it. Variables marked "history" exist only for properties.

### What is taken from vsomeip (external, from how the code uses it)

* a table of one handler per (service, instance, method): registering overwrites and
  unregistering erases exactly that key;
* requests, and nothing else, get consecutive session ids from 1 that skip 0 on wrapping
  (`VsomeipSkipsZero`), and responses carry the id of their request back;
* an application reports states on its own threads at any time after it started, and a report
  in progress may outlive `unregister_state_handler`;
* `get_application(name)` finds an application that exists and is not finished.

## 3. What the runs check

Every passing run checks all reachable states of its instance.

| Run | Shows |
|---|---|
| `registry` | three threads, two transports, two configurations, two ids, one callback: the structures are consistent, ids have one holder, the branches for a corrupted registry are dead, no deadlock, and the locked version implements the atomic one |
| `lifecycle_any_time` | two tasks with two request listeners that share a key and a response listener, late answers, cancelled registrations, a channel of two slots: `EstablishedIsReachable` in spite of the stale entries that response listeners leave behind, and of two listeners with one key the one that was registered or unregistered last decides (`overridden`); `EntriesBacked` for the keys that are erased at all; `AnswersFindTheirCaller`: nobody waits for an answer that nobody will give, or gets one that is not meant for the call; every call returns (`EveryCallReturns`), and the entry of an unregistered request listener is erased (`UnregisteredIsErased`) |
| `lifecycle_on_time` | when answers are in time and each request listener is used by one task, a recycled function is unknown to vsomeip (`HandedOutIsUnused`), and the calls are those of `ListenerService` |
| `rpc` | two clients, a server, a lossy, duplicating, reordering network: right answer to a client's requests until it reuses a session id, and no request refused before that, although the entries of unanswered requests stay (`NoneRefusedWithinOneLap`); at most one answer, and under the id that was asked, always; success and failure are never confused, and a status that changed on the way does not change again |
| `startup` | two transports created and dropped again and again, under one of two names each, with starts and stops that their callers gave up waiting for: state handler ids are free, in use once, or lost for good; an application is up while its transport is in use and stopped when its engine has done its last command, unless two transports had the name at one time (`AppLivesWithTransport`, `crowded`); a report of another application reaches a start only through a state handler that had one waiting when it was handed out (`StrangersWereWaiting`, the exact extent of what `startup_stale_state` shows); a constructor returns whatever vsomeip does |
| `ptp_alone` | one task: no request leaves before its response listener is in place, entries are backed |
| `shutdown` | two transports, three listeners, two functions, one message, late answers: `Drop` can always go on (`DropCanGoOn`) and returns, by whomever and while whatever listener runs; it leaves nothing in the process-wide registry and, unless a listener outlasts the two seconds of the runtime, nothing running; a message strays to another listener only when its function was released under it |

The runs that end in a violation document disagreements of the code with its own comments and
tests (quoted in `PROJECT.json`, "findings"):

| Run | What happens |
|---|---|
| `lifecycle_publish` | publish listeners are registered under instance 1 and unregistered under `ANY_INSTANCE`, so vsomeip keeps a function that the pool hands out again |
| `rpc_wraps_through_zero` | the count passes through 0, vsomeip's does not; answers are then given to other requests |
| `startup_stale_state` | a start succeeds on a report of an earlier application, left behind under the state handler it was given |
| `startup_same_name` | a transport is refused because its name is in use; the constructor has made it already (`lib.rs:252`), so it is dropped, and its `Drop` stops the application that has the name, which is the other transport's and still in use |
| `ptp_senders` | a second sender relies on a response listener that is not yet registered |

Variants of these instances show further behaviours worth knowing:

* `LifecyclePublish.cfg` with `Configs = {response}`: response listeners are registered by source
  (`transport_engine.rs:564`) and unregistered by sink (`transport_engine.rs:701`), with the same end. No
  passing run and no theorem says otherwise: `HandedOutIsUnused` is stated for request listeners;
* `LifecycleOnTime.cfg` with `EngineMayBeLate = TRUE` violates `HandedOutIsUnused`: an unregistration
  that timed out frees a function for which the engine still has commands. `EntriesBacked` still
  holds: the command that erases the entry is already queued;
* the same file with both callers using both configurations violates it as well:
  a second task unregisters between `get_message_handler` and the command that uses the function
  (`transport.rs:105`). The runs and the theorems leave this interleaving out (`OneCaller`, section 4);
* in `TransportShutdown` a listener may be called once more after `unregister_listener` has
  returned, and, if it occupies a worker for more than the two seconds of `shutdown_timeout`
  (`lib.rs:115`), may still be running after `Drop` has returned (`forced`). Both are what the
  antecedents of `QuietAfterDrop` and `StraysWereOvertaken` leave open;
* in `PointToPoint`, a `send` that is cancelled between `get_message_handler` and its command leaves
  the function taken for a response listener that vsomeip never hears of (`lib.rs:424`);
* `RpcWrapsThroughZero.cfg` with `VsomeipSkipsZero = FALSE`: even if both counts wrapped alike, a
  request refused because its session id is still waited for has used up an id of the count and
  none of vsomeip's (`message_conversions.rs:149`, `:161`);
* `AppStartup!ReceiveTimeout` leaves the state handler registered and its id taken, where the comment
  at `vsomeip-proc-macro/src/lib.rs:244` wants it unregistered "after we either receive the state on
  this channel OR we timeout". `IdsAccountedFor` relies on the id not being recycled;
* in `PointToPoint`, `pointToPointListener` never becomes FALSE again: after an unregistration, or a
  registration that failed half way, registering answers "We already have a point-to-point UListener
  registered" (`lib.rs:470`).

### Bounds, and why they are enough

* *Ids* (2 or 3): with two, one can be taken while another circulates, and the pool is exhausted
  by two listeners, so every failing branch is reached. `ptp_alone` has three for four
  configurations.
* *shutdown*: one transport has two listeners, so that its `Drop` goes on after the first, the other has
  one, so that a function recycled by `Drop` serves another transport; a queue of one command makes
  callers wait behind a command whose caller gave up. One message suffices for a stray and for a `Drop`
  inside a listener; instances with two messages, two listeners on both transports, two
  configurations and one transport, or `MaxQueue = 2` were checked for the safety properties once
  (up to 1.6 million states) and show nothing else. Owners that have dropped their transports may
  leave nothing to do, hence `CHECK_DEADLOCK FALSE`.
* *Callers* (2, in the registry 3): three are needed there for a waiting thread to be overtaken
  between the two rollback steps of another. The other protocols have races of two.
* *Statuses* (of 18, in `rpc`): one of each class: none, `OK`, one that survives, one that changes. What the
  conversion does to each of them is proved (`StatusRoundTrip`).
* *ChannelCapacity*, *MaxQueue* (1 to 3 for 10000 commands): a caller has one command waiting for
  an answer; a longer queue arises only from timeouts, and two stale commands are enough for each
  order of an old registration and unregistration around a new one. With two callers two slots fill up,
  so that senders wait; with one slot and a publish listener beside the others (900000 states) the
  invariants were checked once. A publish listener in the place of the response listener makes the same
  states, both being erased under another key than they were registered under. The theorems hold for
  any bound and any listeners.
* *Transports* in the lifecycle: one with late answers, where the listeners share a key, and two in
  `lifecycle_on_time`, where functions are recycled between them. Both at once is covered by the
  theorems.
* *SessionModulus* (2 or 3 for 65536): with three and four requests the lap is both completed and left.
* *ReqIds*, *ServerReqIds* (4 and 3): two requests under the same session id and one in between. A
  server that receives a duplicate makes up a second UUID; the third lets that happen beside
  another request. These runs end when ids are used up, hence `CHECK_DEADLOCK FALSE`.
* *ChannelCapacity* of the state channels (1 for 1000): a report can stay behind when the id is
  recycled, and the next callback waits for room, for good if nobody gets the id again; hence
  `CHECK_DEADLOCK FALSE`. *Names* (2): transports may have one name or two.
* `ptp_alone` has `CHECK_DEADLOCK FALSE` because its only task may end in the panic of
  `lib.rs:444`.

Symmetry is used for safety only and for sets whose members no definition distinguishes.

### Fairness

`ListenerLifecycle!FairSpec`: the engine thread runs its loop (weak fairness of each engine);
the runtime polls a task that can go on (weak fairness of its steps); a sender that waits
for a slot gets one, because tokio's bounded channel serves waiting senders in the order they
came (strong fairness of `SendToEngine`: the slot may be taken by another in between).
Nothing is assumed of timeouts, nor that anybody calls anything. `AppStartup!FairSpec` assumes
that each engine thread runs, whose `recv_timeout` always ends, so that the timeout is one of its
steps, and that a constructor that has its answer goes on. `TransportShutdown!FairSpec` assumes that whoever executes `Drop` goes on, that the
engine thread runs and that the runtime's thread does: it ends when no listener is left running or
after its `shutdown_timeout`, and drops the tasks that did not start (`RuntimeStep`).
It assumes nothing of listeners: `DropReturns` holds although each may run forever. Of vsomeip
nothing is expected.

## 4. What is proved

### The registry of extern functions

`HandlerRegistryProofs` proves for **every** set of ids, transports, configurations, threads
and callbacks, finite or not, from the one assumption `NoneAssumption` (`None` is no member of
any of them):

| Theorem | Statement |
|---|---|
| `TypeCorrect` | `Spec => []TypeOK` |
| `PoolIsConsistent` | `Spec => []PoolConsistent` |
| `HolderIsUnique` | `Spec => []OneHolderPerId` |
| `NoCorruption` | `Spec => []CorruptionErrorsUnreachable` |
| `DeadlockFree` | `Spec => []NoDeadlock` |
| `Implementation` | `Spec => ImplementsAllocation` |

`PoolConsistent` is not inductive: it says nothing while a thread is inside a call, and that is
where the next consistent state comes from. The invariant is `IInv == TypeInv /\ LockInv /\
PoolInv`:

* `TypeInv`: the types, and which locals are set at which statement;
* `LockInv`: which locks a thread owns at which statement. It is needed because the rollback
  closures drop locks early; only the owner of the transports lock has an id in hand, so that
  two threads are never both inside (lemma `Alone`);
* `PoolInv`: every id that nobody is at work on is settled in all three structures, and the
  one in hand looks, at each statement, exactly as far changed as the thread has come.

Each layer is preserved with the help of the ones before it (`TypeInvNext`, `LockInvNext`,
`PoolInvNext`, one step per action). The refinement reads the abstract holder off the BiMaps
(`HolderOf`): inserting and removing in the BiMap are the instants at which a call takes
effect, all other statements stutter (`Stutters`), and a failing search for an id refuses
because then every id has a holder (`ExhaustedRefuses`). That last fact is the interesting one:
it needs that no other transaction is under way.

### The lifecycle of listeners

`ListenerLifecycleProofs` proves for any transports, listeners, callers and channel bound, and any
finite set of functions (`LifecycleAssumption`, `NoneAssumption`), what the runs check. What a
theorem needs besides is written in its statement:

| Theorem | Statement | Hypotheses |
|---|---|---|
| `TypeCorrect` | `Spec => []TypeOK` | - |
| `AnswersAlwaysFindTheirCaller` | `Spec => []AnswersFindTheirCaller` | - |
| `EntriesStayBacked` | `Spec => []EntriesBacked` | `OneCaller`, `KeysApart` |
| `EstablishedStaysReachable` | `Spec => []EstablishedIsReachable` | `OneCaller` |
| `HandedOutStaysUnused` | `Spec => []HandedOutIsUnused` | `OneCaller`, `InTime` |
| `Implementation` | `Spec => ImplementsService` | `OneCaller`, `InTime`, `OwnKeys` |

* `OneCaller`: the calls about one listener are made one after the other. The code does not see to it;
  section 3 describes what a second task may do between `get_message_handler` and the command.
* `KeysApart`: a key that is erased is erased for each listener registered under it. Only a response
  listener for a method that the transport itself offers to a request listener would be at odds
  with it: both are registered under that method, and one of them is unregistered by its sink.
* `InTime`: no wait times out and every key is erased that was registered, which is so for request
  listeners only; `lifecycle_publish` is the counterexample for the others.
* `OwnKeys`: no two configurations share a key of vsomeip.

The runs meet them: TLC evaluates `OneCaller` and `KeysApart` as `MCAssumption`, and
`LifecycleOnTime.cfg` has request listeners for two methods and no timeouts.

`AnswersFindTheirCaller` needs none of them: it is about one wait at a time, however many tasks
share a listener. It is inductive together with the types, once it is said of every command
and caller by itself (`Addressed`): a step of a caller either sends its one command, takes its
answer or takes its name off the command, and the engine's step takes a command and its
name away together. It is the part of `EveryCallReturns` that a proof can reach: whoever waits has
an answer, or a command in a channel that the engine empties.

None of the other invariants is inductive, and each needs something else of the channel:

* `EntriesBacked` needs what a queued command will do (`Backed`): whoever releases a function is
  either told that its entry is gone, or its unregistration is still queued behind every
  registration of that function (`RegistersOK`, `LeavingOK`);
* `EstablishedIsReachable` needs `Reach`: a caller's last command is the last of its listener in
  the channel, so an answer `Ok` means that nothing stale is queued behind it. This is why late
  commands do no harm to a listener that was registered later;
* `HandedOutIsUnused` needs that a queued registration is of a function held for it, that vsomeip's
  entry is a held one too (`Owned`), and that a caller about to take or release a function finds
  neither (`Waiting`);
* the refinement needs all of these and that no listener holds two functions (`Orderly`), so that
  as many registrations are claimed as functions are held (`ClaimedCardinality`, by a bijection) and
  `Refuse` is right to call the pool full. Each action then maps to one of `ListenerService`'s or
  stutters (`StepImplements`).

### Start-up and stop

`AppStartupProofs` assumes `StartupAssumption`: any transports, state handlers and channel bound.

| Theorem | Statement | Hypotheses |
|---|---|---|
| `TypeCorrect` | `Spec => []TypeOK` | - |
| `IdsStayAccountedFor` | `Spec => []IdsAccountedFor` | - |
| `StrangersHadToWait` | `Spec => []StrangersWereWaiting` | - |
| `AppLivesWithItsTransport` | `Spec => []AppLivesWithTransport` | - |

`IdsAccountedFor` becomes inductive with `Recycled`: an id is free, lost or in one transport's
hands, and an application has it registered only in the last case while its own start waits, or
if it is lost. `StrangersWereWaiting` rests on that: under an id that was found with nothing waiting
(`tainted` is the history of the others), every report in the channel and every thread on the
way to it is of the start that has the id (`OwnOnly`), since no other application has it
registered. `AppLivesWithTransport` needs no assumption about names: a transport whose name was shared
is in `crowded`, and `startup_same_name` shows what may happen to it. For the others it becomes
inductive with `Steps`, which says at which steps of the engine, and under which owner, the
application is there, and with `Named`: from the engine's look at the name on, no application but its own
bears it. So the engine's last command finds that one or none, although it may be executed
long after `Drop` has given up.

### The point-to-point listener

`PointToPointProofs` assumes `PointToPointAssumption`: any list of services, any methods,
functions and channel bound, answers in time or late.

| Theorem | Statement | Hypotheses |
|---|---|---|
| `TypeCorrect` | `Spec => []TypeOK` | - |
| `EveryResponseIsHeard` | `Spec => []ResponsesAreHeard` | `Alone` |
| `EntriesStayBacked` | `Spec => []EntriesBacked` | `Alone` |

`Alone` says that one task uses the transport; `ptp_senders` shows that two are too many. The
invariant is `Inv == TypeInv /\ Channel /\ Backed /\ Prepared`. `Channel`: of the commands only the
last one is waited for, and its answer comes when the channel is empty, so that a timeout leaves
stale commands only in front of later ones. `Prepared`: a method whose response function is taken
has its handler with vsomeip, or the task is at it, or has panicked over it (`lib.rs:444`); the
last case is why a request never slips through.

### RPC

`RpcCorrelationProofs` assumes `RpcAssumption` only: any clients, servers, UUIDs, any statuses,
and any number of session ids from 2 on, whether or not vsomeip's skip 0.

| Theorem | Statement |
|---|---|
| `StatusRoundTrip` | what every one of the 17 codes, and no code, comes back as; success stays success, and a second trip changes nothing |
| `TypeCorrect` | `Spec => []TypeOK` |
| `AtMostOneAnswer` | `Spec => []AnsweredAtMostOnce` |
| `ResponsesAnswerRequests` | `Spec => []ResponsesGoToTheirAsker` |
| `StatusArrives` | `Spec => []StatusSurvives` |
| `RightAnswerWithinOneLap` | `Spec => []AnswersWithinOneLap` |
| `NoneIsRefusedWithinOneLap` | `Spec => []NoneRefusedWithinOneLap` |

The invariant has, besides the types, six parts. `Tracked`: a UUID is expected under one session id at most, and
only until it is answered; without it two entries could both answer a request, although
removing an entry is what answering does. `Backed`: what a server still has to answer, and
every response, goes back to a request on the wire, which `ResponsesGoToTheirAsker` alone does
not carry through the server. `OnWire`: message type and return code are those of the status
given. `SentOnce`: a UUID is sent by one client, and no other expects an answer to it. `Lap`:
while a client has tried fewer requests than there are session ids, its count agrees with
vsomeip's, an id from the count on is *fresh* (the client does not wait for it and none of its
messages bears it), and any other is on requests for one UUID only. The lap is each client's own:
what the others send, even if theirs is over, does not matter. It is `Lap` that says why the
bound is `SessionModulus` and not one more. `Unrefused`: a request that the client
tried within its lap is on the wire. The next id is fresh, so no entry is in its way; the lap's last id is 0,
whose entry therefore has to be followed by itself.

### Shutdown

`TransportShutdownProofs` assumes `ShutdownAssumption`: any sets of transports, configurations,
functions and messages, any queue bound, answers in time or late.

| Theorem | Statement |
|---|---|
| `TypeCorrect` | `Spec => []TypeOK` |
| `DropReleasesEverything` | `Spec => []NothingHeldAfterDrop` |
| `DropLeavesQuiet` | `Spec => []QuietAfterDrop` |
| `OnlyOvertakenStray` | `Spec => []StraysWereOvertaken` |
| `DropIsNeverStuck` | `Spec => []DropCanGoOn` |

The invariant is `Inv == TypeInv /\ Tracking /\ Tasks /\ Waits /\ Serving`:

* `TypeInv`: the types, what a callback knows at which stage, and that a listener which executes a
  `Drop` executes one only and stays at it;
* `Tracking`: once `Drop` has begun, everything its transport holds is still in its list, or is
  what it is about to release. Nothing joins, because the owner of the calls is gone;
* `Tasks`: a runtime that ended by itself has no task and gets none, although callbacks that looked
  the transport up before still arrive;
* `Waits`: only the last command in a channel is ever waited for, and after its answer the channel is
  empty. An answer would otherwise be overwritten by the next command that nobody waits for, and
  `DropCanGoOn`, which speaks of the state of one wait only, would not be kept;
* `Serving`, while no wait was given up: the channel holds the awaited command and nothing else, vsomeip's
  entry under a key is the function held for it, and a callback finds its addressee unless it was
  overtaken. The first conjunct is what makes the second inductive, and the history variable
  `gaveUp` marks where it ends: a stale command may enter a function that serves another.

## 5. What is only model-checked, and what is not modelled

Only model-checked: the liveness properties (`StartReturns`, `EveryCallReturns`,
`UnregisteredIsErased`, `DropReturns`), which are out of the reach of TLAPS; of
`EveryCallReturns` and `DropReturns` the proofs have the part that is safety,
`AnswersFindTheirCaller` and `DropCanGoOn`. Every invariant and the
two refinements that a passing run checks are proved as well.

Left out on purpose:

* lock poisoning, a failing allocation, a logger; the panics of a debug build on overflow;
* error answers of the engine to Register and Unregister: between the end of the constructor and
  `Drop` the application exists, and the filters were classified before, so the engine always
  answers Ok (`ListenerLifecycle`, `PointToPoint`);
* commands of different kinds behind each other in one channel, except in `PointToPoint`, where
  the order of a registration and a request is the point, and in `TransportShutdown`, where the stop
  comes behind what timed out;
* the `vsomeip` application's own failure to be created is modelled, `create_application1` is not:
  the constructor hands `None` as configuration path to the engine (`lib.rs:236`), so that branch
  is never taken;
* in `TransportShutdown`, several owners of one transport (`Drop` has no rival: it takes the last
  reference) and the point-to-point listener, which `Drop` unregisters like the others;
* publish and notification messages, which carry no correlation, and the offering of events when
  publishing;
* configuration files, the C++ bindings, storage delegation: no state of their own.

## 6. Plan

1. `OfferedEvents`: the publish path of `send_internal` with the offered/requested registry. The
   engine is its only user, so it adds state but no interleaving.
2. Several senders and cancelled sends in `PointToPoint`, with a registration of responses that
   waits for a registration under way, to see what a repair of `lib.rs:424` must guarantee.
3. A hypothesis weaker than `OneCaller`: which calls of two tasks about one listener may overlap.
