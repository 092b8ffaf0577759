CONSTANTS
    request1 = request1
    request2 = request2
    sameKey = sameKey
    publish = publish
    response = response
    alice = alice
    bob = bob
    None = None
    Ids = {i1, i2}
    Transports = {t1}
    Configs = {request1, sameKey, response}
    Callers = {alice, bob}
    SourceFilter <- MCSourceFilter
    SinkFilter <- MCSinkFilter
    NoSink = NoSink
    CallsFor <- OneCallerPerConfig
    ChannelCapacity = 2
    EngineMayBeLate = TRUE

SPECIFICATION FairSpec
INVARIANTS
    TypeOK
    EntriesBacked
    EstablishedIsReachable
    AnswersFindTheirCaller
PROPERTIES
    EveryCallReturns
    UnregisteredIsErased
