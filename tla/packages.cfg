SPECIFICATION PackagesSpec
CONSTANTS
    Callers = {c1, c2, c3}
    Clients = {c1, c2, c3}
    Sources = {db, broker, cache}
INVARIANTS
    RegistryOK
    MessageReachesSubscribers
    NoSubscriptionLost
    EveryHandlerRuns
    MemoryInv
    WPubSubInv
    AnswerIsRight
    HealthInv
    SendNeverBlocks
PROPERTIES
    NoStartAfterClose
    AlwaysAnswers
CHECK_DEADLOCK FALSE
