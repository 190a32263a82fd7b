SPECIFICATION FairSpec
CONSTANTS
    n1 = n1
    n2 = n2
    n3 = n3
    r1 = r1
    r2 = r2
    home = home
    Nil = Nil
    Garbled = Garbled
    Notifications = {n1, n2, n3}
    NoNotification = NoNotification
    Workers = {}
    NoWorker = NoWorker
    MaxFaults = 2
    Channels = {"email", "push"}
    Destinations = {home}
    DestinationsOf <- AnyDestination
    ChannelOf <- OneChannel
    MaxAttempts = 5
    Requests = {r1, r2}
    Batch <- TwoCalls
    MaxDeliver = 5
    FetchBatch = 1
    Submissions <- Calls
INVARIANTS
    PathTypeOK
    SuccessIsStored
    RefusedLeavesNothing
    StoredAsAsked
    EventsFit
    PathInv
    SkippedIsMarked
PROPERTIES
    EveryCallIsAnswered
CHECK_DEADLOCK FALSE
