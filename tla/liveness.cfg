SPECIFICATION FairSpec
CONSTANTS
    n1 = n1
    n2 = n2
    w1 = w1
    w2 = w2
    w3 = w3
    email = "email"
    push = "push"
    home = home
    phone = phone
    r1 = r1
    r2 = r2
    Notifications = {n1, n2}
    NoNotification = NoNotification
    Nil = Nil
    Workers = {w1, w2}
    NoWorker = NoWorker
    MaxFaults = 0
    Channels = {"email", "push"}
    Destinations = {home, phone}
    DestinationsOf <- OneToBothOneToPhone
    ChannelOf <- SharedChannel
    MaxAttempts = 2
    Requests = {r1}
    Batch <- BulkBatch
    Scheduled = {}
    Flaky = {"email"}
    Prompt = TRUE
    MaxDeliver = 2
    FetchBatch = 2
INVARIANTS
    ReplyIsValid
    DeliveryInv
PROPERTIES
    RecordedSuccessIsSent
    AcceptedSettles
CHECK_DEADLOCK FALSE
