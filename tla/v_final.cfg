SPECIFICATION Spec
CONSTANTS
    n1 = n1
    n2 = n2
    w1 = w1
    w2 = w2
    w3 = w3
    email = "email"
    push = "push"
    home = home
    phone = phone
    r1 = r1
    r2 = r2
    Notifications = {n1}
    NoNotification = NoNotification
    Nil = Nil
    Workers = {w1, w2}
    NoWorker = NoWorker
    MaxFaults = 1
    Channels = {"email", "push"}
    Destinations = {home, phone}
    DestinationsOf <- OneToPhone
    ChannelOf <- ChannelOfEntry
    MaxAttempts = 2
    Requests = {r1}
    Batch <- OneBatch
    Scheduled = {}
    Flaky = {}
    Prompt = TRUE
    MaxDeliver = 3
    FetchBatch = 1
PROPERTIES
    SentIsFinal
CHECK_DEADLOCK FALSE
