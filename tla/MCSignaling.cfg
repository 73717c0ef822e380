CONSTANTS
    Requests <- MCRequests
    Lookups <- MCLookups
    Policies = {"PublicOnly", "AllowLocal"}
    MaxRetries = 1
    Faults = 1
    Sizes = {1, 2}
    MaxMessage = 1
    DEFAULT_MAX_MESSAGE_SIZE = 2
    Accepts = {a1, a2}
    Joins = {j1, j2}
    Ids = {"u", "v"}
    DevicePin = "right"
    Pins = {"right", "wrong"}
    Nobody = nobody
    Callbacks = {k1}
    Channels = {c1, c2}
    QueueCap = 2
    MaxPolled = 3
SPECIFICATION MCSpec
INVARIANTS
    AnswersItsRequest
    OnlyOwnAnswers
    PeersAccounted
    SleepersAreWoken
    DeliveredInOrder
    EndComesLast
PROPERTIES
    ConnectedCallsReturn
    NobodyHangs
CHECK_DEADLOCK FALSE
