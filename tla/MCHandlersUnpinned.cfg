CONSTANTS
    Streams = {s1, s2}
    Urls <- MCUrls
    Normal <- MCNormal
    Literal <- MCLiteral
    AnswerSets <- MCAnswerSets
    Policies <- MCPolicies
    MaxConcurrent = 1
    MaxRequest = 2
    MaxResponse = 2
    MaxBuffered = 1
    MaxFrameData = 3
    MaxRedirects = 2
    Lengths = {0, 1, 2}
    MaxCounted = 3
    Commands <- MCCommands
    Allowed = {"echo"}
    MaxArgs = 1
    MaxOutput = 4
    MaxRead = 2
    MaxWritten = 3
    Ids = {a, b, c}
    Requests = {r1, r2}
    Sockets = {k1}
    SessionTtl = 2
    MaxSessions = 1
    MaxCreations = 1
    RateWindow = 1
    MaxTime = 3
SPECIFICATION MCSpec
INVARIANT OnlyPinnedConnections
CHECK_DEADLOCK FALSE
