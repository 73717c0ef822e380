SPECIFICATION FairSpec
CONSTANTS
    MaxId = 1
    MaxClosed = 1
    Kinds = {"Shell"}
    Paths = {"/"}
    PIN_LEN = 1
    Bytes = {32, 49, 50, 51, 52, 53}
    MaxAuthFails = 3
    PinFailDelay = 1
    MaxInstant = 9
    ExpectedPin <- MCExpectedPin
    ClientPins <- MCRightPins
    PinRequired = {TRUE}
    StrayFrames <- MCStrayFrames
    MaxFaults = 0
    MaxTime = 1
PROPERTY
    IdleSessionKept
