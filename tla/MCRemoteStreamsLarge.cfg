SPECIFICATION FairSpec
CONSTANTS
    MaxId = 1
    MaxClosed = 2
    Kinds = {"Shell", "File"}
    Paths = {"/"}
    PIN_LEN = 1
    Bytes = {49}
    MaxAuthFails = 1
    PinFailDelay = 0
    MaxInstant = 0
    MaxOps = 2
    MaxFaults = 0
    Sizes = {0, 2}
    Outputs = {"none", "fits", "large"}
    StrayFrames <- MCStrayFrames
INVARIANT
    CommandsReport
