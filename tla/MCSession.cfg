SPECIFICATION MCSpec
CONSTANTS
    MaxId = 4
    MaxClosed = 5
    Kinds = {"Shell", "File"}
    Paths = {"/", ""}
    MaxRegistered = 7
    PIN_LEN = 2
    Bytes = {0, 32, 49}
    MaxAuthFails = 3
    PinFailDelay = 2
    MaxInstant = 6
    ExpectedPins <- MCExpectedPins
    Guesses <- MCGuesses
    MaxGuesses = 4
    MaxStreams = 3
INVARIANTS
    FreshUntilWrap
    AllocatorIsCyclicFirstFit
    OnlyTheRightPinOpens
    GuessesAreThrottled
PROPERTIES
    ImplementsLifecycle
