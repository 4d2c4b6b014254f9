SPECIFICATION Spec
CONSTANTS
    Requests = {r1, r2}
    Ender = ender
    MaxTokens = 3
    MaxClock = 2
    MaxFaults = 2
    Window = 1
    Grace = 1
    Ttl = 2
    AbsoluteMax = 2
    FirstExpiry = 3
SYMMETRY Symmetry
CHECK_DEADLOCK FALSE
INVARIANTS
    TypeOK
    ChainNeverForks
    AnswerIsTheSuccessor
    PromptRetryKeepsSession
PROPERTY
    RefinesTokenChain
