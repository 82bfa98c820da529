CONSTANTS
    None = None
    InCapacity = 2
    OutCapacity = 2
    ReplyLens <- MCReplyLens
    WriteEio = FALSE
    ReadBufferLimit = 2
    OutboundCompactThreshold = 2
    ReadCompactThreshold = 2
    Budgets <- MCBudgets
    InputLens <- MCInputLens
    Interrupts = FALSE
    IoErrors = FALSE
    MaxInput = 2
    MaxOutput = 2
SPECIFICATION Spec
INVARIANT ClosingAwaitsReap
CHECK_DEADLOCK FALSE
