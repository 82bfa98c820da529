CONSTANTS
    None = None
    InCapacity = 2
    OutCapacity = 2
    ReplyLens <- MCReplyLens
    WriteEio = TRUE
    ReadBufferLimit = 2
    OutboundCompactThreshold = 2
    ReadCompactThreshold = 2
    Budgets <- MCBudgets
    InputLens <- MCInputLens
    Interrupts = TRUE
    IoErrors = TRUE
    MaxInput = 2
    MaxOutput = 2
SPECIFICATION Spec
INVARIANT TypeOK ReplyRangeSound BytesAccounted
PROPERTY WriteQueueIsFifo StatusFollowsLifecycle
CHECK_DEADLOCK FALSE
