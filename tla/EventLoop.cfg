CONSTANTS
    None = None
    InCapacity = 1
    OutCapacity = 2
    ReplyLens <- MCReplyLens
    WriteEio = FALSE
    ReadBufferLimit = 2
    OutboundCompactThreshold = 2
    ReadCompactThreshold = 2
    Budgets <- MCBudgets
    InputLens <- MCInputLens
    Interrupts = FALSE
    IoErrors = FALSE
    MaxInput = 2
    MaxOutput = 2
SPECIFICATION LoopSpec
INVARIANT NoLostWakeup PauseEndsWithReply TrafficKept
PROPERTY QueueDrains OutputDecoded SessionEnds DrainTerminates
CHECK_DEADLOCK FALSE
