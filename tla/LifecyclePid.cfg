CONSTANTS
    None = None
    ExitStatuses <- MCExitStatuses
    Faults = {}
SPECIFICATION SpawnSpec
INVARIANT PidNotRecycled
CHECK_DEADLOCK FALSE
