CONSTANTS
    None = None
    Keys <- MCKeys
    PUMP_DRAIN_BUDGET = 4
    INPUT_DRAIN_BUDGET = 2
    WRITE_SOFT_LIMIT = 1
SPECIFICATION Spec
INVARIANT PumpBudgetHolds KeysReachTheirSession
PROPERTY NoneStarves AppEnds HostCatchesUp
CHECK_DEADLOCK FALSE
