CONSTANTS
    None = None
    ExitStatuses <- MCExitStatuses
    Faults <- FaultKind
SPECIFICATION SpawnSpec
INVARIANT SpawnTypeOK SignalsReachOwnGroup StatusReliable NothingLeftBehind ChildHoldsStdioOnly
PROPERTY StatusFollowsLifecycle ZombieIsReaped CleanupReturns
CHECK_DEADLOCK FALSE
