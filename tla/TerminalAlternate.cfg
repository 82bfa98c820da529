CONSTANTS
    Sizes <- RegionSizes
    Narrow = {"a"}
    Wide = {}
    Params = {0, 1}
    Repertoires = {{"print", "SGR", "autowrap", "1047", "1049"}, {"OSC", "BEL", "mouse", "DSR", "DA"}, {"print", "OSC8", "DECSC", "DECRC", "RIS"}}
    Watched = {"HyperlinkAdded"}
    Limits <- NoLimits
    IdMax = 2
    MaxFeed = 1
    MaxHistory = 0
    MaxPayload = 2
    MaxReplies = 1
SPECIFICATION Spec
INVARIANT LinksResolve
PROPERTY PrimaryUntouched ReturnRestores CursorKeepsLine
CHECK_DEADLOCK FALSE
