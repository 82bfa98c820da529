CONSTANTS
    Sizes <- TallSizes
    Narrow = {"a", "b"}
    Wide = {}
    Params = {0, 1, 2, 3}
    Repertoires = {{"print", "LF", "SU", "ED", "RIS"}}
    Watched = {"scrollback_line_added"}
    Limits <- TrimLimits
    IdMax = 1
    MaxFeed = 2
    MaxHistory = 1
    MaxPayload = 1
    MaxReplies = 1
SPECIFICATION Spec
INVARIANT ScrollbackExact HistoryReported
PROPERTY ResizeKeepsText
CHECK_DEADLOCK FALSE
