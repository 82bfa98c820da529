CONSTANTS
    Sizes <- RepaintSizes
    Narrow = {"a"}
    Wide = {}
    Params = {0, 1}
    Repertoires = {{"print", "LF", "RI", "EL", "IL", "CUB", "ECH", "ICH", "DCH", "insert", "cursor_visible", "title", "RIS"}}
    Watched = {"screen_updated", "title_updated"}
    Limits <- NoLimits
    IdMax = 1
    MaxFeed = 2
    MaxHistory = 0
    MaxPayload = 1
    MaxReplies = 1
SPECIFICATION Spec
INVARIANT CallerUpToDate
CHECK_DEADLOCK FALSE
