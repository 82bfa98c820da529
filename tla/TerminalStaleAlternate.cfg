CONSTANTS
    Sizes <- OneByTwo
    Narrow = {"a"}
    Wide = {}
    Params = {2}
    Repertoires = {{"print", "EL", "1047"}}
    Watched = {"screen_updated"}
    Limits <- NoLimits
    IdMax = 1
    MaxFeed = 1
    MaxHistory = 0
    MaxPayload = 1
    MaxReplies = 1
SPECIFICATION Spec
INVARIANT RepaintNotMissed
CHECK_DEADLOCK FALSE
