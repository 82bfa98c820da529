CONSTANTS
    Sizes <- GlyphSizes
    Narrow = {"a"}
    Wide = {"W"}
    Params = {0, 1, 2}
    Repertoires = {{"print", "BS", "HT", "CR", "LF", "NEL", "RI", "CUF", "CUB", "CUU", "CUD", "CNL", "CPL", "CHA", "VPA", "CUP", "ECH", "EL", "ED", "IL", "DL", "SU", "SD", "origin", "DECSTBM", "DECSC", "DECRC"}}
    Watched = {}
    Limits <- NoLimits
    IdMax = 1
    MaxFeed = 1
    MaxHistory = 0
    MaxPayload = 1
    MaxReplies = 1
SPECIFICATION Spec
INVARIANT TypeOK InBounds PairsWhole WrapOnlyAtEdge
CHECK_DEADLOCK FALSE
