CONSTANTS
    Keys <- MCKeys
    Buttons <- MCButtons
    Coordinates <- MCCoordinates
    Channels <- MCChannels
    Indices <- MCIndices
    SgrUnits <- MCSgrUnits
    Fields <- MCFields
    Digits <- MCDigits
    Characters <- MCCharacters
    MaxUnits = 3
    MaxFields = 5
    MaxCharacters = 6
SPECIFICATION Spec
INVARIANT InputReadable PenFollowsSgr RequestsExact
