CONSTANTS
    Values <- MCValues
    MaxRows = 2
    MaxRead = 3
    None = None
    FlushWindow = 2
    Significance = 2
    Epoch = 2
    BackdateWindow = 1
    Texts <- MCTexts
    MaxPayload = 4
    MaxInput = 9
    Counts <- MCCounts
    Instants <- MCInstants
SPECIFICATION Spec
INVARIANTS
    TypeOK
    ParseFaithful
    NeverShort
    SanitizedClean
    SuspicionMonotone
CHECK_DEADLOCK FALSE
