CONSTANTS
    MessageTags = {0}
    ServerTags = {0, 2}
    Versions = {38, 40, 41}
    Sizes = {0, 1, 3}
    BASE = 2
    MaxMessages = 3
    MaxConnections = 2
SPECIFICATION FairParserSpec
CHECK_DEADLOCK FALSE
INVARIANTS
    ParserTypeOK
    EmitsWhatArrived
    ThrowsOnlyOverBadData
