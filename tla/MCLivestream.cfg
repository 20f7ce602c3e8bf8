CONSTANTS
    c1 = c1
    c2 = c2
    NoChannel = NoChannel
    NoCommand = NoCommand
    Channels = {c1, c2}
    DataTypes = {"VIDEO", "BINARY"}
    FirstCamera = c1
    MaxCommands = 2
    MaxFrames = 2
    Faults = {"unanswered"}
SPECIFICATION FairSpec
CHECK_DEADLOCK FALSE
INVARIANTS
    TypeOK
    EnergySavingSparesWork
    NobodyIsFilmedForNothing
PROPERTIES
    LivestreamIsReported
    StreamsEnd
