CONSTANTS
    ConnectionType = "ONLY_LOCAL"
    MAX_RETRIES = 1
    Faults = {"foreign", "bind", "lost"}
    MaxPending = 2
    MaxOrphans = 1
SPECIFICATION StationFairSpec
INVARIANTS
    NeverGivesUp
    IdleIsQuiet
PROPERTIES
    ClosedStaysClosed
    ComesBack
