CONSTANTS
    ConnectionType = "QUICKEST"
    MAX_RETRIES = 2
    Faults = {"foreign", "late", "stale", "bind", "lost"}
    MaxPending = 2
    MaxOrphans = 1
SPECIFICATION FairSpec
INVARIANTS
    HeartbeatIffConnected
PROPERTIES
    EventsAlternate
    ConnectingEnds
    LostStationIsNoticed
