CONSTANTS
    l1 = l1
    Locks = {l1}
    Faults = {"loginFails", "captcha", "verify", "undecryptable", "mqttLost", "mqttRefused"}
    Intervals = {0, 10}
    MaxEvents = 2
    MaxBoots = 2
    MaxTasks = 3
SPECIFICATION FairSpec
CHECK_DEADLOCK FALSE
INVARIANTS
    TypeOK
    TokenIsStored
    PollingGoesOn
    LocksAreHeard
PROPERTIES
    StaleTokenIsNoticed
