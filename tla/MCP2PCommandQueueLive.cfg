CONSTANTS
    c1 = c1
    c2 = c2
    c3 = c3
    p1 = p1
    t1 = t1
    t2 = t2
    Commands = {c1, c2}
    Pings = {}
    Types = {t1, t2}
    TypeOf <- MCTypeOf
    MAX_RETRIES = 1
    MAX_SEQUENCE_NUMBER = 3
    MaxSessions = 1
    Faults = {"ackTimeout", "silent", "slowKey", "lateKey", "failed"}
SPECIFICATION FairSpec
CHECK_DEADLOCK FALSE
INVARIANTS
    TypeOK
    AtMostOneOutcome
PROPERTIES
    QueueDrains
    InFlightEnds
