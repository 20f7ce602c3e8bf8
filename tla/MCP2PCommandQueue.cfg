CONSTANTS
    c1 = c1
    c2 = c2
    c3 = c3
    p1 = p1
    t1 = t1
    t2 = t2
    Commands = {c1, c2, c3}
    Pings = {p1}
    Types = {t1, t2}
    TypeOf <- MCTypeOf
    MAX_RETRIES = 1
    MAX_SEQUENCE_NUMBER = 6
    MaxSessions = 2
    Faults = {"aged"}
SPECIFICATION Spec
CHECK_DEADLOCK FALSE
PROPERTIES
    ResultsAreOwnUntilWrap
