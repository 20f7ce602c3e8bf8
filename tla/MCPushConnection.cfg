CONSTANTS
    m1 = m1
    m2 = m2
    Messages = {m1, m2}
    MaxClients = 3
    Faults = {"rejected", "renewal", "leftover"}

SPECIFICATION FairSpec
INVARIANTS
    TypeOK
    EachMessageOnce
    OneListenedClient
PROPERTIES
    ComesBack
