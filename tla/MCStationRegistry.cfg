CONSTANTS
    MaxStations = 3
    Handlers = {h1, h2}
    MovesIn = FALSE
SPECIFICATION FairSpec
INVARIANTS
    KnowsTheHouse
PROPERTIES
    HubsAreHandled
    CallersAreAnswered
