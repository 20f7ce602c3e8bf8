CONSTANTS
    MaxStations = 3
    Handlers = {h1, h2}
    MovesIn = TRUE
SPECIFICATION FairSpec
PROPERTIES
    CallersAreAnswered
