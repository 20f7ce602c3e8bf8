CONSTANTS
    Kinds = {"camera", "solo", "wallLight", "indoor", "doorbell", "motionSensor", "smartSafe", "smartDrop", "lock"}
    Seen = {"motion", "person", "identity", "stranger", "pet", "loitering", "jammed", "lid", "lockEvent"}
    Simultaneous = TRUE
    HasQuery = TRUE
    MaxRequests = 3
    MaxReports = 3
SPECIFICATION Spec
INVARIANTS
    DetectionHasTimer
    NameIsCleared
    PictureIsOnItsWay
    StatusIsTheLocks
