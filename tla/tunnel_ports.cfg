SPECIFICATION Spec
CONSTANTS
    NoPort = NoPort
    NoDevice = NoDevice
    Devices = {"d1", "d2"}
    StartPort = 1
    EndPort = 2
    Events <- Everything
    ServerRestarts = TRUE
INVARIANTS
    TypeOK
    ReachesOwner
CHECK_DEADLOCK FALSE
