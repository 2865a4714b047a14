SPECIFICATION FairSpec
CONSTANTS
    NoPort = NoPort
    NoDevice = NoDevice
    Devices = {"d1", "d2"}
    StartPort = 1
    EndPort = 1
    Events <- Disturbed
    ServerRestarts = FALSE
PROPERTIES
    TunnelRestored
    DisabledLocally
CHECK_DEADLOCK FALSE
