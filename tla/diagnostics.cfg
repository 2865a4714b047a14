SPECIFICATION FairSpec
CONSTANTS
    Devices = {"laptop id", "phone id", "other id"}
    Requests = {"r1"}
    None = None
    DeviceName <- MCDeviceName
    Owner <- MCOwner
    Machines <- MCMachines
PROPERTIES
    RequestAnswered
CHECK_DEADLOCK FALSE
