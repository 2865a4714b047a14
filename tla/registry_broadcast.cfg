SPECIFICATION Spec
CONSTANTS
    NoHardware = 0
    NoPeer = 0
    Procs = {"p1", "p2"}
    Ids = {1, 2, 3, 4, 5, 6}
    Users = {"ana"}
    Names = {1, 2, 3, 4, 5, 6}
    HardwareIds = {1, 2, 3, 4, 5, 6}
    Keys = {1, 2, 3, 4, 5, 6}
    Subnet <- WholeSubnet
    Hosts <- PoolHosts
    MaxDevices <- LimitFive
    NameHardware <- SixNames
    Registrations <- TwoMore
    AdminKinds = {}
    WireGuardFails = FALSE
    RequestsCancelled = FALSE
    InitialDevices <- FourDevices
INVARIANTS
    UsableAddresses
