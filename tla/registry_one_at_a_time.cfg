SPECIFICATION Spec
CONSTANTS
    NoHardware = NoHardware
    NoPeer = NoPeer
    Procs = {p1}
    Ids = {i1, i2, i3}
    Users = {"ana", "bo"}
    Names = {"linux-ana-h1", "aws-eu-web", "gcp-us-web", "laptop"}
    HardwareIds = {"h1", "web"}
    Keys = {"k1", "k2", "k3"}
    Subnet <- ShortSubnet
    Hosts <- ShortSubnet
    MaxDevices <- LimitTwoOne
    NameHardware <- TwoWebHosts
    Registrations <- EveryRequest
    AdminKinds = {"delete", "adminDelete", "sync"}
    WireGuardFails = TRUE
    RequestsCancelled = FALSE
    InitialDevices = {}
SYMMETRY IdSymmetry
INVARIANTS
    RegisteredDevicesRouted
    DeviceLimit
