SPECIFICATION Spec
CONSTANTS
    NoHardware = NoHardware
    NoPeer = NoPeer
    Procs = {"p1", "p2"}
    Ids = {i1, i2, i3, i4, i5}
    Users = {"ana"}
    Names = {"linux-ana-h1", "aws-eu-web", "linux-ana-h3", "laptop"}
    HardwareIds = {"h1", "h2", "h3", "h4", "web"}
    Keys = {"k1", "k2", "k3", "k4", "k5", "k6"}
    Subnet <- FourHosts
    Hosts <- FourHosts
    MaxDevices <- LimitTwo
    NameHardware <- ThreeParsed
    Registrations <- DistinctDevices
    AdminKinds = {}
    WireGuardFails = FALSE
    RequestsCancelled = FALSE
    InitialDevices = {}
SYMMETRY IdSymmetry
INVARIANTS
    LimitOvershoot
    MirrorWhenIdle
