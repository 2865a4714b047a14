SPECIFICATION Spec
CONSTANTS
    NoHardware = NoHardware
    NoPeer = NoPeer
    Procs = {p1, p2}
    Ids = {i1, i2, i3, i4}
    Users = {"ana", "bo"}
    Names = {"linux-ana-h1", "aws-eu-web"}
    HardwareIds = {"h1", "h2", "web"}
    Keys = {"k1", "k2"}
    Subnet <- TwoSubnets
    Hosts <- TwoSubnets
    MaxDevices <- LimitOneEach
    NameHardware <- ParsedNames
    Registrations <- ContendedRequests
    AdminKinds = {"delete"}
    WireGuardFails = TRUE
    RequestsCancelled = TRUE
    InitialDevices = {}
SYMMETRY SwapSymmetry
INVARIANTS
    TypeOK
    TenantRoutes
PROPERTIES
    OnlyOwnRowsRemoved
