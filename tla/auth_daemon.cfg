SPECIFICATION FairSpec
CONSTANTS
    NoUser = NoUser
    NoDevice = NoDevice
    Machines = {"m1"}
    Users = {u1}
    Challenges = {"c1", "c2"}
    MachineOf <- OneMachine
    ServerIds = {"s1"}
    Procs = {p1}
    Attempts = 3
    AdminApproves = TRUE
    Unreliable = FALSE
    LookupFails = FALSE
    Daemons = {"m1"}
    JwtLapses = FALSE
PROPERTIES
    CleanupJustified
    DeletedLogsOut
CHECK_DEADLOCK FALSE
