SPECIFICATION Spec
CONSTANTS
    NoUser = NoUser
    NoDevice = NoDevice
    Machines = {"m1"}
    Users = {u1, u2}
    Challenges = {"c1"}
    MachineOf <- OneMachine
    ServerIds = {"s1"}
    Procs = {p1, p2}
    Attempts = 2
    AdminApproves = TRUE
    Unreliable = TRUE
    LookupFails = FALSE
    Daemons = {"m1"}
    JwtLapses = TRUE
SYMMETRY Symmetry
INVARIANTS
    TypeOK
    OnlyTheApprover
PROPERTIES
    DecidedOnce
    CleanupJustified
CHECK_DEADLOCK FALSE
