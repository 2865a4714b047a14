SPECIFICATION ApiSpec
CONSTANTS
    NoCode = NoCode
    SubnetSize = 4
    Ranges <- MCRanges
    Emails = {"ana", "bo"}
    Codes = {"c1"}
    EmailOf <- MCEmailOf
    Procs = {p1, p2}
    Conflicts <- MCConflicts
    InitialUsers = {}
    InitialConflicts <- MCInitialConflicts
    Unreliable = TRUE
    Requests = {"r1"}
    OwnerOf <- MCOwnerOf
SYMMETRY Symmetry
INVARIANTS
    ApiTypeOK
    SubnetsDisjoint
    ConflictsAvoided
    GrantedInTime
PROPERTIES
    SpentCodesRefused
CHECK_DEADLOCK FALSE
