SPECIFICATION FairSpec
CONSTANTS
    Own = {"mine"}
    UserKeys = {"good", "bad"}
    DeviceKeys = {"device"}
    Malformed = {"bad"}
    Syncs <- DaemonSyncs
INVARIANTS
    TypeOK
    OwnKeysKept
PROPERTIES
    RevokedKeysGo
