SPECIFICATION FairSpec
CONSTANTS
    Upgraders = {"daemon", "terminal"}
    MaxVersion = 2
    Missing = Missing
    Broken = Broken
    Absent = Absent
    Torn = Torn
    Commands = {"switch off", "auto off", "login", "logout", "upgrade", "refresh", "uninstall"}
    MaxCommands = 2
INVARIANTS
    TypeOK
    Recoverable
    SettingsKept
    NoticeTrue
PROPERTIES
    UpToDate
CHECK_DEADLOCK FALSE
