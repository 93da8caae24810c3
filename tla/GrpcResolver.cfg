\* One flag that changes once, one client, one outage at a time.
\* The system may stop: after the last shutdown nothing is left to do.
SPECIFICATION FairSpec
CONSTANTS
    Flags = {f1}
    Clients = {c1}
    MaxCacheSize = 1
    MaxVersion = 1
    Timers = {t1}
    NoTimer = NoTimer
    MaxInits = 1
    FatalConfigured = TRUE
INVARIANTS
    TypeOK
PROPERTIES
    ImplementsCache
    RecoverySticks
CHECK_DEADLOCK FALSE
