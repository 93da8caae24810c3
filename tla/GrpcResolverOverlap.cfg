\* Overlapping outages and a second initialize(), without the cache.
SPECIFICATION FairSpec
CONSTANTS
    Flags = {f1}
    Clients = {}
    MaxCacheSize = 1
    MaxVersion = 0
    Timers = {t1, t2}
    NoTimer = NoTimer
    MaxInits = 2
    FatalConfigured = FALSE
PROPERTIES
    RecoverySticks
CHECK_DEADLOCK FALSE
