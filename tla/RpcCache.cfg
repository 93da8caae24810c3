\* Two flags in a cache for one: eviction, a changing server, racing clients.
\* The system may stop: nothing happens after the last change and shutdown.
SPECIFICATION FairSpec
CONSTANTS
    Flags = {f1, f2}
    Clients = {c1, c2}
    MaxCacheSize = 1
    MaxVersion = 1
INVARIANTS
    TypeOK
    StaleOnlyIfExcused
PROPERTIES
    ChangedMeansInvalidated
    StaleIsTransient
CHECK_DEADLOCK FALSE
