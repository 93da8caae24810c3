\* Overlapping outages, every kind of response, fatal codes configured.
\* The system may stop: after the last shutdown nothing is left to do.
SPECIFICATION FairSpec
CONSTANTS
    Timers = {t1, t2}
    NoTimer = NoTimer
    Responses = {"ctx", "plain", "unparsable", "malformed"}
    MaxInits = 1
    MetadataDisabled = FALSE
    FatalConfigured = TRUE
INVARIANTS
    TypeOK
    ReadyMeansLoaded
    StaleEscalates
    NoRpcAfterFatal
PROPERTIES
    LossSurfaces
    ShutdownStopsListener
    KeepsListening
CHECK_DEADLOCK FALSE
