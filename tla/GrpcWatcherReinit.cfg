\* The provider is initialized again after a shutdown.
SPECIFICATION Spec
CONSTANTS
    Timers = {t1}
    NoTimer = NoTimer
    Responses = {"ctx"}
    MaxInits = 2
    MetadataDisabled = TRUE
    FatalConfigured = FALSE
INVARIANTS
    InitNeedsOpenChannel
CHECK_DEADLOCK FALSE
