\* The stream announces READY while the init deadline passes.
SPECIFICATION Spec
CONSTANTS
    Timers = {t1}
    NoTimer = NoTimer
    Responses = {"ctx"}
    MaxInits = 1
    MetadataDisabled = TRUE
    FatalConfigured = FALSE
PROPERTIES
    NotReadyMeansUnsynced
CHECK_DEADLOCK FALSE
