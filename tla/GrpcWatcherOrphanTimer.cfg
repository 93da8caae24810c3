\* Two TRANSIENT_FAILUREs in a row arm two timers.
SPECIFICATION Spec
CONSTANTS
    Timers = {t1, t2}
    NoTimer = NoTimer
    Responses = {"ctx"}
    MaxInits = 1
    MetadataDisabled = TRUE
    FatalConfigured = FALSE
PROPERTIES
    GraceEndsOnlyInLoss
CHECK_DEADLOCK FALSE
