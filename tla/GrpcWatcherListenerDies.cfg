\* A server that sends no sync_context and an empty metadata answer.
SPECIFICATION FairSpec
CONSTANTS
    Timers = {t1}
    NoTimer = NoTimer
    Responses = {"ctx", "plain"}
    MaxInits = 1
    MetadataDisabled = FALSE
    FatalConfigured = FALSE
PROPERTIES
    KeepsListeningAlways
CHECK_DEADLOCK FALSE
