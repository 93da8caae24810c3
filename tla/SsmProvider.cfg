\* Two flags in a cache for one that expires, each asked for one type by two
\* callers that race with the writers of the parameters.
SPECIFICATION FairSpec
CONSTANTS
    Keys = {"k1", "k2"}
    BareKeys = {}
    Callers = {c1, c2}
    CacheSize = 1
    Expiry = TRUE
    Asked <- OneTypeEach
    Texts = {"true", "word"}
INVARIANTS
    TypeOK
    ResultsTyped
PROPERTIES
    StaleExpires
