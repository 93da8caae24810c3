\* An entry expires between the two steps of the lookup.
SPECIFICATION Spec
CONSTANTS
    Keys = {"k1", "k2"}
    BareKeys = {}
    Callers = {c1}
    CacheSize = 1
    Expiry = TRUE
    Asked <- OneTypeEach
    Texts = {"true", "word"}
SYMMETRY CallerSymmetry
INVARIANTS
    NoKeyError
