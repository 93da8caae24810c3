\* One flag, asked for as a string and as a boolean.
SPECIFICATION Spec
CONSTANTS
    Keys = {"k1"}
    BareKeys = {}
    Callers = {c1}
    CacheSize = 1
    Expiry = FALSE
    Asked <- TwoTypes
    Texts = {"true", "word"}
SYMMETRY CallerSymmetry
INVARIANTS
    ResultsTyped
