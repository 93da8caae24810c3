\* A flag key without a leading slash.
SPECIFICATION Spec
CONSTANTS
    Keys = {}
    BareKeys = {"k1"}
    Callers = {c1}
    CacheSize = 1
    Expiry = FALSE
    Asked <- BareFlag
    Texts = {"word"}
SYMMETRY CallerSymmetry
INVARIANTS
    LeadingSlash
