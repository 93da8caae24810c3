\* Hashes of 4 bits, up to three fractions, sums beyond the maximum.
\* The operator stops when it returns.
SPECIFICATION FractionalSpec
CONSTANTS
    HashSpace = 16
    MaxWeightSum = 11
    Weights <- SmallWeights
    MaxArgs = 3
INVARIANTS
    FractionalTypeOK
    Selects
    Share
CHECK_DEADLOCK FALSE
