\* Every flag, boolean ones among them, resolved as every type.
SPECIFICATION EvaluationSpec
CONSTANTS
    Names = {"on"}
    Configured <- AllFlags
INVARIANTS
    MatchesFlagType
