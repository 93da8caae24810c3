\* Every flag with variants "on" and "true", resolved as every type.
SPECIFICATION EvaluationSpec
CONSTANTS
    Names = {"on"}
    Configured <- AllFlags
INVARIANTS
    ValueTyped
    TargetingDecides
