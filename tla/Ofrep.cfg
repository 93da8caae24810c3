\* Two threads resolve flags at a time.
SPECIFICATION Spec
CONSTANTS
    Callers = {c1, c2}
    MaxTime = 5
    Delays = {0, 1, 2}
    Never = Never
INVARIANTS
    TypeOK
    PauseHonoured
PROPERTIES
    PauseEnds
