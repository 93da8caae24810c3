\* Two resolutions at a time, one of them meets 429.
SPECIFICATION Spec
CONSTANTS
    Callers = {c1, c2}
    MaxTime = 2
    Delays = {1}
    Never = Never
INVARIANTS
    PauseAlwaysHonoured
