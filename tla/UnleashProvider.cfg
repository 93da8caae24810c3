SPECIFICATION Spec
CONSTANTS
    Handlers = {h1, h2}
    OneShot = {}
    Raising = {h1}
    RemovesDuringEmit = FALSE
    MaxRegistered = 3
INVARIANTS
    TypeOK
    AllCalled
    DownStaysDown
    ResolvesTyped
    HandlersSeeReady
