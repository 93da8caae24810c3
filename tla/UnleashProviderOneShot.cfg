SPECIFICATION Spec
CONSTANTS
    Handlers = {h1, h2, h3}
    OneShot = {h1}
    Raising = {}
    RemovesDuringEmit = FALSE
    MaxRegistered = 3
INVARIANT AllCalled
