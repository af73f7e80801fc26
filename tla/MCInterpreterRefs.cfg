SPECIFICATION Spec
CHECK_DEADLOCK FALSE
CONSTANTS
    Handlers = {h1}
    Listeners = {}
    Formatters = {f1}
    MaxCalls = 1
    MaxLines = 1
INVARIANT
    DestroyedInside
