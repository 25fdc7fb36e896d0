SPECIFICATION Spec
INVARIANT OwnDescriptorsOnly
CONSTANTS
    Fds = {3, 4, 5}
    Conns = {c1}
    MaxBytes = 1
    Endless = FALSE
    BufSize = 1
    MaxOthers = 1
    Reactor = r
    Stoppers = {s1}
    Handlers = {}
    MaxEvents = 1
    CallbackStops = FALSE
    Serial = TRUE
