SPECIFICATION FairSpec
INVARIANT ConnectionsWatched
PROPERTY AttendsConnections
CONSTANTS
    Fds = {3, 4, 5, 6}
    Conns = {c1, c2}
    MaxBytes = 1
    Endless = TRUE
    BufSize = 1
    MaxOthers = 1
    Reactor = r
    Stoppers = {}
    Handlers = {}
    MaxEvents = 1
    CallbackStops = FALSE
    Serial = TRUE
