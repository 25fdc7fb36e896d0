SPECIFICATION FairSpec
PROPERTY StopNeverLost
CONSTANTS
    Fds = {3, 4, 5}
    Conns = {c1}
    MaxBytes = 1
    Endless = FALSE
    BufSize = 1
    MaxOthers = 0
    Reactor = r
    Stoppers = {s1}
    Handlers = {}
    MaxEvents = 1
    CallbackStops = FALSE
    Serial = TRUE
