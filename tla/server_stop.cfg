SPECIFICATION FairSpec
INVARIANT TypeOK
INVARIANT ServerInv
INVARIANT NothingLeftOpen
INVARIANT CleanInv
PROPERTY ServesConnections
 
CONSTANTS
    Fds = {3, 4, 5}
    Conns = {c1}
    MaxBytes = 1
    Endless = TRUE
    BufSize = 2
    MaxOthers = 1
    Reactor = r
    Stoppers = {s1}
    Handlers = {}
    MaxEvents = 1
    CallbackStops = TRUE
    Serial = TRUE
