SPECIFICATION LinkFairSpec
PROPERTY NothingLost
PROPERTY SessionEnds
PROPERTY CallsReturn
CONSTANTS
    Fds = {3, 4, 5}
    Conns = {c1}
    MaxBytes = 1
    Endless = TRUE
    BufSize = 1
    MaxOthers = 0
    Reactor = r
    Stoppers = {}
    Handlers = {}
    MaxEvents = 1
    CallbackStops = TRUE
    Serial = TRUE
    Owner = u
    Worker = w
    Senders = {u}
    Disconnectors = {u}
    Payload = 3
    SndBuf = 1
    Reconnects = FALSE
    Early = FALSE
    Destroys = TRUE
CHECK_DEADLOCK FALSE
