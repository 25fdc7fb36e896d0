SPECIFICATION ExampleFairSpec
INVARIANT ExampleTypeOK
INVARIANT CleanExit
PROPERTY InterruptEnds
CONSTANTS
    Fds = {3, 4, 5}
    Conns = {c1}
    MaxBytes = 1
    Endless = TRUE
    BufSize = 2
    MaxOthers = 1
    Owner = u
    Worker = w
    Senders = {u}
    Disconnectors = {u, h}
    Handlers = {h}
    Payload = 2
    SndBuf = 1
    Reconnects = FALSE
    Early = TRUE
    Destroys = TRUE
CHECK_DEADLOCK FALSE
