SPECIFICATION FairSpec
INVARIANT SessionInv
INVARIANT NoLostEdge
INVARIANT NothingOrphaned
PROPERTY DisconnectReturns
PROPERTY DataRead
CONSTANTS
    Fds = {3, 4}
    Conns = {c1}
    MaxBytes = 1
    Endless = TRUE
    BufSize = 1
    MaxOthers = 1
    Owner = u
    Worker = w
    Senders = {w}
    Disconnectors = {v, h}
    Handlers = {h}
    Payload = 2
    SndBuf = 1
    Reconnects = FALSE
    Early = TRUE
    Destroys = FALSE
CHECK_DEADLOCK FALSE
