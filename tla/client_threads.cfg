SPECIFICATION Spec
INVARIANT WorkerDescriptorsLive
INVARIANT ClientInv
INVARIANT NoLostEdge
CONSTANTS
    Fds = {3, 4, 5, 6}
    Conns = {c1, c2}
    MaxBytes = 1
    Endless = TRUE
    BufSize = 1
    MaxOthers = 0
    Owner = u
    Worker = w
    Senders = {w}
    Disconnectors = {u, v, w}
    Handlers = {}
    Payload = 2
    SndBuf = 1
    Reconnects = TRUE
    Early = FALSE
    Destroys = FALSE
CHECK_DEADLOCK FALSE
