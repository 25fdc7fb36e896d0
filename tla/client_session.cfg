SPECIFICATION Spec
INVARIANT TypeOK
INVARIANT SessionInv
INVARIANT SentWhole
INVARIANT TerminatedOnlyByDrop
INVARIANT NothingOrphaned
INVARIANT OwnDescriptorsOnly
CONSTANTS
    Fds = {3, 4, 5}
    Conns = {c1, c2}
    MaxBytes = 1
    Endless = FALSE
    BufSize = 2
    MaxOthers = 1
    Owner = u
    Worker = w
    Senders = {u, w}
    Disconnectors = {u}
    Handlers = {}
    Payload = 2
    SndBuf = 1
    Reconnects = FALSE
    Early = FALSE
    Destroys = TRUE
CHECK_DEADLOCK FALSE
