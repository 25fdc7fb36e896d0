SPECIFICATION Spec
INVARIANT SendSurvives
CONSTANTS
    Fds = {3, 4, 5}
    Conns = {c1}
    MaxBytes = 1
    Endless = FALSE
    BufSize = 1
    MaxOthers = 0
    Owner = u
    Worker = w
    Senders = {u}
    Disconnectors = {u}
    Handlers = {}
    Payload = 2
    SndBuf = 1
    Reconnects = FALSE
    Early = FALSE
    Destroys = FALSE
CHECK_DEADLOCK FALSE
