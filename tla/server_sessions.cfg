SPECIFICATION Spec
INVARIANT NoLostEdge
INVARIANT SignalInv
INVARIANT NothingLeftOpen
INVARIANT NoDoubleClose
PROPERTY LiveConnectionKept
SYMMETRY Symmetry
CONSTANTS
    Fds = {3, 4, 5}
    Conns = {c1, c2}
    MaxBytes = 1
    Endless = FALSE
    BufSize = 1
    MaxOthers = 1
    Reactor = r
    Stoppers = {h}
    Handlers = {h}
    MaxEvents = 2
    CallbackStops = FALSE
    Serial = TRUE
