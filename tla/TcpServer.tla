------------------------------ MODULE TcpServer ------------------------------
(***************************************************************************)
(* tuyul::TcpServer.  One thread, the Reactor, calls start() and runs the  *)
(* epoll loop in it; the Stoppers, threads or signal handlers, call stop() *)
(* at any moment.  No lock and no atomic protects the members of Impl, so  *)
(* a step is one statement that touches them, and the threads interleave   *)
(* between any two.                                                        *)
(***************************************************************************)
EXTENDS Sockets

CONSTANTS
    Reactor, Stoppers,   \* the thread in start(), the threads that call stop()
    Handlers,            \* those that are signal handlers, on top of the Reactor's stack
    MaxEvents,           \* options.max_epoll_events
    CallbackStops,       \* TRUE: data_cb may call stop()
    Serial               \* TRUE: start() is not called while a stop() is executing

Threads == Stoppers \cup {Reactor}

ASSUME ServerAssumption ==
    /\ Reactor \notin Stoppers /\ Handlers \subseteq Stoppers
    /\ MaxEvents \in Nat \ {0} /\ CallbackStops \in BOOLEAN /\ Serial \in BOOLEAN

VARIABLES
    server_fd, epoll_fd, is_running,   \* the members of Impl
    pc, ret,                           \* per thread; ret: where stop() takes the Reactor
    status,                            \* the code start() returned or is to return
    events, cur, newfd                 \* in start(): the batch, current_fd, client_fd

obj    == <<server_fd, epoll_fd, is_running>>
locals == <<ret, status, events, cur, newfd>>
vars   == <<kernel, obj, pc, locals>>

BootLabels    == {"config", "epoll", "register", "setrun"}
LoopLabels    == {"loop", "wait", "blocked", "batch", "accept", "add", "read", "drop"}
CleanupLabels == {"closeE", "clearE", "closeS", "clearS", "clearRun"}
Labels        == {"idle", "stop"} \cup BootLabels \cup LoopLabels \cup CleanupLabels

Codes == {"SUCCESS", "SOCKET_CREATION_FAILED", "SET_OPTION_FAILED", "BIND_FAILED",
          "LISTEN_FAILED", "EPOLL_CREATION_FAILED"}

TypeOK ==
    /\ SocketsTypeOK
    /\ server_fd \in Fds \cup {NoFd} /\ epoll_fd \in Fds \cup {NoFd}
    /\ is_running \in BOOLEAN
    /\ pc \in [Threads -> Labels] /\ ret \in {"idle", "read"}
    /\ status \in Codes /\ events \subseteq Fds
    /\ cur \in Fds \cup {NoFd} /\ newfd \in Fds \cup {NoFd}

Init ==
    /\ SocketsInit
    /\ server_fd = NoFd /\ epoll_fd = NoFd /\ is_running = FALSE
    /\ pc = [t \in Threads |-> "idle"] /\ ret = "idle"
    /\ status = "SUCCESS" /\ events = {} /\ cur = NoFd /\ newfd = NoFd

At(t, label)   == pc[t] = label
Awake(t)       == t = Reactor => \A h \in Handlers : At(h, "idle")
Goto(t, label) == pc' = [pc EXCEPT ![t] = label]
Advance(label) == Goto(Reactor, label) /\ UNCHANGED locals

\* The ways out of start(): cleanup() and then return of a code.
Exit(label, code) == Goto(Reactor, label) /\ status' = code /\ UNCHANGED <<ret, events, cur, newfd>>
LeaveOpen(code)   == Exit("idle", code)     \* mutant: an error path without cleanup()
Leave(code)       == Exit("closeE", code)

-----------------------------------------------------------------------------
\* start(): the boot sequence.

Socket ==
    /\ At(Reactor, "idle")
    /\ Serial => \A t \in Stoppers : At(t, "idle")
    /\ \/ \E f \in Lowest :
             /\ server_fd' = f /\ Install(f, "socket")
             /\ Goto(Reactor, "config") /\ UNCHANGED status
       \/ /\ server_fd' = NoFd /\ status' = "SOCKET_CREATION_FAILED"
          /\ UNCHANGED <<fdt, pc>>
    /\ UNCHANGED <<epoll_fd, is_running, epoll, wire, foreign, ret, events, cur, newfd>>

\* setsockopt, O_NONBLOCK, bind and listen.  The port takes one listener at a time.
Configure ==
    /\ At(Reactor, "config")
    /\ \/ /\ Handle(server_fd) = "socket" /\ \A f \in Fds : fdt[f] # "listener"
          /\ Install(server_fd, "listener") /\ Advance("epoll")
       \/ /\ \E code \in {"SET_OPTION_FAILED", "BIND_FAILED", "LISTEN_FAILED"} : Leave(code)
          /\ UNCHANGED fdt
    /\ UNCHANGED <<obj, epoll, wire, foreign>>

EpollCreate ==
    /\ At(Reactor, "epoll")
    /\ \/ \E f \in Lowest :
             /\ epoll_fd' = f /\ Install(f, "epoll")
             /\ interest' = {} /\ edge' = {} /\ Advance("register")
       \/ /\ epoll_fd' = NoFd /\ Leave("EPOLL_CREATION_FAILED")
          /\ UNCHANGED <<fdt, epoll>>
    /\ UNCHANGED <<server_fd, is_running, wire, foreign>>

Register ==
    /\ At(Reactor, "register")
    /\ \/ /\ Handle(epoll_fd) = "epoll" /\ Handle(server_fd) = "listener"
          /\ Watch(server_fd) /\ Advance("setrun")
       \/ Leave("EPOLL_CREATION_FAILED") /\ UNCHANGED epoll
    /\ UNCHANGED <<obj, fdt, wire, foreign>>

SetRunning ==
    /\ At(Reactor, "setrun")
    /\ is_running' = TRUE /\ Advance("loop")
    /\ UNCHANGED <<server_fd, epoll_fd, kernel>>

-----------------------------------------------------------------------------
\* start(): the event loop.

LoopTest ==
    /\ At(Reactor, "loop")
    /\ IF is_running THEN Advance("wait") ELSE Leave("SUCCESS")
    /\ UNCHANGED <<obj, kernel>>

EpollWait ==      \* enters the kernel; an error other than EINTR breaks the loop
    /\ At(Reactor, "wait")
    /\ IF Handle(epoll_fd) = "epoll" THEN Advance("blocked") ELSE Leave("SUCCESS")
    /\ UNCHANGED <<obj, kernel>>

WaitForever ==    \* mutant: epoll_wait with no timeout
    FALSE /\ UNCHANGED vars

WaitTimeout ==    \* nothing within watchdog_timeout_ms, or EINTR
    /\ At(Reactor, "blocked") /\ Ready = {}
    /\ Advance("loop")
    /\ UNCHANGED <<obj, kernel>>

WaitEvents ==
    /\ At(Reactor, "blocked")
    /\ \E batch \in SUBSET Ready :
          /\ batch # {} /\ Cardinality(batch) <= MaxEvents
          /\ batch = Ready \/ Cardinality(batch) = MaxEvents
          /\ events' = batch /\ edge' = edge \ batch
    /\ Goto(Reactor, "batch")
    /\ UNCHANGED <<obj, fdt, interest, wire, foreign, ret, status, cur, newfd>>

Dispatch ==       \* the next event of the batch, in any order; after the last, loop
    /\ At(Reactor, "batch")
    /\ \/ events = {} /\ Goto(Reactor, "loop") /\ UNCHANGED <<events, cur>>
       \/ \E f \in events :
             /\ events' = events \ {f} /\ cur' = f
             /\ Goto(Reactor, IF f = server_fd THEN "accept" ELSE "read")
    /\ UNCHANGED <<obj, kernel, ret, status, newfd>>

NextEvent == Goto(Reactor, "batch") /\ cur' = NoFd /\ UNCHANGED <<ret, status, events, newfd>>

Accept ==
    /\ At(Reactor, "accept")
    /\ \/ \* EBADF, EINVAL or ENOTSOCK; EAGAIN; EMFILE
          /\ Handle(server_fd) # "listener" \/ Queued = {} \/ Lowest = {}
          /\ NextEvent /\ UNCHANGED <<fdt, phase>>
       \/ \E c \in Queued, f \in Lowest :
             /\ Handle(server_fd) = "listener"
             /\ Install(f, c) /\ phase' = [phase EXCEPT ![c] = "open"]
             /\ newfd' = f /\ Goto(Reactor, "add")
             /\ UNCHANGED <<ret, status, events, cur>>
    /\ UNCHANGED <<obj, epoll, inq, eof, left, foreign>>

KeepUnwatched == UNCHANGED kernel     \* mutant: a failed Add forgets to close
Reject        == Close(newfd)

Add ==            \* O_NONBLOCK and EPOLL_CTL_ADD; a failure of either closes
    /\ At(Reactor, "add")
    /\ \/ /\ Handle(epoll_fd) = "epoll" /\ Handle(newfd) # "free" /\ Watch(newfd)
          /\ UNCHANGED <<fdt, wire, foreign>>
       \/ Reject
    /\ Goto(Reactor, "accept") /\ newfd' = NoFd
    /\ UNCHANGED <<obj, ret, status, events, cur>>

ReadOnce == NextEvent           \* mutant: one read per event
ReadOn   == Advance("read")     \* EPOLLET: read until EAGAIN

ReadData ==       \* data_cb gets what was read, and may call stop()
    /\ At(Reactor, "read")
    /\ \E c \in Conns :
          /\ c = Handle(cur) /\ inq[c] > 0
          /\ inq' = [inq EXCEPT ![c] = @ - Chunk(c)]
    /\ \/ ReadOn
       \/ /\ CallbackStops /\ ret' = "read" /\ Goto(Reactor, "stop")
          /\ UNCHANGED <<status, events, cur, newfd>>
    /\ UNCHANGED <<obj, fdt, epoll, phase, eof, left, foreign>>

ReadAgain ==      \* EAGAIN: the receive queue is drained
    /\ At(Reactor, "read")
    /\ Handle(cur) \in Conns /\ ~Pending(Handle(cur))
    /\ NextEvent
    /\ UNCHANGED <<obj, kernel>>

\* What read reports as the end: 0 or ECONNRESET, after the last byte.
EndedOrEmpty(h) == h \in Conns /\ inq[h] = 0    \* mutant: EAGAIN taken for an error
Ended(h)        == h \in Conns /\ inq[h] = 0 /\ eof[h] # "open"

Ignore           == NextEvent         \* mutant: connection_closed is not set
ConnectionClosed == Advance("drop")

ReadEnd ==        \* the end, or the error of a number that is no connection
    /\ At(Reactor, "read")
    /\ Ended(Handle(cur)) \/ Handle(cur) \in Kinds \ {"other"}
    /\ ConnectionClosed
    /\ UNCHANGED <<obj, kernel>>

ReadForeign ==    \* the number now denotes what other code opened: any result
    /\ At(Reactor, "read") /\ Handle(cur) = "other"
    /\ foreign' = TRUE
    /\ Advance("read") \/ Advance("drop") \/ NextEvent
    /\ UNCHANGED <<obj, fdt, epoll, wire>>

Drop ==           \* EPOLL_CTL_DEL, its result ignored, and close(current_fd)
    /\ At(Reactor, "drop")
    /\ Close(cur) /\ NextEvent
    /\ UNCHANGED obj

-----------------------------------------------------------------------------
\* stop() and cleanup(), on any thread; cleanup() also ends start().

CallStop(t) ==
    /\ At(t, "idle") /\ Goto(t, "stop")
    /\ UNCHANGED <<obj, kernel, locals>>

Return(t) ==
    /\ Goto(t, IF t = Reactor THEN ret ELSE "idle")
    /\ ret' = IF t = Reactor THEN "idle" ELSE ret
    /\ UNCHANGED <<status, events, cur, newfd>>

StopTest(t) ==
    /\ At(t, "stop")
    /\ IF is_running THEN Goto(t, "closeE") /\ UNCHANGED locals ELSE Return(t)
    /\ UNCHANGED <<obj, kernel>>

CloseEpoll(t) ==
    /\ At(t, "closeE")
    /\ IF epoll_fd >= 0 THEN Close(epoll_fd) /\ Goto(t, "clearE")
                        ELSE Goto(t, "closeS") /\ UNCHANGED kernel
    /\ UNCHANGED <<obj, locals>>

KeepEpollFd(t) ==     \* mutant: close without epoll_fd = -1
    At(t, "clearE") /\ Goto(t, "closeS") /\ UNCHANGED <<obj, kernel, locals>>

ClearEpoll(t) ==
    /\ At(t, "clearE")
    /\ epoll_fd' = NoFd /\ Goto(t, "closeS")
    /\ UNCHANGED <<server_fd, is_running, kernel, locals>>

CloseServer(t) ==
    /\ At(t, "closeS")
    /\ IF server_fd >= 0 THEN Close(server_fd) /\ Goto(t, "clearS")
                         ELSE Goto(t, "clearRun") /\ UNCHANGED kernel
    /\ UNCHANGED <<obj, locals>>

ClearServer(t) ==
    /\ At(t, "clearS")
    /\ server_fd' = NoFd /\ Goto(t, "clearRun")
    /\ UNCHANGED <<epoll_fd, is_running, kernel, locals>>

ClearRunning(t) ==
    /\ At(t, "clearRun")
    /\ is_running' = FALSE /\ Return(t)
    /\ UNCHANGED <<server_fd, epoll_fd, kernel>>

Cleanup(t) ==
    \/ StopTest(t) \/ CloseEpoll(t) \/ ClearEpoll(t)
    \/ CloseServer(t) \/ ClearServer(t) \/ ClearRunning(t)

-----------------------------------------------------------------------------
PeerConnect(c) ==  \* the kernel completes the handshake while the port listens
    /\ phase[c] = "idle" /\ \E f \in Fds : fdt[f] = "listener"
    /\ phase' = [phase EXCEPT ![c] = "queued"]
    /\ UNCHANGED <<fdt, epoll, inq, eof, left, foreign>>

Environment == (Outside \/ \E c \in Conns : PeerConnect(c)) /\ UNCHANGED <<obj, pc, locals>>

Boot == Socket \/ Configure \/ EpollCreate \/ Register \/ SetRunning

EventLoop ==
    \/ LoopTest \/ EpollWait \/ WaitTimeout \/ WaitEvents \/ Dispatch \/ Accept \/ Add
    \/ ReadData \/ ReadAgain \/ ReadEnd \/ ReadForeign \/ Drop

Calls ==           \* the process that holds the server
    \/ Awake(Reactor) /\ (Boot \/ EventLoop)
    \/ \E t \in Threads : Awake(t) /\ Cleanup(t)
    \/ \E t \in Stoppers : CallStop(t)

Next == Calls \/ Environment

Spec == Init /\ [][Next]_vars

\* The scheduler runs every thread that can run, and epoll_wait returns, at the
\* latest at its timeout.  Nobody has to call start() or stop(), connect or send, and
\* signals cease in the end.
ReactorStep ==
    ~At(Reactor, "idle") /\ Awake(Reactor) /\ (Boot \/ EventLoop \/ Cleanup(Reactor))

\* The kernel serves its ready list in turn: what keeps being ready gets reported.
Reported(f) == WaitEvents /\ f \in events'

Fairness ==
    /\ WF_vars(ReactorStep)
    /\ \A t \in Stoppers : WF_vars(Cleanup(t))
    /\ \A h \in Handlers : <>[][~CallStop(h)]_vars
    /\ \A f \in Fds : SF_vars(Reported(f))

FairSpec == Spec /\ Fairness
=============================================================================
