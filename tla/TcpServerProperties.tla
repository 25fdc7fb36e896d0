------------------------- MODULE TcpServerProperties -------------------------
(***************************************************************************)
(* What TcpServer promises, and what its documents promise for it.         *)
(***************************************************************************)
EXTENDS TcpServer

\* The Reactor is in the read loop of cur, or in a stop() that data_cb called there.
Reading == pc[Reactor] \in {"read", "drop"} \/ ret = "read"

\* Edge-triggered reading never strands input: a registered connection with bytes
\* or an end to read has an edge the kernel still holds, an event in the batch, or
\* is being read right now (the drain loop, tcp_server.cpp:218-241).
NoLostEdge ==
    \A f \in interest :
        Pending(fdt[f]) => f \in edge \cup events \/ (f = cur /\ Reading)

\* c is closed only when it has ended and was read to its end, or was never registered.
ClosedForCause(c) ==
    phase[c] = "open" /\ phase'[c] = "closed"
        => \/ inq[c] = 0 /\ eof[c] # "open"
           \/ At(Reactor, "add") /\ fdt[newfd] = c

\* start() closes a connection only when the peer has ended it and every byte that
\* came before the end was handed to data_cb, or when it could not register it
\* (tcp_server.cpp:199-210 and 227-247), whatever numbers other threads close.
LiveConnectionKept == [][\A c \in Conns : ClosedForCause(c)]_vars

\* No accepted connection is held open outside the epoll set, where nothing would
\* ever read or close it (tcp_server.cpp:199-213).
ConnectionsWatched ==
    \A f \in Fds : fdt[f] \in Conns => f \in interest \/ (f = newfd /\ At(Reactor, "add"))

\* When no call is in progress the server owns no descriptor: every way out of
\* start(), and every stop(), leaves neither listener nor epoll instance behind,
\* so that the next start() can bind the port again (tcp_server.cpp:45-56, 252).
NothingLeftOpen ==
    (\A t \in Threads : At(t, "idle"))
        => \A f \in Fds : fdt[f] \notin {"socket", "listener", "epoll"}

\* cleanup() closes no number that the rest of the process was given since: the second
\* of two calls, one in a signal handler and one at the end of start() or wherever the
\* signal came, finds epoll_fd and server_fd reset (tcp_server.cpp:45-56, 252).
NoDoubleClose ==
    \A t \in Threads :
        /\ At(t, "closeE") /\ Awake(t) => Handle(epoll_fd) # "other"
        /\ At(t, "closeS") /\ Awake(t) => Handle(server_fd) # "other"

-----------------------------------------------------------------------------
\* The server as its connections see it.  One that accept() returned is not served
\* before it is registered.
Life(c) ==
    IF phase[c] # "open" THEN phase[c]
    ELSE IF At(Reactor, "add") /\ Handle(newfd) = c THEN "accepted" ELSE "served"

Service ==
    INSTANCE ConnectionService WITH
        life   <- [c \in Conns |-> Life(c)],
        unread <- inq,
        ended  <- [c \in Conns |-> eof[c] # "open"]

\* start() and any stop() beside it, in data_cb or in a signal handler never close a
\* connection early, skip a byte or bring a connection back
\* (tcp_server.cpp:184-248 against 45-56).
ServesConnections == Service!Spec

\* One peer holds the Reactor for ever: its bytes come as fast as they are read, and the
\* read loop of its connection does not end before EAGAIN (tcp_server.cpp:219-241).
HeldElsewhere(c) == At(Reactor, "read") /\ Handle(cur) # c

\* accept4() fails with EMFILE while c waits in the queue: the process has no descriptor
\* left, whatever epoll_wait reported (tcp_server.cpp:189-197).
TableFull(c) == Accept /\ phase[c] = "queued" /\ Lowest = {}

\* A server that nobody stops accepts every connection, delivers each of its bytes and closes
\* it after its end, unless another peer never lets the Reactor out of its read loop, or
\* accept4() meets a full table again and again: no batch, no accept loop and no order
\* in which input and ends arrive starves it otherwise (tcp_server.cpp:153-250).
AttendsConnections ==
    \A c \in Conns :
        Service!Attended(c) \/ <>[]HeldElsewhere(c) \/ []<><<TableFull(c)>>_vars

-----------------------------------------------------------------------------

-----------------------------------------------------------------------------
\* What makes NoLostEdge, LiveConnectionKept and ServesConnections inductive.

\* Only numbers that denote a connection or the listener are registered.
InterestOpen == \A f \in interest : fdt[f] \in Conns \cup {"listener"}

\* An accepted number still denotes its connection as long as it can be registered.
AcceptedOpen ==
    At(Reactor, "add") /\ Handle(epoll_fd) = "epoll" => Handle(newfd) \in Conns

\* server_fd never denotes a connection; epoll_fd does only when stop() has closed it
\* and the number came back from accept, where registering it then fails.
MembersNotConns ==
    /\ Handle(server_fd) \notin Conns
    /\ Handle(epoll_fd) \in Conns => At(Reactor, "add") /\ newfd = epoll_fd

\* A connection that a number denotes is open, and has that number only.
OneNumberEach ==
    \A f \in Fds : fdt[f] \in Conns =>
        phase[fdt[f]] = "open" /\ \A g \in Fds : fdt[g] = fdt[f] => g = f

\* ret and events are in use only where the Reactor needs them.
InCallback  == ret = "read" => pc[Reactor] \in {"stop"} \cup CleanupLabels
BatchInLoop ==
    events # {} => ret = "read" \/ pc[Reactor] \in {"batch", "accept", "add", "read", "drop"}

\* What is about to be dropped has ended.
DropEnded == At(Reactor, "drop") /\ Handle(cur) \in Conns => Ended(Handle(cur))

\* The invariant of the proofs: whatever stop() calls interleave with start(), the
\* event loop keeps its edges and its descriptors (tcp_server.cpp:153-250).
ServerInv ==
    /\ NoLostEdge /\ InterestOpen /\ AcceptedOpen /\ MembersNotConns
    /\ OneNumberEach /\ InCallback /\ BatchInLoop /\ DropEnded

-----------------------------------------------------------------------------
\* What makes NothingLeftOpen inductive.

\* Where start() is before its loop, and what it opens for itself.
Booting == pc[Reactor] \in BootLabels
Mine    == {"socket", "listener", "epoll"}

\* With no start() beside a stop(), no stop() gets past its test while start() boots.
BootApart ==
    /\ Booting => \A t \in Stoppers : pc[t] \notin CleanupLabels
    /\ Booting \/ At(Reactor, "idle") => ~is_running

\* cleanup() forgets what it closed, and nothing takes its place before start() is
\* called again: every descriptor of the server stays in server_fd or epoll_fd.
Forgotten ==
    /\ At(Reactor, "stop") => ret = "read"
    /\ At(Reactor, "idle") => server_fd = NoFd
    /\ pc[Reactor] \in {"idle", "config", "epoll"} => epoll_fd = NoFd
    /\ \A t \in Threads :
          /\ At(t, "clearE") => Handle(epoll_fd) \notin Mine
          /\ At(t, "clearS") => Handle(server_fd) \notin Mine
          /\ pc[t] \in {"closeS", "clearS", "clearRun"} => epoll_fd = NoFd
          /\ At(t, "clearRun") => server_fd = NoFd
Accounted == \A f \in Fds : fdt[f] \in Mine => f \in {server_fd, epoll_fd}

\* The invariant of the proofs when start() and stop() take turns
\* (tcp_server.cpp:45-56, 88-151, 252).
CleanInv == Serial => BootApart /\ Forgotten /\ Accounted

-----------------------------------------------------------------------------
\* What makes NoDoubleClose and ConnectionsWatched inductive.

\* stop() is called in one signal handler at most, and nowhere else.
SignalsOnly ==
    Stoppers \subseteq Handlers /\ ~CallbackStops /\ \A g, h \in Stoppers : g = h

\* The handler gets past its test only as long as start() is in its loop, which then stands
\* still: cleanup() in the handler runs before that of start().
OneCleanup ==
    /\ ret = "idle" /\ ~At(Reactor, "stop")
    /\ pc[Reactor] \notin LoopLabels =>
          ~is_running /\ \A h \in Stoppers : pc[h] \notin CleanupLabels

\* A member denotes what start() opened until it is closed, and is reset then.
MembersOwn ==
    /\ epoll_fd = NoFd \/ Handle(epoll_fd) = "epoll" \/ \E t \in Threads : At(t, "clearE")
    /\ \/ server_fd = NoFd \/ Handle(server_fd) \in {"socket", "listener"}
       \/ \E t \in Threads : At(t, "clearS")
    /\ \A t \in Threads : pc[t] \in {"closeS", "clearS", "clearRun"} => epoll_fd = NoFd
    /\ \A t \in Threads : At(t, "clearRun") => server_fd = NoFd
    /\ At(Reactor, "setrun") => server_fd # NoFd /\ epoll_fd # NoFd

\* What start() is about to read or close is a connection, unless the handler has closed
\* the epoll instance.
BatchCurrent ==
    pc[Reactor] \in LoopLabels /\ (\A h \in Stoppers : pc[h] \notin CleanupLabels) =>
        \/ server_fd = NoFd /\ epoll_fd = NoFd /\ ~is_running
        \/ /\ server_fd # NoFd /\ epoll_fd # NoFd /\ events \subseteq interest
           /\ pc[Reactor] \in {"read", "drop"} => cur \in interest \ (events \cup {server_fd})
           /\ At(Reactor, "add") => Handle(newfd) \in Conns /\ newfd \notin interest

\* A server that nobody stops stays in its loop, and there are no connections before it.
Unstopped ==
    Stoppers = {} =>
        /\ pc[Reactor] \in LoopLabels => is_running
        /\ pc[Reactor] \notin LoopLabels => \A f \in Fds : fdt[f] \notin Conns
        /\ ConnectionsWatched

\* The invariant of the proofs when only a handler stops the server
\* (tcp_server.cpp:45-56, 153-252).
SignalInv == SignalsOnly => OneCleanup /\ MembersOwn /\ BatchCurrent /\ Unstopped

-----------------------------------------------------------------------------
\* Promises of the documents that the code does not keep.

\* The server reads and closes only descriptors it opened, whatever other code is given
\* the numbers it has closed: "flawless RAII-backed descriptor cleanup"
\* (docs/tuyul-tcp.md:151).
OwnDescriptorsOnly == ~foreign

\* Any stop() issued while start() executes makes it return: "calling stop() ...
\* from any concurrent thread context" (docs/tuyul-tcp.md:151).
StopNeverLost ==
    \A t \in Stoppers : (At(t, "stop") /\ ~At(Reactor, "idle")) ~> At(Reactor, "idle")
=============================================================================
