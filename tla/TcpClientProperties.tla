------------------------- MODULE TcpClientProperties -------------------------
(***************************************************************************)
(* What TcpClient promises, and what its documents promise for it.         *)
(***************************************************************************)
EXTENDS TcpClient

\* While the Worker uses the descriptors they denote its connection and a live epoll
\* instance: whoever disconnects joins the Worker before closing (tcp_client.cpp:43-60).
\* This holds if nobody disconnects before connect_to() has returned: a Worker whose
\* thread runs is not joinable until the assignment that follows (tcp_client.cpp:152, 47).
WorkerDescriptorsLive ==
    /\ pc[Worker] \in {"read", "callback"} => Handle(client_fd) \in Conns
    /\ At(Worker, "blocked") => Handle(epoll_fd) = "epoll" /\ Handle(client_fd) \in Conns

\* As long as the client is connected and its Worker is not reading, every byte or end
\* that waits in the connection has an edge left to wake the Worker
\* (tcp_client.cpp:139-146, 173-189), also between registration and the first wait.
NoLostEdge ==
    is_connected /\ pc[Worker] \in {"none", "loop", "wait", "blocked"}
        => \A f \in interest : Pending(fdt[f]) => f \in edge

\* send_data() reports SUCCESS only for a payload that went whole into one connection,
\* however the kernel split it, in a program whose one thread and data_cb send and
\* disconnect (tcp_client.cpp:213-229).  The disconnect() of another thread or of a handler
\* gives the number away under the loop, and bytes that go to the file that took it count.
SentWhole ==
    \A t \in Threads :
        At(t, "write") /\ bytes_left[t] = 0 => \E c \in Conns : wrote[t][c] = Payload

\* A descriptor the client opened stays in client_fd or epoll_fd until it is closed, on
\* every error path of connect_to() and through every disconnect(): none is orphaned.
NothingOrphaned ==
    \A f \in Fds : fdt[f] \in {"socket", "epoll"} \cup Conns => f \in {client_fd, epoll_fd}

\* The server has ended a link.
HasDropped == \E c \in Conns : eof[c] # "open"

\* A program that disconnects on one thread only, and not in data_cb, is terminated only if
\* the server ended a link: disconnect() joins the Worker on every other path to ~Impl and
\* to the next spawn (tcp_client.cpp:43-60, 66-68, 148-152).
TerminatedOnlyByDrop == crashed = "terminate" => HasDropped

\* The client reads, writes and closes only descriptors of its own, in a program whose one
\* thread and data_cb call it (docs/tuyul-tcp.md:151, "flawless RAII-backed descriptor
\* cleanup").
OwnDescriptorsOnly == ~foreign

\* A disconnect() that found the client connected returns, whatever the Worker is doing
\* (docs/tuyul-tcp.md:151, "within a few milliseconds"), unless the process dies, or the
\* server keeps the Worker reading for ever, or it never reads what data_cb sends it:
\* neither loop tests is_connected (tcp_client.cpp:173-189, 213-227).
DisconnectReturns ==
    \/ \A t \in Threads : At(t, "clearConn") ~> (At(t, back[t]) \/ ~Running)
    \/ []<><<Read>>_vars
    \/ <>[]At(Worker, "write")

\* connect_to() has ended, with an exception, and left a client that has no Worker.
Workerless == is_connected /\ At(Worker, "none") /\ ~At(Owner, "spawn")

\* While the client is connected, what waits in the connection keeps going to data_cb,
\* unless data_cb itself is stuck sending (tcp_client.cpp:173-189), or the Worker could not
\* be started: connect_to() sets is_connected before (tcp_client.cpp:148-152).  This is for
\* a program that does not connect again before the Worker is joined.
DataRead ==
    \/ \A c \in Conns : (phase[c] = "open" /\ inq[c] > 0 /\ is_connected)
                             ~> (inq[c] = 0 \/ At(Worker, "callback")
                                    \/ ~is_connected \/ Workerless \/ ~Running)
    \/ <>[]At(Worker, "write")

-----------------------------------------------------------------------------
\* What makes these properties inductive.

\* Where a thread is in connect_to() before it spawns, in shutdown_pipeline(), and past
\* join() in there; and where the Worker relies on the descriptors.
Connecting       == pc[Owner] \in {"socket", "link", "epoll", "register", "setconn"}
Closing(t)       == pc[t] \in {"closeE", "clearE", "closeC", "clearC"}
Joining(t)       == pc[t] \in {"join", "joining"}
Disconnecting(t) == At(t, "clearConn") \/ Joining(t) \/ Closing(t)
WorkerCalls      == pc[Worker] \in {"test", "clearConn", "sendTest", "write"}
Looping          == WorkerCalls \/ pc[Worker] \in {"wait", "blocked", "read", "callback", "dropped"}

\* Only a Disconnector or the Owner disconnects, only a Sender sends, and the Worker never
\* gets past join(): there it would wait for itself.
RolesKept ==
    /\ \A t \in Threads \ (Disconnectors \cup {Owner}) : ~At(t, "test") /\ ~Disconnecting(t)
    /\ \A t \in Threads \ Senders : pc[t] \notin {"sendTest", "write"}
    /\ Looping \/ pc[Worker] \in {"none", "loop", "exited", "join", "dead"}
    /\ WorkerCalls => back[Worker] = "read"

\* worker_thread is the Worker, or there is none, but between the start of a Worker and the
\* assignment that follows.
ThreadKept ==
    \/ worker_thread = "worker" \/ At(Owner, "spawn")
    \/ worker_thread = "none" /\ At(Worker, "none")
    \/ At(Owner, "dead") /\ At(Worker, "dead")

\* Nobody disconnects before connect_to() has returned, but a Worker of a former link.
NoneEarly ==
    /\ InConnect => \A t \in Threads \ {Worker} : ~At(t, "test") /\ ~Disconnecting(t)
    /\ InConnect /\ worker_thread # "worker" => ~At(Worker, "test") /\ ~Disconnecting(Worker)

\* Nobody disconnects while connect_to() executes, and from join() on the client is not
\* connected: the flag keeps the two apart.
DisconnectsApart ==
    /\ Connecting => ~is_connected /\ \A t \in Threads \ {Owner, Worker} : ~Disconnecting(t)
    /\ \A t \in Threads \ {Worker} : Joining(t) \/ Closing(t) => ~is_connected

\* What connect_to() has opened is there when it goes on.
ConnectInOrder ==
    /\ At(Owner, "link") => Handle(client_fd) = "socket"
    /\ pc[Owner] \in {"epoll", "register", "setconn"} => Handle(client_fd) \in Conns
    /\ pc[Owner] \in {"register", "setconn"} => Handle(epoll_fd) = "epoll"
    /\ At(Owner, "register") => interest = {}
    /\ At(Owner, "setconn") => interest = {client_fd}

\* As long as the client is connected or the Worker uses it, the descriptors are what
\* connect_to() made them, and nobody closes or replaces them.
Live ==
    /\ Handle(client_fd) \in Conns /\ Handle(epoll_fd) = "epoll" /\ interest = {client_fd}
    /\ ~Connecting /\ \A t \in Threads : ~Closing(t)
LiveWhileUsed == is_connected \/ Looping => Live

\* A Worker that has to stop is waited for.
WorkerAwaited ==
    Looping /\ ~is_connected => \E t \in Threads \ {Worker} : Joining(t)

\* The Worker's edge is there from the registration on, also for a Worker to be started.
Owed ==
    \/ At(Owner, "setconn")
    \/ is_connected /\ pc[Worker] \in {"none", "loop", "wait", "blocked"}
    \/ is_connected /\ At(Worker, "exited") /\ At(Owner, "spawn")
EdgeKept == Owed => (Pending(Handle(client_fd)) => client_fd \in edge)

\* What connect_to() and disconnect() keep to, also when one comes before the other has
\* returned, as long as data_cb does not disconnect then (tcp_client.cpp:43-60, 97-159).
OrderInv == RolesKept /\ ThreadKept /\ DisconnectsApart /\ ConnectInOrder
Orderly  == Worker \notin Disconnectors \/ ~Early

\* The invariant of the proofs, whoever connects, disconnects and sends, if nobody
\* disconnects before connect_to() has returned: connect_to(), the Worker and every
\* disconnect() keep out of each other's descriptors (tcp_client.cpp:43-60, 97-159,
\* 173-189).
ClientInv == OrderInv /\ NoneEarly /\ LiveWhileUsed /\ WorkerAwaited /\ EdgeKept

\* What was closed is forgotten before anything takes its place.
Mine == {"socket", "epoll"} \cup Conns
Forgotten ==
    \A t \in Threads :
        /\ pc[t] \in {"closeC", "clearC"} => epoll_fd = NoFd
        /\ At(t, "clearE") => Handle(epoll_fd) \notin Mine
        /\ At(t, "clearC") => Handle(client_fd) \notin Mine

\* connect_to() overwrites nothing.
CleanStart ==
    /\ pc[Owner] \in {"socket", "link", "epoll"} => epoll_fd = NoFd
    /\ At(Owner, "socket") => client_fd = NoFd
    /\ ~is_connected /\ ~Joinable /\ At(Worker, "none") /\ ~Connecting /\ (\A t \in Threads : ~Disconnecting(t))
          => client_fd = NoFd /\ epoll_fd = NoFd

\* The program has one thread of its own, and no signal handler calls the client.
OneThread == Senders \cup Disconnectors \subseteq {Owner, Worker}

\* A member denotes what the client opened until it is closed.
AllDead == \A t \in Threads : At(t, "dead")
MembersOwn ==
    ~AllDead =>
        /\ \/ client_fd = NoFd \/ Handle(client_fd) \in {"socket"} \cup Conns
           \/ \E t \in Threads : At(t, "clearC")
        /\ epoll_fd = NoFd \/ Handle(epoll_fd) = "epoll" \/ \E t \in Threads : At(t, "clearE")

\* A call writes to one connection: the one that client_fd denotes, while it denotes one.
WrittenTo(t, c) ==
    /\ wrote[t][c] + bytes_left[t] = Payload
    /\ \A d \in Conns \ {c} : wrote[t][d] = 0
    /\ Handle(client_fd) \in Conns => Handle(client_fd) = c
SentOnce ==
    \A t \in Senders : At(t, "write") =>
        \/ bytes_left[t] = Payload /\ wrote[t] = Nothing
        \/ \E c \in Conns : WrittenTo(t, c)

\* Unless the server has ended the link, a Worker that was spawned is joined by the
\* disconnect() that stops it.
JoinedOrDropped ==
    /\ Connecting \/ At(Owner, "spawn") => ~Joinable \/ HasDropped
    /\ At(Owner, "spawn") => is_connected \/ HasDropped
    /\ Joinable /\ ~is_connected => HasDropped \/ Joining(Owner) \/ At(Owner, "dead")
    /\ At(Worker, "dropped") => HasDropped
    /\ At(Owner, "dtor") => ~is_connected
    /\ pc[Owner] \in {"sendTest", "write"} => back[Owner] # "dtor"

\* What the proofs add for the programs the client is written for: one that does not
\* connect again before the Worker is joined, one with a single thread and data_cb, one
\* that disconnects on a single thread.
SessionInv ==
    /\ Orderly => Forgotten /\ (~Reconnects => CleanStart /\ NothingOrphaned)
    /\ OneThread /\ ~Early => MembersOwn /\ OwnDescriptorsOnly /\ SentOnce
    /\ Disconnectors \subseteq {Owner} /\ ~Early => JoinedOrDropped /\ TerminatedOnlyByDrop

-----------------------------------------------------------------------------
\* Promises of the documents that the code does not keep.

\* No legal sequence of calls ends the process: ErrorCode exists for "avoiding throwing
\* raw C++ exceptions" (error_code.hpp:8), and the destructor ensures "graceful closure
\* of client socket connections" (tcp_client.hpp:22).
NeverTerminates == crashed # "terminate"

\* A connection the server has closed makes send_data() return READ_FAILED: "fault
\* encountered while executing payload write/send" (docs/tuyul-tcp.md:50).
SendSurvives == crashed # "SIGPIPE"
=============================================================================
