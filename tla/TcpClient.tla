------------------------------ MODULE TcpClient ------------------------------
(***************************************************************************)
(* tuyul::TcpClient.  connect_to() spawns a thread, the Worker, to read    *)
(* what the server sends; this and other threads call send_data() and      *)
(* disconnect().  As in TcpServer nothing protects the members of Impl,    *)
(* so a step is one statement that touches them.                           *)
(***************************************************************************)
EXTENDS Sockets

CONSTANTS
    Owner, Worker,           \* the thread that connects and destroys, the one spawned
    Senders, Disconnectors,  \* the threads that call send_data() and disconnect();
                             \* for the Worker these are calls from data_cb
    Handlers,                \* the Disconnectors that are signal handlers, on top of
                             \* the Owner's stack
    Payload, SndBuf,         \* bytes of a payload, and of the kernel's send queue
    Reconnects,              \* TRUE: connect_to() again before the Worker is joined
    Early,                   \* TRUE: disconnect() while connect_to() executes
    Destroys                 \* TRUE: the Owner may destroy the client

Threads == {Owner, Worker} \cup Senders \cup Disconnectors

ASSUME ClientAssumption ==
    /\ Owner # Worker /\ Handlers \subseteq Disconnectors \ {Owner, Worker}
    /\ Payload \in Nat \ {0} /\ SndBuf \in Nat \ {0}
    /\ Reconnects \in BOOLEAN /\ Early \in BOOLEAN /\ Destroys \in BOOLEAN

VARIABLES
    client_fd, epoll_fd, is_connected,   \* the members of Impl; worker_thread holds no
    worker_thread,                       \* thread, the Worker, or one that has ended
    pc, back,                            \* per thread, and where its call returns to
    bytes_left, wrote,                   \* per thread in send_data(): bytes to write, and
                                         \* bytes this call wrote to each connection
    outq,                                \* per connection: the kernel's send queue
    crashed                              \* how the process died, if it did

obj    == <<client_fd, epoll_fd, is_connected>>
stream == <<bytes_left, wrote, outq>>
vars   == <<kernel, obj, worker_thread, pc, back, stream, crashed>>
Quiet  == UNCHANGED <<kernel, obj>>

Labels ==
    {"idle", "test", "dtor", "gone", "sendTest", "write", "dead"}
    \cup {"socket", "link", "epoll", "register", "setconn", "spawn"}
    \cup {"clearConn", "join", "joining", "closeE", "clearE", "closeC", "clearC"}
    \cup {"none", "loop", "wait", "blocked", "read", "callback", "dropped", "exited"}

Nothing == [c \in Conns |-> 0]

TypeOK ==
    /\ SocketsTypeOK
    /\ client_fd \in Fds \cup {NoFd} /\ epoll_fd \in Fds \cup {NoFd}
    /\ is_connected \in BOOLEAN /\ worker_thread \in {"none", "worker", "ended"}
    /\ pc \in [Threads -> Labels] /\ back \in [Threads -> {"idle", "dtor", "read"}]
    /\ bytes_left \in [Threads -> 0..Payload]
    /\ wrote \in [Threads -> [Conns -> 0..Payload]]
    /\ outq \in [Conns -> 0..SndBuf]
    /\ crashed \in {"no", "terminate", "exception", "SIGPIPE"}

Init ==
    /\ SocketsInit
    /\ client_fd = NoFd /\ epoll_fd = NoFd /\ is_connected = FALSE
    /\ worker_thread = "none"
    /\ pc = [t \in Threads |-> IF t = Worker THEN "none" ELSE "idle"]
    /\ back = [t \in Threads |-> "idle"]
    /\ bytes_left = [t \in Threads |-> 0] /\ wrote = [t \in Threads |-> Nothing]
    /\ outq = Nothing /\ crashed = "no"

At(t, label)   == pc[t] = label
Goto(t, label) == pc' = [pc EXCEPT ![t] = label]
Step(t, label) == Goto(t, label) /\ UNCHANGED <<worker_thread, back, stream, crashed>>
Return(t)      == Step(t, back[t])

Crash(how) ==
    /\ crashed' = how /\ pc' = [t \in Threads |-> "dead"]
    /\ UNCHANGED <<worker_thread, back, stream>>

Awake(t)       == t = Owner => \A h \in Handlers : At(h, "idle")

\* A thread may make a call: the object is not being destroyed, or it is in data_cb.
Free(t) == ((At(t, "idle") /\ back[Owner] # "dtor") \/ At(t, "callback")) /\ Awake(t)

\* Thread t calls a function, which starts at label, and will go on at next.
Call(t, label, next) ==
    /\ Free(t) /\ Goto(t, label) /\ back' = [back EXCEPT ![t] = next]
    /\ Quiet /\ UNCHANGED <<worker_thread, stream, crashed>>

\* worker_thread.joinable(): assigned and not joined yet, whether it still runs or not.
Joinable == worker_thread # "none"

-----------------------------------------------------------------------------
\* connect_to(), on the Owner.  It returns at once when connected or when the name does
\* not resolve, and is not called while a disconnect() of another thread executes.
Connect ==
    /\ Free(Owner) /\ ~is_connected /\ (Reconnects \/ ~Joinable)
    /\ \A t \in Disconnectors \ {Owner, Worker} : At(t, "idle")
    /\ Step(Owner, "socket") /\ Quiet

Socket ==
    /\ At(Owner, "socket")
    /\ \/ \E f \in Lowest : client_fd' = f /\ Install(f, "socket") /\ Step(Owner, "link")
       \/ client_fd' = NoFd /\ UNCHANGED fdt /\ Step(Owner, "idle")
    /\ UNCHANGED <<epoll_fd, is_connected, epoll, wire, foreign>>

NoCleanup   == Step(Owner, "idle")         \* mutant: an error path without cleanup
FailConnect == Step(Owner, "clearConn")    \* shutdown_pipeline(), then an error code

Link ==           \* connect() and O_NONBLOCK; a refused socket is closed and forgotten
    /\ At(Owner, "link")
    /\ \/ /\ \E c \in Conns :
                /\ phase[c] = "idle" /\ phase' = [phase EXCEPT ![c] = "open"]
                /\ Handle(client_fd) = "socket" /\ Install(client_fd, c)
          /\ Step(Owner, "epoll") \/ FailConnect
          /\ UNCHANGED <<client_fd, epoll, inq, eof, left, foreign>>
       \/ Close(client_fd) /\ client_fd' = NoFd /\ Step(Owner, "idle")
    /\ UNCHANGED <<epoll_fd, is_connected>>

EpollCreate ==
    /\ At(Owner, "epoll")
    /\ \/ \E f \in Lowest :
             /\ epoll_fd' = f /\ Install(f, "epoll")
             /\ interest' = {} /\ edge' = {} /\ Step(Owner, "register")
       \/ epoll_fd' = NoFd /\ UNCHANGED <<fdt, epoll>> /\ FailConnect
    /\ UNCHANGED <<client_fd, is_connected, wire, foreign>>

Register ==
    /\ At(Owner, "register")
    /\ \/ /\ Handle(epoll_fd) = "epoll" /\ Handle(client_fd) # "free"
          /\ Watch(client_fd) /\ Step(Owner, "setconn")
       \/ FailConnect /\ UNCHANGED epoll
    /\ UNCHANGED <<obj, fdt, wire, foreign>>

SetConnected ==
    /\ At(Owner, "setconn") /\ Step(Owner, "spawn")
    /\ is_connected' = TRUE /\ UNCHANGED <<client_fd, epoll_fd, kernel>>

\* worker_thread = std::thread(...).  The constructor of the temporary starts a thread,
\* which may run before the assignment makes it the member's.  A new Worker starts after
\* the last step of the one before.
Started == worker_thread = "ended" \/ (worker_thread = "none" /\ ~At(Worker, "none"))

Start ==
    /\ At(Owner, "spawn") /\ ~Started /\ pc[Worker] \in {"none", "exited"}
    /\ Goto(Worker, "loop") /\ worker_thread' = IF Joinable THEN "ended" ELSE "none"
    /\ Quiet /\ UNCHANGED <<back, stream, crashed>>

ThreadFails ==    \* the constructor throws; the caller catches that, or dies of it
    /\ At(Owner, "spawn") /\ ~Started /\ Quiet
    /\ Step(Owner, "idle") \/ Crash("exception")

Spawn ==          \* assigning to a joinable std::thread terminates
    /\ At(Owner, "spawn") /\ Quiet
    /\ \/ Joinable /\ Crash("terminate")
       \/ /\ ~Joinable /\ worker_thread' = "worker"
          /\ pc' = [pc EXCEPT ![Owner] = "idle", ![Worker] = IF Started THEN @ ELSE "loop"]
          /\ UNCHANGED <<back, stream, crashed>>

-----------------------------------------------------------------------------
\* The Worker's loop; its epoll instance holds one descriptor, so a batch is one event.

LoopTest ==
    At(Worker, "loop") /\ Step(Worker, IF is_connected THEN "wait" ELSE "exited") /\ Quiet

EpollWait ==
    /\ At(Worker, "wait") /\ Quiet
    /\ Step(Worker, IF Handle(epoll_fd) = "epoll" THEN "blocked" ELSE "exited")

WaitForever == FALSE       \* mutant: epoll_wait with no timeout
TimeoutBreaks ==           \* mutant: a timeout taken for an error, which ends the loop
    At(Worker, "blocked") /\ Ready = {} /\ Step(Worker, "exited") /\ Quiet
WaitTimeout == At(Worker, "blocked") /\ Ready = {} /\ Step(Worker, "loop") /\ Quiet

WaitEvent ==
    /\ At(Worker, "blocked") /\ Step(Worker, "read")
    /\ \E f \in Ready : edge' = edge \ {f}
    /\ UNCHANGED <<obj, fdt, interest, wire, foreign>>

ReadOnce == Step(Worker, "loop")     \* mutant: one read per event
ReadOn   == Step(Worker, "read")     \* EPOLLET: read until EAGAIN

Read ==
    /\ At(Worker, "read") /\ Step(Worker, "callback")
    /\ \E c \in Conns :
          /\ c = Handle(client_fd) /\ inq[c] > 0
          /\ inq' = [inq EXCEPT ![c] = @ - Chunk(c)]
    /\ UNCHANGED <<obj, fdt, epoll, phase, eof, left, foreign>>

Callback ==       \* data_cb returns; it may have called disconnect() or send_data()
    At(Worker, "callback") /\ ReadOn /\ Quiet

ReadAgain ==      \* EAGAIN
    /\ At(Worker, "read") /\ Step(Worker, "loop") /\ Quiet
    /\ Handle(client_fd) \in Conns /\ ~Pending(Handle(client_fd))

ReadEnd ==        \* 0, ECONNRESET or EBADF
    /\ At(Worker, "read") /\ Step(Worker, "dropped") /\ Quiet
    /\ LET h == Handle(client_fd) IN
          h # "other" /\ (h \in Conns => inq[h] = 0 /\ eof[h] # "open")

ReadForeign ==    \* a number that other code was given reads as that file does
    /\ At(Worker, "read") /\ Handle(client_fd) = "other" /\ foreign' = TRUE
    /\ \E label \in {"callback", "loop", "dropped"} : Step(Worker, label)
    /\ UNCHANGED <<obj, fdt, epoll, wire>>

Dropped ==        \* the Worker ends; nobody closes or joins here
    /\ At(Worker, "dropped") /\ Step(Worker, "loop")
    /\ is_connected' = FALSE /\ UNCHANGED <<client_fd, epoll_fd, kernel>>

-----------------------------------------------------------------------------
\* disconnect(), shutdown_pipeline() and the destructor.

InConnect == pc[Owner] \in {"socket", "link", "epoll", "register", "setconn", "spawn"}

CallDisconnect(t) ==
    (Early \/ ~InConnect) /\ Call(t, "test", IF t = Worker THEN "read" ELSE "idle")

Destroy ==        \* no call of another thread is in progress, and none follows
    /\ Destroys /\ \A t \in Threads \ {Worker} : At(t, "idle")
    /\ Call(Owner, "test", "dtor")

Destruct ==       \* ~Impl(): destroying a joinable std::thread terminates
    /\ At(Owner, "dtor") /\ Quiet
    /\ IF Joinable THEN Crash("terminate") ELSE Step(Owner, "gone")

ConnectedTest(t) ==
    /\ At(t, "test") /\ Quiet
    /\ IF is_connected THEN Step(t, "clearConn") ELSE Return(t)

ClearConnected(t) ==
    /\ At(t, "clearConn") /\ Step(t, "join")
    /\ is_connected' = FALSE /\ UNCHANGED <<client_fd, epoll_fd, kernel>>

\* join() throws in the Worker itself (EDEADLK) and beside another join() (EINVAL), and
\* nobody catches it.
Refused(t) ==
    (t = Worker /\ worker_thread = "worker") \/ \E u \in Threads : At(u, "joining")

NoJoin(t) == At(t, "join") /\ Step(t, "closeE") /\ Quiet    \* mutant: no join()
Join(t) ==
    /\ At(t, "join") /\ Quiet
    /\ IF ~Joinable THEN Step(t, "closeE")
       ELSE IF Refused(t) THEN Crash("terminate") ELSE Step(t, "joining")

Joined(t) ==
    /\ At(t, "joining") /\ (worker_thread = "ended" \/ At(Worker, "exited"))
    /\ pc' = [pc EXCEPT ![Worker] = IF worker_thread = "worker" THEN "none" ELSE @,
                        ![t] = "closeE"]
    /\ worker_thread' = "none" /\ Quiet /\ UNCHANGED <<back, stream, crashed>>

\* if (fd >= 0) close(fd), then to label; otherwise on to next.
CloseMember(t, fd, label, next) ==
    /\ IF fd >= 0 THEN Close(fd) /\ Step(t, label) ELSE Step(t, next) /\ UNCHANGED kernel
    /\ UNCHANGED obj

CloseEpoll(t)  == At(t, "closeE") /\ CloseMember(t, epoll_fd, "clearE", "closeC")
CloseClient(t) == At(t, "closeC") /\ CloseMember(t, client_fd, "clearC", back[t])

KeepEpollFd(t) ==    \* mutant: close without epoll_fd = -1
    At(t, "clearE") /\ Step(t, "closeC") /\ Quiet
ClearEpoll(t) ==
    /\ At(t, "clearE") /\ Step(t, "closeC")
    /\ epoll_fd' = NoFd /\ UNCHANGED <<client_fd, is_connected, kernel>>

ClearClient(t) ==
    /\ At(t, "clearC") /\ Return(t)
    /\ client_fd' = NoFd /\ UNCHANGED <<epoll_fd, is_connected, kernel>>

-----------------------------------------------------------------------------
\* send_data().

CallSend(t) == Call(t, "sendTest", IF t = Worker THEN "read" ELSE "idle")

SendTest(t) ==    \* READ_FAILED without a connection
    /\ At(t, "sendTest") /\ Quiet
    /\ IF is_connected /\ client_fd >= 0
       THEN /\ Goto(t, "write") /\ bytes_left' = [bytes_left EXCEPT ![t] = Payload]
            /\ UNCHANGED <<worker_thread, back, wrote, outq, crashed>>
       ELSE Return(t)

ForgetRest(n, k) == 0            \* mutant: a partial write taken for a whole one
Remaining(n, k)  == n - k

\* write() takes k bytes, as many as fit or fewer.  When none fits, EAGAIN, a sleep and
\* another try change nothing.
Write(t) ==
    /\ At(t, "write")
    /\ \E c \in Conns, k \in 1..bytes_left[t] :
          /\ c = Handle(client_fd) /\ eof[c] # "rst" /\ outq[c] + k <= SndBuf
          /\ outq' = [outq EXCEPT ![c] = @ + k]
          /\ wrote' = [wrote EXCEPT ![t][c] = @ + k]
          /\ bytes_left' = [bytes_left EXCEPT ![t] = Remaining(@, k)]
    /\ Quiet /\ UNCHANGED <<worker_thread, pc, back, crashed>>

\* ENOTCONN, ECONNRESET or EPIPE, EBADF.
Fails(h) == h \in Kinds \ {"other"} \/ (h \in Conns /\ eof[h] # "open")

ReturnSent(t) ==
    /\ Goto(t, back[t])
    /\ bytes_left' = [bytes_left EXCEPT ![t] = 0] /\ wrote' = [wrote EXCEPT ![t] = Nothing]

SendEnd(t) ==     \* SUCCESS once all is written, READ_FAILED for an error
    /\ At(t, "write") /\ (bytes_left[t] = 0 \/ Fails(Handle(client_fd)))
    /\ ReturnSent(t)
    /\ Quiet /\ UNCHANGED <<worker_thread, back, outq, crashed>>

\* A number that other code was given fails, or takes bytes as that file does: they count.
WriteForeign(t) ==
    /\ At(t, "write") /\ Handle(client_fd) = "other" /\ bytes_left[t] > 0
    /\ \/ ReturnSent(t) /\ UNCHANGED <<worker_thread, back, outq, crashed>>
       \/ /\ \E k \in 1..bytes_left[t] :
                 bytes_left' = [bytes_left EXCEPT ![t] = Remaining(@, k)]
          /\ UNCHANGED <<worker_thread, pc, back, wrote, outq, crashed>>
       \/ Crash("SIGPIPE")
    /\ foreign' = TRUE /\ UNCHANGED <<obj, fdt, epoll, wire>>

BrokenPipe(t) ==  \* EPIPE raises SIGPIPE first, which nothing in the process ignores
    /\ At(t, "write") /\ bytes_left[t] > 0
    /\ Fails(Handle(client_fd)) /\ Handle(client_fd) \in Conns \cup {"socket"}
    /\ Crash("SIGPIPE") /\ Quiet

-----------------------------------------------------------------------------
PeerRecv(c) ==
    /\ outq[c] > 0 /\ outq' = [outq EXCEPT ![c] = @ - 1]
    /\ UNCHANGED <<kernel, bytes_left, wrote>>

Running == crashed = "no"

Environment ==
    /\ Running
    /\ (Outside /\ UNCHANGED stream) \/ \E c \in Conns : PeerRecv(c)
    /\ UNCHANGED <<obj, worker_thread, pc, back, crashed>>

ConnectStep == Socket \/ Link \/ EpollCreate \/ Register \/ SetConnected \/ Spawn

WorkerStep ==
    \/ Start \/ LoopTest \/ EpollWait \/ WaitTimeout \/ WaitEvent
    \/ Read \/ Callback \/ ReadAgain \/ ReadEnd \/ Dropped

CallStep(t) ==
    \/ ConnectedTest(t) \/ ClearConnected(t) \/ Join(t) \/ Joined(t)
    \/ CloseEpoll(t) \/ ClearEpoll(t) \/ CloseClient(t) \/ ClearClient(t)
    \/ SendTest(t) \/ Write(t) \/ SendEnd(t) \/ BrokenPipe(t)

\* Nothing is known of the files of other code: these steps may also never happen.
ForeignStep == ReadForeign \/ \E t \in Threads : Awake(t) /\ WriteForeign(t)

OwnerStep == Awake(Owner) /\ (ConnectStep \/ ThreadFails \/ Destruct)

Calls ==           \* the process that holds the client
    \/ Connect \/ OwnerStep \/ WorkerStep \/ ForeignStep \/ Destroy
    \/ \E t \in Threads : Awake(t) /\ CallStep(t)
    \/ \E t \in Disconnectors : CallDisconnect(t)
    \/ \E t \in Senders : CallSend(t)

Next == Calls \/ Environment

Spec == Init /\ [][Next]_vars

\* The scheduler runs every thread that can run, and epoll_wait returns, at the latest
\* at its timeout.  Nobody has to make a call, the peer need not read or send, and
\* signals cease in the end.
Fairness ==
    /\ WF_vars(OwnerStep) /\ WF_vars(WorkerStep)
    /\ \A t \in Threads : WF_vars(Awake(t) /\ CallStep(t))
    /\ \A h \in Handlers : <>[][~CallDisconnect(h)]_vars

FairSpec == Spec /\ Fairness
=============================================================================
