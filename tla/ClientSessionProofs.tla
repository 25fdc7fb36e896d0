------------------------- MODULE ClientSessionProofs -------------------------
(***************************************************************************)
(* SessionInv, proved on top of ClientInv: what the client promises to the *)
(* programs that it is written for.                                        *)
(***************************************************************************)
EXTENDS ClientInvProofs

USE SocketsAssumption, ClientAssumption

\* -1 is no descriptor, and no two kinds of handle are confused.
LEMMA Handles ==
    /\ NoFd \notin Fds /\ Handle(NoFd) = "free" /\ Handle(NoFd)' = "free"
    /\ ~(NoFd >= 0) /\ \A f \in Fds : f >= 0
    /\ {"free", "socket", "listener", "epoll", "other"} \cap Conns = {}
  BY DEF NoFd, Handle, Kinds

\* A close leaves its number free and every other as it was.
LEMMA CloseHandle ==
    ASSUME TypeOK, NEW n, Close(n)
    PROVE  /\ \A m : Handle(m)' = IF m = n THEN "free" ELSE Handle(m)
           /\ foreign' = (foreign \/ Handle(n) = "other") /\ UNCHANGED eof
  BY DEF Close, Handle, TypeOK, SocketsTypeOK

\* connect_to() works alone until it spawns: nobody closes.
LEMMA Alone ==
    ASSUME TypeOK, OrderInv, Connecting
    PROVE  ~is_connected /\ \A t \in Threads : ~Closing(t)
  BY ConnectingAlone DEF OrderInv, DisconnectsApart

\* Past join() a thread is not the Worker, and the client is not connected.
LEMMA ClosingApart ==
    ASSUME TypeOK, OrderInv, NEW t \in Threads, Closing(t)
    PROVE  ~Connecting /\ ~is_connected /\ t # Worker
<1>1. ~Connecting
  BY ConnectingAlone DEF OrderInv
<1>2. t # Worker
  BY DEF OrderInv, RolesKept, Looping, WorkerCalls, Closing
<1>3. ~is_connected
  BY <1>2 DEF OrderInv, DisconnectsApart
<1> QED
  BY <1>1, <1>2, <1>3

\* The steps that neither open nor close, nor reset a member.
LEMMA Steady ==
    ASSUME TypeOK, OrderInv, [Next]_vars, ~(Connecting /\ ConnectStep),
           \A t \in Threads : ~(CallStep(t) /\ Closing(t))
    PROVE  /\ UNCHANGED <<client_fd, epoll_fd>>
           /\ \A n : Handle(n) \in Mine => Handle(n)' = Handle(n)
           /\ \A n : Handle(n)' \in Mine => Handle(n)' = Handle(n)
<1> USE DEF Mine
<1>1. ASSUME UNCHANGED <<fdt, client_fd, epoll_fd>>
      PROVE  /\ UNCHANGED <<client_fd, epoll_fd>>
             /\ \A n : Handle(n) \in Mine => Handle(n)' = Handle(n)
             /\ \A n : Handle(n)' \in Mine => Handle(n)' = Handle(n)
  BY <1>1 DEF Handle
<1>2. CASE Connect \/ Destroy \/ Destruct \/ Spawn \/ ThreadFails
  BY <1>1, <1>2 DEF Connect, Destroy, Destruct, Spawn, ThreadFails, Call, Quiet, kernel, obj
<1>3. CASE WorkerStep
  BY <1>1, <1>3 DEF WorkerStep, Start, LoopTest, EpollWait, WaitTimeout, WaitEvent, Read, Callback, ReadOn,
                    ReadAgain, ReadEnd, Dropped, Quiet, kernel, obj
<1>4. CASE \/ \E t \in Disconnectors : CallDisconnect(t)
           \/ \E t \in Senders : CallSend(t)
  BY <1>1, <1>4, CallStarts DEF OrderInv, kernel, obj
<1>5. ASSUME NEW t \in Threads, CallStep(t), ~Closing(t)
      PROVE  UNCHANGED <<fdt, client_fd, epoll_fd>>
  BY <1>5 DEF Closing, CallStep, ConnectedTest, ClearConnected, Join, Joined, CloseEpoll, ClearEpoll,
              CloseClient, ClearClient, SendTest, Write, SendEnd, ReturnSent, BrokenPipe, At, Quiet, kernel, obj
<1>6. CASE Environment
  <2>1. CASE Outside
    BY <1>6, <2>1, OutsideKeeps DEF Environment, obj
  <2>2. CASE \E c \in Conns : PeerRecv(c)
    BY <1>1, <1>6, <2>2 DEF Environment, PeerRecv, obj, kernel
  <2> QED
    BY <1>6, <2>1, <2>2 DEF Environment
<1>7. CASE UNCHANGED vars
  BY <1>1, <1>7 DEF vars, obj, kernel
<1>8. CASE Socket \/ Link \/ EpollCreate \/ Register \/ SetConnected
  BY <1>8 DEF Socket, Link, EpollCreate, Register, SetConnected, ConnectStep, Connecting, At
<1>9. CASE ForeignStep
  BY <1>1, <1>9 DEF ForeignStep, ReadForeign, WriteForeign, obj
<1> QED
  BY <1>1, <1>2, <1>3, <1>4, <1>5, <1>6, <1>7, <1>8, <1>9 DEF Next, Calls, OwnerStep, ConnectStep

\* A thread gets to the labels behind close() only by closing.
LEMMA Enters ==
    ASSUME TypeOK, OrderInv, [Next]_vars, NEW t \in Threads, ~(CallStep(t) /\ Closing(t))
    PROVE  /\ pc'[t] \in {"clearE", "closeC", "clearC"} => pc'[t] = pc[t]
           /\ Closing(t)' => Closing(t) \/ (CallStep(t) /\ Joining(t))
<1> USE DEF TypeOK, Closing, Joining, At, Step, Goto
<1>1. CASE pc'[t] = pc[t] \/ pc'[t] \notin {"closeE", "clearE", "closeC", "clearC"}
  BY <1>1
<1>2. CASE OwnerStep \/ Connect \/ Destroy
  <2>1. pc'[t] = pc[t] \/ pc'[t] \notin {"closeE", "clearE", "closeC", "clearC"}
    BY <1>2 DEF OwnerStep, ThreadFails, ConnectStep, Socket, Link, FailConnect, EpollCreate, Register,
                SetConnected, Spawn, Destruct, Crash, Connect, Destroy, Call
  <2> QED
    BY <1>1, <2>1
<1>3. CASE WorkerStep
  <2>1. pc'[t] = pc[t] \/ pc'[t] \notin {"closeE", "clearE", "closeC", "clearC"}
    BY <1>3 DEF WorkerStep, Start, LoopTest, EpollWait, WaitTimeout, WaitEvent, Read, Callback, ReadOn,
                ReadAgain, ReadEnd, Dropped
  <2> QED
    BY <1>1, <2>1
<1>4. CASE \/ \E u \in Disconnectors : CallDisconnect(u)
           \/ \E u \in Senders : CallSend(u)
  BY <1>1, <1>4, CallStarts DEF OrderInv
<1>5. ASSUME NEW u \in Threads, CallStep(u), u # t
      PROVE  pc'[t] = pc[t] \/ pc'[t] \notin {"closeE", "clearE", "closeC", "clearC"}
  BY <1>5 DEF CallStep, ConnectedTest, ClearConnected, Join, Joined, CloseEpoll, ClearEpoll,
              CloseClient, ClearClient, CloseMember, SendTest, Write, SendEnd, ReturnSent, BrokenPipe, Return, Crash
<1>6. CASE CallStep(t) /\ ~Closing(t)
  BY <1>6 DEF CallStep, ConnectedTest, ClearConnected, Join, Joined, CloseEpoll, ClearEpoll,
              CloseClient, ClearClient, SendTest, Write, SendEnd, ReturnSent, BrokenPipe, Return, Crash
<1>7. CASE Environment \/ UNCHANGED vars
  <2>1. UNCHANGED pc
    BY <1>7 DEF Environment, vars
  <2> QED
    BY <1>1, <2>1
<1>8. CASE ForeignStep
  <2>1. pc'[t] = pc[t] \/ pc'[t] \notin {"closeE", "clearE", "closeC", "clearC"}
    BY <1>8 DEF ForeignStep, ReadForeign, WriteForeign, ReturnSent, Crash
  <2> QED
    BY <1>1, <2>1
<1> QED
  BY <1>1, <1>2, <1>3, <1>4, <1>5, <1>6, <1>7, <1>8 DEF Next, Calls

\* What one step of shutdown_pipeline() does behind join().
LEMMA Closes ==
    ASSUME TypeOK, OrderInv, NEW t \in Threads, CallStep(t), Closing(t)
    PROVE  /\ \/ CloseEpoll(t) \/ ClearEpoll(t) \/ CloseClient(t) \/ ClearClient(t)
           /\ \A u \in Threads \ {t} : pc'[u] = pc[u]
           /\ UNCHANGED <<is_connected, back, stream, crashed>>
<1>1. CloseEpoll(t) \/ ClearEpoll(t) \/ CloseClient(t) \/ ClearClient(t)
  BY DEF Closing, CallStep, ConnectedTest, ClearConnected, Join, Joined, SendTest, Write, SendEnd,
         BrokenPipe, At
<1> QED
  BY <1>1 DEF CloseEpoll, ClearEpoll, CloseClient, ClearClient, CloseMember, Return, Step, Goto,
              TypeOK, obj

\* A number that was closed stays nobody's until its member is reset.
LEMMA ForgottenStep ==
    ASSUME TypeOK, OrderInv, Forgotten, [Next]_vars
    PROVE  Forgotten'
<1> USE Handles DEF Forgotten
<1>1. CASE Connecting
  <2>1. \A t \in Threads : ~Closing(t)
    BY <1>1, Alone
  <2>2. \A t \in Threads : pc'[t] \notin {"clearE", "closeC", "clearC"}
    BY <2>1, Enters DEF Closing
  <2> QED
    BY <2>2 DEF At
<1>2. ASSUME NEW t \in Threads, CallStep(t), Closing(t)
      PROVE  Forgotten'
  <2> USE DEF At, Step, Goto, TypeOK, Closing
  <2>1. CASE CloseEpoll(t)
    <3>1. CASE epoll_fd >= 0
      <4>1. Close(epoll_fd) /\ UNCHANGED obj /\ pc' = [pc EXCEPT ![t] = "clearE"]
        BY <2>1, <3>1 DEF CloseEpoll, CloseMember
      <4> QED
        BY <4>1, CloseHandle DEF obj, Mine
    <3>2. CASE ~(epoll_fd >= 0)
      <4>1. epoll_fd = NoFd
        BY <3>2
      <4>2. UNCHANGED <<kernel, obj>> /\ pc' = [pc EXCEPT ![t] = "closeC"]
        BY <2>1, <3>2 DEF CloseEpoll, CloseMember
      <4> QED
        BY <4>1, <4>2 DEF obj, kernel, Handle
    <3> QED
      BY <3>1, <3>2
  <2>2. CASE ClearEpoll(t)
    BY <2>2 DEF ClearEpoll, Mine, kernel, Handle
  <2>3. CASE CloseClient(t)
    <3>1. CASE client_fd >= 0
      <4>1. Close(client_fd) /\ UNCHANGED obj /\ pc' = [pc EXCEPT ![t] = "clearC"]
        BY <2>3, <3>1 DEF CloseClient, CloseMember
      <4> QED
        BY <2>3, <4>1, CloseHandle DEF CloseClient, obj, Mine
    <3>2. CASE ~(client_fd >= 0)
      BY <2>3, <3>2 DEF CloseClient, CloseMember, obj, kernel, Handle
    <3> QED
      BY <3>1, <3>2
  <2>4. CASE ClearClient(t)
    BY <2>4 DEF ClearClient, Return, Mine, kernel, Handle
  <2> QED
    BY <1>2, <2>1, <2>2, <2>3, <2>4, Closes
<1>3. CASE ~Connecting /\ \A t \in Threads : ~(CallStep(t) /\ Closing(t))
  BY <1>3, Steady, Enters DEF At
<1> QED
  BY <1>1, <1>2, <1>3

\* connect_to() is called only when nothing is open, unless after a drop.
LEMMA CleanStartStep ==
    ASSUME TypeOK, OrderInv, Forgotten, ~Reconnects, CleanStart, [Next]_vars
    PROVE  CleanStart'
<1> USE Handles DEF CleanStart
<1>0. /\ pc \in [Threads -> Labels] /\ back \in [Threads -> {"idle", "dtor", "read"}]
      /\ Owner \in Threads /\ Worker \in Threads /\ Owner # Worker
  BY DEF TypeOK, Threads
<1> DEFINE Clean == /\ ~is_connected /\ ~Joinable /\ At(Worker, "none") /\ ~Connecting
                    /\ \A t \in Threads : ~Disconnecting(t)
<1> USE <1>0 DEF At, Step, Goto
<1>1. ASSUME UNCHANGED <<client_fd, epoll_fd>>, Clean' => Clean,
             Connecting' => Connecting /\ pc'[Owner] = pc[Owner]
      PROVE  CleanStart'
  BY <1>1 DEF Connecting
<1>2. CASE Connect
  <2>1. At(Worker, "none") /\ \A t \in Threads : ~Disconnecting(t)
    BY <1>2 DEF Connect, Free, Joinable, Disconnecting, Joining, Closing, OrderInv, RolesKept,
                ThreadKept
  <2>2. Clean
    BY <1>2, <2>1 DEF Connect, Free, Connecting
  <2> QED
    BY <1>2, <2>2 DEF Connect, Quiet, obj, Connecting
<1>3. CASE ConnectStep
  <2>1. CASE Socket
    BY <2>1 DEF Socket, Connecting
  <2>2. CASE Link
    BY <2>2 DEF Link, FailConnect, obj, Connecting, Disconnecting
  <2>3. CASE EpollCreate
    BY <2>3 DEF EpollCreate, FailConnect, Connecting, Disconnecting
  <2>4. CASE Register
    BY <2>4 DEF Register, FailConnect, obj, Connecting, Disconnecting
  <2>5. CASE SetConnected
    BY <2>5 DEF SetConnected, Connecting
  <2>6. CASE Spawn
    BY <2>6 DEF Spawn, Crash, Joinable, Connecting
  <2> QED
    BY <1>3, <2>1, <2>2, <2>3, <2>4, <2>5, <2>6 DEF ConnectStep
<1>4. CASE ThreadFails \/ Destruct \/ Destroy
  BY <1>1, <1>4 DEF ThreadFails, Destruct, Destroy, Call, Free, Crash, Quiet, obj, Joinable, Connecting,
                    Disconnecting, Joining, Closing
<1>5. CASE WorkerStep
  <2>1. pc'[Worker] # "none" /\ UNCHANGED <<client_fd, epoll_fd>> /\ pc'[Owner] = pc[Owner]
    BY <1>5 DEF WorkerStep, Start, LoopTest, EpollWait, WaitTimeout, WaitEvent, Read, Callback, ReadOn,
                ReadAgain, ReadEnd, Dropped, Quiet, obj
  <2> QED
    BY <1>1, <2>1 DEF Joinable, Connecting
<1>6. CASE \/ \E t \in Disconnectors : CallDisconnect(t)
           \/ \E t \in Senders : CallSend(t)
  <2>1. PICK t \in Threads, label \in {"test", "sendTest"} :
            /\ pc[t] \in {"idle", "callback"} /\ pc' = [pc EXCEPT ![t] = label]
            /\ t = Worker => pc[t] = "callback"
    BY <1>6, CallStarts DEF OrderInv
  <2>2. UNCHANGED <<obj, worker_thread>>
    BY <1>6, CallStarts DEF OrderInv
  <2> QED
    BY <1>1, <2>1, <2>2 DEF obj, Joinable, Connecting, Disconnecting, Joining, Closing
<1>7. ASSUME NEW t \in Threads, CallStep(t)
      PROVE  CleanStart'
  <2>1. CASE Closing(t)
    <3>1. ~Connecting /\ pc'[Owner] \notin {"socket", "link", "epoll"}
      BY <1>7, <2>1, ClosingApart
         DEF Closing, Connecting, CallStep, ConnectedTest, ClearConnected, Join, Joined, CloseEpoll,
             ClearEpoll, CloseClient, ClearClient, CloseMember, SendTest, Write, SendEnd, ReturnSent, BrokenPipe,
             Return
    <3>2. CASE CloseEpoll(t) \/ ClearEpoll(t)
      BY <3>1, <3>2 DEF CloseEpoll, ClearEpoll, CloseMember, Disconnecting, Closing
    <3>3. CASE CloseClient(t)
      <4>1. CASE client_fd >= 0
        BY <3>1, <3>3, <4>1 DEF CloseClient, CloseMember, Disconnecting, Closing
      <4>2. CASE client_fd = NoFd
        BY <3>1, <3>3, <4>2 DEF CloseClient, CloseMember, obj, Forgotten
      <4> QED
        BY <4>1, <4>2 DEF TypeOK
    <3>4. CASE ClearClient(t)
      BY <3>1, <3>4 DEF ClearClient, Forgotten
    <3> QED
      BY <1>7, <2>1, <3>2, <3>3, <3>4, Closes
  <2>2. CASE ClearConnected(t) \/ Join(t) \/ Joined(t)
    BY <1>1, <2>2 DEF ClearConnected, Join, Joined, Crash, Quiet, obj, Joinable, Connecting,
                      Disconnecting, Joining, Closing
  <2>3. CASE ConnectedTest(t)
    <3>1. CASE is_connected
      BY <1>1, <2>3, <3>1 DEF ConnectedTest, Quiet, obj, Connecting
    <3>2. CASE ~is_connected
      <4>1. pc' = [pc EXCEPT ![t] = back[t]] /\ back[t] \in {"idle", "dtor", "read"}
            /\ UNCHANGED <<obj, worker_thread>>
        BY <2>3, <3>2 DEF ConnectedTest, Return, Quiet
      <4> QED
        BY <1>1, <2>3, <4>1 DEF ConnectedTest, obj, Joinable, Connecting, Disconnecting, Joining, Closing
    <3> QED
      BY <3>1, <3>2
  <2>4. CASE SendTest(t) \/ Write(t) \/ SendEnd(t) \/ BrokenPipe(t)
    BY <1>1, <2>4 DEF SendTest, Write, SendEnd, ReturnSent, BrokenPipe, Return, Crash, Quiet, obj, Joinable,
                      Connecting, Disconnecting, Joining, Closing
  <2> QED
    BY <1>7, <2>1, <2>2, <2>3, <2>4
       DEF CallStep, CloseEpoll, ClearEpoll, CloseClient, ClearClient, Closing
<1>8. CASE Environment \/ UNCHANGED vars
  <2>1. UNCHANGED <<obj, worker_thread, pc>>
    BY <1>8 DEF Environment, vars
  <2> QED
    BY <1>1, <2>1 DEF obj, vars, Environment, Joinable, Connecting, Disconnecting, Joining, Closing
<1>9. CASE ForeignStep
  BY <1>1, <1>9 DEF ForeignStep, ReadForeign, WriteForeign, ReturnSent, Crash, obj, Joinable,
                    Connecting, Disconnecting, Joining, Closing
<1> QED
  BY <1>2, <1>3, <1>4, <1>5, <1>6, <1>7, <1>8, <1>9 DEF Next, Calls, OwnerStep

\* What the client opened is in a member when it is opened, and the member is reset only
\* after the close.
LEMMA OrphanStep ==
    ASSUME TypeOK, OrderInv, Forgotten, CleanStart, NothingOrphaned, [Next]_vars
    PROVE  NothingOrphaned'
<1> USE Handles DEF NothingOrphaned, Mine
<1>0. fdt \in [Fds -> Kinds \cup Conns] /\ \A f \in Fds : Handle(f) = fdt[f]
  BY DEF TypeOK, SocketsTypeOK, Handle
<1> USE <1>0
<1>1. CASE ~(Connecting /\ ConnectStep) /\ \A t \in Threads : ~(CallStep(t) /\ Closing(t))
  <2>1. UNCHANGED <<client_fd, epoll_fd>> /\ \A f \in Fds : Handle(f)' \in Mine => Handle(f)' = Handle(f)
    BY <1>1, Steady
  <2>2. \A f \in Fds : Handle(f)' = fdt'[f]
    BY DEF Handle
  <2> QED
    BY <2>1, <2>2
<1>2. ASSUME NEW t \in Threads, CallStep(t), Closing(t)
      PROVE  NothingOrphaned'
  <2>1. CASE UNCHANGED obj /\ ((\E n : Close(n)) \/ UNCHANGED kernel)
    BY <2>1 DEF Close, obj, kernel
  <2>2. CASE ClearEpoll(t) \/ ClearClient(t)
    BY <2>2 DEF ClearEpoll, ClearClient, kernel, Forgotten
  <2> QED
    BY <1>2, <2>1, <2>2, Closes DEF CloseEpoll, CloseClient, CloseMember
<1>3. CASE Socket
  <2>1. \A f \in Fds : fdt[f] \notin Mine
    BY <1>3 DEF Socket, CleanStart, At
  <2> QED
    BY <1>3, <2>1 DEF Socket, Install, Lowest
<1>4. CASE Link
  <2>1. CASE Close(client_fd) /\ client_fd' = NoFd
    BY <1>4, <2>1 DEF Link, Close
  <2>2. CASE \E c \in Conns : Install(client_fd, c) /\ UNCHANGED <<client_fd, epoll_fd>>
    BY <2>2 DEF Install
  <2> QED
    BY <1>4, <2>1, <2>2 DEF Link
<1>5. CASE EpollCreate
  <2>1. epoll_fd = NoFd
    BY <1>5 DEF EpollCreate, CleanStart, At
  <2> QED
    BY <1>5, <2>1 DEF EpollCreate, Install, Lowest
<1>6. CASE Register \/ SetConnected
  BY <1>6 DEF Register, SetConnected, obj, kernel
<1> QED
  BY <1>1, <1>2, <1>3, <1>4, <1>5, <1>6 DEF ConnectStep, Spawn, Connecting, At

\* With one thread, one shutdown_pipeline() at a time is behind join(): the Owner's.
LEMMA OneCloser ==
    ASSUME TypeOK, OrderInv, OneThread, NEW t \in Threads, Closing(t)
    PROVE  t = Owner
<1>1. t # Worker
  BY ClosingApart
<1> QED
  BY <1>1 DEF OrderInv, RolesKept, OneThread, Disconnecting

\* Nothing is read or written by a number given away: what the Worker uses is live, and the
\* Owner does not close while it writes.
LEMMA NoForeignStep ==
    ASSUME TypeOK, ClientInv, OneThread, MembersOwn
    PROVE  ~ForeignStep
<1> USE Handles
<1>1. ~ReadForeign
  BY DEF ReadForeign, ClientInv, LiveWhileUsed, Live, Looping, At
<1>2. ASSUME NEW t \in Threads, WriteForeign(t)
      PROVE  FALSE
  <2>1. t \in {Owner, Worker}
    BY <1>2 DEF WriteForeign, At, ClientInv, OrderInv, RolesKept, OneThread
  <2>2. t # Worker
    BY <1>2 DEF WriteForeign, ClientInv, LiveWhileUsed, Live, Looping, WorkerCalls, At
  <2>3. At(Owner, "write") /\ Handle(client_fd) = "other" /\ Owner \in Threads
    BY <1>2, <2>1, <2>2 DEF WriteForeign, Threads
  <2>4. \A u \in Threads : ~At(u, "clearC")
    BY <2>3, OneCloser DEF ClientInv, Closing, At
  <2> QED
    BY <2>3, <2>4 DEF MembersOwn, AllDead, At
<1> QED
  BY <1>1, <1>2 DEF ForeignStep

\* No other step but shutdown_pipeline() and a failed connect() closes anything.
LEMMA NoForeignUse ==
    ASSUME TypeOK, OrderInv, OwnDescriptorsOnly, [Next]_vars, ~ForeignStep,
           ~Link, \A t \in Threads : ~(CallStep(t) /\ Closing(t))
    PROVE  OwnDescriptorsOnly'
<1> USE DEF OwnDescriptorsOnly
<1>1. CASE UNCHANGED foreign
  BY <1>1
<1>2. CASE WorkerStep
  BY <1>1, <1>2
     DEF WorkerStep, Start, LoopTest, EpollWait, WaitTimeout, WaitEvent, Read, Callback, ReadAgain,
         ReadEnd, Dropped, Quiet, kernel
<1>3. ASSUME NEW t \in Threads, CallStep(t)
      PROVE  OwnDescriptorsOnly'
  BY <1>1, <1>3 DEF Closing, CallStep, ConnectedTest, ClearConnected, Join, Joined, CloseEpoll,
              ClearEpoll, CloseClient, ClearClient, SendTest, Write, SendEnd, BrokenPipe, At, Quiet,
              kernel
<1>4. CASE Connect \/ Destroy \/ OwnerStep
  BY <1>1, <1>4 DEF Connect, Destroy, Call, OwnerStep, ThreadFails, ConnectStep, Socket, EpollCreate,
                    Register, SetConnected, Spawn, Destruct, Quiet, kernel
<1>5. CASE \/ \E t \in Disconnectors : CallDisconnect(t)
           \/ \E t \in Senders : CallSend(t)
  BY <1>1, <1>5, CallStarts DEF OrderInv, kernel
<1>6. CASE Environment \/ UNCHANGED vars
  BY <1>1, <1>6 DEF Environment, Outside, OtherOpen, OtherClose, PeerSend, PeerEnd, PeerRecv, vars,
                    kernel
<1> QED
  BY <1>2, <1>3, <1>4, <1>5, <1>6 DEF Next, Calls

\* A thread between a close and its reset stays there until it takes its step, or the
\* process dies; and then no thread does anything more.
LEMMA StaysClosing ==
    ASSUME TypeOK, OrderInv, [Next]_vars, NEW t \in Threads, pc[t] \in {"clearE", "clearC"},
           ~CallStep(t)
    PROVE  pc'[t] = pc[t] \/ AllDead'
<1>0. t # Worker /\ pc \in [Threads -> Labels] /\ Owner \in Threads /\ Worker \in Threads
  BY ClosingApart DEF Closing, TypeOK, Threads
<1> USE <1>0 DEF At, Step, Goto
<1>1. ASSUME NEW how, Crash(how)
      PROVE  AllDead'
  BY <1>1 DEF Crash, AllDead
<1>2. CASE Connect \/ OwnerStep \/ Destroy
  BY <1>1, <1>2 DEF Connect, OwnerStep, Destroy, Destruct, ThreadFails, ConnectStep, Socket, Link, FailConnect,
              EpollCreate, Register, SetConnected, Spawn, Call, Free
<1>3. CASE WorkerStep
  BY <1>3 DEF WorkerStep, Start, LoopTest, EpollWait, WaitTimeout, WaitEvent, Read, Callback, ReadOn,
              ReadAgain, ReadEnd, Dropped
<1>4. CASE \/ \E u \in Disconnectors : CallDisconnect(u)
           \/ \E u \in Senders : CallSend(u)
  BY <1>4, CallStarts DEF OrderInv
<1>5. ASSUME NEW u \in Threads, CallStep(u), u # t
      PROVE  pc'[t] = pc[t] \/ AllDead'
  BY <1>1, <1>5 DEF CallStep, ConnectedTest, ClearConnected, Join, Joined, CloseEpoll, ClearEpoll,
              CloseClient, ClearClient, CloseMember, SendTest, Write, SendEnd, ReturnSent, BrokenPipe, Return
<1>6. CASE Environment \/ UNCHANGED vars
  BY <1>6 DEF Environment, vars
<1>7. CASE ForeignStep
  BY <1>1, <1>7 DEF ForeignStep, ReadForeign, WriteForeign, ReturnSent
<1> QED
  BY <1>2, <1>3, <1>4, <1>5, <1>6, <1>7 DEF Next, Calls

LEMMA StaysDead ==
    ASSUME TypeOK, OrderInv, [Next]_vars, AllDead
    PROVE  AllDead'
<1>0. pc \in [Threads -> Labels] /\ Owner \in Threads /\ Worker \in Threads
  BY DEF TypeOK, Threads
<1> USE <1>0 DEF At, AllDead
<1>2. ~Connect /\ ~OwnerStep /\ ~Destroy
  BY DEF Connect, OwnerStep, Destroy, Destruct, ThreadFails, ConnectStep, Socket, Link, EpollCreate, Register,
         SetConnected, Spawn, Call, Free
<1>3. ~WorkerStep
  BY DEF WorkerStep, Start, LoopTest, EpollWait, WaitTimeout, WaitEvent, Read, Callback, ReadAgain, ReadEnd,
         Dropped
<1>4. ~((\E u \in Disconnectors : CallDisconnect(u)) \/ (\E u \in Senders : CallSend(u)))
  BY CallStarts DEF OrderInv
<1>5. \A u \in Threads : ~CallStep(u)
  BY DEF CallStep, ConnectedTest, ClearConnected, Join, Joined, CloseEpoll, ClearEpoll, CloseClient,
         ClearClient, SendTest, Write, SendEnd, ReturnSent, BrokenPipe
<1>6. ~ForeignStep
  BY DEF ForeignStep, ReadForeign, WriteForeign
<1> QED
  BY <1>2, <1>3, <1>4, <1>5, <1>6 DEF Next, Calls, Environment, vars

\* The members denote what the client opened from open to close, and only the thread that
\* closed one sees it in between.
LEMMA OwnStep ==
    ASSUME TypeOK, ClientInv, Forgotten, OneThread, MembersOwn, OwnDescriptorsOnly, [Next]_vars
    PROVE  MembersOwn' /\ OwnDescriptorsOnly'
<1> USE Handles
<1>0. /\ OrderInv /\ client_fd \in Fds \cup {NoFd} /\ epoll_fd \in Fds \cup {NoFd} /\ Owner \in Threads
      /\ pc \in [Threads -> Labels] /\ fdt \in [Fds -> Kinds \cup Conns]
  BY DEF TypeOK, SocketsTypeOK, Threads, ClientInv
<1> USE <1>0
<1>1. ASSUME NEW t \in Threads, CallStep(t), Closing(t)
      PROVE  MembersOwn' /\ OwnDescriptorsOnly'
  <2>1. ~AllDead /\ \A u \in Threads : Closing(u) => u = t
    BY <1>1, OneCloser DEF AllDead, Closing, At
  <2> USE <2>1 DEF MembersOwn, At
  <2>2. CASE CloseEpoll(t)
    <3>1. \A u \in Threads : ~At(u, "clearE") /\ ~At(u, "clearC")
      BY <2>2 DEF CloseEpoll, Closing
    <3>2. CASE epoll_fd >= 0
      <4>1. Close(epoll_fd) /\ UNCHANGED obj /\ pc'[t] = "clearE" /\ Handle(epoll_fd) = "epoll"
        BY <2>2, <3>1, <3>2 DEF CloseEpoll, CloseMember, Step, Goto
      <4>2. client_fd = NoFd \/ (client_fd # epoll_fd /\ Handle(client_fd) \in {"socket"} \cup Conns)
        BY <3>1, <4>1
      <4> QED
        BY <3>1, <4>1, <4>2, CloseHandle DEF obj, OwnDescriptorsOnly
    <3>3. CASE epoll_fd = NoFd
      BY <2>2, <3>1, <3>3 DEF CloseEpoll, CloseMember, obj, kernel, Handle, OwnDescriptorsOnly
    <3> QED
      BY <3>2, <3>3
  <2>3. CASE ClearEpoll(t)
    <3>1. \A u \in Threads : ~At(u, "clearC")
      BY <2>3 DEF ClearEpoll, Closing
    <3> QED
      BY <2>3, <3>1 DEF ClearEpoll, kernel, Handle, OwnDescriptorsOnly
  <2>4. CASE CloseClient(t)
    <3>1. epoll_fd = NoFd /\ \A u \in Threads : ~At(u, "clearC")
      BY <2>4 DEF CloseClient, Closing, Forgotten
    <3>2. CASE client_fd >= 0
      <4>1. Close(client_fd) /\ UNCHANGED obj /\ pc'[t] = "clearC"
        BY <2>4, <3>2 DEF CloseClient, CloseMember, Step, Goto
      <4> QED
        BY <3>1, <3>2, <4>1, CloseHandle DEF obj, OwnDescriptorsOnly
    <3>3. CASE client_fd = NoFd
      BY <2>4, <3>1, <3>3 DEF CloseClient, CloseMember, obj, kernel, OwnDescriptorsOnly
    <3> QED
      BY <3>2, <3>3
  <2>5. CASE ClearClient(t)
    BY <2>5 DEF ClearClient, Forgotten, kernel, OwnDescriptorsOnly
  <2> QED
    BY <1>1, <2>2, <2>3, <2>4, <2>5, Closes
<1>2. CASE Socket \/ Link \/ EpollCreate \/ Register \/ SetConnected
  <2>1. /\ \A t \in Threads : ~At(t, "clearE") /\ ~At(t, "clearC")
        /\ ~AllDead
    BY <1>2, Alone DEF Socket, Link, EpollCreate, Register, SetConnected, Connecting, Closing, At,
                       AllDead
  <2>2. /\ client_fd = NoFd \/ Handle(client_fd) \in {"socket"} \cup Conns
        /\ epoll_fd = NoFd \/ Handle(epoll_fd) = "epoll"
    BY <2>1 DEF MembersOwn
  <2>3. CASE Socket
    BY <2>2, <2>3 DEF Socket, MembersOwn, Install, Lowest, Handle, OwnDescriptorsOnly
  <2>4. CASE Link
    <3>1. Handle(client_fd) = "socket"
      BY <2>4 DEF Link, OrderInv, ConnectInOrder
    <3>2. CASE Close(client_fd) /\ client_fd' = NoFd /\ epoll_fd' = epoll_fd
      BY <2>2, <3>1, <3>2, CloseHandle DEF MembersOwn, OwnDescriptorsOnly
    <3>3. CASE /\ \E c \in Conns : Install(client_fd, c)
               /\ UNCHANGED <<client_fd, epoll_fd, foreign>>
      BY <2>2, <3>1, <3>3 DEF MembersOwn, Install, Handle, OwnDescriptorsOnly
    <3> QED
      BY <2>4, <3>2, <3>3 DEF Link
  <2>5. CASE EpollCreate
    BY <2>2, <2>5 DEF EpollCreate, MembersOwn, Install, Lowest, Handle, OwnDescriptorsOnly
  <2>6. CASE Register \/ SetConnected
    BY <2>2, <2>6 DEF Register, SetConnected, MembersOwn, Handle, obj, kernel, OwnDescriptorsOnly
  <2> QED
    BY <1>2, <2>3, <2>4, <2>5, <2>6
<1>3. CASE ~(Connecting /\ ConnectStep) /\ \A t \in Threads : ~(CallStep(t) /\ Closing(t))
  <2>1. OwnDescriptorsOnly'
    <3>1. ~Link
      BY <1>3 DEF Link, Connecting, ConnectStep, At
    <3> QED
      BY <1>3, <3>1, NoForeignStep, NoForeignUse
  <2>2. \A t \in Threads : pc[t] \in {"clearE", "clearC"} => pc'[t] = pc[t] \/ AllDead'
    BY <1>3, StaysClosing DEF Closing
  <2>3. UNCHANGED <<client_fd, epoll_fd>> /\ \A n : Handle(n) \in Mine => Handle(n)' = Handle(n)
    BY <1>3, Steady
  <2>4. MembersOwn'
    BY <2>2, <2>3, StaysDead DEF MembersOwn, Mine, At
  <2> QED
    BY <2>1, <2>4
<1> QED
  BY <1>1, <1>2, <1>3 DEF ConnectStep, Connecting, Spawn, At

\* As long as nobody connects, client_fd gets no connection that it did not denote.
LEMMA SameConnection ==
    ASSUME TypeOK, OrderInv, [Next]_vars, ~(Connecting /\ ConnectStep)
    PROVE  Handle(client_fd)' \in Conns => Handle(client_fd)' = Handle(client_fd)
<1> USE Handles
<1>1. ASSUME NEW t \in Threads, CallStep(t), Closing(t)
      PROVE  Handle(client_fd)' \in Conns => Handle(client_fd)' = Handle(client_fd)
  <2>1. CASE ClearClient(t)
    BY <2>1 DEF ClearClient
  <2>2. CASE UNCHANGED <<client_fd, fdt>>
    BY <2>2 DEF Handle
  <2>3. CASE UNCHANGED client_fd /\ \E n : Close(n)
    BY <2>3, CloseHandle
  <2> QED
    BY <1>1, <2>1, <2>2, <2>3, Closes DEF CloseEpoll, CloseClient, ClearEpoll, CloseMember, obj, kernel
<1>2. CASE \A t \in Threads : ~(CallStep(t) /\ Closing(t))
  BY <1>2, Steady DEF Mine
<1> QED
  BY <1>1, <1>2

\* A call that has begun to write goes on to the same connection or to none: the Owner
\* does not connect in between, and the Worker's connection is live.
LEMMA SentOnceStep ==
    ASSUME TypeOK, ClientInv, Accounts, OneThread, MembersOwn, SentOnce, [Next]_vars
    PROVE  SentOnce'
<1>0. /\ pc \in [Threads -> Labels] /\ bytes_left \in [Threads -> 0..Payload]
      /\ wrote \in [Threads -> [Conns -> 0..Payload]] /\ back \in [Threads -> {"idle", "dtor", "read"}]
      /\ Owner \in Threads /\ Worker \in Threads /\ Owner # Worker
      /\ OrderInv /\ Senders \subseteq {Owner, Worker}
  BY DEF TypeOK, Threads, ClientInv, OneThread
<1> USE <1>0 DEF At, Step, Goto
<1> SUFFICES ASSUME NEW t \in Senders, pc'[t] = "write"
             PROVE  \/ bytes_left'[t] = Payload /\ wrote'[t] = Nothing
                    \/ \E c \in Conns : WrittenTo(t, c)'
  BY DEF SentOnce, Nothing
<1>1. t \in Threads
  BY DEF Threads
<1>2. CASE SendTest(t)
  <2>1. pc[t] = "sendTest" /\ bytes_left'[t] = Payload /\ wrote' = wrote
    BY <1>1, <1>2 DEF SendTest, Return
  <2> QED
    BY <1>1, <2>1 DEF Accounts, Nothing
<1>3. CASE Write(t)
  <2>1. PICK c \in Conns, k \in 1..bytes_left[t] :
            /\ c = Handle(client_fd)
            /\ wrote' = [wrote EXCEPT ![t][c] = @ + k]
            /\ bytes_left' = [bytes_left EXCEPT ![t] = Remaining(@, k)]
    BY <1>3 DEF Write
  <2>2. /\ bytes_left'[t] = bytes_left[t] - k /\ Handle(client_fd)' = Handle(client_fd)
        /\ \A d \in Conns : wrote'[t][d] = IF d = c THEN wrote[t][d] + k ELSE wrote[t][d]
        /\ \A d \in Conns : wrote[t][d] \in Nat
        /\ bytes_left[t] \in Nat /\ k \in Nat
    BY <1>1, <1>3, <2>1 DEF Write, Remaining, Quiet, kernel, obj, Handle
  <2>3. wrote[t][c] + bytes_left[t] = Payload /\ \A d \in Conns \ {c} : wrote[t][d] = 0
    BY <1>3, <2>1 DEF SentOnce, WrittenTo, Write, Nothing
  <2>4. WrittenTo(t, c)'
    BY <2>1, <2>2, <2>3 DEF WrittenTo
  <2> QED
    BY <2>4
<1>4. CASE ~SendTest(t) /\ ~Write(t)
  <2>1. pc[t] = "write" /\ bytes_left'[t] = bytes_left[t] /\ wrote'[t] = wrote[t]
    <3> USE DEF stream
    <3>1. CASE Connect \/ OwnerStep \/ Destroy
      BY <1>1, <3>1 DEF Connect, OwnerStep, Destroy, Destruct, ThreadFails, ConnectStep, Socket, Link, FailConnect,
                        EpollCreate, Register, SetConnected, Spawn, Call, Crash
    <3>2. CASE WorkerStep
      BY <1>1, <3>2 DEF WorkerStep, Start, LoopTest, EpollWait, WaitTimeout, WaitEvent, Read, Callback, ReadOn,
                        ReadAgain, ReadEnd, Dropped
    <3>3. CASE \/ \E u \in Disconnectors : CallDisconnect(u)
               \/ \E u \in Senders : CallSend(u)
      BY <1>1, <3>3, CallStarts DEF OrderInv
    <3>4. CASE CallStep(t)
      BY <1>1, <1>4, <3>4
         DEF CallStep, ConnectedTest, ClearConnected, Join, Joined, CloseEpoll, ClearEpoll,
             CloseClient, ClearClient, CloseMember, SendEnd, ReturnSent, BrokenPipe, Return, Crash
    <3>5. ASSUME NEW u \in Threads \ {t}, CallStep(u)
          PROVE  pc[t] = "write" /\ bytes_left'[t] = bytes_left[t] /\ wrote'[t] = wrote[t]
      BY <1>1, <3>5
         DEF CallStep, ConnectedTest, ClearConnected, Join, Joined, CloseEpoll, ClearEpoll,
             CloseClient, ClearClient, CloseMember, SendTest, Write, SendEnd, ReturnSent, BrokenPipe, Return, Crash
    <3>6. CASE Environment \/ UNCHANGED vars
      BY <3>6 DEF Environment, PeerRecv, vars
    <3> QED
      BY <3>1, <3>2, <3>3, <3>4, <3>5, <3>6, NoForeignStep DEF Next, Calls
  <2>2. ~(Connecting /\ ConnectStep)
    BY <1>1, <2>1 DEF Connecting, ClientInv, LiveWhileUsed, Live, Looping, WorkerCalls
  <2>3. Handle(client_fd)' \in Conns => Handle(client_fd)' = Handle(client_fd)
    BY <2>2, SameConnection
  <2> QED
    BY <2>1, <2>3 DEF SentOnce, WrittenTo, Nothing
<1> QED
  BY <1>2, <1>3, <1>4

\* A link that the server has ended stays ended.
LEMMA StaysDropped ==
    ASSUME TypeOK, OrderInv, HasDropped, [Next]_vars
    PROVE  HasDropped'
<1>1. CASE UNCHANGED eof
  BY <1>1 DEF HasDropped
<1>2. CASE Connect \/ OwnerStep \/ Destroy
  BY <1>1, <1>2 DEF Connect, OwnerStep, Destroy, Destruct, ThreadFails, ConnectStep, Socket, Link, EpollCreate,
                    Register, SetConnected, Spawn, Call, Quiet, Close, kernel, wire
<1>3. CASE WorkerStep
  BY <1>1, <1>3 DEF WorkerStep, Start, LoopTest, EpollWait, WaitTimeout, WaitEvent, Read, Callback, ReadAgain,
                    ReadEnd, Dropped, Quiet, kernel, wire
<1>4. CASE \/ \E t \in Disconnectors : CallDisconnect(t)
           \/ \E t \in Senders : CallSend(t)
  BY <1>1, <1>4, CallStarts DEF OrderInv, kernel, wire
<1>5. ASSUME NEW t \in Threads, CallStep(t)
      PROVE  UNCHANGED eof
  BY <1>5 DEF CallStep, ConnectedTest, ClearConnected, Join, Joined, CloseEpoll, ClearEpoll, CloseClient,
              ClearClient, CloseMember, SendTest, Write, SendEnd, ReturnSent, BrokenPipe, Quiet, Close, kernel, wire
<1>6. CASE Environment
  <2>1. ASSUME NEW c \in Conns, PeerEnd(c)
        PROVE  HasDropped'
    BY <2>1 DEF PeerEnd, HasDropped, TypeOK, SocketsTypeOK
  <2> QED
    BY <1>1, <1>6, <2>1 DEF Environment, Outside, OtherOpen, OtherClose, PeerSend, PeerRecv, kernel,
                            wire
<1>7. CASE UNCHANGED vars
  BY <1>1, <1>7 DEF vars, kernel, wire
<1>8. CASE ForeignStep
  BY <1>1, <1>8 DEF ForeignStep, ReadForeign, WriteForeign, wire
<1> QED
  BY <1>1, <1>2, <1>3, <1>4, <1>5, <1>6, <1>7, <1>8 DEF Next, Calls

\* Only the Owner disconnects: it joins the Worker on the way to ~Impl, unless the server
\* has made the Worker clear the flag before.
LEMMA DropStep ==
    ASSUME TypeOK, ClientInv, Disconnectors \subseteq {Owner}, JoinedOrDropped,
           TerminatedOnlyByDrop, [Next]_vars
    PROVE  JoinedOrDropped' /\ TerminatedOnlyByDrop'
<1>0. /\ pc \in [Threads -> Labels] /\ back \in [Threads -> {"idle", "dtor", "read"}]
      /\ Owner \in Threads /\ Worker \in Threads /\ Owner # Worker
      /\ \A t \in Threads : At(t, "test") \/ Disconnecting(t) => t = Owner
      /\ (HasDropped => HasDropped') /\ OrderInv
  BY StaysDropped DEF TypeOK, Threads, ClientInv, OrderInv, RolesKept
<1> USE <1>0 DEF At, Step, Goto
<1>1. ASSUME UNCHANGED <<is_connected, crashed>>,
             pc'[Owner] = pc[Owner] \/ (pc[Owner] \notin {"join", "joining", "dead"}
                                        /\ pc'[Owner] \in {"idle", "gone", "test", "clearConn"}),
             back'[Owner] = back[Owner] \/ pc'[Owner] \notin {"sendTest", "write"},
             pc'[Worker] = pc[Worker] \/ pc'[Worker] # "dropped", Joinable' => Joinable
      PROVE  JoinedOrDropped' /\ TerminatedOnlyByDrop'
  BY <1>1 DEF JoinedOrDropped, TerminatedOnlyByDrop, Joinable, Connecting, Joining
<1>2. CASE Connect
  BY <1>2 DEF Connect, Free, JoinedOrDropped, TerminatedOnlyByDrop, Joinable,
              Connecting, Joining, Quiet, obj
<1>3. CASE Socket \/ Link \/ EpollCreate \/ Register \/ SetConnected
  BY <1>3 DEF Socket, Link, FailConnect, EpollCreate, Register, SetConnected, JoinedOrDropped,
              TerminatedOnlyByDrop, Joinable, Connecting, Joining, obj
<1>4. CASE Spawn
  <2>1. CASE Joinable
    <3>1. HasDropped
      BY <1>4, <2>1 DEF Spawn, JoinedOrDropped
    <3> QED
      BY <1>4, <2>1, <3>1 DEF Spawn, Crash, JoinedOrDropped, TerminatedOnlyByDrop, Joinable, Connecting,
                              Joining, Quiet, obj
  <2>2. CASE ~Joinable
    BY <1>4, <2>2 DEF Spawn, JoinedOrDropped, TerminatedOnlyByDrop, Joinable, Connecting,
                      Joining, Quiet, obj
  <2> QED
    BY <2>1, <2>2
<1>5. CASE Destruct
  <2>1. Joinable => HasDropped
    BY <1>5 DEF Destruct, JoinedOrDropped, Joining
  <2>2. CASE Joinable
    BY <1>5, <2>1, <2>2
       DEF Destruct, Crash, JoinedOrDropped, TerminatedOnlyByDrop, Joinable, Connecting, Joining,
           Quiet, obj
  <2>3. CASE ~Joinable
    BY <1>1, <1>5, <2>3 DEF Destruct, Joinable, Quiet, obj
  <2> QED
    BY <2>2, <2>3
<1>6. CASE WorkerStep
  <2>1. CASE ReadEnd
    <3>1. HasDropped
      BY <2>1 DEF ReadEnd, ClientInv, LiveWhileUsed, Live, Looping, HasDropped
    <3> QED
      BY <2>1, <3>1 DEF ReadEnd, JoinedOrDropped, TerminatedOnlyByDrop, Joinable,
                        Connecting, Joining, Quiet, obj
  <2>2. CASE Dropped
    <3>1. HasDropped
      BY <2>2 DEF Dropped, JoinedOrDropped
    <3> QED
      BY <2>2, <3>1 DEF Dropped, JoinedOrDropped, TerminatedOnlyByDrop, Joinable,
                              Connecting, Joining
  <2>3. CASE ~ReadEnd /\ ~Dropped
    BY <1>1, <1>6, <2>3 DEF WorkerStep, Start, LoopTest, EpollWait, WaitTimeout, WaitEvent, Read, Callback,
                            ReadOn, ReadAgain, Joinable, Quiet, obj
  <2> QED
    BY <2>1, <2>2, <2>3
<1>7. CASE Destroy \/ (\E t \in Disconnectors : CallDisconnect(t)) \/ (\E t \in Senders : CallSend(t))
  <2>1. PICK t \in Threads, label \in {"test", "sendTest"}, next \in {"idle", "read", "dtor"} :
            /\ Call(t, label, next)
            /\ next = "dtor" => label = "test"
    BY <1>7 DEF Destroy, CallDisconnect, CallSend, Threads
  <2> QED
    BY <2>1 DEF Call, Free, JoinedOrDropped, TerminatedOnlyByDrop, Joinable,
                Connecting, Joining, Quiet, obj, kernel, wire
<1>8. ASSUME NEW t \in Threads, CallStep(t)
      PROVE  JoinedOrDropped' /\ TerminatedOnlyByDrop'
  <2>1. CASE ConnectedTest(t) \/ ClearConnected(t) \/ Join(t) \/ Joined(t)
    BY <2>1
       DEF ConnectedTest, ClearConnected, Join, Refused, Joined, Return, Disconnecting, Joining,
           JoinedOrDropped, TerminatedOnlyByDrop, Joinable, Connecting, Quiet, obj
  <2>2. CASE CloseEpoll(t) \/ ClearEpoll(t) \/ CloseClient(t) \/ ClearClient(t)
    <3>1. t = Owner /\ ~is_connected
      BY <2>2 DEF CloseEpoll, ClearEpoll, CloseClient, ClearClient, Disconnecting, Closing, OrderInv,
                  DisconnectsApart
    <3> QED
      BY <2>2, <3>1
         DEF CloseEpoll, ClearEpoll, CloseClient, ClearClient, CloseMember, Return,
             JoinedOrDropped, TerminatedOnlyByDrop, Joinable, Connecting, Joining, obj
  <2>3. CASE SendTest(t) \/ Write(t) \/ SendEnd(t)
    BY <2>3
       DEF SendTest, Write, SendEnd, ReturnSent, Return, JoinedOrDropped, TerminatedOnlyByDrop, Joinable,
           Connecting, Joining, Quiet, obj
  <2>4. CASE BrokenPipe(t)
    BY <2>4 DEF BrokenPipe, Crash, JoinedOrDropped, TerminatedOnlyByDrop, Joinable,
                      Connecting, Joining, Quiet, obj
  <2> QED
    BY <1>8, <2>1, <2>2, <2>3, <2>4 DEF CallStep
<1>9. CASE Environment \/ UNCHANGED vars
  BY <1>1, <1>9 DEF Environment, vars, obj, Joinable
<1>10. CASE ThreadFails
  <2>1. CASE Crash("exception")
    BY <1>10, <2>1 DEF ThreadFails, Crash, JoinedOrDropped, TerminatedOnlyByDrop, Joinable, Connecting,
                       Joining, Quiet, obj
  <2>2. CASE Step(Owner, "idle")
    BY <1>1, <1>10, <2>2 DEF ThreadFails, Joinable, Quiet, obj
  <2> QED
    BY <1>10, <2>1, <2>2 DEF ThreadFails
<1>11. CASE ForeignStep
  <2>1. ~ReadForeign
    BY Handles DEF ReadForeign, ClientInv, LiveWhileUsed, Live, Looping
  <2>2. ASSUME NEW t \in Threads, WriteForeign(t)
        PROVE  JoinedOrDropped' /\ TerminatedOnlyByDrop'
    BY <2>2 DEF WriteForeign, ReturnSent, Crash, JoinedOrDropped, TerminatedOnlyByDrop, Joinable,
                Connecting, Joining, obj
  <2> QED
    BY <1>11, <2>1, <2>2 DEF ForeignStep
<1> QED
  BY <1>2, <1>3, <1>4, <1>5, <1>6, <1>7, <1>8, <1>9, <1>10, <1>11
     DEF Next, Calls, OwnerStep, ConnectStep

-----------------------------------------------------------------------------
\* SessionInv holds before the first call, and no step of any thread breaks it.
THEOREM SessionInvariant == Spec => [](TypeOK /\ SessionInv)
<1> DEFINE Order == (Orderly => OrderInv) /\ (~Early => ClientInv)
<1>1. Init => SessionInv
  <2> SUFFICES ASSUME Init
               PROVE  SessionInv
    OBVIOUS
  <2>1. \A t \in Threads : pc[t] \in {"idle", "none"}
    BY DEF Init
  <2>2. /\ pc[Owner] = "idle" /\ pc[Worker] = "none" /\ client_fd = NoFd /\ epoll_fd = NoFd
        /\ fdt = [f \in Fds |-> "free"] /\ ~foreign /\ crashed = "no" /\ worker_thread = "none"
    BY DEF Init, SocketsInit, Threads
  <2>3. Forgotten
    BY <2>1 DEF Forgotten, At
  <2>4. CleanStart /\ NothingOrphaned
    BY <2>2, Handles DEF CleanStart, NothingOrphaned, At, Connecting
  <2>5. MembersOwn /\ OwnDescriptorsOnly
    BY <2>2 DEF MembersOwn, OwnDescriptorsOnly
  <2>6. SentOnce
    BY <2>1 DEF SentOnce, At, Threads
  <2>7. JoinedOrDropped /\ TerminatedOnlyByDrop
    BY <2>2 DEF JoinedOrDropped, TerminatedOnlyByDrop, Connecting, Joinable, At
  <2> QED
    BY <2>3, <2>4, <2>5, <2>6, <2>7 DEF SessionInv
<1>2. TypeOK /\ Accounts /\ Order /\ SessionInv /\ [Next]_vars => SessionInv'
  <2> SUFFICES ASSUME TypeOK, Accounts, Order, SessionInv, [Next]_vars
               PROVE  SessionInv'
    OBVIOUS
  <2>1. Orderly => Forgotten'
    BY ForgottenStep DEF SessionInv
  <2>2. Orderly /\ ~Reconnects => CleanStart' /\ NothingOrphaned'
    BY CleanStartStep, OrphanStep DEF SessionInv
  <2>3. OneThread /\ ~Early => MembersOwn' /\ OwnDescriptorsOnly'
    BY OwnStep DEF SessionInv, Orderly
  <2>4. OneThread /\ ~Early => SentOnce'
    BY SentOnceStep DEF SessionInv
  <2>5. Disconnectors \subseteq {Owner} /\ ~Early => JoinedOrDropped' /\ TerminatedOnlyByDrop'
    BY DropStep DEF SessionInv
  <2> QED
    BY <2>1, <2>2, <2>3, <2>4, <2>5 DEF SessionInv, OneThread, Orderly
<1> QED
  BY <1>1, <1>2, ClientInvariant, ClientAccounts, PTL DEF Spec

\* Whoever disconnects, and whenever, but for data_cb while connect_to() executes:
\* connect_to() and disconnect() leave no descriptor behind, if the client does not connect
\* again over the members that a drop by the server left set.
THEOREM NothingIsOrphaned == Spec => [](Orderly /\ ~Reconnects => NothingOrphaned)
<1>1. SessionInv => (Orderly /\ ~Reconnects => NothingOrphaned)
  BY DEF SessionInv
<1> QED
  BY <1>1, SessionInvariant, PTL

\* With one thread and data_cb calling, which does not disconnect before connect_to() has
\* returned, connecting again or not, the client closes, reads and writes nothing that
\* belongs to the rest of the process.
THEOREM OnlyOwnDescriptors == Spec => [](OneThread /\ ~Early => OwnDescriptorsOnly)
<1>1. SessionInv => (OneThread /\ ~Early => OwnDescriptorsOnly)
  BY DEF SessionInv
<1> QED
  BY <1>1, SessionInvariant, PTL

\* For the same programs, what send_data() reports as sent went whole into one connection.
THEOREM SentIsWhole == Spec => [](OneThread /\ ~Early => SentWhole)
<1> DEFINE Order == (Orderly => OrderInv) /\ (~Early => ClientInv)
<1>1. TypeOK /\ Order /\ SessionInv => (OneThread /\ ~Early => SentWhole)
  <2> SUFFICES ASSUME OneThread, ~Early, TypeOK, ClientInv, SessionInv,
                      NEW t \in Threads, At(t, "write"), bytes_left[t] = 0
               PROVE  \E c \in Conns : wrote[t][c] = Payload
    BY DEF SentWhole
  <2>1. t \in Senders
    BY DEF ClientInv, OrderInv, RolesKept, At
  <2>2. PICK c \in Conns : WrittenTo(t, c)
    BY <2>1 DEF SessionInv, SentOnce
  <2>3. wrote[t][c] \in Nat
    BY DEF TypeOK
  <2> QED
    BY <2>2, <2>3 DEF WrittenTo
<1> QED
  BY <1>1, SessionInvariant, ClientInvariant, PTL

\* A program that disconnects only on the thread that connects and destroys the client, which
\* no signal handler interrupts, is terminated only after the server has ended a link.
THEOREM TerminatedByDropOnly ==
    Spec => [](Disconnectors \subseteq {Owner} /\ ~Early => TerminatedOnlyByDrop)
<1>1. SessionInv => (Disconnectors \subseteq {Owner} /\ ~Early => TerminatedOnlyByDrop)
  BY DEF SessionInv
<1> QED
  BY <1>1, SessionInvariant, PTL
=============================================================================
