--------------------------- MODULE ServerStopProofs ---------------------------
(***************************************************************************)
(* CleanInv and SignalInv, proved for every set of descriptors and         *)
(* connections: what start() and stop() leave open, what cleanup() closes, *)
(* and which connections the event loop watches.                           *)
(***************************************************************************)
EXTENDS TcpServerProofs

USE SocketsAssumption, ServerAssumption

\* -1 is no descriptor, and no two kinds of handle are confused.
LEMMA Handles ==
    /\ NoFd \notin Fds /\ Handle(NoFd) = "free" /\ Handle(NoFd)' = "free"
    /\ ~(NoFd >= 0) /\ \A f \in Fds : f >= 0
    /\ {"free", "socket", "listener", "epoll", "other"} \cap Conns = {}
  BY DEF NoFd, Handle, Kinds

\* A close leaves its number free and every other as it was.
LEMMA CloseHandle ==
    ASSUME TypeOK, NEW n, Close(n)
    PROVE  /\ \A m : Handle(m)' = IF m = n THEN "free" ELSE Handle(m)
           /\ interest' = interest \ {n}
  BY DEF Close, Handle, TypeOK, SocketsTypeOK

\* Only the boot sequence of start() opens a socket, a listener or an epoll instance.
LEMMA OnlyBootOpens ==
    ASSUME TypeOK, [Next]_vars, ~Boot
    PROVE  \A f \in Fds : fdt'[f] \in Mine => fdt'[f] = fdt[f]
<1> USE Handles DEF Mine, TypeOK, SocketsTypeOK, kernel
<1>1. ASSUME NEW n, Close(n)
      PROVE  \A f \in Fds : fdt'[f] \in Mine => fdt'[f] = fdt[f]
  BY <1>1 DEF Close
<1>2. CASE EventLoop
  <2>1. CASE Accept
    BY <2>1 DEF Accept, Install, Queued
  <2> QED
    BY <1>1, <1>2, <2>1 DEF EventLoop, LoopTest, EpollWait, WaitTimeout, WaitEvents, Dispatch, Add, Reject,
                            ReadData, ReadAgain, ReadEnd, ReadForeign, Drop
<1>3. ASSUME NEW t \in Threads, Cleanup(t)
      PROVE  \A f \in Fds : fdt'[f] \in Mine => fdt'[f] = fdt[f]
  BY <1>1, <1>3 DEF Cleanup, StopTest, CloseEpoll, ClearEpoll, CloseServer, ClearServer, ClearRunning
<1>4. CASE Environment
  BY <1>4 DEF Environment, Outside, OtherOpen, OtherClose, Install, Lowest, PeerSend, PeerEnd, PeerConnect
<1>5. CASE (\E t \in Stoppers : CallStop(t)) \/ UNCHANGED vars
  BY <1>5 DEF CallStop, vars
<1> QED
  BY <1>2, <1>3, <1>4, <1>5 DEF Next, Calls

\* server_fd and epoll_fd are set by the boot sequence and reset by cleanup(), and by
\* nobody else.
LEMMA OnlyCleanupResets ==
    ASSUME [Next]_vars, ~Boot
    PROVE  /\ UNCHANGED server_fd \/ (server_fd' = NoFd /\ \E t \in Threads : ClearServer(t))
           /\ UNCHANGED epoll_fd \/ (epoll_fd' = NoFd /\ \E t \in Threads : ClearEpoll(t))
<1> USE DEF obj
<1>1. CASE EventLoop
  BY <1>1 DEF EventLoop, LoopTest, EpollWait, WaitTimeout, WaitEvents, Dispatch, Accept, Add,
              ReadData, ReadAgain, ReadEnd, ReadForeign, Drop
<1>2. ASSUME NEW t \in Threads, Cleanup(t)
      PROVE  /\ UNCHANGED server_fd \/ (server_fd' = NoFd /\ ClearServer(t))
             /\ UNCHANGED epoll_fd \/ (epoll_fd' = NoFd /\ ClearEpoll(t))
  BY <1>2 DEF Cleanup, StopTest, CloseEpoll, ClearEpoll, CloseServer, ClearServer, ClearRunning
<1>3. CASE Environment \/ (\E t \in Stoppers : CallStop(t)) \/ UNCHANGED vars
  BY <1>3 DEF Environment, CallStop, vars
<1> QED
  BY <1>1, <1>2, <1>3 DEF Next, Calls

\* With no start() beside a stop(), a stop() that comes while start() boots sees a server
\* that is not running, and returns.
LEMMA BootApartStep ==
    ASSUME TypeOK, Serial, BootApart, Forgotten, [Next]_vars
    PROVE  BootApart'
<1>0. /\ pc \in [Threads -> Labels] /\ ret \in {"idle", "read"} /\ Reactor \in Threads
      /\ Reactor \notin Stoppers /\ Stoppers \subseteq Threads
  BY DEF TypeOK, Threads
<1> USE <1>0 DEF BootApart, Booting, BootLabels, CleanupLabels, At, Goto, Advance, Leave, Exit
<1>1. CASE Boot
  BY <1>1 DEF Boot, Socket, Configure, EpollCreate, Register, SetRunning, obj
<1>2. CASE EventLoop
  BY <1>2 DEF EventLoop, LoopTest, EpollWait, WaitTimeout, WaitEvents, Dispatch, NextEvent, Accept, Add,
              ReadData, ReadOn, ReadAgain, ReadEnd, ConnectionClosed, ReadForeign, Drop, obj
<1>3. ASSUME NEW t \in Threads, Cleanup(t)
      PROVE  BootApart'
  <2>1. CASE StopTest(t)
    <3>1. CASE is_running
      BY <2>1, <3>1 DEF StopTest, obj
    <3>2. CASE ~is_running
      BY <2>1, <3>2 DEF StopTest, Return, Forgotten, obj
    <3> QED
      BY <3>1, <3>2
  <2>2. CASE ClearRunning(t)
    BY <2>2 DEF ClearRunning, Return
  <2>3. CASE CloseEpoll(t) \/ ClearEpoll(t) \/ CloseServer(t) \/ ClearServer(t)
    BY <2>3 DEF CloseEpoll, ClearEpoll, CloseServer, ClearServer, obj
  <2> QED
    BY <1>3, <2>1, <2>2, <2>3 DEF Cleanup
<1>4. CASE \E t \in Stoppers : CallStop(t)
  BY <1>4 DEF CallStop, obj
<1>5. CASE Environment \/ UNCHANGED vars
  BY <1>5 DEF Environment, vars, obj
<1> QED
  BY <1>1, <1>2, <1>3, <1>4, <1>5 DEF Next, Calls

\* When start() boots, no cleanup() is in progress; when it returns, both members are
\* reset and stay so.
LEMMA ForgottenStep ==
    ASSUME TypeOK, Serial, BootApart, Forgotten, [Next]_vars
    PROVE  Forgotten'
<1>0. /\ pc \in [Threads -> Labels] /\ ret \in {"idle", "read"} /\ Reactor \in Threads
      /\ Reactor \notin Stoppers /\ Threads = Stoppers \cup {Reactor}
      /\ server_fd \in Fds \cup {NoFd} /\ epoll_fd \in Fds \cup {NoFd}
  BY DEF TypeOK, Threads
<1> USE <1>0, Handles DEF Forgotten, At, Goto, Advance, Leave, Exit
<1>1. CASE Boot
  <2>1. /\ \A t \in Threads : pc'[t] \notin {"clearE", "closeS", "clearS", "clearRun"}
        /\ pc'[Reactor] # "stop"
    BY <1>1 DEF Boot, Socket, Configure, EpollCreate, Register, SetRunning, BootApart, Booting,
                BootLabels, CleanupLabels
  <2>2. CASE Socket
    BY <2>1, <2>2 DEF Socket
  <2>3. CASE Configure
    BY <2>1, <2>3 DEF Configure, obj
  <2>4. CASE EpollCreate \/ Register \/ SetRunning
    <3>1. pc'[Reactor] \notin {"idle", "config", "epoll"}
      BY <2>4 DEF EpollCreate, Register, SetRunning
    <3> QED
      BY <2>1, <3>1
  <2> QED
    BY <1>1, <2>2, <2>3, <2>4 DEF Boot
<1>2. ASSUME ~Boot, NEW t \in Threads,
             pc'[t] = pc[t] \/ pc'[t] \notin {"clearE", "closeS", "clearS", "clearRun"}
      PROVE  /\ At(t, "clearE")' => Handle(epoll_fd)' \notin Mine
             /\ At(t, "clearS")' => Handle(server_fd)' \notin Mine
             /\ pc'[t] \in {"closeS", "clearS", "clearRun"} => epoll_fd' = NoFd
             /\ At(t, "clearRun")' => server_fd' = NoFd
  <2>1. \A m : Handle(m) \notin Mine => Handle(m)' \notin Mine
    BY <1>2, OnlyBootOpens DEF Handle, Mine
  <2> QED
    BY <1>2, <2>1, OnlyCleanupResets DEF Mine
<1>3. ASSUME ~Boot, pc'[Reactor] = pc[Reactor] \/ pc'[Reactor] \notin {"idle", "config", "epoll", "stop"},
             At(Reactor, "stop") => UNCHANGED ret
      PROVE  /\ At(Reactor, "stop")' => ret' = "read"
             /\ At(Reactor, "idle")' => server_fd' = NoFd
             /\ pc'[Reactor] \in {"idle", "config", "epoll"} => epoll_fd' = NoFd
  BY <1>3, OnlyCleanupResets
<1>4. CASE ~Boot /\ EventLoop
  <2>1. PICK label \in LoopLabels \cup {"closeE", "stop"} :
            pc' = [pc EXCEPT ![Reactor] = label] /\ (label = "stop" => ret' = "read")
    BY <1>4 DEF EventLoop, LoopTest, EpollWait, WaitTimeout, WaitEvents, Dispatch, NextEvent, Accept, Add,
                ReadData, ReadOn, ReadAgain, ReadEnd, ConnectionClosed, ReadForeign, Drop, LoopLabels
  <2>2. \A t \in Threads : pc'[t] = pc[t] \/ pc'[t] \notin {"clearE", "closeS", "clearS", "clearRun"}
    BY <2>1 DEF LoopLabels
  <2>3. pc'[Reactor] \notin {"idle", "config", "epoll"} /\ (pc'[Reactor] = "stop" => ret' = "read")
    BY <2>1 DEF LoopLabels
  <2>4. \A t \in Threads :
            /\ At(t, "clearE")' => Handle(epoll_fd)' \notin Mine
            /\ At(t, "clearS")' => Handle(server_fd)' \notin Mine
            /\ pc'[t] \in {"closeS", "clearS", "clearRun"} => epoll_fd' = NoFd
            /\ At(t, "clearRun")' => server_fd' = NoFd
    <3> TAKE t \in Threads
    <3>1. pc'[t] = pc[t] \/ pc'[t] \notin {"clearE", "closeS", "clearS", "clearRun"}
      BY <2>2
    <3> QED
      BY <1>2, <1>4, <3>1
  <2> QED
    BY <2>3, <2>4
<1>5. ASSUME ~Boot, NEW t \in Threads, Cleanup(t)
      PROVE  Forgotten'
  <2> USE <1>5
  <2>1. CASE StopTest(t)
    <3>1. UNCHANGED <<server_fd, epoll_fd, fdt>>
      BY <2>1 DEF StopTest, obj, kernel
    <3>2. CASE is_running
      BY <2>1, <3>1, <3>2 DEF StopTest, locals, Handle
    <3>3. CASE ~is_running
      BY <2>1, <3>1, <3>3 DEF StopTest, Return, Handle
    <3> QED
      BY <3>2, <3>3
  <2>2. CASE CloseEpoll(t)
    <3>1. CASE epoll_fd >= 0
      <4>1. Close(epoll_fd) /\ UNCHANGED <<obj, locals>> /\ pc' = [pc EXCEPT ![t] = "clearE"]
        BY <2>2, <3>1 DEF CloseEpoll
      <4> QED
        BY <4>1, CloseHandle DEF obj, locals, Mine
    <3>2. CASE epoll_fd = NoFd
      BY <2>2, <3>2 DEF CloseEpoll, obj, locals, kernel, Handle
    <3> QED
      BY <3>1, <3>2
  <2>3. CASE ClearEpoll(t)
    BY <2>3 DEF ClearEpoll, locals, kernel, Handle, Mine
  <2>4. CASE CloseServer(t)
    <3>1. CASE server_fd >= 0
      <4>1. Close(server_fd) /\ UNCHANGED <<obj, locals>> /\ pc' = [pc EXCEPT ![t] = "clearS"]
        BY <2>4, <3>1 DEF CloseServer
      <4> QED
        BY <2>4, <4>1, CloseHandle DEF CloseServer, obj, locals, Mine
    <3>2. CASE server_fd = NoFd
      BY <2>4, <3>2 DEF CloseServer, obj, locals, kernel, Handle
    <3> QED
      BY <3>1, <3>2
  <2>5. CASE ClearServer(t)
    BY <2>5 DEF ClearServer, locals, kernel, Handle, Mine
  <2>6. CASE ClearRunning(t)
    BY <2>6 DEF ClearRunning, Return, kernel, Handle
  <2> QED
    BY <2>1, <2>2, <2>3, <2>4, <2>5, <2>6 DEF Cleanup
<1>6. CASE ~Boot /\ ((\E t \in Stoppers : CallStop(t)) \/ Environment \/ UNCHANGED vars)
  <2>1. \A t \in Threads : pc'[t] = pc[t] \/ (t # Reactor /\ pc'[t] = "stop")
    BY <1>6 DEF CallStop, Environment, vars
  <2>2. UNCHANGED ret
    BY <1>6 DEF CallStop, Environment, vars, locals
  <2> QED
    BY <1>2, <1>3, <1>6, <2>1, <2>2
<1> QED
  BY <1>1, <1>4, <1>5, <1>6 DEF Next, Calls

\* What start() opens it puts into a member that is empty, and cleanup() empties a member
\* only after the close.
LEMMA AccountedStep ==
    ASSUME TypeOK, Forgotten, Accounted, [Next]_vars
    PROVE  Accounted'
<1>0. fdt \in [Fds -> Kinds \cup Conns] /\ Threads = Stoppers \cup {Reactor}
  BY DEF TypeOK, SocketsTypeOK, Threads
<1> USE <1>0, Handles DEF Accounted, Mine, At
<1>1. CASE Socket
  <2>1. \A f \in Fds : fdt[f] \notin Mine
    BY <1>1 DEF Socket, Forgotten
  <2> QED
    BY <1>1, <2>1 DEF Socket, Install, Lowest
<1>2. CASE Configure
  BY <1>2 DEF Configure, Install, Handle, obj
<1>3. CASE EpollCreate
  <2>1. \A f \in Fds : fdt[f] \in Mine => f = server_fd
    BY <1>3 DEF EpollCreate, Forgotten
  <2> QED
    BY <1>3, <2>1 DEF EpollCreate, Install, Lowest
<1>4. CASE Register \/ SetRunning
  BY <1>4 DEF Register, SetRunning, obj, kernel
<1>5. CASE ~Boot
  <2>1. \A f \in Fds : fdt'[f] \in Mine => fdt'[f] = fdt[f]
    BY <1>5, OnlyBootOpens
  <2>2. CASE UNCHANGED <<server_fd, epoll_fd>>
    BY <2>1, <2>2
  <2>3. ASSUME NEW t \in Threads, ClearServer(t) \/ ClearEpoll(t)
        PROVE  Accounted'
    BY <2>3 DEF ClearServer, ClearEpoll, Forgotten, Handle, kernel
  <2> QED
    BY <1>5, <2>2, <2>3, OnlyCleanupResets
<1> QED
  BY <1>1, <1>2, <1>3, <1>4, <1>5 DEF Boot

\* CleanInv holds before the first start(), and no step of any thread breaks it.
THEOREM CleanInvariant == Spec => [](TypeOK /\ CleanInv)
<1>1. Init => CleanInv
  BY Handles DEF Init, SocketsInit, CleanInv, BootApart, Forgotten, Accounted, Booting, BootLabels,
                 Mine, At, Threads
<1>2. TypeOK /\ CleanInv /\ [Next]_vars => CleanInv'
  BY BootApartStep, ForgottenStep, AccountedStep DEF CleanInv
<1> QED
  BY <1>1, <1>2, TypeCorrect, PTL DEF Spec

\* If start() is not called while a stop() executes, any number of threads and handlers
\* may call stop() at any moment of it: when all calls have returned, the server holds no
\* socket, no listener and no epoll instance.
THEOREM AllClosed == Spec => [](Serial => NothingLeftOpen)
<1>1. CleanInv => (Serial => NothingLeftOpen)
  <2> SUFFICES ASSUME CleanInv, Serial, \A t \in Threads : At(t, "idle"), NEW f \in Fds
               PROVE  fdt[f] \notin Mine
    BY DEF NothingLeftOpen, Mine
  <2>1. server_fd = NoFd /\ epoll_fd = NoFd
    BY DEF CleanInv, Forgotten, At, Threads
  <2> QED
    BY <2>1, Handles DEF CleanInv, Accounted
<1> QED
  BY <1>1, CleanInvariant, PTL

-----------------------------------------------------------------------------
\* With one handler and no other stop(), one thread at a time is in cleanup(), and start()
\* stands still while the handler is.
LEMMA OneCleaner ==
    ASSUME TypeOK, SignalsOnly, OneCleanup, NEW t \in Threads, pc[t] \in CleanupLabels
    PROVE  /\ \A u \in Threads : pc[u] \in CleanupLabels => u = t
           /\ t # Reactor => ~Awake(Reactor) /\ pc[Reactor] \in LoopLabels
           /\ t = Reactor => pc[Reactor] \notin LoopLabels
<1>1. CleanupLabels \cap (LoopLabels \cup {"idle"}) = {}
  BY DEF CleanupLabels, LoopLabels
<1> QED
  BY <1>1 DEF SignalsOnly, OneCleanup, Threads, Awake, At

\* As long as no handler is in cleanup(), the loop has its epoll instance or was stopped.
LEMMA LoopOpen ==
    ASSUME TypeOK, SignalsOnly, OneCleanup, MembersOwn, BatchCurrent, Awake(Reactor),
           pc[Reactor] \in LoopLabels
    PROVE  \/ server_fd = NoFd /\ epoll_fd = NoFd /\ ~is_running
           \/ /\ Handle(epoll_fd) = "epoll" /\ Handle(server_fd) \in {"socket", "listener"}
              /\ events \subseteq interest
              /\ pc[Reactor] \in {"read", "drop"} => cur \in interest \ (events \cup {server_fd})
              /\ At(Reactor, "add") => Handle(newfd) \in Conns /\ newfd \notin interest
<1>1. \A t \in Threads : pc[t] \notin CleanupLabels
  BY DEF SignalsOnly, Awake, At, Threads, LoopLabels, CleanupLabels
<1>2. \A t \in Threads : ~At(t, "clearE") /\ ~At(t, "clearS")
  BY <1>1 DEF At, CleanupLabels
<1>3. \A h \in Stoppers : pc[h] \notin CleanupLabels
  BY <1>1 DEF Threads
<1> QED
  BY <1>2, <1>3 DEF BatchCurrent, MembersOwn

\* The handler begins a cleanup() only in a loop that is running, and start() leaves its
\* loop only when it is not.
LEMMA OneCleanupStep ==
    ASSUME TypeOK, SignalsOnly, OneCleanup, MembersOwn, BatchCurrent, [Next]_vars
    PROVE  OneCleanup'
<1>0. /\ pc \in [Threads -> Labels] /\ Reactor \in Threads /\ Reactor \notin Stoppers
      /\ Stoppers \subseteq Threads /\ Stoppers \subseteq Handlers /\ ~CallbackStops
  BY DEF TypeOK, Threads, SignalsOnly
<1> USE <1>0 DEF OneCleanup, At, Goto, Advance, Leave, Exit
<1>1. CASE Awake(Reactor) /\ Boot
  <2>1. /\ \A h \in Stoppers : pc'[h] = "idle"
        /\ pc'[Reactor] \in BootLabels \cup {"idle", "loop", "closeE"} /\ UNCHANGED ret
        /\ pc'[Reactor] # "loop" => ~is_running'
    BY <1>1 DEF Awake, Boot, Socket, Configure, EpollCreate, Register, SetRunning, BootLabels, LoopLabels,
                obj, locals
  <2> QED
    BY <2>1 DEF BootLabels, LoopLabels, CleanupLabels
<1>2. CASE Awake(Reactor) /\ EventLoop
  <2>1. pc[Reactor] \in LoopLabels
    BY <1>2 DEF LoopLabels, EventLoop, LoopTest, EpollWait, WaitTimeout, WaitEvents, Dispatch, Accept,
                Add, ReadData, ReadAgain, ReadEnd, ReadForeign, Drop
  <2>2. Handle(epoll_fd) = "epoll" \/ ~is_running
    BY <1>2, <2>1, LoopOpen
  <2>3. /\ \A h \in Stoppers : pc'[h] = "idle"
        /\ UNCHANGED <<ret, is_running>>
        /\ pc'[Reactor] \in LoopLabels \/ (pc'[Reactor] = "closeE" /\ ~is_running)
    BY <1>2, <2>2 DEF Awake, LoopLabels, EventLoop, LoopTest, EpollWait, WaitTimeout, WaitEvents, Dispatch,
                NextEvent, Accept, Add, ReadData, ReadOn, ReadAgain, ReadEnd, ConnectionClosed,
                ReadForeign, Drop, obj, locals
  <2> QED
    BY <2>3 DEF CleanupLabels, LoopLabels
<1>3. ASSUME NEW t \in Threads, Awake(t), Cleanup(t)
      PROVE  OneCleanup'
  <2>1. CASE t = Reactor
    <3>1. /\ \A h \in Stoppers : pc'[h] = "idle"
          /\ pc'[Reactor] \notin LoopLabels \cup {"stop"} /\ pc[Reactor] \notin LoopLabels
          /\ ret' = "idle" /\ (is_running' => is_running)
      BY <1>3, <2>1 DEF Awake, Cleanup, StopTest, CloseEpoll, ClearEpoll, CloseServer, ClearServer,
                        ClearRunning, Return, LoopLabels, obj, locals
    <3> QED
      BY <3>1 DEF CleanupLabels
  <2>2. CASE t # Reactor
    <3>1. /\ pc'[Reactor] = pc[Reactor] /\ ret' = "idle" /\ (is_running' => is_running)
          /\ \A h \in Stoppers : pc'[h] = pc[h] \/ h = t
          /\ pc'[t] \in CleanupLabels => is_running \/ pc[t] \in CleanupLabels
      BY <1>3, <2>2 DEF Cleanup, StopTest, CloseEpoll, ClearEpoll, CloseServer, ClearServer,
                        ClearRunning, Return, CleanupLabels, obj, locals
    <3> QED
      BY <2>2, <3>1 DEF Threads
  <2> QED
    BY <2>1, <2>2
<1>4. CASE \E t \in Stoppers : CallStop(t)
  BY <1>4 DEF CallStop, CleanupLabels, obj, locals
<1>5. CASE Environment \/ UNCHANGED vars
  BY <1>5 DEF Environment, vars, obj, locals
<1> QED
  BY <1>1, <1>2, <1>3, <1>4, <1>5 DEF Next, Calls

\* start() fills empty numbers and its loop closes none of its own; cleanup() resets what
\* it has closed before anybody else looks.
LEMMA MembersOwnStep ==
    ASSUME TypeOK, InterestOpen, SignalsOnly, OneCleanup, MembersOwn, BatchCurrent, [Next]_vars
    PROVE  MembersOwn'
<1>0. /\ pc \in [Threads -> Labels] /\ Reactor \in Threads /\ Reactor \notin Stoppers
      /\ Threads = Stoppers \cup {Reactor} /\ Stoppers \subseteq Handlers /\ ~CallbackStops
      /\ server_fd \in Fds \cup {NoFd} /\ epoll_fd \in Fds \cup {NoFd}
      /\ fdt \in [Fds -> Kinds \cup Conns]
  BY DEF TypeOK, SocketsTypeOK, Threads, SignalsOnly
<1> USE <1>0, Handles DEF At, Goto
<1>1. CASE Awake(Reactor) /\ Boot
  <2>1. /\ \A t \in Threads : pc'[t] \notin {"clearE", "closeS", "clearS", "clearRun"}
        /\ epoll_fd = NoFd \/ Handle(epoll_fd) = "epoll"
        /\ server_fd = NoFd \/ Handle(server_fd) \in {"socket", "listener"}
    BY <1>1 DEF Awake, Boot, Socket, Configure, EpollCreate, Register, SetRunning, Advance, Leave, Exit,
                MembersOwn
  <2>2. CASE Socket
    BY <2>1, <2>2 DEF Socket, Install, Lowest, Handle, MembersOwn
  <2>3. CASE Configure
    BY <2>1, <2>3 DEF Configure, Advance, Leave, Exit, Install, Handle, MembersOwn, obj
  <2>4. CASE EpollCreate
    BY <2>1, <2>4 DEF EpollCreate, Advance, Leave, Exit, Install, Lowest, Handle, MembersOwn
  <2>5. CASE Register \/ SetRunning
    BY <2>1, <2>5 DEF Register, SetRunning, Advance, Leave, Exit, Handle, MembersOwn, obj, kernel
  <2> QED
    BY <1>1, <2>2, <2>3, <2>4, <2>5 DEF Boot
<1>2. CASE Awake(Reactor) /\ EventLoop
  <2>1. pc[Reactor] \in LoopLabels
    BY <1>2 DEF LoopLabels, EventLoop, LoopTest, EpollWait, WaitTimeout, WaitEvents, Dispatch, Accept,
                Add, ReadData, ReadAgain, ReadEnd, ReadForeign, Drop
  <2>2. /\ \A t \in Threads : pc'[t] \notin {"clearE", "closeS", "clearS", "clearRun"}
        /\ pc'[Reactor] # "setrun" /\ UNCHANGED <<server_fd, epoll_fd>>
    BY <1>2 DEF Awake, EventLoop, LoopTest, EpollWait, WaitTimeout, WaitEvents, Dispatch,
                NextEvent, Accept, Add, ReadData, ReadOn, ReadAgain, ReadEnd, ConnectionClosed,
                ReadForeign, Drop, Advance, Leave, Exit, obj
  <2>3. CASE server_fd = NoFd /\ epoll_fd = NoFd
    BY <2>2, <2>3 DEF MembersOwn
  <2>4. CASE server_fd # NoFd \/ epoll_fd # NoFd
    <3>1. /\ Handle(epoll_fd) = "epoll" /\ Handle(server_fd) \in {"socket", "listener"}
          /\ At(Reactor, "drop") => cur # server_fd /\ Handle(cur) \in Conns \cup {"listener"}
          /\ At(Reactor, "add") => Handle(newfd) \in Conns
      BY <1>2, <2>1, <2>4, LoopOpen DEF InterestOpen, Handle, TypeOK, SocketsTypeOK
    <3>2. UNCHANGED <<Handle(epoll_fd), Handle(server_fd)>>
      <4>1. CASE Drop
        BY <3>1, <4>1, CloseHandle DEF Drop, obj
      <4>2. CASE Add
        <5>1. CASE Close(newfd)
          BY <3>1, <4>2, <5>1, CloseHandle DEF Add, obj
        <5>2. CASE UNCHANGED fdt
          BY <2>2, <5>2 DEF Handle
        <5> QED
          BY <4>2, <5>1, <5>2 DEF Add, Reject
      <4>3. CASE Accept
        BY <2>2, <3>1, <4>3 DEF Accept, Install, Lowest, Handle
      <4>4. CASE UNCHANGED fdt
        BY <2>2, <4>4 DEF Handle
      <4> QED
        BY <1>2, <4>1, <4>2, <4>3, <4>4 DEF EventLoop, LoopTest, EpollWait, WaitTimeout, WaitEvents,
           Dispatch, ReadData, ReadAgain, ReadEnd, ReadForeign, kernel
    <3> QED
      BY <2>2, <3>1, <3>2 DEF MembersOwn
  <2> QED
    BY <2>3, <2>4
<1>3. ASSUME NEW t \in Threads, Awake(t), Cleanup(t)
      PROVE  MembersOwn'
  <2>1. CASE StopTest(t)
    <3>1. /\ UNCHANGED <<server_fd, epoll_fd, fdt>>
          /\ \A u \in Threads : pc'[u] = pc[u] \/ (u = t /\ pc[t] = "stop" /\ pc'[t] \in {"idle", "closeE"})
      BY <2>1 DEF StopTest, Return, OneCleanup, obj, kernel
    <3> QED
      BY <3>1 DEF MembersOwn, Handle
  <2>2. CASE pc[t] \in CleanupLabels
    <3>1. /\ \A u \in Threads \ {t} : pc[u] \notin CleanupLabels /\ pc'[u] = pc[u]
          /\ pc'[Reactor] # "setrun"
      <4>1. pc[Reactor] # "setrun"
        BY <2>2, OneCleaner DEF LoopLabels, CleanupLabels
      <4>2. \A u \in Threads \ {t} : pc'[u] = pc[u]
        BY <1>3 DEF Cleanup, StopTest, CloseEpoll, ClearEpoll, CloseServer, ClearServer,
                    ClearRunning, Return
      <4>3. pc'[t] # "setrun"
        BY <1>3 DEF Cleanup, StopTest, CloseEpoll, ClearEpoll, CloseServer, ClearServer,
                    ClearRunning, Return, OneCleanup
      <4> QED
        BY <2>2, <4>1, <4>2, <4>3, OneCleaner
    <3>2. \A u \in Threads \ {t} : pc'[u] \notin {"clearE", "closeS", "clearS", "clearRun"}
      BY <3>1 DEF CleanupLabels
    <3>3. CASE CloseEpoll(t)
      <4>1. epoll_fd = NoFd \/ Handle(epoll_fd) = "epoll"
        BY <3>2, <3>1, <3>3 DEF CloseEpoll, MembersOwn, CleanupLabels
      <4>2. server_fd = NoFd \/ (server_fd # epoll_fd /\ Handle(server_fd) \in {"socket", "listener"})
        BY <3>2, <3>1, <3>3, <4>1 DEF CloseEpoll, MembersOwn, CleanupLabels
      <4>3. CASE epoll_fd >= 0
        <5>1. Close(epoll_fd) /\ UNCHANGED obj /\ pc'[t] = "clearE"
          BY <3>3, <4>3 DEF CloseEpoll
        <5> QED
          BY <3>1, <3>2, <4>2, <5>1, CloseHandle DEF MembersOwn, obj
      <4>4. CASE epoll_fd = NoFd
        BY <3>1, <3>2, <3>3, <4>2, <4>4 DEF CloseEpoll, MembersOwn, Handle, obj, kernel
      <4> QED
        BY <4>3, <4>4
    <3>4. CASE ClearEpoll(t)
      <4>1. server_fd = NoFd \/ Handle(server_fd) \in {"socket", "listener"}
        BY <3>1, <3>4 DEF ClearEpoll, MembersOwn, CleanupLabels
      <4> QED
        BY <3>1, <3>2, <3>4, <4>1 DEF ClearEpoll, MembersOwn, Handle, kernel
    <3>5. CASE CloseServer(t)
      <4>1. epoll_fd = NoFd
        BY <3>5 DEF CloseServer, MembersOwn
      <4>2. CASE server_fd >= 0
        <5>1. UNCHANGED obj /\ pc'[t] = "clearS"
          BY <3>5, <4>2 DEF CloseServer
        <5> QED
          BY <3>1, <3>2, <4>1, <5>1 DEF MembersOwn, obj
      <4>3. CASE server_fd = NoFd
        BY <3>1, <3>2, <3>5, <4>1, <4>3 DEF CloseServer, MembersOwn, Handle, obj, kernel
      <4> QED
        BY <4>2, <4>3
    <3>6. CASE ClearServer(t)
      BY <3>1, <3>2, <3>6 DEF ClearServer, MembersOwn
    <3>7. CASE ClearRunning(t)
      <4>1. server_fd' = NoFd /\ epoll_fd' = NoFd
        BY <3>7 DEF ClearRunning, MembersOwn
      <4> QED
        BY <3>1, <4>1 DEF MembersOwn
    <3> QED
      BY <1>3, <2>2, <3>3, <3>4, <3>5, <3>6, <3>7 DEF Cleanup, StopTest, CleanupLabels
  <2> QED
    BY <1>3, <2>1, <2>2 DEF Cleanup, CloseEpoll, ClearEpoll, CloseServer, ClearServer, ClearRunning,
                            CleanupLabels
<1>4. ASSUME UNCHANGED <<server_fd, epoll_fd>>, \A n : Handle(n) \in Mine => Handle(n)' = Handle(n),
             \A t \in Threads : pc'[t] = pc[t] \/ (pc[t] = "idle" /\ pc'[t] = "stop")
      PROVE  MembersOwn'
  BY <1>4 DEF MembersOwn, Mine
<1>5. CASE \E t \in Stoppers : CallStop(t)
  BY <1>4, <1>5 DEF CallStop, Handle, obj, kernel
<1>6. CASE Environment
  <2>1. \A f \in Fds : fdt[f] \in Mine => fdt'[f] = fdt[f]
    BY <1>6 DEF Environment, Outside, OtherOpen, OtherClose, Install, Lowest, PeerSend, PeerEnd,
                PeerConnect, Mine
  <2>2. \A n : Handle(n) \in Mine => Handle(n)' = Handle(n)
    BY <2>1 DEF Handle, Mine
  <2> QED
    BY <1>4, <1>6, <2>2 DEF Environment, obj
<1>7. CASE UNCHANGED vars
  BY <1>4, <1>7 DEF vars, obj, kernel, Handle
<1> QED
  BY <1>1, <1>2, <1>3, <1>5, <1>6, <1>7 DEF Next, Calls


\* The loop reads and closes only numbers that are registered: a batch is part of the
\* epoll set, and what is accepted, dropped or rejected is not in the rest of the batch.
LEMMA BatchCurrentStep ==
    ASSUME TypeOK, InterestOpen, BatchInLoop, SignalsOnly, OneCleanup, MembersOwn, BatchCurrent,
           [Next]_vars
    PROVE  BatchCurrent'
<1>0. /\ pc \in [Threads -> Labels] /\ Reactor \in Threads /\ Reactor \notin Stoppers
      /\ Stoppers \subseteq Threads /\ Stoppers \subseteq Handlers /\ ~CallbackStops
      /\ fdt \in [Fds -> Kinds \cup Conns] /\ interest \subseteq Fds
  BY DEF TypeOK, SocketsTypeOK, Threads, SignalsOnly
<1> USE <1>0, Handles DEF At, Goto
<1>1. CASE Awake(Reactor) /\ Boot
  <2>1. CASE SetRunning
    <3>1. server_fd # NoFd /\ epoll_fd # NoFd /\ events = {}
      BY <2>1 DEF SetRunning, MembersOwn, BatchInLoop, OneCleanup
    <3> QED
      BY <2>1, <3>1 DEF SetRunning, BatchCurrent, Advance, locals, kernel, epoll
  <2>2. CASE ~SetRunning
    <3>1. pc'[Reactor] \notin LoopLabels
      BY <1>1, <2>2 DEF Boot, Socket, Configure, EpollCreate, Register, Advance, Leave, Exit, LoopLabels
    <3> QED
      BY <3>1 DEF BatchCurrent
  <2> QED
    BY <2>1, <2>2
<1>2. CASE Awake(Reactor) /\ EventLoop
  <2>1. /\ pc[Reactor] \in LoopLabels /\ UNCHANGED <<server_fd, epoll_fd, is_running>>
        /\ \A h \in Stoppers : pc[h] = "idle"
    BY <1>2 DEF Awake, LoopLabels, EventLoop, LoopTest, EpollWait, WaitTimeout, WaitEvents, Dispatch, Accept,
                Add, ReadData, ReadAgain, ReadEnd, ReadForeign, Drop, obj
  <2>2. CASE server_fd = NoFd /\ epoll_fd = NoFd /\ ~is_running
    BY <2>1, <2>2 DEF BatchCurrent
  <2>3. CASE ~(server_fd = NoFd /\ epoll_fd = NoFd /\ ~is_running)
    <3>1. /\ server_fd # NoFd /\ epoll_fd # NoFd /\ events \subseteq interest
          /\ pc[Reactor] \in {"read", "drop"} => cur \in interest \ (events \cup {server_fd})
          /\ At(Reactor, "add") => Handle(newfd) \in Conns /\ newfd \notin interest
      BY <2>1, <2>3 DEF BatchCurrent, CleanupLabels
    <3> SUFFICES ASSUME pc'[Reactor] \in LoopLabels
                 PROVE  /\ events' \subseteq interest'
                        /\ pc'[Reactor] \in {"read", "drop"} => cur' \in interest' \ (events' \cup {server_fd'})
                        /\ At(Reactor, "add")' => Handle(newfd)' \in Conns /\ newfd' \notin interest'
      BY <2>1, <3>1 DEF BatchCurrent
    <3> USE <2>1, <3>1 DEF Advance, NextEvent
    <3>2. CASE LoopTest \/ EpollWait \/ WaitTimeout
      BY <3>2 DEF LoopTest, EpollWait, WaitTimeout, Leave, Exit, LoopLabels, locals, kernel, epoll
    <3>3. CASE WaitEvents
      BY <3>3 DEF WaitEvents, Ready
    <3>4. CASE Dispatch
      BY <3>4 DEF Dispatch, kernel, epoll
    <3>5. CASE Accept
      <4>1. CASE NextEvent
        BY <3>5, <4>1 DEF Accept, epoll
      <4>2. CASE ~NextEvent
        <5>1. PICK c \in Queued, f \in Lowest :
                  /\ Install(f, c) /\ newfd' = f /\ Goto(Reactor, "add")
                  /\ UNCHANGED <<ret, status, events, cur>>
          BY <3>5, <4>2 DEF Accept
        <5>2. f \in Fds /\ f \notin interest /\ c \in Conns
          BY DEF Lowest, InterestOpen, Queued
        <5> QED
          BY <3>5, <5>1, <5>2 DEF Accept, Install, Handle, epoll
      <4> QED
        BY <4>1, <4>2
    <3>6. CASE Add
      BY <3>6 DEF Add, Watch, Reject, Close
    <3>7. CASE ReadData
      BY <3>7 DEF ReadData, ReadOn, locals, epoll
    <3>8. CASE ReadAgain \/ ReadEnd \/ ReadForeign
      BY <3>8 DEF ReadAgain, ReadEnd, ReadForeign, ConnectionClosed, locals, kernel, epoll
    <3>9. CASE Drop
      BY <3>9 DEF Drop, Close
    <3> QED
      BY <1>2, <3>2, <3>3, <3>4, <3>5, <3>6, <3>7, <3>8, <3>9 DEF EventLoop
  <2> QED
    BY <2>2, <2>3
<1>3. ASSUME UNCHANGED <<server_fd, epoll_fd, is_running, events, cur, newfd, interest>>,
             \A n : Handle(n) \in Conns => Handle(n)' = Handle(n), pc'[Reactor] = pc[Reactor],
             \A h \in Stoppers : pc[h] \in CleanupLabels => pc'[h] \in CleanupLabels
      PROVE  BatchCurrent'
  BY <1>3 DEF BatchCurrent
<1>4. ASSUME NEW t \in Threads, Awake(t), Cleanup(t)
      PROVE  BatchCurrent'
  <2>1. CASE t = Reactor
    <3>1. pc'[Reactor] \notin LoopLabels
      BY <1>4, <2>1 DEF Cleanup, StopTest, CloseEpoll, ClearEpoll, CloseServer, ClearServer, ClearRunning,
                        Return, OneCleanup, LoopLabels
    <3> QED
      BY <3>1 DEF BatchCurrent
  <2>2. CASE t # Reactor /\ StopTest(t)
    <3>1. /\ pc'[Reactor] = pc[Reactor]
          /\ \A h \in Stoppers : pc[h] \in CleanupLabels => pc'[h] \in CleanupLabels
      BY <2>2 DEF StopTest, Return, CleanupLabels
    <3>2. UNCHANGED <<server_fd, epoll_fd, is_running, events, cur, newfd, interest, fdt>>
      BY <2>2 DEF StopTest, Return, obj, locals, kernel, epoll
    <3> QED
      BY <1>3, <3>1, <3>2 DEF Handle
  <2>3. CASE t # Reactor /\ ClearRunning(t)
    BY <2>3 DEF ClearRunning, MembersOwn, BatchCurrent
  <2>4. CASE t # Reactor /\ ~StopTest(t) /\ ~ClearRunning(t)
    <3>1. t \in Stoppers /\ pc'[t] \in CleanupLabels
      BY <1>4, <2>4 DEF Cleanup, CloseEpoll, ClearEpoll, CloseServer, ClearServer, Threads, CleanupLabels
    <3> QED
      BY <3>1 DEF BatchCurrent
  <2> QED
    BY <2>1, <2>2, <2>3, <2>4
<1>5. CASE \E t \in Stoppers : CallStop(t)
  BY <1>3, <1>5 DEF CallStop, Handle, CleanupLabels, obj, kernel, epoll, locals
<1>6. CASE Environment
  <2>1. \A n : Handle(n) \in Conns => Handle(n)' = Handle(n)
    BY <1>6 DEF Environment, Outside, OtherOpen, OtherClose, Install, Lowest, PeerSend, PeerEnd,
                PeerConnect, Handle
  <2>2. UNCHANGED interest
    BY <1>6 DEF Environment, Outside, OtherOpen, OtherClose, PeerSend, PeerEnd, PeerConnect, epoll
  <2> QED
    BY <1>3, <1>6, <2>1, <2>2 DEF Environment, obj, locals
<1>7. CASE UNCHANGED vars
  BY <1>3, <1>7 DEF vars, obj, kernel, epoll, locals, Handle
<1> QED
  BY <1>1, <1>2, <1>4, <1>5, <1>6, <1>7 DEF Next, Calls


\* A server that nobody stops never leaves its loop, and puts what it accepts into the
\* epoll set or closes it.
LEMMA UnstoppedStep ==
    ASSUME TypeOK, SignalsOnly, OneCleanup, MembersOwn, BatchCurrent, Unstopped, [Next]_vars
    PROVE  Unstopped'
<1> SUFFICES ASSUME Stoppers = {}
             PROVE  /\ pc'[Reactor] \in LoopLabels => is_running'
                    /\ pc'[Reactor] \notin LoopLabels => \A f \in Fds : fdt'[f] \notin Conns
                    /\ ConnectionsWatched'
  BY DEF Unstopped
<1>0. /\ pc \in [Threads -> Labels] /\ Threads = {Reactor} /\ Awake(Reactor)
      /\ fdt \in [Fds -> Kinds \cup Conns] /\ interest \subseteq Fds /\ ~CallbackStops
      /\ ret = "idle" /\ pc[Reactor] # "stop"
  BY DEF TypeOK, SocketsTypeOK, Threads, Awake, SignalsOnly, OneCleanup, At
<1>1. /\ pc[Reactor] \in LoopLabels => is_running
      /\ pc[Reactor] \notin LoopLabels => \A f \in Fds : fdt[f] \notin Conns
      /\ \A f \in Fds : fdt[f] \in Conns => f \in interest \/ (f = newfd /\ At(Reactor, "add"))
  BY DEF Unstopped, ConnectionsWatched
<1> USE <1>0, Handles DEF At, Goto
<1>2. ASSUME pc[Reactor] \notin LoopLabels, pc'[Reactor] \in LoopLabels => is_running',
             \A f \in Fds : fdt'[f] \in Conns => fdt[f] \in Conns
      PROVE  /\ pc'[Reactor] \in LoopLabels => is_running'
             /\ pc'[Reactor] \notin LoopLabels => \A f \in Fds : fdt'[f] \notin Conns
             /\ ConnectionsWatched'
  BY <1>1, <1>2 DEF ConnectionsWatched
<1>3. CASE Boot
  <2>1. pc[Reactor] \notin LoopLabels /\ (pc'[Reactor] \in LoopLabels => is_running')
    BY <1>3 DEF Boot, Socket, Configure, EpollCreate, Register, SetRunning, Advance, Leave, Exit, LoopLabels
  <2>2. \A f \in Fds : fdt'[f] \in Conns => fdt[f] \in Conns
    BY <1>3 DEF Boot, Socket, Configure, EpollCreate, Register, SetRunning, Install, Lowest, Handle, kernel
  <2> QED
    BY <1>2, <2>1, <2>2
<1>4. ASSUME NEW t \in Threads, Cleanup(t)
      PROVE  /\ pc'[Reactor] \in LoopLabels => is_running'
             /\ pc'[Reactor] \notin LoopLabels => \A f \in Fds : fdt'[f] \notin Conns
             /\ ConnectionsWatched'
  <2>1. pc[Reactor] \notin LoopLabels /\ pc'[Reactor] \notin LoopLabels
    BY <1>4 DEF Cleanup, StopTest, CloseEpoll, ClearEpoll, CloseServer, ClearServer, ClearRunning,
                Return, LoopLabels
  <2>2. \A f \in Fds : fdt'[f] \in Conns => fdt[f] \in Conns
    BY <1>4 DEF Cleanup, StopTest, CloseEpoll, ClearEpoll, CloseServer, ClearServer, ClearRunning,
                Close, kernel
  <2> QED
    BY <1>2, <2>1, <2>2
<1>5. CASE EventLoop
  <2>1. pc[Reactor] \in LoopLabels /\ is_running /\ is_running'
    BY <1>1, <1>5 DEF LoopLabels, EventLoop, LoopTest, EpollWait, WaitTimeout, WaitEvents, Dispatch, Accept,
                      Add, ReadData, ReadAgain, ReadEnd, ReadForeign, Drop, obj
  <2>2. Handle(epoll_fd) = "epoll"
    BY <2>1, LoopOpen
  <2>3. pc'[Reactor] \in LoopLabels
    BY <1>5, <2>1, <2>2 DEF LoopLabels, EventLoop, LoopTest, EpollWait, WaitTimeout, WaitEvents, Dispatch,
                NextEvent, Accept, Add, ReadData, ReadOn, ReadAgain, ReadEnd, ConnectionClosed,
                ReadForeign, Drop, Advance
  <2>4. CASE Accept
    <3>1. CASE UNCHANGED fdt
      BY <1>1, <2>1, <2>3, <2>4, <3>1 DEF Accept, ConnectionsWatched, epoll
    <3>2. ASSUME NEW c \in Queued, NEW f \in Lowest, Install(f, c), newfd' = f, Goto(Reactor, "add")
          PROVE  ConnectionsWatched'
      BY <1>1, <2>4, <3>2 DEF Accept, ConnectionsWatched, Install, Lowest, epoll
    <3> QED
      BY <2>1, <2>3, <2>4, <3>1, <3>2 DEF Accept
  <2>5. CASE Add
    <3>1. CASE Watch(newfd) /\ UNCHANGED fdt
      BY <1>1, <2>1, <2>3, <3>1 DEF Watch, ConnectionsWatched
    <3>2. CASE Close(newfd)
      BY <1>1, <2>1, <2>3, <2>5, <3>2 DEF Add, Close, ConnectionsWatched
    <3> QED
      BY <2>1, <2>3, <2>5, <3>1, <3>2 DEF Add, Reject
  <2>6. CASE Drop
    BY <1>1, <2>1, <2>3, <2>6 DEF Drop, Close, ConnectionsWatched
  <2>7. CASE UNCHANGED <<fdt, interest>> /\ ~At(Reactor, "add")
    BY <1>1, <2>1, <2>3, <2>7 DEF ConnectionsWatched
  <2> QED
    BY <1>5, <2>4, <2>5, <2>6, <2>7 DEF EventLoop, LoopTest, EpollWait, WaitTimeout, WaitEvents, Dispatch,
       ReadData, ReadAgain, ReadEnd, ReadForeign, kernel, epoll
<1>6. ASSUME \A f \in Fds : fdt'[f] \in Conns => fdt[f] \in Conns,
             UNCHANGED <<interest, is_running, newfd, pc>>
      PROVE  /\ pc'[Reactor] \in LoopLabels => is_running'
             /\ pc'[Reactor] \notin LoopLabels => \A f \in Fds : fdt'[f] \notin Conns
             /\ ConnectionsWatched'
  BY <1>1, <1>6 DEF ConnectionsWatched
<1>7. CASE Environment
  <2>1. \A f \in Fds : fdt'[f] \in Conns => fdt[f] \in Conns
    BY <1>7 DEF Environment, Outside, OtherOpen, OtherClose, Install, Lowest, PeerSend, PeerEnd, PeerConnect
  <2>2. UNCHANGED interest
    BY <1>7 DEF Environment, Outside, OtherOpen, OtherClose, PeerSend, PeerEnd, PeerConnect, epoll
  <2> QED
    BY <1>6, <1>7, <2>1, <2>2 DEF Environment, obj, locals
<1>8. CASE UNCHANGED vars
  BY <1>6, <1>8 DEF vars, obj, kernel, epoll, locals
<1> QED
  BY <1>3, <1>4, <1>5, <1>7, <1>8 DEF Next, Calls

\* SignalInv holds before the first start(), and no step breaks it, whatever the peers and
\* the rest of the process do.
THEOREM SignalInvariant == Spec => [](TypeOK /\ ServerInv /\ SignalInv)
<1>1. Init => SignalInv
  BY Handles DEF Init, SocketsInit, SignalInv, OneCleanup, MembersOwn, BatchCurrent, Unstopped,
                 ConnectionsWatched, CleanupLabels, LoopLabels, At, Threads
<1>2. TypeOK /\ ServerInv /\ SignalInv /\ [Next]_vars => SignalInv'
  BY OneCleanupStep, MembersOwnStep, BatchCurrentStep, UnstoppedStep DEF SignalInv, ServerInv, SignalsOnly
<1> QED
  BY <1>1, <1>2, Invariant, PTL DEF Spec

\* cleanup() interrupted by a signal whose handler calls stop(), at any step of start() and
\* as often as one likes, closes each number once: what it closes was never given to
\* other code since.
THEOREM ClosedOnce == Spec => [](SignalsOnly => NoDoubleClose)
<1>1. TypeOK /\ SignalInv => (SignalsOnly => NoDoubleClose)
  <2> SUFFICES ASSUME TypeOK, SignalsOnly, OneCleanup, MembersOwn, NEW t \in Threads
               PROVE  /\ At(t, "closeE") => Handle(epoll_fd) # "other"
                      /\ At(t, "closeS") => Handle(server_fd) # "other"
    BY DEF NoDoubleClose, SignalInv
  <2>1. ASSUME pc[t] \in {"closeE", "closeS"}
        PROVE  \A u \in Threads : ~At(u, "clearE") /\ ~At(u, "clearS")
    BY <2>1, OneCleaner DEF At, CleanupLabels
  <2> QED
    BY <2>1, Handles DEF MembersOwn, At
<1> QED
  BY <1>1, SignalInvariant, PTL

\* As long as nobody calls stop(), every connection that start() holds open is in its epoll
\* set, however registrations fail and the rest of the process uses up the numbers.
THEOREM AllWatched == Spec => [](Stoppers = {} /\ ~CallbackStops => ConnectionsWatched)
<1>1. SignalInv => (Stoppers = {} /\ ~CallbackStops => ConnectionsWatched)
  BY DEF SignalInv, SignalsOnly, Unstopped
<1> QED
  BY <1>1, SignalInvariant, PTL
=============================================================================
