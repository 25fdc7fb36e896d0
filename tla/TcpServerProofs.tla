--------------------------- MODULE TcpServerProofs ---------------------------
(***************************************************************************)
(* What TcpServerProperties states, proved for every set of descriptors,   *)
(* connections and stopping threads.                                       *)
(***************************************************************************)
EXTENDS TcpServerProperties, TLAPS

USE SocketsAssumption, ServerAssumption

\* close() keeps the types of the kernel's tables, whatever number it is given.
LEMMA CloseType ==
    ASSUME SocketsTypeOK, NEW n, Close(n)
    PROVE  SocketsTypeOK'
  BY DEF SocketsTypeOK, Close, Phases, Kinds

\* So does everything that the peers and the rest of the process do.
LEMMA EnvironmentType ==
    ASSUME TypeOK, Environment
    PROVE  TypeOK'
<1> USE DEF TypeOK, SocketsTypeOK, obj, locals, epoll, wire
<1>1. CASE \E c \in Conns : PeerSend(c)
  <2> PICK c \in Conns : PeerSend(c)
    BY <1>1
  <2>1. edge' \subseteq Fds
    BY DEF PeerSend, Arrival
  <2>2. inq' \in [Conns -> 0..MaxBytes]
    <3>1. inq[c] + 1 \in 0..MaxBytes
      BY DEF PeerSend
    <3> QED
      BY <3>1 DEF PeerSend
  <2>3. left' \in [Conns -> 0..MaxBytes]
    <3>1. left[c] - 1 \in 0..MaxBytes
      BY DEF PeerSend
    <3> QED
      BY <3>1 DEF PeerSend
  <2> QED
    BY <2>1, <2>2, <2>3 DEF Environment, PeerSend
<1>2. CASE \E c \in Conns : PeerEnd(c)
  <2> PICK c \in Conns : PeerEnd(c)
    BY <1>2
  <2>1. edge' \subseteq Fds
    BY DEF PeerEnd, Arrival
  <2>2. eof' \in [Conns -> {"open", "fin", "rst"}]
    BY DEF PeerEnd
  <2> QED
    BY <2>1, <2>2 DEF Environment, PeerEnd
<1>3. CASE \E c \in Conns : PeerConnect(c)
  BY <1>3 DEF Environment, PeerConnect, Phases
<1>4. CASE OtherOpen
  BY <1>4 DEF Environment, OtherOpen, Install, Lowest, Kinds
<1>5. CASE OtherClose
  BY <1>5 DEF Environment, OtherClose, Install, Kinds
<1> QED
  BY <1>1, <1>2, <1>3, <1>4, <1>5 DEF Environment, Outside

\* The boot sequence stores descriptors that socket() and epoll_create1() returned.
LEMMA BootType ==
    ASSUME TypeOK, Boot
    PROVE  TypeOK'
<1> USE DEF TypeOK, SocketsTypeOK, obj, locals, kernel, epoll, wire, Threads, At, Goto,
            Advance, Leave, Exit, Labels, BootLabels, LoopLabels, CleanupLabels, Codes
<1>1. CASE Socket
  BY <1>1 DEF Socket, Install, Lowest, Kinds
<1>2. CASE Configure
  BY <1>2 DEF Configure, Install, Kinds
<1>3. CASE EpollCreate
  BY <1>3 DEF EpollCreate, Install, Lowest, Kinds
<1>4. CASE Register
  <2>1. server_fd \in Fds \/ UNCHANGED epoll
    BY <1>4 DEF Register, Handle
  <2> QED
    BY <1>4, <2>1 DEF Register, Watch
<1>5. CASE SetRunning
  BY <1>5 DEF SetRunning
<1> QED
  BY <1>1, <1>2, <1>3, <1>4, <1>5 DEF Boot

\* The event loop keeps its locals, and what it does to the kernel, in range.
LEMMA LoopType ==
    ASSUME TypeOK, EventLoop
    PROVE  TypeOK'
<1> USE DEF TypeOK, SocketsTypeOK, obj, locals, kernel, epoll, wire, Threads, At, Goto,
            Advance, NextEvent, Labels, BootLabels, LoopLabels, CleanupLabels
<1>1. CASE LoopTest
  BY <1>1 DEF LoopTest, Leave, Exit, Codes
<1>2. CASE EpollWait
  BY <1>2 DEF EpollWait, Leave, Exit, Codes
<1>3. CASE WaitTimeout
  BY <1>3 DEF WaitTimeout
<1>4. CASE WaitEvents
  BY <1>4 DEF WaitEvents, Ready
<1>5. CASE Dispatch
  BY <1>5 DEF Dispatch
<1>6. CASE Accept
  <2>1. fdt' \in [Fds -> Kinds \cup Conns] /\ phase' \in [Conns -> Phases]
    BY <1>6 DEF Accept, Install, Lowest, Queued, Phases
  <2>2. newfd' \in Fds \cup {NoFd} /\ cur' \in Fds \cup {NoFd}
    BY <1>6 DEF Accept, Lowest
  <2>3. pc' \in [Threads -> Labels]
    BY <1>6 DEF Accept
  <2> QED
    BY <1>6, <2>1, <2>2, <2>3 DEF Accept
<1>7. CASE Add
  <2>1. SocketsTypeOK'
    <3>1. CASE Close(newfd)
      BY <3>1, CloseType
    <3>2. CASE Handle(newfd) # "free" /\ Watch(newfd) /\ UNCHANGED <<fdt, wire, foreign>>
      BY <3>2 DEF Watch, Handle
    <3> QED
      BY <1>7, <3>1, <3>2 DEF Add, Reject
  <2> QED
    BY <1>7, <2>1 DEF Add
<1>8. CASE ReadData
  <2>1. PICK c \in Conns : inq[c] > 0 /\ inq' = [inq EXCEPT ![c] = @ - Chunk(c)]
    BY <1>8 DEF ReadData
  <2>2. inq[c] - Chunk(c) \in 0..MaxBytes
    BY <2>1 DEF Chunk
  <2>3. inq' \in [Conns -> 0..MaxBytes]
    BY <2>1, <2>2
  <2>4. pc' \in [Threads -> Labels] /\ ret' \in {"idle", "read"}
    BY <1>8 DEF ReadData, ReadOn
  <2>5. UNCHANGED <<status, events, cur, newfd>>
    BY <1>8 DEF ReadData, ReadOn
  <2> QED
    BY <1>8, <2>3, <2>4, <2>5 DEF ReadData
<1>9. CASE ReadAgain
  BY <1>9 DEF ReadAgain
<1>10. CASE ReadEnd
  BY <1>10 DEF ReadEnd, ConnectionClosed
<1>11. CASE ReadForeign
  BY <1>11 DEF ReadForeign
<1>12. CASE Drop
  <2>1. SocketsTypeOK'
    BY <1>12, CloseType DEF Drop
  <2> QED
    BY <1>12, <2>1 DEF Drop
<1> QED
  BY <1>1, <1>2, <1>3, <1>4, <1>5, <1>6, <1>7, <1>8, <1>9, <1>10, <1>11, <1>12 DEF EventLoop

\* So do stop() and cleanup(), on whichever thread.
LEMMA CleanupType ==
    ASSUME TypeOK, NEW t \in Threads, Cleanup(t)
    PROVE  TypeOK'
<1> USE DEF TypeOK, obj, locals, At, Goto, Return, Labels, BootLabels, LoopLabels, CleanupLabels
<1>1. SocketsTypeOK'
  <2>1. CASE UNCHANGED kernel
    BY <2>1 DEF SocketsTypeOK, kernel, epoll, wire
  <2>2. CASE Close(epoll_fd)
    BY <2>2, CloseType
  <2>3. CASE Close(server_fd)
    BY <2>3, CloseType
  <2> QED
    BY <2>1, <2>2, <2>3 DEF Cleanup, StopTest, CloseEpoll, ClearEpoll, CloseServer,
                            ClearServer, ClearRunning
<1>2. CASE StopTest(t)
  BY <1>1, <1>2 DEF StopTest
<1>3. CASE CloseEpoll(t)
  BY <1>1, <1>3 DEF CloseEpoll
<1>4. CASE ClearEpoll(t)
  BY <1>1, <1>4 DEF ClearEpoll
<1>5. CASE CloseServer(t)
  BY <1>1, <1>5 DEF CloseServer
<1>6. CASE ClearServer(t)
  BY <1>1, <1>6 DEF ClearServer
<1>7. CASE ClearRunning(t)
  BY <1>1, <1>7 DEF ClearRunning
<1> QED
  BY <1>2, <1>3, <1>4, <1>5, <1>6, <1>7 DEF Cleanup

\* No step of start(), of stop(), of a peer or of other code leaves the types.
LEMMA TypeStep ==
    ASSUME TypeOK, [Next]_vars
    PROVE  TypeOK'
<1>1. CASE \E t \in Stoppers : CallStop(t)
  BY <1>1 DEF CallStop, TypeOK, SocketsTypeOK, obj, locals, kernel, epoll, wire, Threads,
              At, Goto, Labels
<1>2. CASE UNCHANGED vars
  BY <1>2 DEF vars, TypeOK, SocketsTypeOK, obj, locals, kernel, epoll, wire
<1> QED
  BY <1>1, <1>2, BootType, LoopType, EnvironmentType, CleanupType DEF Next, Calls

\* Every variable keeps its type, for any number of descriptors, connections and
\* stopping threads.
THEOREM TypeCorrect == Spec => []TypeOK
<1>1. Init => TypeOK
  <2>1. SocketsInit => SocketsTypeOK
    <3> SUFFICES ASSUME SocketsInit PROVE SocketsTypeOK
      OBVIOUS
    <3>1. fdt \in [Fds -> Kinds \cup Conns] /\ phase \in [Conns -> Phases]
      BY DEF SocketsInit, Phases, Kinds
    <3>2. inq \in [Conns -> 0..MaxBytes] /\ left \in [Conns -> 0..MaxBytes]
      <4>1. 0 \in 0..MaxBytes /\ MaxBytes \in 0..MaxBytes
        OBVIOUS
      <4> QED
        BY <4>1 DEF SocketsInit
    <3>3. eof \in [Conns -> {"open", "fin", "rst"}]
      BY DEF SocketsInit
    <3> QED
      BY <3>1, <3>2, <3>3 DEF SocketsInit, SocketsTypeOK
  <2> QED
    BY <2>1 DEF Init, TypeOK, Threads, Labels, Codes
<1>2. TypeOK /\ [Next]_vars => TypeOK'
  BY TypeStep
<1> QED
  BY <1>1, <1>2, PTL DEF Spec

-----------------------------------------------------------------------------
\* The parts of ServerInv, each with what it takes from the others.

\* ret and events are set and cleared where the Reactor's labels say.
LEMMA CallbackStep ==
    ASSUME TypeOK, InCallback, BatchInLoop, [Next]_vars
    PROVE  InCallback' /\ BatchInLoop'
<1> USE DEF TypeOK, InCallback, BatchInLoop, At, Goto, Advance, Exit, Leave, NextEvent,
            locals, obj, Threads, CleanupLabels
<1>1. CASE Boot
  BY <1>1 DEF Boot, Socket, Configure, EpollCreate, Register, SetRunning
<1>2. CASE LoopTest \/ EpollWait \/ WaitTimeout
  BY <1>2 DEF LoopTest, EpollWait, WaitTimeout
<1>3. CASE WaitEvents
  BY <1>3 DEF WaitEvents
<1>4. CASE Dispatch
  BY <1>4 DEF Dispatch
<1>5. CASE Accept \/ Add
  BY <1>5 DEF Accept, Add
<1>6. CASE ReadData
  <2>1. CASE ReadOn
    BY <1>6, <2>1 DEF ReadData, ReadOn
  <2>2. CASE ret' = "read" /\ Goto(Reactor, "stop")
    BY <1>6, <2>2 DEF ReadData
  <2> QED
    BY <1>6, <2>1, <2>2 DEF ReadData
<1>7. CASE ReadAgain \/ ReadEnd \/ ReadForeign \/ Drop
  BY <1>7 DEF ReadAgain, ReadEnd, ReadForeign, Drop, ConnectionClosed
<1>8. ASSUME NEW t \in Threads, Cleanup(t)
      PROVE  InCallback' /\ BatchInLoop'
  <2>1. CASE StopTest(t)
    BY <2>1 DEF StopTest, Return
  <2>2. CASE ClearRunning(t)
    BY <2>2 DEF ClearRunning, Return
  <2>3. CASE CloseEpoll(t) \/ ClearEpoll(t) \/ CloseServer(t) \/ ClearServer(t)
    BY <2>3 DEF CloseEpoll, ClearEpoll, CloseServer, ClearServer
  <2> QED
    BY <1>8, <2>1, <2>2, <2>3 DEF Cleanup
<1>9. CASE \E t \in Stoppers : CallStop(t)
  BY <1>9 DEF CallStop
<1>10. CASE Environment \/ UNCHANGED vars
  BY <1>10 DEF Environment, vars
<1> QED
  BY <1>1, <1>2, <1>3, <1>4, <1>5, <1>6, <1>7, <1>8, <1>9, <1>10 DEF Next, Calls, EventLoop

\* server_fd, epoll_fd and an accepted number denote what start() believes they do.
\* The delicate case is a stop() that has closed epoll_fd but not yet reset it.
LEMMA MembersStep ==
    ASSUME TypeOK, MembersNotConns, AcceptedOpen, [Next]_vars
    PROVE  MembersNotConns' /\ AcceptedOpen'
<1>0. Conns \cap {"free", "socket", "listener", "epoll", "other"} = {}
  BY DEF Kinds
<1> USE <1>0 DEF TypeOK, SocketsTypeOK, MembersNotConns, AcceptedOpen, Handle, At, Goto,
                 Advance, Exit, Leave, NextEvent, locals, obj, Threads
<1>1. CASE Socket
  <2>1. ~At(Reactor, "add") /\ ~At(Reactor, "add")'
    BY <1>1 DEF Socket
  <2>2. CASE UNCHANGED fdt /\ server_fd' = NoFd
    BY <1>1, <2>1, <2>2 DEF Socket, NoFd
  <2>3. CASE \E f \in Lowest : server_fd' = f /\ Install(f, "socket")
    BY <1>1, <2>1, <2>3 DEF Socket, Install, Lowest
  <2> QED
    BY <1>1, <2>2, <2>3 DEF Socket
<1>2. CASE Configure
  BY <1>2 DEF Configure, Install
<1>3. CASE EpollCreate
  <2>1. ~At(Reactor, "add") /\ ~At(Reactor, "add")'
    BY <1>3 DEF EpollCreate
  <2>2. CASE UNCHANGED fdt /\ epoll_fd' = NoFd
    BY <1>3, <2>1, <2>2 DEF EpollCreate, NoFd
  <2>3. CASE \E f \in Lowest : epoll_fd' = f /\ Install(f, "epoll")
    BY <1>3, <2>1, <2>3 DEF EpollCreate, Install, Lowest
  <2> QED
    BY <1>3, <2>2, <2>3 DEF EpollCreate
<1>4. CASE Register \/ SetRunning
  <2>1. ~At(Reactor, "add") /\ ~At(Reactor, "add")'
    BY <1>4 DEF Register, SetRunning
  <2>2. UNCHANGED <<fdt, server_fd, epoll_fd>>
    BY <1>4 DEF Register, SetRunning, kernel
  <2> QED
    BY <2>1, <2>2
<1>5. CASE LoopTest \/ EpollWait \/ WaitTimeout \/ WaitEvents \/ Dispatch
  BY <1>5 DEF LoopTest, EpollWait, WaitTimeout, WaitEvents, Dispatch, kernel
<1>6. CASE Accept
  <2>1. CASE NextEvent /\ UNCHANGED fdt
    BY <1>6, <2>1 DEF Accept
  <2>2. CASE \E c \in Queued, f \in Lowest :
               /\ Handle(server_fd) = "listener" /\ Install(f, c)
               /\ newfd' = f /\ Goto(Reactor, "add")
    <3>1. PICK c \in Conns, f \in Fds :
              /\ fdt[f] = "free" /\ Handle(server_fd) = "listener"
              /\ fdt' = [fdt EXCEPT ![f] = c] /\ newfd' = f
      BY <2>2 DEF Queued, Lowest, Install
    <3>2. fdt'[f] = c /\ \A g \in Fds \ {f} : fdt'[g] = fdt[g]
      BY <3>1
    <3>3. At(Reactor, "accept") /\ At(Reactor, "add")' /\ UNCHANGED <<server_fd, epoll_fd>>
      BY <1>6, <2>2 DEF Accept
    <3> QED
      BY <3>1, <3>2, <3>3
  <2> QED
    BY <1>6, <2>1, <2>2 DEF Accept
<1>7. CASE Add
  BY <1>7 DEF Add, Reject, Close
<1>8. CASE ReadData
  BY <1>8 DEF ReadData, ReadOn
<1>9. CASE ReadAgain \/ ReadEnd \/ ReadForeign
  BY <1>9 DEF ReadAgain, ReadEnd, ReadForeign, ConnectionClosed, kernel
<1>10. CASE Drop
  BY <1>10 DEF Drop, Close
<1>11. ASSUME NEW t \in Threads, Cleanup(t)
       PROVE  MembersNotConns' /\ AcceptedOpen'
  <2>1. CASE StopTest(t)
    BY <2>1 DEF StopTest, Return, kernel
  <2>2. CASE ClearRunning(t)
    BY <2>2 DEF ClearRunning, Return, kernel
  <2>3. CASE CloseEpoll(t)
    BY <2>3 DEF CloseEpoll, Close, kernel
  <2>4. CASE CloseServer(t)
    BY <2>4 DEF CloseServer, Close, kernel
  <2>5. CASE ClearEpoll(t) \/ ClearServer(t)
    BY <2>5 DEF ClearEpoll, ClearServer, NoFd, kernel
  <2> QED
    BY <1>11, <2>1, <2>2, <2>3, <2>4, <2>5 DEF Cleanup
<1>12. CASE \E t \in Stoppers : CallStop(t)
  BY <1>12 DEF CallStop, kernel
<1>13. CASE Environment
  <2>1. CASE UNCHANGED fdt
    BY <1>13, <2>1 DEF Environment
  <2>2. CASE OtherOpen
    BY <1>13, <2>2 DEF Environment, OtherOpen, Install, Lowest
  <2>3. CASE OtherClose
    BY <1>13, <2>3 DEF Environment, OtherClose, Install
  <2> QED
    BY <1>13, <2>1, <2>2, <2>3 DEF Environment, Outside, PeerSend, PeerEnd, PeerConnect
<1>14. CASE UNCHANGED vars
  BY <1>14 DEF vars, kernel
<1> QED
  BY <1>1, <1>2, <1>3, <1>4, <1>5, <1>6, <1>7, <1>8, <1>9, <1>10, <1>11, <1>12, <1>13, <1>14
     DEF Next, Calls, Boot, EventLoop

\* What is registered stays a connection or the listener: a closed number leaves the
\* set, and a number that comes back was not in it.
LEMMA InterestStep ==
    ASSUME TypeOK, MembersNotConns, AcceptedOpen, InterestOpen, [Next]_vars
    PROVE  InterestOpen'
<1>0. Conns \cap {"free", "socket", "listener", "epoll", "other"} = {}
  BY DEF Kinds
<1> USE <1>0 DEF TypeOK, SocketsTypeOK, InterestOpen
<1>1. ASSUME NEW n, Close(n)
      PROVE  InterestOpen'
  BY <1>1 DEF Close
<1>2. ASSUME NEW f \in Fds, fdt[f] = "free", NEW h, fdt' = [fdt EXCEPT ![f] = h],
             UNCHANGED interest
      PROVE  InterestOpen'
  BY <1>2
<1>3. CASE UNCHANGED <<fdt, interest>>
  BY <1>3
<1>4. CASE Socket
  BY <1>2, <1>3, <1>4 DEF Socket, Install, Lowest, epoll
<1>5. CASE Configure
  <2>1. CASE UNCHANGED fdt
    BY <1>3, <1>5, <2>1 DEF Configure, epoll
  <2>2. CASE Handle(server_fd) = "socket" /\ Install(server_fd, "listener")
    BY <1>5, <2>2 DEF Configure, epoll, Handle, Install
  <2> QED
    BY <1>5, <2>1, <2>2 DEF Configure
<1>6. CASE EpollCreate
  <2>1. CASE UNCHANGED <<fdt, epoll>>
    BY <1>3, <2>1 DEF epoll
  <2>2. CASE interest' = {}
    BY <2>2
  <2> QED
    BY <1>6, <2>1, <2>2 DEF EpollCreate
<1>7. CASE Register
  <2>1. CASE Handle(server_fd) = "listener" /\ Watch(server_fd)
    BY <1>7, <2>1 DEF Register, Watch, Handle
  <2>2. CASE UNCHANGED epoll
    BY <1>3, <1>7, <2>2 DEF Register, epoll
  <2> QED
    BY <1>7, <2>1, <2>2 DEF Register
<1>8. CASE Accept
  <2>1. CASE UNCHANGED fdt
    BY <1>3, <1>8, <2>1 DEF Accept, epoll
  <2>2. CASE \E c \in Queued, f \in Lowest : Install(f, c)
    BY <1>2, <1>8, <2>2 DEF Accept, Install, Lowest, epoll
  <2> QED
    BY <1>8, <2>1, <2>2 DEF Accept
<1>9. CASE Add
  <2>1. CASE Handle(epoll_fd) = "epoll" /\ Watch(newfd) /\ UNCHANGED fdt
    <3>1. Handle(newfd) \in Conns
      BY <1>9, <2>1 DEF Add, AcceptedOpen
    <3> QED
      BY <2>1, <3>1 DEF Watch, Handle
  <2> QED
    BY <1>1, <1>9, <2>1 DEF Add, Reject
<1>10. CASE Drop
  BY <1>1, <1>10 DEF Drop
<1>11. ASSUME NEW t \in Threads, Cleanup(t)
       PROVE  InterestOpen'
  BY <1>1, <1>3, <1>11 DEF Cleanup, StopTest, CloseEpoll, ClearEpoll, CloseServer,
                           ClearServer, ClearRunning, kernel, epoll
<1>12. CASE Environment
  <2>1. CASE OtherOpen
    BY <1>2, <2>1 DEF OtherOpen, Install, Lowest, epoll
  <2>2. CASE OtherClose
    BY <2>2 DEF OtherClose, Install, epoll
  <2>3. CASE UNCHANGED <<fdt, interest>>
    BY <1>3, <2>3
  <2> QED
    BY <1>12, <2>1, <2>2, <2>3 DEF Environment, Outside, PeerSend, PeerEnd, PeerConnect, epoll
<1> QED
  BY <1>3, <1>4, <1>5, <1>6, <1>7, <1>8, <1>9, <1>10, <1>11, <1>12
     DEF Next, Calls, Boot, EventLoop, SetRunning, LoopTest, EpollWait, WaitTimeout, WaitEvents,
         Dispatch, ReadData, ReadAgain, ReadEnd, ReadForeign, CallStop, vars, kernel, epoll

\* A number is given to a connection when accept() opens it, and taken away when it
\* is closed.
LEMMA NumberStep ==
    ASSUME TypeOK, OneNumberEach, [Next]_vars
    PROVE  OneNumberEach'
<1>0. Conns \cap {"free", "socket", "listener", "epoll", "other"} = {}
  BY DEF Kinds
<1> USE <1>0 DEF TypeOK, SocketsTypeOK, OneNumberEach
<1>1. ASSUME NEW n, Close(n)
      PROVE  OneNumberEach'
  BY <1>1 DEF Close, Handle, Queued
<1>2. ASSUME NEW f \in Fds, NEW h \in Kinds, fdt' = [fdt EXCEPT ![f] = h], UNCHANGED phase
      PROVE  OneNumberEach'
  BY <1>2 DEF Kinds
<1>3. CASE UNCHANGED <<fdt, phase>>
  BY <1>3
<1>4. CASE Socket \/ EpollCreate
  BY <1>2, <1>3, <1>4 DEF Socket, EpollCreate, Install, Lowest, Kinds, wire
<1>5. CASE Configure
  <2>1. CASE UNCHANGED fdt
    BY <1>3, <1>5, <2>1 DEF Configure, wire
  <2>2. CASE Handle(server_fd) = "socket" /\ Install(server_fd, "listener")
    BY <1>2, <1>5, <2>2 DEF Configure, Install, Handle, Kinds, wire
  <2> QED
    BY <1>5, <2>1, <2>2 DEF Configure
<1>6. CASE Accept
  <2>1. CASE UNCHANGED <<fdt, phase>>
    BY <1>3, <2>1
  <2>2. CASE \E c \in Queued, f \in Lowest :
               Install(f, c) /\ phase' = [phase EXCEPT ![c] = "open"]
    <3>1. PICK c \in Conns, f \in Fds :
              /\ phase[c] = "queued" /\ fdt' = [fdt EXCEPT ![f] = c]
              /\ phase' = [phase EXCEPT ![c] = "open"]
      BY <2>2 DEF Queued, Lowest, Install
    <3>2. \A g \in Fds : fdt[g] # c
      BY <3>1
    <3> QED
      BY <3>1, <3>2
  <2> QED
    BY <1>6, <2>1, <2>2 DEF Accept
<1>7. CASE Add \/ Drop
  BY <1>1, <1>3, <1>7 DEF Add, Drop, Reject, wire
<1>8. ASSUME NEW t \in Threads, Cleanup(t)
      PROVE  OneNumberEach'
  BY <1>1, <1>3, <1>8 DEF Cleanup, StopTest, CloseEpoll, ClearEpoll, CloseServer,
                          ClearServer, ClearRunning, kernel, wire
<1>9. CASE Environment
  <2>1. CASE OtherOpen \/ OtherClose
    BY <1>2, <2>1 DEF OtherOpen, OtherClose, Install, Lowest, Kinds, wire
  <2>2. ASSUME NEW c \in Conns, PeerConnect(c)
        PROVE  OneNumberEach'
    <3>1. UNCHANGED fdt /\ phase[c] # "open" /\ \A d \in Conns \ {c} : phase'[d] = phase[d]
      BY <2>2 DEF PeerConnect
    <3> QED
      BY <3>1
  <2> QED
    BY <1>3, <1>9, <2>1, <2>2 DEF Environment, Outside, PeerSend, PeerEnd
<1> QED
  BY <1>3, <1>4, <1>5, <1>6, <1>7, <1>8, <1>9
     DEF Next, Calls, Boot, EventLoop, Register, SetRunning, LoopTest, EpollWait,
         WaitTimeout, WaitEvents, Dispatch, ReadData, ReadAgain, ReadEnd, ReadForeign,
         CallStop, vars, kernel, wire

\* What is about to be dropped stays ended: nothing is sent after the end, and its
\* number may only be closed, or taken by other code, in between.
LEMMA DropStep ==
    ASSUME TypeOK, DropEnded, [Next]_vars
    PROVE  DropEnded'
<1>0. Conns \cap {"free", "socket", "listener", "epoll", "other"} = {}
  BY DEF Kinds
<1> USE <1>0 DEF TypeOK, SocketsTypeOK, DropEnded, Ended, Handle, At, Goto, Advance, Exit,
                 Leave, NextEvent, locals, obj, Threads
<1>1. CASE ~At(Reactor, "drop")'
  BY <1>1
<1>2. ASSUME NEW n, Close(n), At(Reactor, "drop"), UNCHANGED cur
      PROVE  DropEnded'
  BY <1>2 DEF Close
<1>3. CASE Boot
  BY <1>1, <1>3 DEF Boot, Socket, Configure, EpollCreate, Register, SetRunning
<1>4. CASE ReadEnd
  BY <1>4 DEF ReadEnd, ConnectionClosed, Kinds, kernel, wire
<1>5. CASE ReadForeign
  BY <1>5 DEF ReadForeign, wire
<1>6. CASE ReadData
  BY <1>1, <1>6 DEF ReadData, ReadOn
<1>7. CASE LoopTest \/ EpollWait \/ WaitTimeout \/ WaitEvents \/ Dispatch
  BY <1>1, <1>7 DEF LoopTest, EpollWait, WaitTimeout, WaitEvents, Dispatch
<1>8. CASE Accept \/ Add \/ ReadAgain \/ Drop
  BY <1>1, <1>8 DEF Accept, Add, ReadAgain, Drop
<1>9. ASSUME NEW t \in Threads, Cleanup(t)
       PROVE  DropEnded'
  <2>1. CASE t = Reactor
    <3>1. ~At(Reactor, "drop")'
      BY <1>9, <2>1 DEF Cleanup, StopTest, CloseEpoll, ClearEpoll, CloseServer, ClearServer,
                         ClearRunning, Return
    <3> QED
      BY <1>1, <3>1
  <2>2. CASE t # Reactor /\ At(Reactor, "drop")
    <3>1. UNCHANGED cur /\ pc'[Reactor] = pc[Reactor]
      BY <1>9, <2>2 DEF Cleanup, StopTest, CloseEpoll, ClearEpoll, CloseServer, ClearServer,
                         ClearRunning, Return
    <3>2. (\E n : Close(n)) \/ UNCHANGED <<fdt, inq, eof>>
      BY <1>9 DEF Cleanup, StopTest, CloseEpoll, ClearEpoll, CloseServer, ClearServer,
                   ClearRunning, kernel, wire
    <3> QED
      BY <1>2, <2>2, <3>1, <3>2
  <2>3. CASE t # Reactor /\ ~At(Reactor, "drop")
    BY <1>1, <1>9, <2>3 DEF Cleanup, StopTest, CloseEpoll, ClearEpoll, CloseServer,
                             ClearServer, ClearRunning, Return
  <2> QED
    BY <2>1, <2>2, <2>3
<1>10. CASE \E t \in Stoppers : CallStop(t)
  BY <1>10 DEF CallStop, kernel, wire
<1>11. CASE Environment
  <2>1. CASE \E c \in Conns : PeerSend(c)
    <3> PICK c \in Conns : PeerSend(c)
      BY <2>1
    <3>1. UNCHANGED <<pc, cur, fdt, eof>> /\ eof[c] = "open"
      BY <1>11 DEF PeerSend, Connected, Environment
    <3>2. inq' = [inq EXCEPT ![c] = @ + 1]
      BY DEF PeerSend
    <3> QED
      BY <3>1, <3>2
  <2>2. CASE \E c \in Conns : PeerEnd(c)
    BY <1>11, <2>2 DEF PeerEnd, Connected, Environment
  <2>3. CASE OtherOpen
    BY <1>11, <2>3 DEF OtherOpen, Install, Lowest, wire, Environment
  <2>4. CASE OtherClose
    BY <1>11, <2>4 DEF OtherClose, Install, wire, Environment
  <2>5. CASE \E c \in Conns : PeerConnect(c)
    BY <1>11, <2>5 DEF PeerConnect, Environment
  <2> QED
    BY <1>11, <2>1, <2>2, <2>3, <2>4, <2>5 DEF Environment, Outside
<1>12. CASE UNCHANGED vars
  BY <1>12 DEF vars, kernel, wire
<1> QED
  BY <1>3, <1>4, <1>5, <1>6, <1>7, <1>8, <1>9, <1>10, <1>11, <1>12 DEF Next, Calls, EventLoop

\* An edge is taken only together with its event, an event only together with the
\* read loop, and the read loop is left only with nothing to read or by a close.
LEMMA EdgeStep ==
    ASSUME TypeOK, ServerInv, [Next]_vars
    PROVE  NoLostEdge'
<1>0. Conns \cap {"free", "socket", "listener", "epoll", "other"} = {}
  BY DEF Kinds
<1> USE <1>0 DEF TypeOK, SocketsTypeOK, ServerInv, NoLostEdge, Reading, Pending, Handle, At,
                 Goto, Advance, Exit, Leave, NextEvent, locals, obj, epoll, wire, kernel, Threads
<1>1. ASSUME NEW f \in interest, NEW n, Close(n), f \in interest',
             UNCHANGED <<events, cur>>, Reading => Reading' \/ n = cur
      PROVE  Pending(fdt[f])' => f \in edge' \cup events' \/ (f = cur' /\ Reading')
  BY <1>1 DEF Close
<1>2. CASE UNCHANGED <<fdt, interest, edge, events, cur, inq, eof>> /\ (Reading => Reading')
  BY <1>2
<1>3. ~Reading <=> pc[Reactor] \notin {"read", "drop"} /\ ret = "idle"
  OBVIOUS
<1>4. ret = "read" => pc[Reactor] \in {"stop"} \cup CleanupLabels
  BY DEF InCallback
<1>5. CASE Socket \/ Configure
  <2>1. UNCHANGED <<interest, edge, events, cur, inq, eof>> /\ ~Reading
    BY <1>4, <1>5 DEF Socket, Configure, CleanupLabels
  <2>2. \A f \in interest : fdt'[f] = fdt[f] \/ fdt'[f] \notin Conns
    BY <1>5 DEF Socket, Configure, Install, Lowest
  <2> QED
    BY <2>1, <2>2
<1>6. CASE EpollCreate
  <2>1. CASE interest' = {}
    BY <2>1
  <2>2. CASE UNCHANGED <<fdt, epoll>>
    BY <1>2, <1>4, <1>6, <2>2 DEF EpollCreate, CleanupLabels
  <2> QED
    BY <1>6, <2>1, <2>2 DEF EpollCreate
<1>7. CASE Register
  <2>1. UNCHANGED <<fdt, events, cur, inq, eof>> /\ ~Reading
    BY <1>4, <1>7 DEF Register, CleanupLabels
  <2>2. CASE Handle(server_fd) = "listener" /\ Watch(server_fd)
    BY <2>1, <2>2 DEF Watch
  <2>3. CASE UNCHANGED epoll
    BY <2>1, <2>3
  <2> QED
    BY <1>7, <2>2, <2>3 DEF Register
<1>8. CASE SetRunning \/ LoopTest \/ EpollWait \/ WaitTimeout
  BY <1>2, <1>4, <1>8 DEF SetRunning, LoopTest, EpollWait, WaitTimeout, CleanupLabels
<1>9. CASE WaitEvents
  <2>1. events = {} /\ ~Reading
    BY <1>4, <1>9 DEF WaitEvents, BatchInLoop, CleanupLabels
  <2>2. UNCHANGED <<fdt, interest, inq, eof>> /\ edge \subseteq edge' \cup events'
    BY <1>9 DEF WaitEvents
  <2> QED
    BY <2>1, <2>2
<1>10. CASE Dispatch
  <2>1. ~Reading /\ UNCHANGED <<fdt, interest, edge, inq, eof>>
    BY <1>4, <1>10 DEF Dispatch, CleanupLabels
  <2>2. CASE events = {} /\ UNCHANGED events
    BY <2>1, <2>2
  <2>3. CASE \E f \in events : events' = events \ {f} /\ cur' = f /\ (f # server_fd => Reading')
    BY <2>1, <2>3 DEF MembersNotConns
  <2> QED
    BY <1>10, <2>2, <2>3 DEF Dispatch
<1>11. CASE Accept
  <2>1. ~Reading /\ UNCHANGED <<interest, edge, events, inq, eof>>
    BY <1>4, <1>11 DEF Accept, CleanupLabels
  <2>2. \A f \in interest : fdt'[f] = fdt[f]
    BY <1>11 DEF Accept, Install, Lowest, InterestOpen
  <2> QED
    BY <2>1, <2>2
<1>12. CASE Add
  <2>1. ~Reading /\ UNCHANGED <<events, cur>>
    BY <1>4, <1>12 DEF Add, CleanupLabels
  <2>2. CASE Handle(newfd) # "free" /\ Watch(newfd) /\ UNCHANGED <<fdt, wire>>
    BY <2>1, <2>2 DEF Watch
  <2>3. CASE Close(newfd)
    BY <1>1, <2>1, <2>3 DEF Close
  <2> QED
    BY <1>12, <2>2, <2>3 DEF Add, Reject
<1>13. CASE ReadData
  <2>1. Reading' /\ UNCHANGED <<fdt, interest, edge, events, cur, eof>>
    BY <1>13 DEF ReadData, ReadOn
  <2>2. \A c \in Conns : inq'[c] > 0 => inq[c] > 0
    BY <1>13 DEF ReadData, Chunk
  <2> QED
    BY <2>1, <2>2
<1>14. CASE ReadAgain
  BY <1>14 DEF ReadAgain
<1>15. CASE ReadEnd
  BY <1>2, <1>15 DEF ReadEnd, ConnectionClosed
<1>16. CASE ReadForeign
  BY <1>16 DEF ReadForeign
<1>17. CASE Drop
  BY <1>17 DEF Drop, Close
<1>18. ASSUME NEW t \in Threads, Cleanup(t)
       PROVE  NoLostEdge'
  <2>1. UNCHANGED <<events, cur>>
    BY <1>18 DEF Cleanup, StopTest, CloseEpoll, ClearEpoll, CloseServer, ClearServer,
                 ClearRunning, Return
  <2>2. Reading => Reading'
    <3>1. CASE t = Reactor
      BY <1>18, <3>1 DEF Cleanup, StopTest, CloseEpoll, ClearEpoll, CloseServer, ClearServer,
                         ClearRunning, Return
    <3>2. CASE t # Reactor
      BY <1>18, <3>2 DEF Cleanup, StopTest, CloseEpoll, ClearEpoll, CloseServer, ClearServer,
                         ClearRunning, Return
    <3> QED
      BY <3>1, <3>2
  <2>3. (\E n : Close(n)) \/ UNCHANGED kernel
    BY <1>18 DEF Cleanup, StopTest, CloseEpoll, ClearEpoll, CloseServer, ClearServer,
                 ClearRunning
  <2>4. CASE \E n : Close(n)
    BY <1>1, <2>1, <2>2, <2>4 DEF Close
  <2> QED
    BY <1>2, <2>1, <2>2, <2>3, <2>4
<1>19. CASE \E t \in Stoppers : CallStop(t)
  BY <1>2, <1>19 DEF CallStop
<1>20. CASE Environment
  <2>1. UNCHANGED <<events, cur>> /\ (Reading => Reading')
    BY <1>20 DEF Environment
  <2>2. ASSUME NEW c \in Conns, Arrival(c), UNCHANGED <<fdt, interest>>,
               \A d \in Conns \ {c} : inq'[d] = inq[d] /\ eof'[d] = eof[d]
        PROVE  NoLostEdge'
    BY <2>1, <2>2 DEF Arrival
  <2>3. CASE \E c \in Conns : PeerSend(c)
    BY <2>2, <2>3 DEF PeerSend
  <2>4. CASE \E c \in Conns : PeerEnd(c)
    BY <2>2, <2>4 DEF PeerEnd
  <2>5. CASE OtherOpen \/ OtherClose
    <3>1. UNCHANGED <<interest, edge, inq, eof>>
      BY <2>5 DEF OtherOpen, OtherClose
    <3>2. \A f \in interest : fdt'[f] = fdt[f]
      BY <2>5 DEF OtherOpen, OtherClose, Install, Lowest, InterestOpen
    <3> QED
      BY <2>1, <3>1, <3>2
  <2>6. CASE \E c \in Conns : PeerConnect(c)
    BY <1>2, <2>1, <2>6 DEF PeerConnect
  <2> QED
    BY <1>20, <2>3, <2>4, <2>5, <2>6 DEF Environment, Outside
<1>21. CASE UNCHANGED vars
  BY <1>2, <1>21 DEF vars
<1> QED
  BY <1>5, <1>6, <1>7, <1>8, <1>9, <1>10, <1>11, <1>12, <1>13, <1>14, <1>15, <1>16, <1>17,
     <1>18, <1>19, <1>20, <1>21 DEF Next, Calls, Boot, EventLoop

-----------------------------------------------------------------------------
\* ServerInv holds initially, and no step of any thread breaks it.
THEOREM Invariant == Spec => [](TypeOK /\ ServerInv)
<1>1. Init => ServerInv
  BY DEF Init, SocketsInit, ServerInv, NoLostEdge, InterestOpen, AcceptedOpen,
         MembersNotConns, OneNumberEach, InCallback, BatchInLoop, DropEnded, At, Handle, Threads, NoFd, Kinds
<1>2. TypeOK /\ ServerInv /\ [Next]_vars => ServerInv'
  BY CallbackStep, MembersStep, InterestStep, NumberStep, DropStep, EdgeStep DEF ServerInv
<1> QED
  BY <1>1, <1>2, TypeCorrect, PTL DEF Spec

\* However many connections, events in a batch and concurrent stop() calls there are,
\* no registered connection is left with input that no edge, event or read accounts for.
THEOREM EdgesKept == Spec => []NoLostEdge
<1>1. ServerInv => NoLostEdge
  BY DEF ServerInv
<1> QED
  BY <1>1, Invariant, PTL

\* No step closes a connection that still has something to say, except the one that
\* could not register it.
THEOREM LiveConnectionsKept == Spec => LiveConnectionKept
<1>1. TypeOK /\ ServerInv /\ [Next]_vars => [\A c \in Conns : ClosedForCause(c)]_vars
  <2> SUFFICES ASSUME TypeOK, ServerInv, Next, NEW c \in Conns,
                      phase[c] = "open", phase'[c] = "closed"
               PROVE  (inq[c] = 0 /\ eof[c] # "open") \/ (At(Reactor, "add") /\ fdt[newfd] = c)
    BY DEF ClosedForCause
  <2>0. Conns \cap {"free", "socket", "listener", "epoll", "other"} = {}
    BY DEF Kinds
  <2>1. ASSUME NEW n, Close(n)
        PROVE  n \in Fds /\ fdt[n] = c
    BY <2>0, <2>1 DEF Close, Handle, TypeOK, SocketsTypeOK
  <2>2. CASE Add
    BY <2>1, <2>2 DEF Add, Reject, wire
  <2>3. CASE Drop
    BY <2>1, <2>3 DEF Drop, ServerInv, DropEnded, Ended, Handle
  <2>4. ASSUME NEW t \in Threads, Cleanup(t)
        PROVE  At(Reactor, "add") /\ fdt[newfd] = c
    <3>1. CASE Close(epoll_fd)
      BY <2>1, <3>1 DEF ServerInv, MembersNotConns, Handle
    <3>2. CASE Close(server_fd)
      BY <2>1, <3>2 DEF ServerInv, MembersNotConns, Handle
    <3> QED
      BY <2>4, <3>1, <3>2 DEF Cleanup, StopTest, CloseEpoll, ClearEpoll, CloseServer,
                              ClearServer, ClearRunning, kernel, wire
  <2>5. CASE Accept
    BY <2>5 DEF Accept, TypeOK, SocketsTypeOK
  <2>6. CASE Environment
    BY <2>6 DEF Environment, Outside, OtherOpen, OtherClose, PeerSend, PeerEnd, PeerConnect,
                wire, TypeOK, SocketsTypeOK
  <2> QED
    BY <2>2, <2>3, <2>4, <2>5, <2>6
       DEF Next, Calls, Boot, EventLoop, Socket, Configure, EpollCreate, Register,
           SetRunning, LoopTest, EpollWait, WaitTimeout, WaitEvents, Dispatch, ReadData, ReadAgain, ReadEnd,
           ReadForeign, CallStop, kernel, wire
<1> QED
  BY <1>1, Invariant, PTL DEF Spec, LiveConnectionKept
=============================================================================
