--------------------------- MODULE ClientInvProofs ---------------------------
(***************************************************************************)
(* ClientInv, proved for every set of descriptors, connections and calling *)
(* threads: nobody closes or replaces what connect_to() or the Worker uses.*)
(***************************************************************************)
EXTENDS TcpClientProperties, TcpClientProofs

USE SocketsAssumption, ClientAssumption

\* A Worker that comes to join() is the member's thread.
LEMMA JoinsItself ==
    ASSUME TypeOK, RolesKept, ThreadKept, Worker \notin Disconnectors \/ NoneEarly,
           At(Worker, "join")
    PROVE  worker_thread = "worker"
  BY DEF TypeOK, RolesKept, ThreadKept, NoneEarly, InConnect, Disconnecting, Joining, At, Threads

\* A thread disconnects only if it may, and the Worker stops at join().
LEMMA RolesStep ==
    ASSUME TypeOK, RolesKept, ThreadKept, Worker \notin Disconnectors \/ NoneEarly, [Next]_vars
    PROVE  RolesKept'
<1>0. /\ pc \in [Threads -> Labels] /\ back \in [Threads -> {"idle", "dtor", "read"}]
      /\ Owner \in Threads /\ Worker \in Threads /\ Owner # Worker
  BY DEF TypeOK, Threads
<1> USE <1>0 DEF RolesKept, Looping, WorkerCalls, Disconnecting, Joining, Closing, At, Step, Goto, Free
<1>1. CASE UNCHANGED <<pc, back>>
  BY <1>1
<1>2. CASE \E how \in {"terminate", "exception", "SIGPIPE"} : Crash(how)
  BY <1>2 DEF Crash
<1>3. CASE Connect
  BY <1>3 DEF Connect
<1>4. CASE ConnectStep \/ ThreadFails \/ Destruct
  BY <1>2, <1>4 DEF ConnectStep, ThreadFails, Socket, Link, FailConnect, EpollCreate, Register, SetConnected,
                    Spawn, Destruct
<1>5. CASE WorkerStep
  BY <1>5 DEF WorkerStep, Start, LoopTest, EpollWait, WaitTimeout, WaitEvent, Read, Callback, ReadOn,
              ReadAgain, ReadEnd, Dropped
<1>6. CASE Destroy
  BY <1>6 DEF Destroy, Call
<1>7. CASE \E t \in Disconnectors : CallDisconnect(t)
  BY <1>7 DEF CallDisconnect, Call, Threads
<1>8. CASE \E t \in Senders : CallSend(t)
  BY <1>8 DEF CallSend, Call, Threads
<1>9. ASSUME NEW t \in Threads, CallStep(t)
      PROVE  RolesKept'
  <2>1. CASE ConnectedTest(t) \/ ClearConnected(t)
    BY <2>1 DEF ConnectedTest, ClearConnected, Return
  <2>4. CASE Join(t)
    <3>1. t = Worker => worker_thread = "worker"
      BY <2>4, JoinsItself DEF Join
    <3>2. t = Worker => \E how \in {"terminate", "exception", "SIGPIPE"} : Crash(how)
      BY <2>4, <3>1 DEF Join, Refused, Joinable
    <3>3. CASE t # Worker
      BY <1>2, <2>4, <3>3 DEF Join
    <3> QED
      BY <1>2, <3>2, <3>3
  <2>2. CASE Joined(t) \/ CloseEpoll(t) \/ ClearEpoll(t) \/ CloseClient(t) \/ ClearClient(t)
    BY <2>2 DEF Joined, CloseEpoll, ClearEpoll, CloseClient, ClearClient, CloseMember, Return
  <2>3. CASE SendTest(t) \/ Write(t) \/ SendEnd(t) \/ BrokenPipe(t)
    BY <1>2, <2>3 DEF SendTest, Write, SendEnd, ReturnSent, BrokenPipe, Return
  <2> QED
    BY <1>9, <2>1, <2>2, <2>3, <2>4 DEF CallStep
<1>10. CASE Environment \/ UNCHANGED vars
  BY <1>1, <1>10 DEF Environment, vars
<1>11. CASE ForeignStep
  BY <1>1, <1>2, <1>11 DEF ForeignStep, ReadForeign, WriteForeign, ReturnSent
<1> QED
  BY <1>3, <1>4, <1>5, <1>6, <1>7, <1>8, <1>9, <1>10, <1>11 DEF Next, Calls, OwnerStep

\* worker_thread is given a thread in connect_to() and loses it in join() only.
LEMMA ThreadStep ==
    ASSUME TypeOK, ThreadKept, [Next]_vars
    PROVE  ThreadKept'
<1>0. /\ pc \in [Threads -> Labels] /\ back \in [Threads -> {"idle", "dtor", "read"}]
      /\ worker_thread \in {"none", "worker", "ended"}
      /\ Owner \in Threads /\ Worker \in Threads /\ Owner # Worker
  BY DEF TypeOK, Threads
<1> USE <1>0 DEF ThreadKept, At, Step, Goto, Free
<1>1. ASSUME UNCHANGED worker_thread,
             At(Owner, "spawn") => At(Owner, "spawn")',
             pc[Worker] \in {"none", "dead"} => pc'[Worker] = pc[Worker],
             At(Owner, "dead") => At(Owner, "dead")'
      PROVE  ThreadKept'
  BY <1>1
<1>2. CASE \E how \in {"terminate", "exception", "SIGPIPE"} : Crash(how)
  BY <1>2 DEF Crash
<1>3. CASE Connect \/ Destroy
  BY <1>1, <1>3 DEF Connect, Destroy, Call
<1>4. CASE OwnerStep
  <2>1. CASE Spawn
    BY <1>2, <2>1 DEF Spawn, Joinable
  <2>2. CASE ThreadFails
    BY <1>2, <2>2 DEF ThreadFails, Started
  <2>3. CASE Socket \/ Link \/ EpollCreate \/ Register \/ SetConnected \/ Destruct
    BY <1>1, <1>2, <2>3 DEF Socket, Link, FailConnect, EpollCreate, Register, SetConnected, Destruct
  <2> QED
    BY <1>4, <2>1, <2>2, <2>3 DEF OwnerStep, ConnectStep
<1>5. CASE WorkerStep
  BY <1>1, <1>5 DEF WorkerStep, Start, Started, Joinable, LoopTest, EpollWait, WaitTimeout,
                    WaitEvent, Read, Callback, ReadOn, ReadAgain, ReadEnd, Dropped
<1>6. CASE \/ \E t \in Disconnectors : CallDisconnect(t)
           \/ \E t \in Senders : CallSend(t)
  BY <1>1, <1>6 DEF CallDisconnect, CallSend, Call, Threads
<1>7. ASSUME NEW t \in Threads, CallStep(t)
      PROVE  ThreadKept'
  <2>1. CASE Joined(t)
    BY <2>1 DEF Joined
  <2>2. CASE ConnectedTest(t) \/ ClearConnected(t) \/ Join(t) \/ CloseEpoll(t) \/ ClearEpoll(t)
               \/ CloseClient(t) \/ ClearClient(t)
    BY <1>1, <1>2, <2>2 DEF ConnectedTest, ClearConnected, Join, CloseEpoll, ClearEpoll,
                            CloseClient, ClearClient, CloseMember, Return
  <2>3. CASE SendTest(t) \/ Write(t) \/ SendEnd(t) \/ BrokenPipe(t)
    BY <1>1, <1>2, <2>3 DEF SendTest, Write, SendEnd, ReturnSent, BrokenPipe, Return
  <2> QED
    BY <1>7, <2>1, <2>2, <2>3 DEF CallStep
<1>8. CASE ForeignStep
  BY <1>1, <1>2, <1>8 DEF ForeignStep, ReadForeign, WriteForeign, ReturnSent
<1>9. CASE Environment \/ UNCHANGED vars
  BY <1>9 DEF Environment, vars
<1> QED
  BY <1>3, <1>4, <1>5, <1>6, <1>7, <1>8, <1>9 DEF Next, Calls

\* The flag keeps connect_to() and disconnect() apart.
LEMMA ApartStep ==
    ASSUME TypeOK, RolesKept, DisconnectsApart, [Next]_vars
    PROVE  DisconnectsApart'
<1>0. /\ pc \in [Threads -> Labels] /\ back \in [Threads -> {"idle", "dtor", "read"}]
      /\ Owner \in Threads /\ Worker \in Threads /\ Owner # Worker
  BY DEF TypeOK, Threads
<1> USE <1>0 DEF DisconnectsApart, Connecting, Disconnecting, Joining, Closing, At, Step, Goto, Free
<1>1. CASE UNCHANGED <<pc, is_connected>>
  BY <1>1
<1>2. CASE \E how \in {"terminate", "exception", "SIGPIPE"} : Crash(how)
  BY <1>2 DEF Crash
<1>3. CASE Connect
  BY <1>3 DEF Connect, RolesKept, Quiet, obj
<1>4. CASE ConnectStep \/ ThreadFails \/ Destruct
  BY <1>2, <1>4 DEF ConnectStep, ThreadFails, Socket, Link, FailConnect, EpollCreate, Register, SetConnected,
                    Spawn, Destruct, Quiet, obj
<1>5. CASE WorkerStep
  BY <1>5 DEF WorkerStep, Start, LoopTest, EpollWait, WaitTimeout, WaitEvent, Read, Callback, ReadOn,
              ReadAgain, ReadEnd, Dropped, Quiet, obj
<1>6. CASE Destroy
  BY <1>6 DEF Destroy, Call, Quiet, obj
<1>7. CASE \E t \in Disconnectors : CallDisconnect(t)
  BY <1>7 DEF CallDisconnect, Call, Threads, Quiet, obj
<1>8. CASE \E t \in Senders : CallSend(t)
  BY <1>8 DEF CallSend, Call, Threads, Quiet, obj
<1>9. ASSUME NEW t \in Threads, CallStep(t)
      PROVE  DisconnectsApart'
  <2>1. CASE ConnectedTest(t) \/ ClearConnected(t) \/ Join(t)
    BY <1>2, <2>1 DEF ConnectedTest, ClearConnected, Join, Return, Quiet, obj
  <2>2. CASE Joined(t) \/ CloseEpoll(t) \/ ClearEpoll(t) \/ CloseClient(t) \/ ClearClient(t)
    BY <2>2 DEF Joined, CloseEpoll, ClearEpoll, CloseClient, ClearClient, CloseMember, Return,
                Quiet, obj
  <2>3. CASE SendTest(t) \/ Write(t) \/ SendEnd(t) \/ BrokenPipe(t)
    BY <1>2, <2>3 DEF SendTest, Write, SendEnd, ReturnSent, BrokenPipe, Return, Quiet, obj
  <2> QED
    BY <1>9, <2>1, <2>2, <2>3 DEF CallStep
<1>10. CASE Environment \/ UNCHANGED vars
  BY <1>1, <1>10 DEF Environment, vars, obj
<1>11. CASE ForeignStep
  BY <1>1, <1>2, <1>11 DEF ForeignStep, ReadForeign, WriteForeign, ReturnSent, obj
<1> QED
  BY <1>3, <1>4, <1>5, <1>6, <1>7, <1>8, <1>9, <1>10, <1>11 DEF Next, Calls, OwnerStep

\* Only Closing threads close, and they do not as long as the Owner connects.
LEMMA ConnectingAlone ==
    ASSUME TypeOK, RolesKept, DisconnectsApart, Connecting, NEW t \in Threads
    PROVE  ~Closing(t)
  BY DEF RolesKept, DisconnectsApart, Connecting, Closing, Disconnecting, Looping, WorkerCalls, At

\* What the rest of the process opens and closes was never the client's.
LEMMA OutsideKeeps ==
    ASSUME TypeOK, Outside
    PROVE  /\ UNCHANGED <<interest, phase>>
           /\ \A n : Handle(n) \in {"socket", "epoll"} \cup Conns => Handle(n)' = Handle(n)
           /\ \A n : Handle(n)' \in {"socket", "epoll"} \cup Conns => Handle(n)' = Handle(n)
<1> USE DEF TypeOK, SocketsTypeOK, Kinds, Handle
<1>1. CASE OtherOpen \/ OtherClose
  BY <1>1 DEF OtherOpen, OtherClose, Install, Lowest, epoll, wire
<1>2. CASE \E c \in Conns : PeerSend(c) \/ PeerEnd(c)
  BY <1>2 DEF PeerSend, PeerEnd
<1> QED
  BY <1>1, <1>2 DEF Outside

\* connect_to() finds what it has opened.
LEMMA ConnectInOrderStep ==
    ASSUME TypeOK, RolesKept, DisconnectsApart, ConnectInOrder, [Next]_vars
    PROVE  ConnectInOrder'
<1>0. /\ pc \in [Threads -> Labels] /\ Owner \in Threads /\ Worker \in Threads /\ Owner # Worker
      /\ fdt \in [Fds -> Kinds \cup Conns] /\ Conns \cap Kinds = {}
  BY DEF TypeOK, SocketsTypeOK, Threads
<1> USE <1>0 DEF ConnectInOrder, At, Step, Goto
<1>1. ASSUME UNCHANGED <<fdt, interest, client_fd, epoll_fd>>,
             \/ pc'[Owner] = pc[Owner]
             \/ pc'[Owner] \notin {"link", "epoll", "register", "setconn"}
      PROVE  ConnectInOrder'
  BY <1>1 DEF Handle
<1>2. CASE Socket
  BY <1>2 DEF Socket, Install, Lowest, Handle
<1>3. CASE Link
  BY <1>3 DEF Link, FailConnect, Install, Handle, obj
<1>4. CASE EpollCreate
  BY <1>4 DEF EpollCreate, FailConnect, Install, Lowest, Handle, Kinds
<1>5. CASE Register
  BY <1>5 DEF Register, FailConnect, Watch, Handle, obj
<1>6. CASE SetConnected \/ Spawn \/ ThreadFails \/ Destruct \/ Connect \/ Destroy
  BY <1>1, <1>6 DEF SetConnected, Spawn, ThreadFails, Destruct, Connect, Destroy, Call, Crash, Quiet, obj, kernel, epoll
<1>7. CASE WorkerStep
  <2>1. pc'[Owner] = pc[Owner] /\ UNCHANGED <<fdt, interest, client_fd, epoll_fd>>
    BY <1>7 DEF WorkerStep, Start, LoopTest, EpollWait, WaitTimeout, WaitEvent, Read, Callback, ReadOn,
                ReadAgain, ReadEnd, Dropped, Quiet, obj, kernel, epoll
  <2> QED
    BY <1>1, <2>1
<1>8. CASE \/ \E t \in Disconnectors : CallDisconnect(t)
           \/ \E t \in Senders : CallSend(t)
  BY <1>1, <1>8 DEF CallDisconnect, CallSend, Call, Quiet, obj, kernel, epoll
<1>9. ASSUME NEW t \in Threads, CallStep(t)
      PROVE  ConnectInOrder'
  <2>1. CASE Closing(t)
    <3>1. ~Connecting /\ pc'[Owner] \notin {"link", "epoll", "register", "setconn"}
      BY <1>9, <2>1, ConnectingAlone
         DEF Closing, CallStep, ConnectedTest, ClearConnected, Join, Joined, CloseEpoll, ClearEpoll,
             CloseClient, ClearClient, CloseMember, SendTest, Write, SendEnd, ReturnSent, BrokenPipe, Return,
             Connecting, TypeOK
    <3> QED
      BY <3>1
  <2>2. CASE ~Closing(t)
    <3>1. /\ UNCHANGED <<fdt, interest, client_fd, epoll_fd>>
          /\ pc'[Owner] = pc[Owner] \/ pc'[Owner] \notin {"link", "epoll", "register", "setconn"}
      BY <1>9, <2>2
         DEF Closing, CallStep, ConnectedTest, ClearConnected, Join, Joined, CloseEpoll, ClearEpoll,
             CloseClient, ClearClient, CloseMember, SendTest, Write, SendEnd, ReturnSent, BrokenPipe, Return,
             Crash, Quiet, obj, kernel, epoll, TypeOK
    <3> QED
      BY <1>1, <3>1
  <2> QED
    BY <2>1, <2>2
<1>10. CASE Environment
  <2>1. CASE Outside
    BY <1>10, <2>1, OutsideKeeps DEF Environment, obj
  <2>2. CASE \E c \in Conns : PeerRecv(c)
    BY <1>1, <1>10, <2>2 DEF Environment, PeerRecv, obj, kernel, epoll
  <2> QED
    BY <1>10, <2>1, <2>2 DEF Environment
<1>11. CASE UNCHANGED vars
  BY <1>1, <1>11 DEF vars, obj, kernel, epoll
<1>12. CASE ForeignStep
  BY <1>1, <1>12 DEF ForeignStep, ReadForeign, WriteForeign, ReturnSent, Crash, TypeOK, obj, epoll
<1> QED
  BY <1>2, <1>3, <1>4, <1>5, <1>6, <1>7, <1>8, <1>9, <1>10, <1>11, <1>12
     DEF Next, Calls, OwnerStep, ConnectStep

\* A call starts at "test" or "sendTest", and the Worker calls from data_cb only.
LEMMA CallStarts ==
    ASSUME TypeOK, RolesKept, [Next]_vars,
           \/ \E t \in Disconnectors : CallDisconnect(t)
           \/ \E t \in Senders : CallSend(t)
    PROVE  /\ UNCHANGED <<kernel, obj, worker_thread, stream>>
           /\ \E t \in Threads, label \in {"test", "sendTest"} :
                 /\ pc[t] \in {"idle", "callback"} /\ pc' = [pc EXCEPT ![t] = label]
                 /\ t = Worker => pc[t] = "callback"
<1>1. PICK t \in Threads, label \in {"test", "sendTest"}, next \in {"idle", "read"} : Call(t, label, next)
  BY DEF CallDisconnect, CallSend, Threads
<1> QED
  BY <1>1 DEF Call, Free, At, Goto, Quiet, RolesKept, Looping, WorkerCalls

\* When nobody disconnects early, whoever comes to join() finds the Worker joinable, or it
\* uses nothing.
LEMMA JoinsWorker ==
    ASSUME TypeOK, RolesKept, ThreadKept, NoneEarly, NEW t \in Threads, Joining(t),
           worker_thread # "worker"
    PROVE  ~Looping
  BY DEF TypeOK, ThreadKept, NoneEarly, InConnect, Disconnecting, Looping, WorkerCalls, Joining,
         At, Threads

\* connect_to() is not called while another thread disconnects, and holds up disconnect().
LEMMA NoneEarlyStep ==
    ASSUME TypeOK, RolesKept, ThreadKept, NoneEarly, ~Early, [Next]_vars
    PROVE  NoneEarly'
<1>0. /\ pc \in [Threads -> Labels] /\ back \in [Threads -> {"idle", "dtor", "read"}]
      /\ worker_thread \in {"none", "worker", "ended"}
      /\ Owner \in Threads /\ Worker \in Threads /\ Owner # Worker
  BY DEF TypeOK, Threads
<1> USE <1>0 DEF NoneEarly, InConnect, Disconnecting, Joining, Closing, At, Step, Goto, Free
<1>1. ASSUME InConnect' => InConnect, UNCHANGED worker_thread,
             \A t \in Threads : At(t, "test")' \/ Disconnecting(t)'
                                  => At(t, "test") \/ Disconnecting(t)
      PROVE  NoneEarly'
  BY <1>1
<1>2. CASE \E how \in {"terminate", "exception", "SIGPIPE"} : Crash(how)
  BY <1>2 DEF Crash
<1>3. CASE Connect
  <2>1. \A t \in Threads \ {Owner, Worker} : ~At(t, "test") /\ ~Disconnecting(t)
    BY <1>3 DEF Connect, RolesKept
  <2>2. worker_thread # "worker" => pc[Worker] \in {"none", "dead"}
    BY <1>3 DEF Connect, ThreadKept
  <2> QED
    BY <1>3, <2>1, <2>2 DEF Connect
<1>4. CASE OwnerStep
  <2>1. CASE Spawn
    BY <1>2, <2>1 DEF Spawn
  <2>2. CASE Socket \/ Link \/ EpollCreate \/ Register
    BY <2>2 DEF Socket, Link, FailConnect, EpollCreate, Register
  <2>3. CASE SetConnected \/ ThreadFails \/ Destruct
    BY <1>1, <1>2, <2>3 DEF SetConnected, ThreadFails, Destruct
  <2> QED
    BY <1>4, <2>1, <2>2, <2>3 DEF OwnerStep, ConnectStep
<1>5. CASE WorkerStep
  <2>1. CASE Start
    BY <2>1 DEF Start
  <2>2. CASE ~Start
    BY <1>1, <1>5, <2>2 DEF WorkerStep, LoopTest, EpollWait, WaitTimeout, WaitEvent, Read,
                            Callback, ReadOn, ReadAgain, ReadEnd, Dropped
  <2> QED
    BY <2>1, <2>2
<1>6. CASE Destroy \/ \E t \in Disconnectors : CallDisconnect(t)
  BY <1>6 DEF Destroy, CallDisconnect, Call, Threads
<1>7. CASE \E t \in Senders : CallSend(t)
  BY <1>1, <1>7 DEF CallSend, Call, Threads
<1>8. ASSUME NEW t \in Threads, CallStep(t)
      PROVE  NoneEarly'
  <2>1. CASE Joined(t)
    BY <2>1 DEF Joined, RolesKept, Looping, WorkerCalls
  <2>2. CASE ConnectedTest(t) \/ ClearConnected(t) \/ Join(t) \/ CloseEpoll(t) \/ ClearEpoll(t)
               \/ CloseClient(t) \/ ClearClient(t)
    BY <1>1, <1>2, <2>2 DEF ConnectedTest, ClearConnected, Join, CloseEpoll, ClearEpoll,
                            CloseClient, ClearClient, CloseMember, Return
  <2>3. CASE SendTest(t) \/ Write(t) \/ SendEnd(t) \/ BrokenPipe(t)
    BY <1>1, <1>2, <2>3 DEF SendTest, Write, SendEnd, ReturnSent, BrokenPipe, Return
  <2> QED
    BY <1>8, <2>1, <2>2, <2>3 DEF CallStep
<1>9. CASE ForeignStep
  BY <1>1, <1>2, <1>9 DEF ForeignStep, ReadForeign, WriteForeign, ReturnSent
<1>10. CASE Environment \/ UNCHANGED vars
  BY <1>1, <1>10 DEF Environment, vars
<1> QED
  BY <1>3, <1>4, <1>5, <1>6, <1>7, <1>8, <1>9, <1>10 DEF Next, Calls

\* A Worker that uses the descriptors while the client is no longer connected has
\* somebody waiting in join() for it, who leaves only when it has exited.
LEMMA AwaitedStep ==
    ASSUME TypeOK, RolesKept, ThreadKept, NoneEarly, LiveWhileUsed, WorkerAwaited, [Next]_vars
    PROVE  WorkerAwaited'
<1>0. /\ pc \in [Threads -> Labels] /\ Owner \in Threads /\ Worker \in Threads /\ Owner # Worker
  BY DEF TypeOK, Threads
<1> USE <1>0 DEF WorkerAwaited, Looping, WorkerCalls, Joining, At, Step, Goto
<1>1. ASSUME Looping' /\ ~is_connected' => Looping /\ ~is_connected,
             \A t \in Threads \ {Worker} : Joining(t) => pc'[t] = pc[t]
      PROVE  WorkerAwaited'
  BY <1>1
<1>2. CASE \E how \in {"terminate", "exception", "SIGPIPE"} : Crash(how)
  BY <1>2 DEF Crash
<1>3. CASE Connect \/ Destroy
  BY <1>1, <1>3 DEF Connect, Destroy, Call, Free, Quiet, obj
<1>4. CASE ConnectStep \/ ThreadFails \/ Destruct
  BY <1>1, <1>2, <1>4
     DEF ConnectStep, ThreadFails, Socket, Link, FailConnect, EpollCreate, Register, SetConnected, Spawn,
         Destruct, Quiet, obj
<1>5. CASE WorkerStep
  <2>1. CASE Dropped
    BY <2>1 DEF Dropped
  <2>2. CASE ~Dropped
    BY <1>1, <1>5, <2>2 DEF WorkerStep, Start, LoopTest, EpollWait, WaitTimeout, WaitEvent,
                            Read, Callback, ReadOn, ReadAgain, ReadEnd, Quiet, obj
  <2> QED
    BY <2>1, <2>2
<1>6. CASE \/ \E t \in Disconnectors : CallDisconnect(t)
           \/ \E t \in Senders : CallSend(t)
  BY <1>1, <1>6, CallStarts DEF obj
<1>7. ASSUME NEW t \in Threads, CallStep(t)
      PROVE  WorkerAwaited'
  <2>1. CASE ClearConnected(t)
    BY <2>1 DEF ClearConnected
  <2>2. CASE Join(t)
    <3>1. CASE ~Joinable
      <4>1. ~Looping /\ t # Worker
        BY <2>2, <3>1, JoinsWorker, JoinsItself DEF Join, Joinable
      <4> QED
        BY <2>2, <3>1, <4>1 DEF Join
    <3>2. CASE Joinable
      <4>1. t # Worker \/ \E how \in {"terminate", "exception", "SIGPIPE"} : Crash(how)
        BY <2>2, <3>2, JoinsItself DEF Join, Refused
      <4> QED
        BY <1>2, <2>2, <3>2, <4>1 DEF Join, Quiet, obj
    <3> QED
      BY <3>1, <3>2
  <2>3. CASE Joined(t)
    <3>1. t # Worker /\ (worker_thread = "worker" \/ ~Looping)
      BY <2>3, JoinsWorker DEF Joined, RolesKept
    <3> QED
      BY <2>3, <3>1 DEF Joined
  <2>4. CASE ConnectedTest(t) \/ CloseEpoll(t) \/ ClearEpoll(t) \/ CloseClient(t) \/ ClearClient(t)
    BY <1>1, <2>4 DEF ConnectedTest, CloseEpoll, ClearEpoll, CloseClient, ClearClient, CloseMember,
                      Return, RolesKept, Quiet, obj
  <2>5. CASE SendTest(t) \/ Write(t) \/ SendEnd(t) \/ BrokenPipe(t)
    BY <1>1, <1>2, <2>5 DEF SendTest, Write, SendEnd, ReturnSent, BrokenPipe, Return, Quiet, obj
  <2> QED
    BY <1>7, <2>1, <2>2, <2>3, <2>4, <2>5 DEF CallStep
<1>8. CASE Environment \/ UNCHANGED vars
  <2>1. UNCHANGED <<pc, is_connected>>
    BY <1>8 DEF Environment, vars, obj
  <2> QED
    BY <2>1
<1>9. CASE ForeignStep
  BY <1>1, <1>2, <1>9 DEF ForeignStep, ReadForeign, WriteForeign, ReturnSent, RolesKept, obj
<1> QED
  BY <1>3, <1>4, <1>5, <1>6, <1>7, <1>8, <1>9 DEF Next, Calls, OwnerStep

\* Neither connect_to() nor disconnect() touches the descriptors of a client that is
\* connected or whose Worker still uses them.
LEMMA LiveStep ==
    ASSUME TypeOK, OrderInv, NoneEarly, LiveWhileUsed, WorkerAwaited, [Next]_vars
    PROVE  LiveWhileUsed'
<1>0. /\ pc \in [Threads -> Labels] /\ back \in [Threads -> {"idle", "dtor", "read"}]
      /\ Owner \in Threads /\ Worker \in Threads /\ Owner # Worker
  BY DEF TypeOK, Threads
<1> USE <1>0 DEF OrderInv, LiveWhileUsed, At, Step, Goto
<1>1. ASSUME UNCHANGED <<fdt, interest, client_fd, epoll_fd>>,
             is_connected' \/ Looping' => is_connected \/ Looping,
             Connecting' => Connecting, \A t \in Threads : Closing(t)' => Closing(t)
      PROVE  LiveWhileUsed'
  BY <1>1 DEF Live, Handle
<1>2. CASE \E how \in {"terminate", "exception", "SIGPIPE"} : Crash(how) /\ Quiet
  BY <1>1, <1>2 DEF Crash, Quiet, obj, kernel, epoll, Connecting, Closing, Looping, WorkerCalls
<1>3. CASE Connect
  <2>1. ~is_connected /\ \A t \in Threads \ {Worker} : ~Joining(t)
    BY <1>3 DEF Connect, Free, Joining, RolesKept, Disconnecting
  <2>2. ~Looping
    BY <2>1 DEF WorkerAwaited
  <2> QED
    BY <1>3, <2>1, <2>2 DEF Connect, Quiet, obj, Looping, WorkerCalls
<1>4. CASE ConnectStep \/ ThreadFails
  <2>1. CASE SetConnected
    <3>1. /\ Handle(client_fd) \in Conns /\ Handle(epoll_fd) = "epoll" /\ interest = {client_fd}
          /\ UNCHANGED <<fdt, interest, client_fd, epoll_fd>>
      BY <2>1 DEF SetConnected, ConnectInOrder, kernel, epoll
    <3>2. ~Connecting' /\ \A t \in Threads : ~Closing(t)'
      BY <2>1, ConnectingAlone DEF SetConnected, Connecting, Closing
    <3> QED
      BY <3>1, <3>2 DEF Live, Handle
  <2>2. CASE Spawn \/ ThreadFails
    BY <1>1, <1>2, <2>2 DEF Spawn, ThreadFails, Quiet, obj, kernel, epoll, Connecting, Closing, Looping, WorkerCalls
  <2>3. CASE Socket \/ Link \/ EpollCreate \/ Register
    <3>1. Connecting /\ ~is_connected /\ ~Looping
      BY <2>3 DEF Socket, Link, EpollCreate, Register, Connecting, DisconnectsApart, Live
    <3>2. ~is_connected' /\ pc'[Worker] = pc[Worker]
      BY <2>3, <3>1 DEF Socket, Link, FailConnect, EpollCreate, Register, obj
    <3> QED
      BY <3>1, <3>2 DEF Looping, WorkerCalls
  <2> QED
    BY <1>4, <2>1, <2>2, <2>3 DEF ConnectStep
<1>5. CASE Destruct \/ Destroy
  BY <1>1, <1>2, <1>5 DEF Destruct, Destroy, Call, Quiet, obj, kernel, epoll, Connecting, Closing,
                          Looping, WorkerCalls
<1>6. CASE WorkerStep
  BY <1>1, <1>6 DEF WorkerStep, Start, LoopTest, EpollWait, WaitTimeout, WaitEvent, Read, Callback, ReadOn,
                    ReadAgain, ReadEnd, Dropped, Quiet, obj, kernel, epoll, Connecting, Closing,
                    Looping, WorkerCalls
<1>7. CASE \/ \E t \in Disconnectors : CallDisconnect(t)
           \/ \E t \in Senders : CallSend(t)
  BY <1>1, <1>7, CallStarts DEF obj, kernel, epoll, Connecting, Closing, Looping, WorkerCalls
<1>8. ASSUME NEW t \in Threads, CallStep(t)
      PROVE  LiveWhileUsed'
  <2>1. CASE Closing(t) \/ Joined(t)
    <3>2. t # Worker
      BY <2>1 DEF Closing, Joined, RolesKept, Looping, WorkerCalls
    <3>4. Joined(t) => worker_thread = "worker" \/ ~Looping
      BY JoinsWorker DEF Joined, Joining
    <3>1. ~is_connected /\ ~Looping
      BY <2>1, <3>2, <3>4 DEF Live, Joined, Closing, DisconnectsApart, Joining, Looping, WorkerCalls
    <3>3. UNCHANGED is_connected /\ (pc'[Worker] = pc[Worker] \/ pc'[Worker] = "none")
      BY <1>8, <2>1, <3>2
         DEF Closing, CallStep, ConnectedTest, ClearConnected, Join, Joined, CloseEpoll, ClearEpoll,
             CloseClient, ClearClient, CloseMember, SendTest, Write, SendEnd, ReturnSent, BrokenPipe, Return,
             Quiet, obj
    <3> QED
      BY <3>1, <3>3 DEF Looping, WorkerCalls
  <2>2. CASE ConnectedTest(t) \/ ClearConnected(t)
    BY <1>1, <2>2 DEF ConnectedTest, ClearConnected, Return, Quiet, obj, kernel, epoll, Connecting,
                      Closing, Looping, WorkerCalls, RolesKept
  <2>3. CASE Join(t)
    <3>1. CASE ~Joinable
      <4>1. t # Worker /\ ~is_connected /\ ~Looping
        BY <2>3, <3>1, JoinsWorker, JoinsItself DEF Join, Joinable, DisconnectsApart, Joining
      <4>2. ~is_connected' /\ pc'[Worker] = pc[Worker]
        BY <2>3, <3>1, <4>1 DEF Join, Quiet, obj
      <4> QED
        BY <4>1, <4>2 DEF Looping, WorkerCalls
    <3>2. CASE Joinable
      BY <1>1, <1>2, <2>3, <3>2 DEF Join, Quiet, obj, kernel, epoll, Connecting, Closing, Looping,
                                    WorkerCalls
    <3> QED
      BY <3>1, <3>2
  <2>4. CASE SendTest(t) \/ Write(t) \/ SendEnd(t) \/ BrokenPipe(t)
    BY <1>1, <1>2, <2>4 DEF SendTest, Write, SendEnd, ReturnSent, BrokenPipe, Return, Quiet, obj, kernel, epoll,
                            Connecting, Closing, Looping, WorkerCalls
  <2> QED
    BY <1>8, <2>1, <2>2, <2>3, <2>4
       DEF CallStep, CloseEpoll, ClearEpoll, CloseClient, ClearClient, Closing
<1>9. CASE Environment
  <2>1. CASE Outside
    BY <1>9, <2>1, OutsideKeeps DEF Environment, obj, Live, Connecting, Closing, Looping, WorkerCalls
  <2>2. CASE \E c \in Conns : PeerRecv(c)
    BY <1>1, <1>9, <2>2 DEF Environment, PeerRecv, obj, kernel, epoll, Connecting, Closing, Looping,
                            WorkerCalls
  <2> QED
    BY <1>9, <2>1, <2>2 DEF Environment
<1>10. CASE UNCHANGED vars
  BY <1>1, <1>10 DEF vars, obj, kernel, epoll, Connecting, Closing, Looping, WorkerCalls
<1>11. CASE ForeignStep
  <2>1. ASSUME NEW t \in Threads, WriteForeign(t)
        PROVE  LiveWhileUsed'
    <3>1. CASE Crash("SIGPIPE")
      BY <1>1, <2>1, <3>1 DEF WriteForeign, Crash, obj, epoll, Connecting, Closing, Looping, WorkerCalls
    <3>2. CASE ~Crash("SIGPIPE")
      BY <1>1, <2>1, <3>2 DEF WriteForeign, ReturnSent, RolesKept, obj, epoll, Connecting, Closing,
                              Looping, WorkerCalls
    <3> QED
      BY <3>1, <3>2
  <2>2. CASE ReadForeign
    BY <1>1, <2>2 DEF ReadForeign, obj, epoll, Connecting, Closing, Looping, WorkerCalls
  <2> QED
    BY <1>11, <2>1, <2>2 DEF ForeignStep
<1> QED
  BY <1>3, <1>4, <1>5, <1>6, <1>7, <1>8, <1>9, <1>10, <1>11 DEF Next, Calls, OwnerStep

\* An edge is there from the registration until the Worker takes it, and the Worker goes
\* back to wait only with nothing left to read.
LEMMA EdgeStep ==
    ASSUME TypeOK, ClientInv, [Next]_vars
    PROVE  EdgeKept'
<1>0. /\ pc \in [Threads -> Labels] /\ back \in [Threads -> {"idle", "dtor", "read"}]
      /\ Owner \in Threads /\ Worker \in Threads /\ Owner # Worker
  BY DEF TypeOK, Threads
<1> USE <1>0 DEF ClientInv, OrderInv, EdgeKept, Owed, At, Step, Goto
<1>1. ASSUME UNCHANGED <<fdt, edge, inq, eof, client_fd>>, Owed' => Owed
      PROVE  EdgeKept'
  BY <1>1 DEF Handle, Pending
<1>2. CASE \E how \in {"terminate", "exception", "SIGPIPE"} : Crash(how)
  BY <1>2 DEF Crash
<1>3. CASE Connect \/ Destroy
  BY <1>1, <1>3 DEF Connect, Destroy, Call, Free, Quiet, obj, kernel, epoll, wire
<1>4. CASE ConnectStep \/ ThreadFails \/ Destruct
  <2>1. CASE Register
    <3>1. ~is_connected
      BY <2>1 DEF Register, DisconnectsApart, Connecting
    <3>2. CASE Watch(client_fd)
      BY <2>1, <3>2 DEF Register, Watch, Handle, Pending, obj, wire
    <3>3. CASE FailConnect
      BY <2>1, <3>1, <3>3 DEF Register, FailConnect, obj
    <3> QED
      BY <2>1, <3>2, <3>3 DEF Register
  <2>2. CASE SetConnected
    BY <1>1, <2>2 DEF SetConnected, kernel, epoll, wire
  <2>3. CASE Spawn \/ ThreadFails \/ Destruct
    BY <1>1, <1>2, <2>3 DEF Spawn, ThreadFails, Destruct, Started, Joinable, Quiet, obj, kernel, epoll, wire
  <2>4. CASE Socket \/ Link \/ EpollCreate
    BY <2>4 DEF Socket, Link, EpollCreate, FailConnect, DisconnectsApart, Connecting, obj
  <2> QED
    BY <1>4, <2>1, <2>2, <2>3, <2>4 DEF ConnectStep
<1>5. CASE WorkerStep
  <2>1. CASE ReadAgain
    BY <2>1 DEF ReadAgain, Quiet, obj, kernel, wire, Handle, Pending, DisconnectsApart, LiveWhileUsed,
                Live, Connecting, Looping
  <2>2. CASE Dropped
    BY <2>2 DEF Dropped, LiveWhileUsed, Live, Connecting, Looping
  <2>3. CASE WaitEvent \/ Read \/ ReadEnd
    BY <2>3 DEF WaitEvent, Read, ReadEnd, LiveWhileUsed, Live, Connecting, Looping
  <2>4. CASE Callback
    BY <2>4 DEF Callback, ReadOn, LiveWhileUsed, Live, Connecting, Looping
  <2>5. CASE Start \/ LoopTest \/ WaitTimeout
    BY <1>1, <2>5 DEF Start, LoopTest, WaitTimeout, Quiet, obj, kernel, epoll, wire
  <2>6. CASE EpollWait
    BY <1>1, <2>6 DEF EpollWait, LiveWhileUsed, Live, Looping, Quiet, obj, kernel, epoll, wire
  <2> QED
    BY <1>5, <2>1, <2>2, <2>3, <2>4, <2>5, <2>6 DEF WorkerStep
<1>6. CASE \/ \E t \in Disconnectors : CallDisconnect(t)
           \/ \E t \in Senders : CallSend(t)
  BY <1>1, <1>6, CallStarts DEF obj, kernel, epoll, wire
<1>7. ASSUME NEW t \in Threads, CallStep(t)
      PROVE  EdgeKept'
  <2>1. CASE Closing(t) \/ Joined(t)
    <3>1. ~is_connected /\ t # Worker
      BY <2>1 DEF Closing, Joined, RolesKept, Looping, WorkerCalls, DisconnectsApart, Joining
    <3>2. ~is_connected' /\ (At(Owner, "setconn")' => At(Owner, "setconn") /\ t # Owner)
      BY <1>7, <2>1, <3>1
         DEF Closing, CallStep, ConnectedTest, ClearConnected, Join, Joined, CloseEpoll, ClearEpoll,
             CloseClient, ClearClient, CloseMember, SendTest, Write, SendEnd, ReturnSent, BrokenPipe, Return,
             Quiet, obj
    <3>3. Joined(t) => UNCHANGED <<fdt, edge, inq, eof, client_fd>>
      BY DEF Joined, Quiet, obj, kernel, epoll, wire
    <3>4. ~At(Owner, "setconn") \/ ~Closing(t)
      BY ConnectingAlone DEF Connecting
    <3> QED
      BY <1>1, <2>1, <3>2, <3>3, <3>4
  <2>2. CASE ClearConnected(t)
    BY <1>1, <2>2 DEF ClearConnected, kernel, epoll, wire
  <2>3. CASE ConnectedTest(t) \/ Join(t)
    BY <1>1, <1>2, <2>3 DEF ConnectedTest, Join, Return, Quiet, obj, kernel, epoll, wire
  <2>4. CASE SendTest(t) \/ Write(t) \/ SendEnd(t) \/ BrokenPipe(t)
    BY <1>1, <1>2, <2>4 DEF SendTest, Write, SendEnd, ReturnSent, BrokenPipe, Return, Quiet, obj, kernel, epoll, wire
  <2> QED
    BY <1>7, <2>1, <2>2, <2>3, <2>4
       DEF CallStep, CloseEpoll, ClearEpoll, CloseClient, ClearClient, Closing
<1>8. CASE Environment
  <2>1. UNCHANGED <<client_fd, is_connected, pc>>
    BY <1>8 DEF Environment, obj
  <2>2. ASSUME NEW c \in Conns, Arrival(c), UNCHANGED <<fdt, interest>>,
               \A d \in Conns \ {c} : inq'[d] = inq[d] /\ eof'[d] = eof[d], Owed
        PROVE  EdgeKept'
    <3>1. interest = {client_fd}
      BY <2>2 DEF ConnectInOrder, LiveWhileUsed, Live
    <3> QED
      BY <2>1, <2>2, <3>1 DEF Arrival, Pending, Handle, TypeOK, SocketsTypeOK
  <2>3. CASE \E c \in Conns : PeerSend(c)
    BY <2>1, <2>2, <2>3 DEF PeerSend
  <2>4. CASE \E c \in Conns : PeerEnd(c)
    BY <2>1, <2>2, <2>4 DEF PeerEnd
  <2>5. CASE OtherOpen \/ OtherClose
    <3>1. Handle(client_fd)' \in Conns => Handle(client_fd)' = Handle(client_fd)
      BY <2>1, <2>5, OutsideKeeps DEF Outside, Handle
    <3>2. UNCHANGED <<edge, inq, eof>>
      BY <2>5 DEF OtherOpen, OtherClose, epoll, wire
    <3> QED
      BY <2>1, <3>1, <3>2 DEF Pending
  <2>6. CASE \E c \in Conns : PeerRecv(c)
    BY <1>1, <2>1, <2>6 DEF PeerRecv, kernel, epoll, wire
  <2> QED
    BY <1>8, <2>3, <2>4, <2>5, <2>6 DEF Environment, Outside
<1>9. CASE UNCHANGED vars
  BY <1>1, <1>9 DEF vars, obj, kernel, epoll, wire
<1>10. CASE ForeignStep
  <2>1. Handle(client_fd) = "other"
    BY <1>10 DEF ForeignStep, ReadForeign, WriteForeign
  <2>2. Handle(client_fd)' = "other" /\ "other" \notin Conns
    BY <1>10, <2>1 DEF ForeignStep, ReadForeign, WriteForeign, obj, Handle, Kinds
  <2> QED
    BY <2>2 DEF Pending
<1> QED
  BY <1>3, <1>4, <1>5, <1>6, <1>7, <1>8, <1>9, <1>10 DEF Next, Calls, OwnerStep

-----------------------------------------------------------------------------
\* The first step of no call breaks it: nobody has called anything.
LEMMA ClientInvInit ==
    ASSUME Init
    PROVE  ClientInv
<1>1. \A t \in Threads : pc[t] \in {"idle", "none"}
  BY DEF Init
<1>2. pc[Owner] = "idle" /\ pc[Worker] = "none" /\ ~is_connected /\ worker_thread = "none"
  BY DEF Init, Threads
<1> QED
  BY <1>1, <1>2 DEF ClientInv, OrderInv, RolesKept, ThreadKept, NoneEarly, DisconnectsApart,
     ConnectInOrder, LiveWhileUsed, WorkerAwaited, EdgeKept, Owed, InConnect, Connecting, Closing,
     Joining, Disconnecting, Looping, WorkerCalls, At

\* connect_to() and every disconnect() keep to their order, also when one comes before the
\* other has returned, as long as data_cb does not disconnect then; and when nobody does,
\* ClientInv holds before the first call, and no step of any thread breaks it.
THEOREM ClientInvariant ==
    Spec => [](TypeOK /\ (Orderly => OrderInv) /\ (~Early => ClientInv))
<1> DEFINE Inv == (Orderly => OrderInv) /\ (~Early => ClientInv)
<1>1. Init => Inv
  BY ClientInvInit DEF ClientInv
<1>2. TypeOK /\ Inv /\ [Next]_vars => Inv'
  <2> SUFFICES ASSUME TypeOK, Inv, [Next]_vars
               PROVE  Inv'
    OBVIOUS
  <2>1. ASSUME OrderInv, Worker \notin Disconnectors \/ NoneEarly
        PROVE  OrderInv'
    BY <2>1, RolesStep, ThreadStep, ApartStep, ConnectInOrderStep DEF OrderInv
  <2>2. CASE ~Early
    <3>1. ClientInv
      BY <2>2
    <3>2. OrderInv' /\ NoneEarly'
      BY <2>1, <2>2, <3>1, NoneEarlyStep DEF ClientInv, OrderInv
    <3>3. LiveWhileUsed' /\ WorkerAwaited' /\ EdgeKept'
      BY <3>1, LiveStep, AwaitedStep, EdgeStep DEF ClientInv, OrderInv
    <3> QED
      BY <3>2, <3>3 DEF ClientInv
  <2>3. CASE Early
    BY <2>1, <2>3 DEF Orderly
  <2> QED
    BY <2>2, <2>3
<1> QED
  BY <1>1, <1>2, ClientTypeCorrect, PTL DEF Spec

\* Whoever calls disconnect() and send_data(), from whichever thread, but for a disconnect()
\* while connect_to() executes: as long as the Worker waits, reads or is in data_cb, its
\* descriptors are the ones it was started with.
THEOREM WorkerDescriptorsKept == Spec => [](~Early => WorkerDescriptorsLive)
<1>1. ClientInv => WorkerDescriptorsLive
  BY DEF ClientInv, LiveWhileUsed, Live, WorkerDescriptorsLive, Looping, At
<1> QED
  BY <1>1, ClientInvariant, PTL

\* No edge of the connection is lost between registration, wait and read, under the same
\* condition.
THEOREM ClientEdgesKept == Spec => [](~Early => NoLostEdge)
<1>1. ClientInv => NoLostEdge
  <2> SUFFICES ASSUME ClientInv, is_connected,
                      pc[Worker] \in {"none", "loop", "wait", "blocked"}, NEW f \in interest,
                      Pending(fdt[f])
               PROVE  f \in edge
    BY DEF NoLostEdge
  <2>1. f = client_fd /\ Handle(client_fd) \in Conns
    BY DEF ClientInv, LiveWhileUsed, Live
  <2>2. Handle(client_fd) = fdt[f]
    BY <2>1 DEF Handle, Kinds
  <2> QED
    BY <2>1, <2>2 DEF ClientInv, EdgeKept, Owed
<1> QED
  BY <1>1, ClientInvariant, PTL
=============================================================================
