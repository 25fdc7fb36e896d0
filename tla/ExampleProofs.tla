---------------------------- MODULE ExampleProofs ----------------------------
(***************************************************************************)
(* The client example is a legal user of TcpClient, so that what is proved *)
(* of the client holds of it; and what it leaves behind when it returns.   *)
(***************************************************************************)
EXTENDS ClientExample, ClientSessionProofs

USE SocketsAssumption, ClientAssumption, ExampleAssumption

\* Each step of main(), of its handler, of the Worker and of the environment is a step that
\* TcpClient allows.
LEMMA ExampleStep ==
    ASSUME [ExampleNext]_<<vars, app>>
    PROVE  [Next]_vars
<1>1. CASE Program
  <2>1. CASE CallConnect \/ ReturnFromMain
    BY <2>1 DEF CallConnect, ReturnFromMain, Next, Calls
  <2>2. CASE CallSendData \/ CallDisconnectLast
    BY <2>2 DEF CallSendData, CallDisconnectLast, Next, Calls
  <2>3. CASE MainStep
    BY <2>3 DEF MainStep, Next, Calls, OwnerStep, Threads
  <2> QED
    BY <1>1, <2>1, <2>2, <2>3 DEF Program
<1>2. CASE \E h \in Handlers : SignalHandler(h)
  BY <1>2 DEF SignalHandler, Next, Calls
<1>3. CASE \/ WorkerStep \/ ReadForeign \/ (Awake(Owner) /\ Destruct) \/ Environment
           \/ (Awake(Owner) /\ ThreadFails /\ ~Running')
  BY <1>3 DEF Next, Calls, OwnerStep, ForeignStep
<1>4. CASE \E t \in Threads \ {Owner} : CallStep(t)
  BY <1>4 DEF Next, Calls, Awake
<1>5. CASE UNCHANGED <<vars, app>>
  BY <1>5
<1> QED
  BY <1>1, <1>2, <1>3, <1>4, <1>5 DEF ExampleNext

\* The example implements TcpClient: whatever Ctrl+C interrupts, it calls the client only as
\* the client allows.
THEOREM ExampleIsClient == ExampleSpec => Spec
<1>1. ExampleInit => Init
  BY DEF ExampleInit
<1>2. [ExampleNext]_<<vars, app>> => [Next]_vars
  BY ExampleStep
<1> QED
  BY <1>1, <1>2, PTL DEF ExampleSpec, Spec

\* main() is always between two of its calls or in one of them, and the client keeps its
\* types under it.
THEOREM ExampleTypes == ExampleSpec => []ExampleTypeOK
<1> DEFINE Main == /\ keep_running \in BOOLEAN
                   /\ main \in {"connect", "failed", "loop", "send", "leave", "disconnect", "return"}
<1>1. ExampleInit => Main
  BY DEF ExampleInit
<1>2. Main /\ [ExampleNext]_<<vars, app>> => Main'
  <2> SUFFICES ASSUME Main, [ExampleNext]_<<vars, app>>
               PROVE  Main'
    OBVIOUS
  <2>1. CASE Program
    BY <2>1 DEF Program, CallConnect, CallSendData, CallDisconnectLast, ReturnFromMain, MainStep,
                Goes, Returned
  <2>2. CASE \E h \in Handlers : SignalHandler(h)
    BY <2>2 DEF SignalHandler, StopRunning
  <2>3. CASE UNCHANGED app
    BY <2>3 DEF app
  <2> QED
    BY <2>1, <2>2, <2>3 DEF ExampleNext
<1>3. TypeOK /\ Main => ExampleTypeOK
  BY DEF ExampleTypeOK
<1> QED
  BY <1>1, <1>2, <1>3, ExampleIsClient, ClientTypeCorrect, PTL DEF ExampleSpec

\* The client opens sockets and epoll instances, and never listens.
LEMMA NeverListens ==
    ASSUME TypeOK, \A f \in Fds : fdt[f] # "listener", [Next]_vars
    PROVE  \A f \in Fds : fdt'[f] # "listener"
<1> USE DEF TypeOK, SocketsTypeOK, Kinds, kernel
<1>1. ASSUME NEW n, Close(n)
      PROVE  \A f \in Fds : fdt'[f] # "listener"
  BY <1>1 DEF Close
<1>2. CASE ConnectStep
  BY <1>1, <1>2 DEF ConnectStep, Socket, Link, EpollCreate, Register, SetConnected, Spawn, Install, Lowest, Quiet
<1>3. CASE WorkerStep
  BY <1>3 DEF WorkerStep, Start, LoopTest, EpollWait, WaitTimeout, WaitEvent, Read, Callback, ReadAgain,
              ReadEnd, Dropped, Quiet
<1>4. ASSUME NEW t \in Threads, CallStep(t)
      PROVE  \A f \in Fds : fdt'[f] # "listener"
  BY <1>1, <1>4 DEF CallStep, ConnectedTest, ClearConnected, Join, Joined, CloseEpoll, ClearEpoll, CloseClient,
                    ClearClient, CloseMember, SendTest, Write, SendEnd, ReturnSent, BrokenPipe, Quiet
<1>5. CASE Connect \/ ThreadFails \/ Destruct \/ Destroy \/ (\E t \in Disconnectors : CallDisconnect(t))
              \/ (\E t \in Senders : CallSend(t)) \/ UNCHANGED vars
  BY <1>5 DEF Connect, ThreadFails, Destruct, Destroy, CallDisconnect, CallSend, Call, Quiet, vars
<1>6. CASE Environment
  BY <1>6 DEF Environment, Outside, OtherOpen, OtherClose, Install, Lowest, PeerSend, PeerEnd, PeerRecv
<1>7. CASE ForeignStep
  BY <1>7 DEF ForeignStep, ReadForeign, WriteForeign
<1> QED
  BY <1>2, <1>3, <1>4, <1>5, <1>6, <1>7 DEF Next, Calls, OwnerStep

\* The destructor waits for no call of others and lets none begin, and only connect_to()
\* and the Worker touch what it has found disconnected and joined.
LEMMA DestroyedLastStep ==
    ASSUME TypeOK, OrderInv, DestroyedLast, [Next]_vars
    PROVE  DestroyedLast'
<1>0. /\ pc \in [Threads -> Labels] /\ back \in [Threads -> {"idle", "dtor", "read"}]
      /\ Owner \in Threads /\ Worker \in Threads /\ Owner # Worker
      /\ \A t \in Threads : Closing(t) /\ t # Worker => ~is_connected
      /\ Connecting => ~is_connected
  BY DEF TypeOK, Threads, OrderInv, DisconnectsApart
<1>1. \A f \in Fds : fdt'[f] # "listener"
  BY NeverListens DEF DestroyedLast
<1> USE <1>0, <1>1 DEF DestroyedLast, Joinable, At, Step, Goto, Free
<1>2. CASE UNCHANGED <<worker_thread, pc, back, is_connected>>
  BY <1>2
<1>3. CASE \E how \in {"terminate", "exception", "SIGPIPE"} : Crash(how)
  BY <1>3 DEF Crash
<1>4. CASE Connect
  BY <1>4 DEF Connect, Quiet, obj
<1>5. CASE ConnectStep \/ ThreadFails \/ Destruct
  BY <1>3, <1>5 DEF ConnectStep, Socket, Link, FailConnect, EpollCreate, Register, SetConnected,
                    Spawn, ThreadFails, Destruct, Quiet, obj
<1>6. CASE WorkerStep
  BY <1>6 DEF WorkerStep, Start, LoopTest, EpollWait, WaitTimeout, WaitEvent, Read, Callback, ReadOn,
              ReadAgain, ReadEnd, Dropped, Quiet, obj
<1>7. CASE Destroy
  BY <1>7 DEF Destroy, Call, Quiet, obj
<1>8. CASE (\E t \in Disconnectors : CallDisconnect(t)) \/ (\E t \in Senders : CallSend(t))
  BY <1>8 DEF CallDisconnect, CallSend, Call, Quiet, obj, Threads
<1>9. ASSUME NEW t \in Threads, CallStep(t)
      PROVE  DestroyedLast'
  <2>1. CASE ConnectedTest(t) \/ ClearConnected(t) \/ Join(t)
    BY <1>3, <2>1 DEF ConnectedTest, ClearConnected, Join, Refused, Return, Quiet, obj
  <2>2. CASE Joined(t)
    BY <2>2 DEF Joined, Quiet, obj
  <2>3. CASE CloseEpoll(t) \/ ClearEpoll(t) \/ CloseClient(t) \/ ClearClient(t)
    BY <2>3 DEF CloseEpoll, ClearEpoll, CloseClient, ClearClient, CloseMember, Return, Closing, obj
  <2>4. CASE SendTest(t) \/ Write(t) \/ SendEnd(t) \/ BrokenPipe(t)
    BY <1>3, <2>4 DEF SendTest, Write, SendEnd, ReturnSent, BrokenPipe, Return, Quiet, obj
  <2> QED
    BY <1>9, <2>1, <2>2, <2>3, <2>4 DEF CallStep
<1>10. CASE Environment \/ UNCHANGED vars
  BY <1>2, <1>10 DEF Environment, vars, obj
<1>11. CASE ForeignStep
  BY <1>3, <1>11 DEF ForeignStep, ReadForeign, WriteForeign, ReturnSent, obj
<1> QED
  BY <1>4, <1>5, <1>6, <1>7, <1>8, <1>9, <1>10, <1>11 DEF Next, Calls, OwnerStep

\* When main() has returned, however its calls failed and whatever SIGINT interrupted, the
\* Worker is joined and the client has closed every descriptor that it opened.
THEOREM ExitsClean == ExampleSpec => []CleanExit
<1>1. Init => DestroyedLast
  BY DEF Init, SocketsInit, DestroyedLast, Threads, At
<1>2. TypeOK /\ OrderInv /\ DestroyedLast /\ [Next]_vars => DestroyedLast'
  BY DestroyedLastStep
<1>3. TypeOK /\ OrderInv /\ SessionInv /\ DestroyedLast => CleanExit
  <2> SUFFICES ASSUME TypeOK, OrderInv, SessionInv, DestroyedLast, At(Owner, "gone")
               PROVE  At(Worker, "none") /\ \A f \in Fds : fdt[f] \in {"free", "other"}
    BY DEF CleanExit
  <2>1. At(Worker, "none") /\ ~is_connected /\ ~Joinable /\ ~Connecting
    BY DEF DestroyedLast, OrderInv, ThreadKept, Joinable, At, Connecting
  <2>2. \A t \in Threads : ~Disconnecting(t)
    BY <2>1 DEF DestroyedLast, Disconnecting, Joining, Closing, At
  <2>3. client_fd = NoFd /\ epoll_fd = NoFd
    BY <2>1, <2>2 DEF SessionInv, Orderly, CleanStart
  <2>4. \A f \in Fds : fdt[f] \notin {"socket", "epoll", "listener"} \cup Conns
    BY <2>3, Handles DEF SessionInv, Orderly, NothingOrphaned, DestroyedLast
  <2> QED
    BY <2>1, <2>4 DEF TypeOK, SocketsTypeOK, Kinds
<1>4. (Orderly => OrderInv) => OrderInv
  BY DEF Orderly
<1> QED
  BY <1>1, <1>2, <1>3, <1>4, ExampleIsClient, ClientInvariant, SessionInvariant, PTL DEF Spec
=============================================================================
