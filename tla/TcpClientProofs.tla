--------------------------- MODULE TcpClientProofs ---------------------------
(***************************************************************************)
(* What TcpClient states, proved for every set of descriptors, connections *)
(* and calling threads, every payload and every send queue.                *)
(***************************************************************************)
EXTENDS TcpClient, TLAPS

USE SocketsAssumption, ClientAssumption

\* What send_data() has written and has still to write is no more than its payload, and
\* nothing is on its account before it starts: without this the counts have no bound.
Accounts ==
    \A t \in Threads :
        /\ \A c \in Conns : wrote[t][c] + bytes_left[t] <= Payload
        /\ pc[t] \notin {"write", "dead"} => wrote[t] = Nothing

\* close() keeps the types of the kernel's tables, whatever number it is given.
LEMMA CloseType ==
    ASSUME SocketsTypeOK, NEW n, Close(n)
    PROVE  SocketsTypeOK'
  BY DEF SocketsTypeOK, Close, Phases, Kinds

\* So does everything that the server and the rest of the process do.
LEMMA OutsideType ==
    ASSUME SocketsTypeOK, Outside
    PROVE  SocketsTypeOK'
<1> USE DEF SocketsTypeOK, epoll, wire
<1>1. ASSUME NEW c \in Conns, PeerSend(c)
      PROVE  SocketsTypeOK'
  <2>1. edge' \subseteq Fds
    BY <1>1 DEF PeerSend, Arrival
  <2>2. inq[c] + 1 \in 0..MaxBytes
    BY <1>1 DEF PeerSend
  <2>3. inq' \in [Conns -> 0..MaxBytes]
    BY <1>1, <2>2 DEF PeerSend
  <2>4. left[c] - 1 \in 0..MaxBytes
    BY <1>1 DEF PeerSend
  <2>5. left' \in [Conns -> 0..MaxBytes]
    BY <1>1, <2>4 DEF PeerSend
  <2> QED
    BY <1>1, <2>1, <2>3, <2>5 DEF PeerSend
<1>2. ASSUME NEW c \in Conns, PeerEnd(c)
      PROVE  SocketsTypeOK'
  <2>1. edge' \subseteq Fds
    BY <1>2 DEF PeerEnd, Arrival
  <2>2. eof' \in [Conns -> {"open", "fin", "rst"}]
    BY <1>2 DEF PeerEnd
  <2> QED
    BY <1>2, <2>1, <2>2 DEF PeerEnd
<1>3. CASE OtherOpen
  BY <1>3 DEF OtherOpen, Install, Lowest, Kinds
<1>4. CASE OtherClose
  BY <1>4 DEF OtherClose, Install, Kinds
<1> QED
  BY <1>1, <1>2, <1>3, <1>4 DEF Outside

\* A thread goes only to one of the labels.
LEMMA GotoType ==
    ASSUME pc \in [Threads -> Labels], NEW t \in Threads, NEW label \in Labels, Goto(t, label)
    PROVE  pc' \in [Threads -> Labels]
  BY DEF Goto

\* connect_to() stores descriptors that socket() and epoll_create1() returned.
LEMMA ConnectType ==
    ASSUME TypeOK, ConnectStep
    PROVE  TypeOK'
<1> USE DEF TypeOK, obj, stream, At, Step, FailConnect, Quiet
<1>0. Owner \in Threads /\ Worker \in Threads
  BY DEF Threads
<1>1. CASE Socket
  <2>1. SocketsTypeOK' /\ client_fd' \in Fds \cup {NoFd}
    BY <1>1 DEF Socket, SocketsTypeOK, Install, Lowest, Kinds, epoll, wire
  <2>2. pc' \in [Threads -> Labels]
    BY <1>0, <1>1 DEF Socket, Goto, Labels
  <2> QED
    BY <1>1, <2>1, <2>2 DEF Socket
<1>2. CASE Link
  <2>1. SocketsTypeOK'
    <3>1. CASE Close(client_fd)
      BY <3>1, CloseType
    <3>2. ASSUME NEW c \in Conns, phase' = [phase EXCEPT ![c] = "open"], Install(client_fd, c),
                 UNCHANGED <<epoll, inq, eof, left, foreign>>
          PROVE  SocketsTypeOK'
      BY <3>2 DEF SocketsTypeOK, Install, Phases, epoll
    <3> QED
      BY <1>2, <3>1, <3>2 DEF Link
  <2>2. client_fd' \in Fds \cup {NoFd} /\ UNCHANGED <<epoll_fd, is_connected>>
    BY <1>2 DEF Link
  <2>3. pc' \in [Threads -> Labels] /\ UNCHANGED <<worker_thread, back, stream, crashed>>
    BY <1>0, <1>2 DEF Link, Goto, Labels
  <2> QED
    BY <2>1, <2>2, <2>3
<1>3. CASE EpollCreate
  <2>1. SocketsTypeOK' /\ epoll_fd' \in Fds \cup {NoFd}
    BY <1>3 DEF EpollCreate, SocketsTypeOK, Install, Lowest, Kinds, epoll, wire
  <2>2. pc' \in [Threads -> Labels]
    BY <1>0, <1>3 DEF EpollCreate, Goto, Labels
  <2> QED
    BY <1>3, <2>1, <2>2 DEF EpollCreate
<1>4. CASE Register
  <2>1. CASE Handle(client_fd) # "free" /\ Watch(client_fd)
    BY <1>4, <2>1 DEF Register, SocketsTypeOK, Watch, Handle, wire, Goto, Labels, Threads
  <2>2. CASE UNCHANGED epoll
    BY <1>0, <1>4, <2>2 DEF Register, SocketsTypeOK, epoll, wire, Goto, Labels
  <2> QED
    BY <1>4, <2>1, <2>2 DEF Register
<1>5. CASE SetConnected
  BY <1>0, <1>5 DEF SetConnected, SocketsTypeOK, kernel, epoll, wire, Goto, Labels
<1>6. CASE Spawn
  BY <1>0, <1>6 DEF Spawn, Crash, SocketsTypeOK, kernel, epoll, wire, Labels
<1> QED
  BY <1>1, <1>2, <1>3, <1>4, <1>5, <1>6 DEF ConnectStep

\* The Worker's loop takes edges and bytes, and its label moves.
LEMMA WorkerType ==
    ASSUME TypeOK, WorkerStep
    PROVE  TypeOK'
<1> USE DEF TypeOK, obj, stream, At, Step, Quiet, kernel, epoll, wire, SocketsTypeOK
<1>0. Worker \in Threads
  BY DEF Threads
<1>1. /\ pc' \in [Threads -> Labels] /\ worker_thread' \in {"none", "worker", "ended"}
      /\ UNCHANGED <<back, stream, crashed>>
  BY <1>0 DEF WorkerStep, Start, LoopTest, EpollWait, WaitTimeout, WaitEvent, Read, Callback, ReadOn,
              ReadAgain, ReadEnd, Dropped, Goto, Labels
<1>2. CASE Read
  <2>1. PICK c \in Conns : inq[c] > 0 /\ inq' = [inq EXCEPT ![c] = @ - Chunk(c)]
    BY <1>2 DEF Read
  <2>2. inq[c] - Chunk(c) \in 0..MaxBytes
    BY <2>1 DEF Chunk
  <2>3. inq' \in [Conns -> 0..MaxBytes]
    BY <2>1, <2>2
  <2> QED
    BY <1>1, <1>2, <2>3 DEF Read
<1>3. CASE WaitEvent
  BY <1>1, <1>3 DEF WaitEvent
<1>5. CASE Dropped
  BY <1>1, <1>5 DEF Dropped
<1>6. CASE UNCHANGED <<kernel, obj>>
  BY <1>1, <1>6
<1> QED
  BY <1>2, <1>3, <1>5, <1>6 DEF WorkerStep, Start, LoopTest, EpollWait, WaitTimeout, Callback,
                                ReadAgain, ReadEnd

\* send_data() returns and forgets its account.
LEMMA ReturnSentType ==
    ASSUME TypeOK, NEW t \in Threads, ReturnSent(t)
    PROVE  /\ pc' \in [Threads -> Labels]
           /\ bytes_left' \in [Threads -> 0..Payload]
           /\ wrote' \in [Threads -> [Conns -> 0..Payload]]
<1>1. back[t] \in Labels /\ Nothing \in [Conns -> 0..Payload]
  BY DEF TypeOK, Labels, Nothing
<1> QED
  BY <1>1 DEF ReturnSent, Goto, TypeOK

\* disconnect() and send_data(), on whichever thread.
LEMMA CallType ==
    ASSUME TypeOK, Accounts, NEW t \in Threads, CallStep(t)
    PROVE  TypeOK'
<1> USE DEF TypeOK, obj, stream, At
<1>0. back[t] \in Labels /\ Worker \in Threads
  BY DEF Labels, Threads
<1>1. CASE ConnectedTest(t) \/ ClearConnected(t) \/ ClearEpoll(t) \/ ClearClient(t)
  BY <1>0, <1>1 DEF ConnectedTest, ClearConnected, ClearEpoll, ClearClient, Step, Return, Goto,
                    Quiet, Labels, SocketsTypeOK, kernel, epoll, wire
<1>2. CASE Join(t) \/ Joined(t)
  <2>1. SocketsTypeOK' /\ UNCHANGED <<obj, back, stream>> /\ crashed' \in {crashed, "terminate"}
    BY <1>2 DEF Join, Joined, Step, Goto, Crash, Quiet, SocketsTypeOK, kernel, epoll, wire
  <2>2. pc' \in [Threads -> Labels] /\ worker_thread' \in {"none", worker_thread}
    <3>1. CASE Join(t)
      BY <3>1 DEF Join, Step, Goto, Crash, Labels
    <3>2. CASE Joined(t)
      BY <3>2 DEF Joined, Quiet, Labels
    <3> QED
      BY <1>2, <3>1, <3>2
  <2> QED
    BY <2>1, <2>2
<1>3. CASE CloseEpoll(t) \/ CloseClient(t)
  <2>1. SocketsTypeOK'
    <3>1. CASE UNCHANGED kernel
      BY <3>1 DEF kernel, epoll, wire, SocketsTypeOK
    <3> QED
      BY <1>3, <3>1, CloseType DEF CloseEpoll, CloseClient, CloseMember
  <2>2. pc' \in [Threads -> Labels] /\ UNCHANGED <<obj, worker_thread, back, stream, crashed>>
    BY <1>0, <1>3 DEF CloseEpoll, CloseClient, CloseMember, Step, Goto, Labels
  <2> QED
    BY <2>1, <2>2
<1>4. CASE SendTest(t)
  <2>1. SocketsTypeOK' /\ UNCHANGED <<obj, worker_thread, back, wrote, outq, crashed>>
    BY <1>4 DEF SendTest, Return, Step, Quiet, SocketsTypeOK, kernel, epoll, wire
  <2>2. pc' \in [Threads -> Labels]
    BY <1>0, <1>4 DEF SendTest, Return, Step, Goto, Labels
  <2>3. bytes_left' \in [Threads -> 0..Payload]
    BY <1>4 DEF SendTest, Return, Step
  <2> QED
    BY <2>1, <2>2, <2>3
<1>5. CASE SendEnd(t)
  <2>1. SocketsTypeOK' /\ UNCHANGED <<obj, worker_thread, back, outq, crashed>>
    BY <1>5 DEF SendEnd, Quiet, SocketsTypeOK, kernel, epoll, wire
  <2> QED
    BY <1>5, <2>1, ReturnSentType DEF SendEnd
<1>6. CASE BrokenPipe(t)
  BY <1>6 DEF BrokenPipe, Crash, Quiet, Labels, SocketsTypeOK, kernel, epoll, wire
<1>7. CASE Write(t)
  <2>1. PICK c \in Conns, k \in 1..bytes_left[t] :
            /\ outq[c] + k <= SndBuf /\ outq' = [outq EXCEPT ![c] = @ + k]
            /\ wrote' = [wrote EXCEPT ![t][c] = @ + k]
            /\ bytes_left' = [bytes_left EXCEPT ![t] = Remaining(@, k)]
    BY <1>7 DEF Write
  <2>2. k \in Nat /\ bytes_left[t] \in 0..Payload /\ k <= bytes_left[t]
    OBVIOUS
  <2>3. outq' \in [Conns -> 0..SndBuf]
    BY <2>1, <2>2
  <2>4. bytes_left' \in [Threads -> 0..Payload]
    BY <2>1, <2>2 DEF Remaining
  <2>5. wrote' \in [Threads -> [Conns -> 0..Payload]]
    <3>1. wrote[t] \in [Conns -> 0..Payload] /\ wrote[t][c] + k \in 0..Payload
      BY <2>2 DEF Accounts
    <3>2. [wrote[t] EXCEPT ![c] = @ + k] \in [Conns -> 0..Payload]
      BY <3>1
    <3>3. wrote' = [wrote EXCEPT ![t] = [wrote[t] EXCEPT ![c] = @ + k]]
      BY <2>1
    <3> QED
      BY <3>2, <3>3
  <2> QED
    BY <1>7, <2>3, <2>4, <2>5 DEF Write, Quiet, SocketsTypeOK, kernel, epoll, wire
<1> QED
  BY <1>1, <1>2, <1>3, <1>4, <1>5, <1>6, <1>7 DEF CallStep

\* Reading from, or writing to, what other code was given the number for.
LEMMA ForeignType ==
    ASSUME TypeOK, ForeignStep
    PROVE  TypeOK'
<1> USE DEF TypeOK, obj, stream, At, SocketsTypeOK, epoll, wire
<1>0. Worker \in Threads
  BY DEF Threads
<1>1. CASE ReadForeign
  BY <1>0, <1>1 DEF ReadForeign, Step, Goto, Labels
<1>2. ASSUME NEW t \in Threads, WriteForeign(t)
      PROVE  TypeOK'
  <2>1. SocketsTypeOK' /\ UNCHANGED obj
    BY <1>2 DEF WriteForeign
  <2>2. CASE ReturnSent(t) /\ UNCHANGED <<worker_thread, back, outq, crashed>>
    BY <2>1, <2>2, ReturnSentType
  <2>3. ASSUME NEW k \in 1..bytes_left[t],
               bytes_left' = [bytes_left EXCEPT ![t] = Remaining(@, k)],
               UNCHANGED <<worker_thread, pc, back, wrote, outq, crashed>>
        PROVE  TypeOK'
    <3>1. bytes_left[t] - k \in 0..Payload
      OBVIOUS
    <3> QED
      BY <2>1, <2>3, <3>1 DEF Remaining
  <2>4. CASE Crash("SIGPIPE")
    BY <2>1, <2>4 DEF Crash, Labels
  <2> QED
    BY <1>2, <2>2, <2>3, <2>4 DEF WriteForeign
<1> QED
  BY <1>1, <1>2 DEF ForeignStep

\* The server, and the rest of the process.
LEMMA EnvironmentType ==
    ASSUME TypeOK, Environment
    PROVE  TypeOK'
<1>1. CASE Outside /\ UNCHANGED stream
  BY <1>1, OutsideType DEF TypeOK, Environment, obj, stream
<1>2. ASSUME NEW c \in Conns, PeerRecv(c)
      PROVE  TypeOK'
  <2>1. outq[c] - 1 \in 0..SndBuf
    BY <1>2 DEF PeerRecv, TypeOK
  <2> QED
    BY <1>2, <2>1 DEF PeerRecv, TypeOK, Environment, obj, SocketsTypeOK, kernel, epoll, wire
<1> QED
  BY <1>1, <1>2 DEF Environment

\* A call that begins.
LEMMA EntryType ==
    ASSUME TypeOK, NEW t \in Threads, NEW label \in Labels, NEW next \in {"idle", "dtor", "read"},
           Call(t, label, next)
    PROVE  TypeOK'
  BY DEF Call, Goto, Quiet, TypeOK, obj, stream, SocketsTypeOK, kernel, epoll, wire

\* No step of a caller, of the Worker, of the server or of other code leaves the types.
LEMMA TypeStep ==
    ASSUME TypeOK, Accounts, [Next]_vars
    PROVE  TypeOK'
<1>1. CASE Connect
  BY <1>1 DEF Connect, Step, Goto, Quiet, TypeOK, Labels, Threads, obj, stream, SocketsTypeOK,
              kernel, epoll, wire
<1>2. CASE OwnerStep
  BY <1>2, ConnectType
     DEF OwnerStep, ThreadFails, Destruct, Crash, Step, Goto, Quiet, TypeOK, Labels, obj, stream,
         SocketsTypeOK, kernel, epoll, wire
<1>3. CASE Destroy
  BY <1>3, EntryType DEF Destroy, Labels, Threads
<1>4. CASE \E t \in Disconnectors : CallDisconnect(t)
  BY <1>4, EntryType DEF CallDisconnect, Labels, Threads
<1>5. CASE \E t \in Senders : CallSend(t)
  BY <1>5, EntryType DEF CallSend, Labels, Threads
<1>6. CASE UNCHANGED vars
  BY <1>6 DEF vars, TypeOK, obj, stream, SocketsTypeOK, kernel, epoll, wire
<1> QED
  BY <1>1, <1>2, <1>3, <1>4, <1>5, <1>6, WorkerType, CallType, ForeignType,
     EnvironmentType DEF Next, Calls

\* The account of a call changes only in send_data(): SendTest opens it, Write moves
\* bytes from what is left to what is written, SendEnd closes it.
LEMMA AccountsStep ==
    ASSUME TypeOK, Accounts, [Next]_vars
    PROVE  Accounts'
<1> USE DEF Accounts
<1>0. bytes_left \in [Threads -> 0..Payload] /\ pc \in [Threads -> Labels]
  BY DEF TypeOK
<1>1. ASSUME UNCHANGED <<wrote, bytes_left>>,
             \A t \in Threads : pc'[t] \notin {"write", "dead"} => pc[t] \notin {"write", "dead"}
      PROVE  Accounts'
  BY <1>1 DEF Nothing
<1>7. ASSUME NEW t \in Threads, ReturnSent(t)
      PROVE  Accounts'
  <2>1. bytes_left'[t] = 0 /\ wrote'[t] = Nothing
    BY <1>0, <1>7 DEF ReturnSent, TypeOK
  <2>2. \A u \in Threads \ {t} :
            pc'[u] = pc[u] /\ wrote'[u] = wrote[u] /\ bytes_left'[u] = bytes_left[u]
    BY <1>0, <1>7 DEF ReturnSent, Goto, TypeOK
  <2> QED
    BY <2>1, <2>2 DEF Nothing
<1>2. ASSUME NEW t \in Threads, CallStep(t)
      PROVE  Accounts'
  <2> USE DEF At, Step, Goto, Return, Crash, stream
  <2>1. CASE SendTest(t)
    <3>1. wrote[t] = Nothing /\ UNCHANGED wrote
      BY <1>2, <2>1 DEF SendTest
    <3>2. \A u \in Threads \ {t} : pc'[u] = pc[u] /\ bytes_left'[u] = bytes_left[u]
      BY <1>0, <2>1 DEF SendTest
    <3>3. bytes_left'[t] \in 0..Payload
      BY <1>0, <2>1 DEF SendTest
    <3> QED
      BY <1>0, <3>1, <3>2, <3>3 DEF Nothing
  <2>2. CASE Write(t)
    <3>1. PICK c \in Conns, k \in 1..bytes_left[t] :
              /\ wrote' = [wrote EXCEPT ![t][c] = @ + k]
              /\ bytes_left' = [bytes_left EXCEPT ![t] = Remaining(@, k)]
      BY <2>2 DEF Write
    <3>2. bytes_left'[t] = bytes_left[t] - k /\ k \in Nat
      BY <1>0, <3>1 DEF Remaining
    <3>3. \A d \in Conns : wrote'[t][d] = IF d = c THEN wrote[t][d] + k ELSE wrote[t][d]
      BY <3>1 DEF TypeOK
    <3>4. \A d \in Conns : wrote[t][d] \in Nat
      BY DEF TypeOK
    <3>5. \A d \in Conns : wrote'[t][d] + bytes_left'[t] <= Payload
      BY <1>0, <3>2, <3>3, <3>4
    <3>6. \A u \in Threads \ {t} : wrote'[u] = wrote[u] /\ bytes_left'[u] = bytes_left[u]
      BY <1>0, <3>1 DEF TypeOK
    <3>7. UNCHANGED pc /\ pc[t] = "write"
      BY <2>2 DEF Write
    <3> QED
      BY <3>5, <3>6, <3>7 DEF Nothing
  <2>3. CASE SendEnd(t)
    BY <1>7, <2>3 DEF SendEnd
  <2>4. CASE BrokenPipe(t)
    BY <1>1, <2>4 DEF BrokenPipe
  <2>5. CASE Join(t) \/ Joined(t)
    BY <1>0, <1>1, <2>5 DEF Join, Joined
  <2>6. CASE ConnectedTest(t) \/ ClearConnected(t) \/ CloseEpoll(t) \/ ClearEpoll(t)
               \/ CloseClient(t) \/ ClearClient(t)
    BY <1>0, <1>1, <2>6 DEF ConnectedTest, ClearConnected, CloseEpoll, ClearEpoll, CloseClient,
                            ClearClient, CloseMember
  <2> QED
    BY <1>2, <2>1, <2>2, <2>3, <2>4, <2>5, <2>6 DEF CallStep
<1>3. CASE Connect \/ OwnerStep \/ Destroy
  <2> USE DEF At, Step, Goto, stream
  <2>1. UNCHANGED <<wrote, bytes_left>>
    BY <1>3 DEF Connect, OwnerStep, Destroy, Destruct, ThreadFails, ConnectStep, Socket, Link,
                FailConnect, EpollCreate, Register, SetConnected, Spawn, Call, Crash
  <2>2. CASE Connect \/ Destroy
    BY <1>0, <1>1, <2>1, <2>2 DEF Connect, Destroy, Call, Free
  <2>3. CASE Socket \/ Link \/ EpollCreate \/ Register \/ SetConnected
    BY <1>0, <1>1, <2>1, <2>3 DEF Socket, Link, FailConnect, EpollCreate, Register, SetConnected
  <2>4. CASE Spawn \/ Destruct \/ ThreadFails
    <3>1. CASE \E how \in {"terminate", "exception"} : Crash(how)
      BY <1>1, <2>1, <3>1 DEF Crash
    <3>2. CASE ~\E how \in {"terminate", "exception"} : Crash(how)
      <4>1. CASE ThreadFails \/ Destruct
        BY <1>0, <1>1, <2>1, <3>2, <4>1 DEF ThreadFails, Destruct
      <4>2. CASE Spawn
        <5>1. /\ pc[Owner] = "spawn" /\ (~Started => pc[Worker] = "none")
              /\ pc' = [pc EXCEPT ![Owner] = "idle",
                                  ![Worker] = IF Started THEN @ ELSE "loop"]
          BY <3>2, <4>2 DEF Spawn, Started, Joinable
        <5>2. /\ pc'[Worker] = (IF Started THEN pc[Worker] ELSE "loop")
              /\ \A u \in Threads \ {Owner, Worker} : pc'[u] = pc[u]
          BY <1>0, <5>1 DEF Threads
        <5>3. \A u \in Threads : pc'[u] \notin {"write", "dead"} => pc[u] \notin {"write", "dead"}
          BY <5>1, <5>2
        <5> QED
          BY <1>1, <2>1, <5>3
      <4> QED
        BY <2>4, <4>1, <4>2
    <3> QED
      BY <3>1, <3>2
  <2> QED
    BY <1>3, <2>2, <2>3, <2>4 DEF OwnerStep, ConnectStep
<1>4. CASE WorkerStep
  BY <1>0, <1>1, <1>4 DEF WorkerStep, Start, LoopTest, EpollWait, WaitTimeout, WaitEvent, Read, Callback,
                          ReadOn, ReadAgain, ReadEnd, Dropped, At, Step, Goto, stream
<1>5. CASE Environment \/ UNCHANGED vars
  BY <1>1, <1>5 DEF Environment, PeerRecv, stream, vars
<1>6. CASE \/ \E t \in Disconnectors : CallDisconnect(t)
           \/ \E t \in Senders : CallSend(t)
  <2>1. PICK t \in Threads, label \in {"test", "sendTest"}, next \in {"idle", "dtor", "read"} :
            Call(t, label, next)
    BY <1>6 DEF CallDisconnect, CallSend, Threads
  <2>2. UNCHANGED <<wrote, bytes_left>> /\ pc[t] \in {"idle", "callback"}
    BY <2>1 DEF Call, Free, At, stream
  <2>3. \A u \in Threads \ {t} : pc'[u] = pc[u]
    BY <1>0, <2>1 DEF Call, Goto
  <2>4. \A u \in Threads : pc'[u] \notin {"write", "dead"} => pc[u] \notin {"write", "dead"}
    BY <2>2, <2>3
  <2> QED
    BY <1>1, <2>2, <2>4
<1>8. CASE ForeignStep
  <2>1. CASE ReadForeign
    BY <1>0, <1>1, <2>1 DEF ReadForeign, At, Step, Goto, stream
  <2>2. ASSUME NEW t \in Threads, WriteForeign(t)
        PROVE  Accounts'
    <3>1. CASE ReturnSent(t)
      BY <1>7, <3>1
    <3>2. CASE Crash("SIGPIPE")
      BY <1>1, <3>2 DEF Crash, stream
    <3>3. ASSUME NEW k \in 1..bytes_left[t],
                 bytes_left' = [bytes_left EXCEPT ![t] = Remaining(@, k)], UNCHANGED <<pc, wrote>>
          PROVE  Accounts'
      <4>1. bytes_left'[t] <= bytes_left[t] /\ bytes_left'[t] \in Nat
        BY <1>0, <3>3 DEF Remaining
      <4>2. \A u \in Threads \ {t} : bytes_left'[u] = bytes_left[u]
        BY <1>0, <3>3
      <4>3. \A u \in Threads : \A c \in Conns : wrote[u][c] \in Nat
        BY DEF TypeOK
      <4> QED
        BY <1>0, <3>3, <4>1, <4>2, <4>3 DEF Nothing
    <3> QED
      BY <2>2, <3>1, <3>2, <3>3 DEF WriteForeign
  <2> QED
    BY <1>8, <2>1, <2>2 DEF ForeignStep
<1> QED
  BY <1>2, <1>3, <1>4, <1>5, <1>6, <1>8 DEF Next, Calls

\* No send_data() ever writes more than its payload, nor starts on the account of another.
THEOREM ClientAccounts == Spec => [](TypeOK /\ Accounts)
<1>1. Init => TypeOK /\ Accounts
  <2> SUFFICES ASSUME Init
               PROVE  TypeOK /\ Accounts
    OBVIOUS
  <2>1. 0 \in 0..MaxBytes /\ MaxBytes \in 0..MaxBytes /\ 0 \in 0..SndBuf /\ 0 \in 0..Payload
    OBVIOUS
  <2>2. SocketsTypeOK
    BY <2>1 DEF Init, SocketsInit, SocketsTypeOK, Phases, Kinds
  <2>3. Nothing \in [Conns -> 0..Payload] /\ Nothing \in [Conns -> 0..SndBuf]
    BY <2>1 DEF Nothing
  <2>4. pc \in [Threads -> Labels]
    BY DEF Init, Labels
  <2>5. back \in [Threads -> {"idle", "dtor", "read"}]
    BY DEF Init
  <2>6. bytes_left \in [Threads -> 0..Payload] /\ wrote \in [Threads -> [Conns -> 0..Payload]]
    BY <2>1, <2>3 DEF Init
  <2>7. TypeOK
    BY <2>2, <2>3, <2>4, <2>5, <2>6 DEF Init, TypeOK
  <2>8. Accounts
    BY DEF Init, Accounts, Nothing
  <2> QED
    BY <2>7, <2>8
<1>2. TypeOK /\ Accounts /\ [Next]_vars => TypeOK' /\ Accounts'
  BY TypeStep, AccountsStep
<1> QED
  BY <1>1, <1>2, PTL DEF Spec

\* Every variable of the client keeps its type, for any number of descriptors, connections
\* and calling threads.
THEOREM ClientTypeCorrect == Spec => []TypeOK
  BY ClientAccounts, PTL
=============================================================================
