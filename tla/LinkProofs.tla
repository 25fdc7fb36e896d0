------------------------------ MODULE LinkProofs ------------------------------
(***************************************************************************)
(* A client and a server joined by TCP: what TcpServerProofs shows of the  *)
(* server alone, with any peers, gives what the client may rely on when it *)
(* is the peer.                                                            *)
(***************************************************************************)
EXTENDS TcpLink, TcpServerProofs

USE SocketsAssumption, ServerAssumption

\* Each step of the two processes and of the wire is a step the server allows its peers and
\* its surroundings, or none of its business.
LEMMA LinkStep ==
    ASSUME [LinkNext]_ends
    PROVE  [Next]_vars
<1>1. CASE ServerStep
  BY <1>1 DEF ServerStep, Next
<1>2. CASE ClientStep
  BY <1>2 DEF ClientStep, Next, Environment
<1>3. CASE \E c \in Conns : Wire(c)
  BY <1>3 DEF Wire, Transmit, ClientFin, ServerEnd, Next, Environment, Outside
<1>4. CASE UNCHANGED ends
  BY <1>4 DEF ends
<1> QED
  BY <1>1, <1>2, <1>3, <1>4 DEF LinkNext

\* With a TcpClient as its peer the server does what it does with any peer.
THEOREM LinkIsServer == LinkSpec => Spec
<1>1. LinkInit => Init
  BY DEF LinkInit
<1>2. [LinkNext]_ends => [Next]_vars
  BY LinkStep
<1> QED
  BY <1>1, <1>2, PTL DEF LinkSpec, Spec

\* The client's steps are those of a live process.
LEMMA OnlyTheLivingCall ==
    ASSUME DeadStill, Client!Calls
    PROVE  Client!Running
<1> SUFFICES ASSUME \A t \in Client!Threads : cpc[t] = "dead"
             PROVE  FALSE
  BY DEF DeadStill, Client!At
<1>0. Owner \in Client!Threads /\ Worker \in Client!Threads
      /\ Senders \subseteq Client!Threads /\ Disconnectors \subseteq Client!Threads
  BY DEF Client!Threads
<1>1. \A t \in Client!Threads : ~Client!Free(t) /\ ~Client!CallStep(t)
  BY <1>0 DEF Client!Free, Client!At, Client!CallStep, Client!ConnectedTest, Client!ClearConnected,
     Client!Join, Client!Joined, Client!CloseEpoll, Client!ClearEpoll, Client!CloseClient, Client!ClearClient,
     Client!SendTest, Client!Write, Client!SendEnd, Client!ReturnSent, Client!BrokenPipe
<1>2. ~Client!WorkerStep
  BY <1>0 DEF Client!At, Client!WorkerStep, Client!Start, Client!LoopTest, Client!EpollWait, Client!WaitTimeout,
     Client!WaitEvent, Client!Read, Client!Callback, Client!ReadAgain, Client!ReadEnd, Client!Dropped
<1>3. ~Client!OwnerStep
  BY <1>0 DEF Client!At, Client!OwnerStep, Client!ConnectStep, Client!Socket, Client!Link,
     Client!EpollCreate, Client!Register, Client!SetConnected, Client!Spawn, Client!ThreadFails, Client!Destruct
<1>4. ~Client!ForeignStep
  BY <1>0 DEF Client!At, Client!ForeignStep, Client!ReadForeign, Client!WriteForeign
<1> QED
  BY <1>0, <1>1, <1>2, <1>3, <1>4 DEF Client!Calls, Client!Connect, Client!Destroy, Client!Call,
     Client!CallDisconnect, Client!CallSend

\* What a call of the client does to its descriptors and their connections.
LEMMA ClientOpens ==
    ASSUME Client!Calls
    PROVE  \/ UNCHANGED <<cfdt, cphase>>
           \/ \E n : Client!Close(n)
           \/ \E f \in Client!Lowest, h \in {"socket", "epoll"} :
                 Client!Install(f, h) /\ UNCHANGED cphase
           \/ \E c \in Conns :
                 /\ cphase[c] = "idle" /\ cphase' = [cphase EXCEPT ![c] = "open"]
                 /\ Client!Handle(client_fd) = "socket" /\ Client!Install(client_fd, c)
<1> USE DEF Client!Quiet, Client!kernel, Client!wire
<1>1. CASE Client!OwnerStep
  BY <1>1 DEF Client!OwnerStep, Client!ConnectStep, Client!Socket, Client!Link, Client!EpollCreate,
              Client!Register, Client!SetConnected, Client!Spawn, Client!ThreadFails, Client!Destruct
<1>2. CASE Client!WorkerStep
  BY <1>2 DEF Client!WorkerStep, Client!Start, Client!LoopTest, Client!EpollWait, Client!WaitTimeout, Client!WaitEvent,
              Client!Read, Client!Callback, Client!ReadAgain, Client!ReadEnd, Client!Dropped
<1>3. ASSUME NEW t, Client!CallStep(t)
      PROVE  UNCHANGED <<cfdt, cphase>> \/ \E n : Client!Close(n)
  BY <1>3 DEF Client!CallStep, Client!ConnectedTest, Client!ClearConnected, Client!Join, Client!Joined,
              Client!CloseEpoll, Client!ClearEpoll, Client!CloseClient, Client!ClearClient,
              Client!CloseMember, Client!SendTest, Client!Write, Client!SendEnd, Client!ReturnSent, Client!BrokenPipe
<1>4. CASE Client!Connect \/ Client!Destroy \/ (\E t \in Disconnectors : Client!CallDisconnect(t))
              \/ (\E t \in Senders : Client!CallSend(t))
  BY <1>4 DEF Client!Connect, Client!Destroy, Client!CallDisconnect, Client!CallSend, Client!Call
<1>5. CASE Client!ForeignStep
  BY <1>5 DEF Client!ForeignStep, Client!ReadForeign, Client!WriteForeign
<1> QED
  BY <1>1, <1>2, <1>3, <1>4, <1>5 DEF Client!Calls

\* A number of the client keeps denoting one open connection, and what is closed stays so.
LEMMA ClientConnections ==
    ASSUME ClientOpen, Tables, Client!Calls
    PROVE  /\ ClientOpen'
           /\ cfdt' \in [Fds -> Client!Kinds \cup Conns] /\ cphase' \in [Conns -> Client!Phases]
           /\ \A c \in Conns : cphase[c] = "closed" => cphase'[c] = "closed"
<1> USE DEF ClientOpen, Tables
<1>0. {"free", "socket", "listener", "epoll", "other"} \cap Conns = {}
  BY DEF Kinds
<1>1. CASE UNCHANGED <<cfdt, cphase>>
  BY <1>1
<1>2. ASSUME NEW n, Client!Close(n)
      PROVE  /\ ClientOpen'
             /\ cfdt' \in [Fds -> Client!Kinds \cup Conns] /\ cphase' \in [Conns -> Client!Phases]
             /\ \A c \in Conns : cphase[c] = "closed" => cphase'[c] = "closed"
  BY <1>0, <1>2 DEF Client!Close, Client!Handle, Client!Kinds, Client!Phases, Client!Queued
<1>3. ASSUME NEW f \in Client!Lowest, NEW h \in {"socket", "epoll"}, Client!Install(f, h), UNCHANGED cphase
      PROVE  /\ ClientOpen'
             /\ cfdt' \in [Fds -> Client!Kinds \cup Conns] /\ cphase' \in [Conns -> Client!Phases]
             /\ \A c \in Conns : cphase[c] = "closed" => cphase'[c] = "closed"
  BY <1>0, <1>3 DEF Client!Lowest, Client!Install, Client!Kinds
<1>4. ASSUME NEW c \in Conns, cphase[c] = "idle", cphase' = [cphase EXCEPT ![c] = "open"],
             Client!Handle(client_fd) = "socket", Client!Install(client_fd, c)
      PROVE  /\ ClientOpen'
             /\ cfdt' \in [Fds -> Client!Kinds \cup Conns] /\ cphase' \in [Conns -> Client!Phases]
             /\ \A d \in Conns : cphase[d] = "closed" => cphase'[d] = "closed"
  BY <1>0, <1>4 DEF Client!Handle, Client!Install, Client!Phases
<1> QED
  BY <1>1, <1>2, <1>3, <1>4, ClientOpens

\* The process dies as a whole, and not twice.
LEMMA ClientDies ==
    ASSUME DeadStill, Client!Calls
    PROVE  DeadStill'
<1>1. ASSUME NEW how, Client!Crash(how)
      PROVE  DeadStill'
  BY <1>1 DEF DeadStill, Client!Crash, Client!At
<1>2. ASSUME UNCHANGED crashed
      PROVE  DeadStill'
  BY <1>2, OnlyTheLivingCall DEF DeadStill, Client!Running
<1> USE DEF Client!Step, Client!Return
<1>3. CASE Client!OwnerStep
  BY <1>1, <1>2, <1>3 DEF Client!OwnerStep, Client!ConnectStep, Client!Socket, Client!Link,
     Client!FailConnect, Client!EpollCreate, Client!Register, Client!SetConnected, Client!Spawn, Client!ThreadFails, Client!Destruct
<1>4. CASE Client!WorkerStep
  BY <1>2, <1>4 DEF Client!WorkerStep, Client!Start, Client!LoopTest, Client!EpollWait, Client!WaitTimeout, Client!WaitEvent,
     Client!Read, Client!Callback, Client!ReadOn, Client!ReadAgain, Client!ReadEnd, Client!Dropped
<1>5. ASSUME NEW t, Client!CallStep(t)
      PROVE  DeadStill'
  BY <1>1, <1>2, <1>5 DEF Client!CallStep, Client!ConnectedTest, Client!ClearConnected, Client!Join,
     Client!Joined, Client!CloseEpoll, Client!ClearEpoll, Client!CloseClient, Client!ClearClient,
     Client!CloseMember, Client!SendTest, Client!Write, Client!SendEnd, Client!ReturnSent, Client!BrokenPipe
<1>6. CASE Client!Connect \/ Client!Destroy \/ (\E t \in Disconnectors : Client!CallDisconnect(t))
              \/ (\E t \in Senders : Client!CallSend(t))
  BY <1>2, <1>6 DEF Client!Connect, Client!Destroy, Client!CallDisconnect, Client!CallSend, Client!Call
<1>7. CASE Client!ForeignStep
  BY <1>1, <1>2, <1>7 DEF Client!ForeignStep, Client!ReadForeign, Client!WriteForeign, Client!ReturnSent
<1> QED
  BY <1>3, <1>4, <1>5, <1>6, <1>7 DEF Client!Calls

\* send_data() writes to open connections only.
LEMMA ClientWrites ==
    ASSUME ClientOpen, Tables, Client!Calls
    PROVE  /\ outq' \in [Conns -> Int]
           /\ \A c \in Conns : cphase[c] = "closed" => outq'[c] = outq[c]
<1> USE DEF Tables, Client!stream, Client!Step, Client!Return, Client!Crash
<1>1. CASE UNCHANGED outq
  BY <1>1
<1>2. ASSUME NEW t, Client!Write(t)
      PROVE  /\ outq' \in [Conns -> Int]
             /\ \A c \in Conns : cphase[c] = "closed" => outq'[c] = outq[c]
  <2>1. PICK c \in Conns, k \in 1..bytes_left[t] :
            c = Client!Handle(client_fd) /\ outq' = [outq EXCEPT ![c] = @ + k]
    BY <1>2 DEF Client!Write
  <2>2. client_fd \in Fds
    BY <2>1 DEF Client!Handle, Kinds
  <2>3. cphase[c] = "open"
    BY <2>1, <2>2 DEF Client!Handle, ClientOpen
  <2> QED
    BY <2>1, <2>3
<1>3. CASE Client!OwnerStep
  BY <1>1, <1>3 DEF Client!OwnerStep, Client!ConnectStep, Client!Socket, Client!Link,
     Client!FailConnect, Client!EpollCreate, Client!Register, Client!SetConnected, Client!Spawn, Client!ThreadFails, Client!Destruct
<1>4. CASE Client!WorkerStep
  BY <1>1, <1>4 DEF Client!WorkerStep, Client!Start, Client!LoopTest, Client!EpollWait, Client!WaitTimeout, Client!WaitEvent,
     Client!Read, Client!Callback, Client!ReadOn, Client!ReadAgain, Client!ReadEnd, Client!Dropped
<1>5. ASSUME NEW t, Client!CallStep(t)
      PROVE  /\ outq' \in [Conns -> Int]
             /\ \A c \in Conns : cphase[c] = "closed" => outq'[c] = outq[c]
  BY <1>1, <1>2, <1>5 DEF Client!CallStep, Client!ConnectedTest, Client!ClearConnected, Client!Join,
     Client!Joined, Client!CloseEpoll, Client!ClearEpoll, Client!CloseClient, Client!ClearClient,
     Client!CloseMember, Client!SendTest, Client!SendEnd, Client!ReturnSent, Client!BrokenPipe
<1>6. CASE Client!Connect \/ Client!Destroy \/ (\E t \in Disconnectors : Client!CallDisconnect(t))
              \/ (\E t \in Senders : Client!CallSend(t))
  BY <1>1, <1>6 DEF Client!Connect, Client!Destroy, Client!CallDisconnect, Client!CallSend, Client!Call
<1>7. CASE Client!ForeignStep
  BY <1>1, <1>7 DEF Client!ForeignStep, Client!ReadForeign, Client!WriteForeign, Client!ReturnSent
<1> QED
  BY <1>3, <1>4, <1>5, <1>6, <1>7 DEF Client!Calls

\* On the server's side only an end that comes out of the wire ends a connection.
LEMMA ServerEndsNothing ==
    ASSUME Calls
    PROVE  UNCHANGED eof
<1> USE DEF kernel, wire, vars
<1>1. CASE Boot
  BY <1>1 DEF Boot, Socket, Configure, EpollCreate, Register, SetRunning
<1>2. CASE EventLoop
  BY <1>2 DEF EventLoop, LoopTest, EpollWait, WaitTimeout, WaitEvents, Dispatch, Accept, Add, Reject, Close,
              ReadData, ReadAgain, ReadEnd, ReadForeign, Drop
<1>3. ASSUME NEW t, Cleanup(t)
      PROVE  UNCHANGED eof
  BY <1>3 DEF Cleanup, StopTest, CloseEpoll, ClearEpoll, CloseServer, ClearServer, ClearRunning, Close
<1>4. CASE \E t \in Stoppers : CallStop(t)
  BY <1>4 DEF CallStop
<1> QED
  BY <1>1, <1>2, <1>3, <1>4 DEF Calls

\* An end reaches the server after the last byte, and nothing is sent after it.
LEMMA LinkInvStep ==
    ASSUME TypeOK, LinkInv, [LinkNext]_ends
    PROVE  LinkInv'
<1> USE DEF LinkInv
<1>1. CASE UNCHANGED <<eof, client>>
  BY <1>1 DEF client, ckernel, cobj, cstream, EndComesLast, DeadStill, ClientOpen, Tables, Gone,
              Client!Running, Client!At
<1>2. CASE ServerStep
  BY <1>1, <1>2, ServerEndsNothing DEF ServerStep
<1>3. CASE ClientStep
  <2>1. Client!Calls /\ UNCHANGED eof
    BY <1>3 DEF ClientStep, PeerConnect, vars, kernel, wire
  <2>2. Client!Running
    BY <2>1, OnlyTheLivingCall
  <2>3. EndComesLast'
    <3> SUFFICES ASSUME NEW c \in Conns, eof[c] # "open"
                 PROVE  Gone(c)' /\ outq'[c] = 0
      BY <2>1 DEF EndComesLast
    <3>1. cphase[c] = "closed" /\ outq[c] = 0
      BY <2>2 DEF EndComesLast, Gone
    <3> QED
      BY <2>1, <3>1, ClientConnections, ClientWrites DEF Gone
  <2> QED
    BY <2>1, <2>3, ClientConnections, ClientWrites, ClientDies DEF Tables
<1>4. ASSUME NEW c \in Conns, Transmit(c)
      PROVE  LinkInv'
  <2>1. /\ UNCHANGED <<eof, cfdt, cphase, cpc, crashed>>
        /\ outq[c] > 0 /\ outq' = [outq EXCEPT ![c] = @ - 1]
    BY <1>4 DEF Transmit, PeerSend, Client!PeerRecv, Client!kernel, Client!wire
  <2> QED
    BY <2>1 DEF EndComesLast, DeadStill, ClientOpen, Tables, Gone, Client!Running, Client!At
<1>5. ASSUME NEW c \in Conns, ClientFin(c)
      PROVE  LinkInv'
  <2>1. /\ Gone(c) /\ outq[c] = 0 /\ UNCHANGED client
        /\ \A d \in Conns \ {c} : eof'[d] = eof[d]
    BY <1>5 DEF ClientFin, PeerEnd, TypeOK, SocketsTypeOK
  <2> QED
    BY <2>1 DEF client, ckernel, cobj, cstream, EndComesLast, DeadStill, ClientOpen, Tables, Gone,
                Client!Running, Client!At
<1>6. ASSUME NEW c \in Conns, ServerEnd(c)
      PROVE  LinkInv'
  <2>1. UNCHANGED <<eof, cfdt, cphase, cpc, outq, crashed>>
    BY <1>6 DEF ServerEnd, Client!PeerEnd, vars, kernel, wire, cstream
  <2> QED
    BY <2>1 DEF EndComesLast, DeadStill, ClientOpen, Tables, Gone, Client!Running, Client!At
<1>7. CASE UNCHANGED ends
  BY <1>1, <1>7 DEF ends, vars, kernel, wire
<1> QED
  BY <1>2, <1>3, <1>4, <1>5, <1>6, <1>7 DEF LinkNext, Wire

\* LinkInv holds before the first call, and no step of either process or the wire breaks it.
THEOREM LinkInvariant == LinkSpec => [](TypeOK /\ LinkInv)
<1>1. LinkInit => LinkInv
  <2> SUFFICES ASSUME LinkInit
               PROVE  LinkInv
    OBVIOUS
  <2>1. /\ cfdt = [f \in Fds |-> "free"] /\ cphase = [c \in Conns |-> "idle"]
        /\ outq = [c \in Conns |-> 0] /\ Client!Running /\ eof = [c \in Conns |-> "open"]
    BY DEF LinkInit, Init, SocketsInit, Client!Init, Client!SocketsInit, Client!Nothing, Client!Running
  <2> QED
    BY <2>1 DEF LinkInv, EndComesLast, DeadStill, ClientOpen, Tables, Kinds, Client!Kinds, Client!Phases
<1>2. TypeOK /\ LinkInv /\ [LinkNext]_ends => LinkInv'
  BY LinkInvStep
<1> QED
  BY <1>1, <1>2, LinkIsServer, TypeCorrect, PTL DEF LinkSpec

\* Whatever send_data() wrote has reached data_cb when the server closes the connection, also
\* if the client disconnected at once or died, and whatever stop() did meanwhile; only a
\* connection that start() could not register is closed unread.
THEOREM LinkLosesNothing == LinkSpec => NothingLost
<1>1. LinkInv /\ [\A c \in Conns : ClosedForCause(c)]_vars
        => [\A c \in Conns :
               phase[c] = "open" /\ phase'[c] = "closed"
                   => \/ Gone(c) /\ outq[c] = 0 /\ inq[c] = 0
                      \/ At(Reactor, "add") /\ fdt[newfd] = c]_ends
  BY DEF LinkInv, EndComesLast, ClosedForCause, vars, kernel, wire
<1> QED
  BY <1>1, LinkInvariant, LinkIsServer, LiveConnectionsKept, PTL DEF LiveConnectionKept, NothingLost
=============================================================================
