----------------------- MODULE ConnectionServiceProofs -----------------------
(***************************************************************************)
(* TcpServer implements the safety part of ConnectionService, proved for   *)
(* every set of descriptors, connections and stopping threads: each step   *)
(* of the server is one step of the service for one connection, Unlisten   *)
(* for all the queued ones, or nothing that the connections can see.       *)
(***************************************************************************)
EXTENDS TcpServerProofs

USE SocketsAssumption, ServerAssumption

\* Nothing that a connection can see has changed.
LEMMA Unseen ==
    ASSUME UNCHANGED <<inq, eof>>, \A d \in Conns : Life(d)' = Life(d)
    PROVE  UNCHANGED Service!view
  BY DEF Service!view

\* One connection goes from one life to another.
LEMMA Turned ==
    ASSUME NEW c \in Conns, NEW from, NEW to, UNCHANGED <<inq, eof>>, Life(c) = from,
           \A d \in Conns : Life(d)' = IF d = c THEN to ELSE Life(d)
    PROVE  Service!Turn(c, from, to)
  BY DEF Service!Turn

\* Away from "add" a connection lives the life its phase says.
LEMMA LifeIsPhase ==
    ASSUME ~At(Reactor, "add"), NEW c \in Conns
    PROVE  Life(c) = IF phase[c] = "open" THEN "served" ELSE phase[c]
  BY DEF Life

\* So a step away from "add" shows what it changes in the phases.
LEMMA PhasesUnseen ==
    ASSUME ~At(Reactor, "add"), ~At(Reactor, "add")', UNCHANGED <<phase, inq, eof>>
    PROVE  UNCHANGED Service!view
  BY Unseen DEF Life

\* close() of a number that denotes no connection is Unlisten or nothing.
LEMMA CloseUnlistens ==
    ASSUME TypeOK, NEW n, Close(n), Handle(n) \notin Conns, UNCHANGED newfd,
           At(Reactor, "add")' <=> At(Reactor, "add")
    PROVE  Service!Unlisten \/ UNCHANGED Service!view
<1>0. Conns \cap {"free", "socket", "listener", "epoll", "other"} = {}
  BY DEF Kinds
<1>1. UNCHANGED <<inq, eof>>
  BY DEF Close
<1>2. \A d \in Conns : Handle(newfd)' = d <=> Handle(newfd) = d
  BY <1>0 DEF Close, Handle, TypeOK, SocketsTypeOK
<1>3. CASE Handle(n) = "listener"
  <2>1. \A d \in Conns : phase'[d] = IF phase[d] = "queued" THEN "refused" ELSE phase[d]
    BY <1>3 DEF Close, Queued
  <2>2. \A d \in Conns : Life(d)' = IF Life(d) = "queued" THEN "refused" ELSE Life(d)
    BY <1>2, <2>1 DEF Life
  <2> QED
    BY <1>1, <2>2 DEF Service!Unlisten
<1>4. CASE Handle(n) # "listener"
  <2>1. \A d \in Conns : phase'[d] = phase[d]
    BY <1>4 DEF Close
  <2> QED
    BY <1>1, <1>2, <2>1, Unseen DEF Life
<1> QED
  BY <1>3, <1>4

\* close() of a number that denotes a connection, and what that looks like.
LEMMA CloseEnds ==
    ASSUME TypeOK, ServerInv, NEW n, Close(n), Handle(n) \in Conns, UNCHANGED newfd,
           \/ At(Reactor, "add") /\ newfd = n
           \/ ~At(Reactor, "add") /\ ~At(Reactor, "add")'
    PROVE  /\ UNCHANGED <<inq, eof>>
           /\ Life(Handle(n)) = IF At(Reactor, "add") THEN "accepted" ELSE "served"
           /\ \A d \in Conns : Life(d)' = IF d = Handle(n) THEN "closed" ELSE Life(d)
<1> DEFINE c == Handle(n)
<1>0. Conns \cap {"free", "socket", "listener", "epoll", "other"} = {}
  BY DEF Kinds
<1>1. n \in Fds /\ fdt[n] = c /\ phase[c] = "open" /\ c # "listener"
  BY <1>0 DEF Handle, TypeOK, SocketsTypeOK, ServerInv, OneNumberEach
<1>2. \A d \in Conns : phase'[d] = IF d = c THEN "closed" ELSE phase[d]
  BY <1>1 DEF Close
<1>3. UNCHANGED <<inq, eof>>
  BY DEF Close
<1>4. \A d \in Conns \ {c} : At(Reactor, "add") => Handle(newfd) # d
  BY <1>1
<1>5. \A d \in Conns \ {c} : At(Reactor, "add") => Handle(newfd)' # d
  BY <1>0, <1>1 DEF Close, Handle
<1>6. Life(c) = IF At(Reactor, "add") THEN "accepted" ELSE "served"
  BY <1>1 DEF Life
<1>7. \A d \in Conns : Life(d)' = IF d = c THEN "closed" ELSE Life(d)
  <2>1. CASE At(Reactor, "add")
    BY <1>2, <1>4, <1>5, <2>1 DEF Life
  <2>2. CASE ~At(Reactor, "add")
    BY <1>1, <1>2, <2>2 DEF Life
  <2> QED
    BY <2>1, <2>2
<1> QED
  BY <1>3, <1>6, <1>7

-----------------------------------------------------------------------------
\* The boot sequence is not seen.
LEMMA BootService ==
    ASSUME TypeOK, Boot
    PROVE  UNCHANGED Service!view
<1> USE DEF At, Goto, Advance, Exit, Leave, TypeOK, Threads, kernel, wire
<1>1. ~At(Reactor, "add") /\ ~At(Reactor, "add")' /\ UNCHANGED <<phase, inq, eof>>
  BY DEF Boot, Socket, Configure, EpollCreate, Register, SetRunning
<1> QED
  BY <1>1, PhasesUnseen

\* Each step of the event loop is one of Accept, Serve, Reject, Deliver and Finish, a
\* close of what is no connection, or is not seen.
LEMMA LoopService ==
    ASSUME TypeOK, ServerInv, EventLoop
    PROVE  Service!Next \/ UNCHANGED Service!view
<1>0. Conns \cap {"free", "socket", "listener", "epoll", "other"} = {}
  BY DEF Kinds
<1> USE DEF TypeOK, SocketsTypeOK, At, Goto, Advance, Exit, Leave, NextEvent, Threads, kernel, wire
<1>1. ASSUME ~At(Reactor, "add"), ~At(Reactor, "add")', UNCHANGED <<phase, inq, eof>>
      PROVE  UNCHANGED Service!view
  BY <1>1, PhasesUnseen
<1>2. CASE LoopTest \/ EpollWait \/ WaitTimeout \/ WaitEvents \/ Dispatch
  BY <1>1, <1>2 DEF LoopTest, EpollWait, WaitTimeout, WaitEvents, Dispatch
<1>3. CASE ReadAgain \/ ReadEnd \/ ReadForeign
  BY <1>1, <1>3 DEF ReadAgain, ReadEnd, ReadForeign, ConnectionClosed
<1>4. CASE Accept
  <2>1. CASE NextEvent /\ UNCHANGED phase
    BY <1>1, <1>4, <2>1 DEF Accept
  <2>2. ASSUME NEW c \in Conns, NEW f \in Fds, phase[c] = "queued", fdt' = [fdt EXCEPT ![f] = c],
               phase' = [phase EXCEPT ![c] = "open"], newfd' = f, Goto(Reactor, "add")
        PROVE  Service!Accept(c)
    <3>1. UNCHANGED <<inq, eof>> /\ ~At(Reactor, "add") /\ At(Reactor, "add")'
      BY <1>4, <2>2 DEF Accept
    <3>2. Handle(newfd)' = c
      BY <2>2 DEF Handle
    <3>3. Life(c) = "queued"
      BY <2>2, <3>1 DEF Life
    <3>4. \A d \in Conns : Life(d)' = IF d = c THEN "accepted" ELSE Life(d)
      BY <2>2, <3>1, <3>2 DEF Life
    <3> QED
      BY <3>1, <3>3, <3>4, Turned DEF Service!Accept
  <2>3. CASE \E c \in Queued, f \in Lowest :
               /\ Install(f, c) /\ phase' = [phase EXCEPT ![c] = "open"]
               /\ newfd' = f /\ Goto(Reactor, "add")
    BY <2>2, <2>3 DEF Queued, Lowest, Install, Service!Next, Service!Attend
  <2> QED
    BY <1>4, <2>1, <2>3 DEF Accept
<1>5. CASE Add
  <2>1. CASE Close(newfd)
    <3>1. At(Reactor, "add") /\ ~At(Reactor, "add")' /\ UNCHANGED <<inq, eof>>
      BY <1>5, <2>1 DEF Add, Close
    <3>2. CASE Handle(newfd) \in Conns
      <4> DEFINE c == Handle(newfd)
      <4>1. phase[c] = "open" /\ newfd \in Fds
        BY <1>0, <3>2 DEF Handle, ServerInv, OneNumberEach
      <4>2. Life(c) = "accepted"
        BY <3>1, <4>1 DEF Life
      <4>3. \A d \in Conns : phase'[d] = IF d = c THEN "closed" ELSE phase[d]
        BY <1>0, <2>1, <3>2 DEF Close
      <4>4. \A d \in Conns : Life(d)' = IF d = c THEN "closed" ELSE Life(d)
        BY <3>1, <4>3 DEF Life
      <4> QED
        BY <3>1, <3>2, <4>2, <4>4, Turned DEF Service!Next, Service!Attend, Service!Reject
    <3>3. CASE Handle(newfd) \notin Conns
      <4>1. \A d \in Conns : Life(d) = IF phase[d] = "open" THEN "served" ELSE phase[d]
        BY <3>3 DEF Life
      <4>2. \A d \in Conns : Life(d)' = IF phase'[d] = "open" THEN "served" ELSE phase'[d]
        BY <3>1 DEF Life
      <4>3. CASE Handle(newfd) = "listener"
        <5>1. \A d \in Conns : phase'[d] = IF phase[d] = "queued" THEN "refused" ELSE phase[d]
          BY <2>1, <3>3, <4>3 DEF Close, Queued
        <5>2. \A d \in Conns : Life(d)' = IF Life(d) = "queued" THEN "refused" ELSE Life(d)
          BY <4>1, <4>2, <5>1
        <5> QED
          BY <3>1, <5>2 DEF Service!Next, Service!Unlisten
      <4>4. CASE Handle(newfd) # "listener"
        <5>1. \A d \in Conns : phase'[d] = phase[d]
          BY <2>1, <3>3, <4>4 DEF Close
        <5> QED
          BY <3>1, <4>1, <4>2, <5>1, Unseen
      <4> QED
        BY <4>3, <4>4
    <3> QED
      BY <3>2, <3>3
  <2>2. CASE UNCHANGED <<phase, inq, eof>>
    <3>1. At(Reactor, "add") /\ ~At(Reactor, "add")'
      BY <1>5 DEF Add
    <3>2. CASE Handle(newfd) \in Conns /\ phase[Handle(newfd)] = "open"
      <4>1. \A d \in Conns : Life(d)' = IF d = Handle(newfd) THEN "served" ELSE Life(d)
        BY <2>2, <3>1, <3>2 DEF Life
      <4>2. Life(Handle(newfd)) = "accepted"
        BY <3>1, <3>2 DEF Life
      <4> QED
        BY <2>2, <3>2, <4>1, <4>2, Turned DEF Service!Next, Service!Attend, Service!Serve
    <3>3. CASE ~(Handle(newfd) \in Conns /\ phase[Handle(newfd)] = "open")
      BY <2>2, <3>1, <3>3, Unseen DEF Life
    <3> QED
      BY <3>2, <3>3
  <2> QED
    BY <1>5, <2>1, <2>2 DEF Add, Reject
<1>6. CASE ReadData
  <2>1. PICK c \in Conns : c = Handle(cur) /\ inq[c] > 0 /\ inq' = [inq EXCEPT ![c] = @ - Chunk(c)]
    BY <1>6 DEF ReadData
  <2>2. ~At(Reactor, "add") /\ ~At(Reactor, "add")' /\ UNCHANGED <<phase, eof>>
    BY <1>6 DEF ReadData, ReadOn
  <2>3. phase[c] = "open"
    BY <1>0, <2>1 DEF Handle, ServerInv, OneNumberEach
  <2>4. Life(c) = "served" /\ \A d \in Conns : Life(d)' = Life(d)
    BY <2>2, <2>3 DEF Life
  <2>5. Chunk(c) \in 1..inq[c]
    BY <2>1 DEF Chunk
  <2>6. Service!Deliver(c)
    BY <2>1, <2>2, <2>4, <2>5 DEF Service!Deliver
  <2> QED
    BY <2>6 DEF Service!Next, Service!Attend
<1>7. CASE Drop
  <2>1. ~At(Reactor, "add") /\ ~At(Reactor, "add")' /\ Close(cur) /\ UNCHANGED newfd
    BY <1>7 DEF Drop
  <2>2. CASE Handle(cur) \in Conns
    <3>1. inq[Handle(cur)] = 0 /\ eof[Handle(cur)] # "open"
      BY <1>7, <2>2 DEF Drop, ServerInv, DropEnded, Ended
    <3>2. Service!Finish(Handle(cur))
      BY <2>1, <2>2, <3>1, CloseEnds, Turned DEF Service!Finish
    <3> QED
      BY <2>2, <3>2 DEF Service!Next, Service!Attend
  <2>3. CASE Handle(cur) \notin Conns
    BY <2>1, <2>3, CloseUnlistens DEF Service!Next
  <2> QED
    BY <2>2, <2>3
<1> QED
  BY <1>2, <1>3, <1>4, <1>5, <1>6, <1>7 DEF EventLoop

\* stop() and cleanup() refuse what is queued, reject a connection that has the number
\* of a closed epoll instance, or are not seen.
LEMMA CleanupService ==
    ASSUME TypeOK, ServerInv, NEW t \in Threads, Cleanup(t)
    PROVE  Service!Next \/ UNCHANGED Service!view
<1> USE DEF TypeOK, At, Goto, Return, Threads
<1>1. UNCHANGED newfd
  BY DEF Cleanup, StopTest, CloseEpoll, ClearEpoll, CloseServer, ClearServer, ClearRunning, locals
<1>2. At(Reactor, "add")' <=> At(Reactor, "add")
  <2>1. CASE t = Reactor
    BY <2>1 DEF Cleanup, StopTest, CloseEpoll, ClearEpoll, CloseServer, ClearServer, ClearRunning,
                locals
  <2>2. CASE t # Reactor
    BY <2>2 DEF Cleanup, StopTest, CloseEpoll, ClearEpoll, CloseServer, ClearServer, ClearRunning,
                locals
  <2> QED
    BY <2>1, <2>2
<1>3. CASE UNCHANGED kernel
  BY <1>1, <1>2, <1>3, Unseen DEF kernel, wire, Life, Handle
<1>4. CASE Close(epoll_fd) \/ Close(server_fd)
  <2>1. PICK n : Close(n) /\ n \in {epoll_fd, server_fd}
    BY <1>4
  <2>2. CASE Handle(n) \notin Conns
    BY <1>1, <1>2, <2>1, <2>2, CloseUnlistens DEF Service!Next
  <2>3. CASE Handle(n) \in Conns
    <3>1. At(Reactor, "add") /\ newfd = n
      BY <2>1, <2>3 DEF ServerInv, MembersNotConns
    <3>2. Service!Reject(Handle(n))
      BY <1>1, <2>1, <2>3, <3>1, CloseEnds, Turned DEF Service!Reject
    <3> QED
      BY <2>3, <3>2 DEF Service!Next, Service!Attend
  <2> QED
    BY <2>2, <2>3
<1> QED
  BY <1>3, <1>4 DEF Cleanup, StopTest, CloseEpoll, ClearEpoll, CloseServer, ClearServer, ClearRunning

\* The peers connect, send and end; other code is not seen.
LEMMA EnvironmentService ==
    ASSUME TypeOK, Environment
    PROVE  Service!Next \/ UNCHANGED Service!view
<1>0. Conns \cap {"free", "socket", "listener", "epoll", "other"} = {}
  BY DEF Kinds
<1> USE DEF TypeOK, SocketsTypeOK, Environment
<1>1. UNCHANGED <<pc, newfd>>
  BY DEF locals
<1>2. ASSUME NEW c \in Conns, PeerSend(c)
      PROVE  Service!Send(c)
  <2>1. \A d \in Conns : Life(d)' = Life(d)
    BY <1>1, <1>2 DEF PeerSend, Life, Handle, At
  <2>2. Life(c) \in {"queued", "accepted", "served"} /\ eof[c] = "open"
    BY <1>2 DEF PeerSend, Connected, Life
  <2> QED
    BY <1>2, <2>1, <2>2 DEF PeerSend, Service!Send, Service!Live
<1>3. ASSUME NEW c \in Conns, PeerEnd(c)
      PROVE  Service!End(c)
  <2>1. \A d \in Conns : Life(d)' = Life(d)
    BY <1>1, <1>3 DEF PeerEnd, Life, Handle, At
  <2>2. Life(c) \in {"queued", "accepted", "served"} /\ eof[c] = "open"
    BY <1>3 DEF PeerEnd, Connected, Life
  <2>3. UNCHANGED inq /\ \A d \in Conns : eof'[d] # "open" <=> (d = c \/ eof[d] # "open")
    BY <1>3 DEF PeerEnd
  <2> QED
    BY <2>1, <2>2, <2>3 DEF Service!End, Service!Live
<1>4. ASSUME NEW c \in Conns, PeerConnect(c)
      PROVE  Service!Connect(c)
  <2>1. Life(c) = "idle" /\ UNCHANGED <<inq, eof, fdt>>
    BY <1>4 DEF PeerConnect, Life
  <2>2. \A d \in Conns : Life(d)' = IF d = c THEN "queued" ELSE Life(d)
    BY <1>1, <1>4 DEF PeerConnect, Life, Handle, At
  <2> QED
    BY <2>1, <2>2, Turned DEF Service!Connect
<1>5. CASE OtherOpen \/ OtherClose
  <2>1. UNCHANGED <<phase, inq, eof>>
    BY <1>5 DEF OtherOpen, OtherClose, wire
  <2>2. \A d \in Conns : Handle(newfd)' = d <=> Handle(newfd) = d
    BY <1>0, <1>1, <1>5 DEF OtherOpen, OtherClose, Install, Lowest, Handle
  <2> QED
    BY <1>1, <2>1, <2>2, Unseen DEF Life, At
<1> QED
  BY <1>2, <1>3, <1>4, <1>5 DEF Outside, Service!Next

-----------------------------------------------------------------------------
\* However stop() calls, numbers that other code takes and boot failures interleave with
\* the event loop, no connection is closed early, skipped a byte or brought back.
THEOREM ServiceKept == Spec => ServesConnections
<1>1. Init => Service!Init
  <2> SUFFICES ASSUME Init
               PROVE  Service!Init
    OBVIOUS
  <2>1. \A c \in Conns : Life(c) = "idle" /\ eof[c] = "open" /\ inq = [d \in Conns |-> 0]
    BY DEF Init, SocketsInit, Life
  <2> QED
    BY <2>1 DEF Init, SocketsInit, Service!Init
<1>2. TypeOK /\ ServerInv /\ [Next]_vars => [Service!Next]_Service!view
  <2> SUFFICES ASSUME TypeOK, ServerInv, [Next]_vars
               PROVE  Service!Next \/ UNCHANGED Service!view
    OBVIOUS
  <2>1. CASE \E t \in Stoppers : CallStop(t)
    <3>1. At(Reactor, "add")' <=> At(Reactor, "add")
      BY <2>1 DEF CallStop, At, Goto, TypeOK, Threads
    <3> QED
      BY <2>1, <3>1, Unseen DEF CallStop, kernel, wire, locals, Life, Handle
  <2>2. CASE UNCHANGED vars
    BY <2>2, Unseen DEF vars, kernel, wire, locals, Life, Handle, At
  <2> QED
    BY <2>1, <2>2, BootService, LoopService, CleanupService, EnvironmentService DEF Next, Calls
<1> QED
  BY <1>1, <1>2, Invariant, PTL DEF Spec, ServesConnections, Service!Spec
=============================================================================
