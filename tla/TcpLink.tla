------------------------------- MODULE TcpLink -------------------------------
(***************************************************************************)
(* A TcpServer and a TcpClient in two processes, joined by TCP: what each  *)
(* of them takes for the peers is the other one.  The server never writes, *)
(* so a connection carries payloads one way and an end both ways.          *)
(***************************************************************************)
EXTENDS TcpServerProperties

CONSTANTS Owner, Worker, Senders, Disconnectors, Payload, SndBuf, Reconnects, Early,
    Destroys

VARIABLES
    cfdt, cinterest, cedge,              \* the client's process, as Sockets has it
    cphase, cinq, ceof, cleft, cforeign,
    client_fd, cepoll_fd, is_connected, worker_thread, cpc, back, bytes_left, wrote, outq,
    crashed

Client ==
    INSTANCE TcpClientProperties WITH
        fdt <- cfdt, interest <- cinterest, edge <- cedge, phase <- cphase, inq <- cinq,
        eof <- ceof, left <- cleft, foreign <- cforeign, epoll_fd <- cepoll_fd, pc <- cpc,
        Handlers <- {}

ckernel == <<cfdt, cinterest, cedge, cphase, cinq, ceof, cleft, cforeign>>
cobj    == <<client_fd, cepoll_fd, is_connected>>
cstream == <<bytes_left, wrote, outq>>
client  == <<ckernel, cobj, worker_thread, cpc, back, cstream, crashed>>
ends    == <<vars, client>>

LinkInit == Init /\ Client!Init

ServerStep == Calls /\ UNCHANGED client

\* connect() succeeds with the handshake that the server's kernel completes.
ClientStep ==
    /\ Client!Calls
    /\ \/ \E c \in Conns :
             /\ cphase[c] = "idle" /\ cphase'[c] = "open" /\ PeerConnect(c)
             /\ UNCHANGED <<obj, pc, locals>>
       \/ (\A c \in Conns : cphase[c] = "idle" => cphase'[c] = "idle") /\ UNCHANGED vars

\* A byte goes from the client's send queue to the server's receive queue.
Transmit(c) ==
    /\ PeerSend(c) /\ Client!PeerRecv(c)
    /\ UNCHANGED <<obj, pc, locals, cobj, worker_thread, cpc, back, crashed>>

Gone(c) == cphase[c] = "closed" \/ (cphase[c] = "open" /\ ~Client!Running)

\* The client closed its end, or died: the server reads the end after the last byte.
ClientFin(c) ==
    /\ Gone(c) /\ outq[c] = 0 /\ PeerEnd(c) /\ eof'[c] = "fin"
    /\ UNCHANGED <<obj, pc, locals, client>>

\* The server closed its end, or refused the connection with its listener.
ServerEnd(c) ==
    /\ phase[c] \in {"closed", "refused"} /\ Client!PeerEnd(c)
    /\ UNCHANGED <<vars, cobj, worker_thread, cpc, back, cstream, crashed>>

Wire(c) == Transmit(c) \/ ClientFin(c) \/ ServerEnd(c)

LinkNext == ServerStep \/ ClientStep \/ \E c \in Conns : Wire(c)

LinkSpec == LinkInit /\ [][LinkNext]_ends

\* Both processes are scheduled, and the network delivers.
LinkFairSpec == LinkSpec /\ Fairness /\ Client!Fairness /\ \A c \in Conns : WF_ends(Wire(c))

-----------------------------------------------------------------------------
\* The server closes a connection it serves only after the client closed it, or died,
\* and every byte that send_data() wrote went through both queues to data_cb
\* (tcp_client.cpp:213-229, 43-60; tcp_server.cpp:218-247).
NothingLost ==
    [][\A c \in Conns :
         phase[c] = "open" /\ phase'[c] = "closed"
             => \/ Gone(c) /\ outq[c] = 0 /\ inq[c] = 0
                \/ At(Reactor, "add") /\ fdt[newfd] = c]_ends

\* The server's start() has not accepted c, or has ended and left it open: stop() closes
\* neither what the loop accepted nor what it has not read, and the next start() does not
\* know the connection (tcp_server.cpp:45-56, 132-139).
Unserved(c) ==
    \/ phase[c] = "queued"
    \/ phase[c] = "open" /\ (is_running => \A f \in interest : fdt[f] # c)

\* A connection the client is done with, by disconnect() or by dying, does not stay with
\* the server, queued, accepted or registered (tcp_server.cpp:184-247), unless the server
\* never accepts it or was stopped while it held it.
SessionEnds ==
    \A c \in Conns :
        (Gone(c) ~> phase[c] \in {"closed", "refused"}) \/ <>[]Unserved(c)

\* With this server at the far end each connect_to(), send_data() and disconnect() returns,
\* or the process dies, unless the server never accepts the connection or was stopped while
\* it held it: its end stays open then, nobody reads it, and send_data() retries EAGAIN for
\* ever (tcp_client.cpp:213-227).  A server that runs always reads on and never writes, so
\* neither loop of the client lasts (tcp_client.cpp:160-190; tcp_server.cpp:218-241).
CallsReturn ==
    \/ \A t \in Client!Threads \ {Worker} :
           ~Client!At(t, "idle") ~> (cpc[t] \in {"idle", "gone"} \/ ~Client!Running)
    \/ \E c \in Conns : <>[]Unserved(c)

-----------------------------------------------------------------------------
\* What makes NothingLost inductive: the server meets the end of a connection only when the
\* client is done with it and its send queue is empty, and stays so, because a dead
\* process makes no calls and a client's number denotes an open connection.
EndComesLast == \A c \in Conns : eof[c] # "open" => Gone(c) /\ outq[c] = 0
DeadStill    == ~Client!Running => \A t \in Client!Threads : Client!At(t, "dead")
ClientOpen   ==
    \A f \in Fds : cfdt[f] \in Conns =>
        cphase[cfdt[f]] = "open" /\ \A g \in Fds : cfdt[g] = cfdt[f] => g = f
Tables ==
    /\ cfdt \in [Fds -> Client!Kinds \cup Conns] /\ cphase \in [Conns -> Client!Phases]
    /\ outq \in [Conns -> Int]
LinkInv == EndComesLast /\ DeadStill /\ ClientOpen /\ Tables
=============================================================================
