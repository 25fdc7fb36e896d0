------------------------------- MODULE Sockets -------------------------------
(***************************************************************************)
(* What TcpServer and TcpClient see of Linux: the descriptor table of the  *)
(* process, one epoll instance, the TCP connections with the peers at      *)
(* their far end, and the rest of the process, which opens and closes      *)
(* descriptors of its own.  The kernel is not part of the repository.      *)
(***************************************************************************)
EXTENDS Integers, FiniteSets

CONSTANTS
    Fds,          \* the descriptor numbers the process may use (RLIMIT_NOFILE)
    Conns,        \* the connections that may be made
    MaxBytes,     \* bytes a peer sends, and the size of a receive queue
    Endless,      \* TRUE: a peer never runs out of bytes to send
    BufSize,      \* options.network_buffer_size
    MaxOthers     \* descriptors the rest of the process may hold at a time

Kinds == {"free", "socket", "listener", "epoll", "other"}

ASSUME SocketsAssumption ==
    /\ Fds \subseteq Nat
    /\ Conns \cap Kinds = {}
    /\ MaxBytes \in Nat \ {0} /\ BufSize \in Nat \ {0} /\ MaxOthers \in Nat
    /\ Endless \in BOOLEAN

VARIABLES
    fdt,               \* what each descriptor number denotes
    interest, edge,    \* the newest epoll instance: the numbers registered in it,
                       \* and those with an edge not reported yet
    phase, inq, eof,   \* per connection: its life, the bytes unread, how the peer
    left,              \* ended it, and the bytes the peer has still to send
    foreign            \* has the component touched a descriptor that is not its own?

epoll  == <<interest, edge>>
wire   == <<phase, inq, eof, left>>
kernel == <<fdt, epoll, wire, foreign>>

NoFd   == -1           \* what server_fd, epoll_fd and client_fd hold when closed
Phases == {"idle", "queued", "open", "closed", "refused"}

SocketsTypeOK ==
    /\ fdt \in [Fds -> Kinds \cup Conns]
    /\ interest \subseteq Fds /\ edge \subseteq Fds
    /\ phase \in [Conns -> Phases]
    /\ inq \in [Conns -> 0..MaxBytes] /\ left \in [Conns -> 0..MaxBytes]
    /\ eof \in [Conns -> {"open", "fin", "rst"}]
    /\ foreign \in BOOLEAN

SocketsInit ==
    /\ fdt = [f \in Fds |-> "free"]
    /\ interest = {} /\ edge = {}
    /\ phase = [c \in Conns |-> "idle"]
    /\ inq = [c \in Conns |-> 0] /\ left = [c \in Conns |-> MaxBytes]
    /\ eof = [c \in Conns |-> "open"]
    /\ foreign = FALSE

-----------------------------------------------------------------------------
\* What number n denotes: -1 and closed numbers denote nothing (EBADF).
Handle(n) == IF n \in Fds THEN fdt[n] ELSE "free"

\* The number the next open takes: at most one, and none when the table is full.
Lowest == {f \in Fds : fdt[f] = "free" /\ \A g \in Fds : fdt[g] = "free" => f <= g}

Install(f, handle) == fdt' = [fdt EXCEPT ![f] = handle]

Queued     == {c \in Conns : phase[c] = "queued"}
Pending(h) == h \in Conns /\ (inq[h] > 0 \/ eof[h] # "open")

\* What one read returns of an unread queue.
FullChunk(c) == BufSize       \* mutant: a short read taken for a full one
Chunk(c)     == IF inq[c] < BufSize THEN inq[c] ELSE BufSize

\* close(n).  The number goes back to the table and its registration goes with it;
\* the connections waiting in a closed listener are reset.  A closed epoll instance
\* lives on for the thread that waits in it, so its lists stay until the next one.
Close(n) ==
    LET h == Handle(n) IN
    /\ fdt' = [f \in Fds |-> IF f = n THEN "free" ELSE fdt[f]]
    /\ interest' = interest \ {n} /\ edge' = edge \ {n}
    /\ phase' = [c \in Conns |->
                    IF c = h THEN "closed"
                    ELSE IF h = "listener" /\ c \in Queued THEN "refused" ELSE phase[c]]
    /\ foreign' = (foreign \/ h = "other")
    /\ UNCHANGED <<inq, eof, left>>

\* EPOLL_CTL_ADD of n: reports at once what is already there to read.
Watch(n) ==
    /\ interest' = interest \cup {n}
    /\ edge' = IF Pending(Handle(n)) THEN edge \cup {n} ELSE edge

\* What epoll_wait reports: edges whose cause is still there, and a listener, which
\* is level-triggered, as long as a connection waits.
Ready ==
    {f \in interest : \/ f \in edge /\ Pending(fdt[f])
                      \/ fdt[f] = "listener" /\ Queued # {}}

-----------------------------------------------------------------------------
\* The peers, and the rest of the process.

Connected(c) == phase[c] \in {"queued", "open"} /\ eof[c] = "open"

Arrival(c) == edge' = edge \cup {f \in interest : fdt[f] = c}

PeerSend(c) ==
    /\ Connected(c) /\ left[c] > 0 /\ inq[c] < MaxBytes
    /\ inq' = [inq EXCEPT ![c] = @ + 1]
    /\ left' = IF Endless THEN left ELSE [left EXCEPT ![c] = @ - 1]
    /\ Arrival(c)
    /\ UNCHANGED <<fdt, interest, phase, eof, foreign>>

PeerEnd(c) ==
    /\ Connected(c)
    /\ \E how \in {"fin", "rst"} : eof' = [eof EXCEPT ![c] = how]
    /\ Arrival(c)
    /\ UNCHANGED <<fdt, interest, phase, inq, left, foreign>>

OtherOpen ==
    /\ Cardinality({f \in Fds : fdt[f] = "other"}) < MaxOthers
    /\ \E f \in Lowest : Install(f, "other")
    /\ UNCHANGED <<epoll, wire, foreign>>

OtherClose ==
    /\ \E f \in Fds : fdt[f] = "other" /\ Install(f, "free")
    /\ UNCHANGED <<epoll, wire, foreign>>

Outside == OtherOpen \/ OtherClose \/ \E c \in Conns : PeerSend(c) \/ PeerEnd(c)
=============================================================================
