-------------------------- MODULE ConnectionService --------------------------
(***************************************************************************)
(* What the program behind on_data() may rely on, connection by connection *)
(* and without descriptors, epoll, threads or stop(): a connection that is *)
(* served gets every byte delivered, and is closed when its peer has ended *)
(* it and nothing is left to deliver, and not before.                      *)
(***************************************************************************)
EXTENDS Naturals

CONSTANTS Conns, MaxBytes     \* MaxBytes: the size of a receive queue

VARIABLES
    life,         \* "queued" by the kernel, "accepted", "served", and two ways to end
    unread,       \* bytes that have arrived and not been delivered
    ended         \* has the peer ended the connection?

view  == <<life, unread, ended>>
Lives == {"idle", "queued", "accepted", "served", "closed", "refused"}

Init ==
    /\ life = [c \in Conns |-> "idle"]
    /\ unread = [c \in Conns |-> 0] /\ ended = [c \in Conns |-> FALSE]

Turn(c, from, to) ==
    life[c] = from /\ life' = [life EXCEPT ![c] = to] /\ UNCHANGED <<unread, ended>>

Live(c) == life[c] \in {"queued", "accepted", "served"} /\ ~ended[c]

\* The peer.
Connect(c) == Turn(c, "idle", "queued")
Send(c)    == Live(c) /\ unread[c] < MaxBytes
              /\ unread' = [unread EXCEPT ![c] = @ + 1] /\ UNCHANGED <<life, ended>>
End(c)     == Live(c) /\ ended' = [ended EXCEPT ![c] = TRUE] /\ UNCHANGED <<life, unread>>

\* The server.
Accept(c)  == Turn(c, "queued", "accepted")
Serve(c)   == Turn(c, "accepted", "served")
Reject(c)  == Turn(c, "accepted", "closed")
Deliver(c) == /\ life[c] = "served"
              /\ \E n \in 1..unread[c] : unread' = [unread EXCEPT ![c] = @ - n]
              /\ UNCHANGED <<life, ended>>
Finish(c)  == ended[c] /\ unread[c] = 0 /\ Turn(c, "served", "closed")

\* The port stops listening: whatever is queued is refused, all at once.
Unlisten ==
    /\ life' = [c \in Conns |-> IF life[c] = "queued" THEN "refused" ELSE life[c]]
    /\ UNCHANGED <<unread, ended>>

Attend(c) == Accept(c) \/ Serve(c) \/ Reject(c) \/ Deliver(c) \/ Finish(c)

Next == Unlisten \/ \E c \in Conns : Connect(c) \/ Send(c) \/ End(c) \/ Attend(c)

Spec == Init /\ [][Next]_view

\* The server attends to connection c, whatever it has to do for the others.
Attended(c) == WF_view(Attend(c))
=============================================================================
