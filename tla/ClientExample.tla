---------------------------- MODULE ClientExample ----------------------------
(***************************************************************************)
(* tuyul-example/tcp-client-example/main.cpp: main() on the Owner's thread *)
(* connects, sends until SIGINT or a failure, disconnects and returns; the *)
(* SIGINT handler, in Handlers, calls disconnect() on top of main().       *)
(***************************************************************************)
EXTENDS TcpClientProperties

\* main() sends and disconnects itself, connects once, and destroys the client; data_cb
\* only prints.  SIGINT may arrive before connect_to() has returned.
ASSUME ExampleAssumption ==
    /\ Owner \in Senders \cap Disconnectors /\ Worker \notin Disconnectors
    /\ ~Reconnects /\ Early /\ Destroys

VARIABLES
    main,             \* the call that main() makes, or where it stands between two
    keep_running

app == <<main, keep_running>>

ExampleTypeOK ==
    /\ TypeOK /\ keep_running \in BOOLEAN
    /\ main \in {"connect", "failed", "loop", "send", "leave", "disconnect", "return"}

ExampleInit == Init /\ main = "connect" /\ keep_running = TRUE

Goes(to) == main' = to /\ UNCHANGED keep_running

\* Where the call in progress leaves main() when it returns: connect_to() has succeeded
\* when it spawned the Worker, send_data() when everything was written.
Returned ==
    CASE main = "connect" -> IF At(Owner, "spawn") THEN "loop" ELSE "failed"
      [] main = "send" -> IF At(Owner, "write") /\ bytes_left[Owner] = 0 THEN "loop" ELSE "leave"
      [] OTHER -> "return"

CallConnect == main = "connect" /\ Connect /\ Goes(main)
CallSendData == main = "loop" /\ keep_running /\ CallSend(Owner) /\ Goes("send")
CallDisconnectLast ==
    /\ main = "leave" \/ (main = "loop" /\ ~keep_running)
    /\ CallDisconnect(Owner) /\ Goes("disconnect")
ReturnFromMain == main \in {"failed", "return"} /\ Destroy /\ Goes(main)

MainStep ==
    /\ Awake(Owner) /\ (ConnectStep \/ CallStep(Owner))
    /\ Goes(IF pc'[Owner] = "idle" THEN Returned ELSE main)

KeepRunning == UNCHANGED keep_running      \* mutant: the handler leaves the flag alone
StopRunning == keep_running' = FALSE

\* The handler, until main() has reset global_client_ptr.
SignalHandler(h) == main # "return" /\ CallDisconnect(h) /\ StopRunning /\ UNCHANGED main

Program ==
    CallConnect \/ CallSendData \/ CallDisconnectLast \/ ReturnFromMain \/ MainStep

ExampleNext ==
    \/ Program
    \/ \E h \in Handlers : SignalHandler(h)
    \/ /\ \/ WorkerStep \/ ReadForeign \/ (Awake(Owner) /\ Destruct) \/ Environment
          \/ (Awake(Owner) /\ ThreadFails /\ ~Running')      \* main() catches nothing
          \/ (\E t \in Threads \ {Owner} : CallStep(t))
       /\ UNCHANGED app

ExampleSpec == ExampleInit /\ [][ExampleNext]_<<vars, app>>

\* The fairness of TcpClient, and main() goes on from each call to the next.
ExampleFairSpec ==
    /\ ExampleSpec /\ Fairness /\ WF_<<vars, app>>(Program)

-----------------------------------------------------------------------------
\* After Ctrl+C the program ends, in whatever call of the client it was, a send_data()
\* that the server does not read included, unless the server keeps the Worker reading
\* for ever (main.cpp:20-28, 92-107: "Press Ctrl+C to terminate cleanly").
InterruptEnds ==
    \/ (\E h \in Handlers : ~At(h, "idle")) ~>
            (At(Owner, "gone") \/ ~Running)
    \/ []<><<Read>>_vars

\* When main() has returned the client's descriptors are closed and the Worker is joined,
\* whichever call failed or was interrupted ("cleanly exited", main.cpp:113).
CleanExit ==
    At(Owner, "gone") =>
        At(Worker, "none") /\ \A f \in Fds : fdt[f] \in {"free", "other"}

\* What makes CleanExit inductive: the destructor comes after every other call, finds the
\* client disconnected, and ends only when the Worker is joined.
DestroyedLast ==
    /\ back[Owner] = "dtor" =>
          /\ \A t \in Threads \ {Owner, Worker} : pc[t] \in {"idle", "dead"}
          /\ pc[Owner] \notin {"sendTest", "write"}
    /\ pc[Owner] \in {"dtor", "gone"} => back[Owner] = "dtor" /\ ~is_connected
    /\ At(Owner, "gone") => ~Joinable
    /\ \A f \in Fds : fdt[f] # "listener"
=============================================================================
