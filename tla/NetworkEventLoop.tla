-------------------------- MODULE NetworkEventLoop --------------------------
(***************************************************************************)
(* The main loop of chat_server.chmp on top of NetworkManager, without     *)
(* encryption: netPoll, acceptPending when the listener is ready, then     *)
(* drainClient on every client, ready or not, until receive_line returns   *)
(* Wait.  netPoll looks at the kernel alone, so a line that an earlier     *)
(* call left in the line buffer makes no handle ready.                     *)
(*                                                                         *)
(* What processing a line sends is left out; what it may do to the loop is *)
(* not: it may remove any clients, the one being drained among them.       *)
(***************************************************************************)
EXTENDS NetworkManager

VARIABLES
    phase,     \* where the main loop is
    clients,   \* the handles of the clients
    index,     \* clientIndex
    handle,    \* the handle drainClient was called with, or None
    called,    \* drainClient has called receive_line and not looked at its result
    dropped    \* history: connections closed because of a line or an error

chat == <<phase, clients, index, handle, called, dropped>>
loopVars == <<vars, chat>>

LoopInit ==
    /\ Init
    /\ phase = "start" /\ clients = <<>> /\ index = 1 /\ handle = None
    /\ called = FALSE /\ dropped = {}

Start ==
    /\ phase = "start" /\ Listen
    /\ phase' = "poll"
    /\ UNCHANGED <<clients, index, handle, called, dropped>>

\* Only the listener's readiness is looked at.
Poll ==
    /\ phase = "poll"
    /\ phase' = IF queue # <<>> THEN "accept" ELSE "drain"
    /\ UNCHANGED <<vars, clients, index, handle, called, dropped>>

\* One turn of acceptPending with promotePending.
AcceptPending ==
    /\ phase = "accept"
    /\ \/ /\ \E h \in Listeners : Accept(h)
          /\ clients' = Append(clients, next_handle)
          /\ UNCHANGED phase
       \/ /\ queue = <<>>
          /\ phase' = "drain"
          /\ UNCHANGED <<vars, clients>>
    /\ UNCHANGED <<index, handle, called, dropped>>

DrainNext ==
    /\ phase = "drain" /\ handle = None /\ index <= Len(clients)
    /\ handle' = clients[index]
    /\ UNCHANGED <<vars, phase, clients, index, called, dropped>>

Draining == phase = "drain" /\ handle # None

\* receive_line on a handle that is closed throws, and drainClient returns false.
CallLine ==
    /\ Draining /\ ~called
    /\ \/ /\ ReceiveLine(handle)
          /\ called' = TRUE
          /\ UNCHANGED handle
       \/ /\ handle \notin Streams
          /\ handle' = None
          /\ UNCHANGED <<vars, called>>
    /\ UNCHANGED <<phase, clients, index, dropped>>

GoOn == Draining /\ called /\ ReceiveSystemCall(handle) /\ UNCHANGED chat

RemoveClients(gone) ==
    /\ entries' = [h \in DOMAIN entries \ gone |-> entries[h]]
    /\ LET Stays(h) == h \notin gone IN clients' = SelectSeq(clients, Stays)
    /\ result' = None
    /\ UNCHANGED <<next_handle, call, history>>

Drop(gone) == dropped' = dropped \cup {Socket(h) : h \in gone \cap Streams}

\* processLine removed the clients gone and returned true or false.
ProcessLine ==
    /\ result.status = "data"
    /\ \E gone \in SUBSET Streams : RemoveClients(gone) /\ Drop(gone)
    /\ \/ UNCHANGED handle
       \/ handle' = None
    /\ UNCHANGED index

\* The announcement that the client left may remove others.
RemoveDrained ==
    /\ result.status \in {"closed", "error"}
    /\ \E gone \in SUBSET (Streams \ {handle}) :
         /\ RemoveClients(gone \cup {handle})
         /\ Drop(IF result.status = "error" THEN gone \cup {handle} ELSE gone)
    /\ handle' = None
    /\ UNCHANGED index

DrainedToWait ==
    /\ result.status = "wait"
    /\ RemoveClients({})
    /\ handle' = None /\ index' = index + 1
    /\ UNCHANGED dropped

LookAtResult ==
    /\ Draining /\ called /\ Idle
    /\ called' = FALSE
    /\ ProcessLine \/ RemoveDrained \/ DrainedToWait
    /\ UNCHANGED <<kernel, phase>>

Drained == phase = "drain" /\ handle = None /\ index > Len(clients)

\* The line of the server's console, at the end of every turn: /kick, or a
\* message that cannot be sent, removes clients.
Console ==
    /\ Drained
    /\ \E gone \in SUBSET Streams : RemoveClients(gone) /\ Drop(gone)
    /\ phase' = "poll" /\ index' = 1
    /\ UNCHANGED <<kernel, handle, called>>

\* /stop: closeAll.
Stop ==
    /\ Drained
    /\ RemoveClients(DOMAIN entries) /\ Drop(Streams)
    /\ queue' = <<>>
    /\ far' = [c \in Conns |-> IF \E i \in DOMAIN queue : queue[i] = c
                                 THEN "reset" ELSE far[c]]
    /\ phase' = "stopped"
    /\ UNCHANGED <<wire, unsent, index, handle, called>>

Loop ==
    \/ Start \/ Poll \/ AcceptPending \/ DrainNext \/ CallLine \/ GoOn \/ LookAtResult
    \/ Console \/ Stop

LoopNext == Loop \/ (Far /\ UNCHANGED chat)

\* The server process goes on as long as it runs; the other ends need not.
LoopSpec == LoopInit /\ [][LoopNext]_loopVars /\ WF_loopVars(Loop)

\* Every line the other end terminates comes out of receive_line, unless the
\* connection is reset or the server drops the client, for what a line says or for
\* more bytes than the line buffer holds.
EveryLineComesOut ==
    \A c \in Conns, n \in 1..MaxBytes :
        Cardinality({i \in DOMAIN arrived[c] : arrived[c][i] = LF}) >= n
            ~> (Len(lines[c]) >= n \/ far[c] \in {"reset", "failed"} \/ c \in dropped)

=============================================================================
