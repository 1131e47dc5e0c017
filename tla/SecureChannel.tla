--------------------------- MODULE SecureChannel ---------------------------
(***************************************************************************)
(* SecureChannelManager: the password handshake and the encrypted line     *)
(* channel that two Chompo programs run over one TCP connection.           *)
(*                                                                         *)
(* Both endpoints run the code of secure_channel.cpp, each in a process of *)
(* one thread.  A call that has to write goes through send_all, a loop     *)
(* around a non-blocking ::send; while it loops the endpoint does nothing  *)
(* else, but the other process runs.  So an action is everything a call    *)
(* does up to the first ::send (or the whole call when it writes nothing), *)
(* and the attempts of send_all are actions of their own.                  *)
(*                                                                         *)
(* Abstractions.  A line on the wire is a record.  AES-256-GCM is perfect: *)
(* a sealed frame is the record of everything its seal binds and opens     *)
(* only under the same key, nonce and direction.  A salt (16 random bytes) *)
(* never repeats; a nonce prefix (4 random bytes) may.                     *)
(***************************************************************************)
EXTENDS Integers, Sequences

CONSTANTS
    Client, Server,  \* the endpoint that connected, the endpoint that accepted
    Passwords,       \* non-empty passwords
    Prefixes,        \* nonce prefixes
    Texts,           \* plaintext lines of the application
    MaxCounter,      \* stands for the largest std::uint64_t
    Cap,             \* complete lines the connection holds per direction
    MaxSalts,        \* bounds how often begin_server_handshake is called
    None             \* std::nullopt: no session, no handshake, no call running

Endpoint == {Client, Server}
Salts == 1..MaxSalts

ASSUME ConstantsAssumption ==
    /\ Client # Server
    /\ MaxCounter \in Nat /\ MaxCounter > 1
    /\ Cap \in Nat \ {0}
    /\ MaxSalts \in Nat

Peer(e) == IF e = Client THEN Server ELSE Client
Range(f) == {f[x] : x \in DOMAIN f}

-----------------------------------------------------------------------------
(* Data *)

\* PBKDF2 of the password and the salt the server sent.
Key == [password : Passwords, salt : Salts]

Session == [key            : Key,
            sendPrefix     : Prefixes,
            receivePrefix  : Prefixes,
            sendCounter    : 0..MaxCounter,
            receiveCounter : 0..MaxCounter]

\* A handshake in progress: the fields its phase uses.
ServerHelloWait == [phase : {"WaitServerHello"}, password : Passwords]
ServerReadyWait == [phase : {"WaitServerReady"}, session : Session]
ClientKeyWait   == [phase : {"WaitClientKey"}, password : Passwords,
                    salt : Salts, prefix : Prefixes]
PendingHandshake == ServerHelloWait \cup ServerReadyWait \cup ClientKeyWait

Plaintext == Texts \cup {"AUTH", "READY"}

\* The output of encrypt_aes_gcm with all that goes into it: the key, the nonce
\* (prefix and counter) and the additional data (direction and counter).
Sealed == [key : Key, prefix : Prefixes, counter : 0..MaxCounter,
           from : Endpoint, text : Plaintext]

Hello  == [type : {"HELLO"}, salt : Salts, prefix : Prefixes]
KeyMsg == [type : {"KEY"}, prefix : Prefixes, sealed : Sealed]
Frame  == [type : {"FRAME"}, sealed : Sealed]
\* A line that is no message of the protocol: what is left of a write that was
\* given up, alone or run together with the next message.
Garbage == [type |-> "GARBAGE"]
Line == Hello \cup KeyMsg \cup Frame \cup {Garbage}

\* One send_all in progress: the line, what the call does once it is written,
\* how much of it ::send took, whether an attempt came short, and whether the
\* call has a deadline (timeout_ms >= 0).
Writing == [op : {"HELLO", "KEY", "READY", "LINE"}, line : Line,
            next : PendingHandshake \cup Session \cup {None},
            wrote : {"nothing", "part", "body"}, short : BOOLEAN,
            deadline : BOOLEAN]

\* std::nullopt is no value of these types.
ASSUME NoneAssumption ==
    /\ None \notin Session /\ None \notin PendingHandshake
    /\ None \notin Line /\ None \notin Writing

VARIABLES
    pending,   \* Impl::pending, by the endpoint whose manager it is
    session,   \* Impl::sessions
    out,       \* the send_all an endpoint is in, or None
    lines,     \* complete lines sent by an endpoint, not yet read by its peer
    tail,      \* the bytes after them, a line without its newline, or None
    open,      \* the handle is still in the endpoint's NetworkManager
    reset,     \* the connection was reset
    lastSalt,  \* how many salts were drawn
    sealed,    \* history: what an endpoint sealed, by salt, in order
    opened     \* history: what an endpoint opened, by salt, in order

channelVars == <<pending, session>>
wireVars == <<lines, tail, open, reset>>
history == <<sealed, opened>>
vars == <<pending, session, out, lines, tail, open, reset, lastSalt, sealed, opened>>

TypeOK ==
    /\ pending \in [Endpoint -> PendingHandshake \cup {None}]
    /\ session \in [Endpoint -> Session \cup {None}]
    /\ out \in [Endpoint -> Writing \cup {None}]
    /\ lines \in [Endpoint -> Seq(Line)]
    /\ tail \in [Endpoint -> Line \cup {None}]
    /\ open \in [Endpoint -> BOOLEAN]
    /\ reset \in BOOLEAN
    /\ lastSalt \in 0..MaxSalts
    /\ sealed \in [Endpoint -> [Salts -> Seq(Sealed)]]
    /\ opened \in [Endpoint -> [Salts -> Seq(Sealed)]]

Init ==
    /\ pending = [e \in Endpoint |-> None]
    /\ session = [e \in Endpoint |-> None]
    /\ out = [e \in Endpoint |-> None]
    /\ lines = [e \in Endpoint |-> <<>>]
    /\ tail = [e \in Endpoint |-> None]
    /\ open = [e \in Endpoint |-> TRUE]
    /\ reset = FALSE
    /\ lastSalt = 0
    /\ sealed = [e \in Endpoint |-> [s \in Salts |-> <<>>]]
    /\ opened = [e \in Endpoint |-> [s \in Salts |-> <<>>]]

-----------------------------------------------------------------------------
(* Reading: NetworkManager::receive_line on e's handle *)

\* The peer's stream has ended: it closed, exited, or the connection was reset.
Ended(e) == ~open[Peer(e)] \/ reset

\* receive_line returns Data: a complete line, or at the end of the stream the
\* bytes that are left, with no newline after them.
HasLine(e) ==
    /\ open[e]
    /\ lines[Peer(e)] # <<>> \/ (tail[Peer(e)] # None /\ Ended(e))

NextLine(e) ==
    IF lines[Peer(e)] # <<>> THEN Head(lines[Peer(e)]) ELSE tail[Peer(e)]

TakeLine(e) ==
    /\ HasLine(e)
    /\ IF lines[Peer(e)] # <<>>
         THEN lines' = [lines EXCEPT ![Peer(e)] = Tail(@)] /\ UNCHANGED tail
         ELSE tail' = [tail EXCEPT ![Peer(e)] = None] /\ UNCHANGED lines

\* receive_line returns Closed.
SeesClosed(e) ==
    open[e] /\ lines[Peer(e)] = <<>> /\ tail[Peer(e)] = None /\ Ended(e)

\* receive_line throws: the handle is closed, or recv fails.
SeesError(e) == ~open[e] \/ (reset /\ lines[Peer(e)] = <<>>)

-----------------------------------------------------------------------------
(* Sealing and opening *)

Seal(s, e, text, counter) ==
    [key |-> s.key, prefix |-> s.sendPrefix, counter |-> counter,
     from |-> e, text |-> text]

\* seal_at and send_line refuse the largest counter.
Exhausted_Off(s) == s.sendCounter > MaxCounter   \* mutant: off by one
Exhausted(s) == s.sendCounter = MaxCounter

\* mutant: any key opens the frame
Authentic_AnyKey(s, e, f) == f.prefix = s.receivePrefix /\ f.from = Peer(e)

\* decrypt_aes_gcm on the nonce and the additional data e's session s expects.
Authentic(s, e, f) ==
    f.key = s.key /\ f.prefix = s.receivePrefix /\ f.from = Peer(e)

\* Impl::open on e's session s accepts the frame f.
Opens(s, e, f) ==
    /\ f.counter = s.receiveCounter
    /\ s.receiveCounter # MaxCounter
    /\ Authentic(s, e, f)

NoteSealed(e, f) == sealed' = [sealed EXCEPT ![e][f.key.salt] = Append(@, f)]
NoteOpened(e, s, f) == opened' = [opened EXCEPT ![e][s.key.salt] = Append(@, f)]

Clear(e) ==
    /\ session' = [session EXCEPT ![e] = None]
    /\ pending' = [pending EXCEPT ![e] = None]

Promote(e, s) ==
    /\ pending' = [pending EXCEPT ![e] = None]
    /\ session' = [session EXCEPT ![e] = s]

-----------------------------------------------------------------------------
(* Writing: send_all *)

StartWriting(e, op, line, next, deadline) ==
    out' = [out EXCEPT ![e] =
              [op |-> op, line |-> line, next |-> next, wrote |-> "nothing",
               short |-> FALSE, deadline |-> deadline]]

\* What the unread stream ends with once e gives up the line it is writing.
Left(e) ==
    IF out[e] = None \/ out[e].wrote = "nothing" THEN tail[e]
    ELSE IF tail[e] = None /\ out[e].wrote = "body" THEN out[e].line
    ELSE Garbage

Writable(e) == out[e] # None /\ open[e] /\ ~reset

\* The last attempt of a send_all: ::send takes all that is left.
WriteRest(e, op) ==
    /\ Writable(e) /\ out[e].op = op
    /\ Len(lines[e]) < Cap
    /\ lines' = [lines EXCEPT ![e] =
                   Append(@, IF tail[e] = None THEN out[e].line ELSE Garbage)]
    /\ tail' = [tail EXCEPT ![e] = None]
    /\ out' = [out EXCEPT ![e] = None]
    /\ UNCHANGED <<open, reset, lastSalt, history>>

\* begin_server_handshake after send_all.
HelloWritten(e) ==
    /\ WriteRest(e, "HELLO")
    /\ pending' = [pending EXCEPT ![e] = out[e].next]
    /\ UNCHANGED session

\* mutant: send_counter stays 0 after the KEY line
KeyWritten_Uncommitted(e) ==
    /\ WriteRest(e, "KEY")
    /\ pending' = [pending EXCEPT ![e] = [out[e].next EXCEPT !.session.sendCounter = 0]]
    /\ UNCHANGED session

\* mutant: the client does not wait for READY
KeyWritten_Early(e) ==
    /\ WriteRest(e, "KEY")
    /\ Promote(e, out[e].next.session)

\* step_client_handshake after send_all: the counter is committed.
KeyWritten(e) ==
    /\ WriteRest(e, "KEY")
    /\ pending' = [pending EXCEPT ![e] = out[e].next]
    /\ UNCHANGED session

\* mutant: send_counter is not incremented after READY
ReadyWritten_Uncommitted(e) ==
    /\ WriteRest(e, "READY")
    /\ Promote(e, out[e].next)

\* step_server_handshake after send_all.
ReadyWritten(e) ==
    /\ WriteRest(e, "READY")
    /\ Promote(e, [out[e].next EXCEPT !.sendCounter = @ + 1])

\* send_line after send_all.
LineWritten(e) ==
    /\ WriteRest(e, "LINE")
    /\ session' = [session EXCEPT ![e].sendCounter = @ + 1]
    /\ UNCHANGED pending

\* An attempt that comes short: ::send takes a part, or nothing, and the buffer
\* is full.
WriteShort(e) ==
    /\ Writable(e)
    /\ Len(lines[e]) + 1 >= Cap
    /\ \E w \in {"nothing", "part", "body"} :
         /\ \/ w = out[e].wrote
            \/ Len(lines[e]) < Cap /\ (out[e].wrote = "nothing" \/ w = "body")
         /\ out' = [out EXCEPT ![e].wrote = w, ![e].short = TRUE]
    /\ UNCHANGED <<channelVars, wireVars, lastSalt, history>>

\* mutant: the session survives a failed send
GiveUp_KeepsSession(e) ==
    /\ pending' = [pending EXCEPT ![e] = None]
    /\ out' = [out EXCEPT ![e] = None]
    /\ tail' = [tail EXCEPT ![e] = IF reset THEN @ ELSE Left(e)]
    /\ UNCHANGED <<session, lines, open, reset, lastSalt, history>>

\* send_all throws.  Every caller then clears the handle.
GiveUp(e) ==
    /\ Clear(e)
    /\ out' = [out EXCEPT ![e] = None]
    /\ tail' = [tail EXCEPT ![e] = IF reset THEN @ ELSE Left(e)]
    /\ UNCHANGED <<lines, open, reset, lastSalt, history>>

\* mutant: every byte written starts the deadline anew
WriteTimesOut_Idle(e) ==
    /\ out[e] # None /\ out[e].short /\ out[e].deadline /\ out[e].wrote = "nothing"
    /\ GiveUp(e)

\* The deadline is looked at after an attempt that came short.
WriteTimesOut(e) ==
    /\ out[e] # None /\ out[e].short /\ out[e].deadline
    /\ GiveUp(e)

\* ::send fails, or the handle is not in the NetworkManager.
WriteFails(e) ==
    /\ out[e] # None
    /\ ~open[e] \/ ~open[Peer(e)] \/ reset
    /\ GiveUp(e)

-----------------------------------------------------------------------------
(* The calls of the API.  An endpoint runs one call at a time. *)

Free(e) == out[e] = None

\* mutant: begin does not clear the socket
BeginClient_KeepsSession(password) ==
    /\ Free(Client)
    /\ pending' = [pending EXCEPT ![Client] =
                     [phase |-> "WaitServerHello", password |-> password]]
    /\ UNCHANGED <<session, out, wireVars, lastSalt, history>>

BeginClient(password) ==
    /\ Free(Client)
    /\ session' = [session EXCEPT ![Client] = None]
    /\ pending' = [pending EXCEPT ![Client] =
                     [phase |-> "WaitServerHello", password |-> password]]
    /\ UNCHANGED <<out, wireVars, lastSalt, history>>

\* The handshake is pending only once HELLO is written.
BeginServer(password, prefix) ==
    /\ Free(Server)
    /\ lastSalt < MaxSalts
    /\ lastSalt' = lastSalt + 1
    /\ Clear(Server)
    /\ StartWriting(Server, "HELLO",
         [type |-> "HELLO", salt |-> lastSalt', prefix |-> prefix],
         [phase |-> "WaitClientKey", password |-> password,
          salt |-> lastSalt', prefix |-> prefix],
         TRUE)
    /\ UNCHANGED <<wireVars, history>>

\* step_client_handshake, phase WaitServerHello, on a line.
ClientStepHello(prefix) ==
    /\ Free(Client)
    /\ pending[Client] \in ServerHelloWait
    /\ TakeLine(Client)
    /\ LET hello == NextLine(Client)
           s == [key |-> [password |-> pending[Client].password, salt |-> hello.salt],
                 sendPrefix |-> prefix, receivePrefix |-> hello.prefix,
                 sendCounter |-> 0, receiveCounter |-> 0]
           auth == Seal(s, Client, "AUTH", 0)
       IN \/ /\ hello.type = "HELLO"
             /\ NoteSealed(Client, auth)
             /\ StartWriting(Client, "KEY",
                  [type |-> "KEY", prefix |-> prefix, sealed |-> auth],
                  [phase |-> "WaitServerReady",
                   session |-> [s EXCEPT !.sendCounter = 1]],
                  TRUE)
             /\ UNCHANGED channelVars
          \/ /\ hello.type # "HELLO"
             /\ Clear(Client)
             /\ UNCHANGED <<out, sealed>>
    /\ UNCHANGED <<open, reset, lastSalt, opened>>

\* step_client_handshake, phase WaitServerReady, on a line.
ClientStepReady ==
    /\ Free(Client)
    /\ pending[Client] \in ServerReadyWait
    /\ TakeLine(Client)
    /\ LET ready == NextLine(Client)
           s == pending[Client].session
           proved == /\ ready.type = "FRAME"
                     /\ Opens(s, Client, ready.sealed)
                     /\ ready.sealed.text = "READY"
       IN \/ /\ proved
             /\ Promote(Client, [s EXCEPT !.receiveCounter = @ + 1])
             /\ NoteOpened(Client, s, ready.sealed)
          \/ /\ ~proved
             /\ Clear(Client)
             /\ UNCHANGED opened
    /\ UNCHANGED <<out, open, reset, lastSalt, sealed>>

\* step_server_handshake on a line.  The session is promoted only once READY is
\* written; until then it is local to the call.
ServerStep ==
    /\ Free(Server)
    /\ pending[Server] \in ClientKeyWait
    /\ TakeLine(Server)
    /\ LET line == NextLine(Server)
           p == pending[Server]
           s == [key |-> [password |-> p.password, salt |-> p.salt],
                 sendPrefix |-> p.prefix, receivePrefix |-> line.prefix,
                 sendCounter |-> 0, receiveCounter |-> 0]
           ready == Seal(s, Server, "READY", s.sendCounter)
           proved == /\ line.type = "KEY"
                     /\ Opens(s, Server, line.sealed)
                     /\ line.sealed.text = "AUTH"
       IN \/ /\ proved
             /\ NoteOpened(Server, s, line.sealed)
             /\ NoteSealed(Server, ready)
             /\ StartWriting(Server, "READY", [type |-> "FRAME", sealed |-> ready],
                             [s EXCEPT !.receiveCounter = @ + 1], TRUE)
             /\ UNCHANGED channelVars
          \/ /\ ~proved
             /\ Clear(Server)
             /\ UNCHANGED <<out, history>>
    /\ UNCHANGED <<open, reset, lastSalt>>

\* Either step on the end of the stream or on an error of receive_line.
StepEnds(e) ==
    /\ Free(e)
    /\ pending[e] # None
    /\ SeesClosed(e) \/ SeesError(e)
    /\ Clear(e)
    /\ UNCHANGED <<out, wireVars, lastSalt, history>>

SendLine(e, text, deadline) ==
    /\ Free(e)
    /\ session[e] # None
    /\ LET s == session[e]
           f == Seal(s, e, text, s.sendCounter)
       IN \/ /\ ~Exhausted(s)
             /\ NoteSealed(e, f)
             /\ StartWriting(e, "LINE", [type |-> "FRAME", sealed |-> f], None, deadline)
             /\ UNCHANGED channelVars
          \/ /\ Exhausted(s)
             /\ Clear(e)
             /\ UNCHANGED <<out, sealed>>
    /\ UNCHANGED <<wireVars, lastSalt, opened>>

\* receive_line on a line.  (On Wait and on an error of the network manager it
\* changes nothing: the session stays.)
ReceiveLine(e) ==
    /\ Free(e)
    /\ session[e] # None
    /\ TakeLine(e)
    /\ LET line == NextLine(e)
           valid == line.type = "FRAME" /\ Opens(session[e], e, line.sealed)
       IN \/ /\ valid
             /\ session' = [session EXCEPT ![e].receiveCounter = @ + 1]
             /\ NoteOpened(e, session[e], line.sealed)
             /\ UNCHANGED pending
          \/ /\ ~valid
             /\ Clear(e)
             /\ UNCHANGED opened
    /\ UNCHANGED <<out, open, reset, lastSalt, sealed>>

\* receive_line at the end of the stream.
ReceiveClosed(e) ==
    /\ Free(e)
    /\ session[e] # None
    /\ SeesClosed(e)
    /\ Clear(e)
    /\ UNCHANGED <<out, wireVars, lastSalt, history>>

\* netSecureForget, and the builtins that call forget when a call failed: a
\* blocking handshake whose deadline passed, a begin with an empty password, a
\* netSecureSendLine without a session.
Forget(e) ==
    /\ Free(e)
    /\ Clear(e)
    /\ UNCHANGED <<out, wireVars, lastSalt, history>>

-----------------------------------------------------------------------------
(* The end of a connection *)

\* netClose erases the handle; the secure channel is not told.
Close(e) ==
    /\ Free(e) /\ open[e]
    /\ open' = [open EXCEPT ![e] = FALSE]
    /\ UNCHANGED <<channelVars, out, lines, tail, reset, lastSalt, history>>

\* The process exits, in the middle of a call or between two.
Crash(e) ==
    /\ open[e]
    /\ open' = [open EXCEPT ![e] = FALSE]
    /\ Clear(e)
    /\ out' = [out EXCEPT ![e] = None]
    /\ tail' = [tail EXCEPT ![e] = IF reset THEN @ ELSE Left(e)]
    /\ UNCHANGED <<lines, reset, lastSalt, history>>

\* The connection is reset: of what either endpoint has written, n complete
\* lines and a piece of the next still arrive.
Remains(e, n) ==
    IF n < Len(lines[e]) THEN {None, Garbage, lines[e][n + 1]}
    ELSE IF Left(e) = None THEN {None} ELSE {None, Garbage, Left(e)}

Reset ==
    /\ ~reset
    /\ reset' = TRUE
    /\ \E nc \in 0..Len(lines[Client]), ns \in 0..Len(lines[Server]) :
         /\ lines' = [e \in Endpoint |->
                        SubSeq(lines[e], 1, IF e = Client THEN nc ELSE ns)]
         /\ \E tc \in Remains(Client, nc), ts \in Remains(Server, ns) :
              tail' = [e \in Endpoint |-> IF e = Client THEN tc ELSE ts]
    /\ UNCHANGED <<channelVars, out, open, lastSalt, history>>

-----------------------------------------------------------------------------

Write(e) ==
    \/ HelloWritten(e) \/ KeyWritten(e) \/ ReadyWritten(e) \/ LineWritten(e)

Step(e) ==
    \/ e = Client /\ \E x \in Prefixes : ClientStepHello(x)
    \/ e = Client /\ ClientStepReady
    \/ e = Server /\ ServerStep
    \/ StepEnds(e)

Next ==
    \/ \E w \in Passwords : BeginClient(w)
    \/ \E w \in Passwords, x \in Prefixes : BeginServer(w, x)
    \/ \E e \in Endpoint :
         \/ Step(e)
         \/ Write(e) \/ WriteShort(e) \/ WriteTimesOut(e) \/ WriteFails(e)
         \/ \E t \in Texts, d \in BOOLEAN : SendLine(e, t, d)
         \/ ReceiveLine(e) \/ ReceiveClosed(e)
         \/ Forget(e) \/ Close(e) \/ Crash(e)
    \/ Reset

Spec == Init /\ [][Next]_vars

\* A call makes its first attempt, its clock reaches the deadline, and a ::send
\* on a dead connection fails.  No attempt after one that came short need ever
\* succeed: that is up to the peer.
FirstAttempt(e) == out[e] # None /\ ~out[e].short /\ (Write(e) \/ WriteShort(e))

WritingFairness ==
    \A e \in Endpoint : /\ WF_vars(FirstAttempt(e))
                        /\ WF_vars(WriteTimesOut(e))
                        /\ WF_vars(WriteFails(e))

FairSpec == Spec /\ WritingFairness

-----------------------------------------------------------------------------
(* Safety *)

\* Under one salt an endpoint seals with the counters 0, 1, 2, ... and each of
\* them once, also when a send fails half-way or times out and another send or
\* another handshake follows: no key and nonce seal two texts.
NonceNeverReused ==
    \A e \in Endpoint, s \in Salts :
        \A i \in DOMAIN sealed[e][s] : sealed[e][s][i].counter = i - 1

\* What an endpoint opened under a salt is a prefix of what the other sealed
\* under it, with the same key and nonces: no frame is skipped, opened twice,
\* reordered, or taken from an earlier handshake on the same socket.
OpenedInOrder ==
    \A e \in Endpoint, s \in Salts :
        /\ Len(opened[e][s]) <= Len(sealed[Peer(e)][s])
        /\ \A i \in DOMAIN opened[e][s] : opened[e][s][i] = sealed[Peer(e)][s][i]

\* An endpoint with a session has the other's proof, made with the same
\* password under the same salt, and has no handshake pending; a client with a
\* session knows that the server accepted its proof.
SessionIsProved ==
    \A e \in Endpoint : session[e] # None =>
        LET k == session[e].key
        IN /\ pending[e] = None
           /\ opened[e][k.salt] # <<>>
           /\ \A f \in Range(sealed[Peer(e)][k.salt]) : f.key = k
           /\ e = Client => opened[Server][k.salt] # <<>>

\* "Partial or failed send leaves the peer in an unknown state -- kill the
\* session": while a line that a call gave up, or what it corrupted, is still to
\* be read from an endpoint's stream, that endpoint has no session, not even a
\* new one.  (A reset cuts streams too, but ends them.)
CutStreamHasNoSession ==
    \A e \in Endpoint :
        ~reset /\ (tail[e] # None \/ Garbage \in Range(lines[e])) => session[e] = None

-----------------------------------------------------------------------------
(* Why: the invariant that every step preserves, in parts *)

Unused(e, s) == sealed[e][s] = <<>> /\ opened[e][s] = <<>>

\* The counters of a session are the numbers of frames sealed and opened under
\* its salt, n sealed ones not yet committed.
InSync(e, s, n) ==
    /\ s \in Session
    /\ s.key.salt <= lastSalt
    /\ sealed[e][s.key.salt] # <<>>
    /\ Len(sealed[e][s.key.salt]) = s.sendCounter + n
    /\ Len(opened[e][s.key.salt]) = s.receiveCounter

FreshKeyWait(e, p) == p \in ClientKeyWait /\ p.salt <= lastSalt /\ Unused(e, p.salt)
SyncReadyWait(e, p) == p \in ServerReadyWait /\ InSync(e, p.session, 0)

SaltsInv == \A e \in Endpoint, s \in Salts : s > lastSalt => Unused(e, s)

\* Between calls.
RestInv ==
    \A e \in Endpoint : out[e] = None =>
        /\ session[e] # None => pending[e] = None /\ InSync(e, session[e], 0)
        /\ pending[e] # None => \/ pending[e] \in ServerHelloWait
                                \/ FreshKeyWait(e, pending[e])
                                \/ SyncReadyWait(e, pending[e])

\* In a call: what it will do once its line is written keeps RestInv.
CallInv ==
    \A e \in Endpoint : out[e] # None =>
        /\ out[e].op \in {"HELLO", "KEY", "READY"} => session[e] = None
        /\ out[e].op = "HELLO" => FreshKeyWait(e, out[e].next)
        /\ out[e].op = "KEY" => SyncReadyWait(e, out[e].next)
        /\ out[e].op = "READY" => /\ InSync(e, out[e].next, 1)
                                  /\ out[e].next.sendCounter < MaxCounter
        /\ out[e].op = "LINE" => /\ pending[e] = None
                                 /\ InSync(e, session[e], 1)
                                 /\ session[e].sendCounter < MaxCounter

\* A sealed frame on its way is the one its sender sealed with its counter.
Genuine(e, line) ==
    line # None /\ line.type \in {"KEY", "FRAME"} =>
        LET f == line.sealed
        IN /\ f.from = e
           /\ f.counter < Len(sealed[e][f.key.salt])
           /\ sealed[e][f.key.salt][f.counter + 1] = f

WireInv ==
    \A e \in Endpoint :
        /\ \A i \in DOMAIN lines[e] : Genuine(e, lines[e][i])
        /\ Genuine(e, tail[e])
        /\ out[e] # None => Genuine(e, out[e].line)

\* The HELLOs among the lines q, the tail t and the line o being written carry
\* different salts, all of them in the set fresh.
IsHello(line) == line # None /\ line.type = "HELLO"
Fresh(fresh, line) == IsHello(line) => line.salt \in fresh
Differ(l, m) == IsHello(l) /\ IsHello(m) => l.salt # m.salt
Apart(fresh, q, t, o) ==
    /\ \A i \in DOMAIN q :
         /\ Fresh(fresh, q[i]) /\ Differ(q[i], t) /\ Differ(q[i], o)
         /\ \A j \in DOMAIN q : i # j => Differ(q[i], q[j])
    /\ Fresh(fresh, t) /\ Fresh(fresh, o) /\ Differ(t, o)

FreshSalts == {s \in Salts : s <= lastSalt /\ Unused(Client, s)}

\* What the server is writing and may still arrive.
Coming == IF out[Server] # None /\ ~reset THEN out[Server].line ELSE None

\* A HELLO on its way carries a salt the client has not used, and no other HELLO
\* on its way carries it too.
HelloInv == Apart(FreshSalts, lines[Server], tail[Server], Coming)

\* NonceNeverReused and OpenedInOrder hold because the counters of a session
\* count its frames, because a salt is used for one handshake of each endpoint,
\* and because what is on the wire was sealed by its sender.
Inductive ==
    /\ TypeOK /\ SaltsInv /\ RestInv /\ CallInv /\ WireInv /\ HelloInv
    /\ NonceNeverReused /\ OpenedInOrder

\* Why SessionIsProved holds.  The frames sealed under a salt have one key; the
\* server seals only after it has opened a proof; what follows an endpoint's
\* first frame is application text; and a session that another frame will be
\* sealed or opened with has the key of the frames before it.
SaltHasOneKey ==
    \A s \in Salts : \A d, e \in Endpoint :
        \A f \in Range(sealed[d][s]), g \in Range(sealed[e][s]) : f.key = g.key

ProofsAnswered ==
    \A s \in Salts : sealed[Server][s] # <<>> => opened[Server][s] # <<>>

ProofsFirst ==
    \A e \in Endpoint, s \in Salts :
        \A i \in DOMAIN sealed[e][s] : i > 1 => sealed[e][s][i].text \in Texts

Keyed(e, s) == \A f \in Range(sealed[e][s.key.salt]) : f.key = s.key
Proving(e, s) == Keyed(e, s) /\ s.receiveCounter = 0
Proved(e, s) == Keyed(e, s) /\ s.receiveCounter > 0

KeysInv ==
    \A e \in Endpoint :
        /\ session[e] # None => Proved(e, session[e])
        /\ pending[e] \in ServerReadyWait => Proving(e, pending[e].session)
        /\ out[e] # None =>
             /\ out[e].op = "KEY" => Proving(e, out[e].next.session)
             /\ out[e].op = "READY" => Proved(e, out[e].next)

\* Why CutStreamHasNoSession holds.  The line that announces a salt, HELLO from
\* the server and KEY from the client, is read before a session under that salt
\* can come to be; so what its sender cut before it was read as well, and a line
\* cut after it ended the handshake.
Announces(e, line, s) ==
    /\ line # None
    /\ IF e = Server THEN line.type = "HELLO" /\ line.salt = s
                     ELSE line.type = "KEY" /\ line.sealed.key.salt = s

\* The peer has read the line of e that announces s.
Heard(e, s) ==
    IF e = Server THEN sealed[Client][s] # <<>> ELSE opened[Server][s] # <<>>

Clean(e) == tail[e] = None /\ Garbage \notin Range(lines[e])

\* e has written the line that announces s,
Announced(e, s) ==
    /\ tail[e] = None
    /\ Heard(e, s) => Clean(e)
    /\ \A i, j \in DOMAIN lines[e] :
         Announces(e, lines[e][i], s) /\ i < j => lines[e][j] # Garbage

\* ... or is still writing it.
Unannounced(e, s) ==
    /\ ~Heard(e, s)
    /\ ~Announces(e, tail[e], s)
    /\ \A i \in DOMAIN lines[e] : ~Announces(e, lines[e][i], s)

Uncut(e) ==
    /\ session[e] # None => Clean(e)
    /\ pending[e] \in ClientKeyWait => Announced(e, pending[e].salt)
    /\ pending[e] \in ServerReadyWait => Announced(e, pending[e].session.key.salt)
    /\ out[e] # None =>
         /\ out[e].line # Garbage
         /\ out[e].op = "HELLO" => Unannounced(e, out[e].next.salt)
         /\ out[e].op = "KEY" => Unannounced(e, out[e].next.session.key.salt)
         /\ out[e].op = "READY" => Clean(e)

UncutInv == ~reset => \A e \in Endpoint : Uncut(e)

Trusted ==
    /\ Inductive
    /\ SaltHasOneKey /\ ProofsAnswered /\ ProofsFirst /\ KeysInv /\ UncutInv

-----------------------------------------------------------------------------
(* The abstract specification, progress, and what the header says *)

\* The channel implements SecureLink: an epoch is a salt, a post is a seal.
TextsOf(h) == [e \in Endpoint |-> [s \in Salts |->
                 [i \in DOMAIN h[e][s] |-> h[e][s][i].text]]]

Link == INSTANCE SecureLink WITH
            Epochs <- Salts, posted <- TextsOf(sealed), accepted <- TextsOf(opened)

ImplementsLink == Link!Spec

\* A call with a deadline returns, whatever part of its line was written and also
\* when the peer never reads again because it is in a send_all of its own.
CallsReturn ==
    \A e \in Endpoint : (out[e] # None /\ out[e].deadline) ~> out[e] = None

\* secure_channel.h on the step functions: they advance "without blocking the
\* caller for more than a non-blocking receive/send attempt".  So a step whose
\* attempt came short does not try again.
StepMakesOneAttempt ==
    [][\A e \in Endpoint :
          (out[e] # None /\ out[e].op \in {"KEY", "READY"} /\ out[e].short)
              => ~Write(e)]_vars

=============================================================================
