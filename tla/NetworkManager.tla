--------------------------- MODULE NetworkManager ---------------------------
(***************************************************************************)
(* NetworkManager: the TCP sockets of one Chompo program, by handle.       *)
(*                                                                         *)
(* The program has one thread and makes one call at a time, but the other  *)
(* ends of its connections and the kernel do not wait for it: bytes arrive *)
(* and connections end between two system calls of the same call.  So      *)
(* receive_line and send_all, which loop around recv and send, take one    *)
(* action per system call, and every other operation is one action.        *)
(*                                                                         *)
(* A byte is a letter, CR or LF.  Names are resolved, sockets created and  *)
(* made non-blocking without failing; listen uses one port.                *)
(***************************************************************************)
EXTENDS Integers, Sequences, FiniteSets

CONSTANTS
    Conns,        \* TCP connections that come about
    Letters,      \* the bytes that are neither CR nor LF
    CR, LF,
    MaxBuffered,  \* MaxBufferedLine, 1 MiB in the code
    Chunk,        \* the size of receive_line's buffer, 4096 in the code
    SendBuffer,   \* bytes the kernel holds per connection for the other end
    Backlog,      \* backlog of listen
    None,
    MaxHandle,    \* bounds the handles given out
    MaxBytes,     \* bounds the bytes the other end of a connection sends
    MaxSend       \* bounds the length of the data of one send_all

Byte == Letters \cup {CR, LF}
Handle == 1..MaxHandle

ASSUME ConstantsAssumption ==
    /\ CR # LF /\ {CR, LF} \cap Letters = {}
    /\ MaxBuffered \in Nat \ {0} /\ Chunk \in Nat \ {0} /\ SendBuffer \in Nat \ {0}
    /\ Backlog \in Nat \ {0}
    /\ MaxHandle \in Nat /\ MaxBytes \in Nat /\ MaxSend \in Nat

Entry == [socket : Conns \cup {None}, kind : {"Listener", "Stream"},
          line_buffer : Seq(Byte), peer_closed : BOOLEAN]

VARIABLES
    entries,      \* Impl::entries, a function on the handles in use
    next_handle,  \* Impl::next_handle
    queue,        \* the listener's accept queue
    wire,         \* received by the kernel, not yet by the program
    far,          \* the other end of a connection: none, open, closed, reset, or
                  \* failed: reset, and recv has reported it
    unsent,       \* bytes sent that the other end has not taken
    call,         \* the receive_line or send_all in progress, or None
    result,       \* what the last call returned
    arrived,      \* history: all bytes the other end has sent
    taken,        \* history: all bytes that calls returned or stripped
    lines,        \* history: what receive_line returned as Data, in order
    raw           \* history: the connections on which receive was used

kernel == <<queue, wire, far, unsent>>
history == <<arrived, taken, lines, raw>>
vars == <<entries, next_handle, kernel, call, result, history>>

Result == [handle : Handle, status : {"data", "wait", "closed", "error"}, data : Seq(Byte)]
     \cup [handle : Handle, status : {"sent", "timeout", "send failed"},
           total : Nat, written : Nat]
Call == [op : {"line"}, handle : Handle]
   \cup [op : {"send"}, handle : Handle, size : Nat, total : Nat, sent : Nat,
         deadline : BOOLEAN, short : BOOLEAN, written : Nat]

TypeOK ==
    /\ DOMAIN entries \subseteq Handle
    /\ \A h \in DOMAIN entries : entries[h] \in Entry
    /\ next_handle \in 1..MaxHandle + 1
    /\ queue \in Seq(Conns)
    /\ wire \in [Conns -> Seq(Byte)]
    /\ far \in [Conns -> {"none", "open", "closed", "reset", "failed"}]
    /\ unsent \in [Conns -> 0..SendBuffer]
    /\ call \in Call \cup {None}
    /\ result \in Result \cup {None}
    /\ arrived \in [Conns -> Seq(Byte)] /\ taken \in [Conns -> Seq(Byte)]
    /\ lines \in [Conns -> Seq(Seq(Byte))] /\ raw \subseteq Conns

Init ==
    /\ entries = <<>> /\ next_handle = 1
    /\ queue = <<>>
    /\ wire = [c \in Conns |-> <<>>]
    /\ far = [c \in Conns |-> "none"]
    /\ unsent = [c \in Conns |-> 0]
    /\ call = None /\ result = None
    /\ arrived = [c \in Conns |-> <<>>] /\ taken = [c \in Conns |-> <<>>]
    /\ lines = [c \in Conns |-> <<>>] /\ raw = {}

-----------------------------------------------------------------------------
(* Handles *)

Listeners == {h \in DOMAIN entries : entries[h].kind = "Listener"}
Streams == {h \in DOMAIN entries : entries[h].kind = "Stream"}
Socket(h) == entries[h].socket
Idle == call = None

NewEntry(h, c, kind) ==
    [g \in DOMAIN entries \cup {h} |->
        IF g = h THEN [socket |-> c, kind |-> kind, line_buffer |-> <<>>, peer_closed |-> FALSE]
        ELSE entries[g]]

\* mutant: the lowest free number is given out
Add_LowestFree(c, kind) ==
    LET h == CHOOSE n \in 1..MaxHandle + 1 :
                n \notin DOMAIN entries /\ \A m \in 1..n - 1 : m \in DOMAIN entries
    IN /\ h <= MaxHandle
       /\ next_handle' = h
       /\ entries' = NewEntry(h, c, kind)

\* add: handles are given out in order and never again.
Add(c, kind) ==
    /\ next_handle <= MaxHandle
    /\ next_handle' = next_handle + 1
    /\ entries' = NewEntry(next_handle, c, kind)

\* A second listener on the port fails to bind.
Listen ==
    /\ Idle /\ Listeners = {}
    /\ Add(None, "Listener")
    /\ UNCHANGED <<kernel, call, result, history>>

Connect(c) ==
    /\ Idle /\ far[c] = "none"
    /\ Add(c, "Stream")
    /\ far' = [far EXCEPT ![c] = "open"]
    /\ UNCHANGED <<queue, wire, unsent, call, result, history>>

\* (On an empty queue accept returns NULL and changes nothing.)
Accept(h) ==
    /\ Idle /\ h \in Listeners /\ queue # <<>>
    /\ Add(Head(queue), "Stream")
    /\ queue' = Tail(queue)
    /\ UNCHANGED <<wire, far, unsent, call, result, history>>

\* The connections nobody accepted end with their listener.
Close(h) ==
    /\ Idle /\ h \in DOMAIN entries
    /\ entries' = [g \in DOMAIN entries \ {h} |-> entries[g]]
    /\ IF h \in Listeners
         THEN /\ queue' = <<>>
              /\ far' = [c \in Conns |-> IF \E i \in DOMAIN queue : queue[i] = c
                                          THEN "reset" ELSE far[c]]
         ELSE UNCHANGED <<queue, far>>
    /\ UNCHANGED <<next_handle, wire, unsent, call, result, history>>

-----------------------------------------------------------------------------
(* receive_line *)

Shorter(m, n) == IF m < n THEN m ELSE n
HasLF(b) == \E i \in DOMAIN b : b[i] = LF
FirstLF(b) == CHOOSE i \in DOMAIN b : b[i] = LF /\ \A j \in 1..i - 1 : b[j] # LF

\* One CR before the newline goes with it.
StripCR(line) ==
    IF line # <<>> /\ line[Len(line)] = CR THEN SubSeq(line, 1, Len(line) - 1) ELSE line

Returns(h, status, data) ==
    result' = [handle |-> h, status |-> status, data |-> data]

SetEntry(h, buffer, closed) ==
    entries' = [entries EXCEPT ![h].line_buffer = buffer, ![h].peer_closed = closed]

\* The call returns Data: line is what is left of the first n bytes of b.
ReturnLine(h, b, n, line, closed) ==
    LET c == Socket(h)
    IN /\ SetEntry(h, SubSeq(b, n + 1, Len(b)), closed)
       /\ taken' = [taken EXCEPT ![c] = @ \o SubSeq(b, 1, n)]
       /\ lines' = [lines EXCEPT ![c] = Append(@, line)]
       /\ Returns(h, "data", line)
       /\ call' = None
       /\ UNCHANGED <<arrived, raw>>

\* mutant: the last newline ends the line
ExtractLine_Last(h, b) ==
    LET n == CHOOSE i \in DOMAIN b : b[i] = LF /\ \A j \in i + 1..Len(b) : b[j] # LF
    IN ReturnLine(h, b, n, StripCR(SubSeq(b, 1, n - 1)), entries[h].peer_closed)

ExtractLine(h, b) ==
    LET n == FirstLF(b)
    IN ReturnLine(h, b, n, StripCR(SubSeq(b, 1, n - 1)), entries[h].peer_closed)

\* mutant: a CR goes with the end as it goes with a newline
ReturnEnd_Strips(h) ==
    LET b == entries[h].line_buffer
    IN \/ b # <<>> /\ ReturnLine(h, b, Len(b), StripCR(b), TRUE)
       \/ /\ b = <<>>
          /\ SetEntry(h, <<>>, TRUE)
          /\ Returns(h, "closed", <<>>)
          /\ call' = None
          /\ UNCHANGED history

\* mutant: what is left without a newline goes with the end
ReturnEnd_Drops(h) ==
    /\ SetEntry(h, <<>>, TRUE)
    /\ Returns(h, "closed", <<>>)
    /\ call' = None
    /\ UNCHANGED history

\* At the end of the stream: Closed, or Data when a line without newline is left.
ReturnEnd(h) ==
    LET b == entries[h].line_buffer
    IN \/ /\ b # <<>>
          /\ ReturnLine(h, b, Len(b), b, TRUE)
       \/ /\ b = <<>>
          /\ SetEntry(h, <<>>, TRUE)
          /\ Returns(h, "closed", <<>>)
          /\ call' = None
          /\ UNCHANGED history

\* mutant: recv comes before what is in the line buffer
ReceiveLine_RecvFirst(h) ==
    /\ Idle /\ h \in Streams
    /\ \/ entries[h].peer_closed /\ ReturnEnd(h)
       \/ /\ ~entries[h].peer_closed
          /\ call' = [op |-> "line", handle |-> h]
          /\ UNCHANGED <<entries, result, history>>
    /\ UNCHANGED <<next_handle, kernel>>

\* The part of receive_line before its loop.
ReceiveLine(h) ==
    /\ Idle /\ h \in Streams
    /\ LET b == entries[h].line_buffer
       IN \/ HasLF(b) /\ ExtractLine(h, b)
          \/ ~HasLF(b) /\ entries[h].peer_closed /\ ReturnEnd(h)
          \/ /\ ~HasLF(b) /\ ~entries[h].peer_closed
             /\ call' = [op |-> "line", handle |-> h]
             /\ UNCHANGED <<entries, result, history>>
    /\ UNCHANGED <<next_handle, kernel>>

Reading(h) == call # None /\ call.op = "line" /\ call.handle = h

\* recv returns bytes.  What is over the limit stays in the line buffer.
RecvBytes(h) ==
    /\ Reading(h) /\ wire[Socket(h)] # <<>>
    /\ LET w == wire[Socket(h)]
           n == Shorter(Chunk, Len(w))
           b == entries[h].line_buffer \o SubSeq(w, 1, n)
       IN /\ wire' = [wire EXCEPT ![Socket(h)] = SubSeq(w, n + 1, Len(w))]
          /\ \/ /\ Len(b) > MaxBuffered
                /\ SetEntry(h, b, FALSE)
                /\ Returns(h, "error", <<>>)
                /\ call' = None
                /\ UNCHANGED history
             \/ Len(b) <= MaxBuffered /\ HasLF(b) /\ ExtractLine(h, b)
             \/ /\ Len(b) <= MaxBuffered /\ ~HasLF(b)
                /\ SetEntry(h, b, FALSE)
                /\ UNCHANGED <<call, result, history>>
    /\ UNCHANGED <<next_handle, queue, far, unsent>>

\* recv returns 0: the other end has closed, or its reset has been reported.
RecvEnd(h) ==
    /\ Reading(h) /\ wire[Socket(h)] = <<>> /\ far[Socket(h)] \in {"closed", "failed"}
    /\ ReturnEnd(h)
    /\ UNCHANGED <<next_handle, kernel>>

\* recv would block.
RecvWait(h) ==
    /\ Reading(h) /\ wire[Socket(h)] = <<>> /\ far[Socket(h)] = "open"
    /\ Returns(h, "wait", <<>>)
    /\ call' = None
    /\ UNCHANGED <<entries, next_handle, kernel, history>>

\* recv reports the reset of the connection, once: after it comes the end.
RecvError(h) ==
    /\ Reading(h) /\ wire[Socket(h)] = <<>> /\ far[Socket(h)] = "reset"
    /\ far' = [far EXCEPT ![Socket(h)] = "failed"]
    /\ Returns(h, "error", <<>>)
    /\ call' = None
    /\ UNCHANGED <<entries, next_handle, queue, wire, unsent, history>>

-----------------------------------------------------------------------------
(* receive: the line buffer first, else one recv of at most max bytes *)

ReturnBytes(h, b) ==
    /\ taken' = [taken EXCEPT ![Socket(h)] = @ \o b]
    /\ Returns(h, "data", b)

Receive(h, max) ==
    /\ Idle /\ h \in Streams
    /\ LET b == entries[h].line_buffer
           w == wire[Socket(h)]
           n == Shorter(max, Len(b))
           m == Shorter(max, Len(w))
       IN \/ /\ b # <<>>
             /\ ReturnBytes(h, SubSeq(b, 1, n))
             /\ SetEntry(h, SubSeq(b, n + 1, Len(b)), entries[h].peer_closed)
             /\ UNCHANGED <<wire, far>>
          \/ /\ b = <<>> /\ ~entries[h].peer_closed /\ w # <<>>
             /\ ReturnBytes(h, SubSeq(w, 1, m))
             /\ wire' = [wire EXCEPT ![Socket(h)] = SubSeq(w, m + 1, Len(w))]
             /\ UNCHANGED <<entries, far>>
          \/ /\ b = <<>>
             /\ \/ entries[h].peer_closed
                \/ w = <<>> /\ far[Socket(h)] \in {"closed", "failed"}
             /\ SetEntry(h, <<>>, TRUE)
             /\ Returns(h, "closed", <<>>)
             /\ UNCHANGED <<wire, far, taken>>
          \/ /\ b = <<>> /\ ~entries[h].peer_closed /\ w = <<>> /\ far[Socket(h)] = "reset"
             /\ far' = [far EXCEPT ![Socket(h)] = "failed"]
             /\ Returns(h, "error", <<>>)
             /\ UNCHANGED <<entries, wire, taken>>
          \/ /\ b = <<>> /\ ~entries[h].peer_closed /\ w = <<>> /\ far[Socket(h)] = "open"
             /\ Returns(h, "wait", <<>>)
             /\ UNCHANGED <<entries, wire, far, taken>>
    /\ raw' = raw \cup {Socket(h)}
    /\ UNCHANGED <<next_handle, queue, unsent, call, arrived, lines>>

-----------------------------------------------------------------------------
(* netSendAll: send_all around NetworkManager::send, itself a loop around     *)
(* ::send.  (written is history: the bytes ::send took in this call.)         *)

SendAll(h, size, deadline) ==
    /\ Idle /\ h \in Streams
    /\ call' = [op |-> "send", handle |-> h, size |-> size, total |-> 0, sent |-> 0,
                deadline |-> deadline, short |-> FALSE, written |-> 0]
    /\ UNCHANGED <<entries, next_handle, kernel, result, history>>

Sending(h) == call # None /\ call.op = "send" /\ call.handle = h

EndSend(h, status, total) ==
    /\ result' = [handle |-> h, status |-> status, total |-> total,
                  written |-> call.written]
    /\ call' = None

\* ::send takes n bytes.  To a closed end they are written in vain.
SendBytes(h, n) ==
    /\ Sending(h) /\ far[Socket(h)] \in {"open", "closed", "failed"}
    /\ call.total + call.sent + n <= call.size
    /\ unsent[Socket(h)] + n <= SendBuffer
    /\ unsent' = [unsent EXCEPT ![Socket(h)] = @ + n]
    /\ call' = [call EXCEPT !.sent = @ + n, !.written = @ + n, !.short = FALSE]
    /\ UNCHANGED <<entries, next_handle, queue, wire, far, result, history>>

SendDone(h) ==
    /\ Sending(h) /\ call.total + call.sent = call.size
    /\ EndSend(h, "sent", call.total + call.sent)
    /\ UNCHANGED <<entries, next_handle, kernel, history>>

\* mutant: what was added to the total is counted again
SendWouldBlock_KeepsSent(h) ==
    /\ Sending(h) /\ call.total + call.sent < call.size
    /\ unsent[Socket(h)] = SendBuffer
    /\ call' = [call EXCEPT !.total = @ + call.sent, !.short = TRUE]
    /\ UNCHANGED <<entries, next_handle, kernel, result, history>>

\* ::send would block: NetworkManager::send returns what it wrote, which is
\* added to the total, and the deadline is looked at.
SendWouldBlock(h) ==
    /\ Sending(h) /\ call.total + call.sent < call.size
    /\ unsent[Socket(h)] = SendBuffer
    /\ call' = [call EXCEPT !.total = @ + call.sent, !.sent = 0, !.short = TRUE]
    /\ UNCHANGED <<entries, next_handle, kernel, result, history>>

SendTimesOut(h) ==
    /\ Sending(h) /\ call.short /\ call.deadline
    /\ EndSend(h, "timeout", call.total)
    /\ UNCHANGED <<entries, next_handle, kernel, history>>

\* ::send fails: what this NetworkManager::send had written is not counted.
SendFails(h) ==
    /\ Sending(h) /\ call.total + call.sent < call.size
    /\ far[Socket(h)] \in {"closed", "reset", "failed"}
    /\ EndSend(h, "send failed", call.total)
    /\ UNCHANGED <<entries, next_handle, kernel, history>>

-----------------------------------------------------------------------------
(* The other end of a connection, and the kernel *)

FarConnects(c) ==
    /\ far[c] = "none" /\ Listeners # {} /\ Len(queue) < Backlog
    /\ far' = [far EXCEPT ![c] = "open"]
    /\ queue' = Append(queue, c)
    /\ UNCHANGED <<entries, next_handle, wire, unsent, call, result, history>>

FarSends(c, b) ==
    /\ far[c] = "open" /\ Len(arrived[c]) < MaxBytes
    /\ wire' = [wire EXCEPT ![c] = Append(@, b)]
    /\ arrived' = [arrived EXCEPT ![c] = Append(@, b)]
    /\ UNCHANGED <<entries, next_handle, queue, far, unsent, call, result, taken, lines, raw>>

FarReads(c) ==
    /\ unsent[c] > 0
    /\ unsent' = [unsent EXCEPT ![c] = 0]
    /\ UNCHANGED <<entries, next_handle, queue, wire, far, call, result, history>>

FarCloses(c) ==
    /\ far[c] = "open"
    /\ far' = [far EXCEPT ![c] = "closed"]
    /\ UNCHANGED <<entries, next_handle, queue, wire, unsent, call, result, history>>

\* Some systems drop what has arrived when a connection is reset, some keep it.
FarResets(c) ==
    /\ far[c] = "open"
    /\ far' = [far EXCEPT ![c] = "reset"]
    /\ \E w \in {wire[c], <<>>} : wire' = [wire EXCEPT ![c] = w]
    /\ UNCHANGED <<entries, next_handle, queue, unsent, call, result, history>>

Far ==
    \E c \in Conns : \/ FarConnects(c) \/ FarReads(c) \/ FarCloses(c) \/ FarResets(c)
                     \/ \E b \in Byte : FarSends(c, b)

ReceiveSystemCall(h) == RecvBytes(h) \/ RecvEnd(h) \/ RecvWait(h) \/ RecvError(h)

SendSystemCall(h) ==
    \/ \E n \in 1..MaxSend : SendBytes(h, n)
    \/ SendDone(h) \/ SendWouldBlock(h) \/ SendTimesOut(h) \/ SendFails(h)

Next ==
    \/ Listen
    \/ \E c \in Conns : Connect(c)
    \/ \E h \in Handle : \/ Accept(h) \/ Close(h)
                         \/ ReceiveLine(h) \/ ReceiveSystemCall(h)
                         \/ \E max \in 1..2 : Receive(h, max)
                         \/ \E n \in 1..MaxSend, d \in BOOLEAN : SendAll(h, n, d)
                         \/ SendSystemCall(h)
    \/ Far

Spec == Init /\ [][Next]_vars

-----------------------------------------------------------------------------
(* Properties *)

\* No byte is lost, repeated or moved between the other end and the program:
\* what the calls took, what the line buffer holds and what the kernel holds is
\* together what was sent.  A connection that ends in order loses nothing, the last
\* line without a newline included; of one that is reset the end may be missing.
BytesAccounted ==
    \A h \in Streams :
        LET c == Socket(h)
            seen == taken[c] \o entries[h].line_buffer \o wire[c]
        IN /\ Len(seen) <= Len(arrived[c])
           /\ seen = SubSeq(arrived[c], 1, Len(seen))
           /\ far[c] \notin {"reset", "failed"} => Len(seen) = Len(arrived[c])

\* The lines of a byte string, read byte by byte: a newline ends a line, which
\* loses one CR, and what is left at the end is a line unless it is empty.
Feed(reader, b) ==
    IF b = LF THEN [lines |-> Append(reader.lines, StripCR(reader.rest)), rest |-> <<>>]
    ELSE [lines |-> reader.lines, rest |-> Append(reader.rest, b)]

Fed(bytes) ==
    LET fed[n \in 0..Len(bytes)] ==
          IF n = 0 THEN [lines |-> <<>>, rest |-> <<>>] ELSE Feed(fed[n - 1], bytes[n])
    IN fed[Len(bytes)]

LinesOf(bytes) ==
    LET all == Fed(bytes)
    IN IF all.rest = <<>> THEN all.lines ELSE Append(all.lines, all.rest)

\* However the bytes arrive, and whatever happens between two of them, the
\* lines that receive_line returned are those of the bytes taken: cut at each
\* newline and nowhere else.
LinesAsSent ==
    \A c \in Conns \ raw : lines[c] = LinesOf(taken[c])

LineStreams == INSTANCE LineStream
    WITH sent <- arrived, ended <- {c \in Conns : far[c] \in {"closed", "reset", "failed"}}

\* Every call of receive and receive_line takes the next bytes of what was sent,
\* and a line ends at the next newline, also when the two are used in turn.
ImplementsLineStream == LineStreams!Spec

\* A handle that was closed is never in use again: the handles in use have been
\* given out, nothing is taken back, and what comes into use has not been given
\* out.  A program that keeps a handle by mistake gets an error, not another
\* client's connection.
HandlesAreNotReused ==
    [][/\ next_handle <= next_handle'
       /\ \A h \in DOMAIN entries' :
            /\ h < next_handle'
            /\ \/ h \in DOMAIN entries /\ entries'[h].socket = Socket(h)
               \/ next_handle <= h]_vars

\* netSendAll reports the bytes that were written, and when ::send fails not
\* more than those; after "sent" all of them were written.
SendAllCounts ==
    (result # None /\ "total" \in DOMAIN result) =>
        /\ result.total <= result.written
        /\ result.status # "send failed" => result.total = result.written

=============================================================================
