----------------------------- MODULE ChatServer -----------------------------
(***************************************************************************)
(* chat_server.chmp: who is connected, named, admin and in which room.     *)
(*                                                                         *)
(* The program has one thread, but a connection may be found dead by any   *)
(* line that is sent on it, and who cannot be sent to is removed at once:  *)
(* in the middle of a broadcast, of a command, or of the removal of        *)
(* another.  So every line sent is an action of its own, and `todo` is the *)
(* stack: what the calls in progress have left to do, innermost first.     *)
(*                                                                         *)
(* The five parallel arrays of clients are one sequence of records, and so *)
(* are the two of pending handshakes; ages count turns of the main loop.   *)
(* What lines say, statuses and histories are left out.                    *)
(***************************************************************************)
EXTENDS Integers, Sequences

CONSTANTS
  Names,       \* names that clients choose
  Rooms,       \* rooms that clients join
  Lobby,
  Everywhere,  \* the audience of broadcastAll
  None,        \* NULL
  MaxPending,  \* MAX_PENDING
  Deadline,    \* HANDSHAKE_DEADLINE_MS, in turns
  MaxHandle,   \* bounds the connections that come about
  MaxLines     \* bounds the lines that clients and the console enter

ASSUME ChatServerAssumption ==
  /\ Lobby \in Rooms /\ Everywhere \notin Rooms /\ None \notin Names
  /\ MaxPending \in Nat /\ Deadline \in Nat /\ MaxHandle \in Nat /\ MaxLines \in Nat

VARIABLES
  plaintext,    \* plaintextMode
  clients,      \* clients, names, roles, rooms
  pending,      \* pending, and the age of each
  banned,       \* the keys of banned
  whitelist,    \* the keys of whitelist
  whitelistOn,
  phase,        \* where the main loop is
  index,        \* the index of the loop over pending or clients
  draining,     \* the handle drainClient was called with, or None
  todo,         \* what the calls in progress have left to do
  handles,      \* connections open in NetworkManager
  sessions,     \* those with a session that no failed send has ended
  next_handle,
  lines         \* lines entered so far

lists == <<banned, whitelist, whitelistOn>>
loop == <<phase, index, draining>>
network == <<handles, sessions, next_handle>>
vars == <<plaintext, clients, pending, lists, loop, todo, network, lines>>

Handle == 1..MaxHandle

Init ==
  /\ plaintext \in BOOLEAN
  /\ clients = <<>> /\ pending = <<>>
  /\ banned = {} /\ whitelist = {} /\ whitelistOn = FALSE
  /\ phase = "poll" /\ index = 1 /\ draining = None
  /\ todo = <<>>
  /\ handles = {} /\ sessions = {} /\ next_handle = 1
  /\ lines = 0

(***************************************************************************)
(* Clients                                                                 *)
(***************************************************************************)
Without(sequence, i) == SubSeq(sequence, 1, i - 1) \o SubSeq(sequence, i + 1, Len(sequence))

Positions(Is(_)) == {i \in DOMAIN clients : Is(clients[i])}
FindClient(h) == LET Is(c) == c.handle = h IN Positions(Is)
FindName(n) == LET Is(c) == c.name = n IN Positions(Is)
Named == LET Is(c) == c.name # None IN Positions(Is)
Admins == LET Is(c) == c.name # None /\ c.admin IN Positions(Is)
The(positions) == CHOOSE i \in positions : TRUE
First(positions) == CHOOSE i \in positions : \A j \in positions : i <= j

NewClient(h) == [handle |-> h, name |-> None, admin |-> FALSE, room |-> Lobby]

(***************************************************************************)
(* What a call may have left to do                                         *)
(***************************************************************************)
\* sendChatLine, once or several times, without a look at the result ...
Attempt(h) == [do |-> "attempt", to |-> h]
\* ... or with something else to do when it fails.
Send(h, otherwise) == [do |-> "send", to |-> h, otherwise |-> otherwise]
\* processLine returns.
Return(value) == [do |-> "return", value |-> value]
ReturnPresent(h) == [do |-> "return if present", who |-> h]
Remove(h, announce) == [do |-> "remove", who |-> h, announce |-> announce]
Promote == [do |-> "promote"]
\* broadcastRoom and broadcastAll; who heard it, and whether it removed an
\* admin, are history.
Broadcast(room) == [do |-> "broadcast", room |-> room, index |-> 1, heard |-> {}, deposed |-> FALSE]
\* The ends of promoteFirstAdmin and cmdJoin, after their broadcast.
TellRole(i) == [do |-> "tell role", index |-> i, of |-> clients[i].handle]
AnnounceJoin(i, room) == [do |-> "announce join", index |-> i, room |-> room]
CloseAll == [do |-> "close all"]

Reply(h) == <<Send(h, <<Return(FALSE)>>), Return(TRUE)>>
Error(h) == <<Attempt(h), Return(TRUE)>>

(***************************************************************************)
(* Sending                                                                 *)
(***************************************************************************)
\* In plaintext mode sendChatLine returns true whatever netSendAll returns.
Sent(h) == (plaintext \/ h \in sessions) /\ UNCHANGED sessions
NotSent(h) == ~plaintext /\ sessions' = sessions \ {h}

Doing(what) == todo # <<>> /\ todo[1].do = what

AttemptLine ==
  /\ Doing("attempt")
  /\ Sent(todo[1].to) \/ NotSent(todo[1].to)
  /\ todo' = Tail(todo)
  /\ UNCHANGED <<plaintext, clients, pending, lists, loop, handles, next_handle, lines>>

SendLine ==
  /\ Doing("send")
  /\ \/ Sent(todo[1].to) /\ todo' = Tail(todo)
     \/ NotSent(todo[1].to) /\ todo' = todo[1].otherwise
  /\ UNCHANGED <<plaintext, clients, pending, lists, loop, handles, next_handle, lines>>

(***************************************************************************)
(* Removal, broadcasts, promotion                                          *)
(***************************************************************************)
\* mutant: an admin is removed and nobody follows.
RemoveClientAt_Alone(i, announce, rest) ==
  LET c == clients[i]
  IN /\ clients' = Without(clients, i)
     /\ handles' = handles \ {c.handle} /\ sessions' = sessions \ {c.handle}
     /\ todo' = (IF announce /\ c.name # None THEN <<Broadcast(c.room)>> ELSE <<>>) \o rest

\* removeClientAt, as far as it gets without sending.
RemoveClientAt(i, announce, rest) ==
  LET c == clients[i]
  IN /\ clients' = Without(clients, i)
     /\ handles' = handles \ {c.handle} /\ sessions' = sessions \ {c.handle}
     /\ todo' = (IF announce /\ c.name # None THEN <<Broadcast(c.room)>> ELSE <<>>)
                  \o (IF c.admin THEN <<Promote>> ELSE <<>>) \o rest

RemoveClient ==
  /\ Doing("remove")
  /\ LET found == FindClient(todo[1].who)
     IN \/ /\ found # {} /\ RemoveClientAt(The(found), todo[1].announce, Tail(todo))
        \/ /\ found = {} /\ todo' = Tail(todo) /\ UNCHANGED <<clients, handles, sessions>>
  /\ UNCHANGED <<plaintext, pending, lists, loop, next_handle, lines>>

\* mutant: who has no name hears it, too.
Listens_Unnamed(c, room) == room \in {Everywhere, c.room}

Listens(c, room) == c.name # None /\ room \in {Everywhere, c.room}
Audience(room, from) == {i \in from..Len(clients) : Listens(clients[i], room)}

\* mutant: the index moves on although the array has moved up.
Unreached_Skips(b, i) == [b EXCEPT !.index = i + 1, !.deposed = @ \/ clients[i].admin]

Reached(b, i) == [b EXCEPT !.index = i + 1, !.heard = @ \cup {clients[i].handle}]
Unreached(b, i) == [b EXCEPT !.index = i, !.deposed = @ \/ clients[i].admin]

\* A turn of the loop of a broadcast that sends.
BroadcastLine ==
  /\ Doing("broadcast")
  /\ LET b == todo[1]
         audience == Audience(b.room, b.index)
         i == First(audience)
     IN /\ audience # {}
        /\ \/ /\ Sent(clients[i].handle)
              /\ todo' = <<Reached(b, i)>> \o Tail(todo)
              /\ UNCHANGED <<clients, handles>>
           \/ /\ ~plaintext
              /\ RemoveClientAt(i, FALSE, <<Unreached(b, i)>> \o Tail(todo))
  /\ UNCHANGED <<plaintext, pending, lists, loop, next_handle, lines>>

BroadcastEnds ==
  /\ Doing("broadcast") /\ Audience(todo[1].room, todo[1].index) = {}
  /\ todo' = Tail(todo)
  /\ UNCHANGED <<plaintext, clients, pending, lists, loop, network, lines>>

PromoteFirstAdmin ==
  /\ Doing("promote")
  /\ \/ /\ Admins = {} /\ Named # {}
        /\ clients' = [clients EXCEPT ![First(Named)].admin = TRUE]
        /\ todo' = <<Broadcast(Everywhere), TellRole(First(Named))>> \o Tail(todo)
     \/ /\ Admins # {} \/ Named = {}
        /\ todo' = Tail(todo) /\ UNCHANGED clients
  /\ UNCHANGED <<plaintext, pending, lists, loop, network, lines>>

\* A runtime error ends the program, and the system closes its connections.
RuntimeError ==
  /\ phase' = "failed" /\ todo' = <<>> /\ handles' = {} /\ sessions' = {}
  /\ UNCHANGED <<index, draining>>

\* An index from before a broadcast is used after it.
UseIndex ==
  /\ Doing("tell role") \/ Doing("announce join")
  /\ LET i == todo[1].index
     IN \/ i > Len(clients) /\ RuntimeError
        \/ /\ i <= Len(clients)
           /\ todo' = (IF Doing("tell role") THEN <<Attempt(clients[i].handle)>> ELSE <<Broadcast(todo[1].room)>>)
                        \o Tail(todo)
           /\ UNCHANGED <<loop, handles, sessions>>
  /\ UNCHANGED <<plaintext, clients, pending, lists, next_handle, lines>>

(***************************************************************************)
(* What clients say                                                        *)
(***************************************************************************)
\* The handlers of processLine: client i entered a line, and h is its handle.
Refused(n) == n \in banned \/ (whitelistOn /\ n \notin whitelist) \/ FindName(n) # {}

Silent == UNCHANGED <<clients, lists>>

\* An unsafe name is refused, too.
RegisterName(i, h) ==
  \/ /\ todo' = Error(h) /\ Silent
  \/ \E n \in Names :
       /\ ~Refused(n)
       /\ clients' = [clients EXCEPT ![i] = [@ EXCEPT !.name = n, !.room = Lobby, !.admin = Named = {}]]
       /\ todo' = <<Send(h, <<Remove(h, FALSE), Return(FALSE)>>), Broadcast(Lobby), ReturnPresent(h)>>
       /\ UNCHANGED lists

\* mutant: a name may be taken.
RenameClient_Taken(i, h) ==
  \/ /\ todo' = Error(h) /\ Silent
  \/ \E n \in Names :
       /\ n \notin banned /\ (whitelistOn => n \in whitelist)
       /\ clients' = [clients EXCEPT ![i].name = n]
       /\ todo' = <<Attempt(h), Broadcast(Everywhere), ReturnPresent(h)>>
       /\ UNCHANGED lists

RenameClient(i, h) ==
  \/ /\ todo' = Error(h) /\ Silent
  \/ \E n \in Names :
       /\ ~Refused(n)
       /\ clients' = [clients EXCEPT ![i].name = n]
       /\ todo' = <<Attempt(h), Broadcast(Everywhere), ReturnPresent(h)>>
       /\ UNCHANGED lists

\* A message, /me, and with another audience /status.
Talk(i, h) ==
  /\ \E room \in {clients[i].room, Everywhere} : todo' = <<Broadcast(room), ReturnPresent(h)>>
  /\ Silent

\* Commands that only ask, those that are wrong, and lines with nothing in them.
Ask(h) == todo' \in {Reply(h), <<Return(TRUE)>>} /\ Silent

ShowHistory(h) ==
  todo' = <<Send(h, <<Remove(h, TRUE), Return(FALSE)>>), Return(TRUE)>> /\ Silent

Quit(h) == todo' = <<Attempt(h), Remove(h, TRUE), Return(FALSE)>> /\ Silent

SendPrivate(h) ==
  /\ \E j \in Named :
       todo' = <<Send(clients[j].handle, <<Return(FALSE)>>)>> \o Reply(h)
  /\ Silent

Join(i, h) ==
  \E room \in Rooms \ {clients[i].room} :
    /\ clients' = [clients EXCEPT ![i].room = room]
    /\ todo' = <<Send(h, <<Return(FALSE)>>), Broadcast(clients[i].room), AnnounceJoin(i, room), Return(TRUE)>>
    /\ UNCHANGED lists

Kicked(j) == <<Attempt(clients[j].handle), Remove(clients[j].handle, FALSE), Broadcast(clients[j].room)>>

Kick(i) ==
  /\ \E j \in Named \ {i} : todo' = Kicked(j) \o <<Return(TRUE)>>
  /\ Silent

Tell(h) == <<Send(h, <<Return(FALSE)>>), Broadcast(Everywhere), Return(TRUE)>>

\* An admin may ban itself.
Ban(h) ==
  \E n \in Names :
    /\ banned' = banned \cup {n}
    /\ todo' = (IF FindName(n) = {} THEN <<>> ELSE Kicked(The(FindName(n)))) \o Tell(h)
    /\ UNCHANGED <<clients, whitelist, whitelistOn>>

Unban(h) ==
  \E n \in banned :
    /\ banned' = banned \ {n} /\ todo' = Tell(h)
    /\ UNCHANGED <<clients, whitelist, whitelistOn>>

Whitelist(h) ==
  /\ \/ /\ whitelistOn' \in BOOLEAN /\ UNCHANGED whitelist
        /\ todo' = <<Attempt(h), Broadcast(Everywhere), Return(TRUE)>>
     \/ /\ \E n \in Names : whitelist' \in {whitelist \cup {n}, whitelist \ {n}}
        /\ todo' = Reply(h) /\ UNCHANGED whitelistOn
  /\ UNCHANGED <<clients, banned>>

HandleCommand(i, h) ==
  \/ Ask(h) \/ ShowHistory(h) \/ Quit(h) \/ SendPrivate(h)
  \/ RenameClient(i, h) \/ Join(i, h)
  \/ ~clients[i].admin /\ todo' = Error(h) /\ Silent
  \/ clients[i].admin /\ (Kick(i) \/ Ban(h) \/ Unban(h) \/ Whitelist(h))

ProcessLine(i, h) ==
  IF clients[i].name = None THEN RegisterName(i, h) ELSE Talk(i, h) \/ HandleCommand(i, h)

(***************************************************************************)
(* The main loop                                                           *)
(***************************************************************************)
Idle == todo = <<>>

\* netPoll, and 25 ms on the program's own clock.
Poll ==
  /\ phase = "poll" /\ Idle
  /\ pending' = [i \in DOMAIN pending |-> [pending[i] EXCEPT !.age = @ + 1]]
  /\ phase' = "accept" /\ index' = 1
  /\ UNCHANGED <<plaintext, clients, lists, draining, todo, network, lines>>

\* promotePending; when the prompt for a name cannot be sent, the client goes.
PromotePending(h) ==
  /\ clients' = Append(clients, NewClient(h))
  /\ todo' = <<Send(h, <<Remove(h, FALSE)>>)>>

\* A turn of acceptPending; netSecureServerBegin may fail.
AcceptPending ==
  /\ phase = "accept" /\ Idle /\ next_handle <= MaxHandle
  /\ next_handle' = next_handle + 1
  /\ \/ /\ plaintext
        /\ PromotePending(next_handle)
        /\ handles' = handles \cup {next_handle}
        /\ UNCHANGED pending
     \/ /\ ~plaintext
        /\ UNCHANGED <<pending, clients, handles, todo>>
     \/ /\ ~plaintext /\ Len(pending) < MaxPending
        /\ pending' = Append(pending, [handle |-> next_handle, age |-> 0])
        /\ handles' = handles \cup {next_handle}
        /\ UNCHANGED <<clients, todo>>
  /\ UNCHANGED <<plaintext, lists, loop, sessions, lines>>

NoneToAccept ==
  /\ phase = "accept" /\ Idle
  /\ phase' = IF plaintext THEN "drain" ELSE "step"
  /\ UNCHANGED <<plaintext, clients, pending, lists, index, draining, todo, network, lines>>

\* mutant: the index moves on although the array has moved up.
RemovePendingAt_Skips(i) ==
  /\ pending' = Without(pending, i) /\ index' = i + 1
  /\ handles' = handles \ {pending[i].handle}

\* mutant: the connection stays open.
RemovePendingAt_Leaks(i) ==
  /\ pending' = Without(pending, i) /\ index' = i
  /\ UNCHANGED handles

RemovePendingAt(i) ==
  /\ pending' = Without(pending, i) /\ index' = i
  /\ handles' = handles \ {pending[i].handle}

\* A turn of stepPendingHandshakes: too late or failed, pending, complete.
StepPending ==
  /\ phase = "step" /\ Idle /\ index <= Len(pending)
  /\ \/ /\ RemovePendingAt(index)
        /\ UNCHANGED <<clients, sessions, todo>>
     \/ /\ pending[index].age <= Deadline
        /\ index' = index + 1
        /\ UNCHANGED <<clients, pending, handles, sessions, todo>>
     \/ /\ pending[index].age <= Deadline
        /\ pending' = Without(pending, index)
        /\ PromotePending(pending[index].handle)
        /\ sessions' = sessions \cup {pending[index].handle}
        /\ UNCHANGED <<index, handles>>
  /\ UNCHANGED <<plaintext, lists, phase, draining, next_handle, lines>>

AllStepped ==
  /\ phase = "step" /\ Idle /\ index > Len(pending)
  /\ phase' = "drain" /\ index' = 1
  /\ UNCHANGED <<plaintext, clients, pending, lists, draining, todo, network, lines>>

DrainNext ==
  /\ phase = "drain" /\ Idle /\ draining = None /\ index <= Len(clients)
  /\ draining' = clients[index].handle
  /\ UNCHANGED <<plaintext, clients, pending, lists, phase, index, todo, network, lines>>

Draining == phase = "drain" /\ Idle /\ draining # None

\* A line can be received while the session lives.
Receivable(h) == h \in handles /\ (plaintext \/ h \in sessions)

ReceiveWait ==
  /\ Draining /\ Receivable(draining)
  /\ draining' = None /\ index' = index + 1
  /\ UNCHANGED <<plaintext, clients, pending, lists, phase, todo, network, lines>>

ReceiveEnd ==
  /\ Draining
  /\ todo' = <<Remove(draining, TRUE), Return(FALSE)>>
  /\ UNCHANGED <<plaintext, clients, pending, lists, loop, network, lines>>

ReceiveLine ==
  /\ Draining /\ Receivable(draining) /\ lines < MaxLines
  /\ lines' = lines + 1
  /\ ProcessLine(The(FindClient(draining)), draining)
  /\ UNCHANGED <<plaintext, pending, loop, network>>

\* drainClient goes on after true; after false the main loop does, with the
\* same index.
ReturnLine ==
  /\ Doing("return") \/ Doing("return if present")
  /\ LET value == IF Doing("return") THEN todo[1].value ELSE FindClient(todo[1].who) # {}
     IN draining' = IF value THEN draining ELSE None
  /\ todo' = <<>>
  /\ UNCHANGED <<plaintext, clients, pending, lists, phase, index, network, lines>>

AllDrained == phase = "drain" /\ Idle /\ draining = None /\ index > Len(clients)

\* The console: nothing, /say, /kick.
Console ==
  /\ AllDrained
  /\ phase' = "poll" /\ index' = 1
  /\ \/ UNCHANGED <<todo, lines>>
     \/ /\ lines < MaxLines /\ lines' = lines + 1
        /\ \/ todo' = <<Broadcast(Everywhere)>>
           \/ \E j \in Named : todo' = <<Attempt(clients[j].handle), Remove(clients[j].handle, TRUE)>>
  /\ UNCHANGED <<plaintext, clients, pending, lists, draining, network>>

\* /stop
Stop ==
  /\ AllDrained
  /\ phase' = "closing" /\ todo' = <<Broadcast(Everywhere), CloseAll>>
  /\ UNCHANGED <<plaintext, clients, pending, lists, index, draining, network, lines>>

CloseNext ==
  /\ Doing("close all")
  /\ \/ /\ clients # <<>>
        /\ RemoveClientAt(1, FALSE, todo)
        /\ UNCHANGED <<pending, phase>>
     \/ /\ clients = <<>>
        /\ handles' = handles \ {pending[i].handle : i \in DOMAIN pending}
        /\ pending' = <<>> /\ todo' = <<>> /\ phase' = "stopped"
        /\ UNCHANGED <<clients, sessions>>
  /\ UNCHANGED <<plaintext, lists, index, draining, next_handle, lines>>

Next ==
  \/ AttemptLine \/ SendLine \/ RemoveClient \/ BroadcastLine \/ BroadcastEnds
  \/ PromoteFirstAdmin \/ UseIndex
  \/ Poll \/ AcceptPending \/ NoneToAccept \/ StepPending \/ AllStepped
  \/ DrainNext \/ ReceiveWait \/ ReceiveEnd \/ ReceiveLine \/ ReturnLine
  \/ Console \/ Stop \/ CloseNext

Spec == Init /\ [][Next]_vars

(***************************************************************************)
(* Properties                                                              *)
(***************************************************************************)
Client == [handle : Handle, name : Names \cup {None}, admin : BOOLEAN, room : Rooms]
Waiting == [handle : Handle, age : Nat]

Broadcasts ==
  [do : {"broadcast"}, room : Rooms \cup {Everywhere}, index : Nat \ {0}, heard : SUBSET Handle, deposed : BOOLEAN]
Removals == [do : {"remove"}, who : Handle, announce : BOOLEAN]
Returns == [do : {"return"}, value : BOOLEAN]
Sends == [do : {"send"}, to : Handle, otherwise : Seq(Removals \cup Returns)]
Attempts == [do : {"attempt"}, to : Handle]
Answers == [do : {"return if present"}, who : Handle]
Steps == [do : {"promote", "close all"}]
Roles == [do : {"tell role"}, index : Nat \ {0}, of : Handle]
Joins == [do : {"announce join"}, index : Nat \ {0}, room : Rooms]

Item ==
  Broadcasts \cup Removals \cup Returns \cup Sends \cup Attempts \cup Answers
    \cup Steps \cup Roles \cup Joins

TypeOK ==
  /\ plaintext \in BOOLEAN
  /\ clients \in Seq(Client) /\ pending \in Seq(Waiting)
  /\ banned \subseteq Names /\ whitelist \subseteq Names /\ whitelistOn \in BOOLEAN
  /\ phase \in {"poll", "accept", "step", "drain", "closing", "stopped", "failed"}
  /\ index \in Nat \ {0} /\ draining \in Handle \cup {None}
  /\ todo \in Seq(Item)
  /\ handles \subseteq Handle /\ sessions \subseteq Handle
  /\ next_handle \in 1..MaxHandle + 1 /\ lines \in Nat

\* There is never more than one admin, and between two lines, whoever was
\* removed while the last one was dealt with, there is one as long as anyone
\* has a name.
OneAdmin ==
  /\ \A i, j \in Admins : i = j
  /\ (Idle /\ phase # "failed" /\ Named # {}) => Admins # {}

\* No two clients have the same name, and when a command is done nobody who is
\* banned is left.
NamesAreFree ==
  /\ \A i, j \in Named : clients[i].name = clients[j].name => i = j
  /\ Idle => \A i \in Named : clients[i].name \notin banned

\* Every connection that was accepted and not closed is that of one client or
\* one pending handshake: none is forgotten open, none is used after it was
\* closed, which would end the program.
ConnectionsAreKept ==
  phase # "failed" =>
    /\ handles = {clients[i].handle : i \in DOMAIN clients} \cup {pending[i].handle : i \in DOMAIN pending}
    /\ \A i, j \in DOMAIN clients : clients[i].handle = clients[j].handle => i = j
    /\ \A i, j \in DOMAIN pending : pending[i].handle = pending[j].handle => i = j
    /\ \A i \in DOMAIN clients, j \in DOMAIN pending : clients[i].handle # pending[j].handle

\* A broadcast reaches nobody twice, and everybody who is still there when it
\* ends, unless it removed the admin: the announcement of the next one may then
\* remove clients that come before the loop's index.
BroadcastReaches ==
  Doing("broadcast") =>
    LET b == todo[1]
        Heard(i) == clients[i].handle \in b.heard
    IN /\ \A i \in Audience(b.room, b.index) : ~Heard(i)
       /\ (Audience(b.room, b.index) = {} /\ ~b.deposed) => \A i \in Audience(b.room, 1) : Heard(i)

\* "ROLE admin" goes to the client that was promoted, although the announcement
\* before may remove others, unless it removed that client itself.
RoleReachesAdmin ==
  Doing("tell role") => FindClient(todo[1].of) \subseteq {todo[1].index}

\* No handshake outlives its deadline by more than the turn that finds it out,
\* whatever else is removed from the array in that turn.
PendingExpires == phase = "drain" => \A i \in DOMAIN pending : pending[i].age <= Deadline

\* "Graceful client disconnect handling": whoever leaves, the server goes on.
ServerSurvives == phase # "failed"
=============================================================================
