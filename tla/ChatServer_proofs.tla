------------------------- MODULE ChatServer_proofs --------------------------
(***************************************************************************)
(* Proofs about ChatServer, for any number of clients and lines.           *)
(*                                                                         *)
(* `Inductive` says of the stack what makes the rest true: a promotion     *)
(* that is needed is on it, what is above a promotion cannot drop it, the  *)
(* indices on it still point to whom they were meant for, and a broadcast  *)
(* that is interrupted has not begun or has removed the admin.  There is a *)
(* lemma for each kind of step, and one for each handler of a line.        *)
(***************************************************************************)
EXTENDS ChatServer, SequenceTheorems, WellFoundedInduction, TLAPS

(***************************************************************************)
(* The inductive invariant, in parts that have the state as parameters.    *)
(***************************************************************************)
HandlesOf(q) == {q[i].handle : i \in 1..Len(q)}
NoTwins(q) == \A i, j \in 1..Len(q) : q[i].handle = q[j].handle => i = j

Connected(c, p, hs) == hs = HandlesOf(c) \cup HandlesOf(p)

\* Every connection is in one place, and its handle was given out.
Apart(c, p, next) ==
  /\ NoTwins(c) /\ NoTwins(p)
  /\ HandlesOf(c) \cap HandlesOf(p) = {}
  /\ \A h \in HandlesOf(c) \cup HandlesOf(p) : h < next

\* Who is drained is, or was, a client.
DrainsClients(d, p, next) == d # None => d < next /\ d \notin HandlesOf(p)

\* Names and admins are unique, and admins have names.
Distinguished(c) ==
  /\ \A i, j \in 1..Len(c) : c[i].name # None /\ c[i].name = c[j].name => i = j
  /\ \A i, j \in 1..Len(c) : c[i].admin /\ c[j].admin => i = j
  /\ \A i \in 1..Len(c) : c[i].admin => c[i].name # None

\* There is an admin, or one will be looked for, while anyone is named.
IsPromote(x) == x.do = "promote"
HasPromote(t) == \E k \in 1..Len(t) : IsPromote(t[k])
Promised(c, t) ==
  \/ \A i \in 1..Len(c) : c[i].name = None
  \/ \E i \in 1..Len(c) : c[i].admin
  \/ HasPromote(t)

\* Above a promotion there is nothing that would drop the rest of the stack or
\* remove a client without a name.
IsInner(x) == x.do \in {"attempt", "broadcast", "promote", "tell role"}
IsBound(x) == x.do \in {"promote", "tell role"}
IsRole(x) == x.do = "tell role"
IsBroadcast(x) == x.do = "broadcast"
Ordered(t) == \A j \in 1..Len(t) : IsBound(t[j]) => \A i \in 1..(j - 1) : IsInner(t[i])

\* Who is banned is removed next, but for a last line.
Going(h, t) ==
  \/ Len(t) >= 1 /\ t[1].do = "remove" /\ t[1].who = h
  \/ Len(t) >= 2 /\ t[1].do = "attempt" /\ t[2].do = "remove" /\ t[2].who = h
BannedGo(c, b, t) == \A i \in 1..Len(c) : c[i].name \in b => Going(c[i].handle, t)

\* The index of a promoted client is still its index, as those before it have no
\* name.
Pointed(c, r) ==
  \A i \in 1..Len(c) : (c[i].handle = r.of => i = r.index) /\ (i < r.index => c[i].name = None)
RolesPointed(c, t) == \A k \in 1..Len(t) : IsRole(t[k]) => Pointed(c, t[k])

\* A broadcast has been heard by those before its index, and not by those after
\* it; one that is interrupted has not begun or has removed the admin.
Spoken(c, b) ==
  \A i \in 1..Len(c) : Listens(c[i], b.room) =>
    /\ i >= b.index => c[i].handle \notin b.heard
    /\ i < b.index /\ ~b.deposed => c[i].handle \in b.heard
Waits(b) == b.deposed \/ (b.index = 1 /\ b.heard = {})
BroadcastsSpoken(c, t) ==
  \A k \in 1..Len(t) : IsBroadcast(t[k]) => Spoken(c, t[k]) /\ (k > 1 => Waits(t[k]))

\* Handshakes before the index were looked at in this turn.
Stepped(plain, p, ph, i) ==
  /\ ph = "accept" => i = 1
  /\ ph = "step" => \A k \in 1..Len(p) : k < i => p[k].age <= Deadline
  /\ ph = "drain" => \A k \in 1..Len(p) : p[k].age <= Deadline
  /\ plain => p = <<>>

Stacked(c, t) == Ordered(t) /\ RolesPointed(c, t) /\ BroadcastsSpoken(c, t)

Sound(c, p, ph, t, b, d, next) ==
  /\ Apart(c, p, next) /\ DrainsClients(d, p, next) /\ Distinguished(c)
  /\ ph # "failed" => Promised(c, t)
  /\ Stacked(c, t) /\ BannedGo(c, b, t)

Inductive ==
  /\ TypeOK
  /\ phase = "failed" => todo = <<>>
  /\ phase # "failed" => Connected(clients, pending, handles)
  /\ Sound(clients, pending, phase, todo, banned, draining, next_handle)
  /\ Stepped(plaintext, pending, phase, index)

\* The first of some positions is one of them, and none is before it.
LEMMA FirstFacts ==
  ASSUME NEW P \in SUBSET Nat, P # {}
  PROVE  First(P) \in P /\ \A j \in P : First(P) <= j
<1>1. PICK x \in P : \A y \in P : ~(<<y, x>> \in OpToRel(<, Nat))
  BY NatLessThanWellFounded, WFMin
<1>2. \A y \in P : x <= y
  <2>1. ASSUME NEW y \in P, y < x
        PROVE  <<y, x>> \in OpToRel(<, Nat)
    <3>1. <<y, x>> \in Nat \X Nat /\ <<y, x>>[1] = y /\ <<y, x>>[2] = x
      OBVIOUS
    <3>. QED
      BY <2>1, <3>1, Zenon DEF OpToRel
  <2>2. \A y \in P : ~(y < x)
    BY <1>1, <2>1, Zenon
  <2>. QED
    BY <2>2, SMT
<1>. QED
  BY <1>2 DEF First

\* Taking one element out.
LEMMA WithoutFacts ==
  ASSUME NEW S, NEW q \in Seq(S), NEW i \in 1..Len(q)
  PROVE  /\ Without(q, i) \in Seq(S)
         /\ Len(Without(q, i)) = Len(q) - 1
         /\ \A k \in 1..(Len(q) - 1) : Without(q, i)[k] = IF k < i THEN q[k] ELSE q[k + 1]
<1>1. PICK a : a = SubSeq(q, 1, i - 1)
  OBVIOUS
<1>2. PICK b : b = SubSeq(q, i + 1, Len(q))
  OBVIOUS
<1>3. /\ a \in Seq(S) /\ Len(a) = i - 1
      /\ \A k \in 1..(i - 1) : a[k] = q[k]
  BY <1>1, SMT
<1>4. /\ b \in Seq(S) /\ Len(b) = Len(q) - i
      /\ \A k \in 1..(Len(q) - i) : b[k] = q[k + i]
  BY <1>2, SMT
<1>5. Without(q, i) = a \o b
  BY <1>1, <1>2 DEF Without
<1>6. a \o b \in Seq(S) /\ Len(a \o b) = Len(a) + Len(b)
      /\ \A k \in 1..Len(a) + Len(b) : (a \o b)[k] = IF k <= Len(a) THEN a[k] ELSE b[k - Len(a)]
  BY <1>3, <1>4, ConcatProperties
<1>. QED
  BY <1>3, <1>4, <1>5, <1>6, SMT

(***************************************************************************)
(* Clients and handshakes                                                  *)
(***************************************************************************)
\* A connection goes: the others stay as they are, in their order.
LEMMA RemovedHandle ==
  ASSUME NEW S, NEW q \in Seq(S), NEW i \in 1..Len(q), NoTwins(q)
  PROVE  /\ NoTwins(Without(q, i))
         /\ HandlesOf(Without(q, i)) = HandlesOf(q) \ {q[i].handle}
         /\ q[i].handle \in HandlesOf(q)
<1>. DEFINE d == Without(q, i)
<1>1. /\ d \in Seq(S) /\ Len(d) = Len(q) - 1 /\ Len(q) \in Nat
      /\ \A k \in 1..(Len(q) - 1) : d[k] = IF k < i THEN q[k] ELSE q[k + 1]
  BY WithoutFacts, LenProperties
<1>. HIDE DEF d
<1>2. \A k \in 1..Len(d) : \E m \in 1..Len(q) : d[k] = q[m] /\ m # i /\ m = IF k < i THEN k ELSE k + 1
  BY <1>1
<1>3. \A m \in 1..Len(q) : m # i => \E k \in 1..Len(d) : d[k] = q[m]
  <2>. SUFFICES ASSUME NEW m \in 1..Len(q), m # i PROVE \E k \in 1..Len(d) : d[k] = q[m]
    OBVIOUS
  <2>1. CASE m < i
    BY <1>1, <2>1
  <2>2. CASE m > i
    <3>1. m - 1 \in 1..Len(d) /\ d[m - 1] = q[m]
      BY <1>1, <2>2
    <3>. QED
      BY <3>1
  <2>. QED
    BY <2>1, <2>2, <1>1
<1>4. \A j, k \in 1..Len(d) : d[j].handle = d[k].handle => j = k
  BY <1>1, <1>2 DEF NoTwins
<1>5. HandlesOf(d) = HandlesOf(q) \ {q[i].handle}
  <2>1. \A k \in 1..Len(d) : d[k].handle \in HandlesOf(q) /\ d[k].handle # q[i].handle
    BY <1>1, <1>2 DEF NoTwins, HandlesOf
  <2>2. \A h \in HandlesOf(q) \ {q[i].handle} : h \in HandlesOf(d)
    BY <1>3 DEF HandlesOf
  <2>. QED
    BY <2>1, <2>2 DEF HandlesOf
<1>6. q[i].handle \in HandlesOf(q)
  BY DEF HandlesOf
<1>. QED
  BY <1>4, <1>5, <1>6 DEF NoTwins, d

\* A client goes: names and admins stay unique.
LEMMA RemovedClient ==
  ASSUME NEW c \in Seq(Client), NEW i \in 1..Len(c), NEW p, NEW next,
         Apart(c, p, next), Distinguished(c)
  PROVE  /\ Apart(Without(c, i), p, next) /\ Distinguished(Without(c, i))
         /\ HandlesOf(Without(c, i)) = HandlesOf(c) \ {c[i].handle}
         /\ c[i].handle \notin HandlesOf(p)
<1>. DEFINE d == Without(c, i)
<1>1. /\ d \in Seq(Client) /\ Len(d) = Len(c) - 1 /\ Len(c) \in Nat
      /\ \A k \in 1..(Len(c) - 1) : d[k] = IF k < i THEN c[k] ELSE c[k + 1]
  BY WithoutFacts, LenProperties
<1>2. NoTwins(d) /\ HandlesOf(d) = HandlesOf(c) \ {c[i].handle} /\ c[i].handle \in HandlesOf(c)
  BY RemovedHandle DEF Apart
<1>. HIDE DEF d
<1>3. \A k \in 1..Len(d) : \E m \in 1..Len(c) : d[k] = c[m] /\ m = IF k < i THEN k ELSE k + 1
  BY <1>1
<1>4. Distinguished(d)
  <2>. SUFFICES ASSUME NEW j \in 1..Len(d), NEW k \in 1..Len(d)
       PROVE  /\ d[j].name # None /\ d[j].name = d[k].name => j = k
              /\ d[j].admin /\ d[k].admin => j = k
              /\ d[j].admin => d[j].name # None
    BY Zenon DEF Distinguished
  <2>1. PICK m \in 1..Len(c) : d[j] = c[m] /\ m = IF j < i THEN j ELSE j + 1
    BY <1>3
  <2>2. PICK n \in 1..Len(c) : d[k] = c[n] /\ n = IF k < i THEN k ELSE k + 1
    BY <1>3
  <2>3. m = n => j = k
    BY <1>1, <2>1, <2>2
  <2>4. /\ c[m].name # None /\ c[m].name = c[n].name => m = n
        /\ c[m].admin /\ c[n].admin => m = n
        /\ c[m].admin => c[m].name # None
    BY Zenon DEF Distinguished
  <2>. QED
    BY <2>1, <2>2, <2>3, <2>4, Zenon
<1>. QED
  BY <1>2, <1>4 DEF Apart, d

\* What a handler does to the clients.
Kept(d, c, p, next) ==
  /\ d \in Seq(Client) /\ Apart(d, p, next) /\ Distinguished(d)
  /\ HandlesOf(d) = HandlesOf(c) /\ \A t : Promised(d, t)

\* A client gets a name that nobody has.
CanName(c, i, p, next, x) ==
  /\ c \in Seq(Client) /\ i \in 1..Len(c) /\ x \in Client
  /\ Apart(c, p, next) /\ Distinguished(c) /\ Promised(c, <<>>)
  /\ x.handle = c[i].handle /\ x.name # None /\ \A k \in 1..Len(c) : c[k].name # x.name
  /\ x.admin <=> c[i].admin \/ \A k \in 1..Len(c) : c[k].name = None

\* A client that may be named gets a new name, and is admin if nobody had a name:
\* registerName keeps the clients distinguished, and who must be admin stays so.
LEMMA NamedClients ==
  ASSUME NEW c, NEW i, NEW p, NEW next, NEW x, CanName(c, i, p, next, x)
  PROVE  Kept([c EXCEPT ![i] = x], c, p, next)
<1>0. /\ c \in Seq(Client) /\ i \in 1..Len(c) /\ x \in Client
      /\ Apart(c, p, next) /\ Distinguished(c) /\ Promised(c, <<>>)
      /\ x.handle = c[i].handle /\ x.name # None /\ \A k \in 1..Len(c) : c[k].name # x.name
      /\ x.admin <=> c[i].admin \/ \A k \in 1..Len(c) : c[k].name = None
  BY Zenon DEF CanName
<1>. DEFINE d == [c EXCEPT ![i] = x]
<1>1. /\ d \in Seq(Client) /\ Len(d) = Len(c) /\ Len(c) \in Nat
      /\ d[i] = x /\ \A k \in 1..Len(c) : k # i => d[k] = c[k]
  BY <1>0, ExceptSeq, LenProperties
<1>. HIDE DEF d
<1>2. HandlesOf(d) = HandlesOf(c)
  <2>1. \A k \in 1..Len(c) : d[k].handle = c[k].handle
    BY <1>0, <1>1
  <2>. QED
    BY <1>1, <2>1 DEF HandlesOf
<1>3. NoTwins(d)
  BY <1>0, <1>1 DEF Apart, NoTwins
<1>4. Distinguished(d)
  BY <1>0, <1>1 DEF Distinguished
<1>5. \A t : Promised(d, t)
  <2>1. ~HasPromote(<<>>)
    BY DEF HasPromote
  <2>. QED
    BY <1>0, <1>1, <2>1 DEF Promised, Distinguished
<1>. QED
  BY <1>0, <1>1, <1>2, <1>3, <1>4, <1>5 DEF Apart, Kept, d

\* A client moves to another room.
LEMMA MovedClient ==
  ASSUME NEW c \in Seq(Client), NEW i \in 1..Len(c), NEW p, NEW next, NEW x \in Client,
         Apart(c, p, next), Distinguished(c), Promised(c, <<>>),
         x.handle = c[i].handle, x.name = c[i].name, x.admin = c[i].admin
  PROVE  Kept([c EXCEPT ![i] = x], c, p, next)
<1>. DEFINE d == [c EXCEPT ![i] = x]
<1>1. /\ d \in Seq(Client) /\ Len(d) = Len(c) /\ Len(c) \in Nat
      /\ d[i] = x /\ \A k \in 1..Len(c) : k # i => d[k] = c[k]
  BY ExceptSeq, LenProperties
<1>. HIDE DEF d
<1>2. \A k \in 1..Len(c) : d[k].handle = c[k].handle /\ d[k].name = c[k].name /\ d[k].admin = c[k].admin
  BY <1>1
<1>3. HandlesOf(d) = HandlesOf(c)
  BY <1>1, <1>2 DEF HandlesOf
<1>4. NoTwins(d)
  BY <1>1, <1>2 DEF Apart, NoTwins
<1>5. Distinguished(d)
  BY <1>1, <1>2, Zenon DEF Distinguished
<1>6. \A t : Promised(d, t)
  <2>1. ~HasPromote(<<>>)
    BY DEF HasPromote
  <2>. QED
    BY <1>1, <1>2, <2>1, Zenon DEF Promised
<1>. QED
  BY <1>1, <1>3, <1>4, <1>5, <1>6 DEF Apart, Kept, d

(***************************************************************************)
(* The stack                                                               *)
(***************************************************************************)
\* What kind an item is, told by `do`.
LEMMA Kinds ==
  ASSUME NEW x \in Item
  PROVE  /\ x.do = "broadcast" => x \in Broadcasts
         /\ x.do = "remove" => x \in Removals
         /\ x.do = "return" => x \in Returns
         /\ x.do = "send" => x \in Sends
         /\ x.do = "attempt" => x \in Attempts
         /\ x.do = "return if present" => x \in Answers
         /\ x.do = "tell role" => x \in Roles
         /\ x.do = "announce join" => x \in Joins
<1>1. \/ x \in Broadcasts \/ x \in Removals \/ x \in Returns \/ x \in Sends \/ x \in Attempts
      \/ x \in Answers \/ x \in Steps \/ x \in Roles \/ x \in Joins
  BY Zenon DEF Item
<1>2. /\ x \in Broadcasts => x.do = "broadcast"
      /\ x \in Removals => x.do = "remove"
      /\ x \in Returns => x.do = "return"
      /\ x \in Sends => x.do = "send"
  BY DEF Broadcasts, Removals, Returns, Sends
<1>3. /\ x \in Attempts => x.do = "attempt"
      /\ x \in Answers => x.do = "return if present"
      /\ x \in Steps => x.do \in {"promote", "close all"}
      /\ x \in Roles => x.do = "tell role"
      /\ x \in Joins => x.do = "announce join"
  BY DEF Attempts, Answers, Steps, Roles, Joins
<1>. QED
  BY <1>1, <1>2, <1>3

\* What most calls leave to do: nothing about admins, and broadcasts that have
\* not begun.
Fresh == [do : {"broadcast"}, room : Rooms \cup {Everywhere}, index : {1}, heard : {{}}, deposed : BOOLEAN]
Closing == [do : {"close all"}]
PlainItem == Fresh \cup Removals \cup Returns \cup Sends \cup Attempts \cup Answers \cup Closing \cup Joins

\* What a handler may push is typed, leaves no index and no promotion behind,
\* and a broadcast among it has not begun.
LEMMA PlainFacts ==
  ASSUME NEW x \in PlainItem
  PROVE  /\ x \in Item
         /\ ~IsBound(x) /\ ~IsRole(x)
         /\ IsBroadcast(x) => x.index = 1 /\ x.heard = {}
<1>1. \/ x \in Fresh \/ x \in Removals \/ x \in Returns \/ x \in Sends \/ x \in Attempts
      \/ x \in Answers \/ x \in Closing \/ x \in Joins
  BY Zenon DEF PlainItem
<1>2. CASE x \in Fresh
  <2>1. x \in Broadcasts
    BY <1>2 DEF Fresh, Broadcasts
  <2>2. x.do = "broadcast" /\ x.index = 1 /\ x.heard = {}
    BY <1>2 DEF Fresh
  <2>3. x \in Item
    BY <2>1, Zenon DEF Item
  <2>. QED
    BY <2>2, <2>3 DEF IsBound, IsRole, IsBroadcast
<1>3. CASE x \in Closing
  <2>1. x \in Steps
    BY <1>3 DEF Closing, Steps
  <2>2. x.do = "close all"
    BY <1>3 DEF Closing
  <2>3. x \in Item
    BY <2>1, Zenon DEF Item
  <2>. QED
    BY <2>2, <2>3 DEF IsBound, IsRole, IsBroadcast
<1>4. CASE x \in Removals \/ x \in Returns \/ x \in Sends
  <2>1. x.do = "remove" \/ x.do = "return" \/ x.do = "send"
    BY <1>4 DEF Removals, Returns, Sends
  <2>2. x \in Item
    BY <1>4, Zenon DEF Item
  <2>. QED
    BY <2>1, <2>2 DEF IsBound, IsRole, IsBroadcast
<1>5. CASE x \in Attempts \/ x \in Answers \/ x \in Joins
  <2>1. x.do = "attempt" \/ x.do = "return if present" \/ x.do = "announce join"
    BY <1>5 DEF Attempts, Answers, Joins
  <2>2. x \in Item
    BY <1>5, Zenon DEF Item
  <2>. QED
    BY <2>1, <2>2 DEF IsBound, IsRole, IsBroadcast
<1>. QED
  BY <1>1, <1>2, <1>3, <1>4, <1>5, Zenon

\* The items the commands and removals push are among these.
LEMMA PlainItems ==
  ASSUME NEW h \in Handle, NEW value \in BOOLEAN, NEW i \in Nat \ {0}
  PROVE  /\ Attempt(h) \in PlainItem /\ Return(value) \in PlainItem
         /\ ReturnPresent(h) \in PlainItem /\ Remove(h, value) \in PlainItem /\ CloseAll \in PlainItem
         /\ \A room \in Rooms \cup {Everywhere} : Broadcast(room) \in PlainItem
         /\ \A room \in Rooms : AnnounceJoin(i, room) \in PlainItem
         /\ \A q \in Seq(Removals \cup Returns) : Send(h, q) \in PlainItem
<1>1. Attempt(h) \in Attempts /\ ReturnPresent(h) \in Answers
  BY DEF Attempt, Attempts, ReturnPresent, Answers
<1>2. Return(value) \in Returns /\ Remove(h, value) \in Removals
  BY DEF Return, Returns, Remove, Removals
<1>3. CloseAll \in Closing
  BY DEF CloseAll, Closing
<1>4. \A room \in Rooms \cup {Everywhere} : Broadcast(room) \in Fresh
  BY DEF Broadcast, Fresh
<1>5. \A room \in Rooms : AnnounceJoin(i, room) \in Joins
  BY DEF AnnounceJoin, Joins
<1>6. \A q \in Seq(Removals \cup Returns) : Send(h, q) \in Sends
  BY DEF Send, Sends
<1>. QED
  BY <1>1, <1>2, <1>3, <1>4, <1>5, <1>6, Zenon DEF PlainItem

\* A stack of such items is in order, whoever is connected.
LEMMA PlainStack ==
  ASSUME NEW c, NEW t \in Seq(PlainItem)
  PROVE  t \in Seq(Item) /\ Stacked(c, t)
<1>1. PlainItem \subseteq Item
  BY PlainFacts, Zenon
<1>2. t \in Seq(Item)
  BY <1>1
<1>3. \A k \in 1..Len(t) : t[k] \in PlainItem
  OBVIOUS
<1>4. \A k \in 1..Len(t) : ~IsBound(t[k]) /\ ~IsRole(t[k])
  BY <1>3, PlainFacts, Zenon
<1>5. \A k \in 1..Len(t) : IsBroadcast(t[k]) => t[k].index = 1 /\ t[k].heard = {}
  BY <1>3, PlainFacts, Zenon
<1>6. \A k \in 1..Len(t) : IsBroadcast(t[k]) => Spoken(c, t[k]) /\ Waits(t[k])
  <2>. SUFFICES ASSUME NEW k \in 1..Len(t), IsBroadcast(t[k])
       PROVE  Spoken(c, t[k]) /\ Waits(t[k])
    BY Zenon
  <2>1. PICK x : x = t[k]
    OBVIOUS
  <2>2. x.index = 1 /\ x.heard = {}
    BY <1>5, <2>1
  <2>3. Spoken(c, x) /\ Waits(x)
    BY <2>2 DEF Spoken, Waits
  <2>. QED
    BY <2>1, <2>3
<1>7. BroadcastsSpoken(c, t)
  BY <1>6, Zenon DEF BroadcastsSpoken
<1>8. Ordered(t) /\ RolesPointed(c, t)
  BY <1>4, Zenon DEF Ordered, RolesPointed
<1>. QED
  BY <1>2, <1>7, <1>8 DEF Stacked

\* What is under the top, if it is a broadcast, waits.
AllWait(t) == \A k \in 1..Len(t) : IsBroadcast(t[k]) => Waits(t[k])
NoneBound(t) == \A k \in 1..Len(t) : ~IsBound(t[k])

\* Sequences: the first element goes, or one comes before it.
LEMMA TailFacts ==
  ASSUME NEW S, NEW t \in Seq(S), t # <<>>
  PROVE  /\ Tail(t) \in Seq(S) /\ Len(Tail(t)) = Len(t) - 1 /\ Len(t) \in Nat \ {0} /\ t[1] \in S
         /\ \A k \in 1..Len(Tail(t)) : Tail(t)[k] = t[k + 1] /\ k + 1 \in 2..Len(t) /\ k + 1 \in 1..Len(t)
         /\ \A k \in 1..Len(t) : k = 1 \/ (k - 1 \in 1..Len(Tail(t)) /\ t[k] = Tail(t)[k - 1])
<1>1. /\ Tail(t) \in Seq(S) /\ Len(Tail(t)) = Len(t) - 1 /\ Len(t) \in Nat \ {0} /\ t[1] \in S
      /\ \A k \in 1..Len(Tail(t)) : Tail(t)[k] = t[k + 1]
  BY HeadTailProperties, LenProperties, EmptySeq
<1>. QED
  BY <1>1

\* A stack with one item pushed: its length, its top, and the rest moved by one.
LEMMA PushFacts ==
  ASSUME NEW S, NEW t \in Seq(S), NEW x \in S
  PROVE  /\ <<x>> \o t \in Seq(S) /\ Len(<<x>> \o t) = Len(t) + 1 /\ Len(t) \in Nat
         /\ (<<x>> \o t)[1] = x
         /\ \A k \in 2..Len(t) + 1 : (<<x>> \o t)[k] = t[k - 1] /\ k - 1 \in 1..Len(t)
         /\ \A k \in 1..Len(t) : (<<x>> \o t)[k + 1] = t[k] /\ k + 1 \in 1..(Len(t) + 1)
<1>. DEFINE u == <<x>> \o t
<1>1. <<x>> \in Seq(S) /\ Len(<<x>>) = 1 /\ <<x>>[1] = x /\ Len(t) \in Nat
  BY LenProperties
<1>2. u \in Seq(S) /\ Len(u) = 1 + Len(t)
      /\ \A k \in 1..(1 + Len(t)) : u[k] = IF k <= 1 THEN <<x>>[k] ELSE t[k - 1]
  BY <1>1, ConcatProperties
<1>. HIDE DEF u
<1>3. /\ u \in Seq(S) /\ Len(u) = Len(t) + 1 /\ Len(t) \in Nat /\ u[1] = x
      /\ \A k \in 2..Len(t) + 1 : u[k] = t[k - 1] /\ k - 1 \in 1..Len(t)
      /\ \A k \in 1..Len(t) : u[k + 1] = t[k] /\ k + 1 \in 1..(Len(t) + 1)
  BY <1>1, <1>2
<1>. QED
  BY <1>3 DEF u

\* Popping the stack.
LEMMA PopStack ==
  ASSUME NEW c, NEW t \in Seq(Item), t # <<>>, Stacked(c, t)
  PROVE  Stacked(c, Tail(t)) /\ AllWait(Tail(t)) /\ (IsInner(t[1]) \/ NoneBound(Tail(t)))
<1>. DEFINE u == Tail(t)
<1>1. /\ u \in Seq(Item) /\ Len(u) = Len(t) - 1 /\ Len(t) \in Nat \ {0}
      /\ \A k \in 1..Len(u) : u[k] = t[k + 1] /\ k + 1 \in 2..Len(t) /\ k + 1 \in 1..Len(t)
  BY TailFacts
<1>. HIDE DEF u
<1>2. Ordered(t) /\ RolesPointed(c, t) /\ BroadcastsSpoken(c, t)
  BY DEF Stacked
<1>3. Ordered(u)
  BY <1>1, <1>2 DEF Ordered
<1>4. RolesPointed(c, u)
  BY <1>1, <1>2 DEF RolesPointed
<1>5. \A k \in 1..Len(u) : IsBroadcast(u[k]) => Spoken(c, u[k]) /\ Waits(u[k])
  BY <1>1, <1>2 DEF BroadcastsSpoken
<1>6. BroadcastsSpoken(c, u) /\ AllWait(u)
  BY <1>5, Zenon DEF BroadcastsSpoken, AllWait
<1>7. IsInner(t[1]) \/ NoneBound(u)
  <2>. SUFFICES ASSUME NEW k \in 1..Len(u), IsBound(u[k]) PROVE IsInner(t[1])
    BY Zenon DEF NoneBound
  <2>. QED
    BY <1>1, <1>2 DEF Ordered
<1>. QED
  BY <1>3, <1>4, <1>6, <1>7 DEF Stacked, u

\* Pushing an item.
LEMMA PushStack ==
  ASSUME NEW c, NEW t \in Seq(Item), NEW x \in Item, Stacked(c, t), AllWait(t),
         IsInner(x) \/ NoneBound(t), IsRole(x) => Pointed(c, x), IsBroadcast(x) => Spoken(c, x)
  PROVE  /\ <<x>> \o t \in Seq(Item) /\ Stacked(c, <<x>> \o t)
         /\ (IsBroadcast(x) => Waits(x)) => AllWait(<<x>> \o t)
<1>. DEFINE u == <<x>> \o t
<1>1. /\ u \in Seq(Item) /\ Len(u) = Len(t) + 1 /\ Len(t) \in Nat /\ u[1] = x
      /\ \A k \in 2..Len(t) + 1 : u[k] = t[k - 1] /\ k - 1 \in 1..Len(t)
  BY PushFacts
<1>. HIDE DEF u
<1>2. Ordered(t) /\ RolesPointed(c, t) /\ BroadcastsSpoken(c, t)
  BY DEF Stacked
<1>3. Ordered(u)
  <2>. SUFFICES ASSUME NEW j \in 1..Len(u), IsBound(u[j]), NEW i \in 1..(j - 1)
       PROVE  IsInner(u[i])
    BY Zenon DEF Ordered
  <2>1. j \in 2..Len(t) + 1 /\ j - 1 \in 1..Len(t) /\ IsBound(t[j - 1]) /\ i \in 1..Len(t) + 1
    BY <1>1
  <2>2. IsInner(x)
    BY <2>1, Zenon DEF NoneBound
  <2>3. CASE i = 1
    BY <1>1, <2>2, <2>3
  <2>4. CASE i # 1
    <3>1. i - 1 \in 1..((j - 1) - 1) /\ u[i] = t[i - 1]
      BY <1>1, <2>1, <2>4
    <3>. QED
      BY <1>2, <2>1, <3>1 DEF Ordered
  <2>. QED
    BY <2>3, <2>4
<1>4. RolesPointed(c, u)
  BY <1>1, <1>2 DEF RolesPointed
<1>5. \A k \in 1..Len(u) : IsBroadcast(u[k]) => Spoken(c, u[k]) /\ (k > 1 => Waits(u[k]))
  BY <1>1, <1>2 DEF BroadcastsSpoken, AllWait
<1>6. (IsBroadcast(x) => Waits(x)) => AllWait(u)
  BY <1>1 DEF AllWait
<1>. QED
  BY <1>1, <1>3, <1>4, <1>5, <1>6 DEF Stacked, BroadcastsSpoken, u

(***************************************************************************)
(* A client is removed                                                     *)
(***************************************************************************)
\* A broadcast that is interrupted is not spoiled by the removal of a client.
LEMMA SpokenRemoved ==
  ASSUME NEW c \in Seq(Client), NEW i \in 1..Len(c), NEW b \in Broadcasts, Spoken(c, b), Waits(b)
  PROVE  Spoken(Without(c, i), b)
<1>. DEFINE d == Without(c, i)
<1>1. /\ Len(d) = Len(c) - 1 /\ Len(c) \in Nat
      /\ \A k \in 1..(Len(c) - 1) : d[k] = IF k < i THEN c[k] ELSE c[k + 1]
  BY WithoutFacts, LenProperties
<1>2. b.index \in Nat \ {0}
  BY DEF Broadcasts
<1>. HIDE DEF d
<1>. SUFFICES ASSUME NEW k \in 1..Len(d), Listens(d[k], b.room)
     PROVE  /\ k >= b.index => d[k].handle \notin b.heard
            /\ k < b.index /\ ~b.deposed => d[k].handle \in b.heard
  BY Zenon DEF Spoken, d
<1>3. CASE b.index = 1 /\ b.heard = {}
  BY <1>1, <1>3
<1>4. CASE b.deposed
  <2>1. PICK m \in 1..Len(c) : d[k] = c[m] /\ m >= k
    BY <1>1
  <2>2. m >= b.index => c[m].handle \notin b.heard
    BY <2>1 DEF Spoken
  <2>. QED
    BY <1>2, <1>4, <2>1, <2>2
<1>. QED
  BY <1>3, <1>4 DEF Waits

\* The index of a promoted client stays right when a client with a name goes.
LEMMA PointedRemoved ==
  ASSUME NEW c \in Seq(Client), NEW i \in 1..Len(c), c[i].name # None, NEW r \in Roles, Pointed(c, r)
  PROVE  Pointed(Without(c, i), r)
<1>. DEFINE d == Without(c, i)
<1>1. /\ Len(d) = Len(c) - 1 /\ Len(c) \in Nat
      /\ \A k \in 1..(Len(c) - 1) : d[k] = IF k < i THEN c[k] ELSE c[k + 1]
  BY WithoutFacts, LenProperties
<1>2. r.index \in Nat \ {0}
  BY DEF Roles
<1>3. i >= r.index
  BY <1>2 DEF Pointed
<1>. HIDE DEF d
<1>. SUFFICES ASSUME NEW k \in 1..Len(d)
     PROVE  /\ d[k].handle = r.of => k = r.index
            /\ k < r.index => d[k].name = None
  BY Zenon DEF Pointed, d
<1>4. \A m \in 1..Len(c) : /\ c[m].handle = r.of => m = r.index
                           /\ m < r.index => c[m].name = None
  BY Zenon DEF Pointed
<1>5. CASE k < i
  BY <1>1, <1>4, <1>5
<1>6. CASE k >= i
  <2>1. d[k] = c[k + 1] /\ k + 1 \in 1..Len(c)
    BY <1>1, <1>6
  <2>. QED
    BY <1>2, <1>3, <1>4, <1>6, <2>1
<1>. QED
  BY <1>5, <1>6, <1>1

\* Whoever is removed, what waits on the stack is still right: indices move with
\* the client, and an interrupted broadcast has not begun or has removed the admin.
LEMMA StackRemoved ==
  ASSUME NEW c \in Seq(Client), NEW i \in 1..Len(c), NEW t \in Seq(Item), Stacked(c, t), AllWait(t),
         c[i].name # None \/ NoneBound(t)
  PROVE  Stacked(Without(c, i), t)
<1>. DEFINE d == Without(c, i)
<1>1. Ordered(t) /\ RolesPointed(c, t) /\ BroadcastsSpoken(c, t)
  BY DEF Stacked
<1>2. \A k \in 1..Len(t) : t[k] \in Item
  OBVIOUS
<1>3. RolesPointed(d, t)
  <2>. SUFFICES ASSUME NEW k \in 1..Len(t), IsRole(t[k]) PROVE Pointed(d, t[k])
    BY Zenon DEF RolesPointed
  <2>1. t[k] \in Roles
    BY <1>2, Kinds, Zenon DEF IsRole
  <2>2. IsBound(t[k])
    BY DEF IsBound, IsRole
  <2>3. c[i].name # None /\ Pointed(c, t[k])
    BY <1>1, <2>2, Zenon DEF NoneBound, RolesPointed
  <2>. QED
    BY <2>1, <2>3, PointedRemoved, Zenon
<1>4. \A k \in 1..Len(t) : IsBroadcast(t[k]) => Spoken(d, t[k])
  <2>. SUFFICES ASSUME NEW k \in 1..Len(t), IsBroadcast(t[k]) PROVE Spoken(d, t[k])
    BY Zenon
  <2>1. t[k] \in Broadcasts
    BY <1>2, Kinds, Zenon DEF IsBroadcast
  <2>2. Spoken(c, t[k]) /\ Waits(t[k])
    BY <1>1, Zenon DEF AllWait, BroadcastsSpoken
  <2>. QED
    BY <2>1, <2>2, SpokenRemoved, Zenon
<1>5. BroadcastsSpoken(d, t)
  BY <1>1, <1>4, Zenon DEF BroadcastsSpoken
<1>. QED
  BY <1>1, <1>3, <1>5, Zenon DEF Stacked

\* What removeClientAt leaves to do.
Left(c, i, announce, rest) ==
  (IF announce /\ c[i].name # None THEN <<Broadcast(c[i].room)>> ELSE <<>>)
    \o (IF c[i].admin THEN <<Promote>> ELSE <<>>) \o rest

\* The call of promoteFirstAdmin is an item that can stand inside the stack.
LEMMA PromoteFacts == Promote \in Item /\ IsInner(Promote) /\ ~IsRole(Promote) /\ ~IsBroadcast(Promote) /\ IsPromote(Promote)
<1>1. Promote \in Steps
  BY DEF Promote, Steps
<1>2. Promote \in Item
  BY <1>1, Zenon DEF Item
<1>3. Promote.do = "promote"
  BY DEF Promote
<1>. QED
  BY <1>2, <1>3 DEF IsInner, IsRole, IsBroadcast, IsPromote

\* A broadcast that has not begun is an item that can stand inside the stack.
LEMMA BroadcastFacts ==
  ASSUME NEW room \in Rooms \cup {Everywhere}
  PROVE  /\ Broadcast(room) \in Item /\ IsInner(Broadcast(room)) /\ ~IsRole(Broadcast(room))
         /\ Waits(Broadcast(room)) /\ \A c : Spoken(c, Broadcast(room))
<1>1. Broadcast(room) \in Broadcasts
  BY DEF Broadcast, Broadcasts
<1>2. Broadcast(room) \in Item
  BY <1>1, Zenon DEF Item
<1>3. Broadcast(room).do = "broadcast" /\ Broadcast(room).index = 1 /\ Broadcast(room).heard = {}
  BY DEF Broadcast
<1>4. IsInner(Broadcast(room)) /\ ~IsRole(Broadcast(room))
  BY <1>3 DEF IsInner, IsRole
<1>5. PICK x : x = Broadcast(room)
  OBVIOUS
<1>6. Waits(x) /\ \A c : Spoken(c, x)
  BY <1>3, <1>5 DEF Waits, Spoken
<1>. QED
  BY <1>2, <1>4, <1>5, <1>6, Zenon

\* What removeClientAt still has to do after the removal: the announcement, the
\* promotion, then the caller's rest; a promotion needed is on the stack.
LEMMA LeftFacts ==
  ASSUME NEW c \in Seq(Client), NEW i \in 1..Len(c), NEW d, NEW announce \in BOOLEAN, NEW rest \in Seq(Item),
         Stacked(d, rest), c[i].admin \/ announce => AllWait(rest)
  PROVE  /\ Left(c, i, announce, rest) \in Seq(Item) /\ Stacked(d, Left(c, i, announce, rest))
         /\ HasPromote(rest) \/ c[i].admin => HasPromote(Left(c, i, announce, rest))
<1>. DEFINE v == IF c[i].admin THEN <<Promote>> \o rest ELSE rest
            u == IF announce /\ c[i].name # None THEN <<Broadcast(c[i].room)>> \o v ELSE v
<1>1. c[i].room \in Rooms \cup {Everywhere} /\ c[i].admin \in BOOLEAN
  <2>1. c[i] \in Client
    OBVIOUS
  <2>. QED
    BY <2>1 DEF Client
<1>2. PICK x : x = Broadcast(c[i].room)
  OBVIOUS
<1>3. x \in Item /\ IsInner(x) /\ ~IsRole(x) /\ Spoken(d, x)
  BY <1>1, <1>2, BroadcastFacts, Zenon
<1>4. PICK y : y = Promote
  OBVIOUS
<1>5. y \in Item /\ IsInner(y) /\ ~IsRole(y) /\ ~IsBroadcast(y) /\ IsPromote(y)
  BY <1>4, PromoteFacts, Zenon
<1>6. Left(c, i, announce, rest) = u
  <2>1. <<x>> \in Seq(Item) /\ <<y>> \in Seq(Item) /\ <<>> \in Seq(Item)
    BY <1>3, <1>5
  <2>2. \A a, b \in Seq(Item) : (a \o b) \o rest = a \o (b \o rest)
    BY ConcatAssociative
  <2>3. \A b \in Seq(Item) : <<>> \o b = b /\ b \o rest \in Seq(Item)
    BY ConcatEmptySeq, ConcatProperties
  <2>4. v \in Seq(Item)
    BY <1>4, <2>1, <2>3
  <2>. QED
    BY <1>2, <1>4, <2>1, <2>2, <2>3, <2>4 DEF Left
<1>7. /\ v \in Seq(Item) /\ Stacked(d, v) /\ (announce => AllWait(v))
      /\ HasPromote(rest) \/ c[i].admin => HasPromote(v)
  <2>1. CASE c[i].admin
    <3>1. <<y>> \o rest \in Seq(Item) /\ Stacked(d, <<y>> \o rest) /\ AllWait(<<y>> \o rest)
      BY <1>5, <2>1, PushStack, Zenon
    <3>2. (<<y>> \o rest)[1] = y /\ 1 \in 1..Len(<<y>> \o rest)
      BY <1>5, PushFacts
    <3>3. HasPromote(<<y>> \o rest)
      BY <1>5, <3>2, Zenon DEF HasPromote
    <3>. QED
      BY <1>4, <2>1, <3>1, <3>3, Zenon
  <2>2. CASE ~c[i].admin
    BY <2>2, Zenon
  <2>. QED
    BY <2>1, <2>2
<1>. HIDE DEF v
<1>8. CASE announce /\ c[i].name # None
  <2>1. <<x>> \o v \in Seq(Item) /\ Stacked(d, <<x>> \o v)
    BY <1>3, <1>7, <1>8, PushStack, Zenon
  <2>2. \A k \in 1..Len(v) : (<<x>> \o v)[k + 1] = v[k] /\ k + 1 \in 1..Len(<<x>> \o v)
    BY <1>3, <1>7, PushFacts
  <2>3. HasPromote(v) => HasPromote(<<x>> \o v)
    BY <2>2, Zenon DEF HasPromote
  <2>. QED
    BY <1>2, <1>6, <1>7, <1>8, <2>1, <2>3, Zenon
<1>9. CASE ~(announce /\ c[i].name # None)
  BY <1>6, <1>7, <1>9, Zenon
<1>. QED
  BY <1>8, <1>9, Zenon

\* removeClientAt keeps everything in order.
LEMMA Removal ==
  ASSUME NEW c \in Seq(Client), NEW i \in 1..Len(c), NEW announce \in BOOLEAN, NEW t, NEW rest \in Seq(Item),
         Distinguished(c), Promised(c, t), HasPromote(t) => HasPromote(rest),
         Stacked(Without(c, i), rest), c[i].admin \/ announce => AllWait(rest)
  PROVE  /\ Left(c, i, announce, rest) \in Seq(Item)
         /\ Stacked(Without(c, i), Left(c, i, announce, rest))
         /\ Promised(Without(c, i), Left(c, i, announce, rest))
<1>. DEFINE d == Without(c, i)
            u == Left(c, i, announce, rest)
<1>1. /\ u \in Seq(Item) /\ Stacked(d, u) /\ (HasPromote(rest) \/ c[i].admin => HasPromote(u))
  BY LeftFacts, Zenon
<1>2. /\ Len(d) = Len(c) - 1 /\ Len(c) \in Nat
      /\ \A k \in 1..(Len(c) - 1) : d[k] = IF k < i THEN c[k] ELSE c[k + 1]
  BY WithoutFacts, LenProperties
<1>. HIDE DEF d, u
<1>3. \A k \in 1..Len(d) : \E m \in 1..Len(c) : d[k] = c[m]
  BY <1>2
<1>4. \A m \in 1..Len(c) : m # i => \E k \in 1..Len(d) : d[k] = c[m]
  <2>. SUFFICES ASSUME NEW m \in 1..Len(c), m # i PROVE \E k \in 1..Len(d) : d[k] = c[m]
    OBVIOUS
  <2>1. CASE m < i
    BY <1>2, <2>1
  <2>2. CASE m > i
    <3>1. m - 1 \in 1..Len(d) /\ d[m - 1] = c[m]
      BY <1>2, <2>2
    <3>. QED
      BY <3>1
  <2>. QED
    BY <2>1, <2>2, <1>2
<1>5. Promised(d, u)
  <2>1. CASE \A m \in 1..Len(c) : c[m].name = None
    BY <1>3, <2>1 DEF Promised
  <2>2. CASE HasPromote(t)
    BY <1>1, <2>2, Zenon DEF Promised
  <2>3. CASE \E m \in 1..Len(c) : c[m].admin
    <3>1. PICK m \in 1..Len(c) : c[m].admin
      BY <2>3
    <3>2. CASE m = i
      BY <1>1, <3>1, <3>2, Zenon DEF Promised
    <3>3. CASE m # i
      BY <1>4, <3>1, <3>3, Zenon DEF Promised
    <3>. QED
      BY <3>2, <3>3
  <2>. QED
    BY <2>1, <2>2, <2>3, Zenon DEF Promised
<1>. QED
  BY <1>1, <1>5 DEF d, u

(***************************************************************************)
(* Every step keeps the invariant                                          *)
(***************************************************************************)
\* Positions are positions.
LEMMA Places ==
  ASSUME clients \in Seq(Client)
  PROVE  /\ Len(clients) \in Nat /\ DOMAIN clients = 1..Len(clients)
         /\ \A h : FindClient(h) = {i \in 1..Len(clients) : clients[i].handle = h}
         /\ \A n : FindName(n) = {i \in 1..Len(clients) : clients[i].name = n}
         /\ Named = {i \in 1..Len(clients) : clients[i].name # None}
         /\ Admins = {i \in 1..Len(clients) : clients[i].name # None /\ clients[i].admin}
<1>1. Len(clients) \in Nat /\ DOMAIN clients = 1..Len(clients)
  BY LenProperties
<1>. QED
  BY <1>1, Zenon DEF FindClient, FindName, Named, Admins, Positions

\* The fields of a client that is in the room.
LEMMA ClientFacts ==
  ASSUME NEW c \in Seq(Client), NEW i \in 1..Len(c)
  PROVE  /\ c[i] \in Client /\ c[i].handle \in Handle /\ c[i].name \in Names \cup {None}
         /\ c[i].admin \in BOOLEAN /\ c[i].room \in Rooms
<1>1. c[i] \in Client
  OBVIOUS
<1>2. PICK x : x = c[i]
  OBVIOUS
<1>3. x \in Client => x.handle \in Handle /\ x.name \in Names \cup {None} /\ x.admin \in BOOLEAN /\ x.room \in Rooms
  BY DEF Client
<1>. QED
  BY <1>1, <1>2, <1>3, Zenon

\* What the code finds in a set that is not empty is in it.
LEMMA TheFacts == ASSUME NEW P, P # {} PROVE The(P) \in P
  BY DEF The

\* With nothing on the stack nobody is banned, and an admin is there.
LEMMA NothingLeft ==
  ASSUME NEW c, NEW b
  PROVE  /\ ~HasPromote(<<>>)
         /\ BannedGo(c, b, <<>>) => \A t : BannedGo(c, b, t)
         /\ Promised(c, <<>>) => \A t : Promised(c, t)
<1>1. \A h : ~Going(h, <<>>)
  BY DEF Going
<1>2. ~HasPromote(<<>>)
  BY DEF HasPromote
<1>. QED
  BY <1>1, <1>2, Zenon DEF BannedGo, Promised

\* Waiting handshakes get older.
LEMMA Aged ==
  ASSUME NEW p \in Seq(Waiting)
  PROVE  LET q == [i \in DOMAIN p |-> [p[i] EXCEPT !.age = @ + 1]]
         IN /\ q \in Seq(Waiting) /\ HandlesOf(q) = HandlesOf(p) /\ (NoTwins(p) => NoTwins(q))
            /\ p = <<>> => q = <<>>
<1>. DEFINE q == [i \in DOMAIN p |-> [p[i] EXCEPT !.age = @ + 1]]
<1>1. Len(p) \in Nat /\ DOMAIN p = 1..Len(p) /\ \A i \in 1..Len(p) : p[i] \in Waiting
  BY LenProperties
<1>2. \A i \in 1..Len(p) : [p[i] EXCEPT !.age = @ + 1] \in Waiting /\ [p[i] EXCEPT !.age = @ + 1].handle = p[i].handle
  BY <1>1 DEF Waiting
<1>3. q \in [1..Len(p) -> Waiting] /\ DOMAIN q = 1..Len(p) /\ \A i \in 1..Len(p) : q[i].handle = p[i].handle
  BY <1>1, <1>2
<1>. HIDE DEF q
<1>4. q \in Seq(Waiting) /\ Len(q) = Len(p)
  BY <1>1, <1>3
<1>5. HandlesOf(q) = HandlesOf(p)
  BY <1>3, <1>4 DEF HandlesOf
<1>6. NoTwins(p) => NoTwins(q)
  BY <1>3, <1>4 DEF NoTwins
<1>7. p = <<>> => q = <<>>
  BY <1>4, EmptySeq
<1>. QED
  BY <1>4, <1>5, <1>6, <1>7 DEF q

\* The steps of the main loop between two clients or two handshakes call nothing,
\* and keep the invariant.
LEMMA LoopSteps ==
  ASSUME Inductive, Poll \/ NoneToAccept \/ AllStepped \/ DrainNext \/ ReceiveWait
  PROVE  Inductive'
<1>. USE DEF Idle
<1>1. /\ TypeOK /\ (phase = "failed" => todo = <<>>) /\ (phase # "failed" => Connected(clients, pending, handles))
      /\ Sound(clients, pending, phase, todo, banned, draining, next_handle)
      /\ Stepped(plaintext, pending, phase, index)
  BY DEF Inductive
<1>2. clients \in Seq(Client) /\ pending \in Seq(Waiting) /\ index \in Nat \ {0} /\ todo \in Seq(Item)
  BY <1>1 DEF TypeOK
<1>3. CASE Poll
  <2>1. /\ pending' \in Seq(Waiting) /\ HandlesOf(pending') = HandlesOf(pending)
        /\ (NoTwins(pending) => NoTwins(pending')) /\ (pending = <<>> => pending' = <<>>)
    BY <1>2, <1>3, Aged DEF Poll
  <2>2. /\ phase = "poll" /\ phase' = "accept" /\ index' = 1
        /\ UNCHANGED <<plaintext, clients, lists, draining, todo, network, lines>>
    BY <1>3 DEF Poll
  <2>3. TypeOK'
    BY <1>1, <2>1, <2>2 DEF TypeOK, lists, network
  <2>4. Connected(clients, pending', handles)
    BY <1>1, <2>1, <2>2 DEF Connected
  <2>5. Apart(clients, pending', next_handle) /\ DrainsClients(draining, pending', next_handle)
    BY <1>1, <2>1 DEF Sound, Apart, DrainsClients
  <2>6. Sound(clients, pending', "accept", todo, banned, draining, next_handle)
    BY <1>1, <2>2, <2>5 DEF Sound
  <2>7. Stepped(plaintext, pending', "accept", 1)
    BY <1>1, <2>1, <2>2 DEF Stepped
  <2>. QED
    BY <2>2, <2>3, <2>4, <2>6, <2>7 DEF Inductive, lists, network
<1>4. CASE NoneToAccept
  <2>1. /\ phase = "accept" /\ phase' = IF plaintext THEN "drain" ELSE "step"
        /\ UNCHANGED <<plaintext, clients, pending, lists, index, draining, todo, network, lines>>
    BY <1>4 DEF NoneToAccept
  <2>2. TypeOK'
    BY <1>1, <2>1 DEF TypeOK, lists, network
  <2>3. Sound(clients, pending, phase', todo, banned, draining, next_handle)
    BY <1>1, <2>1 DEF Sound
  <2>4. Stepped(plaintext, pending, phase', index)
    BY <1>1, <1>2, <2>1 DEF Stepped
  <2>. QED
    BY <1>1, <2>1, <2>2, <2>3, <2>4 DEF Inductive, lists, network
<1>5. CASE AllStepped
  <2>1. /\ phase = "step" /\ phase' = "drain" /\ index > Len(pending) /\ index' = 1
        /\ UNCHANGED <<plaintext, clients, pending, lists, draining, todo, network, lines>>
    BY <1>5 DEF AllStepped
  <2>2. TypeOK'
    BY <1>1, <2>1 DEF TypeOK, lists, network
  <2>3. Sound(clients, pending, phase', todo, banned, draining, next_handle)
    BY <1>1, <2>1 DEF Sound
  <2>4. Stepped(plaintext, pending, phase', 1)
    BY <1>1, <1>2, <2>1, LenProperties DEF Stepped
  <2>. QED
    BY <1>1, <2>1, <2>2, <2>3, <2>4 DEF Inductive, lists, network
<1>6. CASE DrainNext
  <2>1. /\ phase = "drain" /\ index \in 1..Len(clients) /\ draining' = clients[index].handle
        /\ UNCHANGED <<plaintext, clients, pending, lists, phase, index, todo, network, lines>>
    BY <1>2, <1>6, LenProperties DEF DrainNext
  <2>2. clients[index].handle \in Handle
    BY <1>2, <2>1, ClientFacts
  <2>3. TypeOK'
    BY <1>1, <2>1, <2>2 DEF TypeOK, lists, network
  <2>4. clients[index].handle \in HandlesOf(clients)
    BY <2>1 DEF HandlesOf
  <2>5. DrainsClients(draining', pending, next_handle)
    BY <1>1, <2>1, <2>4 DEF Sound, Apart, DrainsClients
  <2>6. Sound(clients, pending, phase, todo, banned, draining', next_handle)
    BY <1>1, <2>5 DEF Sound
  <2>. QED
    BY <1>1, <2>1, <2>3, <2>6 DEF Inductive, lists, network
<1>7. CASE ReceiveWait
  <2>1. /\ phase = "drain" /\ draining' = None /\ index' = index + 1
        /\ UNCHANGED <<plaintext, clients, pending, lists, phase, todo, network, lines>>
    BY <1>7 DEF ReceiveWait, Draining
  <2>2. TypeOK'
    BY <1>1, <1>2, <2>1 DEF TypeOK, lists, network
  <2>3. Sound(clients, pending, phase, todo, banned, None, next_handle)
    BY <1>1 DEF Sound, DrainsClients
  <2>4. Stepped(plaintext, pending, phase, index')
    BY <1>1, <2>1 DEF Stepped
  <2>. QED
    BY <1>1, <2>1, <2>2, <2>3, <2>4 DEF Inductive, lists, network
<1>. QED
  BY <1>3, <1>4, <1>5, <1>6, <1>7

\* A stack that is not empty has a top.
LEMMA TopIsThere == ASSUME NEW t \in Seq(Item), t # <<>> PROVE 1 \in 1..Len(t)
BY EmptySeq

\* A look at the top of the stack.
LEMMA TopFacts ==
  ASSUME NEW c, NEW b, NEW t \in Seq(Item), t # <<>>, Stacked(c, t)
  PROVE  /\ t[1] \in Item
         /\ ~IsInner(t[1]) => NoneBound(t) /\ AllWait(t) /\ ~HasPromote(t)
         /\ HasPromote(t) /\ ~IsPromote(t[1]) => HasPromote(Tail(t))
         /\ t[1].do # "remove" /\ BannedGo(c, b, t) => BannedGo(c, b, Tail(t))
         /\ t[1].do \notin {"remove", "attempt"} /\ BannedGo(c, b, t) => \A i \in 1..Len(c) : c[i].name \notin b
<1>1. /\ t[1] \in Item /\ Len(t) \in Nat \ {0} /\ Len(Tail(t)) = Len(t) - 1
      /\ \A k \in 1..Len(Tail(t)) : Tail(t)[k] = t[k + 1] /\ k + 1 \in 2..Len(t) /\ k + 1 \in 1..Len(t)
      /\ \A k \in 1..Len(t) : k = 1 \/ (k - 1 \in 1..Len(Tail(t)) /\ t[k] = Tail(t)[k - 1])
  BY TailFacts
<1>2. \A x : /\ IsBroadcast(x) => IsInner(x)
             /\ IsBound(x) => IsInner(x)
             /\ IsPromote(x) => IsBound(x)
  BY DEF IsInner, IsBroadcast, IsBound, IsPromote
<1>3. ASSUME ~IsInner(t[1]) PROVE NoneBound(t) /\ AllWait(t) /\ ~HasPromote(t)
  <2>1. Ordered(t) /\ BroadcastsSpoken(c, t)
    BY DEF Stacked
  <2>2. \A k \in 1..Len(t) : IsBound(t[k]) => k = 1
    BY <1>1, <1>3, <2>1 DEF Ordered
  <2>3. NoneBound(t)
    BY <1>2, <1>3, <2>2, Zenon DEF NoneBound
  <2>4. \A k \in 1..Len(t) : IsBroadcast(t[k]) => k > 1
    BY <1>1, <1>2, <1>3
  <2>5. AllWait(t)
    BY <2>1, <2>4, Zenon DEF AllWait, BroadcastsSpoken
  <2>. QED
    BY <1>2, <2>3, <2>5, Zenon DEF NoneBound, HasPromote
<1>4. HasPromote(t) /\ ~IsPromote(t[1]) => HasPromote(Tail(t))
  BY <1>1, Zenon DEF HasPromote
<1>5. t[1].do # "remove" => \A h : Going(h, t) => Going(h, Tail(t))
  <2>. SUFFICES ASSUME t[1].do # "remove", NEW h, Going(h, t) PROVE Going(h, Tail(t))
    OBVIOUS
  <2>1. Len(t) >= 2 /\ t[2].do = "remove" /\ t[2].who = h
    BY DEF Going
  <2>2. Len(Tail(t)) >= 1 /\ Tail(t)[1] = t[2]
    BY <1>1, <2>1
  <2>. QED
    BY <2>1, <2>2 DEF Going
<1>6. t[1].do \notin {"remove", "attempt"} => \A h : ~Going(h, t)
  BY DEF Going
<1>. QED
  BY <1>1, <1>3, <1>4, <1>5, <1>6, Zenon DEF BannedGo

\* What popping does to the promise of an admin.
LEMMA PopPromised ==
  ASSUME NEW c, NEW t \in Seq(Item), t # <<>>, Stacked(c, t), Promised(c, t), ~IsPromote(t[1])
  PROVE  Promised(c, Tail(t))
BY TopFacts, Zenon DEF Promised

\* Some facts of a state with a call in progress.
LEMMA Busy ==
  ASSUME Inductive, todo # <<>>
  PROVE  /\ clients \in Seq(Client) /\ pending \in Seq(Waiting) /\ todo \in Seq(Item) /\ phase # "failed"
         /\ Connected(clients, pending, handles) /\ Promised(clients, todo)
         /\ Apart(clients, pending, next_handle) /\ DrainsClients(draining, pending, next_handle)
         /\ Distinguished(clients) /\ Stacked(clients, todo) /\ BannedGo(clients, banned, todo)
         /\ TypeOK /\ Stepped(plaintext, pending, phase, index)
         /\ todo[1] \in Item /\ Tail(todo) \in Seq(Item)
<1>1. clients \in Seq(Client) /\ pending \in Seq(Waiting) /\ todo \in Seq(Item)
  BY DEF Inductive, TypeOK
<1>2. todo[1] \in Item /\ Tail(todo) \in Seq(Item)
  BY <1>1, TailFacts
<1>. QED
  BY <1>1, <1>2, Zenon DEF Inductive, Sound

\* To keep the invariant with the clients, a stack and less connections that
\* are in order.
LEMMA Goes ==
  ASSUME Inductive, todo # <<>>,
         clients' \in Seq(Client), todo' \in Seq(Item), handles' \subseteq handles, sessions' \subseteq Handle,
         UNCHANGED <<plaintext, pending, lists, phase, index, next_handle, lines>>,
         draining' \in {draining, None},
         Connected(clients', pending, handles'), Promised(clients', todo'), Apart(clients', pending, next_handle),
         Distinguished(clients'), Stacked(clients', todo'), BannedGo(clients', banned, todo')
  PROVE  Inductive'
<1>1. /\ TypeOK /\ Stepped(plaintext, pending, phase, index) /\ DrainsClients(draining, pending, next_handle)
      /\ phase # "failed"
  BY Busy, Zenon
<1>2. /\ plaintext' = plaintext /\ pending' = pending /\ banned' = banned /\ whitelist' = whitelist
      /\ whitelistOn' = whitelistOn /\ phase' = phase /\ index' = index /\ next_handle' = next_handle /\ lines' = lines
  BY DEF lists
<1>3. TypeOK'
  BY <1>1, <1>2 DEF TypeOK
<1>4. DrainsClients(draining', pending, next_handle)
  BY <1>1 DEF DrainsClients
<1>5. Sound(clients', pending', phase', todo', banned', draining', next_handle')
  BY <1>2, <1>4, Zenon DEF Sound
<1>. QED
  BY <1>1, <1>2, <1>3, <1>5 DEF Inductive

\* A line that is sent, attempted or returned from takes the top off the stack,
\* and keeps the invariant.
LEMMA Pops ==
  ASSUME Inductive, AttemptLine \/ SendLine \/ BroadcastEnds \/ ReturnLine
  PROVE  Inductive'
<1>1. todo # <<>>
  BY DEF AttemptLine, SendLine, BroadcastEnds, ReturnLine, Doing
<1>2. /\ clients \in Seq(Client) /\ todo \in Seq(Item)
      /\ Connected(clients, pending, handles) /\ Promised(clients, todo)
      /\ Apart(clients, pending, next_handle)
      /\ Distinguished(clients) /\ Stacked(clients, todo) /\ BannedGo(clients, banned, todo)
      /\ todo[1] \in Item /\ Tail(todo) \in Seq(Item) /\ sessions \subseteq Handle
  BY <1>1, Busy DEF TypeOK
<1>3. Stacked(clients, Tail(todo))
  BY <1>1, <1>2, PopStack, Zenon
<1>4. todo[1].do # "promote" => Promised(clients, Tail(todo))
  BY <1>1, <1>2, PopPromised, Zenon DEF IsPromote
<1>5. todo[1].do # "remove" => BannedGo(clients, banned, Tail(todo))
  BY <1>1, <1>2, TopFacts, Zenon
<1>6. CASE AttemptLine \/ BroadcastEnds \/ (SendLine /\ todo' = Tail(todo))
  <2>1. /\ todo[1].do \notin {"promote", "remove"} /\ todo' = Tail(todo)
        /\ UNCHANGED <<plaintext, clients, pending, lists, phase, index, draining, handles, next_handle, lines>>
        /\ sessions' \subseteq sessions
    BY <1>6 DEF AttemptLine, BroadcastEnds, SendLine, Doing, Sent, NotSent, loop, network
  <2>. QED
    BY <1>1, <1>2, <1>3, <1>4, <1>5, <2>1, Goes, Zenon
<1>7. CASE SendLine /\ todo' # Tail(todo)
  <2>1. /\ todo[1].do = "send" /\ todo' = todo[1].otherwise
        /\ UNCHANGED <<plaintext, clients, pending, lists, phase, index, draining, handles, next_handle, lines>>
        /\ sessions' \subseteq sessions
    BY <1>7 DEF SendLine, Doing, Sent, NotSent, loop, network
  <2>2. todo[1] \in Sends
    BY <1>2, <2>1, Kinds, Zenon
  <2>3. todo' \in Seq(Removals \cup Returns)
    BY <2>1, <2>2 DEF Sends
  <2>4. Removals \cup Returns \subseteq PlainItem
    BY Zenon DEF PlainItem
  <2>5. todo' \in Seq(PlainItem)
    BY <2>3, <2>4
  <2>6. todo' \in Seq(Item) /\ Stacked(clients, todo')
    BY <2>5, PlainStack
  <2>7. ~IsInner(todo[1]) /\ todo[1].do \notin {"remove", "attempt"}
    BY <2>1 DEF IsInner
  <2>8. Promised(clients, todo')
    BY <1>1, <1>2, <2>7, TopFacts, Zenon DEF Promised
  <2>9. BannedGo(clients, banned, todo')
    BY <1>1, <1>2, <2>7, TopFacts, Zenon DEF BannedGo
  <2>. QED
    BY <1>1, <1>2, <2>1, <2>6, <2>8, <2>9, Goes, Zenon
<1>8. CASE ReturnLine
  <2>1. /\ todo[1].do \in {"return", "return if present"} /\ todo' = <<>>
        /\ UNCHANGED <<plaintext, clients, pending, lists, phase, index, handles, sessions, next_handle, lines>>
        /\ draining' \in {draining, None}
    BY <1>8 DEF ReturnLine, Doing, network
  <2>2. <<>> \in Seq(PlainItem)
    OBVIOUS
  <2>3. <<>> \in Seq(Item) /\ Stacked(clients, <<>>)
    BY <2>2, PlainStack
  <2>4. ~IsInner(todo[1]) /\ todo[1].do \notin {"remove", "attempt"}
    BY <2>1 DEF IsInner
  <2>5. Promised(clients, <<>>)
    BY <1>1, <1>2, <2>4, TopFacts, Zenon DEF Promised
  <2>6. BannedGo(clients, banned, <<>>)
    BY <1>1, <1>2, <2>4, TopFacts, Zenon DEF BannedGo
  <2>. QED
    BY <1>1, <1>2, <2>1, <2>3, <2>5, <2>6, Goes, Zenon
<1>. QED
  BY <1>6, <1>7, <1>8

\* Nobody who is banned is left when that client goes.
LEMMA BannedRemoved ==
  ASSUME NEW c \in Seq(Client), NEW i \in 1..Len(c), NEW b, \A k \in 1..Len(c) : c[k].name \in b => k = i
  PROVE  \A t : BannedGo(Without(c, i), b, t)
<1>. DEFINE d == Without(c, i)
<1>1. /\ Len(d) = Len(c) - 1 /\ Len(c) \in Nat
      /\ \A k \in 1..(Len(c) - 1) : d[k] = IF k < i THEN c[k] ELSE c[k + 1]
  BY WithoutFacts, LenProperties
<1>. HIDE DEF d
<1>2. \A k \in 1..Len(d) : \E m \in 1..Len(c) : d[k] = c[m] /\ m # i
  BY <1>1
<1>. QED
  BY <1>2, Zenon DEF BannedGo, d

\* removeClientAt as a step.
LEMMA RemovalStep ==
  ASSUME Inductive, todo # <<>>, NEW i \in 1..Len(clients), NEW announce \in BOOLEAN, NEW rest \in Seq(Item),
         RemoveClientAt(i, announce, rest), HasPromote(todo) => HasPromote(rest),
         Stacked(Without(clients, i), rest), clients[i].admin \/ announce => AllWait(rest),
         \A k \in 1..Len(clients) : clients[k].name \in banned => k = i,
         UNCHANGED <<plaintext, pending, lists, loop, next_handle, lines>>
  PROVE  Inductive'
<1>1. /\ clients \in Seq(Client) /\ Connected(clients, pending, handles) /\ Promised(clients, todo)
      /\ Apart(clients, pending, next_handle) /\ Distinguished(clients) /\ sessions \subseteq Handle
  BY Busy DEF TypeOK
<1>2. /\ clients' = Without(clients, i) /\ todo' = Left(clients, i, announce, rest)
      /\ handles' = handles \ {clients[i].handle} /\ sessions' = sessions \ {clients[i].handle}
  BY DEF RemoveClientAt, Left
<1>3. clients' \in Seq(Client)
  BY <1>1, <1>2, WithoutFacts
<1>4. /\ Apart(clients', pending, next_handle) /\ Distinguished(clients')
      /\ HandlesOf(clients') = HandlesOf(clients) \ {clients[i].handle}
      /\ clients[i].handle \notin HandlesOf(pending)
  BY <1>1, <1>2, RemovedClient
<1>5. todo' \in Seq(Item) /\ Stacked(clients', todo') /\ Promised(clients', todo')
  BY <1>1, <1>2, Removal, Zenon
<1>6. Connected(clients', pending, handles')
  BY <1>1, <1>2, <1>4 DEF Connected
<1>7. BannedGo(clients', banned, todo')
  BY <1>1, <1>2, BannedRemoved, Zenon
<1>8. handles' \subseteq handles /\ sessions' \subseteq Handle
  BY <1>1, <1>2
<1>9. UNCHANGED <<plaintext, pending, lists, phase, index, next_handle, lines>> /\ draining' \in {draining, None}
  BY DEF loop
<1>. QED
  BY <1>3, <1>4, <1>5, <1>6, <1>7, <1>8, <1>9, Goes, Zenon

\* removeClientAt keeps the invariant: the arrays lose the client together, and if
\* it was the admin a promotion follows.
LEMMA RemoveClientStep ==
  ASSUME Inductive, RemoveClient
  PROVE  Inductive'
<1>1. todo # <<>> /\ todo[1].do = "remove"
  BY DEF RemoveClient, Doing
<1>2. /\ clients \in Seq(Client) /\ todo \in Seq(Item)
      /\ Connected(clients, pending, handles) /\ Promised(clients, todo)
      /\ Apart(clients, pending, next_handle)
      /\ Distinguished(clients) /\ Stacked(clients, todo) /\ BannedGo(clients, banned, todo)
      /\ todo[1] \in Item /\ Tail(todo) \in Seq(Item) /\ sessions \subseteq Handle
  BY <1>1, Busy DEF TypeOK
<1>3. todo[1] \in Removals
  BY <1>1, <1>2, Kinds, Zenon
<1>4. todo[1].announce \in BOOLEAN
  BY <1>3 DEF Removals
<1>5. ~IsInner(todo[1]) /\ ~IsPromote(todo[1])
  BY <1>1 DEF IsInner, IsPromote
<1>6. Stacked(clients, Tail(todo)) /\ AllWait(Tail(todo)) /\ NoneBound(Tail(todo))
  BY <1>1, <1>2, <1>5, PopStack, Zenon
<1>7. HasPromote(todo) => HasPromote(Tail(todo))
  BY <1>1, <1>2, <1>5, TopFacts, Zenon
<1>8. FindClient(todo[1].who) = {k \in 1..Len(clients) : clients[k].handle = todo[1].who}
  BY <1>2, Places, Zenon
<1>9. \A k \in 1..Len(clients) : clients[k].name \in banned => clients[k].handle = todo[1].who
  <2>1. \A h : Going(h, todo) => h = todo[1].who
    BY <1>1 DEF Going
  <2>. QED
    BY <1>2, <2>1, Zenon DEF BannedGo
<1>10. CASE FindClient(todo[1].who) # {}
  <2>1. PICK i : i = The(FindClient(todo[1].who))
    OBVIOUS
  <2>2. i \in 1..Len(clients) /\ clients[i].handle = todo[1].who
    BY <1>8, <1>10, <2>1, TheFacts, Zenon
  <2>3. /\ RemoveClientAt(i, todo[1].announce, Tail(todo))
        /\ UNCHANGED <<plaintext, pending, lists, loop, next_handle, lines>>
    BY <1>10, <2>1, Zenon DEF RemoveClient
  <2>4. \A k \in 1..Len(clients) : clients[k].name \in banned => k = i
    BY <1>2, <1>9, <2>2, Zenon DEF Apart, NoTwins
  <2>5. Stacked(Without(clients, i), Tail(todo))
    BY <1>2, <1>6, <2>2, StackRemoved, Zenon
  <2>. QED
    BY <1>1, <1>2, <1>4, <1>6, <1>7, <2>2, <2>3, <2>4, <2>5, RemovalStep, Zenon
<1>11. CASE FindClient(todo[1].who) = {}
  <2>1. /\ todo' = Tail(todo)
        /\ UNCHANGED <<plaintext, clients, pending, lists, phase, index, draining, handles, sessions, next_handle, lines>>
    BY <1>11 DEF RemoveClient, loop
  <2>2. Promised(clients, Tail(todo))
    BY <1>1, <1>2, <1>5, PopPromised, Zenon
  <2>3. BannedGo(clients, banned, Tail(todo))
    BY <1>8, <1>9, <1>11, Zenon DEF BannedGo
  <2>. QED
    BY <1>1, <1>2, <1>6, <2>1, <2>2, <2>3, Goes, Zenon
<1>. QED
  BY <1>10, <1>11

\* Whom a broadcast is sent to next.
LEMMA AudienceFacts ==
  ASSUME clients \in Seq(Client), NEW b \in Broadcasts, Audience(b.room, b.index) # {}
  PROVE  LET i == First(Audience(b.room, b.index))
         IN /\ i \in 1..Len(clients) /\ i >= b.index /\ Listens(clients[i], b.room)
            /\ \A k \in 1..Len(clients) : Listens(clients[k], b.room) /\ k >= b.index => k >= i
<1>1. b.index \in Nat \ {0} /\ Len(clients) \in Nat
  BY LenProperties DEF Broadcasts
<1>2. PICK A : A = Audience(b.room, b.index)
  OBVIOUS
<1>3. \A k : k \in A <=> k \in 1..Len(clients) /\ k >= b.index /\ Listens(clients[k], b.room)
  BY <1>1, <1>2 DEF Audience
<1>4. A \in SUBSET Nat /\ A # {}
  BY <1>2, <1>3
<1>5. First(A) \in A /\ \A k \in A : First(A) <= k
  BY <1>4, FirstFacts
<1>. QED
  BY <1>1, <1>2, <1>3, <1>5

\* A broadcast that reached a client, or removed it.
LEMMA ReachedFacts ==
  ASSUME NEW b \in Broadcasts, NEW i \in 1..Len(clients), clients \in Seq(Client)
  PROVE  /\ Reached(b, i) \in Broadcasts /\ Unreached(b, i) \in Broadcasts
         /\ Reached(b, i).room = b.room /\ Reached(b, i).index = i + 1
         /\ Reached(b, i).heard = b.heard \cup {clients[i].handle} /\ (Reached(b, i).deposed <=> b.deposed)
         /\ Unreached(b, i).room = b.room /\ Unreached(b, i).index = i
         /\ Unreached(b, i).heard = b.heard /\ (Unreached(b, i).deposed <=> b.deposed \/ clients[i].admin)
<1>1. clients[i].handle \in Handle /\ clients[i].admin \in BOOLEAN /\ Len(clients) \in Nat
  BY ClientFacts, LenProperties
<1>2. PICK h : h = clients[i].handle
  OBVIOUS
<1>3. PICK gone : gone = (b.deposed \/ clients[i].admin)
  OBVIOUS
<1>4. b.deposed \in BOOLEAN /\ gone \in BOOLEAN /\ i + 1 \in Nat \ {0} /\ i \in Nat \ {0} /\ b.heard \cup {h} \in SUBSET Handle
  <2>1. b.deposed \in BOOLEAN /\ b.heard \in SUBSET Handle
    BY DEF Broadcasts
  <2>2. gone \in BOOLEAN
    BY <1>1, <1>3, <2>1, Zenon
  <2>. QED
    BY <1>1, <1>2, <2>1, <2>2
<1>5. PICK heard \in SUBSET Handle : heard = b.heard \cup {h}
  BY <1>4
<1>6. PICK n \in Nat \ {0} : n = i + 1
  BY <1>4
<1>7. Reached(b, i) = [b EXCEPT !.index = n, !.heard = heard]
  BY <1>2, <1>5, <1>6 DEF Reached
<1>8. Unreached(b, i) = [b EXCEPT !.index = i, !.deposed = gone]
  BY <1>3 DEF Unreached
<1>9. \A x : x = [b EXCEPT !.index = n, !.heard = heard] =>
        x \in Broadcasts /\ x.room = b.room /\ x.index = n /\ x.heard = heard /\ x.deposed = b.deposed
  BY DEF Broadcasts
<1>10. \A x : x = [b EXCEPT !.index = i, !.deposed = gone] =>
        x \in Broadcasts /\ x.room = b.room /\ x.index = i /\ x.heard = b.heard /\ x.deposed = gone
  BY <1>4 DEF Broadcasts
<1>. QED
  BY <1>2, <1>3, <1>5, <1>6, <1>7, <1>8, <1>9, <1>10, Zenon

\* A broadcast is an item that can stand inside the stack.
LEMMA BroadcastItem ==
  ASSUME NEW b \in Broadcasts
  PROVE  b \in Item /\ IsInner(b) /\ ~IsRole(b) /\ IsBroadcast(b)
<1>1. b \in Item
  BY Zenon DEF Item
<1>2. b.do = "broadcast"
  BY DEF Broadcasts
<1>. QED
  BY <1>1, <1>2 DEF IsInner, IsRole, IsBroadcast

\* One turn of broadcastRoom's loop keeps the invariant, whether the client gets
\* the line, is skipped or is found dead and removed.
LEMMA BroadcastStep ==
  ASSUME Inductive, BroadcastLine
  PROVE  Inductive'
<1>1. todo # <<>> /\ todo[1].do = "broadcast"
  BY DEF BroadcastLine, Doing
<1>2. /\ clients \in Seq(Client) /\ todo \in Seq(Item)
      /\ Connected(clients, pending, handles) /\ Promised(clients, todo)
      /\ Apart(clients, pending, next_handle)
      /\ Distinguished(clients) /\ Stacked(clients, todo) /\ BannedGo(clients, banned, todo)
      /\ todo[1] \in Item /\ Tail(todo) \in Seq(Item) /\ sessions \subseteq Handle
  BY <1>1, Busy DEF TypeOK
<1>3. PICK b : b = todo[1]
  OBVIOUS
<1>4. b \in Broadcasts
  BY <1>1, <1>2, <1>3, Kinds, Zenon
<1>5. PICK i : i = First(Audience(b.room, b.index))
  OBVIOUS
<1>6. Audience(b.room, b.index) # {}
  BY <1>3, Zenon DEF BroadcastLine
<1>7. /\ i \in 1..Len(clients) /\ i >= b.index /\ Listens(clients[i], b.room)
      /\ \A k \in 1..Len(clients) : Listens(clients[k], b.room) /\ k >= b.index => k >= i
  BY <1>2, <1>4, <1>5, <1>6, AudienceFacts
<1>8. /\ \/ /\ Sent(clients[i].handle) /\ todo' = <<Reached(b, i)>> \o Tail(todo)
            /\ UNCHANGED <<clients, handles>>
         \/ /\ ~plaintext
            /\ RemoveClientAt(i, FALSE, <<Unreached(b, i)>> \o Tail(todo))
      /\ UNCHANGED <<plaintext, pending, lists, loop, next_handle, lines>>
  BY <1>3, <1>5, Zenon DEF BroadcastLine
<1>9. Stacked(clients, Tail(todo)) /\ AllWait(Tail(todo))
  BY <1>1, <1>2, PopStack, Zenon
<1>10. ~IsPromote(todo[1])
  BY <1>1 DEF IsPromote
<1>11. HasPromote(todo) => HasPromote(Tail(todo))
  BY <1>1, <1>2, <1>10, TopFacts, Zenon
<1>12. \A k \in 1..Len(clients) : clients[k].name \notin banned
  <2>1. todo[1].do \notin {"remove", "attempt"}
    BY <1>1
  <2>. QED
    BY <1>1, <1>2, <2>1, TopFacts, Zenon
<1>13. \A x \in Item : HasPromote(todo) => HasPromote(<<x>> \o Tail(todo))
  <2>. SUFFICES ASSUME NEW x \in Item, HasPromote(Tail(todo)) PROVE HasPromote(<<x>> \o Tail(todo))
    BY <1>11
  <2>1. PICK k \in 1..Len(Tail(todo)) : IsPromote(Tail(todo)[k])
    BY Zenon DEF HasPromote
  <2>2. (<<x>> \o Tail(todo))[k + 1] = Tail(todo)[k] /\ k + 1 \in 1..Len(<<x>> \o Tail(todo))
    BY <1>2, PushFacts
  <2>. QED
    BY <2>1, <2>2, Zenon DEF HasPromote
<1>14. Spoken(clients, b)
  <2>1. BroadcastsSpoken(clients, todo) /\ 1 \in 1..Len(todo)
    BY <1>1, <1>2, TailFacts DEF Stacked
  <2>2. IsBroadcast(todo[1])
    BY <1>1 DEF IsBroadcast
  <2>. QED
    BY <1>3, <2>1, <2>2, Zenon DEF BroadcastsSpoken
<1>15. CASE Sent(clients[i].handle) /\ todo' = <<Reached(b, i)>> \o Tail(todo) /\ UNCHANGED <<clients, handles>>
  <2>1. PICK x : x = Reached(b, i)
    OBVIOUS
  <2>2. /\ x \in Broadcasts /\ x.room = b.room /\ x.index = i + 1
        /\ x.heard = b.heard \cup {clients[i].handle} /\ (x.deposed <=> b.deposed)
    BY <1>2, <1>4, <1>7, <2>1, ReachedFacts
  <2>3. Spoken(clients, x)
    <3>1. b.index \in Nat \ {0} /\ Len(clients) \in Nat
      BY <1>2, <1>4, LenProperties DEF Broadcasts
    <3>. SUFFICES ASSUME NEW k \in 1..Len(clients), Listens(clients[k], b.room)
         PROVE  /\ k >= x.index => clients[k].handle \notin x.heard
                /\ k < x.index /\ ~x.deposed => clients[k].handle \in x.heard
      BY <2>2, Zenon DEF Spoken
    <3>2. /\ k >= b.index => clients[k].handle \notin b.heard
          /\ k < b.index /\ ~b.deposed => clients[k].handle \in b.heard
      BY <1>14, Zenon DEF Spoken
    <3>3. clients[k].handle = clients[i].handle => k = i
      BY <1>2, <1>7, Zenon DEF Apart, NoTwins
    <3>4. k >= b.index => k >= i
      BY <1>7
    <3>. QED
      BY <1>7, <2>2, <3>1, <3>2, <3>3, <3>4
  <2>4. x \in Item /\ IsInner(x) /\ ~IsRole(x)
    BY <2>2, BroadcastItem, Zenon
  <2>5. <<x>> \o Tail(todo) \in Seq(Item) /\ Stacked(clients, <<x>> \o Tail(todo))
    BY <1>2, <1>9, <2>3, <2>4, PushStack, Zenon
  <2>6. todo' = <<x>> \o Tail(todo)
    BY <1>15, <2>1
  <2>7. Promised(clients, todo')
    BY <1>2, <1>13, <2>4, <2>6, Zenon DEF Promised
  <2>8. BannedGo(clients, banned, todo')
    BY <1>12, Zenon DEF BannedGo
  <2>9. /\ clients' = clients /\ handles' = handles /\ sessions' = sessions
        /\ UNCHANGED <<plaintext, pending, lists, phase, index, draining, next_handle, lines>>
    BY <1>8, <1>15 DEF Sent, loop
  <2>. QED
    BY <1>1, <1>2, <2>5, <2>6, <2>7, <2>8, <2>9, Goes, Zenon
<1>16. CASE RemoveClientAt(i, FALSE, <<Unreached(b, i)>> \o Tail(todo))
  <2>1. PICK y : y = Unreached(b, i)
    OBVIOUS
  <2>2. /\ y \in Broadcasts /\ y.room = b.room /\ y.index = i
        /\ y.heard = b.heard /\ (y.deposed <=> b.deposed \/ clients[i].admin)
    BY <1>2, <1>4, <1>7, <2>1, ReachedFacts
  <2>3. PICK d : d = Without(clients, i)
    OBVIOUS
  <2>4. /\ Len(d) = Len(clients) - 1 /\ Len(clients) \in Nat
        /\ \A k \in 1..(Len(clients) - 1) : d[k] = IF k < i THEN clients[k] ELSE clients[k + 1]
    BY <1>2, <1>7, <2>3, WithoutFacts, LenProperties
  <2>5. Spoken(d, y)
    <3>1. b.index \in Nat \ {0}
      BY <1>4 DEF Broadcasts
    <3>. SUFFICES ASSUME NEW k \in 1..Len(d), Listens(d[k], b.room)
         PROVE  /\ k >= i => d[k].handle \notin b.heard
                /\ k < i /\ ~b.deposed => d[k].handle \in b.heard
      BY <2>2, Zenon DEF Spoken
    <3>2. \A m \in 1..Len(clients) : Listens(clients[m], b.room) =>
            /\ m >= b.index => clients[m].handle \notin b.heard
            /\ m < b.index /\ ~b.deposed => clients[m].handle \in b.heard
      BY <1>14, Zenon DEF Spoken
    <3>3. CASE k < i
      BY <1>7, <2>4, <3>1, <3>2, <3>3
    <3>4. CASE k >= i
      BY <1>7, <2>4, <3>1, <3>2, <3>4
    <3>. QED
      BY <1>7, <2>4, <3>3, <3>4
  <2>6. y \in Item /\ IsInner(y) /\ ~IsRole(y)
    BY <2>2, BroadcastItem, Zenon
  <2>7. Stacked(d, Tail(todo))
    <3>1. clients[i].name # None
      BY <1>7, Zenon DEF Listens
    <3>. QED
      BY <1>2, <1>7, <1>9, <2>3, <3>1, StackRemoved, Zenon
  <2>8. /\ <<y>> \o Tail(todo) \in Seq(Item) /\ Stacked(d, <<y>> \o Tail(todo))
        /\ (Waits(y) => AllWait(<<y>> \o Tail(todo)))
    BY <1>2, <1>9, <2>5, <2>6, <2>7, PushStack, Zenon
  <2>9. clients[i].admin => Waits(y)
    BY <2>2, Zenon DEF Waits
  <2>10. HasPromote(todo) => HasPromote(<<y>> \o Tail(todo))
    BY <1>13, <2>6, Zenon
  <2>11. RemoveClientAt(i, FALSE, <<y>> \o Tail(todo)) /\ FALSE \in BOOLEAN
    BY <1>16, <2>1, Zenon
  <2>12. \A k \in 1..Len(clients) : clients[k].name \in banned => k = i
    BY <1>12, Zenon
  <2>. QED
    BY <1>1, <1>7, <1>8, <2>3, <2>8, <2>9, <2>10, <2>11, <2>12, RemovalStep, Zenon
<1>. QED
  BY <1>8, <1>15, <1>16, Zenon

\* The stack stays in order while names, rooms and handles do.
LEMMA SameNames ==
  ASSUME NEW c, NEW d, NEW t, Len(d) = Len(c), Stacked(c, t),
         \A k \in 1..Len(c) : d[k].handle = c[k].handle /\ d[k].name = c[k].name /\ d[k].room = c[k].room
  PROVE  Stacked(d, t)
<1>1. \A r : Pointed(c, r) => Pointed(d, r)
  BY Zenon DEF Pointed
<1>2. \A b : Spoken(c, b) => Spoken(d, b)
  BY Zenon DEF Spoken, Listens
<1>. QED
  BY <1>1, <1>2, Zenon DEF Stacked, RolesPointed, BroadcastsSpoken

\* Pushing two items is pushing one after the other.
LEMMA PushTwo ==
  ASSUME NEW S, NEW t \in Seq(S), NEW x \in S, NEW y \in S
  PROVE  <<x, y>> \o t = <<x>> \o (<<y>> \o t)
<1>1. <<x>> \in Seq(S) /\ <<y>> \in Seq(S) /\ <<x, y>> = Append(<<x>>, y)
  OBVIOUS
<1>2. <<x, y>> = <<x>> \o <<y>>
  BY <1>1, AppendIsConcat
<1>. QED
  BY <1>1, <1>2, ConcatAssociative

\* promoteFirstAdmin keeps the invariant: it makes the first named client admin,
\* announces it, and remembers an index that the announcement may move.
LEMMA PromoteStep ==
  ASSUME Inductive, PromoteFirstAdmin
  PROVE  Inductive'
<1>1. todo # <<>> /\ todo[1].do = "promote"
  BY DEF PromoteFirstAdmin, Doing
<1>2. /\ clients \in Seq(Client) /\ todo \in Seq(Item)
      /\ Connected(clients, pending, handles) /\ Promised(clients, todo)
      /\ Apart(clients, pending, next_handle)
      /\ Distinguished(clients) /\ Stacked(clients, todo) /\ BannedGo(clients, banned, todo)
      /\ todo[1] \in Item /\ Tail(todo) \in Seq(Item) /\ sessions \subseteq Handle
  BY <1>1, Busy DEF TypeOK
<1>3. Stacked(clients, Tail(todo)) /\ AllWait(Tail(todo))
  BY <1>1, <1>2, PopStack, Zenon
<1>4. \A k \in 1..Len(clients) : clients[k].name \notin banned
  <2>1. todo[1].do \notin {"remove", "attempt"}
    BY <1>1
  <2>. QED
    BY <1>1, <1>2, <2>1, TopFacts, Zenon
<1>5. /\ Len(clients) \in Nat
      /\ Named = {k \in 1..Len(clients) : clients[k].name # None}
      /\ Admins = {k \in 1..Len(clients) : clients[k].name # None /\ clients[k].admin}
  BY <1>2, Places, Zenon
<1>6. \A k \in 1..Len(clients) : clients[k].admin => clients[k].name # None
  BY <1>2, Zenon DEF Distinguished
<1>7. CASE /\ Admins = {} /\ Named # {}
           /\ clients' = [clients EXCEPT ![First(Named)].admin = TRUE]
           /\ todo' = <<Broadcast(Everywhere), TellRole(First(Named))>> \o Tail(todo)
  <2>1. PICK j : j = First(Named)
    OBVIOUS
  <2>2. j \in 1..Len(clients) /\ clients[j].name # None /\ \A k \in 1..Len(clients) : clients[k].name # None => j <= k
    <3>1. Named \in SUBSET Nat /\ Named # {}
      BY <1>5, <1>7
    <3>2. First(Named) \in Named /\ \A k \in Named : First(Named) <= k
      BY <3>1, FirstFacts
    <3>. QED
      BY <1>5, <2>1, <3>2, Zenon
  <2>3. \A k \in 1..Len(clients) : ~clients[k].admin
    BY <1>5, <1>6, <1>7, Zenon
  <2>4. PICK x : x = [clients[j] EXCEPT !.admin = TRUE]
    OBVIOUS
  <2>5. x \in Client /\ x.handle = clients[j].handle /\ x.name = clients[j].name /\ x.room = clients[j].room /\ x.admin
    <3>1. clients[j] \in Client
      BY <1>2, <2>2
    <3>. QED
      BY <2>4, <3>1 DEF Client
  <2>6. clients' = [clients EXCEPT ![j] = x]
    BY <1>7, <2>1, <2>4
  <2>7. /\ clients' \in Seq(Client) /\ Len(clients') = Len(clients)
        /\ clients'[j] = x /\ \A k \in 1..Len(clients) : k # j => clients'[k] = clients[k]
    BY <1>2, <2>2, <2>5, <2>6, ExceptSeq
  <2>8. \A k \in 1..Len(clients) : /\ clients'[k].handle = clients[k].handle /\ clients'[k].name = clients[k].name
                                   /\ clients'[k].room = clients[k].room /\ (clients'[k].admin <=> k = j)
    BY <2>3, <2>5, <2>7, Zenon
  <2>9. HandlesOf(clients') = HandlesOf(clients)
    BY <2>7, <2>8 DEF HandlesOf
  <2>10. Apart(clients', pending, next_handle) /\ Connected(clients', pending, handles)
    BY <1>2, <2>7, <2>8, <2>9, Zenon DEF Apart, NoTwins, Connected
  <2>11. Distinguished(clients')
    <3>1. /\ \A k, m \in 1..Len(clients) : clients[k].name # None /\ clients[k].name = clients[m].name => k = m
          /\ \A k \in 1..Len(clients) : clients'[k].admin => clients'[k].name # None
      BY <1>2, <2>2, <2>8, Zenon DEF Distinguished
    <3>2. \A k, m \in 1..Len(clients) : clients'[k].name # None /\ clients'[k].name = clients'[m].name => k = m
      BY <2>8, <3>1, Zenon
    <3>3. \A k, m \in 1..Len(clients) : clients'[k].admin /\ clients'[m].admin => k = m
      BY <2>8, Zenon
    <3>. QED
      BY <2>7, <3>1, <3>2, <3>3, Zenon DEF Distinguished
  <2>12. Promised(clients', todo')
    BY <2>2, <2>7, <2>8, Zenon DEF Promised
  <2>13. Stacked(clients', Tail(todo))
    BY <1>3, <2>7, <2>8, SameNames, Zenon
  <2>14. PICK r : r = TellRole(j)
    OBVIOUS
  <2>15. r \in Roles /\ r.index = j /\ r.of = clients[j].handle /\ r.do = "tell role"
    <3>1. PICK h : h = clients[j].handle
      OBVIOUS
    <3>2. h \in Handle /\ j \in Nat \ {0}
      BY <1>2, <1>5, <2>2, <3>1, ClientFacts
    <3>3. r = [do |-> "tell role", index |-> j, of |-> h]
      BY <2>14, <3>1 DEF TellRole
    <3>. QED
      BY <3>1, <3>2, <3>3 DEF Roles
  <2>16. r \in Item /\ IsInner(r) /\ ~IsBroadcast(r)
    <3>1. r \in Item
      BY <2>15, Zenon DEF Item
    <3>. QED
      BY <2>15, <3>1 DEF IsInner, IsBroadcast
  <2>17. Pointed(clients', r)
    <3>. SUFFICES ASSUME NEW k \in 1..Len(clients)
         PROVE  /\ clients'[k].handle = r.of => k = r.index
                /\ k < r.index => clients'[k].name = None
      BY <2>7, Zenon DEF Pointed
    <3>1. clients[k].handle = clients[j].handle => k = j
      BY <1>2, <2>2, Zenon DEF Apart, NoTwins
    <3>2. k < j => clients[k].name = None
      BY <1>5, <2>2
    <3>. QED
      BY <2>8, <2>15, <3>1, <3>2, Zenon
  <2>18. <<r>> \o Tail(todo) \in Seq(Item) /\ Stacked(clients', <<r>> \o Tail(todo)) /\ AllWait(<<r>> \o Tail(todo))
    BY <1>2, <1>3, <2>13, <2>16, <2>17, PushStack, Zenon
  <2>19. PICK b : b = Broadcast(Everywhere)
    OBVIOUS
  <2>20. b \in Item /\ IsInner(b) /\ ~IsRole(b) /\ Spoken(clients', b)
    BY <2>19, BroadcastFacts, Zenon
  <2>21. <<b>> \o (<<r>> \o Tail(todo)) \in Seq(Item) /\ Stacked(clients', <<b>> \o (<<r>> \o Tail(todo)))
    BY <2>18, <2>20, PushStack, Zenon
  <2>22. todo' = <<b>> \o (<<r>> \o Tail(todo))
    <3>1. todo' = <<b, r>> \o Tail(todo)
      BY <1>7, <2>1, <2>14, <2>19
    <3>. QED
      BY <1>2, <2>16, <2>20, <3>1, PushTwo
  <2>23. BannedGo(clients', banned, todo')
    BY <1>4, <2>7, <2>8, Zenon DEF BannedGo
  <2>24. UNCHANGED <<plaintext, pending, lists, phase, index, draining, handles, sessions, next_handle, lines>>
    BY DEF PromoteFirstAdmin, loop, network
  <2>. QED
    BY <1>1, <1>2, <2>7, <2>10, <2>11, <2>12, <2>21, <2>22, <2>23, <2>24, Goes, Zenon
<1>8. CASE (Admins # {} \/ Named = {}) /\ todo' = Tail(todo) /\ UNCHANGED clients
  <2>1. Promised(clients, todo')
    BY <1>5, <1>8, Zenon DEF Promised
  <2>2. BannedGo(clients, banned, todo')
    BY <1>4, Zenon DEF BannedGo
  <2>3. UNCHANGED <<plaintext, pending, lists, phase, index, draining, handles, sessions, next_handle, lines>>
    BY DEF PromoteFirstAdmin, loop, network
  <2>. QED
    BY <1>1, <1>2, <1>3, <1>8, <2>1, <2>2, <2>3, Goes, Zenon
<1>. QED
  BY <1>7, <1>8, Zenon DEF PromoteFirstAdmin

\* Using an index after a broadcast keeps the invariant, wherever it now points,
\* and also when it is past the end and the server stops.
LEMMA UseIndexStep ==
  ASSUME Inductive, UseIndex
  PROVE  Inductive'
<1>1. todo # <<>> /\ todo[1].do \in {"tell role", "announce join"}
  BY DEF UseIndex, Doing
<1>2. /\ clients \in Seq(Client) /\ todo \in Seq(Item) /\ phase # "failed"
      /\ Connected(clients, pending, handles) /\ Promised(clients, todo)
      /\ Apart(clients, pending, next_handle) /\ DrainsClients(draining, pending, next_handle)
      /\ Distinguished(clients) /\ Stacked(clients, todo) /\ BannedGo(clients, banned, todo)
      /\ todo[1] \in Item /\ Tail(todo) \in Seq(Item) /\ sessions \subseteq Handle
      /\ TypeOK /\ Stepped(plaintext, pending, phase, index)
  BY <1>1, Busy DEF TypeOK
<1>3. Stacked(clients, Tail(todo)) /\ AllWait(Tail(todo))
  BY <1>1, <1>2, PopStack, Zenon
<1>4. \A k \in 1..Len(clients) : clients[k].name \notin banned
  <2>1. todo[1].do \notin {"remove", "attempt"}
    BY <1>1
  <2>. QED
    BY <1>1, <1>2, <2>1, TopFacts, Zenon
<1>5. CASE RuntimeError /\ UNCHANGED <<plaintext, clients, pending, lists, next_handle, lines>>
  <2>1. /\ phase' = "failed" /\ todo' = <<>> /\ handles' = {} /\ sessions' = {}
        /\ UNCHANGED <<plaintext, clients, pending, banned, whitelist, whitelistOn, index, draining, next_handle, lines>>
    BY <1>5 DEF RuntimeError, lists
  <2>2. TypeOK'
    BY <1>2, <2>1 DEF TypeOK
  <2>3. Stacked(clients, <<>>)
    <3>1. <<>> \in Seq(PlainItem)
      OBVIOUS
    <3>. QED
      BY <3>1, PlainStack
  <2>4. BannedGo(clients, banned, <<>>)
    BY <1>4, Zenon DEF BannedGo
  <2>5. Sound(clients, pending, "failed", <<>>, banned, draining, next_handle)
    BY <1>2, <2>3, <2>4 DEF Sound
  <2>6. Stepped(plaintext, pending, "failed", index)
    BY <1>2 DEF Stepped
  <2>. QED
    BY <2>1, <2>2, <2>5, <2>6 DEF Inductive
<1>6. CASE /\ todo[1].index <= Len(clients)
           /\ todo' = (IF Doing("tell role") THEN <<Attempt(clients[todo[1].index].handle)>> ELSE <<Broadcast(todo[1].room)>>)
                        \o Tail(todo)
           /\ UNCHANGED <<plaintext, clients, pending, lists, loop, handles, sessions, next_handle, lines>>
  <2>1. \E x \in Item : /\ IsInner(x) /\ ~IsRole(x) /\ (IsBroadcast(x) => Spoken(clients, x))
                        /\ todo' = <<x>> \o Tail(todo)
    <3>1. CASE todo[1].do = "tell role"
      <4>1. todo[1] \in Roles
        BY <1>2, <3>1, Kinds, Zenon
      <4>2. todo[1].index \in 1..Len(clients)
        <5>1. todo[1].index \in Nat \ {0}
          BY <4>1 DEF Roles
        <5>2. Len(clients) \in Nat /\ todo[1].index <= Len(clients)
          BY <1>2, <1>6, LenProperties, Zenon
        <5>. QED
          BY <5>1, <5>2
      <4>3. PICK h : h = clients[todo[1].index].handle
        OBVIOUS
      <4>4. h \in Handle
        BY <1>2, <4>2, <4>3, ClientFacts
      <4>5. Attempt(h) \in Attempts /\ Attempt(h).do = "attempt"
        BY <4>4 DEF Attempt, Attempts
      <4>6. Attempt(h) \in Item /\ IsInner(Attempt(h)) /\ ~IsRole(Attempt(h)) /\ ~IsBroadcast(Attempt(h))
        <5>1. Attempt(h) \in Item
          BY <4>5, Zenon DEF Item
        <5>. QED
          BY <4>5, <5>1 DEF IsInner, IsRole, IsBroadcast
      <4>7. todo' = <<Attempt(h)>> \o Tail(todo)
        BY <1>1, <1>6, <3>1, <4>3 DEF Doing
      <4>. QED
        BY <4>6, <4>7, Zenon
    <3>2. CASE todo[1].do = "announce join"
      <4>1. todo[1] \in Joins
        BY <1>2, <3>2, Kinds, Zenon
      <4>2. todo[1].room \in Rooms \cup {Everywhere}
        BY <4>1 DEF Joins
      <4>3. PICK b : b = Broadcast(todo[1].room)
        OBVIOUS
      <4>4. b \in Item /\ IsInner(b) /\ ~IsRole(b) /\ Spoken(clients, b)
        BY <4>2, <4>3, BroadcastFacts, Zenon
      <4>5. todo' = <<b>> \o Tail(todo)
        BY <1>1, <1>6, <3>2, <4>3 DEF Doing
      <4>. QED
        BY <4>4, <4>5, Zenon
    <3>. QED
      BY <1>1, <3>1, <3>2
  <2>2. PICK x \in Item : /\ IsInner(x) /\ ~IsRole(x) /\ (IsBroadcast(x) => Spoken(clients, x))
                          /\ todo' = <<x>> \o Tail(todo)
    BY <2>1
  <2>3. todo' \in Seq(Item) /\ Stacked(clients, todo')
    BY <1>2, <1>3, <2>2, PushStack, Zenon
  <2>4. Promised(clients, todo')
    <3>1. ~IsPromote(todo[1])
      BY <1>1 DEF IsPromote
    <3>2. HasPromote(todo) => HasPromote(Tail(todo))
      BY <1>1, <1>2, <3>1, TopFacts, Zenon
    <3>3. HasPromote(Tail(todo)) => HasPromote(todo')
      <4>. SUFFICES ASSUME HasPromote(Tail(todo)) PROVE HasPromote(todo')
        OBVIOUS
      <4>1. PICK k \in 1..Len(Tail(todo)) : IsPromote(Tail(todo)[k])
        BY Zenon DEF HasPromote
      <4>2. todo'[k + 1] = Tail(todo)[k] /\ k + 1 \in 1..Len(todo')
        BY <1>2, <2>2, PushFacts
      <4>. QED
        BY <4>1, <4>2, Zenon DEF HasPromote
    <3>. QED
      BY <1>2, <3>2, <3>3, Zenon DEF Promised
  <2>5. BannedGo(clients, banned, todo')
    BY <1>4, Zenon DEF BannedGo
  <2>6. UNCHANGED <<plaintext, clients, pending, lists, phase, index, draining, handles, sessions, next_handle, lines>>
    BY <1>6 DEF loop
  <2>. QED
    BY <1>1, <1>2, <2>3, <2>4, <2>5, <2>6, Goes, Zenon
<1>. QED
  BY <1>5, <1>6 DEF UseIndex

\* Closing one connection of the server's end keeps the invariant.
LEMMA CloseStep ==
  ASSUME Inductive, CloseNext
  PROVE  Inductive'
<1>1. todo # <<>> /\ todo[1].do = "close all"
  BY DEF CloseNext, Doing
<1>2. /\ clients \in Seq(Client) /\ pending \in Seq(Waiting) /\ todo \in Seq(Item) /\ phase # "failed"
      /\ Connected(clients, pending, handles) /\ Promised(clients, todo)
      /\ Apart(clients, pending, next_handle) /\ DrainsClients(draining, pending, next_handle)
      /\ Distinguished(clients) /\ Stacked(clients, todo) /\ BannedGo(clients, banned, todo)
      /\ todo[1] \in Item /\ Tail(todo) \in Seq(Item) /\ sessions \subseteq Handle
      /\ TypeOK /\ Stepped(plaintext, pending, phase, index)
  BY <1>1, Busy DEF TypeOK
<1>3. ~IsInner(todo[1]) /\ todo[1].do \notin {"remove", "attempt"}
  BY <1>1 DEF IsInner
<1>4. /\ NoneBound(todo) /\ AllWait(todo)
      /\ \A k \in 1..Len(clients) : clients[k].name \notin banned
  BY <1>1, <1>2, <1>3, TopFacts, Zenon
<1>5. CASE clients # <<>> /\ RemoveClientAt(1, FALSE, todo) /\ UNCHANGED <<pending, phase>>
  <2>1. 1 \in 1..Len(clients)
    BY <1>2, <1>5, LenProperties, EmptySeq
  <2>2. Stacked(Without(clients, 1), todo)
    BY <1>2, <1>4, <2>1, StackRemoved, Zenon
  <2>3. UNCHANGED <<plaintext, pending, lists, loop, next_handle, lines>>
    BY <1>5 DEF CloseNext, loop
  <2>4. FALSE \in BOOLEAN /\ \A k \in 1..Len(clients) : clients[k].name \in banned => k = 1
    BY <1>4, Zenon
  <2>. QED
    BY <1>1, <1>2, <1>4, <1>5, <2>1, <2>2, <2>3, <2>4, RemovalStep, Zenon
<1>6. CASE /\ clients = <<>>
           /\ handles' = handles \ {pending[i].handle : i \in DOMAIN pending}
           /\ pending' = <<>> /\ todo' = <<>> /\ phase' = "stopped"
           /\ UNCHANGED <<clients, sessions>>
  <2>1. UNCHANGED <<plaintext, clients, banned, whitelist, whitelistOn, index, draining, next_handle, lines, sessions>>
    BY <1>6 DEF CloseNext, lists
  <2>2. TypeOK'
    <3>1. <<>> \in Seq(Item) /\ <<>> \in Seq(Waiting)
      OBVIOUS
    <3>. QED
      BY <1>2, <1>6, <2>1, <3>1 DEF TypeOK
  <2>3. HandlesOf(<<>>) = {} /\ Len(<<>>) = 0
    BY DEF HandlesOf
  <2>4. Connected(clients, <<>>, handles')
    <3>1. HandlesOf(pending) = {pending[i].handle : i \in DOMAIN pending}
      BY <1>2, LenProperties DEF HandlesOf
    <3>. QED
      BY <1>2, <1>6, <2>3, <3>1 DEF Connected
  <2>5. Apart(clients, <<>>, next_handle) /\ DrainsClients(draining, <<>>, next_handle)
    <3>1. NoTwins(<<>>)
      BY <2>3 DEF NoTwins
    <3>. QED
      BY <1>2, <2>3, <3>1 DEF Apart, DrainsClients
  <2>6. Stacked(clients, <<>>)
    <3>1. <<>> \in Seq(PlainItem)
      OBVIOUS
    <3>. QED
      BY <3>1, PlainStack
  <2>7. Promised(clients, <<>>) /\ BannedGo(clients, banned, <<>>)
    BY <1>6, <2>3 DEF Promised, BannedGo
  <2>8. Sound(clients, <<>>, "stopped", <<>>, banned, draining, next_handle)
    BY <1>2, <2>5, <2>6, <2>7 DEF Sound
  <2>9. Stepped(plaintext, <<>>, "stopped", index)
    BY DEF Stepped
  <2>. QED
    BY <1>6, <2>1, <2>2, <2>4, <2>8, <2>9 DEF Inductive
<1>. QED
  BY <1>5, <1>6 DEF CloseNext

(***************************************************************************)
(* Connections come                                                        *)
(***************************************************************************)
\* Another one at the end.
LEMMA AppendedHandle ==
  ASSUME NEW S, NEW q \in Seq(S), NEW x \in S, NoTwins(q), x.handle \notin HandlesOf(q)
  PROVE  /\ Append(q, x) \in Seq(S) /\ Len(Append(q, x)) = Len(q) + 1 /\ Len(q) \in Nat
         /\ \A k \in 1..Len(q) : Append(q, x)[k] = q[k]
         /\ Append(q, x)[Len(q) + 1] = x
         /\ NoTwins(Append(q, x)) /\ HandlesOf(Append(q, x)) = HandlesOf(q) \cup {x.handle}
<1>. DEFINE d == Append(q, x)
<1>1. /\ d \in Seq(S) /\ Len(d) = Len(q) + 1 /\ Len(q) \in Nat
      /\ \A k \in 1..Len(q) : d[k] = q[k]
      /\ d[Len(q) + 1] = x
  BY AppendProperties, LenProperties
<1>. HIDE DEF d
<1>2. \A k \in 1..Len(d) : k \in 1..Len(q) \/ k = Len(q) + 1
  BY <1>1
<1>3. \A k \in 1..Len(q) : k \in 1..Len(d) /\ q[k].handle # x.handle
  BY <1>1 DEF HandlesOf
<1>4. NoTwins(d)
  BY <1>1, <1>2, <1>3, Zenon DEF NoTwins
<1>5. HandlesOf(d) = HandlesOf(q) \cup {x.handle}
  <2>1. Len(q) + 1 \in 1..Len(d)
    BY <1>1
  <2>. QED
    BY <1>1, <1>2, <1>3, <2>1, Zenon DEF HandlesOf
<1>. QED
  BY <1>1, <1>4, <1>5 DEF d

\* A client comes, without a name.
CanJoin(c, p, last, next, h, b) ==
  /\ c \in Seq(Client) /\ next \in Nat /\ last \in Nat /\ last <= next /\ h \in Handle /\ h < next
  /\ b \in SUBSET Names /\ Apart(c, p, last) /\ h \notin HandlesOf(c) /\ h \notin HandlesOf(p)
  /\ Distinguished(c) /\ Promised(c, <<>>) /\ BannedGo(c, b, <<>>)
  /\ HandlesOf(c) \cup HandlesOf(p) \subseteq Handle

Joined(d, c, p, next, h, b) ==
  /\ d \in Seq(Client) /\ Apart(d, p, next) /\ Distinguished(d)
  /\ HandlesOf(d) = HandlesOf(c) \cup {h} /\ \A t : Promised(d, t) /\ BannedGo(d, b, t)

\* A connection that becomes a client without a name disturbs nobody.
LEMMA JoinedClient ==
  ASSUME NEW c, NEW p, NEW next, NEW last, NEW h, NEW b, CanJoin(c, p, last, next, h, b)
  PROVE  Joined(Append(c, NewClient(h)), c, p, next, h, b)
<1>0. /\ c \in Seq(Client) /\ next \in Nat /\ last \in Nat /\ last <= next /\ h \in Handle /\ h < next
      /\ b \in SUBSET Names /\ Apart(c, p, last) /\ h \notin HandlesOf(c) /\ h \notin HandlesOf(p)
      /\ Distinguished(c) /\ Promised(c, <<>>) /\ BannedGo(c, b, <<>>)
      /\ HandlesOf(c) \cup HandlesOf(p) \subseteq Handle
  BY Zenon DEF CanJoin
<1>1. PICK x : x = NewClient(h)
  OBVIOUS
<1>2. x \in Client /\ x.handle = h /\ x.name = None /\ ~x.admin
  BY ChatServerAssumption, <1>0, <1>1 DEF NewClient, Client
<1>. DEFINE d == Append(c, x)
<1>3. /\ d \in Seq(Client) /\ Len(d) = Len(c) + 1 /\ Len(c) \in Nat
      /\ \A k \in 1..Len(c) : d[k] = c[k]
      /\ d[Len(c) + 1] = x
      /\ NoTwins(d) /\ HandlesOf(d) = HandlesOf(c) \cup {h}
  BY <1>0, <1>2, AppendedHandle DEF Apart
<1>. HIDE DEF d
<1>4. \A k \in 1..Len(d) : k \in 1..Len(c) \/ k = Len(c) + 1
  BY <1>3
<1>5. Apart(d, p, next)
  <2>1. \A g \in Handle : g < last => g < next
    BY ChatServerAssumption, <1>0 DEF Handle
  <2>2. \A g \in HandlesOf(c) \cup HandlesOf(p) : g < next
    BY <1>0, <2>1, Zenon DEF Apart
  <2>3. HandlesOf(d) \cap HandlesOf(p) = {}
    BY <1>0, <1>3 DEF Apart
  <2>4. NoTwins(p)
    BY <1>0 DEF Apart
  <2>. QED
    BY <1>0, <1>3, <2>2, <2>3, <2>4 DEF Apart
<1>6. Distinguished(d)
  <2>1. /\ \A k, m \in 1..Len(c) : c[k].name # None /\ c[k].name = c[m].name => k = m
        /\ \A k, m \in 1..Len(c) : c[k].admin /\ c[m].admin => k = m
        /\ \A k \in 1..Len(c) : c[k].admin => c[k].name # None
    BY <1>0, Zenon DEF Distinguished
  <2>2. \A k, m \in 1..Len(d) : d[k].name # None /\ d[k].name = d[m].name => k = m
    BY <1>2, <1>3, <1>4, <2>1
  <2>3. \A k, m \in 1..Len(d) : d[k].admin /\ d[m].admin => k = m
    BY <1>2, <1>3, <1>4, <2>1, Zenon
  <2>4. \A k \in 1..Len(d) : d[k].admin => d[k].name # None
    BY <1>2, <1>3, <1>4, <2>1, Zenon
  <2>. QED
    BY <2>2, <2>3, <2>4, Zenon DEF Distinguished
<1>7. \A t : Promised(d, t)
  <2>1. (\A k \in 1..Len(c) : c[k].name = None) \/ \E k \in 1..Len(c) : c[k].admin
    BY <1>0, NothingLeft, Zenon DEF Promised
  <2>2. \A k \in 1..Len(c) : k \in 1..Len(d)
    BY <1>3
  <2>. QED
    BY <1>2, <1>3, <1>4, <2>1, <2>2, Zenon DEF Promised
<1>8. \A t : BannedGo(d, b, t)
  <2>1. None \notin b
    BY ChatServerAssumption, <1>0
  <2>2. \A k \in 1..Len(c) : c[k].name \notin b
    <3>1. \A g : ~Going(g, <<>>)
      BY DEF Going
    <3>. QED
      BY <1>0, <3>1, Zenon DEF BannedGo
  <2>. QED
    BY <1>2, <1>3, <1>4, <2>1, <2>2, Zenon DEF BannedGo
<1>. QED
  BY <1>1, <1>3, <1>5, <1>6, <1>7, <1>8, Zenon DEF d, Joined

\* The facts of a state with nothing on the stack.
LEMMA AtRest ==
  ASSUME Inductive, todo = <<>>, phase # "failed"
  PROVE  /\ clients \in Seq(Client) /\ pending \in Seq(Waiting)
         /\ Connected(clients, pending, handles) /\ Promised(clients, <<>>)
         /\ Apart(clients, pending, next_handle) /\ DrainsClients(draining, pending, next_handle)
         /\ Distinguished(clients) /\ BannedGo(clients, banned, <<>>)
         /\ TypeOK /\ Stepped(plaintext, pending, phase, index)
         /\ HandlesOf(clients) \cup HandlesOf(pending) \subseteq Handle
<1>1. Connected(clients, pending, handles) /\ handles \subseteq Handle
  BY DEF Inductive, TypeOK
<1>2. HandlesOf(clients) \cup HandlesOf(pending) \subseteq Handle
  BY <1>1 DEF Connected
<1>. QED
  BY <1>1, <1>2 DEF Inductive, Sound, TypeOK

\* A short stack that consists of plain items.
LEMMA Greets ==
  ASSUME NEW h \in Handle, NEW c
  PROVE  <<Send(h, <<Remove(h, FALSE)>>)>> \in Seq(Item) /\ Stacked(c, <<Send(h, <<Remove(h, FALSE)>>)>>)
<1>1. Remove(h, FALSE) \in Removals
  BY DEF Remove, Removals
<1>2. PICK q : q = <<Remove(h, FALSE)>>
  OBVIOUS
<1>3. q \in Seq(Removals \cup Returns)
  <2>1. PICK r : r = Remove(h, FALSE)
    OBVIOUS
  <2>2. r \in Removals \cup Returns
    BY <1>1, <2>1
  <2>3. <<r>> \in Seq(Removals \cup Returns)
    BY <2>2
  <2>. QED
    BY <1>2, <2>1, <2>3
<1>4. PICK x : x = Send(h, q)
  OBVIOUS
<1>5. x \in PlainItem
  <2>1. Send(h, q) \in Sends
    BY <1>3 DEF Send, Sends
  <2>. QED
    BY <1>4, <2>1, Zenon DEF PlainItem
<1>6. <<x>> \in Seq(PlainItem)
  BY <1>5
<1>. QED
  BY <1>2, <1>4, <1>6, PlainStack

\* Accepting a connection keeps the invariant: as a client in plaintext mode,
\* otherwise as a handshake, unless there are too many.
LEMMA AcceptStep ==
  ASSUME Inductive, AcceptPending
  PROVE  Inductive'
<1>1. /\ phase = "accept" /\ todo = <<>> /\ next_handle <= MaxHandle /\ next_handle' = next_handle + 1
      /\ UNCHANGED <<plaintext, banned, whitelist, whitelistOn, phase, index, draining, sessions, lines>>
  BY DEF AcceptPending, Idle, lists, loop
<1>2. /\ clients \in Seq(Client) /\ pending \in Seq(Waiting)
      /\ Connected(clients, pending, handles) /\ Promised(clients, <<>>)
      /\ Apart(clients, pending, next_handle) /\ DrainsClients(draining, pending, next_handle)
      /\ Distinguished(clients) /\ BannedGo(clients, banned, <<>>)
      /\ TypeOK /\ Stepped(plaintext, pending, phase, index)
      /\ HandlesOf(clients) \cup HandlesOf(pending) \subseteq Handle
  BY <1>1, AtRest
<1>3. PICK h : h = next_handle
  OBVIOUS
<1>4. /\ h \in Handle /\ h \in Nat /\ h + 1 \in Nat /\ h <= h + 1 /\ h < h + 1 /\ ~(h < h)
      /\ next_handle' \in 1..MaxHandle + 1 /\ banned \in SUBSET Names
  BY ChatServerAssumption, <1>1, <1>2, <1>3 DEF TypeOK, Handle
<1>5. h \notin HandlesOf(clients) /\ h \notin HandlesOf(pending) /\ (draining # None => draining # h)
  BY <1>2, <1>3, <1>4, Zenon DEF Apart, DrainsClients
<1>6. DrainsClients(draining, pending, h + 1)
  <2>1. draining # None => draining < h /\ draining \in Nat /\ draining \notin HandlesOf(pending)
    BY ChatServerAssumption, <1>2, <1>3 DEF DrainsClients, TypeOK, Handle
  <2>. QED
    BY <1>4, <2>1 DEF DrainsClients
<1>7. Apart(clients, pending, h + 1)
  <2>1. \A g \in Handle : g < h => g < h + 1
    BY ChatServerAssumption, <1>4 DEF Handle
  <2>. QED
    BY <1>2, <1>3, <2>1, Zenon DEF Apart
<1>8. Stacked(clients, <<>>) /\ <<>> \in Seq(Item)
  <2>1. <<>> \in Seq(PlainItem)
    OBVIOUS
  <2>. QED
    BY <2>1, PlainStack
<1>9. CASE plaintext /\ PromotePending(next_handle) /\ handles' = handles \cup {next_handle} /\ UNCHANGED pending
  <2>1. /\ clients' = Append(clients, NewClient(h)) /\ todo' = <<Send(h, <<Remove(h, FALSE)>>)>>
        /\ handles' = handles \cup {h} /\ pending' = pending
    BY <1>3, <1>9 DEF PromotePending
  <2>2. /\ clients' \in Seq(Client) /\ Apart(clients', pending, h + 1) /\ Distinguished(clients')
        /\ HandlesOf(clients') = HandlesOf(clients) \cup {h}
        /\ \A t : Promised(clients', t) /\ BannedGo(clients', banned, t)
    <3>1. CanJoin(clients, pending, h, h + 1, h, banned)
      <4>1. Apart(clients, pending, h)
        BY <1>2, <1>3
      <4>. QED
        BY <1>2, <1>4, <1>5, <4>1, SMT DEF CanJoin
    <3>2. Joined(Append(clients, NewClient(h)), clients, pending, h + 1, h, banned)
      BY <3>1, JoinedClient, Zenon
    <3>3. Joined(clients', clients, pending, h + 1, h, banned)
      BY <2>1, <3>2
    <3>. QED
      BY <3>3, Zenon DEF Joined
  <2>3. todo' \in Seq(Item) /\ Stacked(clients', todo')
    BY <1>4, <2>1, Greets
  <2>4. TypeOK'
    BY <1>1, <1>2, <1>4, <2>1, <2>2, <2>3 DEF TypeOK
  <2>5. Connected(clients', pending, handles')
    BY <1>2, <2>1, <2>2 DEF Connected
  <2>6. Sound(clients', pending, phase, todo', banned, draining, h + 1)
    BY <1>6, <2>2, <2>3 DEF Sound
  <2>. QED
    BY <1>1, <1>2, <1>3, <2>1, <2>4, <2>5, <2>6 DEF Inductive
<1>10. CASE ~plaintext /\ UNCHANGED <<pending, clients, handles, todo>>
  <2>1. TypeOK'
    BY <1>1, <1>2, <1>4, <1>10 DEF TypeOK
  <2>2. Sound(clients, pending, phase, todo, banned, draining, h + 1)
    BY <1>1, <1>2, <1>6, <1>7, <1>8 DEF Sound
  <2>. QED
    BY <1>1, <1>2, <1>3, <1>10, <2>1, <2>2 DEF Inductive
<1>11. CASE /\ ~plaintext /\ pending' = Append(pending, [handle |-> next_handle, age |-> 0])
            /\ handles' = handles \cup {next_handle} /\ UNCHANGED <<clients, todo>>
  <2>1. PICK x : x = [handle |-> h, age |-> 0]
    OBVIOUS
  <2>2. x \in Waiting /\ x.handle = h
    BY <1>4, <2>1 DEF Waiting
  <2>3. pending' = Append(pending, x)
    BY <1>3, <1>11, <2>1
  <2>4. /\ pending' \in Seq(Waiting) /\ NoTwins(pending') /\ HandlesOf(pending') = HandlesOf(pending) \cup {h}
    BY <1>2, <1>5, <2>2, <2>3, AppendedHandle DEF Apart
  <2>5. TypeOK'
    BY <1>1, <1>2, <1>3, <1>4, <1>11, <2>4 DEF TypeOK
  <2>6. Connected(clients, pending', handles')
    BY <1>2, <1>3, <1>11, <2>4 DEF Connected
  <2>7. Apart(clients, pending', h + 1)
    BY <1>4, <1>5, <1>7, <2>4, Zenon DEF Apart
  <2>8. DrainsClients(draining, pending', h + 1)
    BY <1>5, <1>6, <2>4, Zenon DEF DrainsClients
  <2>9. Sound(clients, pending', phase, todo, banned, draining, h + 1)
    BY <1>1, <1>2, <1>8, <2>7, <2>8 DEF Sound
  <2>10. Stepped(plaintext, pending', phase, index)
    BY <1>1, <1>2, <1>11 DEF Stepped
  <2>. QED
    BY <1>1, <1>3, <1>11, <2>5, <2>6, <2>9, <2>10 DEF Inductive
<1>. QED
  BY <1>9, <1>10, <1>11 DEF AcceptPending

\* The fields of a pending handshake.
LEMMA WaitingFacts ==
  ASSUME NEW p \in Seq(Waiting), NEW i \in 1..Len(p)
  PROVE  p[i].handle \in Handle /\ p[i].age \in Nat
<1>1. PICK x : x = p[i]
  OBVIOUS
<1>2. x \in Waiting
  BY <1>1
<1>. QED
  BY <1>1, <1>2 DEF Waiting

\* One step of a pending handshake keeps the invariant: it waits, is dropped at
\* its deadline or on failure, or becomes a client.
LEMMA StepStep ==
  ASSUME Inductive, StepPending
  PROVE  Inductive'
<1>1. /\ phase = "step" /\ todo = <<>> /\ index <= Len(pending)
      /\ UNCHANGED <<plaintext, banned, whitelist, whitelistOn, phase, draining, next_handle, lines>>
  BY DEF StepPending, Idle, lists
<1>2. /\ clients \in Seq(Client) /\ pending \in Seq(Waiting)
      /\ Connected(clients, pending, handles) /\ Promised(clients, <<>>)
      /\ Apart(clients, pending, next_handle) /\ DrainsClients(draining, pending, next_handle)
      /\ Distinguished(clients) /\ BannedGo(clients, banned, <<>>)
      /\ TypeOK /\ Stepped(plaintext, pending, phase, index)
      /\ HandlesOf(clients) \cup HandlesOf(pending) \subseteq Handle
  BY <1>1, AtRest
<1>3. index \in Nat \ {0} /\ index \in 1..Len(pending) /\ Len(pending) \in Nat
  BY <1>1, <1>2, LenProperties DEF TypeOK
<1>4. PICK h : h = pending[index].handle
  OBVIOUS
<1>5. h \in Handle /\ pending[index].age \in Nat
  BY <1>2, <1>3, <1>4, WaitingFacts
<1>6. PICK q : q = Without(pending, index)
  OBVIOUS
<1>7. /\ q \in Seq(Waiting) /\ NoTwins(q) /\ HandlesOf(q) = HandlesOf(pending) \ {h} /\ h \in HandlesOf(pending)
      /\ Len(q) = Len(pending) - 1
      /\ \A k \in 1..(Len(pending) - 1) : q[k] = IF k < index THEN pending[k] ELSE pending[k + 1]
  <2>1. NoTwins(pending)
    BY <1>2 DEF Apart
  <2>2. NoTwins(q) /\ HandlesOf(q) = HandlesOf(pending) \ {h} /\ h \in HandlesOf(pending)
    BY <1>2, <1>3, <1>4, <1>6, <2>1, RemovedHandle
  <2>3. /\ q \in Seq(Waiting) /\ Len(q) = Len(pending) - 1
        /\ \A k \in 1..(Len(pending) - 1) : q[k] = IF k < index THEN pending[k] ELSE pending[k + 1]
    BY <1>2, <1>3, <1>6, WithoutFacts
  <2>. QED
    BY <2>2, <2>3
<1>8. \A k \in 1..Len(pending) : k < index => pending[k].age <= Deadline
  BY <1>1, <1>2 DEF Stepped
<1>9. Stepped(plaintext, q, "step", index)
  <2>1. \A k \in 1..Len(q) : k < index => q[k].age <= Deadline
    BY <1>3, <1>7, <1>8
  <2>2. ~plaintext
    <3>1. plaintext => Len(pending) = 0
      BY <1>2 DEF Stepped
    <3>. QED
      BY <1>3, <3>1
  <2>. QED
    BY <2>1, <2>2 DEF Stepped
<1>10. Stacked(clients, <<>>) /\ <<>> \in Seq(Item)
  <2>1. <<>> \in Seq(PlainItem)
    OBVIOUS
  <2>. QED
    BY <2>1, PlainStack
<1>11. Apart(clients, q, next_handle) /\ DrainsClients(draining, q, next_handle)
  <2>1. HandlesOf(q) \subseteq HandlesOf(pending)
    BY <1>7
  <2>. QED
    BY <1>2, <1>7, <2>1 DEF Apart, DrainsClients
<1>12. CASE RemovePendingAt(index) /\ UNCHANGED <<clients, sessions, todo>>
  <2>1. pending' = q /\ index' = index /\ handles' = handles \ {h}
    BY <1>4, <1>6, <1>12 DEF RemovePendingAt
  <2>2. TypeOK'
    BY <1>1, <1>2, <1>7, <1>12, <2>1 DEF TypeOK
  <2>3. Connected(clients, q, handles')
    BY <1>2, <1>7, <2>1 DEF Connected, Apart
  <2>4. Sound(clients, q, phase, todo, banned, draining, next_handle)
    BY <1>1, <1>2, <1>10, <1>11 DEF Sound
  <2>. QED
    BY <1>1, <1>9, <1>12, <2>1, <2>2, <2>3, <2>4 DEF Inductive
<1>13. CASE pending[index].age <= Deadline /\ index' = index + 1 /\ UNCHANGED <<clients, pending, handles, sessions, todo>>
  <2>1. TypeOK'
    BY <1>1, <1>2, <1>3, <1>13 DEF TypeOK
  <2>2. Sound(clients, pending, phase, todo, banned, draining, next_handle)
    BY <1>1, <1>2, <1>10 DEF Sound
  <2>3. Stepped(plaintext, pending, phase, index + 1)
    <3>1. \A k \in 1..Len(pending) : k < index + 1 => k < index \/ k = index
      BY <1>3
    <3>2. \A k \in 1..Len(pending) : k < index + 1 => pending[k].age <= Deadline
      BY <1>8, <1>13, <3>1, Zenon
    <3>. QED
      BY <1>1, <1>2, <3>2 DEF Stepped
  <2>. QED
    BY <1>1, <1>2, <1>13, <2>1, <2>2, <2>3 DEF Inductive
<1>14. CASE /\ pending' = Without(pending, index) /\ PromotePending(pending[index].handle)
            /\ sessions' = sessions \cup {pending[index].handle} /\ UNCHANGED <<index, handles>>
  <2>1. /\ clients' = Append(clients, NewClient(h)) /\ todo' = <<Send(h, <<Remove(h, FALSE)>>)>>
        /\ sessions' = sessions \cup {h} /\ pending' = q /\ index' = index /\ handles' = handles
    BY <1>4, <1>6, <1>14 DEF PromotePending
  <2>2. /\ next_handle \in Nat /\ next_handle <= next_handle /\ h < next_handle /\ banned \in SUBSET Names
        /\ h \notin HandlesOf(clients) /\ h \notin HandlesOf(q)
        /\ HandlesOf(clients) \cup HandlesOf(q) \subseteq Handle
    <3>1. next_handle \in Nat /\ next_handle <= next_handle /\ banned \in SUBSET Names
      BY ChatServerAssumption, <1>2 DEF TypeOK
    <3>2. h < next_handle /\ h \notin HandlesOf(clients)
      BY <1>2, <1>7 DEF Apart
    <3>3. h \notin HandlesOf(q) /\ HandlesOf(clients) \cup HandlesOf(q) \subseteq Handle
      BY <1>2, <1>7
    <3>. QED
      BY <3>1, <3>2, <3>3
  <2>3. /\ clients' \in Seq(Client) /\ Apart(clients', q, next_handle) /\ Distinguished(clients')
        /\ HandlesOf(clients') = HandlesOf(clients) \cup {h}
        /\ \A t : Promised(clients', t) /\ BannedGo(clients', banned, t)
    <3>1. CanJoin(clients, q, next_handle, next_handle, h, banned)
      BY <1>2, <1>5, <1>11, <2>2, SMT DEF CanJoin
    <3>2. Joined(Append(clients, NewClient(h)), clients, q, next_handle, h, banned)
      BY <3>1, JoinedClient, Zenon
    <3>3. Joined(clients', clients, q, next_handle, h, banned)
      BY <2>1, <3>2
    <3>. QED
      BY <3>3, Zenon DEF Joined
  <2>4. todo' \in Seq(Item) /\ Stacked(clients', todo')
    BY <1>5, <2>1, Greets
  <2>5. TypeOK'
    BY <1>1, <1>2, <1>5, <1>7, <2>1, <2>3, <2>4 DEF TypeOK
  <2>6. Connected(clients', q, handles)
    BY <1>2, <1>7, <2>3 DEF Connected
  <2>7. Sound(clients', q, phase, todo', banned, draining, next_handle)
    BY <1>11, <2>3, <2>4 DEF Sound
  <2>. QED
    BY <1>1, <1>9, <2>1, <2>5, <2>6, <2>7 DEF Inductive
<1>. QED
  BY <1>12, <1>13, <1>14 DEF StepPending

(***************************************************************************)
(* Lines are entered                                                       *)
(***************************************************************************)
\* Short sequences.
LEMMA Short ==
  ASSUME NEW S, NEW x \in S, NEW y \in S, NEW z \in S, NEW w \in S
  PROVE  /\ <<>> \in Seq(S) /\ <<x>> \in Seq(S) /\ <<x, y>> \in Seq(S)
         /\ <<x, y, z>> \in Seq(S) /\ <<x, y, z, w>> \in Seq(S)
OBVIOUS

\* What handlers put on the stack.
LEMMA Calls ==
  ASSUME NEW h \in Handle
  PROVE  /\ Attempt(h) \in PlainItem /\ Return(TRUE) \in PlainItem /\ Return(FALSE) \in PlainItem
         /\ ReturnPresent(h) \in PlainItem /\ Remove(h, TRUE) \in PlainItem /\ Remove(h, FALSE) \in PlainItem
         /\ Send(h, <<Return(FALSE)>>) \in PlainItem
         /\ \A announce \in BOOLEAN : Send(h, <<Remove(h, announce), Return(FALSE)>>) \in PlainItem
         /\ Reply(h) \in Seq(PlainItem) /\ Error(h) \in Seq(PlainItem)
<1>1. 1 \in Nat \ {0} /\ TRUE \in BOOLEAN /\ FALSE \in BOOLEAN
  OBVIOUS
<1>2. /\ Attempt(h) \in PlainItem /\ Return(TRUE) \in PlainItem /\ Return(FALSE) \in PlainItem
      /\ ReturnPresent(h) \in PlainItem /\ Remove(h, TRUE) \in PlainItem /\ Remove(h, FALSE) \in PlainItem
  BY <1>1, PlainItems, Zenon
<1>3. \A q \in Seq(Removals \cup Returns) : Send(h, q) \in PlainItem
  BY <1>1, PlainItems, Zenon
<1>4. Return(FALSE) \in Removals \cup Returns /\ \A announce \in BOOLEAN : Remove(h, announce) \in Removals \cup Returns
  <2>1. Return(FALSE) \in Returns
    BY DEF Return, Returns
  <2>2. \A announce \in BOOLEAN : Remove(h, announce) \in Removals
    BY DEF Remove, Removals
  <2>. QED
    BY <2>1, <2>2, Zenon
<1>5. <<Return(FALSE)>> \in Seq(Removals \cup Returns)
  BY <1>4, Short, Zenon
<1>6. \A announce \in BOOLEAN : <<Remove(h, announce), Return(FALSE)>> \in Seq(Removals \cup Returns)
  BY <1>4, Short, Zenon
<1>7. Send(h, <<Return(FALSE)>>) \in PlainItem /\ \A announce \in BOOLEAN : Send(h, <<Remove(h, announce), Return(FALSE)>>) \in PlainItem
  BY <1>3, <1>5, <1>6, Zenon
<1>8. Reply(h) \in Seq(PlainItem) /\ Error(h) \in Seq(PlainItem)
  BY <1>2, <1>7, Short, Zenon DEF Reply, Error
<1>. QED
  BY <1>2, <1>7, <1>8, Zenon

\* The announcements that handlers make are among what they may push.
LEMMA Announcements ==
  /\ \A room \in Rooms : Broadcast(room) \in PlainItem
  /\ Broadcast(Everywhere) \in PlainItem
  /\ \A i \in Nat \ {0}, room \in Rooms : AnnounceJoin(i, room) \in PlainItem
  /\ CloseAll \in PlainItem
<1>1. \A room \in Rooms \cup {Everywhere} : Broadcast(room) \in Fresh
  BY DEF Broadcast, Fresh
<1>2. \A i \in Nat \ {0}, room \in Rooms : AnnounceJoin(i, room) \in Joins
  BY DEF AnnounceJoin, Joins
<1>3. CloseAll \in Closing
  BY DEF CloseAll, Closing
<1>. QED
  BY <1>1, <1>2, <1>3, Zenon DEF PlainItem

\* Handlers leave the clients in order, and plain calls to make.
Handled ==
  /\ clients' \in Seq(Client) /\ Apart(clients', pending, next_handle) /\ Distinguished(clients')
  /\ HandlesOf(clients') = HandlesOf(clients)
  /\ \A t : Promised(clients', t)
  /\ todo' \in Seq(PlainItem)
  /\ BannedGo(clients', banned', todo')
  /\ banned' \subseteq Names /\ whitelist' \subseteq Names /\ whitelistOn' \in BOOLEAN

\* Whatever a handler of a line does, in the order in which processLine and the
\* console push it, it keeps the invariant if it is Handled.
LEMMA Enters ==
  ASSUME Inductive, todo = <<>>, phase # "failed", Handled,
         phase' \in {"poll", "drain", "closing"}, index' \in Nat \ {0}, lines' \in Nat,
         phase' = "drain" => phase = "drain",
         UNCHANGED <<plaintext, pending, draining, network>>
  PROVE  Inductive'
<1>1. /\ Connected(clients, pending, handles) /\ DrainsClients(draining, pending, next_handle)
      /\ TypeOK /\ Stepped(plaintext, pending, phase, index)
  BY AtRest
<1>2. plaintext' = plaintext /\ pending' = pending /\ draining' = draining /\ handles' = handles
      /\ sessions' = sessions /\ next_handle' = next_handle
  BY DEF network
<1>3. todo' \in Seq(Item) /\ Stacked(clients', todo')
  BY PlainStack DEF Handled
<1>4. TypeOK'
  BY <1>1, <1>2, <1>3 DEF TypeOK, Handled
<1>5. Connected(clients', pending, handles)
  BY <1>1 DEF Connected, Handled
<1>6. Sound(clients', pending, phase', todo', banned', draining, next_handle)
  BY <1>1, <1>3 DEF Sound, Handled
<1>7. Stepped(plaintext, pending, phase', index')
  BY <1>1 DEF Stepped
<1>8. phase' # "failed"
  OBVIOUS
<1>. QED
  BY <1>2, <1>4, <1>5, <1>6, <1>7, <1>8 DEF Inductive

\* A handler that changes no client, and bans nobody.
LEMMA Silence ==
  ASSUME Inductive, todo = <<>>, phase # "failed", UNCHANGED clients, todo' \in Seq(PlainItem),
         banned' \subseteq banned, whitelist' \subseteq Names, whitelistOn' \in BOOLEAN
  PROVE  Handled
<1>1. /\ clients \in Seq(Client) /\ Apart(clients, pending, next_handle) /\ Distinguished(clients)
      /\ Promised(clients, <<>>) /\ BannedGo(clients, banned, <<>>) /\ banned \subseteq Names
  BY AtRest DEF TypeOK
<1>2. \A t : Promised(clients, t) /\ BannedGo(clients, banned, t)
  BY <1>1, NothingLeft, Zenon
<1>3. BannedGo(clients, banned', todo')
  BY <1>2, Zenon DEF BannedGo
<1>. QED
  BY <1>1, <1>2, <1>3 DEF Handled

\* What handlers that change no client leave to do.
LEMMA SilentHandlers ==
  ASSUME clients \in Seq(Client), NEW i \in 1..Len(clients), NEW h \in Handle,
         \/ Talk(i, h) \/ Ask(h) \/ ShowHistory(h) \/ Quit(h) \/ SendPrivate(h) \/ Kick(i)
         \/ todo' = Error(h) /\ Silent
  PROVE  todo' \in Seq(PlainItem) /\ Silent
<1>1. /\ Attempt(h) \in PlainItem /\ Return(TRUE) \in PlainItem /\ Return(FALSE) \in PlainItem
      /\ ReturnPresent(h) \in PlainItem /\ Remove(h, TRUE) \in PlainItem /\ Remove(h, FALSE) \in PlainItem
      /\ Send(h, <<Return(FALSE)>>) \in PlainItem
      /\ \A announce \in BOOLEAN : Send(h, <<Remove(h, announce), Return(FALSE)>>) \in PlainItem
      /\ Reply(h) \in Seq(PlainItem) /\ Error(h) \in Seq(PlainItem)
  BY Calls, Zenon
<1>2. \A j \in Named : /\ Send(clients[j].handle, <<Return(FALSE)>>) \in PlainItem
                       /\ Attempt(clients[j].handle) \in PlainItem
                       /\ Remove(clients[j].handle, FALSE) \in PlainItem
                       /\ Broadcast(clients[j].room) \in PlainItem
  <2>1. \A j \in Named : clients[j].handle \in Handle /\ clients[j].room \in Rooms
    BY Places, ClientFacts, Zenon
  <2>. QED
    BY <2>1, Calls, Announcements, Zenon
<1>3. CASE Talk(i, h)
  <2>1. \A room \in {clients[i].room, Everywhere} : Broadcast(room) \in PlainItem
    BY ClientFacts, Announcements, Zenon
  <2>. QED
    BY <1>1, <1>3, <2>1, Short, Zenon DEF Talk
<1>4. CASE Ask(h)
  <2>1. todo' = Reply(h) \/ todo' = <<Return(TRUE)>>
    BY <1>4 DEF Ask
  <2>. QED
    BY <1>1, <1>4, <2>1, Short, Zenon DEF Ask
<1>5. CASE ShowHistory(h)
  <2>1. Send(h, <<Remove(h, TRUE), Return(FALSE)>>) \in PlainItem
    BY <1>1, Zenon
  <2>. QED
    BY <1>1, <1>5, <2>1, Short, Zenon DEF ShowHistory
<1>6. CASE Quit(h)
  BY <1>1, <1>6, Short, Zenon DEF Quit
<1>7. CASE SendPrivate(h)
  <2>1. PICK j \in Named : todo' = <<Send(clients[j].handle, <<Return(FALSE)>>)>> \o Reply(h)
    BY <1>7 DEF SendPrivate
  <2>2. <<Send(clients[j].handle, <<Return(FALSE)>>)>> \in Seq(PlainItem)
    BY <1>2, Short, Zenon
  <2>3. todo' \in Seq(PlainItem)
    BY <1>1, <2>1, <2>2, ConcatProperties, Zenon
  <2>. QED
    BY <1>7, <2>3, Zenon DEF SendPrivate
<1>8. CASE Kick(i)
  <2>1. PICK j \in Named : todo' = Kicked(j) \o <<Return(TRUE)>>
    BY <1>8 DEF Kick
  <2>2. Kicked(j) \in Seq(PlainItem)
    BY <1>2, Short, Zenon DEF Kicked
  <2>3. <<Return(TRUE)>> \in Seq(PlainItem)
    BY <1>1, Short, Zenon
  <2>4. todo' \in Seq(PlainItem)
    BY <2>1, <2>2, <2>3, ConcatProperties, Zenon
  <2>. QED
    BY <1>8, <2>4, Zenon DEF Kick
<1>9. CASE todo' = Error(h) /\ Silent
  BY <1>1, <1>9
<1>. QED
  BY <1>3, <1>4, <1>5, <1>6, <1>7, <1>8, <1>9, Zenon

\* A line of a client is dealt with.
LEMMA NameHandlers ==
  ASSUME Inductive, todo = <<>>, phase # "failed", NEW i \in 1..Len(clients), NEW h \in Handle,
         \/ clients[i].name = None /\ RegisterName(i, h)
         \/ clients[i].name # None /\ RenameClient(i, h)
  PROVE  Handled
<1>1. /\ clients \in Seq(Client) /\ Apart(clients, pending, next_handle) /\ Distinguished(clients)
      /\ Promised(clients, <<>>) /\ BannedGo(clients, banned, <<>>)
      /\ banned \subseteq Names /\ whitelist \subseteq Names /\ whitelistOn \in BOOLEAN
  BY AtRest DEF TypeOK
<1>2. /\ Attempt(h) \in PlainItem /\ ReturnPresent(h) \in PlainItem /\ Error(h) \in Seq(PlainItem)
      /\ Send(h, <<Remove(h, FALSE), Return(FALSE)>>) \in PlainItem
  <2>1. FALSE \in BOOLEAN
    OBVIOUS
  <2>. QED
    BY <2>1, Calls, Zenon
<1>3. CASE todo' = Error(h) /\ Silent
  <2>1. UNCHANGED clients /\ banned' \subseteq banned /\ whitelist' \subseteq Names /\ whitelistOn' \in BOOLEAN
    BY <1>1, <1>3 DEF Silent, lists
  <2>2. todo' \in Seq(PlainItem)
    BY <1>2, <1>3
  <2>. QED
    BY <2>1, <2>2, Silence, Zenon
<1>4. ASSUME NEW n \in Names, NEW x \in Client, ~Refused(n), clients' = [clients EXCEPT ![i] = x],
             x.handle = clients[i].handle, x.name = n,
             x.admin <=> clients[i].admin \/ \A k \in 1..Len(clients) : clients[k].name = None,
             todo' \in Seq(PlainItem), UNCHANGED lists
      PROVE  Handled
  <2>1. n # None
    BY ChatServerAssumption
  <2>2. \A k \in 1..Len(clients) : clients[k].name # n
    <3>1. FindName(n) = {}
      BY <1>4, Zenon DEF Refused
    <3>2. FindName(n) = {k \in 1..Len(clients) : clients[k].name = n}
      BY <1>1, Places, Zenon
    <3>. QED
      BY <3>1, <3>2, Zenon
  <2>3. /\ clients' \in Seq(Client) /\ Apart(clients', pending, next_handle) /\ Distinguished(clients')
        /\ HandlesOf(clients') = HandlesOf(clients) /\ \A t : Promised(clients', t)
    <3>1. CanName(clients, i, pending, next_handle, x)
      BY <1>1, <1>4, <2>1, <2>2, Zenon DEF CanName
    <3>2. Kept([clients EXCEPT ![i] = x], clients, pending, next_handle)
      BY <3>1, NamedClients, Zenon
    <3>3. Kept(clients', clients, pending, next_handle)
      BY <1>4, <3>2
    <3>. QED
      BY <3>3, Zenon DEF Kept
  <2>4. /\ Len(clients') = Len(clients)
        /\ clients'[i] = x /\ \A k \in 1..Len(clients) : k # i => clients'[k] = clients[k]
    BY <1>1, <1>4, ExceptSeq
  <2>5. n \notin banned
    BY <1>4, Zenon DEF Refused
  <2>6. \A k \in 1..Len(clients) : clients[k].name \notin banned
    <3>1. \A g : ~Going(g, <<>>)
      BY DEF Going
    <3>. QED
      BY <1>1, <3>1, Zenon DEF BannedGo
  <2>7. \A k \in 1..Len(clients') : clients'[k].name \notin banned
    BY <1>4, <2>4, <2>5, <2>6, Zenon
  <2>8. banned' = banned /\ whitelist' = whitelist /\ whitelistOn' = whitelistOn
    BY <1>4 DEF lists
  <2>9. BannedGo(clients', banned', todo')
    BY <2>7, <2>8, Zenon DEF BannedGo
  <2>. QED
    BY <1>1, <1>4, <2>3, <2>8, <2>9 DEF Handled
<1>5. CASE clients[i].name = None /\ RegisterName(i, h)
  <2>1. CASE \E n \in Names :
       /\ ~Refused(n)
       /\ clients' = [clients EXCEPT ![i] = [@ EXCEPT !.name = n, !.room = Lobby, !.admin = Named = {}]]
       /\ todo' = <<Send(h, <<Remove(h, FALSE), Return(FALSE)>>), Broadcast(Lobby), ReturnPresent(h)>>
       /\ UNCHANGED lists
    <3>1. PICK n \in Names :
            /\ ~Refused(n)
            /\ clients' = [clients EXCEPT ![i] = [@ EXCEPT !.name = n, !.room = Lobby, !.admin = Named = {}]]
            /\ todo' = <<Send(h, <<Remove(h, FALSE), Return(FALSE)>>), Broadcast(Lobby), ReturnPresent(h)>>
            /\ UNCHANGED lists
      BY <2>1
    <3>2. PICK x : x = [clients[i] EXCEPT !.name = n, !.room = Lobby, !.admin = Named = {}]
      OBVIOUS
    <3>3. x \in Client /\ x.handle = clients[i].handle /\ x.name = n /\ (x.admin <=> Named = {})
      <4>1. clients[i] \in Client /\ Lobby \in Rooms
        BY <1>1, ChatServerAssumption
      <4>2. PICK a \in BOOLEAN : a <=> Named = {}
        OBVIOUS
      <4>3. x = [clients[i] EXCEPT !.name = n, !.room = Lobby, !.admin = a]
        BY <3>2, <4>2
      <4>. QED
        BY <4>1, <4>2, <4>3 DEF Client
    <3>4. clients' = [clients EXCEPT ![i] = x]
      BY <3>1, <3>2
    <3>5. x.admin <=> clients[i].admin \/ \A k \in 1..Len(clients) : clients[k].name = None
      <4>1. ~clients[i].admin
        BY <1>1, <1>5, Zenon DEF Distinguished
      <4>2. Named = {} <=> \A k \in 1..Len(clients) : clients[k].name = None
        BY <1>1, Places, Zenon
      <4>. QED
        BY <3>3, <4>1, <4>2, Zenon
    <3>6. todo' \in Seq(PlainItem)
      <4>1. Broadcast(Lobby) \in PlainItem
        BY Announcements, ChatServerAssumption, Zenon
      <4>. QED
        BY <1>2, <3>1, <4>1, Short, Zenon
    <3>. QED
      BY <1>4, <3>1, <3>3, <3>4, <3>5, <3>6, Zenon
  <2>. QED
    BY <1>3, <1>5, <2>1, Zenon DEF RegisterName
<1>6. CASE clients[i].name # None /\ RenameClient(i, h)
  <2>1. CASE \E n \in Names :
       /\ ~Refused(n)
       /\ clients' = [clients EXCEPT ![i].name = n]
       /\ todo' = <<Attempt(h), Broadcast(Everywhere), ReturnPresent(h)>>
       /\ UNCHANGED lists
    <3>1. PICK n \in Names :
            /\ ~Refused(n)
            /\ clients' = [clients EXCEPT ![i].name = n]
            /\ todo' = <<Attempt(h), Broadcast(Everywhere), ReturnPresent(h)>>
            /\ UNCHANGED lists
      BY <2>1
    <3>2. PICK x : x = [clients[i] EXCEPT !.name = n]
      OBVIOUS
    <3>3. x \in Client /\ x.handle = clients[i].handle /\ x.name = n /\ x.admin = clients[i].admin
      <4>1. clients[i] \in Client
        BY <1>1
      <4>. QED
        BY <3>2, <4>1 DEF Client
    <3>4. clients' = [clients EXCEPT ![i] = x]
      BY <3>1, <3>2
    <3>5. x.admin <=> clients[i].admin \/ \A k \in 1..Len(clients) : clients[k].name = None
      BY <1>6, <3>3, Zenon
    <3>6. todo' \in Seq(PlainItem)
      BY <1>2, <3>1, Announcements, Short, Zenon
    <3>. QED
      BY <1>4, <3>1, <3>3, <3>4, <3>5, <3>6, Zenon
  <2>. QED
    BY <1>3, <1>6, <2>1, Zenon DEF RenameClient
<1>. QED
  BY <1>5, <1>6

\* cmdJoin is Handled: the client changes rooms before either room is told.
LEMMA JoinHandler ==
  ASSUME Inductive, todo = <<>>, phase # "failed", NEW i \in 1..Len(clients), NEW h \in Handle, Join(i, h)
  PROVE  Handled
<1>1. /\ clients \in Seq(Client) /\ Apart(clients, pending, next_handle) /\ Distinguished(clients)
      /\ Promised(clients, <<>>) /\ BannedGo(clients, banned, <<>>)
      /\ banned \subseteq Names /\ whitelist \subseteq Names /\ whitelistOn \in BOOLEAN
  BY AtRest DEF TypeOK
<1>2. PICK room \in Rooms :
        /\ clients' = [clients EXCEPT ![i].room = room]
        /\ todo' = <<Send(h, <<Return(FALSE)>>), Broadcast(clients[i].room), AnnounceJoin(i, room), Return(TRUE)>>
        /\ UNCHANGED lists
  BY DEF Join
<1>3. PICK x : x = [clients[i] EXCEPT !.room = room]
  OBVIOUS
<1>4. x \in Client /\ x.handle = clients[i].handle /\ x.name = clients[i].name /\ x.admin = clients[i].admin
  <2>1. clients[i] \in Client
    BY <1>1
  <2>. QED
    BY <1>3, <2>1 DEF Client
<1>5. clients' = [clients EXCEPT ![i] = x]
  BY <1>2, <1>3
<1>6. Kept(clients', clients, pending, next_handle)
  <2>1. Kept([clients EXCEPT ![i] = x], clients, pending, next_handle)
    BY <1>1, <1>4, MovedClient
  <2>. QED
    BY <1>5, <2>1
<1>7. /\ Len(clients') = Len(clients)
      /\ clients'[i] = x /\ \A k \in 1..Len(clients) : k # i => clients'[k] = clients[k]
  BY <1>1, <1>4, <1>5, ExceptSeq
<1>8. \A k \in 1..Len(clients) : clients[k].name \notin banned
  <2>1. \A g : ~Going(g, <<>>)
    BY DEF Going
  <2>. QED
    BY <1>1, <2>1, Zenon DEF BannedGo
<1>9. \A k \in 1..Len(clients') : clients'[k].name \notin banned
  BY <1>4, <1>7, <1>8, Zenon
<1>10. banned' = banned /\ whitelist' = whitelist /\ whitelistOn' = whitelistOn
  BY <1>2 DEF lists
<1>11. BannedGo(clients', banned', todo')
  BY <1>9, <1>10, Zenon DEF BannedGo
<1>12. todo' \in Seq(PlainItem)
  <2>1. Send(h, <<Return(FALSE)>>) \in PlainItem /\ Return(TRUE) \in PlainItem
    BY Calls, Zenon
  <2>2. Broadcast(clients[i].room) \in PlainItem
    BY <1>1, ClientFacts, Announcements, Zenon
  <2>3. i \in Nat \ {0}
    BY <1>1, LenProperties
  <2>4. AnnounceJoin(i, room) \in PlainItem
    BY <2>3, Announcements, Zenon
  <2>. QED
    BY <1>2, <2>1, <2>2, <2>4, Short, Zenon
<1>. QED
  BY <1>1, <1>6, <1>10, <1>11, <1>12 DEF Handled, Kept

\* The commands about lists.  Who is banned is removed.
LEMMA ListHandlers ==
  ASSUME Inductive, todo = <<>>, phase # "failed", NEW h \in Handle,
         Ban(h) \/ Unban(h) \/ Whitelist(h)
  PROVE  Handled
<1>1. /\ clients \in Seq(Client) /\ Apart(clients, pending, next_handle) /\ Distinguished(clients)
      /\ Promised(clients, <<>>) /\ BannedGo(clients, banned, <<>>)
      /\ banned \subseteq Names /\ whitelist \subseteq Names /\ whitelistOn \in BOOLEAN
  BY AtRest DEF TypeOK
<1>2. /\ Attempt(h) \in PlainItem /\ Return(TRUE) \in PlainItem /\ Send(h, <<Return(FALSE)>>) \in PlainItem
      /\ Reply(h) \in Seq(PlainItem) /\ Broadcast(Everywhere) \in PlainItem
  BY Calls, Announcements, Zenon
<1>3. Tell(h) \in Seq(PlainItem)
  BY <1>2, Short, Zenon DEF Tell
<1>4. CASE Ban(h)
  <2>1. PICK n \in Names :
          /\ banned' = banned \cup {n}
          /\ todo' = (IF FindName(n) = {} THEN <<>> ELSE Kicked(The(FindName(n)))) \o Tell(h)
          /\ UNCHANGED <<clients, whitelist, whitelistOn>>
    BY <1>4 DEF Ban
  <2>2. FindName(n) = {k \in 1..Len(clients) : clients[k].name = n} /\ n # None
    BY <1>1, Places, ChatServerAssumption, Zenon
  <2>3. \A t : Promised(clients, t)
    BY <1>1, NothingLeft, Zenon
  <2>4. \A k \in 1..Len(clients) : clients[k].name \notin banned
    <3>1. \A g : ~Going(g, <<>>)
      BY DEF Going
    <3>. QED
      BY <1>1, <3>1, Zenon DEF BannedGo
  <2>5. banned' \subseteq Names /\ whitelist' \subseteq Names /\ whitelistOn' \in BOOLEAN /\ clients' = clients
    BY <1>1, <2>1
  <2>6. CASE FindName(n) = {}
    <3>1. <<>> \in Seq(PlainItem)
      OBVIOUS
    <3>2. todo' \in Seq(PlainItem)
      BY <1>3, <2>1, <2>6, <3>1, ConcatProperties, Zenon
    <3>3. \A k \in 1..Len(clients) : clients[k].name \notin banned'
      BY <2>1, <2>2, <2>4, <2>6, Zenon
    <3>4. BannedGo(clients, banned', todo')
      BY <3>3, Zenon DEF BannedGo
    <3>. QED
      BY <1>1, <2>3, <2>5, <3>2, <3>4 DEF Handled
  <2>7. CASE FindName(n) # {}
    <3>1. PICK j : j = The(FindName(n))
      OBVIOUS
    <3>2. j \in 1..Len(clients) /\ clients[j].name = n
      BY <2>2, <2>7, <3>1, TheFacts, Zenon
    <3>3. PICK g : g = clients[j].handle
      OBVIOUS
    <3>4. g \in Handle /\ clients[j].room \in Rooms
      BY <1>1, <3>2, <3>3, ClientFacts
    <3>5. PICK x : x = Attempt(g)
      OBVIOUS
    <3>6. PICK y : y = Remove(g, FALSE)
      OBVIOUS
    <3>7. PICK z : z = Broadcast(clients[j].room)
      OBVIOUS
    <3>8. x \in PlainItem /\ y \in PlainItem /\ z \in PlainItem
      BY <3>4, <3>5, <3>6, <3>7, Calls, Announcements, Zenon
    <3>9. Kicked(j) = <<x, y, z>>
      BY <3>3, <3>5, <3>6, <3>7 DEF Kicked
    <3>10. <<x, y, z>> \in Seq(PlainItem)
      BY <3>8, Short, Zenon
    <3>11. todo' = <<x, y, z>> \o Tell(h)
      BY <2>1, <2>7, <3>1, <3>9
    <3>12. /\ todo' \in Seq(PlainItem) /\ Len(todo') = 3 + Len(Tell(h))
           /\ todo'[1] = x /\ todo'[2] = y
      <4>1. Len(<<x, y, z>>) = 3 /\ <<x, y, z>>[1] = x /\ <<x, y, z>>[2] = y /\ Len(Tell(h)) \in Nat
        BY <1>3, LenProperties
      <4>. QED
        BY <1>3, <3>10, <3>11, <4>1, ConcatProperties
    <3>13. Len(Tell(h)) \in Nat
      BY <1>3, LenProperties
    <3>14. x.do = "attempt" /\ y.do = "remove" /\ y.who = g
      BY <3>5, <3>6 DEF Attempt, Remove
    <3>15. Going(g, todo')
      BY <3>12, <3>13, <3>14 DEF Going
    <3>16. \A k \in 1..Len(clients) : clients[k].name \in banned' => k = j
      BY <1>1, <2>1, <2>2, <2>4, <3>2, Zenon DEF Distinguished
    <3>17. BannedGo(clients, banned', todo')
      BY <3>3, <3>15, <3>16, Zenon DEF BannedGo
    <3>. QED
      BY <1>1, <2>3, <2>5, <3>12, <3>17 DEF Handled
  <2>. QED
    BY <2>6, <2>7
<1>5. CASE Unban(h)
  <2>1. UNCHANGED clients /\ banned' \subseteq banned /\ whitelist' \subseteq Names /\ whitelistOn' \in BOOLEAN
    BY <1>1, <1>5 DEF Unban
  <2>2. todo' \in Seq(PlainItem)
    BY <1>3, <1>5 DEF Unban
  <2>. QED
    BY <2>1, <2>2, Silence, Zenon
<1>6. CASE Whitelist(h)
  <2>1. UNCHANGED clients /\ banned' \subseteq banned /\ whitelist' \subseteq Names /\ whitelistOn' \in BOOLEAN
    BY <1>1, <1>6 DEF Whitelist
  <2>2. <<Attempt(h), Broadcast(Everywhere), Return(TRUE)>> \in Seq(PlainItem)
    BY <1>2, Short, Zenon
  <2>3. todo' \in Seq(PlainItem)
    BY <1>2, <1>6, <2>2, Zenon DEF Whitelist
  <2>. QED
    BY <2>1, <2>3, Silence, Zenon
<1>. QED
  BY <1>4, <1>5, <1>6

\* A line received from a client keeps the invariant, whatever is in it.
LEMMA ReceiveStep ==
  ASSUME Inductive, ReceiveLine
  PROVE  Inductive'
<1>1. /\ phase = "drain" /\ todo = <<>> /\ draining # None /\ draining \in handles
      /\ lines' = lines + 1 /\ ProcessLine(The(FindClient(draining)), draining)
      /\ UNCHANGED <<plaintext, pending, phase, index, draining, network>>
  BY DEF ReceiveLine, Draining, Idle, Receivable, loop
<1>2. /\ clients \in Seq(Client) /\ TypeOK /\ phase # "failed"
      /\ Connected(clients, pending, handles) /\ DrainsClients(draining, pending, next_handle)
      /\ lines \in Nat /\ index \in Nat \ {0} /\ handles \subseteq Handle
      /\ banned \subseteq Names /\ whitelist \subseteq Names /\ whitelistOn \in BOOLEAN
  BY <1>1, AtRest DEF TypeOK
<1>3. PICK i : i = The(FindClient(draining))
  OBVIOUS
<1>4. i \in 1..Len(clients)
  <2>1. draining \in HandlesOf(clients)
    BY <1>1, <1>2 DEF Connected, DrainsClients
  <2>2. FindClient(draining) = {k \in 1..Len(clients) : clients[k].handle = draining}
    BY <1>2, Places, Zenon
  <2>3. FindClient(draining) # {}
    BY <2>1, <2>2, Zenon DEF HandlesOf
  <2>. QED
    BY <1>3, <2>2, <2>3, TheFacts, Zenon
<1>5. draining \in Handle
  BY <1>1, <1>2
<1>6. ProcessLine(i, draining)
  BY <1>1, <1>3
<1>7. Handled
  <2>1. CASE todo' \in Seq(PlainItem) /\ Silent
    <3>1. UNCHANGED clients /\ banned' \subseteq banned /\ whitelist' \subseteq Names /\ whitelistOn' \in BOOLEAN
      BY <1>2, <2>1 DEF Silent, lists
    <3>. QED
      BY <1>1, <1>2, <2>1, <3>1, Silence, Zenon
  <2>2. CASE \/ Talk(i, draining) \/ Ask(draining) \/ ShowHistory(draining) \/ Quit(draining)
             \/ SendPrivate(draining) \/ Kick(i)
             \/ todo' = Error(draining) /\ Silent
    BY <1>2, <1>4, <1>5, <2>1, <2>2, SilentHandlers, Zenon
  <2>3. CASE \/ clients[i].name = None /\ RegisterName(i, draining)
             \/ clients[i].name # None /\ RenameClient(i, draining)
    BY <1>1, <1>2, <1>4, <1>5, <2>3, NameHandlers, Zenon
  <2>4. CASE Join(i, draining)
    BY <1>1, <1>2, <1>4, <1>5, <2>4, JoinHandler, Zenon
  <2>5. CASE Ban(draining) \/ Unban(draining) \/ Whitelist(draining)
    BY <1>1, <1>2, <1>5, <2>5, ListHandlers, Zenon
  <2>. QED
    BY <1>6, <2>2, <2>3, <2>4, <2>5, Zenon DEF ProcessLine, HandleCommand
<1>8. lines' \in Nat /\ index' \in Nat \ {0} /\ phase' \in {"poll", "drain", "closing"} /\ (phase' = "drain" => phase = "drain")
  BY <1>1, <1>2
<1>. QED
  BY <1>1, <1>2, <1>7, <1>8, Enters, Zenon

\* The end of a client's connection, a line of the console and the end of the
\* server keep the invariant.
LEMMA OtherSteps ==
  ASSUME Inductive, ReceiveEnd \/ Console \/ Stop
  PROVE  Inductive'
<1>1. todo = <<>> /\ phase = "drain"
  BY DEF ReceiveEnd, Draining, Console, Stop, AllDrained, Idle
<1>2. /\ clients \in Seq(Client) /\ TypeOK /\ phase # "failed"
      /\ lines \in Nat /\ index \in Nat \ {0} /\ draining \in Handle \cup {None}
      /\ banned \subseteq Names /\ whitelist \subseteq Names /\ whitelistOn \in BOOLEAN
  BY <1>1, AtRest DEF TypeOK
<1>3. UNCHANGED <<plaintext, clients, pending, banned, whitelist, whitelistOn, draining, network>>
  <2>1. CASE ReceiveEnd
    BY <2>1, Zenon DEF ReceiveEnd, lists, loop
  <2>2. CASE Console
    BY <2>2, Zenon DEF Console, lists
  <2>3. CASE Stop
    BY <2>3, Zenon DEF Stop, lists
  <2>. QED
    BY <2>1, <2>2, <2>3
<1>4. phase' \in {"poll", "drain", "closing"} /\ index' \in Nat \ {0} /\ lines' \in Nat /\ (phase' = "drain" => phase = "drain")
  <2>1. CASE ReceiveEnd
    <3>1. phase' = phase /\ index' = index /\ lines' = lines
      BY <2>1, Zenon DEF ReceiveEnd, loop
    <3>. QED
      BY <1>1, <1>2, <3>1
  <2>2. CASE Console
    <3>1. phase' = "poll" /\ index' = 1 /\ (lines' = lines \/ lines' = lines + 1)
      BY <2>2, Zenon DEF Console
    <3>. QED
      BY <1>1, <1>2, <3>1
  <2>3. CASE Stop
    <3>1. phase' = "closing" /\ index' = index /\ lines' = lines
      BY <2>3, Zenon DEF Stop
    <3>. QED
      BY <1>1, <1>2, <3>1
  <2>. QED
    BY <2>1, <2>2, <2>3
<1>5. todo' \in Seq(PlainItem)
  <2>1. Broadcast(Everywhere) \in PlainItem /\ CloseAll \in PlainItem
    BY Announcements, Zenon
  <2>2. CASE ReceiveEnd
    <3>1. draining \in Handle
      BY <1>2, <2>2 DEF ReceiveEnd, Draining
    <3>2. Remove(draining, TRUE) \in PlainItem /\ Return(FALSE) \in PlainItem
      BY <3>1, Calls, Zenon
    <3>. QED
      BY <2>2, <3>2, Short, Zenon DEF ReceiveEnd
  <2>3. CASE Stop
    BY <2>1, <2>3, Short, Zenon DEF Stop
  <2>4. CASE Console
    <3>1. \A j \in Named : Attempt(clients[j].handle) \in PlainItem /\ Remove(clients[j].handle, TRUE) \in PlainItem
      <4>1. \A j \in Named : clients[j].handle \in Handle
        BY <1>2, Places, ClientFacts, Zenon
      <4>. QED
        BY <4>1, Calls, Zenon
    <3>2. \A j \in Named : <<Attempt(clients[j].handle), Remove(clients[j].handle, TRUE)>> \in Seq(PlainItem)
      BY <3>1, Short, Zenon
    <3>3. <<Broadcast(Everywhere)>> \in Seq(PlainItem)
      BY <2>1, Short, Zenon
    <3>4. \/ todo' = todo \/ todo' = <<Broadcast(Everywhere)>>
          \/ \E j \in Named : todo' = <<Attempt(clients[j].handle), Remove(clients[j].handle, TRUE)>>
      BY <2>4 DEF Console
    <3>5. <<>> \in Seq(PlainItem)
      OBVIOUS
    <3>. QED
      BY <1>1, <3>2, <3>3, <3>4, <3>5, Zenon
  <2>. QED
    BY <2>2, <2>3, <2>4
<1>6. Handled
  <2>1. banned' \subseteq banned /\ whitelist' \subseteq Names /\ whitelistOn' \in BOOLEAN /\ clients' = clients
    BY <1>2, <1>3
  <2>. QED
    BY <1>1, <1>2, <1>5, <2>1, Silence, Zenon
<1>7. UNCHANGED <<plaintext, pending, draining, network>>
  BY <1>3
<1>. QED
  BY <1>1, <1>2, <1>4, <1>6, <1>7, Enters, Zenon

(***************************************************************************)
(* What is proved of the server                                            *)
(***************************************************************************)
\* The invariant holds when the server starts.
LEMMA InitInductive ==
  ASSUME Init
  PROVE  Inductive
<1>1. /\ clients = <<>> /\ pending = <<>> /\ todo = <<>> /\ phase = "poll" /\ draining = None
      /\ handles = {} /\ next_handle = 1
  BY DEF Init
<1>2. TypeOK
  <2>1. <<>> \in Seq(Client) /\ <<>> \in Seq(Waiting) /\ <<>> \in Seq(Item)
    OBVIOUS
  <2>2. next_handle = 1 /\ next_handle \in 1..MaxHandle + 1
    BY <1>1, ChatServerAssumption
  <2>3. index \in Nat \ {0} /\ lines \in Nat
    BY DEF Init
  <2>4. banned \subseteq Names /\ whitelist \subseteq Names /\ handles \subseteq Handle /\ sessions \subseteq Handle
    BY DEF Init
  <2>5. plaintext \in BOOLEAN /\ whitelistOn \in BOOLEAN
    BY Zenon DEF Init
  <2>. QED
    BY <1>1, <2>1, <2>2, <2>3, <2>4, <2>5, Zenon DEF TypeOK
<1>3. HandlesOf(<<>>) = {} /\ NoTwins(<<>>) /\ Len(<<>>) = 0
  BY DEF HandlesOf, NoTwins
<1>4. Connected(<<>>, <<>>, {}) /\ Apart(<<>>, <<>>, 1) /\ DrainsClients(None, <<>>, 1)
  BY <1>3 DEF Connected, Apart, DrainsClients
<1>5. Distinguished(<<>>) /\ Promised(<<>>, <<>>) /\ BannedGo(<<>>, banned, <<>>)
  BY <1>3 DEF Distinguished, Promised, BannedGo
<1>6. Stacked(<<>>, <<>>)
  <2>1. <<>> \in Seq(PlainItem)
    OBVIOUS
  <2>. QED
    BY <2>1, PlainStack
<1>7. Sound(<<>>, <<>>, "poll", <<>>, banned, None, 1)
  BY <1>4, <1>5, <1>6, Zenon DEF Sound
<1>8. Stepped(plaintext, <<>>, "poll", index)
  BY DEF Stepped
<1>. QED
  BY <1>1, <1>2, <1>4, <1>7, <1>8 DEF Inductive

\* A step that changes nothing keeps the invariant.
LEMMA InductiveStutters ==
  ASSUME Inductive, UNCHANGED vars
  PROVE  Inductive'
BY Zenon DEF Inductive, vars, lists, loop, network, TypeOK

\* The inductive invariant holds, whatever the constants.
THEOREM InductiveCorrect == Spec => []Inductive
<1>1. Init => Inductive
  BY InitInductive
<1>2. Inductive /\ [Next]_vars => Inductive'
  <2>. SUFFICES ASSUME Inductive, [Next]_vars PROVE Inductive'
    OBVIOUS
  <2>1. CASE AttemptLine \/ SendLine \/ BroadcastEnds \/ ReturnLine
    BY <2>1, Pops, Zenon
  <2>2. CASE RemoveClient
    BY <2>2, RemoveClientStep, Zenon
  <2>3. CASE BroadcastLine
    BY <2>3, BroadcastStep, Zenon
  <2>4. CASE PromoteFirstAdmin
    BY <2>4, PromoteStep, Zenon
  <2>5. CASE UseIndex
    BY <2>5, UseIndexStep, Zenon
  <2>6. CASE Poll \/ NoneToAccept \/ AllStepped \/ DrainNext \/ ReceiveWait
    BY <2>6, LoopSteps, Zenon
  <2>7. CASE AcceptPending
    BY <2>7, AcceptStep, Zenon
  <2>8. CASE StepPending
    BY <2>8, StepStep, Zenon
  <2>9. CASE ReceiveLine
    BY <2>9, ReceiveStep, Zenon
  <2>10. CASE ReceiveEnd \/ Console \/ Stop
    BY <2>10, OtherSteps, Zenon
  <2>11. CASE CloseNext
    BY <2>11, CloseStep, Zenon
  <2>12. CASE UNCHANGED vars
    BY <2>12, InductiveStutters, Zenon
  <2>. QED
    BY <2>1, <2>2, <2>3, <2>4, <2>5, <2>6, <2>7, <2>8, <2>9, <2>10, <2>11, <2>12, Zenon DEF Next
<1>. QED
  BY <1>1, <1>2, PTL DEF Spec

\* Every variable has its type, and every item on the stack its form.
THEOREM TypeCorrect == Spec => []TypeOK
<1>1. Inductive => TypeOK
  BY DEF Inductive
<1>. QED
  BY <1>1, InductiveCorrect, PTL

\* promoteFirstAdmin, wherever a removal calls it: never two admins, and one
\* again when the call is done.
THEOREM AdminCorrect == Spec => []OneAdmin
<1>1. Inductive => OneAdmin
  <2>. SUFFICES ASSUME Inductive PROVE OneAdmin
    OBVIOUS
  <2>1. /\ clients \in Seq(Client) /\ Distinguished(clients) /\ (phase # "failed" => Promised(clients, todo))
    BY DEF Inductive, Sound, TypeOK
  <2>2. /\ Named = {i \in 1..Len(clients) : clients[i].name # None}
        /\ Admins = {i \in 1..Len(clients) : clients[i].name # None /\ clients[i].admin}
    BY <2>1, Places, Zenon
  <2>3. \A i, j \in Admins : i = j
    BY <2>1, <2>2, Zenon DEF Distinguished
  <2>4. ASSUME Idle, phase # "failed", Named # {} PROVE Admins # {}
    <3>1. todo = <<>> /\ ~HasPromote(<<>>)
      BY <2>4, NothingLeft, Zenon DEF Idle
    <3>2. \E i \in 1..Len(clients) : clients[i].admin
      BY <2>1, <2>2, <2>4, <3>1, Zenon DEF Promised
    <3>. QED
      BY <2>1, <2>2, <3>2, Zenon DEF Distinguished
  <2>. QED
    BY <2>3, <2>4, Zenon DEF OneAdmin
<1>. QED
  BY <1>1, InductiveCorrect, PTL

\* registerName, renameClient and banName: names are unique, and a banned client
\* is gone when the command is done.
THEOREM NamesCorrect == Spec => []NamesAreFree
<1>1. Inductive => NamesAreFree
  <2>. SUFFICES ASSUME Inductive PROVE NamesAreFree
    OBVIOUS
  <2>1. /\ clients \in Seq(Client) /\ Distinguished(clients) /\ BannedGo(clients, banned, todo)
    BY DEF Inductive, Sound, TypeOK
  <2>2. Named = {i \in 1..Len(clients) : clients[i].name # None}
    BY <2>1, Places, Zenon
  <2>3. \A i, j \in Named : clients[i].name = clients[j].name => i = j
    BY <2>1, <2>2, Zenon DEF Distinguished
  <2>4. ASSUME Idle PROVE \A i \in Named : clients[i].name \notin banned
    <3>1. \A h : ~Going(h, <<>>)
      BY DEF Going
    <3>. QED
      BY <2>1, <2>2, <2>4, <3>1, Zenon DEF BannedGo, Idle
  <2>. QED
    BY <2>3, <2>4, Zenon DEF NamesAreFree
<1>. QED
  BY <1>1, InductiveCorrect, PTL

\* acceptPending, promotePending, removePendingAt and removeClientAt: every open
\* connection has one place, and every place an open connection.
THEOREM ConnectionsCorrect == Spec => []ConnectionsAreKept
<1>1. Inductive => ConnectionsAreKept
  <2>. SUFFICES ASSUME Inductive, phase # "failed" PROVE ConnectionsAreKept
    BY Zenon DEF ConnectionsAreKept
  <2>1. /\ clients \in Seq(Client) /\ pending \in Seq(Waiting) /\ Connected(clients, pending, handles)
        /\ Apart(clients, pending, next_handle)
    BY DEF Inductive, Sound, TypeOK
  <2>2. DOMAIN clients = 1..Len(clients) /\ DOMAIN pending = 1..Len(pending)
    BY <2>1, LenProperties
  <2>3. handles = {clients[i].handle : i \in DOMAIN clients} \cup {pending[i].handle : i \in DOMAIN pending}
    BY <2>1, <2>2 DEF Connected, HandlesOf
  <2>4. /\ \A i, j \in DOMAIN clients : clients[i].handle = clients[j].handle => i = j
        /\ \A i, j \in DOMAIN pending : pending[i].handle = pending[j].handle => i = j
    BY <2>1, <2>2, Zenon DEF Apart, NoTwins
  <2>5. \A i \in DOMAIN clients, j \in DOMAIN pending : clients[i].handle # pending[j].handle
    BY <2>1, <2>2 DEF Apart, HandlesOf
  <2>. QED
    BY <2>3, <2>4, <2>5, Zenon DEF ConnectionsAreKept
<1>. QED
  BY <1>1, InductiveCorrect, PTL

\* broadcastRoom and broadcastAll: nobody hears a line twice, and nobody who
\* stays misses it, unless the broadcast removed the admin.
THEOREM BroadcastCorrect == Spec => []BroadcastReaches
<1>1. Inductive => BroadcastReaches
  <2>. SUFFICES ASSUME Inductive, Doing("broadcast") PROVE BroadcastReaches
    BY Zenon DEF BroadcastReaches
  <2>1. todo # <<>> /\ todo[1].do = "broadcast"
    BY DEF Doing
  <2>2. clients \in Seq(Client) /\ todo \in Seq(Item) /\ Stacked(clients, todo) /\ todo[1] \in Item
    BY <2>1, Busy, Zenon
  <2>3. PICK b : b = todo[1]
    OBVIOUS
  <2>4. b \in Broadcasts
    BY <2>1, <2>2, <2>3, Kinds, Zenon
  <2>5. Spoken(clients, b)
    <3>1. BroadcastsSpoken(clients, todo) /\ 1 \in 1..Len(todo)
      BY <2>1, <2>2, TailFacts DEF Stacked
    <3>2. IsBroadcast(todo[1])
      BY <2>1 DEF IsBroadcast
    <3>. QED
      BY <2>3, <3>1, <3>2, Zenon DEF BroadcastsSpoken
  <2>6. b.index \in Nat \ {0} /\ Len(clients) \in Nat
    BY <2>2, <2>4, LenProperties DEF Broadcasts
  <2>7. \A k : k \in Audience(b.room, b.index) <=> k \in 1..Len(clients) /\ k >= b.index /\ Listens(clients[k], b.room)
    BY <2>6 DEF Audience
  <2>8. \A k : k \in Audience(b.room, 1) <=> k \in 1..Len(clients) /\ Listens(clients[k], b.room)
    BY DEF Audience
  <2>9. \A k \in Audience(b.room, b.index) : clients[k].handle \notin b.heard
    BY <2>5, <2>7, Zenon DEF Spoken
  <2>10. ASSUME Audience(b.room, b.index) = {}, ~b.deposed, NEW k \in Audience(b.room, 1)
         PROVE  clients[k].handle \in b.heard
    <3>1. k \in 1..Len(clients) /\ Listens(clients[k], b.room) /\ k < b.index
      <4>1. k \in 1..Len(clients) /\ Listens(clients[k], b.room) /\ ~(k >= b.index)
        BY <2>7, <2>8, <2>10, Zenon
      <4>. QED
        BY <2>6, <4>1
    <3>. QED
      BY <2>5, <2>10, <3>1, Zenon DEF Spoken
  <2>. QED
    BY <2>3, <2>9, <2>10, Zenon DEF BroadcastReaches
<1>. QED
  BY <1>1, InductiveCorrect, PTL

\* promoteFirstAdmin's index is still right after its broadcast.
THEOREM RoleCorrect == Spec => []RoleReachesAdmin
<1>1. Inductive => RoleReachesAdmin
  <2>. SUFFICES ASSUME Inductive, Doing("tell role") PROVE FindClient(todo[1].of) \subseteq {todo[1].index}
    BY Zenon DEF RoleReachesAdmin
  <2>1. todo # <<>> /\ todo[1].do = "tell role"
    BY DEF Doing
  <2>2. clients \in Seq(Client) /\ todo \in Seq(Item) /\ Stacked(clients, todo) /\ todo # <<>>
    BY <2>1, Busy, Zenon
  <2>3. RolesPointed(clients, todo)
    BY <2>2, Zenon DEF Stacked
  <2>4. 1 \in 1..Len(todo)
    BY <2>2, TopIsThere, Zenon
  <2>5. IsRole(todo[1])
    BY <2>1 DEF IsRole
  <2>6. Pointed(clients, todo[1])
    BY <2>3, <2>5, <2>4, Zenon DEF RolesPointed
  <2>7. FindClient(todo[1].of) = {k \in 1..Len(clients) : clients[k].handle = todo[1].of}
    BY <2>2, Places, Zenon
  <2>. QED
    BY <2>6, <2>7, Zenon DEF Pointed
<1>. QED
  BY <1>1, InductiveCorrect, PTL

\* stepPendingHandshakes: removals do not let a handshake slip past its deadline.
THEOREM PendingCorrect == Spec => []PendingExpires
<1>1. Inductive => PendingExpires
  <2>. SUFFICES ASSUME Inductive, phase = "drain" PROVE \A i \in DOMAIN pending : pending[i].age <= Deadline
    BY Zenon DEF PendingExpires
  <2>1. pending \in Seq(Waiting) /\ Stepped(plaintext, pending, phase, index)
    BY DEF Inductive, TypeOK
  <2>2. DOMAIN pending = 1..Len(pending)
    BY <2>1, LenProperties
  <2>. QED
    BY <2>1, <2>2 DEF Stepped
<1>. QED
  BY <1>1, InductiveCorrect, PTL
=============================================================================
