------------------------ MODULE SecureChannel_proofs ------------------------
(***************************************************************************)
(* SecureChannel never seals two frames with the same key and nonce, opens *)
(* frames in the order they were sealed, gives a session only to who is    *)
(* proved, and implements SecureLink, for every value of its constants.    *)
(*                                                                         *)
(* The argument: Effects says what one step does to the endpoint that      *)
(* makes it (the other one keeps its state) and to the histories; WireStep *)
(* and HelloStep say what it does to the lines on their way.  Five steps   *)
(* seal or open a frame: Proves, Answers, Accepts, Says and Hears say what *)
(* each of them does, and Events that no other step touches the histories. *)
(* This gives the parts of Trusted about frames and keys, and the          *)
(* refinement.  The last part follows the streams: what a step does to the *)
(* lines an endpoint has on their way gives UncutInv.                      *)
(***************************************************************************)
EXTENDS SecureChannel, TLAPS

-----------------------------------------------------------------------------
(* Types: every step keeps the types SecureChannel says it has *)

\* Each endpoint has one peer, and is its peer.
LEMMA Endpoints ==
    /\ Client \in Endpoint /\ Server \in Endpoint /\ Client # Server
    /\ \A e \in Endpoint : Peer(e) \in Endpoint /\ Peer(e) # e /\ Peer(Peer(e)) = e
BY ConstantsAssumption DEF Endpoint, Peer

\* What Seal makes is a sealed frame, and a frame on the wire is a line.
LEMMA SealType ==
    ASSUME NEW s \in Session, NEW e \in Endpoint, NEW text \in Plaintext,
           NEW n \in 0..MaxCounter
    PROVE  /\ Seal(s, e, text, n) \in Sealed
           /\ Seal(s, e, text, n).key = s.key
           /\ Seal(s, e, text, n).counter = n
           /\ Seal(s, e, text, n).from = e
BY DEF Seal, Session, Sealed

\* A sealed frame is a line,
LEMMA FrameType == \A f \in Sealed : [type |-> "FRAME", sealed |-> f] \in Line
BY DEF Line, Frame

\* ... so is a KEY,
LEMMA KeyType ==
    \A f \in Sealed, x \in Prefixes : [type |-> "KEY", prefix |-> x, sealed |-> f] \in Line
BY DEF Line, KeyMsg

\* ... a HELLO,
LEMMA HelloType ==
    \A salt \in Salts, x \in Prefixes : [type |-> "HELLO", salt |-> salt, prefix |-> x] \in Line
BY DEF Line, Hello

\* ... and what nobody can read.
LEMMA GarbageType == Garbage \in Line
BY DEF Line

\* A line with the state of its call is a Writing.
LEMMA WritingType ==
    ASSUME NEW op \in {"HELLO", "KEY", "READY", "LINE"}, NEW line \in Line,
           NEW next \in PendingHandshake \cup Session \cup {None},
           NEW d \in BOOLEAN
    PROVE  [op |-> op, line |-> line, next |-> next, wrote |-> "nothing",
            short |-> FALSE, deadline |-> d] \in Writing
BY Zenon DEF Writing

\* The next line that receive_line returns, and what is left to read.
LEMMA Taken ==
    ASSUME TypeOK, NEW e \in Endpoint, TakeLine(e)
    PROVE  /\ NextLine(e) \in Line
           /\ lines' \in [Endpoint -> Seq(Line)]
           /\ tail' \in [Endpoint -> Line \cup {None}]
<1> DEFINE p == Peer(e)
<1>1. p \in Endpoint /\ lines[p] \in Seq(Line) /\ tail[p] \in Line \cup {None}
  BY Endpoints DEF TypeOK
<1>2. CASE lines[p] # <<>>
  <2>1. Head(lines[p]) \in Line /\ Tail(lines[p]) \in Seq(Line)
    BY <1>1, <1>2
  <2> QED
    BY <1>2, <2>1 DEF TypeOK, TakeLine, NextLine
<1>3. CASE lines[p] = <<>>
  BY <1>1, <1>3 DEF TypeOK, TakeLine, HasLine, NextLine
<1> QED
  BY <1>2, <1>3

\* What a write leaves in the stream is a line, or nothing.
LEMMA LeftType ==
    ASSUME TypeOK, NEW e \in Endpoint
    PROVE  Left(e) \in Line \cup {None}
BY GarbageType DEF TypeOK, Left, Writing

\* The fields of a line, by its type.
LEMMA LineFields ==
    ASSUME NEW l \in Line
    PROVE  /\ l.type = "HELLO" => l.salt \in Salts /\ l.prefix \in Prefixes
           /\ l.type = "KEY" => l.sealed \in Sealed /\ l.prefix \in Prefixes
           /\ l.type = "FRAME" => l.sealed \in Sealed
BY DEF Line, Hello, KeyMsg, Frame, Garbage

\* The histories keep their types when a frame is noted.
LEMMA NoteTypes ==
    ASSUME TypeOK, NEW e \in Endpoint, NEW f \in Sealed
    PROVE  /\ NoteSealed(e, f) => sealed' \in [Endpoint -> [Salts -> Seq(Sealed)]]
           /\ \A s \in Session : NoteOpened(e, s, f)
                => opened' \in [Endpoint -> [Salts -> Seq(Sealed)]]
<1>1. f.key.salt \in Salts /\ \A s \in Session : s.key.salt \in Salts
  BY DEF Sealed, Session, Key
<1>2. ASSUME NEW salt \in Salts, NEW h \in [Endpoint -> [Salts -> Seq(Sealed)]]
      PROVE  [h EXCEPT ![e][salt] = Append(@, f)] \in [Endpoint -> [Salts -> Seq(Sealed)]]
  <2>1. Append(h[e][salt], f) \in Seq(Sealed)
    OBVIOUS
  <2> QED
    BY <2>1
<1>3. ASSUME NoteSealed(e, f)
      PROVE  sealed' \in [Endpoint -> [Salts -> Seq(Sealed)]]
  <2>1. sealed \in [Endpoint -> [Salts -> Seq(Sealed)]]
    BY DEF TypeOK
  <2> QED
    BY <1>1, <1>2, <1>3, <2>1, Zenon DEF NoteSealed
<1>4. ASSUME NEW s \in Session, NoteOpened(e, s, f)
      PROVE  opened' \in [Endpoint -> [Salts -> Seq(Sealed)]]
  <2>1. opened \in [Endpoint -> [Salts -> Seq(Sealed)]]
    BY DEF TypeOK
  <2> QED
    BY <1>1, <1>2, <1>4, <2>1, Zenon DEF NoteOpened
<1> QED
  BY <1>3, <1>4

\* A call that starts to write keeps the type of `out`.
LEMMA StartType ==
    ASSUME TypeOK, NEW e \in Endpoint, NEW op \in {"HELLO", "KEY", "READY", "LINE"},
           NEW line \in Line, NEW next \in PendingHandshake \cup Session \cup {None},
           NEW d \in BOOLEAN, StartWriting(e, op, line, next, d)
    PROVE  out' \in [Endpoint -> Writing \cup {None}]
<1> DEFINE w == [op |-> op, line |-> line, next |-> next, wrote |-> "nothing",
                 short |-> FALSE, deadline |-> d]
<1>1. w \in Writing
  BY WritingType
<1>2. out' = [out EXCEPT ![e] = w]
  BY DEF StartWriting
<1> HIDE DEF w
<1> QED
  BY <1>1, <1>2 DEF TypeOK

\* A frame that opens counts on a session.
LEMMA OpenType ==
    ASSUME NEW s \in Session, NEW e \in Endpoint, NEW f, Opens(s, e, f)
    PROVE  [s EXCEPT !.receiveCounter = @ + 1] \in Session
BY ConstantsAssumption DEF Opens, Session

\* e seals a frame and starts to write the line that carries it.
StartsFrame(e) ==
    \E f \in Sealed, op \in {"KEY", "READY", "LINE"}, line \in Line,
       next \in PendingHandshake \cup Session \cup {None}, d \in BOOLEAN :
         /\ f.from = e /\ line.type # "HELLO" /\ line.sealed = f
         /\ NoteSealed(e, f) /\ StartWriting(e, op, line, next, d) /\ UNCHANGED channelVars

\* ... also when it seals a frame for that.
LEMMA StartsFrameTypes ==
    ASSUME TypeOK, NEW e \in Endpoint, StartsFrame(e)
    PROVE  /\ sealed' \in [Endpoint -> [Salts -> Seq(Sealed)]]
           /\ out' \in [Endpoint -> Writing \cup {None}]
           /\ UNCHANGED channelVars
<1>1. PICK f \in Sealed, op \in {"KEY", "READY", "LINE"}, line \in Line,
           next \in PendingHandshake \cup Session \cup {None}, d \in BOOLEAN :
             NoteSealed(e, f) /\ StartWriting(e, op, line, next, d) /\ UNCHANGED channelVars
  BY DEF StartsFrame
<1>2. sealed' \in [Endpoint -> [Salts -> Seq(Sealed)]]
  BY <1>1, NoteTypes
<1>3. out' \in [Endpoint -> Writing \cup {None}]
  BY <1>1, StartType
<1> QED
  BY <1>1, <1>2, <1>3

\* The three calls that seal a frame, each of which may end without a frame.
LEMMA ClientStepStarts ==
    ASSUME TypeOK, NEW x \in Prefixes, ClientStepHello(x)
    PROVE  \/ StartsFrame(Client)
           \/ Clear(Client) /\ UNCHANGED <<out, sealed>>
<1> USE Endpoints
<1> DEFINE hello == NextLine(Client)
           s == [key |-> [password |-> pending[Client].password, salt |-> hello.salt],
                 sendPrefix |-> x, receivePrefix |-> hello.prefix,
                 sendCounter |-> 0, receiveCounter |-> 0]
           auth == Seal(s, Client, "AUTH", 0)
           s1 == [s EXCEPT !.sendCounter = 1]
           next == [phase |-> "WaitServerReady", session |-> s1]
           key == [type |-> "KEY", prefix |-> x, sealed |-> auth]
<1>1. hello \in Line
  BY Taken DEF ClientStepHello
<1>2. CASE hello.type = "HELLO"
  <2>1. s \in Session /\ s1 \in Session
    <3>1. pending[Client].password \in Passwords
      BY DEF ClientStepHello, ServerHelloWait
    <3>2. hello.salt \in Salts /\ hello.prefix \in Prefixes
      BY <1>1, <1>2, LineFields
    <3> QED
      BY <3>1, <3>2, ConstantsAssumption DEF Session, Key
  <2>2. auth \in Sealed /\ auth.from = Client
    BY <2>1, SealType, ConstantsAssumption DEF Plaintext, Seal
  <2>3. key \in Line /\ key.type # "HELLO" /\ key.sealed = auth
    BY <2>2, KeyType
  <2>4. next \in PendingHandshake \cup Session \cup {None}
    BY <2>1 DEF PendingHandshake, ServerReadyWait
  <2>5. NoteSealed(Client, auth) /\ StartWriting(Client, "KEY", key, next, TRUE)
        /\ UNCHANGED channelVars
    BY <1>2 DEF ClientStepHello
  <2> HIDE DEF auth, next, key
  <2> QED
    BY <2>2, <2>3, <2>4, <2>5 DEF StartsFrame
<1>3. CASE hello.type # "HELLO"
  BY <1>3 DEF ClientStepHello
<1> QED
  BY <1>2, <1>3

\* A step of the server starts a frame or clears the socket.
LEMMA ServerStepStarts ==
    ASSUME TypeOK, ServerStep
    PROVE  \/ StartsFrame(Server) /\ opened' \in [Endpoint -> [Salts -> Seq(Sealed)]]
           \/ Clear(Server) /\ UNCHANGED <<out, history>>
<1> USE Endpoints
<1> DEFINE line == NextLine(Server)
           p == pending[Server]
           s == [key |-> [password |-> p.password, salt |-> p.salt],
                 sendPrefix |-> p.prefix, receivePrefix |-> line.prefix,
                 sendCounter |-> 0, receiveCounter |-> 0]
           ready == Seal(s, Server, "READY", s.sendCounter)
           s1 == [s EXCEPT !.receiveCounter = @ + 1]
           frame == [type |-> "FRAME", sealed |-> ready]
<1>1. line \in Line
  BY Taken DEF ServerStep
<1>2. CASE /\ line.type = "KEY" /\ Opens(s, Server, line.sealed)
           /\ NoteOpened(Server, s, line.sealed) /\ NoteSealed(Server, ready)
           /\ StartWriting(Server, "READY", frame, s1, TRUE)
           /\ UNCHANGED channelVars
  <2>1. s \in Session /\ s.sendCounter = 0
    <3>1. p.password \in Passwords /\ p.salt \in Salts /\ p.prefix \in Prefixes
      BY DEF ServerStep, ClientKeyWait
    <3>2. line.prefix \in Prefixes
      BY <1>1, <1>2, LineFields
    <3> QED
      BY <3>1, <3>2, ConstantsAssumption DEF Session, Key
  <2>2. ready \in Sealed /\ ready.from = Server /\ line.sealed \in Sealed
    <3>1. line.sealed \in Sealed
      BY <1>1, <1>2, LineFields
    <3>2. 0 \in 0..MaxCounter /\ "READY" \in Plaintext
      BY ConstantsAssumption DEF Plaintext
    <3>3. ready.from = Server
      BY DEF Seal
    <3> HIDE DEF line, p, s
    <3> QED
      BY <2>1, <3>1, <3>2, <3>3, SealType
  <2>3. s1 \in Session
    BY <1>2, <2>1, OpenType
  <2>4. frame \in Line /\ frame.type # "HELLO" /\ frame.sealed = ready
    BY <2>2, FrameType
  <2> HIDE DEF line, p, s, ready, s1, frame
  <2>5. opened' \in [Endpoint -> [Salts -> Seq(Sealed)]]
    BY <1>2, <2>1, <2>2, NoteTypes
  <2>6. StartsFrame(Server)
    BY <1>2, <2>2, <2>3, <2>4 DEF StartsFrame
  <2> QED
    BY <2>5, <2>6
<1>3. CASE Clear(Server) /\ UNCHANGED <<out, history>>
  BY <1>3
<1> QED
  BY <1>2, <1>3 DEF ServerStep

\* So does send_line.
LEMMA SendLineStarts ==
    ASSUME TypeOK, NEW e \in Endpoint, NEW t \in Texts, NEW d \in BOOLEAN, SendLine(e, t, d)
    PROVE  \/ StartsFrame(e)
           \/ Clear(e) /\ UNCHANGED <<out, sealed>>
<1> DEFINE s == session[e]
           f == Seal(s, e, t, s.sendCounter)
           frame == [type |-> "FRAME", sealed |-> f]
<1>1. s \in Session
  BY DEF SendLine, TypeOK
<1>2. f \in Sealed /\ f.from = e
  <2>1. s.sendCounter \in 0..MaxCounter
    BY <1>1 DEF Session
  <2> QED
    BY <1>1, <2>1, SealType DEF Plaintext, Seal
<1>3. frame \in Line /\ frame.type # "HELLO" /\ frame.sealed = f
  BY <1>2, FrameType
<1>4. CASE NoteSealed(e, f) /\ StartWriting(e, "LINE", frame, None, d) /\ UNCHANGED channelVars
  <2> HIDE DEF s, f, frame
  <2> QED
    BY <1>2, <1>3, <1>4 DEF StartsFrame
<1>5. CASE Clear(e) /\ UNCHANGED <<out, sealed>>
  BY <1>5
<1> QED
  BY <1>4, <1>5 DEF SendLine

\* No step leaves the types.
LEMMA TypeStep ==
    ASSUME Inductive, Next
    PROVE  TypeOK'
<1> USE Endpoints
<1>0. TypeOK /\ RestInv /\ CallInv
  BY DEF Inductive
<1>1. ASSUME NEW w \in Passwords, BeginClient(w)
      PROVE  TypeOK'
  <2>1. [phase |-> "WaitServerHello", password |-> w] \in PendingHandshake
    BY DEF PendingHandshake, ServerHelloWait
  <2> QED
    BY <1>0, <1>1, <2>1 DEF BeginClient, TypeOK, wireVars, history
<1>2. ASSUME NEW w \in Passwords, NEW x \in Prefixes, BeginServer(w, x)
      PROVE  TypeOK'
  <2>1. lastSalt' \in Salts /\ lastSalt' \in 0..MaxSalts
    BY <1>0, <1>2, ConstantsAssumption DEF BeginServer, TypeOK, Salts
  <2> DEFINE next == [phase |-> "WaitClientKey", password |-> w, salt |-> lastSalt', prefix |-> x]
             hello == [type |-> "HELLO", salt |-> lastSalt', prefix |-> x]
  <2>2. next \in PendingHandshake /\ hello \in Line
    BY <2>1 DEF PendingHandshake, ClientKeyWait, Line, Hello
  <2>3. out'[Server] \in Writing /\ out' \in [Endpoint -> Writing \cup {None}]
    <3> HIDE DEF next, hello
    <3>1. [op |-> "HELLO", line |-> hello, next |-> next, wrote |-> "nothing",
           short |-> FALSE, deadline |-> TRUE] \in Writing
      BY <2>2, WritingType
    <3> QED
      BY <1>0, <1>2, <3>1 DEF BeginServer, StartWriting, TypeOK, hello, next
  <2> QED
    BY <1>0, <1>2, <2>1, <2>3 DEF BeginServer, Clear, TypeOK, wireVars, history
<1>3. ASSUME NEW e \in Endpoint, StepEnds(e) \/ ReceiveClosed(e) \/ Forget(e)
      PROVE  TypeOK'
  BY <1>0, <1>3 DEF StepEnds, ReceiveClosed, Forget, Clear, TypeOK, wireVars, history
<1>4. ASSUME NEW e \in Endpoint, Close(e)
      PROVE  TypeOK'
  BY <1>0, <1>4 DEF Close, TypeOK, channelVars, history
<1>5. ASSUME NEW e \in Endpoint, WriteTimesOut(e) \/ WriteFails(e) \/ Crash(e)
      PROVE  TypeOK'
  <2>1. tail' \in [Endpoint -> Line \cup {None}]
    BY <1>0, <1>5, LeftType DEF WriteTimesOut, WriteFails, Crash, GiveUp, TypeOK
  <2> QED
    BY <1>0, <1>5, <2>1 DEF WriteTimesOut, WriteFails, Crash, GiveUp, Clear, TypeOK, history
<1>6. ASSUME NEW e \in Endpoint, HelloWritten(e) \/ KeyWritten(e) \/ ReadyWritten(e) \/ LineWritten(e)
      PROVE  TypeOK'
  <2>1. /\ out[e] \in Writing /\ out[e] # None
        /\ lines' \in [Endpoint -> Seq(Line)]
        /\ tail' \in [Endpoint -> Line \cup {None}]
        /\ out' \in [Endpoint -> Writing \cup {None}]
        /\ UNCHANGED <<open, reset, lastSalt, sealed, opened>>
    <3>1. out[e] \in Writing /\ out[e] # None
      BY <1>0, <1>6 DEF HelloWritten, KeyWritten, ReadyWritten, LineWritten, WriteRest, Writable, TypeOK
    <3>2. out[e].line \in Line
      BY <3>1 DEF Writing
    <3>3. WriteRest(e, out[e].op)
      BY <1>6 DEF HelloWritten, KeyWritten, ReadyWritten, LineWritten, WriteRest
    <3>4. lines' \in [Endpoint -> Seq(Line)]
      <4> DEFINE l == IF tail[e] = None THEN out[e].line ELSE Garbage
      <4>1. l \in Line
        BY <3>2, GarbageType
      <4>2. lines' = [lines EXCEPT ![e] = Append(@, l)]
        BY <3>3 DEF WriteRest
      <4> HIDE DEF l
      <4> QED
        BY <1>0, <4>1, <4>2 DEF TypeOK
    <3> QED
      BY <1>0, <3>1, <3>3, <3>4 DEF WriteRest, TypeOK, history
  <2>2. /\ pending' \in [Endpoint -> PendingHandshake \cup {None}]
        /\ session' \in [Endpoint -> Session \cup {None}]
    <3>1. CASE HelloWritten(e)
      BY <1>0, <2>1, <3>1 DEF HelloWritten, WriteRest, CallInv, FreshKeyWait, PendingHandshake, TypeOK
    <3>2. CASE KeyWritten(e)
      BY <1>0, <2>1, <3>2 DEF KeyWritten, WriteRest, CallInv, SyncReadyWait, PendingHandshake, TypeOK
    <3>3. CASE ReadyWritten(e)
      <4>1. out[e].next \in Session /\ out[e].next.sendCounter < MaxCounter
        BY <1>0, <2>1, <3>3 DEF ReadyWritten, WriteRest, CallInv, InSync
      <4>2. [out[e].next EXCEPT !.sendCounter = @ + 1] \in Session
        BY <4>1, ConstantsAssumption DEF Session
      <4> QED
        BY <1>0, <3>3, <4>2 DEF ReadyWritten, Promote, TypeOK
    <3>4. CASE LineWritten(e)
      <4>1. session[e] \in Session /\ session[e].sendCounter < MaxCounter
        BY <1>0, <2>1, <3>4 DEF LineWritten, WriteRest, CallInv, InSync
      <4>2. [session[e] EXCEPT !.sendCounter = @ + 1] \in Session
        BY <4>1, ConstantsAssumption DEF Session
      <4> QED
        BY <1>0, <3>4, <4>2 DEF LineWritten, TypeOK
    <3> QED
      BY <1>6, <3>1, <3>2, <3>3, <3>4
  <2> QED
    BY <1>0, <2>1, <2>2 DEF TypeOK
<1>7. ASSUME NEW e \in Endpoint, WriteShort(e)
      PROVE  TypeOK'
  <2>1. PICK w \in {"nothing", "part", "body"} :
          out' = [out EXCEPT ![e].wrote = w, ![e].short = TRUE]
    BY <1>7 DEF WriteShort
  <2>2. out[e] \in Writing
    BY <1>0, <1>7 DEF WriteShort, Writable, TypeOK
  <2>3. [out[e] EXCEPT !.wrote = w, !.short = TRUE] \in Writing
    BY <2>2 DEF Writing
  <2> QED
    BY <1>0, <1>7, <2>1, <2>3 DEF WriteShort, TypeOK, channelVars, wireVars, history
<1>8. ASSUME NEW x \in Prefixes, ClientStepHello(x)
      PROVE  TypeOK'
  <2>1. /\ lines' \in [Endpoint -> Seq(Line)] /\ tail' \in [Endpoint -> Line \cup {None}]
        /\ UNCHANGED <<open, reset, lastSalt, opened>>
    BY <1>0, <1>8, Taken DEF ClientStepHello
  <2>2. CASE StartsFrame(Client)
    BY <1>0, <2>1, <2>2, StartsFrameTypes DEF TypeOK, channelVars
  <2>3. CASE Clear(Client) /\ UNCHANGED <<out, sealed>>
    BY <1>0, <2>1, <2>3 DEF Clear, TypeOK
  <2> QED
    BY <1>0, <1>8, <2>2, <2>3, ClientStepStarts
<1>9. ASSUME ClientStepReady
      PROVE  TypeOK'
  <2> DEFINE ready == NextLine(Client)
             s == pending[Client].session
             s1 == [s EXCEPT !.receiveCounter = @ + 1]
  <2>1. /\ ready \in Line
        /\ lines' \in [Endpoint -> Seq(Line)] /\ tail' \in [Endpoint -> Line \cup {None}]
        /\ UNCHANGED <<out, open, reset, lastSalt, sealed>>
    BY <1>0, <1>9, Taken DEF ClientStepReady
  <2>2. s \in Session
    BY <1>9 DEF ClientStepReady, ServerReadyWait
  <2>3. CASE Promote(Client, s1) /\ NoteOpened(Client, s, ready.sealed)
             /\ ready.type = "FRAME" /\ Opens(s, Client, ready.sealed)
    <3>1. s1 \in Session
      BY <2>2, <2>3, OpenType
    <3>2. ready.sealed \in Sealed
      BY <2>1, <2>3, LineFields
    <3>3. opened' \in [Endpoint -> [Salts -> Seq(Sealed)]]
      BY <1>0, <2>2, <2>3, <3>2, NoteTypes
    <3> HIDE DEF ready, s, s1
    <3> QED
      BY <1>0, <2>1, <2>3, <3>1, <3>3 DEF Promote, TypeOK
  <2>4. CASE Clear(Client) /\ UNCHANGED opened
    BY <1>0, <2>1, <2>4 DEF Clear, TypeOK
  <2> QED
    BY <1>9, <2>3, <2>4 DEF ClientStepReady
<1>10. ASSUME ServerStep
       PROVE  TypeOK'
  <2>1. /\ lines' \in [Endpoint -> Seq(Line)] /\ tail' \in [Endpoint -> Line \cup {None}]
        /\ UNCHANGED <<open, reset, lastSalt>>
    BY <1>0, <1>10, Taken DEF ServerStep
  <2>2. CASE StartsFrame(Server) /\ opened' \in [Endpoint -> [Salts -> Seq(Sealed)]]
    BY <1>0, <2>1, <2>2, StartsFrameTypes DEF TypeOK, channelVars
  <2>3. CASE Clear(Server) /\ UNCHANGED <<out, history>>
    BY <1>0, <2>1, <2>3 DEF Clear, TypeOK, history
  <2> QED
    BY <1>0, <1>10, <2>2, <2>3, ServerStepStarts
<1>11. ASSUME NEW e \in Endpoint, NEW t \in Texts, NEW d \in BOOLEAN, SendLine(e, t, d)
       PROVE  TypeOK'
  <2>1. UNCHANGED <<wireVars, lastSalt, opened>>
    BY <1>11 DEF SendLine
  <2>2. CASE StartsFrame(e)
    BY <1>0, <2>1, <2>2, StartsFrameTypes DEF TypeOK, channelVars, wireVars
  <2>3. CASE Clear(e) /\ UNCHANGED <<out, sealed>>
    BY <1>0, <2>1, <2>3 DEF Clear, TypeOK, wireVars
  <2> QED
    BY <1>0, <1>11, <2>2, <2>3, SendLineStarts
<1>12. ASSUME NEW e \in Endpoint, ReceiveLine(e)
       PROVE  TypeOK'
  <2> DEFINE line == NextLine(e)
             s == session[e]
             s1 == [s EXCEPT !.receiveCounter = @ + 1]
  <2>1. /\ line \in Line
        /\ lines' \in [Endpoint -> Seq(Line)] /\ tail' \in [Endpoint -> Line \cup {None}]
        /\ UNCHANGED <<out, open, reset, lastSalt, sealed>>
    BY <1>0, <1>12, Taken DEF ReceiveLine
  <2>2. s \in Session
    BY <1>0, <1>12 DEF ReceiveLine, TypeOK
  <2>3. CASE /\ line.type = "FRAME" /\ Opens(s, e, line.sealed)
             /\ session' = [session EXCEPT ![e] = s1]
             /\ NoteOpened(e, s, line.sealed) /\ UNCHANGED pending
    <3>1. s1 \in Session
      BY <2>2, <2>3, OpenType
    <3>2. line.sealed \in Sealed
      BY <2>1, <2>3, LineFields
    <3>3. opened' \in [Endpoint -> [Salts -> Seq(Sealed)]]
      BY <1>0, <2>2, <2>3, <3>2, NoteTypes
    <3> HIDE DEF line, s, s1
    <3> QED
      BY <1>0, <2>1, <2>3, <3>1, <3>3 DEF TypeOK
  <2>4. CASE Clear(e) /\ UNCHANGED opened
    BY <1>0, <2>1, <2>4 DEF Clear, TypeOK
  <2> QED
    BY <1>0, <1>12, <2>3, <2>4 DEF ReceiveLine, TypeOK
<1>13. ASSUME Reset
       PROVE  TypeOK'
  <2>1. PICK nc \in 0..Len(lines[Client]), ns \in 0..Len(lines[Server]) :
          /\ lines' = [e \in Endpoint |-> SubSeq(lines[e], 1, IF e = Client THEN nc ELSE ns)]
          /\ \E tc \in Remains(Client, nc), ts \in Remains(Server, ns) :
               tail' = [e \in Endpoint |-> IF e = Client THEN tc ELSE ts]
    BY <1>13 DEF Reset
  <2>2. ASSUME NEW e \in Endpoint, NEW n \in 0..Len(lines[e])
        PROVE  /\ SubSeq(lines[e], 1, n) \in Seq(Line)
               /\ Remains(e, n) \subseteq Line \cup {None}
    <3>1. lines[e] \in Seq(Line)
      BY <1>0 DEF TypeOK
    <3> QED
      BY <1>0, <3>1, LeftType, GarbageType DEF Remains
  <2>3. lines' \in [Endpoint -> Seq(Line)] /\ tail' \in [Endpoint -> Line \cup {None}]
    BY <2>1, <2>2 DEF Endpoint
  <2> QED
    BY <1>0, <1>13, <2>3 DEF Reset, TypeOK, channelVars, history
<1> QED
  BY <1>1, <1>2, <1>3, <1>4, <1>5, <1>6, <1>7, <1>8, <1>9, <1>10, <1>11, <1>12, <1>13
  DEF Next, Step, Write

-----------------------------------------------------------------------------
(* Nonces, and the order of frames *)

\* RestInv and CallInv for one endpoint.
Rest(e) ==
    /\ session[e] # None => pending[e] = None /\ InSync(e, session[e], 0)
    /\ pending[e] # None => \/ pending[e] \in ServerHelloWait
                            \/ FreshKeyWait(e, pending[e])
                            \/ SyncReadyWait(e, pending[e])
Call(e) ==
    /\ out[e].op \in {"HELLO", "KEY", "READY"} => session[e] = None
    /\ out[e].op = "HELLO" => FreshKeyWait(e, out[e].next)
    /\ out[e].op = "KEY" => SyncReadyWait(e, out[e].next)
    /\ out[e].op = "READY" => InSync(e, out[e].next, 1) /\ out[e].next.sendCounter < MaxCounter
    /\ out[e].op = "LINE" => /\ pending[e] = None
                             /\ InSync(e, session[e], 1)
                             /\ session[e].sendCounter < MaxCounter
Local(e) == IF out[e] = None THEN Rest(e) ELSE Call(e)

\* RestInv and CallInv speak of one endpoint at a time.
LEMMA LocalInv == RestInv /\ CallInv <=> \A e \in Endpoint : Local(e)
BY DEF RestInv, CallInv, Local, Rest, Call

\* e seals f, with the counter that comes next.
Seals(e, f) ==
    /\ NoteSealed(e, f) /\ f.from = e
    /\ f.key.salt <= lastSalt /\ f.counter = Len(sealed[e][f.key.salt])

\* e opens the frame of salt s that comes next.
OpensNext(e, s) ==
    LET n == Len(opened[e][s]) + 1
    IN /\ s <= lastSalt /\ n <= Len(sealed[Peer(e)][s])
       /\ opened' = [opened EXCEPT ![e][s] = Append(@, sealed[Peer(e)][s][n])]

\* What a step of endpoint e does, but for the lines on their way.
Effect(e) ==
    /\ \A d \in Endpoint \ {e} : UNCHANGED <<pending[d], session[d], out[d], sealed[d], opened[d]>>
    /\ Local(e)'
    /\ lastSalt <= lastSalt'
    /\ UNCHANGED sealed \/ \E f \in Sealed : Seals(e, f)
    /\ UNCHANGED opened \/ \E s \in Salts : OpensNext(e, s)

\* A line that opens is the next one of its sender.
LEMMA OpensGenuine ==
    ASSUME TypeOK, NEW e \in Endpoint, NEW s \in Session, NEW line \in Line,
           Genuine(Peer(e), line), line.type \in {"KEY", "FRAME"}, line.sealed \in Sealed,
           Opens(s, e, line.sealed), s.receiveCounter = Len(opened[e][s.key.salt]),
           s.key.salt <= lastSalt, NoteOpened(e, s, line.sealed)
    PROVE  OpensNext(e, s.key.salt)
<1> DEFINE f == line.sealed
           salt == s.key.salt
<1>1. f.key = s.key /\ f.counter = Len(opened[e][salt])
  BY DEF Opens, Authentic
<1>2. line # None
  BY NoneAssumption
<1>3. f.counter < Len(sealed[Peer(e)][salt]) /\ sealed[Peer(e)][salt][f.counter + 1] = f
  BY <1>1, <1>2 DEF Genuine
<1>4. opened' = [opened EXCEPT ![e][salt] = Append(@, f)]
  BY DEF NoteOpened
<1>5. Len(opened[e][salt]) \in Nat /\ Len(sealed[Peer(e)][salt]) \in Nat /\ salt \in Salts
  <2>1. salt \in Salts
    BY DEF Session, Key
  <2> QED
    BY <2>1, Endpoints DEF TypeOK
<1> QED
  BY <1>1, <1>3, <1>4, <1>5 DEF OpensNext

\* The next line of a stream was sealed by the peer, if it is sealed at all.
LEMMA TakenGenuine ==
    ASSUME TypeOK, WireInv, NEW e \in Endpoint, TakeLine(e)
    PROVE  NextLine(e) \in Line /\ Genuine(Peer(e), NextLine(e))
<1>1. NextLine(e) \in Line
  BY Taken
<1>2. lines[Peer(e)] \in Seq(Line) /\ Peer(e) \in Endpoint
  BY Endpoints DEF TypeOK
<1>3. CASE lines[Peer(e)] # <<>>
  <2>1. 1 \in DOMAIN lines[Peer(e)] /\ NextLine(e) = lines[Peer(e)][1]
    BY <1>2, <1>3 DEF NextLine
  <2> QED
    BY <1>1, <1>2, <2>1 DEF WireInv
<1>4. CASE lines[Peer(e)] = <<>>
  BY <1>1, <1>2, <1>4 DEF WireInv, NextLine
<1> QED
  BY <1>3, <1>4

\* An endpoint without session, handshake and call.
LEMMA ClearedLocal ==
    ASSUME NEW e \in Endpoint, TypeOK, Clear(e), out'[e] = None
    PROVE  Local(e)'
BY DEF Clear, Local, Rest, TypeOK

\* A sequence with one more element.
LEMMA AppendFacts ==
    ASSUME NEW S, NEW q \in Seq(S), NEW x \in S
    PROVE  /\ Append(q, x) \in Seq(S) /\ Append(q, x) # <<>>
           /\ Len(q) \in Nat /\ Len(Append(q, x)) = Len(q) + 1
           /\ Append(q, x)[Len(q) + 1] = x
           /\ \A i \in 1..Len(q) : Append(q, x)[i] = q[i]
OBVIOUS

\* A frame sealed with the next counter is the next of its salt.
LEMMA SealedNext ==
    ASSUME TypeOK, NEW e \in Endpoint, NEW f \in Sealed, NoteSealed(e, f)
    PROVE  /\ f.key.salt \in Salts
           /\ Len(sealed'[e][f.key.salt]) = Len(sealed[e][f.key.salt]) + 1
           /\ sealed'[e][f.key.salt] # <<>>
           /\ sealed'[e][f.key.salt][Len(sealed[e][f.key.salt]) + 1] = f
           /\ \A d \in Endpoint \ {e} : sealed'[d] = sealed[d]
           /\ \A s \in Salts : s # f.key.salt => sealed'[e][s] = sealed[e][s]
<1>1. f.key.salt \in Salts
  BY DEF Sealed, Key
<1>2. sealed[e][f.key.salt] \in Seq(Sealed)
  BY <1>1 DEF TypeOK
<1>3. sealed'[e][f.key.salt] = Append(sealed[e][f.key.salt], f)
  BY <1>1 DEF TypeOK, NoteSealed
<1>4. /\ \A d \in Endpoint \ {e} : sealed'[d] = sealed[d]
      /\ \A s \in Salts : s # f.key.salt => sealed'[e][s] = sealed[e][s]
  BY <1>1 DEF TypeOK, NoteSealed
<1>5. PICK q \in Seq(Sealed) : q = sealed[e][f.key.salt]
  BY <1>2
<1>6. /\ Append(q, f) # <<>> /\ Len(Append(q, f)) = Len(q) + 1
      /\ Append(q, f)[Len(q) + 1] = f
  BY AppendFacts
<1> QED
  BY <1>1, <1>3, <1>4, <1>5, <1>6

\* What opening a frame does to the history of its salt.
LEMMA OpenedNext ==
    ASSUME TypeOK, NEW e \in Endpoint, NEW s \in Session, NEW f \in Sealed, NoteOpened(e, s, f)
    PROVE  /\ s.key.salt \in Salts
           /\ Len(opened'[e][s.key.salt]) = Len(opened[e][s.key.salt]) + 1
           /\ \A d \in Endpoint \ {e} : opened'[d] = opened[d]
           /\ \A t \in Salts : t # s.key.salt => opened'[e][t] = opened[e][t]
<1>1. s.key.salt \in Salts
  BY DEF Session, Key
<1>2. opened[e][s.key.salt] \in Seq(Sealed)
  BY <1>1 DEF TypeOK
<1>3. opened'[e][s.key.salt] = Append(opened[e][s.key.salt], f)
  BY <1>1 DEF TypeOK, NoteOpened
<1>4. /\ \A d \in Endpoint \ {e} : opened'[d] = opened[d]
      /\ \A t \in Salts : t # s.key.salt => opened'[e][t] = opened[e][t]
  BY <1>1 DEF TypeOK, NoteOpened
<1> QED
  BY <1>1, <1>2, <1>3, <1>4

\* A HELLO that the client takes has a salt it has not used.
LEMMA TakenHello ==
    ASSUME TypeOK, HelloInv, TakeLine(Client), NextLine(Client).type = "HELLO"
    PROVE  NextLine(Client).salt <= lastSalt /\ Unused(Client, NextLine(Client).salt)
<1>1. NextLine(Client) \in Line /\ IsHello(NextLine(Client))
  BY Taken, Endpoints, NoneAssumption DEF IsHello
<1>2. lines[Server] \in Seq(Line) /\ Peer(Client) = Server
  BY Endpoints DEF TypeOK, Peer
<1>3. CASE lines[Server] # <<>>
  <2>1. 1 \in DOMAIN lines[Server] /\ NextLine(Client) = lines[Server][1]
    BY <1>2, <1>3 DEF NextLine
  <2> QED
    BY <1>1, <2>1 DEF HelloInv, Apart, Fresh, FreshSalts
<1>4. CASE lines[Server] = <<>>
  BY <1>1, <1>2, <1>4 DEF HelloInv, Apart, Fresh, FreshSalts, NextLine
<1> QED
  BY <1>3, <1>4

\* A call that starts to write is in progress.
LEMMA StartedSome ==
    ASSUME TypeOK, NEW e \in Endpoint, NEW op \in {"HELLO", "KEY", "READY", "LINE"},
           NEW line \in Line, NEW next \in PendingHandshake \cup Session \cup {None},
           NEW d \in BOOLEAN, StartWriting(e, op, line, next, d)
    PROVE  /\ out'[e] # None
           /\ out'[e].op = op /\ out'[e].line = line /\ out'[e].next = next
           /\ \A c \in Endpoint \ {e} : UNCHANGED out[c]
<1> DEFINE w == [op |-> op, line |-> line, next |-> next, wrote |-> "nothing",
                 short |-> FALSE, deadline |-> d]
<1>1. w \in Writing /\ w.op = op /\ w.line = line /\ w.next = next
  BY WritingType
<1>2. out' = [out EXCEPT ![e] = w]
  BY DEF StartWriting
<1> HIDE DEF w
<1> QED
  BY <1>1, <1>2, NoneAssumption DEF TypeOK

\* Once its frame is written, the counter of a session is committed.
LEMMA Committed ==
    ASSUME NEW e \in Endpoint, NEW s, NEW s1, InSync(e, s, 1), s.sendCounter < MaxCounter,
           s1 = [s EXCEPT !.sendCounter = @ + 1], UNCHANGED <<lastSalt, history>>
    PROVE  InSync(e, s1, 0)'
<1>1. /\ s1 \in Session /\ s1.key = s.key /\ s1.sendCounter = s.sendCounter + 1
      /\ s1.receiveCounter = s.receiveCounter /\ s.sendCounter \in Int
  BY ConstantsAssumption DEF InSync, Session
<1> QED
  BY <1>1 DEF InSync, history

\* The receive counter follows the frames opened.
LEMMA ReceivedInSync ==
    ASSUME TypeOK, NEW e \in Endpoint, NEW s, NEW s1, NEW line \in Line, InSync(e, s, 0),
           s1 = [s EXCEPT !.receiveCounter = @ + 1], UNCHANGED <<lastSalt, sealed>>,
           Genuine(Peer(e), line), line.type \in {"KEY", "FRAME"},
           Opens(s, e, line.sealed), NoteOpened(e, s, line.sealed)
    PROVE  /\ InSync(e, s1, 0)' /\ OpensNext(e, s.key.salt) /\ s.key.salt \in Salts
           /\ \A d \in Endpoint \ {e} : UNCHANGED opened[d]
<1>1. s \in Session /\ line.sealed \in Sealed
  BY LineFields DEF InSync
<1>2. /\ s1 \in Session /\ s1.key = s.key /\ s1.receiveCounter = s.receiveCounter + 1
      /\ s1.sendCounter = s.sendCounter /\ s.receiveCounter \in Int
  BY <1>1, OpenType DEF Session
<1>3. /\ s.key.salt \in Salts /\ Len(opened'[e][s.key.salt]) = Len(opened[e][s.key.salt]) + 1
      /\ \A d \in Endpoint \ {e} : opened'[d] = opened[d]
  BY <1>1, OpenedNext
<1>4. InSync(e, s1, 0)'
  BY <1>2, <1>3 DEF InSync
<1>5. OpensNext(e, s.key.salt)
  BY <1>1, OpensGenuine DEF InSync
<1> QED
  BY <1>3, <1>4, <1>5

\* The phases of a handshake are told apart.
LEMMA WaitKinds ==
    /\ \A p \in ServerHelloWait : p \notin ClientKeyWait /\ p \notin ServerReadyWait
    /\ \A p \in ClientKeyWait : p \notin ServerReadyWait
    /\ None \notin ServerHelloWait /\ None \notin ClientKeyWait /\ None \notin ServerReadyWait
<1>1. /\ \A p \in ServerHelloWait : p.phase = "WaitServerHello"
      /\ \A p \in ClientKeyWait : p.phase = "WaitClientKey"
      /\ \A p \in ServerReadyWait : p.phase = "WaitServerReady"
  BY DEF ServerHelloWait, ClientKeyWait, ServerReadyWait
<1> QED
  BY <1>1, NoneAssumption DEF PendingHandshake

\* Each step is one of the kinds of effect, at one endpoint.
LEMMA Effects ==
    ASSUME Inductive, Next
    PROVE  \E e \in Endpoint : Effect(e)
<1> USE Endpoints
<1>0. TypeOK /\ SaltsInv /\ WireInv /\ HelloInv /\ (\A e \in Endpoint : Local(e)) /\ lastSalt \in Int
  BY LocalInv DEF Inductive, TypeOK
<1>a. TypeOK
  BY <1>0
<1>1. ASSUME NEW w \in Passwords, BeginClient(w)
      PROVE  Effect(Client)
  <2>1. /\ session'[Client] = None /\ out'[Client] = None
        /\ pending'[Client] = [phase |-> "WaitServerHello", password |-> w]
    BY <1>0, <1>1 DEF BeginClient, Free, TypeOK
  <2>2. pending'[Client] \in ServerHelloWait
    BY <2>1 DEF ServerHelloWait
  <2>3. Local(Client)'
    BY <2>1, <2>2 DEF Local, Rest
  <2> QED
    BY <1>0, <1>1, <2>3 DEF Effect, BeginClient, history, TypeOK
<1>2. ASSUME NEW w \in Passwords, NEW x \in Prefixes, BeginServer(w, x)
      PROVE  Effect(Server)
  <2>1. lastSalt' = lastSalt + 1 /\ lastSalt' \in Salts /\ lastSalt' > lastSalt
    BY <1>0, <1>2, ConstantsAssumption DEF BeginServer, TypeOK, Salts
  <2>2. PICK next, hello :
          /\ next = [phase |-> "WaitClientKey", password |-> w, salt |-> lastSalt', prefix |-> x]
          /\ hello = [type |-> "HELLO", salt |-> lastSalt', prefix |-> x]
    OBVIOUS
  <2>3. Clear(Server) /\ UNCHANGED history /\ StartWriting(Server, "HELLO", hello, next, TRUE)
    BY <1>2, <2>2 DEF BeginServer
  <2>4. next \in ClientKeyWait /\ next.salt = lastSalt' /\ hello \in Line
    BY <2>1, <2>2, HelloType DEF ClientKeyWait
  <2>5. /\ out'[Server] # None /\ out'[Server].op = "HELLO" /\ out'[Server].next = next
        /\ \A d \in Endpoint \ {Server} : UNCHANGED out[d]
    <3>1. next \in PendingHandshake \cup Session \cup {None}
      BY <2>4 DEF PendingHandshake
    <3>2. StartWriting(Server, "HELLO", hello, next, TRUE) /\ hello \in Line
      BY <2>3, <2>4
    <3> QED
      BY <1>a, <3>1, <3>2, StartedSome
  <2>6. FreshKeyWait(Server, next)'
    BY <1>0, <2>1, <2>3, <2>4 DEF FreshKeyWait, Unused, history, SaltsInv
  <2>7. Local(Server)'
    <3>1. session'[Server] = None
      BY <1>0, <2>3 DEF Clear, TypeOK
    <3> QED
      BY <2>5, <2>6, <3>1 DEF Local, Call
  <2> QED
    BY <1>0, <2>1, <2>3, <2>5, <2>7 DEF Effect, Clear, history, TypeOK
<1>3. ASSUME NEW e \in Endpoint, StepEnds(e) \/ ReceiveClosed(e) \/ Forget(e)
      PROVE  Effect(e)
  <2>1. Clear(e) /\ out[e] = None /\ UNCHANGED <<out, lastSalt, history>>
    BY <1>3 DEF StepEnds, ReceiveClosed, Forget, Free
  <2>2. Local(e)'
    BY <1>0, <2>1, ClearedLocal
  <2> QED
    BY <1>0, <2>1, <2>2 DEF Effect, Clear, history, TypeOK
<1>4. ASSUME NEW e \in Endpoint, Close(e) \/ Reset
      PROVE  Effect(e)
  <2>1. UNCHANGED <<channelVars, out, lastSalt, history>>
    BY <1>4 DEF Close, Reset
  <2>2. Local(e)'
    BY <1>0, <2>1 DEF Local, Rest, Call, InSync, FreshKeyWait, SyncReadyWait, Unused, channelVars, history
  <2> QED
    BY <1>0, <2>1, <2>2 DEF Effect, channelVars, history
<1>5. ASSUME NEW e \in Endpoint, WriteTimesOut(e) \/ WriteFails(e) \/ Crash(e)
      PROVE  Effect(e)
  <2>1. Clear(e) /\ out' = [out EXCEPT ![e] = None] /\ UNCHANGED <<lastSalt, history>>
    BY <1>5 DEF WriteTimesOut, WriteFails, Crash, GiveUp
  <2>2. Local(e)'
    BY <1>0, <2>1, ClearedLocal DEF TypeOK
  <2> QED
    BY <1>0, <2>1, <2>2 DEF Effect, Clear, history, TypeOK
<1>6. ASSUME NEW e \in Endpoint, HelloWritten(e) \/ KeyWritten(e) \/ ReadyWritten(e) \/ LineWritten(e)
      PROVE  Effect(e)
  <2>1. /\ out[e] \in Writing /\ out[e] # None /\ out' = [out EXCEPT ![e] = None]
        /\ UNCHANGED <<lastSalt, history>>
    BY <1>0, <1>6 DEF HelloWritten, KeyWritten, ReadyWritten, LineWritten, WriteRest, Writable, TypeOK
  <2>2. Call(e) /\ out'[e] = None
    BY <1>0, <2>1 DEF Local, TypeOK
  <2>3. /\ Rest(e)'
        /\ \A d \in Endpoint \ {e} : UNCHANGED <<pending[d], session[d]>>
    <3>1. CASE HelloWritten(e)
      <4>1. /\ session[e] = None /\ FreshKeyWait(e, out[e].next)
            /\ pending' = [pending EXCEPT ![e] = out[e].next] /\ UNCHANGED session
        BY <2>2, <3>1 DEF HelloWritten, WriteRest, Call
      <4> QED
        BY <1>0, <2>1, <4>1 DEF Rest, FreshKeyWait, Unused, history, TypeOK
    <3>2. CASE KeyWritten(e)
      <4>1. /\ session[e] = None /\ SyncReadyWait(e, out[e].next)
            /\ pending' = [pending EXCEPT ![e] = out[e].next] /\ UNCHANGED session
        BY <2>2, <3>2 DEF KeyWritten, WriteRest, Call
      <4> QED
        BY <1>0, <2>1, <4>1 DEF Rest, SyncReadyWait, InSync, history, TypeOK
    <3>3. CASE ReadyWritten(e)
      <4>1. PICK s : s = out[e].next
        OBVIOUS
      <4>2. PICK s1 : s1 = [s EXCEPT !.sendCounter = @ + 1]
        OBVIOUS
      <4>3. InSync(e, s, 1) /\ s.sendCounter < MaxCounter /\ Promote(e, s1)
        BY <2>2, <3>3, <4>1, <4>2 DEF ReadyWritten, WriteRest, Call
      <4>4. InSync(e, s1, 0)'
        BY <2>1, <4>2, <4>3, Committed
      <4> QED
        BY <1>0, <4>3, <4>4 DEF Rest, Promote, TypeOK
    <3>4. CASE LineWritten(e)
      <4>1. PICK s : s = session[e]
        OBVIOUS
      <4>2. PICK s1 : s1 = [s EXCEPT !.sendCounter = @ + 1]
        OBVIOUS
      <4>3. /\ InSync(e, s, 1) /\ s.sendCounter < MaxCounter /\ pending[e] = None
            /\ session' = [session EXCEPT ![e] = s1] /\ UNCHANGED pending
        BY <2>2, <3>4, <4>1, <4>2 DEF LineWritten, WriteRest, Call
      <4>4. InSync(e, s1, 0)'
        BY <2>1, <4>2, <4>3, Committed
      <4> QED
        BY <1>0, <4>3, <4>4 DEF Rest, TypeOK
    <3> QED
      BY <1>6, <3>1, <3>2, <3>3, <3>4
  <2> QED
    BY <1>0, <2>1, <2>2, <2>3 DEF Effect, Local, history, TypeOK
<1>7. ASSUME NEW e \in Endpoint, WriteShort(e)
      PROVE  Effect(e)
  <2>1. PICK w \in {"nothing", "part", "body"} :
          out' = [out EXCEPT ![e].wrote = w, ![e].short = TRUE]
    BY <1>7 DEF WriteShort
  <2>2. out[e] \in Writing /\ out[e] # None /\ UNCHANGED <<channelVars, lastSalt, history>>
    BY <1>0, <1>7 DEF WriteShort, Writable, TypeOK
  <2>3. /\ out'[e].op = out[e].op /\ out'[e].next = out[e].next /\ out'[e] \in Writing
        /\ \A d \in Endpoint \ {e} : UNCHANGED out[d]
    BY <1>0, <2>1, <2>2 DEF Writing, TypeOK
  <2>4. Local(e)'
    <3>1. out'[e] # None /\ Call(e)
      BY <1>0, <2>2, <2>3, NoteTypes, NoneAssumption DEF Local
    <3> QED
      BY <2>2, <2>3, <3>1 DEF Local, Call, InSync, FreshKeyWait, SyncReadyWait, Unused, channelVars, history
  <2> QED
    BY <2>2, <2>3, <2>4, <1>0 DEF Effect, channelVars, history
<1>8. ASSUME NEW x \in Prefixes, ClientStepHello(x)
      PROVE  Effect(Client)
  <2> DEFINE hello == NextLine(Client)
             s == [key |-> [password |-> pending[Client].password, salt |-> hello.salt],
                   sendPrefix |-> x, receivePrefix |-> hello.prefix,
                   sendCounter |-> 0, receiveCounter |-> 0]
             auth == Seal(s, Client, "AUTH", 0)
             s1 == [s EXCEPT !.sendCounter = 1]
             next == [phase |-> "WaitServerReady", session |-> s1]
             key == [type |-> "KEY", prefix |-> x, sealed |-> auth]
  <2>1. UNCHANGED <<lastSalt, opened>> /\ out[Client] = None /\ hello \in Line
    BY <1>0, <1>8, TakenGenuine DEF ClientStepHello, Free
  <2>2. CASE hello.type = "HELLO"
    <3>1. /\ NoteSealed(Client, auth) /\ UNCHANGED channelVars
          /\ StartWriting(Client, "KEY", key, next, TRUE)
      BY <1>8, <2>2 DEF ClientStepHello
    <3>2. hello.salt \in Salts /\ hello.salt <= lastSalt /\ Unused(Client, hello.salt)
      BY <1>0, <1>8, <2>1, <2>2, TakenHello, LineFields DEF ClientStepHello
    <3>3. /\ s \in Session /\ s1 \in Session /\ s1.sendCounter = 1 /\ s1.receiveCounter = 0
          /\ s1.key = s.key /\ s1.key.salt = hello.salt
      <4>1. pending[Client].password \in Passwords
        BY <1>8 DEF ClientStepHello, ServerHelloWait
      <4>2. hello.salt \in Salts /\ hello.prefix \in Prefixes
        BY <2>1, <2>2, LineFields
      <4> QED
        BY <4>1, <4>2, ConstantsAssumption DEF Session, Key
    <3>4. auth \in Sealed /\ auth.key = s.key /\ auth.counter = 0 /\ auth.from = Client
      BY <3>3, SealType, ConstantsAssumption DEF Plaintext
    <3>5. session[Client] = None
      BY <1>0, <1>8, <2>1, NoneAssumption DEF ClientStepHello, Local, Rest, PendingHandshake
    <3>6. Seals(Client, auth)
      BY <3>1, <3>2, <3>3, <3>4 DEF Seals, Unused
    <3>7. /\ out'[Client].op = "KEY" /\ out'[Client].next = next
          /\ \A d \in Endpoint \ {Client} : UNCHANGED out[d]
      BY <1>0, <3>1 DEF StartWriting, TypeOK
    <3>8. PICK r, p : r = s1 /\ p = next
      OBVIOUS
    <3>9. /\ r \in Session /\ r.sendCounter = 1 /\ r.receiveCounter = 0 /\ r.key.salt = hello.salt
          /\ p.session = r /\ p \in ServerReadyWait
      BY <3>3, <3>8 DEF ServerReadyWait
    <3>10. key \in Line
      BY <3>4, KeyType
    <3> HIDE DEF hello, s, auth, s1, key, next
    <3>11. SyncReadyWait(Client, p)'
      <4>1. r.key.salt = auth.key.salt /\ sealed[Client][r.key.salt] = <<>>
            /\ opened'[Client][r.key.salt] = <<>> /\ r.key.salt <= lastSalt'
        BY <2>1, <3>2, <3>3, <3>4, <3>9 DEF Unused
      <4>2. Len(sealed'[Client][r.key.salt]) = 1 /\ sealed'[Client][r.key.salt] # <<>>
        <5>1. /\ Len(sealed'[Client][auth.key.salt]) = Len(sealed[Client][auth.key.salt]) + 1
              /\ sealed'[Client][auth.key.salt] # <<>>
          <6>1. NoteSealed(Client, auth) /\ auth \in Sealed
            BY <3>1, <3>4
          <6> QED
            BY <1>a, <6>1, SealedNext
        <5> QED
          BY <4>1, <5>1
      <4>3. InSync(Client, r, 0)'
        BY <3>9, <4>1, <4>2 DEF InSync
      <4> QED
        BY <3>9, <4>3 DEF SyncReadyWait
    <3>12. Local(Client)'
      <4>1. out'[Client] # None
        BY <1>0, <3>1, <3>8, <3>9, <3>10, StartedSome DEF PendingHandshake
      <4>2. session'[Client] = None /\ out'[Client].next = p
        BY <3>1, <3>5, <3>7, <3>8 DEF channelVars
      <4> QED
        BY <3>7, <3>11, <4>1, <4>2 DEF Local, Call
    <3> QED
      BY <1>0, <2>1, <3>1, <3>4, <3>6, <3>7, <3>12, SealedNext DEF Effect, channelVars
  <2>3. CASE hello.type # "HELLO"
    <3>1. Clear(Client) /\ UNCHANGED <<out, sealed>>
      BY <1>8, <2>3 DEF ClientStepHello
    <3>2. Local(Client)'
      BY <1>0, <2>1, <3>1, ClearedLocal
    <3> QED
      BY <1>0, <2>1, <3>1, <3>2 DEF Effect, Clear, TypeOK
  <2> QED
    BY <2>2, <2>3
<1>9. ASSUME ClientStepReady
      PROVE  Effect(Client)
  <2> DEFINE ready == NextLine(Client)
  <2>1. PICK s, s1 : s = pending[Client].session /\ s1 = [s EXCEPT !.receiveCounter = @ + 1]
    OBVIOUS
  <2>2. /\ UNCHANGED <<lastSalt, sealed, out>> /\ out[Client] = None /\ ready \in Line
        /\ Genuine(Server, ready)
    BY <1>0, <1>9, TakenGenuine DEF ClientStepReady, Free, Peer
  <2>3. InSync(Client, s, 0)
    <3>1. pending[Client] \in ServerReadyWait /\ Rest(Client)
      BY <1>0, <1>9, <2>2 DEF ClientStepReady, Local
    <3>2. SyncReadyWait(Client, pending[Client])
      BY <3>1, WaitKinds DEF Rest, FreshKeyWait
    <3> QED
      BY <2>1, <3>2 DEF SyncReadyWait
  <2>4. CASE /\ Promote(Client, s1) /\ NoteOpened(Client, s, ready.sealed)
             /\ ready.type = "FRAME" /\ Opens(s, Client, ready.sealed)
    <3>1. InSync(Client, s1, 0)' /\ OpensNext(Client, s.key.salt) /\ s.key.salt \in Salts
          /\ \A d \in Endpoint \ {Client} : UNCHANGED opened[d]
      BY <1>0, <2>1, <2>2, <2>3, <2>4, ReceivedInSync DEF Peer
    <3>2. Local(Client)'
      BY <1>0, <2>2, <2>4, <3>1 DEF Local, Rest, Promote, TypeOK
    <3> QED
      BY <1>0, <2>2, <2>4, <3>1, <3>2 DEF Effect, Promote, TypeOK
  <2>5. CASE Clear(Client) /\ UNCHANGED opened
    <3>1. Local(Client)'
      BY <1>0, <2>2, <2>5, ClearedLocal
    <3> QED
      BY <1>0, <2>2, <2>5, <3>1 DEF Effect, Clear, TypeOK
  <2> QED
    BY <1>9, <2>1, <2>4, <2>5 DEF ClientStepReady
<1>10. ASSUME ServerStep
       PROVE  Effect(Server)
  <2> DEFINE line == NextLine(Server)
  <2>1. PICK p, s : /\ p = pending[Server]
                    /\ s = [key |-> [password |-> p.password, salt |-> p.salt],
                            sendPrefix |-> p.prefix, receivePrefix |-> line.prefix,
                            sendCounter |-> 0, receiveCounter |-> 0]
    OBVIOUS
  <2>2. PICK ready, s1 : /\ ready = Seal(s, Server, "READY", s.sendCounter)
                         /\ s1 = [s EXCEPT !.receiveCounter = @ + 1]
    OBVIOUS
  <2>3. PICK frame : frame = [type |-> "FRAME", sealed |-> ready]
    OBVIOUS
  <2>4. /\ UNCHANGED lastSalt /\ out[Server] = None /\ line \in Line /\ Genuine(Client, line)
    BY <1>0, <1>10, TakenGenuine DEF ServerStep, Free, Peer
  <2>5. FreshKeyWait(Server, p) /\ session[Server] = None
    <3>1. p \in ClientKeyWait /\ Rest(Server)
      BY <1>0, <1>10, <2>1, <2>4 DEF ServerStep, Local
    <3> QED
      BY <2>1, <3>1, WaitKinds DEF Rest, SyncReadyWait
  <2>6. CASE /\ line.type = "KEY" /\ Opens(s, Server, line.sealed)
             /\ NoteOpened(Server, s, line.sealed) /\ NoteSealed(Server, ready)
             /\ StartWriting(Server, "READY", frame, s1, TRUE)
             /\ UNCHANGED channelVars
    <3>1. line.sealed \in Sealed /\ line.prefix \in Prefixes
      BY <2>4, <2>6, LineFields
    <3>2. /\ s \in Session /\ s.sendCounter = 0 /\ s.receiveCounter = 0 /\ s.key.salt = p.salt
          /\ p.salt \in Salts
      <4>1. p.password \in Passwords /\ p.salt \in Salts /\ p.prefix \in Prefixes
        BY <2>5 DEF FreshKeyWait, ClientKeyWait
      <4> QED
        BY <2>1, <3>1, <4>1, ConstantsAssumption DEF Session, Key
    <3>3. /\ s1 \in Session /\ s1.sendCounter = 0 /\ s1.receiveCounter = 1 /\ s1.key = s.key
      BY <2>2, <2>6, <3>2, OpenType DEF Session
    <3>4. ready \in Sealed /\ ready.key = s.key /\ ready.counter = 0 /\ ready.from = Server
      BY <2>2, <3>2, SealType, ConstantsAssumption DEF Plaintext
    <3>5. p.salt <= lastSalt /\ sealed[Server][p.salt] = <<>> /\ opened[Server][p.salt] = <<>>
      BY <2>5 DEF FreshKeyWait, Unused
    <3>6. Seals(Server, ready)
      BY <2>6, <3>2, <3>4, <3>5 DEF Seals
    <3>7. OpensNext(Server, p.salt)
      BY <1>0, <2>4, <2>6, <3>1, <3>2, <3>5, OpensGenuine DEF Peer
    <3>8. /\ Len(sealed'[Server][p.salt]) = 1 /\ sealed'[Server][p.salt] # <<>>
          /\ \A d \in Endpoint \ {Server} : sealed'[d] = sealed[d]
      <4>1. /\ Len(sealed'[Server][ready.key.salt]) = Len(sealed[Server][ready.key.salt]) + 1
            /\ sealed'[Server][ready.key.salt] # <<>>
            /\ \A d \in Endpoint \ {Server} : sealed'[d] = sealed[d]
        <5>1. NoteSealed(Server, ready) /\ ready \in Sealed
          BY <2>6, <3>4
        <5> QED
          BY <1>a, <5>1, SealedNext
      <4> QED
        BY <3>2, <3>4, <3>5, <4>1
    <3>9. Len(opened'[Server][p.salt]) = 1 /\ \A d \in Endpoint \ {Server} : opened'[d] = opened[d]
      <4>1. /\ Len(opened'[Server][s.key.salt]) = Len(opened[Server][s.key.salt]) + 1
            /\ \A d \in Endpoint \ {Server} : opened'[d] = opened[d]
        BY <1>a, <2>6, <3>1, <3>2, OpenedNext, Zenon
      <4> QED
        BY <3>2, <3>5, <4>1
    <3>10. InSync(Server, s1, 1)'
      BY <2>4, <3>2, <3>3, <3>5, <3>8, <3>9 DEF InSync
    <3>11. /\ out'[Server] # None /\ out'[Server].op = "READY" /\ out'[Server].next = s1
           /\ \A d \in Endpoint \ {Server} : UNCHANGED out[d]
      <4>1. frame \in Line
        BY <2>3, <3>4, FrameType
      <4> QED
        <5>1. StartWriting(Server, "READY", frame, s1, TRUE) /\ s1 \in Session
          BY <2>6, <3>3
        <5> QED
          BY <1>a, <4>1, <5>1, StartedSome
    <3>12. Local(Server)'
      BY <2>5, <2>6, <3>3, <3>10, <3>11, ConstantsAssumption DEF Local, Call, channelVars
    <3> QED
      BY <1>0, <2>4, <2>6, <3>2, <3>4, <3>6, <3>7, <3>8, <3>9, <3>11, <3>12 DEF Effect, channelVars
  <2>7. CASE Clear(Server) /\ UNCHANGED <<out, history>>
    <3>1. Local(Server)'
      BY <1>0, <2>4, <2>7, ClearedLocal
    <3> QED
      BY <1>0, <2>4, <2>7, <3>1 DEF Effect, Clear, TypeOK, history
  <2> QED
    BY <1>10, <2>1, <2>2, <2>3, <2>6, <2>7 DEF ServerStep
<1>11. ASSUME NEW e \in Endpoint, NEW t \in Texts, NEW d \in BOOLEAN, SendLine(e, t, d)
       PROVE  Effect(e)
  <2>1. PICK s, f : s = session[e] /\ f = Seal(s, e, t, s.sendCounter)
    OBVIOUS
  <2>2. PICK frame : frame = [type |-> "FRAME", sealed |-> f]
    OBVIOUS
  <2>3. /\ UNCHANGED <<lastSalt, opened>> /\ out[e] = None /\ session[e] # None
    BY <1>11 DEF SendLine, Free
  <2>4. InSync(e, s, 0) /\ pending[e] = None
    BY <1>0, <2>1, <2>3 DEF Local, Rest
  <2>5. CASE /\ ~Exhausted(s) /\ NoteSealed(e, f)
             /\ StartWriting(e, "LINE", frame, None, d) /\ UNCHANGED channelVars
    <3>1. s \in Session /\ s.sendCounter \in 0..MaxCounter /\ s.sendCounter < MaxCounter
      BY <2>4, <2>5, ConstantsAssumption DEF InSync, Session, Exhausted
    <3>2. f \in Sealed /\ f.key = s.key /\ f.counter = s.sendCounter /\ f.from = e
      BY <2>1, <3>1, SealType DEF Plaintext
    <3>3. Seals(e, f)
      BY <2>4, <2>5, <3>1, <3>2 DEF Seals, InSync
    <3>4. /\ Len(sealed'[e][s.key.salt]) = Len(sealed[e][s.key.salt]) + 1
          /\ sealed'[e][s.key.salt] # <<>>
          /\ \A c \in Endpoint \ {e} : sealed'[c] = sealed[c]
      <4>1. NoteSealed(e, f) /\ f \in Sealed
        BY <2>5, <3>2
      <4>2. /\ Len(sealed'[e][f.key.salt]) = Len(sealed[e][f.key.salt]) + 1
            /\ sealed'[e][f.key.salt] # <<>>
            /\ \A c \in Endpoint \ {e} : sealed'[c] = sealed[c]
        BY <1>a, <4>1, SealedNext
      <4> QED
        BY <3>2, <4>2
    <3>5. InSync(e, s, 1)'
      BY <2>3, <2>4, <3>1, <3>4 DEF InSync
    <3>6. /\ out'[e] # None /\ out'[e].op = "LINE"
          /\ \A c \in Endpoint \ {e} : UNCHANGED out[c]
      <4>1. frame \in Line
        BY <2>2, <3>2, FrameType
      <4> QED
        <5>1. StartWriting(e, "LINE", frame, None, d)
          BY <2>5
        <5> QED
          BY <1>a, <4>1, <5>1, StartedSome
    <3>7. Local(e)'
      BY <2>1, <2>4, <2>5, <3>1, <3>5, <3>6 DEF Local, Call, channelVars
    <3> QED
      BY <1>0, <2>3, <2>5, <3>2, <3>3, <3>4, <3>6, <3>7 DEF Effect, channelVars
  <2>6. CASE Clear(e) /\ UNCHANGED <<out, sealed>>
    <3>1. Local(e)'
      BY <1>0, <2>3, <2>6, ClearedLocal
    <3> QED
      BY <1>0, <2>3, <2>6, <3>1 DEF Effect, Clear, TypeOK
  <2> QED
    BY <1>11, <2>1, <2>2, <2>5, <2>6 DEF SendLine
<1>12. ASSUME NEW e \in Endpoint, ReceiveLine(e)
       PROVE  Effect(e)
  <2> DEFINE line == NextLine(e)
  <2>1. PICK s, s1 : s = session[e] /\ s1 = [s EXCEPT !.receiveCounter = @ + 1]
    OBVIOUS
  <2>2. /\ UNCHANGED <<lastSalt, sealed, out>> /\ out[e] = None /\ line \in Line
        /\ Genuine(Peer(e), line)
    BY <1>0, <1>12, TakenGenuine DEF ReceiveLine, Free
  <2>3. InSync(e, s, 0) /\ pending[e] = None
    BY <1>0, <1>12, <2>1, <2>2 DEF ReceiveLine, Local, Rest
  <2>4. CASE /\ line.type = "FRAME" /\ Opens(s, e, line.sealed)
             /\ session' = [session EXCEPT ![e] = s1]
             /\ NoteOpened(e, s, line.sealed) /\ UNCHANGED pending
    <3>1. InSync(e, s1, 0)' /\ OpensNext(e, s.key.salt) /\ s.key.salt \in Salts
          /\ \A d \in Endpoint \ {e} : UNCHANGED opened[d]
      BY <1>0, <2>1, <2>2, <2>3, <2>4, ReceivedInSync
    <3>2. Local(e)'
      BY <1>0, <2>2, <2>3, <2>4, <3>1 DEF Local, Rest, TypeOK
    <3> QED
      BY <1>0, <2>2, <2>4, <3>1, <3>2 DEF Effect, TypeOK
  <2>5. CASE Clear(e) /\ UNCHANGED opened
    <3>1. Local(e)'
      BY <1>0, <2>2, <2>5, ClearedLocal
    <3> QED
      BY <1>0, <2>2, <2>5, <3>1 DEF Effect, Clear, TypeOK
  <2> QED
    BY <1>0, <1>12, <2>1, <2>4, <2>5 DEF ReceiveLine, TypeOK
<1> QED
  BY <1>1, <1>2, <1>3, <1>4, <1>5, <1>6, <1>7, <1>8, <1>9, <1>10, <1>11, <1>12
  DEF Next, Step, Write

\* RestInv and CallInv: the endpoint that makes the step keeps its part, and the
\* other endpoint's part speaks of nothing that changes but lastSalt, which grows.
LEMMA LocalStep ==
    ASSUME Inductive, Next
    PROVE  (RestInv /\ CallInv)'
<1>1. PICK a \in Endpoint : Effect(a)
  BY Effects
<1>2. TypeOK /\ TypeOK' /\ \A e \in Endpoint : Local(e)
  BY LocalInv, TypeStep DEF Inductive
<1>3. lastSalt \in Int /\ lastSalt' \in Int /\ lastSalt <= lastSalt'
  BY <1>1, <1>2 DEF TypeOK, Effect
<1>4. ASSUME NEW e \in Endpoint
      PROVE  Local(e)'
  <2>1. CASE e = a
    BY <1>1, <2>1 DEF Effect
  <2>2. CASE e # a
    <3>1. UNCHANGED <<pending[e], session[e], out[e], sealed[e], opened[e]>>
      BY <1>1, <2>2 DEF Effect
    <3>2. ASSUME NEW s, NEW n, InSync(e, s, n)
          PROVE  InSync(e, s, n)'
      BY <1>3, <3>1, <3>2 DEF InSync, Session, Key, Salts
    <3>3. ASSUME NEW p
          PROVE  /\ FreshKeyWait(e, p) => FreshKeyWait(e, p)'
                 /\ SyncReadyWait(e, p) => SyncReadyWait(e, p)'
      BY <1>3, <3>1, <3>2 DEF FreshKeyWait, SyncReadyWait, ClientKeyWait, Salts, Unused
    <3>4. PICK o, p, s : o = out[e] /\ p = pending[e] /\ s = session[e]
      OBVIOUS
    <3>5. Local(e)
      BY <1>2
    <3>6. o = None => Rest(e)'
      BY <3>1, <3>2, <3>3, <3>4, <3>5 DEF Local, Rest
    <3>7. o # None => Call(e)'
      <4>1. PICK next : next = o.next
        OBVIOUS
      <4> QED
        BY <3>1, <3>2, <3>3, <3>4, <3>5, <4>1 DEF Local, Call
    <3> QED
      BY <3>1, <3>4, <3>6, <3>7 DEF Local
  <2> QED
    BY <2>1, <2>2
<1> QED
  BY <1>4 DEF RestInv, CallInv, Local, Rest, Call

\* What is sealed or opened under a salt is only ever added to, at the end.
Grows(h, k) ==
    \A e \in Endpoint, s \in Salts :
        /\ Len(h[e][s]) <= Len(k[e][s])
        /\ \A i \in 1..Len(h[e][s]) : k[e][s][i] = h[e][s][i]

\* Every step keeps what the histories say.
LEMMA HistoryStep ==
    ASSUME Inductive, Next
    PROVE  /\ SaltsInv' /\ NonceNeverReused' /\ OpenedInOrder'
           /\ Grows(sealed, sealed')
<1>1. PICK a \in Endpoint : Effect(a)
  BY Effects
<1>2. TypeOK /\ TypeOK' /\ SaltsInv /\ NonceNeverReused /\ OpenedInOrder
  BY TypeStep DEF Inductive
<1>3. lastSalt \in Int /\ lastSalt' \in Int /\ lastSalt <= lastSalt'
  BY <1>1, <1>2 DEF TypeOK, Effect
<1>4. /\ sealed \in [Endpoint -> [Salts -> Seq(Sealed)]]
      /\ opened \in [Endpoint -> [Salts -> Seq(Sealed)]]
      /\ sealed' \in [Endpoint -> [Salts -> Seq(Sealed)]]
      /\ opened' \in [Endpoint -> [Salts -> Seq(Sealed)]]
  BY <1>2 DEF TypeOK
<1>5. ASSUME NEW e \in Endpoint, NEW s \in Salts
      PROVE  \/ sealed'[e][s] = sealed[e][s]
             \/ /\ s <= lastSalt
                /\ \E f \in Sealed : /\ sealed'[e][s] = Append(sealed[e][s], f)
                                     /\ f.counter = Len(sealed[e][s])
  <2>1. CASE UNCHANGED sealed
    BY <2>1
  <2>2. ASSUME NEW f \in Sealed, Seals(a, f)
        PROVE  \/ sealed'[e][s] = sealed[e][s]
               \/ /\ s <= lastSalt
                  /\ \E g \in Sealed : /\ sealed'[e][s] = Append(sealed[e][s], g)
                                       /\ g.counter = Len(sealed[e][s])
    <3>1. f.key.salt \in Salts
      BY DEF Sealed, Key
    <3> QED
      BY <1>4, <2>2, <3>1 DEF Seals, NoteSealed
  <2> QED
    BY <1>1, <2>1, <2>2 DEF Effect
<1>6. ASSUME NEW e \in Endpoint, NEW s \in Salts
      PROVE  \/ opened'[e][s] = opened[e][s]
             \/ LET n == Len(opened[e][s]) + 1
                IN /\ s <= lastSalt /\ n <= Len(sealed[Peer(e)][s])
                   /\ opened'[e][s] = Append(opened[e][s], sealed[Peer(e)][s][n])
  <2>1. CASE UNCHANGED opened
    BY <2>1
  <2>2. ASSUME NEW r \in Salts, OpensNext(a, r)
        PROVE  \/ opened'[e][s] = opened[e][s]
               \/ LET n == Len(opened[e][s]) + 1
                  IN /\ s <= lastSalt /\ n <= Len(sealed[Peer(e)][s])
                     /\ opened'[e][s] = Append(opened[e][s], sealed[Peer(e)][s][n])
    BY <1>4, <2>2 DEF OpensNext
  <2> QED
    BY <1>1, <2>1, <2>2 DEF Effect
<1>7. SaltsInv'
  BY <1>2, <1>3, <1>5, <1>6 DEF SaltsInv, Unused, Salts
<1>8. ASSUME NEW e \in Endpoint, NEW s \in Salts
      PROVE  /\ \A i \in DOMAIN sealed'[e][s] : sealed'[e][s][i].counter = i - 1
             /\ Len(sealed[e][s]) <= Len(sealed'[e][s])
             /\ \A i \in 1..Len(sealed[e][s]) : sealed'[e][s][i] = sealed[e][s][i]
  <2>1. sealed[e][s] \in Seq(Sealed) /\ \A i \in DOMAIN sealed[e][s] : sealed[e][s][i].counter = i - 1
    BY <1>2, <1>4 DEF NonceNeverReused
  <2>2. CASE sealed'[e][s] = sealed[e][s]
    BY <2>1, <2>2
  <2>3. ASSUME NEW f \in Sealed, sealed'[e][s] = Append(sealed[e][s], f),
               f.counter = Len(sealed[e][s])
        PROVE  /\ \A i \in DOMAIN sealed'[e][s] : sealed'[e][s][i].counter = i - 1
               /\ Len(sealed[e][s]) <= Len(sealed'[e][s])
               /\ \A i \in 1..Len(sealed[e][s]) : sealed'[e][s][i] = sealed[e][s][i]
    <3>1. PICK q, q1 : q \in Seq(Sealed) /\ q = sealed[e][s] /\ q1 = Append(q, f)
      BY <2>1
    <3>2. /\ Len(q) \in Nat /\ Len(q1) = Len(q) + 1 /\ DOMAIN q1 = 1..Len(q) + 1
          /\ q1[Len(q) + 1] = f /\ \A i \in 1..Len(q) : q1[i] = q[i]
      BY <3>1
    <3>3. \A i \in 1..Len(q) + 1 : q1[i].counter = i - 1
      BY <2>1, <2>3, <3>1, <3>2
    <3> QED
      BY <2>3, <3>1, <3>2, <3>3
  <2> QED
    BY <1>5, <2>2, <2>3
<1>9. NonceNeverReused' /\ Grows(sealed, sealed')
  BY <1>8 DEF NonceNeverReused, Grows
<1>10. ASSUME NEW e \in Endpoint, NEW s \in Salts
       PROVE  /\ Len(opened'[e][s]) <= Len(sealed'[Peer(e)][s])
              /\ \A i \in DOMAIN opened'[e][s] : opened'[e][s][i] = sealed'[Peer(e)][s][i]
  <2>1. Peer(e) \in Endpoint
    BY Endpoints
  <2>2. PICK q \in Seq(Sealed), p \in Seq(Sealed), p1 \in Seq(Sealed) :
          q = opened[e][s] /\ p = sealed[Peer(e)][s] /\ p1 = sealed'[Peer(e)][s]
    BY <1>4, <2>1
  <2>3. Len(q) <= Len(p) /\ \A i \in 1..Len(q) : q[i] = p[i]
    BY <1>2, <2>2 DEF OpenedInOrder
  <2>4. Len(p) <= Len(p1) /\ \A i \in 1..Len(p) : p1[i] = p[i]
    BY <1>8, <2>1, <2>2
  <2>5. CASE opened'[e][s] = q
    BY <2>2, <2>3, <2>4, <2>5
  <2>6. CASE Len(q) + 1 <= Len(p) /\ opened'[e][s] = Append(q, p[Len(q) + 1])
    <3>1. p[Len(q) + 1] \in Sealed
      BY <2>6
    <3>2. PICK q1 : q1 = Append(q, p[Len(q) + 1])
      OBVIOUS
    <3>3. Len(q1) = Len(q) + 1 /\ q1[Len(q) + 1] = p[Len(q) + 1] /\ \A i \in 1..Len(q) : q1[i] = q[i]
          /\ DOMAIN q1 = 1..Len(q) + 1
      BY <3>1, <3>2
    <3>4. \A i \in 1..Len(q) + 1 : q1[i] = p1[i]
      BY <2>3, <2>4, <2>6, <3>3
    <3> QED
      BY <2>2, <2>4, <2>6, <3>2, <3>3, <3>4
  <2> QED
    BY <1>6, <2>2, <2>5, <2>6
<1>11. OpenedInOrder'
  BY <1>10 DEF OpenedInOrder
<1> QED
  BY <1>7, <1>9, <1>11

\* The lines of e on their way, written or being written.
InLines(e, l) == \E i \in DOMAIN lines[e] : l = lines[e][i]
OnWire(e, l) == InLines(e, l) \/ l = tail[e] \/ (out[e] # None /\ l = out[e].line)

\* Taking a line puts nothing on the wire.
LEMMA TakenWire ==
    ASSUME TypeOK, NEW d \in Endpoint, TakeLine(d), NEW e \in Endpoint, NEW l
    PROVE  /\ InLines(e, l)' => InLines(e, l)
           /\ l = tail'[e] => l = tail[e] \/ l = None
<1>1. lines[e] \in Seq(Line) /\ Peer(d) \in Endpoint
  BY Endpoints DEF TypeOK
<1>2. lines'[e] = lines[e] \/ (lines[e] # <<>> /\ lines'[e] = Tail(lines[e]))
  BY <1>1 DEF TakeLine, TypeOK
<1>3. tail'[e] = tail[e] \/ tail'[e] = None
  BY <1>1 DEF TakeLine, TypeOK
<1>4. InLines(e, l)' => InLines(e, l)
  <2>1. PICK q, r : q \in Seq(Line) /\ q = lines[e] /\ r = lines'[e]
    BY <1>1
  <2>2. ASSUME q # <<>>, r = Tail(q), NEW i \in DOMAIN r
        PROVE  i + 1 \in DOMAIN q /\ r[i] = q[i + 1]
    BY <2>2
  <2> QED
    BY <1>2, <2>1, <2>2 DEF InLines
<1> QED
  BY <1>3, <1>4

\* Nothing is left of a line that was not being written.
LEMMA LeftWire ==
    ASSUME NEW e \in Endpoint, NEW l, l = Left(e)
    PROVE  OnWire(e, l) \/ l = Garbage
BY DEF Left, OnWire

\* New on the wire is at most a HELLO or a frame that was just sealed.
NewOnWire(e, l) ==
    \/ OnWire(e, l) \/ l \in {None, Garbage} \/ l.type = "HELLO"
    \/ \E f \in Sealed : NoteSealed(e, f) /\ f.from = e /\ l.sealed = f

\* The line that a call starts to write is the only one that is new.
LEMMA StartedWire ==
    ASSUME TypeOK, NEW d \in Endpoint, NEW op \in {"HELLO", "KEY", "READY", "LINE"},
           NEW line \in Line, NEW next \in PendingHandshake \cup Session \cup {None},
           NEW b \in BOOLEAN, StartWriting(d, op, line, next, b),
           NEW e \in Endpoint, NEW l, OnWire(e, l)',
           InLines(e, l)' => InLines(e, l), l = tail'[e] => l = tail[e] \/ l = None
    PROVE  OnWire(e, l) \/ l = None \/ (e = d /\ l = line)
<1>1. out'[d].line = line /\ \A c \in Endpoint \ {d} : UNCHANGED out[c]
  BY StartedSome
<1> QED
  BY <1>1 DEF OnWire

\* A call that starts a frame writes no HELLO, and leaves the other's call alone.
LEMMA StartsFrameOut ==
    ASSUME TypeOK, NEW d \in Endpoint, StartsFrame(d)
    PROVE  /\ \A c \in Endpoint \ {d} : UNCHANGED out[c]
           /\ out'[d] # None /\ out'[d].line.type # "HELLO"
<1>1. PICK f \in Sealed, op \in {"KEY", "READY", "LINE"}, line \in Line,
           next \in PendingHandshake \cup Session \cup {None}, b \in BOOLEAN :
             line.type # "HELLO" /\ StartWriting(d, op, line, next, b)
  BY DEF StartsFrame
<1>2. StartWriting(d, op, line, next, b)
  BY <1>1
<1> QED
  BY <1>1, <1>2, StartedSome

\* After a call that starts a frame, what is on the wire was there or is that frame.
LEMMA StartedFrame ==
    ASSUME TypeOK, NEW d \in Endpoint, StartsFrame(d), NEW e \in Endpoint, NEW l, OnWire(e, l)',
           InLines(e, l)' => InLines(e, l), l = tail'[e] => l = tail[e] \/ l = None
    PROVE  NewOnWire(e, l)
<1>1. PICK f \in Sealed, op \in {"KEY", "READY", "LINE"}, line \in Line,
           next \in PendingHandshake \cup Session \cup {None}, b \in BOOLEAN :
             /\ f.from = d /\ line.sealed = f
             /\ NoteSealed(d, f) /\ StartWriting(d, op, line, next, b)
  BY DEF StartsFrame
<1>2. OnWire(e, l) \/ l = None \/ (e = d /\ l = line)
  <2>1. StartWriting(d, op, line, next, b)
    BY <1>1
  <2> QED
    BY <2>1, StartedWire
<1> QED
  BY <1>1, <1>2 DEF NewOnWire

\* The only complete line that a write adds is the one being written, or garbage.
LEMMA WrittenLine ==
    ASSUME TypeOK, NEW d \in Endpoint, NEW op, WriteRest(d, op),
           NEW e \in Endpoint, NEW l, InLines(e, l)'
    PROVE  InLines(e, l) \/ l = Garbage \/ (out[e] # None /\ l = out[e].line)
<1>1. CASE e # d
  BY <1>1 DEF WriteRest, TypeOK, InLines
<1>2. CASE e = d
  <2>1. PICK m : m = IF tail[e] = None THEN out[e].line ELSE Garbage
    OBVIOUS
  <2>2. out[e] # None /\ (m = out[e].line \/ m = Garbage)
    BY <1>2, <2>1 DEF WriteRest, Writable
  <2>3. m \in Line
    BY <2>2, GarbageType DEF TypeOK, Writing
  <2>4. PICK q, r : q \in Seq(Line) /\ q = lines[e] /\ r = lines'[e]
    BY DEF TypeOK
  <2>5. r = Append(q, m)
    BY <1>2, <2>1, <2>4 DEF WriteRest, TypeOK
  <2>6. \A i \in DOMAIN r : r[i] = m \/ (i \in DOMAIN q /\ r[i] = q[i])
    BY <2>3, <2>5
  <2> QED
    BY <2>2, <2>4, <2>6 DEF InLines
<1> QED
  BY <1>1, <1>2

\* What is on the wire after a step was there before, or was written by it.
LEMMA WireStep ==
    ASSUME Inductive, Next, NEW e \in Endpoint, NEW l, OnWire(e, l)'
    PROVE  NewOnWire(e, l)
<1>0. TypeOK
  BY DEF Inductive
<1>1. ASSUME UNCHANGED <<lines, tail>>, UNCHANGED out \/ out'[e] = None
      PROVE  NewOnWire(e, l)
  BY <1>1 DEF OnWire, InLines, NewOnWire
<1>2. ASSUME NEW d \in Endpoint, TakeLine(d), UNCHANGED out
      PROVE  NewOnWire(e, l)
  BY <1>0, <1>2, TakenWire DEF OnWire, NewOnWire
<1>3. ASSUME NEW d \in Endpoint,
             StepEnds(d) \/ ReceiveClosed(d) \/ Forget(d) \/ Close(d) \/ \E w \in Passwords : BeginClient(w)
      PROVE  NewOnWire(e, l)
  BY <1>1, <1>3 DEF BeginClient, StepEnds, ReceiveClosed, Forget, Close, wireVars
<1>4. ASSUME NEW w \in Passwords, NEW x \in Prefixes, BeginServer(w, x)
      PROVE  NewOnWire(e, l)
  <2>1. lastSalt' \in Salts
    BY <1>0, <1>4, ConstantsAssumption DEF BeginServer, TypeOK, Salts
  <2>2. PICK next, hello :
          /\ next = [phase |-> "WaitClientKey", password |-> w, salt |-> lastSalt', prefix |-> x]
          /\ hello = [type |-> "HELLO", salt |-> lastSalt', prefix |-> x]
    OBVIOUS
  <2>3. UNCHANGED <<lines, tail>> /\ StartWriting(Server, "HELLO", hello, next, TRUE)
    BY <1>4, <2>2 DEF BeginServer, wireVars
  <2>4. next \in PendingHandshake \cup Session \cup {None} /\ hello \in Line /\ hello.type = "HELLO"
    BY <2>1, <2>2, HelloType DEF ClientKeyWait, PendingHandshake
  <2>5. OnWire(e, l) \/ l = None \/ (e = Server /\ l = hello)
    <3>1. (InLines(e, l)' => InLines(e, l)) /\ (l = tail'[e] => l = tail[e] \/ l = None)
      BY <2>3 DEF InLines
    <3>2. StartWriting(Server, "HELLO", hello, next, TRUE) /\ hello \in Line
      BY <2>3, <2>4
    <3> QED
      BY <1>0, <2>4, <3>1, <3>2, StartedWire, Endpoints
  <2> QED
    BY <2>4, <2>5 DEF NewOnWire
<1>5. ASSUME NEW d \in Endpoint, WriteTimesOut(d) \/ WriteFails(d) \/ Crash(d)
      PROVE  NewOnWire(e, l)
  <2>1. /\ out' = [out EXCEPT ![d] = None] /\ UNCHANGED lines
        /\ tail' = [tail EXCEPT ![d] = IF reset THEN @ ELSE Left(d)]
    BY <1>5 DEF WriteTimesOut, WriteFails, Crash, GiveUp
  <2>2. /\ InLines(e, l)' => InLines(e, l)
        /\ out'[e] # None => out'[e] = out[e]
        /\ tail'[e] = tail[e] \/ tail'[e] = Left(e)
    BY <1>0, <2>1 DEF InLines, TypeOK
  <2> QED
    BY <2>2, LeftWire DEF OnWire, NewOnWire
<1>6. ASSUME NEW d \in Endpoint, NEW op, WriteRest(d, op)
      PROVE  NewOnWire(e, l)
  <2>1. /\ out'[e] # None => out'[e] = out[e]
        /\ tail'[e] = tail[e] \/ tail'[e] = None
    BY <1>0, <1>6 DEF WriteRest, TypeOK
  <2>2. CASE InLines(e, l)'
    BY <1>0, <1>6, <2>2, WrittenLine DEF OnWire, NewOnWire
  <2>3. CASE ~InLines(e, l)'
    BY <2>1, <2>3 DEF OnWire, NewOnWire
  <2> QED
    BY <2>2, <2>3
<1>7. ASSUME NEW d \in Endpoint, WriteShort(d)
      PROVE  NewOnWire(e, l)
  <2>1. UNCHANGED <<lines, tail>> /\ out[d] # None /\ out[d] \in Writing
    BY <1>0, <1>7 DEF WriteShort, wireVars, Writable, TypeOK
  <2>2. out'[e].line = out[e].line /\ (out'[e] # None => out[e] # None)
    BY <1>0, <1>7, <2>1 DEF WriteShort, TypeOK, Writing
  <2> QED
    BY <2>1, <2>2 DEF OnWire, InLines, NewOnWire
<1>8. ASSUME NEW d \in Endpoint, TakeLine(d), StartsFrame(d)
      PROVE  NewOnWire(e, l)
  <2>1. (InLines(e, l)' => InLines(e, l)) /\ (l = tail'[e] => l = tail[e] \/ l = None)
    BY <1>0, <1>8, TakenWire
  <2> QED
    BY <1>0, <1>8, <2>1, StartedFrame
<1>9. ASSUME ServerStep \/ \E x \in Prefixes : ClientStepHello(x)
      PROVE  NewOnWire(e, l)
  <2>1. ASSUME NEW x \in Prefixes, ClientStepHello(x)
        PROVE  NewOnWire(e, l)
    <3>1. TakeLine(Client) /\ (StartsFrame(Client) \/ UNCHANGED out)
      BY <1>0, <2>1, ClientStepStarts DEF ClientStepHello
    <3> QED
      BY <1>2, <1>8, <3>1, Endpoints
  <2>2. CASE ServerStep
    <3>1. TakeLine(Server) /\ (StartsFrame(Server) \/ UNCHANGED out)
      BY <1>0, <2>2, ServerStepStarts DEF ServerStep
    <3> QED
      BY <1>2, <1>8, <3>1, Endpoints
  <2> QED
    BY <1>9, <2>1, <2>2
<1>10. ASSUME NEW d \in Endpoint, ClientStepReady \/ ReceiveLine(d)
       PROVE  NewOnWire(e, l)
  BY <1>2, <1>10, Endpoints DEF ClientStepReady, ReceiveLine
<1>11. ASSUME NEW d \in Endpoint, NEW t \in Texts, NEW b \in BOOLEAN, SendLine(d, t, b)
       PROVE  NewOnWire(e, l)
  <2>1. UNCHANGED <<lines, tail>> /\ (StartsFrame(d) \/ UNCHANGED out)
    BY <1>0, <1>11, SendLineStarts DEF SendLine, wireVars
  <2>2. CASE StartsFrame(d)
    <3>1. (InLines(e, l)' => InLines(e, l)) /\ (l = tail'[e] => l = tail[e] \/ l = None)
      BY <2>1 DEF InLines
    <3> QED
      BY <1>0, <2>2, <3>1, StartedFrame
  <2> QED
    BY <1>1, <2>1, <2>2
<1>12. ASSUME Reset
       PROVE  NewOnWire(e, l)
  <2>1. UNCHANGED out
    BY <1>12 DEF Reset
  <2>2. PICK n \in 0..Len(lines[e]) : lines'[e] = SubSeq(lines[e], 1, n) /\ tail'[e] \in Remains(e, n)
    BY <1>12 DEF Reset, Endpoint
  <2>3. PICK q, r : q \in Seq(Line) /\ q = lines[e] /\ r = lines'[e]
    BY <1>0 DEF TypeOK
  <2>4. \A i \in DOMAIN r : i \in DOMAIN q /\ r[i] = q[i]
    BY <2>2, <2>3
  <2>5. \/ tail'[e] \in {None, Garbage, Left(e)}
        \/ n + 1 \in DOMAIN q /\ tail'[e] = q[n + 1]
    BY <2>2, <2>3 DEF Remains
  <2>6. InLines(e, l)' => InLines(e, l)
    BY <2>3, <2>4 DEF InLines
  <2>7. l = tail'[e] => InLines(e, l) \/ l \in {None, Garbage, Left(e)}
    BY <2>3, <2>5 DEF InLines
  <2> QED
    BY <2>1, <2>6, <2>7, LeftWire DEF OnWire, NewOnWire
<1>13. ASSUME NEW d \in Endpoint, Write(d)
       PROVE  NewOnWire(e, l)
  BY <1>6, <1>13 DEF Write, HelloWritten, KeyWritten, ReadyWritten, LineWritten
<1>14. ASSUME NEW d \in Endpoint, Step(d)
       PROVE  NewOnWire(e, l)
  BY <1>3, <1>9, <1>10, <1>14 DEF Step
<1> QED
  BY <1>3, <1>4, <1>5, <1>7, <1>10, <1>11, <1>12, <1>13, <1>14, Endpoints DEF Next

\* WireInv: the frames on their way stay what their senders sealed.
LEMMA WireInvStep ==
    ASSUME Inductive, Next
    PROVE  WireInv'
<1>1. /\ TypeOK /\ TypeOK' /\ WireInv /\ NonceNeverReused' /\ Grows(sealed, sealed')
  BY TypeStep, HistoryStep DEF Inductive
<1>2. ASSUME NEW e \in Endpoint, NEW l \in Line, Genuine(e, l)
      PROVE  Genuine(e, l)'
  <2>1. CASE l.type \in {"KEY", "FRAME"}
    <3>1. l.sealed \in Sealed /\ l # None
      BY <2>1, LineFields, NoneAssumption
    <3>2. PICK f \in Sealed : f = l.sealed
      BY <3>1
    <3>3. f.key.salt \in Salts /\ f.counter \in Nat
      BY ConstantsAssumption DEF Sealed, Key
    <3>4. PICK q, q1 : q = sealed[e][f.key.salt] /\ q1 = sealed'[e][f.key.salt]
      OBVIOUS
    <3>5. f.from = e /\ f.counter < Len(q) /\ q[f.counter + 1] = f
      BY <1>2, <2>1, <3>1, <3>2, <3>4 DEF Genuine
    <3>6. Len(q) \in Nat /\ Len(q1) \in Nat
      BY <1>1, <3>3, <3>4 DEF TypeOK
    <3>7. Len(q) <= Len(q1) /\ \A i \in 1..Len(q) : q1[i] = q[i]
      BY <1>1, <3>3, <3>4 DEF Grows
    <3>8. f.counter < Len(q1) /\ q1[f.counter + 1] = f
      BY <3>3, <3>5, <3>6, <3>7
    <3> QED
      BY <3>2, <3>4, <3>5, <3>8 DEF Genuine
  <2>2. CASE l.type \notin {"KEY", "FRAME"}
    BY <2>2 DEF Genuine
  <2> QED
    BY <2>1, <2>2
<1>3. ASSUME NEW e \in Endpoint, NEW f \in Sealed, NoteSealed(e, f), f.from = e,
             NEW l, l.sealed = f
      PROVE  Genuine(e, l)'
  <2>1. /\ f.key.salt \in Salts
        /\ Len(sealed'[e][f.key.salt]) = Len(sealed[e][f.key.salt]) + 1
        /\ sealed'[e][f.key.salt][Len(sealed[e][f.key.salt]) + 1] = f
    BY <1>1, <1>3, SealedNext
  <2>2. PICK salt, q, q1 : salt \in Salts /\ salt = f.key.salt /\ q = sealed[e][salt] /\ q1 = sealed'[e][salt]
    BY <2>1
  <2>3. Len(q) \in Nat /\ q1 \in Seq(Sealed)
    BY <1>1, <2>2 DEF TypeOK
  <2>4. Len(q1) = Len(q) + 1 /\ q1[Len(q) + 1] = f
    BY <2>1, <2>2
  <2>5. \A i \in DOMAIN q1 : q1[i].counter = i - 1
    BY <1>1, <2>2 DEF NonceNeverReused
  <2>6. f.counter = Len(q)
    BY <2>3, <2>4, <2>5
  <2>7. f.counter < Len(q1) /\ q1[f.counter + 1] = f
    BY <2>3, <2>4, <2>6
  <2> QED
    BY <1>3, <2>2, <2>7 DEF Genuine
<1>4. ASSUME NEW e \in Endpoint, NEW l, OnWire(e, l)', l # None, l \in Line
      PROVE  Genuine(e, l)'
  <2>1. CASE OnWire(e, l)
    <3>1. Genuine(e, l)
      BY <1>1, <2>1 DEF WireInv, OnWire, InLines
    <3> QED
      BY <1>2, <1>4, <3>1
  <2>2. CASE l = Garbage \/ l.type = "HELLO"
    BY <2>2 DEF Genuine, Garbage
  <2>3. CASE \E f \in Sealed : NoteSealed(e, f) /\ f.from = e /\ l.sealed = f
    BY <1>3, <2>3
  <2> QED
    BY <1>4, <2>1, <2>2, <2>3, WireStep DEF NewOnWire
<1>5. ASSUME NEW e \in Endpoint, NEW l, OnWire(e, l)', l \in Line \cup {None}
      PROVE  Genuine(e, l)'
  BY <1>4, <1>5 DEF Genuine
<1>6. ASSUME NEW e \in Endpoint
      PROVE  /\ \A i \in DOMAIN lines'[e] : Genuine(e, lines[e][i])'
             /\ Genuine(e, tail[e])'
             /\ out'[e] # None => Genuine(e, out[e].line)'
  <2>1. ASSUME NEW i \in DOMAIN lines'[e]
        PROVE  Genuine(e, lines[e][i])'
    <3>1. PICK l : l = lines'[e][i]
      OBVIOUS
    <3>2. OnWire(e, l)' /\ l \in Line
      <4>1. PICK q \in Seq(Line) : q = lines'[e]
        BY <1>1 DEF TypeOK
      <4>2. l \in Line
        BY <3>1, <4>1
      <4> QED
        BY <3>1, <4>2 DEF OnWire, InLines
    <3>3. Genuine(e, l)'
      BY <1>5, <3>2
    <3> QED
      BY <3>1, <3>3 DEF Genuine
  <2>2. Genuine(e, tail[e])'
    <3>1. PICK l : l = tail'[e]
      OBVIOUS
    <3>2. OnWire(e, l)' /\ l \in Line \cup {None}
      BY <1>1, <3>1 DEF OnWire, TypeOK
    <3> QED
      BY <1>5, <3>1, <3>2 DEF Genuine
  <2>3. ASSUME out'[e] # None
        PROVE  Genuine(e, out[e].line)'
    <3>1. PICK l : l = out'[e].line
      OBVIOUS
    <3>2. OnWire(e, l)' /\ l \in Line
      BY <1>1, <2>3, <3>1 DEF OnWire, TypeOK, Writing
    <3> QED
      BY <1>5, <3>1, <3>2 DEF Genuine
  <2> QED
    BY <2>1, <2>2, <2>3
<1> QED
  BY <1>6 DEF WireInv

\* HELLOs stay apart when lines are taken, dropped or replaced by others.
LEMMA ApartFewer ==
    ASSUME NEW fresh, NEW q \in Seq(Line), NEW t, NEW o, Apart(fresh, q, t, o),
           NEW more, fresh \subseteq more, NEW t1, NEW o1,
           t1 = t \/ ~IsHello(t1), o1 = o \/ ~IsHello(o1)
    PROVE  Apart(more, q, t1, o1)
BY DEF Apart, Fresh, Differ

\* Salts stay apart when a line is taken,
LEMMA ApartTaken ==
    ASSUME NEW fresh, NEW q \in Seq(Line), NEW t, NEW o, Apart(fresh, q, t, o), NEW more,
           \A salt \in fresh : salt \in more \/ (IsHello(Head(q)) /\ salt = Head(q).salt),
           q # <<>>
    PROVE  Apart(more, Tail(q), t, o)
<1>1. 1 \in DOMAIN q /\ q[1] = Head(q)
  OBVIOUS
<1>2. PICK r : r = Tail(q)
  OBVIOUS
<1>3. \A i \in DOMAIN r : i + 1 \in DOMAIN q /\ r[i] = q[i + 1] /\ i + 1 # 1 /\ i \in Nat
  BY <1>2
<1>4. \A l : Fresh(fresh, l) /\ Differ(Head(q), l) => Fresh(more, l)
  BY DEF Fresh, Differ
<1>5. \A i \in DOMAIN r : /\ Fresh(more, r[i]) /\ Differ(r[i], t) /\ Differ(r[i], o)
                          /\ \A j \in DOMAIN r : i # j => Differ(r[i], r[j])
  BY <1>1, <1>3, <1>4 DEF Apart
<1>6. Fresh(more, t) /\ Fresh(more, o) /\ Differ(t, o)
  BY <1>1, <1>4 DEF Apart
<1> QED
  BY <1>2, <1>5, <1>6 DEF Apart

\* ... when the rest of a cut line is taken at the end of the stream,
LEMMA ApartLastTaken ==
    ASSUME NEW fresh, NEW t, NEW o, Apart(fresh, <<>>, t, o), NEW more,
           \A salt \in fresh : salt \in more \/ (IsHello(t) /\ salt = t.salt)
    PROVE  Apart(more, <<>>, None, o)
BY DEF Apart, Fresh, Differ, IsHello

\* ... when the line of the running call is written,
LEMMA ApartWritten ==
    ASSUME NEW fresh, NEW q \in Seq(Line), NEW t, NEW o, Apart(fresh, q, t, o),
           NEW m \in Line, m = o \/ ~IsHello(m)
    PROVE  Apart(fresh, Append(q, m), None, None)
<1>1. PICK r : r = Append(q, m)
  OBVIOUS
<1>2. /\ DOMAIN r = 1..Len(q) + 1 /\ Len(q) \in Nat /\ DOMAIN q = 1..Len(q)
      /\ r[Len(q) + 1] = m /\ \A i \in DOMAIN q : r[i] = q[i]
  BY <1>1
<1>3. \A i \in DOMAIN q : Fresh(fresh, q[i]) /\ Differ(q[i], m) /\ Differ(m, q[i])
                          /\ \A j \in DOMAIN q : i # j => Differ(q[i], q[j])
  BY DEF Apart, Differ, IsHello
<1>4. Fresh(fresh, m)
  BY DEF Apart, Fresh
<1>5. \A i \in DOMAIN r : i \in DOMAIN q \/ i = Len(q) + 1
  BY <1>2
<1>6. \A i \in DOMAIN r : Fresh(fresh, r[i]) /\ \A j \in DOMAIN r : i # j => Differ(r[i], r[j])
  BY <1>2, <1>3, <1>4, <1>5
<1> QED
  BY <1>1, <1>6 DEF Apart, Fresh, Differ, IsHello

\* ... when it is given up,
LEMMA ApartLeft ==
    ASSUME NEW fresh, NEW q \in Seq(Line), NEW t, NEW o, Apart(fresh, q, t, o),
           NEW t1, t1 = t \/ t1 = o \/ ~IsHello(t1)
    PROVE  Apart(fresh, q, t1, None)
BY DEF Apart, Fresh, Differ, IsHello

\* ... when the connection is reset and the rest is lost,
LEMMA ApartCut ==
    ASSUME NEW fresh, NEW q \in Seq(Line), NEW t, NEW o, Apart(fresh, q, t, o),
           NEW n \in 0..Len(q), NEW t1,
           \/ n < Len(q) /\ t1 = q[n + 1]
           \/ t1 = t \/ t1 = o \/ ~IsHello(t1)
    PROVE  Apart(fresh, SubSeq(q, 1, n), t1, None)
<1>1. PICK r : r = SubSeq(q, 1, n)
  OBVIOUS
<1>2. \A i \in DOMAIN r : i \in DOMAIN q /\ r[i] = q[i] /\ i # n + 1
  BY <1>1
<1>3. \A i \in DOMAIN r : Fresh(fresh, r[i]) /\ \A j \in DOMAIN r : i # j => Differ(r[i], r[j])
  BY <1>2 DEF Apart
<1>4. /\ Fresh(fresh, t1) /\ \A i \in DOMAIN r : Differ(r[i], t1)
  <2>1. CASE n < Len(q) /\ t1 = q[n + 1]
    <3>1. n + 1 \in DOMAIN q
      BY <2>1
    <3> QED
      BY <1>2, <2>1, <3>1 DEF Apart
  <2>2. CASE t1 = t \/ t1 = o \/ ~IsHello(t1)
    BY <1>2, <2>2 DEF Apart, Fresh, Differ
  <2> QED
    BY <2>1, <2>2
<1> QED
  BY <1>1, <1>3, <1>4 DEF Apart, Fresh, Differ, IsHello

\* ... and when a HELLO with a salt of its own is begun.
LEMMA ApartNew ==
    ASSUME NEW fresh, NEW q \in Seq(Line), NEW t, Apart(fresh, q, t, None),
           NEW o, IsHello(o), o.salt \notin fresh,
           NEW more, fresh \subseteq more, o.salt \in more
    PROVE  Apart(more, q, t, o)
BY DEF Apart, Fresh, Differ

\* The client uses a fresh salt only when it takes the HELLO that carries it.
LEMMA ClientUses ==
    ASSUME Inductive, Next, NEW salt \in FreshSalts
    PROVE  \/ salt \in FreshSalts'
           \/ /\ \E x \in Prefixes : ClientStepHello(x)
              /\ IsHello(NextLine(Client)) /\ salt = NextLine(Client).salt
<1>0. /\ TypeOK /\ RestInv /\ salt \in Salts /\ salt <= lastSalt /\ Unused(Client, salt)
  BY DEF Inductive, FreshSalts
<1>1. salt <= lastSalt'
  <2>1. lastSalt <= lastSalt'
    BY Effects DEF Effect
  <2>2. TypeOK'
    BY TypeStep
  <2> QED
    BY <1>0, <2>1, <2>2 DEF TypeOK, Salts
<1>2. ASSUME NEW d \in Endpoint, NEW k \in Salts, d # Client \/ k # salt,
             UNCHANGED sealed \/ \E v : sealed' = [sealed EXCEPT ![d][k] = v],
             UNCHANGED opened \/ \E v : opened' = [opened EXCEPT ![d][k] = v]
      PROVE  salt \in FreshSalts'
  <2>1. /\ sealed \in [Endpoint -> [Salts -> Seq(Sealed)]]
        /\ opened \in [Endpoint -> [Salts -> Seq(Sealed)]]
    BY <1>0 DEF TypeOK
  <2>2. ASSUME NEW h \in [Endpoint -> [Salts -> Seq(Sealed)]], NEW h1,
               h1 = h \/ \E v : h1 = [h EXCEPT ![d][k] = v]
        PROVE  h1[Client][salt] = h[Client][salt]
    <3>1. ASSUME NEW v, h1 = [h EXCEPT ![d][k] = v]
          PROVE  h1[Client][salt] = h[Client][salt]
      <4>1. PICK row : row = [h[d] EXCEPT ![k] = v]
        OBVIOUS
      <4>2. k # salt => row[salt] = h[d][salt]
        BY <1>0, <4>1
      <4>3. h1 = [h EXCEPT ![d] = row]
        BY <3>1, <4>1
      <4>4. Client \in Endpoint
        BY Endpoints
      <4>5. h1[Client] = IF d = Client THEN row ELSE h[Client]
        BY <4>3, <4>4
      <4> QED
        BY <1>2, <4>2, <4>5
    <3> QED
      BY <2>2, <3>1
  <2>3. sealed'[Client][salt] = sealed[Client][salt] /\ opened'[Client][salt] = opened[Client][salt]
    BY <1>2, <2>1, <2>2
  <2> QED
    BY <1>0, <1>1, <2>3 DEF FreshSalts, Unused
<1>3. ASSUME UNCHANGED history
      PROVE  salt \in FreshSalts'
  BY <1>0, <1>1, <1>3 DEF FreshSalts, Unused, history
<1>4. ASSUME NEW s, NEW n, InSync(Client, s, n)
      PROVE  s.key.salt # salt /\ s.key.salt \in Salts
  BY <1>0, <1>4 DEF InSync, Unused, Session, Key
<1>5. ASSUME NEW d \in Endpoint, session[d] # None, out[d] = None
      PROVE  session[d].key.salt \in Salts /\ (d # Client \/ session[d].key.salt # salt)
  <2>1. InSync(d, session[d], 0)
    BY <1>0, <1>5 DEF RestInv
  <2> QED
    BY <1>4, <2>1 DEF InSync, Session, Key
<1>6. ASSUME NEW x \in Prefixes, ClientStepHello(x)
      PROVE  \/ salt \in FreshSalts'
             \/ IsHello(NextLine(Client)) /\ salt = NextLine(Client).salt
  <2>1. TakeLine(Client) /\ UNCHANGED opened
    BY <1>6 DEF ClientStepHello
  <2>2. CASE NextLine(Client).type = "HELLO"
    <3>1. NextLine(Client).salt \in Salts /\ IsHello(NextLine(Client))
      BY <1>0, <2>1, <2>2, Taken, LineFields, Endpoints, NoneAssumption DEF IsHello
    <3>2. \E v : sealed' = [sealed EXCEPT ![Client][NextLine(Client).salt] = v]
      BY <1>6, <2>2 DEF ClientStepHello, NoteSealed, Seal
    <3> QED
      BY <1>2, <2>1, <2>2, <3>1, <3>2, Endpoints
  <2>3. CASE NextLine(Client).type # "HELLO"
    BY <1>3, <1>6, <2>1, <2>3 DEF ClientStepHello, history
  <2> QED
    BY <2>2, <2>3
<1>7. ASSUME ClientStepReady
      PROVE  salt \in FreshSalts'
  <2>1. PICK s : s = pending[Client].session
    OBVIOUS
  <2>2. SyncReadyWait(Client, pending[Client])
    BY <1>0, <1>7, WaitKinds, Endpoints DEF ClientStepReady, Free, RestInv, FreshKeyWait
  <2>3. s.key.salt # salt /\ s.key.salt \in Salts
    BY <1>4, <2>1, <2>2 DEF SyncReadyWait
  <2>4. UNCHANGED sealed /\ (UNCHANGED opened \/ \E v : opened' = [opened EXCEPT ![Client][s.key.salt] = v])
    BY <1>7, <2>1 DEF ClientStepReady, NoteOpened
  <2> QED
    BY <1>2, <2>3, <2>4, Endpoints
<1>8. ASSUME ServerStep
      PROVE  salt \in FreshSalts'
  <2>1. PICK k : k = pending[Server].salt
    OBVIOUS
  <2>2. k \in Salts
    BY <1>8, <2>1 DEF ServerStep, ClientKeyWait
  <2>3. /\ UNCHANGED sealed \/ \E v : sealed' = [sealed EXCEPT ![Server][k] = v]
        /\ UNCHANGED opened \/ \E v : opened' = [opened EXCEPT ![Server][k] = v]
    BY <1>8, <2>1 DEF ServerStep, NoteSealed, NoteOpened, Seal, history
  <2> QED
    BY <1>2, <2>2, <2>3, ConstantsAssumption, Endpoints
<1>9. ASSUME NEW d \in Endpoint, NEW t \in Texts, NEW b \in BOOLEAN, SendLine(d, t, b)
      PROVE  salt \in FreshSalts'
  <2>1. PICK k : k = session[d].key.salt
    OBVIOUS
  <2>2. k \in Salts /\ (d # Client \/ k # salt)
    BY <1>5, <1>9, <2>1 DEF SendLine, Free
  <2>3. UNCHANGED opened /\ (UNCHANGED sealed \/ \E v : sealed' = [sealed EXCEPT ![d][k] = v])
    BY <1>9, <2>1 DEF SendLine, NoteSealed, Seal
  <2> QED
    BY <1>2, <2>2, <2>3
<1>10. ASSUME NEW d \in Endpoint, ReceiveLine(d)
       PROVE  salt \in FreshSalts'
  <2>1. PICK k : k = session[d].key.salt
    OBVIOUS
  <2>2. k \in Salts /\ (d # Client \/ k # salt)
    BY <1>5, <1>10, <2>1 DEF ReceiveLine, Free
  <2>3. UNCHANGED sealed /\ (UNCHANGED opened \/ \E v : opened' = [opened EXCEPT ![d][k] = v])
    BY <1>10, <2>1 DEF ReceiveLine, NoteOpened
  <2> QED
    BY <1>2, <2>2, <2>3
<1>11. ASSUME NEW d \in Endpoint,
              \/ StepEnds(d) \/ Write(d) \/ WriteShort(d) \/ WriteTimesOut(d) \/ WriteFails(d)
              \/ ReceiveClosed(d) \/ Forget(d) \/ Close(d) \/ Crash(d) \/ Reset
              \/ \E w \in Passwords : BeginClient(w)
              \/ \E w \in Passwords, x \in Prefixes : BeginServer(w, x)
       PROVE  salt \in FreshSalts'
  <2>1. UNCHANGED history
    BY <1>11 DEF StepEnds, Write, HelloWritten, KeyWritten, ReadyWritten, LineWritten, WriteRest,
                 WriteShort, WriteTimesOut, WriteFails, GiveUp, ReceiveClosed, Forget, Close,
                 Crash, Reset, BeginClient, BeginServer
  <2> QED
    BY <1>3, <2>1
<1> QED
  BY <1>6, <1>7, <1>8, <1>9, <1>10, <1>11, Endpoints DEF Next, Step

\* HelloInv: by what the step does to what the server has on its way.
LEMMA HelloStep ==
    ASSUME Inductive, Next
    PROVE  HelloInv'
<1> USE Endpoints
<1>0. TypeOK /\ SaltsInv /\ HelloInv
  BY DEF Inductive
<1>1. PICK fresh, q, t, o : fresh = FreshSalts /\ q = lines[Server] /\ t = tail[Server] /\ o = Coming
  OBVIOUS
<1>2. PICK more, q1, t1, o1 :
        more = FreshSalts' /\ q1 = lines'[Server] /\ t1 = tail'[Server] /\ o1 = Coming'
  OBVIOUS
<1>3. q \in Seq(Line) /\ t \in Line \cup {None} /\ Apart(fresh, q, t, o)
  BY <1>0, <1>1 DEF TypeOK, HelloInv
<1>4. ~IsHello(None) /\ ~IsHello(Garbage)
  BY DEF IsHello, Garbage
<1>5. SUFFICES Apart(more, q1, t1, o1)
  BY <1>2 DEF HelloInv
<1>6. Peer(Client) = Server /\ Peer(Server) = Client /\ Client # Server
  BY ConstantsAssumption DEF Peer
<1>7. ASSUME TakeLine(Client), UNCHANGED reset, out'[Server] = out[Server],
             \A salt \in fresh : salt \in more \/ (IsHello(NextLine(Client)) /\ salt = NextLine(Client).salt)
      PROVE  Apart(more, q1, t1, o1)
  <2>1. o1 = o
    BY <1>1, <1>2, <1>7 DEF Coming
  <2>2. CASE q # <<>>
    <3>1. q1 = Tail(q) /\ t1 = t /\ NextLine(Client) = Head(q)
      BY <1>0, <1>1, <1>2, <1>6, <1>7, <2>2 DEF TakeLine, NextLine, TypeOK
    <3> QED
      BY <1>3, <1>7, <2>1, <2>2, <3>1, ApartTaken
  <2>3. CASE q = <<>>
    <3>1. q1 = <<>> /\ t1 = None /\ NextLine(Client) = t
      BY <1>0, <1>1, <1>2, <1>6, <1>7, <2>3 DEF TakeLine, NextLine, TypeOK
    <3>2. Apart(fresh, <<>>, t, o)
      BY <1>3, <2>3
    <3>3. \A salt \in fresh : salt \in more \/ (IsHello(t) /\ salt = t.salt)
      BY <1>7, <3>1
    <3> QED
      BY <2>1, <3>1, <3>2, <3>3, ApartLastTaken
  <2> QED
    BY <2>2, <2>3
<1>8. ASSUME NEW x \in Prefixes, ClientStepHello(x)
      PROVE  Apart(more, q1, t1, o1)
  <2>1. TakeLine(Client) /\ UNCHANGED reset
    BY <1>8 DEF ClientStepHello
  <2>2. out'[Server] = out[Server]
    BY <1>0, <1>6, <1>8, ClientStepStarts, StartsFrameOut
  <2>3. \A salt \in FreshSalts : \/ salt \in FreshSalts'
                                 \/ IsHello(NextLine(Client)) /\ salt = NextLine(Client).salt
    BY ClientUses
  <2> QED
    BY <1>1, <1>2, <1>7, <2>1, <2>2, <2>3
<1>9. CASE ~\E x \in Prefixes : ClientStepHello(x)
  <2>1. \A salt \in FreshSalts : salt \in FreshSalts'
    BY <1>9, ClientUses
  <2>2. fresh \subseteq more
    BY <1>1, <1>2, <2>1
  <2>3. ASSUME UNCHANGED <<lines[Server], tail[Server]>>, o1 = o \/ ~IsHello(o1)
        PROVE  Apart(more, q1, t1, o1)
    BY <1>1, <1>2, <1>3, <2>2, <2>3, ApartFewer
  <2>4. ASSUME UNCHANGED <<lines[Server], tail[Server], reset>>,
               out'[Server] = out[Server] \/ out'[Server] = None
                 \/ (out[Server] # None /\ out'[Server].line = out[Server].line)
                 \/ out'[Server].line.type # "HELLO"
        PROVE  Apart(more, q1, t1, o1)
    <3>1. o1 = o \/ ~IsHello(o1)
      BY <1>1, <1>2, <1>4, <2>4 DEF Coming, IsHello
    <3> QED
      BY <2>3, <2>4, <3>1
  <2>5. ASSUME NEW d \in Endpoint,
               StepEnds(d) \/ ReceiveClosed(d) \/ Forget(d) \/ Close(d) \/ \E w \in Passwords : BeginClient(w)
        PROVE  Apart(more, q1, t1, o1)
    BY <2>4, <2>5 DEF StepEnds, ReceiveClosed, Forget, Close, BeginClient, wireVars
  <2>6. ASSUME NEW d \in Endpoint, NEW text \in Texts, NEW b \in BOOLEAN, SendLine(d, text, b)
        PROVE  Apart(more, q1, t1, o1)
    <3>1. UNCHANGED <<lines, tail, reset>> /\ (StartsFrame(d) \/ UNCHANGED out)
      BY <1>0, <2>6, SendLineStarts DEF SendLine, wireVars
    <3>2. out'[Server] = out[Server] \/ out'[Server].line.type # "HELLO"
      BY <1>0, <3>1, StartsFrameOut
    <3> QED
      BY <2>4, <3>1, <3>2
  <2>7. ASSUME NEW d \in Endpoint, TakeLine(d), UNCHANGED reset,
               out'[Server] = out[Server] \/ (d = Server /\ out'[Server].line.type # "HELLO")
        PROVE  Apart(more, q1, t1, o1)
    <3>1. CASE d = Client
      <4>1. out'[Server] = out[Server]
        BY <1>6, <2>7, <3>1
      <4> QED
        BY <1>7, <2>2, <2>7, <3>1, <4>1
    <3>2. CASE d = Server
      <4>1. UNCHANGED <<lines[Server], tail[Server]>>
        BY <1>0, <1>6, <2>7, <3>2 DEF TakeLine, TypeOK
      <4> QED
        BY <2>4, <2>7, <4>1
    <3> QED
      BY <3>1, <3>2 DEF Endpoint
  <2>8. ASSUME NEW d \in Endpoint, ClientStepReady \/ ReceiveLine(d)
        PROVE  Apart(more, q1, t1, o1)
    BY <2>7, <2>8 DEF ClientStepReady, ReceiveLine
  <2>9. ASSUME ServerStep
        PROVE  Apart(more, q1, t1, o1)
    <3>1. TakeLine(Server) /\ UNCHANGED reset /\ (StartsFrame(Server) \/ UNCHANGED out)
      BY <1>0, <2>9, ServerStepStarts DEF ServerStep
    <3>2. out'[Server] = out[Server] \/ out'[Server].line.type # "HELLO"
      BY <1>0, <3>1, StartsFrameOut
    <3> QED
      BY <2>7, <3>1, <3>2
  <2>10. ASSUME NEW d \in Endpoint, NEW op, WriteRest(d, op)
         PROVE  Apart(more, q1, t1, o1)
    <3>1. CASE d # Server
      BY <1>0, <2>4, <2>10, <3>1 DEF WriteRest, TypeOK
    <3>2. CASE d = Server
      <4>1. PICK m : m = IF tail[Server] = None THEN out[Server].line ELSE Garbage
        OBVIOUS
      <4>2. m \in Line /\ (m = o \/ ~IsHello(m))
        <5>1. o = out[Server].line /\ out[Server] \in Writing
          BY <1>0, <1>1, <2>10, <3>2 DEF WriteRest, Writable, Coming, TypeOK
        <5> QED
          BY <1>4, <4>1, <5>1, GarbageType DEF Writing
      <4>3. q1 = Append(q, m) /\ t1 = None /\ o1 = None
        BY <1>0, <1>1, <1>2, <2>10, <3>2, <4>1 DEF WriteRest, Coming, TypeOK
      <4>4. Apart(fresh, Append(q, m), None, None) /\ Append(q, m) \in Seq(Line)
        BY <1>3, <4>2, ApartWritten
      <4> QED
        BY <2>2, <4>3, <4>4, ApartFewer
    <3> QED
      BY <3>1, <3>2
  <2>11. ASSUME NEW d \in Endpoint, Write(d)
         PROVE  Apart(more, q1, t1, o1)
    BY <2>10, <2>11 DEF Write, HelloWritten, KeyWritten, ReadyWritten, LineWritten
  <2>12. ASSUME NEW d \in Endpoint, WriteShort(d)
         PROVE  Apart(more, q1, t1, o1)
    <3>1. UNCHANGED <<lines, tail, reset>> /\ out[d] # None /\ out[d] \in Writing
      BY <1>0, <2>12 DEF WriteShort, wireVars, Writable, TypeOK
    <3>2. out'[Server] = out[Server] \/ (out[Server] # None /\ out'[Server].line = out[Server].line)
      BY <1>0, <2>12, <3>1 DEF WriteShort, TypeOK, Writing
    <3> QED
      BY <2>4, <3>1, <3>2
  <2>13. ASSUME NEW d \in Endpoint, WriteTimesOut(d) \/ WriteFails(d) \/ Crash(d)
         PROVE  Apart(more, q1, t1, o1)
    <3>1. /\ out' = [out EXCEPT ![d] = None] /\ UNCHANGED <<lines, reset>>
          /\ tail' = [tail EXCEPT ![d] = IF reset THEN @ ELSE Left(d)]
      BY <2>13 DEF WriteTimesOut, WriteFails, Crash, GiveUp
    <3>2. CASE d # Server
      BY <1>0, <2>4, <3>1, <3>2 DEF TypeOK
    <3>3. CASE d = Server
      <4>1. q1 = q /\ o1 = None /\ t1 = IF reset THEN t ELSE Left(Server)
        BY <1>0, <1>1, <1>2, <3>1, <3>3 DEF Coming, TypeOK
      <4>2. t1 = t \/ t1 = o \/ ~IsHello(t1)
        BY <1>1, <1>4, <4>1 DEF Left, Coming
      <4>3. Apart(fresh, q, t1, None)
        BY <1>3, <4>2, ApartLeft
      <4> QED
        BY <1>3, <2>2, <4>1, <4>3, ApartFewer
    <3> QED
      BY <3>2, <3>3
  <2>14. ASSUME NEW w \in Passwords, NEW x \in Prefixes, BeginServer(w, x)
         PROVE  Apart(more, q1, t1, o1)
    <3>1. PICK hello, next : /\ hello = [type |-> "HELLO", salt |-> lastSalt', prefix |-> x]
                             /\ next = [phase |-> "WaitClientKey", password |-> w,
                                        salt |-> lastSalt', prefix |-> x]
      OBVIOUS
    <3>2. /\ lastSalt' = lastSalt + 1 /\ lastSalt' \in Salts /\ lastSalt' > lastSalt
          /\ lastSalt' \notin FreshSalts
      BY <1>0, <2>14, ConstantsAssumption DEF BeginServer, TypeOK, Salts, FreshSalts
    <3>3. /\ hello \in Line /\ next \in PendingHandshake \cup Session \cup {None}
          /\ hello.type = "HELLO" /\ hello.salt = lastSalt'
      BY <3>1, <3>2, HelloType DEF ClientKeyWait, PendingHandshake
    <3>4. StartWriting(Server, "HELLO", hello, next, TRUE) /\ UNCHANGED <<lines, tail, reset, history>>
      BY <2>14, <3>1 DEF BeginServer, wireVars
    <3>5. out[Server] = None
      BY <2>14 DEF BeginServer, Free
    <3>6. out'[Server] # None /\ out'[Server].line = hello
      <4>1. StartWriting(Server, "HELLO", hello, next, TRUE)
        BY <3>4
      <4> QED
        BY <1>0, <3>3, <4>1, StartedSome
    <3>7. o = None /\ (o1 = hello \/ o1 = None)
      BY <1>1, <1>2, <3>5, <3>6 DEF Coming
    <3>8. lastSalt' \in more
      <4>1. Unused(Client, lastSalt') /\ UNCHANGED <<sealed, opened>>
        BY <1>0, <3>2, <3>4 DEF SaltsInv, history
      <4>2. lastSalt' <= lastSalt'
        BY <3>2 DEF Salts
      <4> QED
        BY <1>2, <3>2, <4>1, <4>2 DEF FreshSalts, Unused
    <3>9. CASE o1 = hello
      <4>1. IsHello(hello) /\ hello.salt \notin fresh /\ hello.salt \in more
        BY <1>1, <3>2, <3>3, <3>8, NoneAssumption DEF IsHello
      <4>2. q1 = q /\ t1 = t
        BY <1>1, <1>2, <3>4
      <4> QED
        BY <1>3, <2>2, <3>7, <3>9, <4>1, <4>2, ApartNew
    <3>10. CASE o1 = None
      BY <1>4, <2>3, <3>4, <3>10
    <3> QED
      BY <3>7, <3>9, <3>10
  <2>15. ASSUME Reset
         PROVE  Apart(more, q1, t1, o1)
    <3>1. o1 = None
      BY <1>2, <2>15 DEF Reset, Coming
    <3>2. PICK n \in 0..Len(lines[Server]) :
            lines'[Server] = SubSeq(lines[Server], 1, n) /\ tail'[Server] \in Remains(Server, n)
      BY <1>6, <2>15 DEF Reset
    <3>3. \/ n < Len(q) /\ t1 = q[n + 1]
          \/ t1 = t \/ t1 = o \/ ~IsHello(t1)
      BY <1>1, <1>2, <1>4, <2>15, <3>2 DEF Remains, Left, Coming, Reset
    <3>4. Apart(fresh, SubSeq(q, 1, n), t1, None) /\ SubSeq(q, 1, n) \in Seq(Line)
      BY <1>1, <1>3, <3>2, <3>3, ApartCut
    <3> QED
      BY <1>1, <1>2, <2>2, <3>1, <3>2, <3>4, ApartFewer
  <2>16. ASSUME NEW d \in Endpoint, Step(d)
         PROVE  Apart(more, q1, t1, o1)
    BY <1>9, <2>5, <2>8, <2>9, <2>16 DEF Step
  <2> QED
    BY <2>5, <2>6, <2>8, <2>11, <2>12, <2>13, <2>14, <2>15, <2>16 DEF Next
<1> QED
  BY <1>8, <1>9

\* The inductive invariant holds initially.
LEMMA InductiveInit ==
    ASSUME Init
    PROVE  Inductive
<1>1. TypeOK
  <2>1. /\ pending \in [Endpoint -> PendingHandshake \cup {None}]
        /\ session \in [Endpoint -> Session \cup {None}]
        /\ out \in [Endpoint -> Writing \cup {None}]
        /\ tail \in [Endpoint -> Line \cup {None}]
    BY DEF Init
  <2>2. lines \in [Endpoint -> Seq(Line)] /\ open \in [Endpoint -> BOOLEAN]
    BY DEF Init
  <2>3. reset \in BOOLEAN /\ lastSalt \in 0..MaxSalts
    <3>1. reset \in BOOLEAN
      BY DEF Init
    <3>2. lastSalt = 0
      BY DEF Init
    <3>3. lastSalt \in 0..MaxSalts
      BY <3>2, ConstantsAssumption
    <3> QED
      BY <3>1, <3>3
  <2>4. /\ sealed \in [Endpoint -> [Salts -> Seq(Sealed)]]
        /\ opened \in [Endpoint -> [Salts -> Seq(Sealed)]]
    <3> DEFINE h == [s \in Salts |-> <<>>]
    <3>1. h \in [Salts -> Seq(Sealed)]
      OBVIOUS
    <3>2. sealed = [e \in Endpoint |-> h] /\ opened = [e \in Endpoint |-> h]
      BY DEF Init
    <3> HIDE DEF h
    <3> QED
      BY <3>1, <3>2
  <2> QED
    BY <2>1, <2>2, <2>3, <2>4 DEF TypeOK
<1>2. SaltsInv /\ RestInv /\ CallInv
  BY <1>1 DEF Init, SaltsInv, RestInv, CallInv, Unused
<1>3. WireInv
  BY DEF Init, WireInv, Genuine
<1>4. HelloInv
  BY Endpoints DEF Init, HelloInv, Apart, Fresh, Differ, IsHello, Coming
<1>5. NonceNeverReused /\ OpenedInOrder
  BY Endpoints DEF Init, NonceNeverReused, OpenedInOrder
<1> QED
  BY <1>1, <1>2, <1>3, <1>4, <1>5 DEF Inductive

\* Every step preserves the invariant, which is why the theorems below hold:
\* the counters of a session count its frames, also across failed sends and
\* repeated handshakes (begin_*, step_*, send_line, receive_line, send_all).
THEOREM InductiveCorrect == Spec => []Inductive
<1>1. ASSUME Inductive, [Next]_vars
      PROVE  Inductive'
  <2>1. CASE Next
    BY <1>1, <2>1, TypeStep, LocalStep, HistoryStep, WireInvStep, HelloStep DEF Inductive
  <2>2. CASE UNCHANGED vars
    <3>1. UNCHANGED <<pending, session, out, lines, tail, open, reset, lastSalt, sealed, opened>>
      BY <2>2 DEF vars
    <3>2. TypeOK' /\ NonceNeverReused' /\ OpenedInOrder'
      BY <1>1, <3>1 DEF Inductive, TypeOK, NonceNeverReused, OpenedInOrder
    <3>3. SaltsInv' /\ RestInv' /\ CallInv'
      BY <1>1, <3>1 DEF Inductive, SaltsInv, RestInv, CallInv, Unused, InSync, FreshKeyWait,
                        SyncReadyWait
    <3>4. WireInv'
      BY <1>1, <3>1 DEF Inductive, WireInv, Genuine
    <3>5. HelloInv'
      <4>1. FreshSalts' = FreshSalts /\ Coming' = Coming
        BY <3>1 DEF FreshSalts, Coming, Unused
      <4> QED
        BY <1>1, <3>1, <4>1 DEF Inductive, HelloInv
    <3> QED
      BY <3>2, <3>3, <3>4, <3>5 DEF Inductive
  <2> QED
    BY <1>1, <2>1, <2>2
<1> QED
  BY <1>1, InductiveInit, PTL DEF Spec

\* Every variable keeps its type: no counter of a session leaves its range, and
\* what is on the wire or being written is a line.
THEOREM TypeCorrect == Spec => []TypeOK
<1>1. Inductive => TypeOK
  BY DEF Inductive
<1> QED
  BY <1>1, InductiveCorrect, PTL

\* Under one salt an endpoint seals with each counter once, whatever sends fail
\* or time out and however many handshakes follow (seal_at, send_line).
THEOREM NoncesAreUnique == Spec => []NonceNeverReused
<1>1. Inductive => NonceNeverReused
  BY DEF Inductive
<1> QED
  BY <1>1, InductiveCorrect, PTL

\* What an endpoint opened is a prefix of what its peer sealed (open).
THEOREM FramesOpenInOrder == Spec => []OpenedInOrder
<1>1. Inductive => OpenedInOrder
  BY DEF Inductive
<1> QED
  BY <1>1, InductiveCorrect, PTL

-----------------------------------------------------------------------------
(* The five steps that seal or open *)

\* e's next frame under salt s is f, and e opens it.
OpensFrame(e, s, f) ==
    LET n == Len(opened[e][s]) + 1
    IN /\ n <= Len(sealed[Peer(e)][s]) /\ sealed[Peer(e)][s][n] = f
       /\ opened' = [opened EXCEPT ![e][s] = Append(@, f)]

\* The client takes the HELLO of salt s, seals its proof f, and starts to write
\* line; next is the handshake it will wait in.
Proves(s, f, line, next) ==
    /\ out[Client] = None /\ session[Client] = None /\ pending[Client] \in ServerHelloWait
    /\ TakeLine(Client) /\ Announces(Server, NextLine(Client), s)
    /\ Unused(Client, s) /\ Unused(Server, s)
    /\ f.key.salt = s /\ f.text = "AUTH" /\ NoteSealed(Client, f)
    /\ next \in ServerReadyWait /\ next.session.key = f.key /\ next.session.receiveCounter = 0
    /\ line # Garbage /\ StartWriting(Client, "KEY", line, next, TRUE)
    /\ UNCHANGED <<channelVars, reset, lastSalt, opened>>

\* The server opens the client's proof f, seals its own, r, and starts to write
\* line; s1 is the session it will have.
Answers(s, f, r, line, s1) ==
    /\ out[Server] = None /\ session[Server] = None
    /\ pending[Server] \in ClientKeyWait /\ pending[Server].salt = s
    /\ TakeLine(Server) /\ Announces(Client, NextLine(Server), s)
    /\ Unused(Server, s) /\ f.text = "AUTH" /\ OpensFrame(Server, s, f)
    /\ r.key = f.key /\ r.key.salt = s /\ r.text = "READY" /\ NoteSealed(Server, r)
    /\ s1 \in Session /\ s1.key = f.key /\ s1.receiveCounter > 0
    /\ line # Garbage /\ StartWriting(Server, "READY", line, s1, TRUE)
    /\ UNCHANGED <<channelVars, reset, lastSalt>>

\* The client opens the server's proof f and has a session, s1.
Accepts(s, f, s1) ==
    /\ out[Client] = None
    /\ pending[Client] \in ServerReadyWait /\ pending[Client].session.key.salt = s
    /\ TakeLine(Client)
    /\ opened[Client][s] = <<>> /\ f.text = "READY" /\ OpensFrame(Client, s, f)
    /\ s1 \in Session /\ s1.key = pending[Client].session.key /\ s1.receiveCounter > 0
    /\ Promote(Client, s1)
    /\ UNCHANGED <<out, reset, lastSalt, sealed>>

\* e seals f, a text of the application, and starts to write line.
Says(e, s, f, line, deadline) ==
    /\ out[e] = None /\ session[e] # None /\ pending[e] = None
    /\ sealed[e][s] # <<>> /\ opened[e][s] # <<>>
    /\ f.key = session[e].key /\ f.key.salt = s /\ f.text \in Texts /\ NoteSealed(e, f)
    /\ line # Garbage /\ StartWriting(e, "LINE", line, None, deadline)
    /\ UNCHANGED <<channelVars, lines, tail, reset, lastSalt, opened>>

\* e opens f in its session, which is then s1.
Hears(e, s, f, s1) ==
    /\ out[e] = None /\ session[e] # None /\ pending[e] = None
    /\ TakeLine(e)
    /\ opened[e][s] # <<>> /\ OpensFrame(e, s, f)
    /\ s1.key = session[e].key /\ s1.receiveCounter > 0
    /\ session' = [session EXCEPT ![e] = s1]
    /\ UNCHANGED <<pending, out, reset, lastSalt, sealed>>

\* A frame that a session opens is the one its peer sealed next.
LEMMA FrameOpened ==
    ASSUME TypeOK, NEW e \in Endpoint, NEW s \in Session, NEW line \in Line,
           Genuine(Peer(e), line), line.type \in {"KEY", "FRAME"},
           Opens(s, e, line.sealed), s.receiveCounter = Len(opened[e][s.key.salt]),
           NoteOpened(e, s, line.sealed)
    PROVE  OpensFrame(e, s.key.salt, line.sealed)
<1>1. line.sealed.key = s.key /\ line.sealed.counter = Len(opened[e][s.key.salt])
  BY DEF Opens, Authentic
<1>2. line # None
  BY NoneAssumption
<1>3. s.key.salt \in Salts
  BY DEF Session, Key
<1>4. Len(opened[e][s.key.salt]) \in Nat /\ Len(sealed[Peer(e)][s.key.salt]) \in Nat
  <2>1. PICK d \in Endpoint, r \in Salts : d = Peer(e) /\ r = s.key.salt
    BY <1>3, Endpoints
  <2>2. opened[e] \in [Salts -> Seq(Sealed)] /\ sealed[d] \in [Salts -> Seq(Sealed)]
    BY DEF TypeOK
  <2>3. opened[e][r] \in Seq(Sealed) /\ sealed[d][r] \in Seq(Sealed)
    BY <2>2
  <2> QED
    BY <2>1, <2>3
<1> QED
  BY <1>1, <1>2, <1>4 DEF OpensFrame, Genuine, NoteOpened

\* step_client_handshake on HELLO proves,
LEMMA ClientProves ==
    ASSUME Trusted, NEW x \in Prefixes, ClientStepHello(x), NextLine(Client).type = "HELLO"
    PROVE  \E s \in Salts, f \in Sealed, line \in Line,
              next \in PendingHandshake \cup Session \cup {None} : Proves(s, f, line, next)
<1> USE Endpoints
<1>0. /\ TypeOK /\ HelloInv /\ OpenedInOrder /\ ProofsAnswered
      /\ TakeLine(Client) /\ out[Client] = None /\ pending[Client] \in ServerHelloWait
      /\ Local(Client)
  BY LocalInv DEF Trusted, Inductive, ClientStepHello, Free
<1> DEFINE hello == NextLine(Client)
<1>1. hello \in Line /\ hello.salt \in Salts /\ hello.prefix \in Prefixes /\ hello # None
  BY <1>0, Taken, LineFields, NoneAssumption
<1>2. Unused(Client, hello.salt)
  BY <1>0, TakenHello
<1>3. Unused(Server, hello.salt)
  <2>1. opened[Server][hello.salt] = <<>>
    <3>1. Len(opened[Server][hello.salt]) <= Len(sealed[Client][hello.salt])
      BY <1>0, <1>1 DEF OpenedInOrder, Peer
    <3>2. opened[Server][hello.salt] \in Seq(Sealed)
      BY <1>0, <1>1 DEF TypeOK
    <3> QED
      BY <1>2, <3>1, <3>2 DEF Unused
  <2> QED
    BY <1>0, <1>1, <2>1 DEF Unused, ProofsAnswered
<1>4. PICK s : s = [key |-> [password |-> pending[Client].password, salt |-> hello.salt],
                    sendPrefix |-> x, receivePrefix |-> hello.prefix,
                    sendCounter |-> 0, receiveCounter |-> 0]
  OBVIOUS
<1>5. PICK f, s1 : f = Seal(s, Client, "AUTH", 0) /\ s1 = [s EXCEPT !.sendCounter = 1]
  OBVIOUS
<1>6. PICK line, next : /\ line = [type |-> "KEY", prefix |-> x, sealed |-> f]
                        /\ next = [phase |-> "WaitServerReady", session |-> s1]
  OBVIOUS
<1>7. s \in Session /\ s1 \in Session /\ s1.key = s.key /\ s1.receiveCounter = 0
      /\ s.key.salt = hello.salt
  <2>1. pending[Client].password \in Passwords
    BY DEF ClientStepHello, ServerHelloWait
  <2> QED
    BY <1>1, <1>4, <1>5, <2>1, ConstantsAssumption DEF Session, Key
<1>8. f \in Sealed /\ f.key = s.key /\ f.text = "AUTH"
  BY <1>5, <1>7, SealType, ConstantsAssumption DEF Plaintext, Seal
<1>9. line \in Line /\ line # Garbage
  BY <1>6, <1>8, KeyType DEF Garbage
<1>10. /\ next \in ServerReadyWait /\ next.session = s1
       /\ next \in PendingHandshake \cup Session \cup {None}
  BY <1>6, <1>7 DEF ServerReadyWait, PendingHandshake
<1>11. /\ NoteSealed(Client, f) /\ StartWriting(Client, "KEY", line, next, TRUE)
       /\ UNCHANGED <<channelVars, reset, lastSalt, opened>>
  BY <1>4, <1>5, <1>6 DEF ClientStepHello
<1>12. session[Client] = None
  BY <1>0, NoneAssumption DEF ClientStepHello, Local, Rest, PendingHandshake
<1>13. Announces(Server, hello, hello.salt)
  BY <1>1 DEF Announces
<1>14. Proves(hello.salt, f, line, next)
  BY <1>0, <1>2, <1>3, <1>7, <1>8, <1>9, <1>10, <1>11, <1>12, <1>13 DEF Proves
<1> QED
  BY <1>1, <1>8, <1>9, <1>10, <1>14

\* ... step_server_handshake on a proof answers,
LEMMA ServerAnswers ==
    ASSUME Trusted, ServerStep
    PROVE  \/ \E s \in Salts, f, r \in Sealed, line \in Line, s1 \in Session :
                Answers(s, f, r, line, s1)
           \/ Clear(Server) /\ UNCHANGED <<out, history>>
<1> USE Endpoints
<1>0. /\ TypeOK /\ WireInv
      /\ TakeLine(Server) /\ out[Server] = None /\ pending[Server] \in ClientKeyWait
      /\ Local(Server)
  BY LocalInv DEF Trusted, Inductive, ServerStep, Free
<1>1. PICK key, p, s : /\ key = NextLine(Server) /\ p = pending[Server]
                       /\ s = [key |-> [password |-> p.password, salt |-> p.salt],
                               sendPrefix |-> p.prefix, receivePrefix |-> key.prefix,
                               sendCounter |-> 0, receiveCounter |-> 0]
  OBVIOUS
<1>2. PICK r, s1, f : /\ r = Seal(s, Server, "READY", s.sendCounter)
                      /\ s1 = [s EXCEPT !.receiveCounter = @ + 1]
                      /\ f = key.sealed
  OBVIOUS
<1>3. PICK line : line = [type |-> "FRAME", sealed |-> r]
  OBVIOUS
<1>4. /\ UNCHANGED <<reset, lastSalt>>
      /\ \/ /\ key.type = "KEY" /\ Opens(s, Server, f) /\ f.text = "AUTH"
            /\ NoteOpened(Server, s, f) /\ NoteSealed(Server, r)
            /\ StartWriting(Server, "READY", line, s1, TRUE)
            /\ UNCHANGED channelVars
         \/ Clear(Server) /\ UNCHANGED <<out, history>>
  BY <1>1, <1>2, <1>3 DEF ServerStep
<1>5. key \in Line /\ Genuine(Client, key) /\ key # None
  BY <1>0, <1>1, TakenGenuine, NoneAssumption DEF Peer
<1>6. /\ p.password \in Passwords /\ p.salt \in Salts /\ p.prefix \in Prefixes
      /\ Unused(Server, p.salt) /\ session[Server] = None
  <2>1. p \in ClientKeyWait /\ Rest(Server)
    BY <1>0, <1>1 DEF Local
  <2>2. FreshKeyWait(Server, p)
    BY <1>1, <2>1, WaitKinds DEF Rest, SyncReadyWait
  <2> QED
    BY <1>1, <2>1, <2>2, WaitKinds DEF Rest, FreshKeyWait, ClientKeyWait
<1>7. CASE /\ key.type = "KEY" /\ Opens(s, Server, f) /\ f.text = "AUTH"
           /\ NoteOpened(Server, s, f) /\ NoteSealed(Server, r)
           /\ StartWriting(Server, "READY", line, s1, TRUE)
           /\ UNCHANGED channelVars
  <2>1. f \in Sealed /\ key.prefix \in Prefixes
    BY <1>2, <1>5, <1>7, LineFields
  <2>2. /\ s \in Session /\ s.key.salt = p.salt /\ s.sendCounter = 0 /\ s.receiveCounter = 0
    BY <1>1, <1>6, <2>1, ConstantsAssumption DEF Session, Key
  <2>3. /\ s1 \in Session /\ s1.key = s.key /\ s1.receiveCounter = 1
    BY <1>2, <1>7, <2>2, OpenType DEF Session
  <2>4. r \in Sealed /\ r.key = s.key /\ r.text = "READY"
    BY <1>2, <2>2, SealType, ConstantsAssumption DEF Plaintext, Seal
  <2>5. line \in Line /\ line # Garbage
    BY <1>3, <2>4, FrameType DEF Garbage
  <2>6. f.key = s.key
    BY <1>7 DEF Opens, Authentic
  <2>7. OpensFrame(Server, p.salt, f)
    <3>1. s.receiveCounter = Len(opened[Server][s.key.salt])
      BY <1>6, <2>2 DEF Unused
    <3> QED
      BY <1>0, <1>2, <1>5, <1>7, <2>2, <3>1, FrameOpened DEF Peer
  <2>8. Announces(Client, key, p.salt)
    BY <1>2, <1>5, <1>7, <2>2, <2>6 DEF Announces
  <2>9. Answers(p.salt, f, r, line, s1)
    <3>1. /\ UNCHANGED <<channelVars, reset, lastSalt>>
          /\ NoteSealed(Server, r) /\ StartWriting(Server, "READY", line, s1, TRUE)
          /\ f.text = "AUTH"
      BY <1>4, <1>7
    <3>2. /\ TakeLine(Server) /\ Announces(Client, NextLine(Server), p.salt)
          /\ out[Server] = None /\ session[Server] = None
          /\ pending[Server] \in ClientKeyWait /\ pending[Server].salt = p.salt
      BY <1>0, <1>1, <1>6, <2>8
    <3>3. /\ r.key = f.key /\ r.key.salt = p.salt /\ s1.key = f.key /\ s1.receiveCounter > 0
      BY <2>2, <2>3, <2>4, <2>6
    <3> QED
      BY <1>6, <2>3, <2>4, <2>5, <2>7, <3>1, <3>2, <3>3 DEF Answers
  <2> QED
    BY <1>6, <2>1, <2>3, <2>4, <2>5, <2>9
<1> QED
  BY <1>4, <1>7

\* ... step_client_handshake on the answer accepts,
LEMMA ClientAccepts ==
    ASSUME Trusted, ClientStepReady
    PROVE  \/ \E s \in Salts, f \in Sealed, s1 \in Session : Accepts(s, f, s1)
           \/ Clear(Client) /\ UNCHANGED opened
<1> USE Endpoints
<1>0. /\ TypeOK /\ WireInv /\ KeysInv
      /\ TakeLine(Client) /\ out[Client] = None /\ pending[Client] \in ServerReadyWait
      /\ Local(Client) /\ UNCHANGED <<out, reset, lastSalt, sealed>>
  BY LocalInv DEF Trusted, Inductive, ClientStepReady, Free
<1>1. PICK ready, s, f : /\ ready = NextLine(Client) /\ s = pending[Client].session
                         /\ f = ready.sealed
  OBVIOUS
<1>2. PICK s1 : s1 = [s EXCEPT !.receiveCounter = @ + 1]
  OBVIOUS
<1>3. \/ /\ ready.type = "FRAME" /\ Opens(s, Client, f) /\ f.text = "READY"
         /\ Promote(Client, s1) /\ NoteOpened(Client, s, f)
      \/ Clear(Client) /\ UNCHANGED opened
  BY <1>1, <1>2 DEF ClientStepReady
<1>4. ready \in Line /\ Genuine(Server, ready)
  BY <1>0, <1>1, TakenGenuine DEF Peer
<1>5. InSync(Client, s, 0) /\ s.receiveCounter = 0
  <2>1. SyncReadyWait(Client, pending[Client])
    BY <1>0, WaitKinds DEF Local, Rest, FreshKeyWait
  <2> QED
    BY <1>0, <1>1, <2>1 DEF SyncReadyWait, KeysInv, Proving
<1>6. s \in Session /\ s.key.salt \in Salts /\ opened[Client][s.key.salt] = <<>>
  <2>1. s \in Session /\ s.key.salt \in Salts /\ Len(opened[Client][s.key.salt]) = 0
    BY <1>5 DEF InSync, Session, Key
  <2>2. opened[Client][s.key.salt] \in Seq(Sealed)
    BY <1>0, <2>1 DEF TypeOK
  <2> QED
    BY <2>1, <2>2
<1>7. CASE /\ ready.type = "FRAME" /\ Opens(s, Client, f) /\ f.text = "READY"
           /\ Promote(Client, s1) /\ NoteOpened(Client, s, f)
  <2>1. f \in Sealed
    BY <1>1, <1>4, <1>7, LineFields
  <2>2. s1 \in Session /\ s1.key = s.key /\ s1.receiveCounter = 1
    BY <1>2, <1>5, <1>6, <1>7, OpenType DEF Session
  <2>3. OpensFrame(Client, s.key.salt, f)
    BY <1>0, <1>1, <1>4, <1>5, <1>6, <1>7, FrameOpened DEF InSync, Peer
  <2>4. Accepts(s.key.salt, f, s1)
    BY <1>0, <1>1, <1>6, <1>7, <2>2, <2>3 DEF Accepts
  <2> QED
    BY <1>6, <2>1, <2>2, <2>4
<1> QED
  BY <1>3, <1>7

\* ... send_line says,
LEMMA SendSays ==
    ASSUME Trusted, NEW e \in Endpoint, NEW t \in Texts, NEW d \in BOOLEAN, SendLine(e, t, d)
    PROVE  \/ \E s \in Salts, f \in Sealed, line \in Line : Says(e, s, f, line, d)
           \/ Clear(e) /\ UNCHANGED <<out, sealed>>
<1>0. /\ TypeOK /\ KeysInv /\ out[e] = None /\ session[e] # None /\ Local(e)
      /\ UNCHANGED <<lines, tail, reset, lastSalt, opened>>
  BY LocalInv DEF Trusted, Inductive, SendLine, Free, wireVars
<1>1. PICK s, f : s = session[e] /\ f = Seal(s, e, t, s.sendCounter)
  OBVIOUS
<1>2. PICK line : line = [type |-> "FRAME", sealed |-> f]
  OBVIOUS
<1>3. \/ /\ NoteSealed(e, f) /\ StartWriting(e, "LINE", line, None, d)
         /\ UNCHANGED channelVars
      \/ Clear(e) /\ UNCHANGED <<out, sealed>>
  BY <1>1, <1>2 DEF SendLine
<1>4. /\ s \in Session /\ s.key.salt \in Salts /\ s.sendCounter \in 0..MaxCounter
      /\ sealed[e][s.key.salt] # <<>> /\ opened[e][s.key.salt] # <<>> /\ pending[e] = None
  <2>1. InSync(e, s, 0) /\ s.receiveCounter > 0 /\ pending[e] = None
    BY <1>0, <1>1 DEF Local, Rest, KeysInv, Proved
  <2>2. s \in Session /\ s.key.salt \in Salts /\ s.sendCounter \in 0..MaxCounter
    BY <2>1 DEF InSync, Session, Key
  <2>3. opened[e][s.key.salt] \in Seq(Sealed) /\ Len(opened[e][s.key.salt]) > 0
    BY <1>0, <2>1, <2>2 DEF InSync, TypeOK
  <2> QED
    BY <2>1, <2>2, <2>3 DEF InSync
<1>5. f \in Sealed /\ f.key = s.key /\ f.text = t
  BY <1>1, <1>4, SealType DEF Plaintext, Seal
<1>6. line \in Line /\ line # Garbage
  BY <1>2, <1>5, FrameType DEF Garbage
<1>7. ASSUME NoteSealed(e, f), StartWriting(e, "LINE", line, None, d), UNCHANGED channelVars
      PROVE  Says(e, s.key.salt, f, line, d)
  BY <1>0, <1>1, <1>4, <1>5, <1>6, <1>7 DEF Says
<1> QED
  BY <1>3, <1>4, <1>5, <1>6, <1>7

\* ... and receive_line hears.
LEMMA ReceiveHears ==
    ASSUME Trusted, NEW e \in Endpoint, ReceiveLine(e)
    PROVE  \/ \E s \in Salts, f \in Sealed, s1 \in Session : Hears(e, s, f, s1)
           \/ Clear(e) /\ UNCHANGED opened
<1>0. /\ TypeOK /\ WireInv /\ KeysInv
      /\ TakeLine(e) /\ out[e] = None /\ session[e] # None
      /\ Local(e) /\ UNCHANGED <<out, reset, lastSalt, sealed>>
  BY LocalInv DEF Trusted, Inductive, ReceiveLine, Free
<1>1. PICK line, s, f : line = NextLine(e) /\ s = session[e] /\ f = line.sealed
  OBVIOUS
<1>2. PICK s1 : s1 = [s EXCEPT !.receiveCounter = @ + 1]
  OBVIOUS
<1>3. \/ /\ line.type = "FRAME" /\ Opens(s, e, f)
         /\ session' = [session EXCEPT ![e] = s1] /\ NoteOpened(e, s, f) /\ UNCHANGED pending
      \/ Clear(e) /\ UNCHANGED opened
  BY <1>0, <1>1, <1>2 DEF ReceiveLine, TypeOK
<1>4. line \in Line /\ Genuine(Peer(e), line)
  BY <1>0, <1>1, TakenGenuine
<1>5. InSync(e, s, 0) /\ s.receiveCounter > 0 /\ pending[e] = None
  BY <1>0, <1>1 DEF Local, Rest, KeysInv, Proved
<1>6. s \in Session /\ s.key.salt \in Salts /\ opened[e][s.key.salt] # <<>>
  <2>1. s \in Session /\ s.key.salt \in Salts /\ Len(opened[e][s.key.salt]) > 0
    BY <1>5 DEF InSync, Session, Key
  <2>2. opened[e][s.key.salt] \in Seq(Sealed)
    BY <1>0, <2>1 DEF TypeOK
  <2> QED
    BY <2>1, <2>2
<1>7. CASE /\ line.type = "FRAME" /\ Opens(s, e, f)
           /\ session' = [session EXCEPT ![e] = s1] /\ NoteOpened(e, s, f) /\ UNCHANGED pending
  <2>1. f \in Sealed
    BY <1>1, <1>4, <1>7, LineFields
  <2>2. s1 \in Session /\ s1.key = s.key /\ s1.receiveCounter = s.receiveCounter + 1
    BY <1>2, <1>6, <1>7, OpenType DEF Session
  <2>3. s1.receiveCounter > 0
    BY <1>5, <1>6, <2>2 DEF Session
  <2>4. OpensFrame(e, s.key.salt, f)
    BY <1>0, <1>1, <1>4, <1>5, <1>6, <1>7, FrameOpened DEF InSync
  <2>5. Hears(e, s.key.salt, f, s1)
    BY <1>0, <1>1, <1>5, <1>6, <1>7, <2>2, <2>3, <2>4 DEF Hears
  <2> QED
    BY <1>6, <2>1, <2>2, <2>5
<1> QED
  BY <1>3, <1>7

\* A step that seals or opens.
Event ==
    \/ \E s \in Salts, f \in Sealed, line \in Line,
          next \in PendingHandshake \cup Session \cup {None} : Proves(s, f, line, next)
    \/ \E s \in Salts, f, r \in Sealed, line \in Line, s1 \in Session : Answers(s, f, r, line, s1)
    \/ \E s \in Salts, f \in Sealed, s1 \in Session : Accepts(s, f, s1)
    \/ \E e \in Endpoint, s \in Salts, f \in Sealed, line \in Line, d \in BOOLEAN :
          Says(e, s, f, line, d)
    \/ \E e \in Endpoint, s \in Salts, f \in Sealed, s1 \in Session : Hears(e, s, f, s1)

\* A step that clears an endpoint's session or handshake and reads, writes and
\* seals nothing.
Quiet(e) ==
    \/ \E w \in Passwords : e = Client /\ BeginClient(w)
    \/ StepEnds(e) \/ ReceiveClosed(e) \/ Forget(e) \/ Close(e)

\* The endpoint reads a line that ends its session or handshake.
Refuses(e) == out[e] = None /\ TakeLine(e) /\ Clear(e) /\ UNCHANGED <<out, reset, lastSalt, history>>

\* send_line with an exhausted counter.
Refrains(e) ==
    out[e] = None /\ Clear(e) /\ UNCHANGED <<out, lines, tail, reset, lastSalt, history>>

\* Each step seals or opens, or is one that does not.
LEMMA Steps ==
    ASSUME Trusted, Next
    PROVE  \/ Event \/ Reset
           \/ \E w \in Passwords, x \in Prefixes : BeginServer(w, x)
           \/ \E e \in Endpoint :
                \/ Quiet(e) \/ Refuses(e) \/ Refrains(e) \/ Write(e) \/ WriteShort(e)
                \/ WriteTimesOut(e) \/ WriteFails(e) \/ Crash(e)
<1> USE Endpoints
<1>1. ASSUME NEW x \in Prefixes, ClientStepHello(x)
      PROVE  Event \/ Refuses(Client)
  <2>1. CASE NextLine(Client).type = "HELLO"
    BY <1>1, <2>1, ClientProves DEF Event
  <2>2. CASE NextLine(Client).type # "HELLO"
    BY <1>1, <2>2 DEF ClientStepHello, Refuses, Free, history
  <2> QED
    BY <2>1, <2>2
<1>2. ASSUME ClientStepReady
      PROVE  Event \/ Refuses(Client)
  <2>1. CASE \E s \in Salts, f \in Sealed, s1 \in Session : Accepts(s, f, s1)
    BY <2>1 DEF Event
  <2>2. CASE Clear(Client) /\ UNCHANGED opened
    BY <1>2, <2>2 DEF ClientStepReady, Refuses, Free, history
  <2> QED
    BY <1>2, <2>1, <2>2, ClientAccepts
<1>3. ASSUME ServerStep
      PROVE  Event \/ Refuses(Server)
  <2>1. CASE \E s \in Salts, f, r \in Sealed, line \in Line, s1 \in Session :
               Answers(s, f, r, line, s1)
    BY <2>1 DEF Event
  <2>2. CASE Clear(Server) /\ UNCHANGED <<out, history>>
    BY <1>3, <2>2 DEF ServerStep, Refuses, Free, history
  <2> QED
    BY <1>3, <2>1, <2>2, ServerAnswers
<1>4. ASSUME NEW e \in Endpoint, NEW t \in Texts, NEW d \in BOOLEAN, SendLine(e, t, d)
      PROVE  Event \/ Refrains(e)
  <2>1. CASE \E s \in Salts, f \in Sealed, line \in Line : Says(e, s, f, line, d)
    BY <2>1 DEF Event
  <2>2. CASE Clear(e) /\ UNCHANGED <<out, sealed>>
    BY <1>4, <2>2 DEF SendLine, Refrains, Free, history, wireVars
  <2> QED
    BY <1>4, <2>1, <2>2, SendSays
<1>5. ASSUME NEW e \in Endpoint, ReceiveLine(e)
      PROVE  Event \/ Refuses(e)
  <2>1. CASE \E s \in Salts, f \in Sealed, s1 \in Session : Hears(e, s, f, s1)
    BY <2>1 DEF Event
  <2>2. CASE Clear(e) /\ UNCHANGED opened
    BY <1>5, <2>2 DEF ReceiveLine, Refuses, Free, history
  <2> QED
    BY <1>5, <2>1, <2>2, ReceiveHears
<1>6. ASSUME NEW e \in Endpoint, StepEnds(e) \/ ReceiveClosed(e) \/ Forget(e) \/ Close(e)
      PROVE  Quiet(e)
  BY <1>6 DEF Quiet
<1>7. ASSUME NEW w \in Passwords, BeginClient(w)
      PROVE  Quiet(Client)
  BY <1>7 DEF Quiet
<1>8. ASSUME NEW e \in Endpoint, Step(e)
      PROVE  Event \/ \E d \in Endpoint : Quiet(d) \/ Refuses(d)
  BY <1>1, <1>2, <1>3, <1>6, <1>8 DEF Step
<1>9. CASE \E w \in Passwords : BeginClient(w)
  BY <1>7, <1>9
<1>10. CASE Reset \/ \E w \in Passwords, x \in Prefixes : BeginServer(w, x)
  BY <1>10
<1>11. ASSUME NEW e \in Endpoint,
              \/ Step(e)
              \/ Write(e) \/ WriteShort(e) \/ WriteTimesOut(e) \/ WriteFails(e)
              \/ \E t \in Texts, d \in BOOLEAN : SendLine(e, t, d)
              \/ ReceiveLine(e) \/ ReceiveClosed(e)
              \/ Forget(e) \/ Close(e) \/ Crash(e)
       PROVE  \/ Event
              \/ \E d \in Endpoint :
                   \/ Quiet(d) \/ Refuses(d) \/ Refrains(d) \/ Write(d) \/ WriteShort(d)
                   \/ WriteTimesOut(d) \/ WriteFails(d) \/ Crash(d)
  BY <1>4, <1>5, <1>6, <1>8, <1>11
<1> QED
  BY <1>9, <1>10, <1>11 DEF Next

\* Only the steps that seal or open change the histories.
LEMMA Events ==
    ASSUME Trusted, Next
    PROVE  Event \/ UNCHANGED history
<1>1. ASSUME NEW e \in Endpoint, Quiet(e) \/ Write(e) \/ WriteShort(e)
      PROVE  UNCHANGED history
  BY <1>1 DEF Quiet, BeginClient, StepEnds, ReceiveClosed, Forget, Close, Write, HelloWritten,
              KeyWritten, ReadyWritten, LineWritten, WriteRest, WriteShort
<1>2. ASSUME NEW e \in Endpoint, Refuses(e) \/ Refrains(e) \/ WriteTimesOut(e)
                                  \/ WriteFails(e) \/ Crash(e)
      PROVE  UNCHANGED history
  BY <1>2 DEF Refuses, Refrains, WriteTimesOut, WriteFails, GiveUp, Crash
<1>3. CASE Reset \/ \E w \in Passwords, x \in Prefixes : BeginServer(w, x)
  BY <1>3 DEF Reset, BeginServer
<1> QED
  BY <1>1, <1>2, <1>3, Steps

-----------------------------------------------------------------------------
(* The frames sealed and opened under a salt *)

\* e has one more frame sealed under its salt.
LEMMA SealedMore ==
    ASSUME TypeOK, NEW e \in Endpoint, NEW f \in Sealed, NoteSealed(e, f)
    PROVE  /\ f.key.salt \in Salts
           /\ sealed'[e][f.key.salt] = Append(sealed[e][f.key.salt], f)
           /\ sealed'[e][f.key.salt] # <<>>
           /\ \A d \in Endpoint, s \in Salts :
                d # e \/ s # f.key.salt => sealed'[d][s] = sealed[d][s]
           /\ \A d \in Endpoint, s \in Salts : \A g :
                g \in Range(sealed'[d][s])
                  => g \in Range(sealed[d][s]) \/ (s = f.key.salt /\ g = f)
<1>1. f.key.salt \in Salts
  BY DEF Sealed, Key
<1>2. PICK q, q1 : q \in Seq(Sealed) /\ q = sealed[e][f.key.salt] /\ q1 = Append(q, f)
  BY <1>1 DEF TypeOK
<1>3. sealed'[e][f.key.salt] = q1
  BY <1>1, <1>2 DEF TypeOK, NoteSealed
<1>4. \A d \in Endpoint, s \in Salts : d # e \/ s # f.key.salt => sealed'[d][s] = sealed[d][s]
  BY <1>1 DEF TypeOK, NoteSealed
<1>5. q1 # <<>> /\ \A i \in DOMAIN q1 : q1[i] = f \/ (i \in DOMAIN q /\ q1[i] = q[i])
  BY <1>2
<1>6. \A g \in Range(q1) : g = f \/ g \in Range(q)
  BY <1>5 DEF Range
<1> QED
  BY <1>1, <1>2, <1>3, <1>4, <1>5, <1>6

\* e has one more frame opened.
LEMMA OpenedMore ==
    ASSUME TypeOK, NEW e \in Endpoint, NEW s \in Salts, NEW f \in Sealed, OpensFrame(e, s, f)
    PROVE  /\ opened'[e][s] = Append(opened[e][s], f)
           /\ opened'[e][s] # <<>>
           /\ \A d \in Endpoint, r \in Salts : d # e \/ r # s => opened'[d][r] = opened[d][r]
           /\ f \in Range(sealed[Peer(e)][s])
           /\ sealed[Peer(e)][s] # <<>>
<1>1. PICK q \in Seq(Sealed), p \in Seq(Sealed) : q = opened[e][s] /\ p = sealed[Peer(e)][s]
  BY Endpoints DEF TypeOK
<1>2. opened'[e][s] = Append(q, f) /\ Append(q, f) # <<>>
  <2>1. opened' = [opened EXCEPT ![e][s] = Append(q, f)]
    BY <1>1 DEF OpensFrame
  <2>2. opened'[e][s] = Append(q, f)
    BY <2>1 DEF TypeOK
  <2>3. Append(q, f) # <<>>
    BY AppendFacts
  <2> QED
    BY <2>2, <2>3
<1>3. \A d \in Endpoint, r \in Salts : d # e \/ r # s => opened'[d][r] = opened[d][r]
  BY DEF TypeOK, OpensFrame
<1>4. Len(q) + 1 \in DOMAIN p /\ p[Len(q) + 1] = f
  BY <1>1 DEF OpensFrame
<1>5. f \in Range(p) /\ p # <<>>
  BY <1>4 DEF Range
<1> QED
  BY <1>1, <1>2, <1>3, <1>5

\* The parts of Trusted that speak of the frames sealed.
Frames == SaltHasOneKey /\ ProofsAnswered /\ ProofsFirst

\* A frame whose key is that of all the frames of its salt keeps SaltHasOneKey.
LEMMA OneKeyKept ==
    ASSUME TypeOK, SaltHasOneKey, NEW e \in Endpoint, NEW f \in Sealed, NoteSealed(e, f),
           \A d \in Endpoint : \A g \in Range(sealed[d][f.key.salt]) : g.key = f.key
    PROVE  SaltHasOneKey'
<1>1. \A d \in Endpoint, s \in Salts : \A g :
        g \in Range(sealed'[d][s])
          => g \in Range(sealed[d][s]) \/ (s = f.key.salt /\ g = f)
  BY SealedMore
<1>2. ASSUME NEW s \in Salts, NEW c \in Endpoint, NEW d \in Endpoint,
             NEW g \in Range(sealed'[c][s]), NEW h \in Range(sealed'[d][s])
      PROVE  g.key = h.key
  <2>1. /\ g \in Range(sealed[c][s]) \/ (s = f.key.salt /\ g = f)
        /\ h \in Range(sealed[d][s]) \/ (s = f.key.salt /\ h = f)
    BY <1>1
  <2> QED
    BY <2>1 DEF SaltHasOneKey
<1> QED
  BY <1>2 DEF SaltHasOneKey

\* A frame keeps ProofsFirst if it is the first of its salt or carries a text of
\* the application.
LEMMA FirstKept ==
    ASSUME TypeOK, ProofsFirst, NEW e \in Endpoint, NEW f \in Sealed, NoteSealed(e, f),
           sealed[e][f.key.salt] = <<>> \/ f.text \in Texts
    PROVE  ProofsFirst'
<1>1. ASSUME NEW d \in Endpoint, NEW s \in Salts, NEW i \in DOMAIN sealed'[d][s], i > 1
      PROVE  sealed'[d][s][i].text \in Texts
  <2>1. CASE d # e \/ s # f.key.salt
    <3>1. sealed'[d][s] = sealed[d][s]
      BY <2>1, SealedMore
    <3> QED
      BY <1>1, <3>1 DEF ProofsFirst
  <2>2. CASE d = e /\ s = f.key.salt
    <3>1. PICK q, q1 : q \in Seq(Sealed) /\ q = sealed[e][s] /\ q1 = Append(q, f)
      BY <2>2 DEF TypeOK
    <3>2. sealed'[d][s] = q1
      BY <2>2, <3>1, SealedMore
    <3>3. \/ i \in DOMAIN q /\ q1[i] = q[i]
          \/ i = Len(q) + 1 /\ q1[i] = f
      BY <3>1, <3>2
    <3>4. q # <<>> => f.text \in Texts
      BY <2>2, <3>1
    <3>5. i \in DOMAIN q => q[i].text \in Texts
      BY <1>1, <2>2, <3>1 DEF ProofsFirst
    <3>6. i = Len(q) + 1 => q # <<>>
      BY <1>1, <3>1
    <3> QED
      BY <3>2, <3>3, <3>4, <3>5, <3>6
  <2> QED
    BY <2>1, <2>2
<1> QED
  BY <1>1 DEF ProofsFirst

\* Frames: each of the five steps keeps it.
LEMMA FramesStep ==
    ASSUME Trusted, Next
    PROVE  Frames'
<1> USE Endpoints
<1>0. /\ TypeOK /\ SaltHasOneKey /\ ProofsAnswered /\ ProofsFirst /\ KeysInv
  BY DEF Trusted, Inductive
<1>1. ASSUME UNCHANGED sealed,
             UNCHANGED opened \/ \E e \in Endpoint, s \in Salts, f \in Sealed : OpensFrame(e, s, f)
      PROVE  Frames'
  <2>1. SaltHasOneKey' /\ ProofsFirst'
    BY <1>0, <1>1 DEF SaltHasOneKey, ProofsFirst
  <2>2. ASSUME NEW e \in Endpoint, NEW s \in Salts, NEW f \in Sealed, OpensFrame(e, s, f),
               NEW r \in Salts, opened[Server][r] # <<>>
        PROVE  opened'[Server][r] # <<>>
    BY <1>0, <2>2, OpenedMore
  <2>3. ProofsAnswered'
    BY <1>0, <1>1, <2>2 DEF ProofsAnswered
  <2> QED
    BY <2>1, <2>3 DEF Frames
<1>2. ASSUME NEW s \in Salts, NEW f \in Sealed, NEW line \in Line,
             NEW next \in PendingHandshake \cup Session \cup {None}, Proves(s, f, line, next)
      PROVE  Frames'
  <2>1. /\ NoteSealed(Client, f) /\ f.key.salt = s /\ UNCHANGED opened
        /\ sealed[Client][s] = <<>> /\ sealed[Server][s] = <<>>
    BY <1>2 DEF Proves, Unused
  <2>2. \A d \in Endpoint : Range(sealed[d][s]) = {}
    BY <2>1 DEF Endpoint, Range
  <2>3. SaltHasOneKey' /\ ProofsFirst'
    BY <1>0, <2>1, <2>2, OneKeyKept, FirstKept
  <2>4. \A r \in Salts : sealed'[Server][r] = sealed[Server][r]
    BY <1>0, <2>1, SealedMore
  <2> QED
    BY <1>0, <2>1, <2>3, <2>4 DEF Frames, ProofsAnswered
<1>3. ASSUME NEW s \in Salts, NEW f \in Sealed, NEW r \in Sealed, NEW line \in Line,
             NEW s1 \in Session, Answers(s, f, r, line, s1)
      PROVE  Frames'
  <2>1. /\ NoteSealed(Server, r) /\ OpensFrame(Server, s, f) /\ r.key = f.key /\ r.key.salt = s
        /\ sealed[Server][s] = <<>>
    BY <1>3 DEF Answers, Unused
  <2>2. f \in Range(sealed[Client][s])
    BY <1>0, <2>1, OpenedMore DEF Peer
  <2>3. \A d \in Endpoint : \A g \in Range(sealed[d][s]) : g.key = r.key
    BY <1>0, <2>1, <2>2 DEF SaltHasOneKey
  <2>4. SaltHasOneKey' /\ ProofsFirst'
    BY <1>0, <2>1, <2>3, OneKeyKept, FirstKept
  <2>5. \A t \in Salts : /\ t # s => sealed'[Server][t] = sealed[Server][t]
                         /\ t # s => opened'[Server][t] = opened[Server][t]
    BY <1>0, <2>1, SealedMore, OpenedMore
  <2>6. opened'[Server][s] # <<>>
    BY <1>0, <2>1, OpenedMore
  <2> QED
    BY <1>0, <2>4, <2>5, <2>6 DEF Frames, ProofsAnswered
<1>4. ASSUME NEW e \in Endpoint, NEW s \in Salts, NEW f \in Sealed, NEW line \in Line,
             NEW d \in BOOLEAN, Says(e, s, f, line, d)
      PROVE  Frames'
  <2>1. /\ NoteSealed(e, f) /\ f.key = session[e].key /\ f.key.salt = s /\ f.text \in Texts
        /\ sealed[e][s] # <<>> /\ opened[e][s] # <<>> /\ session[e] # None /\ UNCHANGED opened
    BY <1>4 DEF Says
  <2>2. Keyed(e, session[e])
    BY <1>0, <2>1 DEF KeysInv, Proved
  <2>3. PICK q \in Seq(Sealed) : q = sealed[e][s]
    BY <1>0 DEF TypeOK
  <2>4. q[1] \in Range(sealed[e][s])
    <3>1. 1 \in DOMAIN q
      BY <2>1, <2>3
    <3> QED
      BY <2>3, <3>1 DEF Range
  <2>5. q[1].key = f.key
    BY <2>1, <2>2, <2>4 DEF Keyed
  <2>6. \A c \in Endpoint : \A g \in Range(sealed[c][s]) : g.key = f.key
    BY <1>0, <2>4, <2>5 DEF SaltHasOneKey
  <2>7. SaltHasOneKey' /\ ProofsFirst'
    BY <1>0, <2>1, <2>6, OneKeyKept, FirstKept
  <2>8. \A t \in Salts : sealed'[Server][t] # <<>> => opened[Server][t] # <<>>
    <3>1. \A t \in Salts : e # Server \/ t # s => sealed'[Server][t] = sealed[Server][t]
      BY <1>0, <2>1, SealedMore
    <3> QED
      BY <1>0, <2>1, <3>1 DEF ProofsAnswered
  <2> QED
    BY <2>1, <2>7, <2>8 DEF Frames, ProofsAnswered
<1>5. CASE \E s \in Salts, f \in Sealed, s1 \in Session : Accepts(s, f, s1)
  BY <1>1, <1>5 DEF Accepts
<1>6. CASE \E e \in Endpoint, s \in Salts, f \in Sealed, s1 \in Session : Hears(e, s, f, s1)
  BY <1>1, <1>6 DEF Hears
<1>7. CASE UNCHANGED history
  BY <1>1, <1>7 DEF history
<1> QED
  BY <1>2, <1>3, <1>4, <1>5, <1>6, <1>7, Events DEF Event

-----------------------------------------------------------------------------
(* The refinement *)

\* The texts of a sequence of frames.
TextsIn(q) == [i \in DOMAIN q |-> q[i].text]

\* They are as many as the frames, and one more when a frame is added.
LEMMA TextsInFacts ==
    ASSUME NEW q \in Seq(Sealed)
    PROVE  /\ TextsIn(q) \in Seq(Plaintext) /\ Len(TextsIn(q)) = Len(q)
           /\ TextsIn(q) = <<>> <=> q = <<>>
           /\ \A i \in 1..Len(q) : TextsIn(q)[i] = q[i].text
           /\ \A f \in Sealed : TextsIn(Append(q, f)) = Append(TextsIn(q), f.text)
<1>1. \A i \in 1..Len(q) : q[i].text \in Plaintext
  <2>1. \A f \in Sealed : f.text \in Plaintext
    BY DEF Sealed
  <2> QED
    BY <2>1
<1>2. PICK t : t = TextsIn(q)
  OBVIOUS
<1>3. t \in Seq(Plaintext) /\ Len(t) = Len(q) /\ \A i \in 1..Len(q) : t[i] = q[i].text
  BY <1>1, <1>2 DEF TextsIn
<1>4. t = <<>> <=> q = <<>>
  BY <1>3
<1>5. ASSUME NEW f \in Sealed
      PROVE  TextsIn(Append(q, f)) = Append(t, f.text)
  <2>1. f.text \in Plaintext
    BY DEF Sealed
  <2>2. PICK q1, t1 : q1 = Append(q, f) /\ t1 = Append(t, f.text)
    OBVIOUS
  <2>3. /\ q1 \in Seq(Sealed) /\ DOMAIN q1 = 1..Len(q) + 1
        /\ \A i \in 1..Len(q) + 1 : q1[i] = IF i = Len(q) + 1 THEN f ELSE q[i]
    BY <2>2
  <2>4. /\ t1 \in Seq(Plaintext) /\ DOMAIN t1 = 1..Len(q) + 1
        /\ \A i \in 1..Len(q) + 1 : t1[i] = IF i = Len(q) + 1 THEN f.text ELSE t[i]
    BY <1>3, <2>1, <2>2
  <2>5. PICK n : n = Len(q) + 1
    OBVIOUS
  <2>6. \A i \in 1..n : t1[i] = q1[i].text
    BY <1>3, <2>3, <2>4, <2>5
  <2>7. t1 = [i \in 1..n |-> t1[i]]
    BY <2>4, <2>5
  <2>8. t1 = [i \in DOMAIN q1 |-> q1[i].text]
    BY <2>3, <2>5, <2>6, <2>7
  <2> QED
    BY <2>2, <2>8 DEF TextsIn
<1> QED
  BY <1>2, <1>3, <1>4, <1>5

\* The texts of a history,
LEMMA TextsOfFacts ==
    ASSUME NEW h \in [Endpoint -> [Salts -> Seq(Sealed)]]
    PROVE  \A e \in Endpoint, s \in Salts : TextsOf(h)[e][s] = TextsIn(h[e][s])
BY DEF TextsOf, TextsIn

\* h with x added under the salt s of e.
Extended(h, e, s, x) == [h EXCEPT ![e][s] = Append(@, x)]

\* ... and of a history with one more frame.
LEMMA TextsOfMore ==
    ASSUME NEW h \in [Endpoint -> [Salts -> Seq(Sealed)]],
           NEW e \in Endpoint, NEW s \in Salts, NEW f \in Sealed,
           NEW h1, h1[e][s] = Append(h[e][s], f),
           \A d \in Endpoint, r \in Salts : d # e \/ r # s => h1[d][r] = h[d][r]
    PROVE  TextsOf(h1) = Extended(TextsOf(h), e, s, f.text)
<1>1. PICK t, t1 : t = TextsOf(h) /\ t1 = [t EXCEPT ![e][s] = Append(@, f.text)]
  OBVIOUS
<1>2. /\ t = [d \in Endpoint |-> [r \in Salts |-> TextsIn(h[d][r])]]
      /\ TextsOf(h1) = [d \in Endpoint |-> [r \in Salts |-> TextsIn(h1[d][r])]]
  BY <1>1 DEF TextsOf, TextsIn
<1>3. \A d \in Endpoint, r \in Salts :
        h1[d][r] = IF d = e /\ r = s THEN Append(h[d][r], f) ELSE h[d][r]
  OBVIOUS
<1>4. TextsIn(Append(h[e][s], f)) = Append(TextsIn(h[e][s]), f.text)
  BY TextsInFacts
<1>5. \A d \in Endpoint, r \in Salts :
        TextsIn(h1[d][r]) = IF d = e /\ r = s THEN Append(TextsIn(h[d][r]), f.text)
                                              ELSE TextsIn(h[d][r])
  BY <1>3, <1>4
<1>6. PICK row : row = [t[e] EXCEPT ![s] = Append(t[e][s], f.text)]
  OBVIOUS
<1>7. t1 = [t EXCEPT ![e] = row]
  BY <1>1, <1>6
<1>8. row = [r \in Salts |-> TextsIn(h1[e][r])]
  <2>1. t[e] = [r \in Salts |-> TextsIn(h[e][r])]
    BY <1>2
  <2>2. \A r \in Salts : row[r] = TextsIn(h1[e][r])
    BY <1>5, <1>6, <2>1
  <2> QED
    BY <1>6, <2>1, <2>2
<1>9. \A d \in Endpoint \ {e} : t[d] = [r \in Salts |-> TextsIn(h1[d][r])]
  <2>1. ASSUME NEW d \in Endpoint \ {e}
        PROVE  t[d] = [r \in Salts |-> TextsIn(h1[d][r])]
    <3>1. t[d] = [r \in Salts |-> TextsIn(h[d][r])]
      BY <1>2
    <3>2. \A r \in Salts : TextsIn(h1[d][r]) = TextsIn(h[d][r])
      BY <1>5
    <3> QED
      BY <3>1, <3>2
  <2> QED
    BY <2>1
<1>10. t1 = TextsOf(h1)
  <2>1. t1 = [d \in Endpoint |-> IF d = e THEN row ELSE t[d]]
    BY <1>2, <1>7
  <2>2. \A d \in Endpoint : (IF d = e THEN row ELSE t[d]) = [r \in Salts |-> TextsIn(h1[d][r])]
    BY <1>8, <1>9
  <2> QED
    BY <1>2, <2>1, <2>2
<1> QED
  BY <1>1, <1>10 DEF Extended

\* A frame sealed is a text posted,
LEMMA Posts ==
    ASSUME TypeOK, NEW e \in Endpoint, NEW f \in Sealed, NoteSealed(e, f)
    PROVE  TextsOf(sealed)' = [TextsOf(sealed) EXCEPT ![e][f.key.salt] = Append(@, f.text)]
<1>1. PICK s \in Salts : s = f.key.salt
  BY DEF Sealed, Key
<1>2. sealed \in [Endpoint -> [Salts -> Seq(Sealed)]]
  BY DEF TypeOK
<1>3. /\ sealed'[e][s] = Append(sealed[e][s], f)
      /\ \A d \in Endpoint, r \in Salts : d # e \/ r # s => sealed'[d][r] = sealed[d][r]
  BY <1>1, SealedMore
<1>4. TextsOf(sealed') = Extended(TextsOf(sealed), e, s, f.text)
  BY <1>2, <1>3, TextsOfMore, Zenon
<1> QED
  BY <1>1, <1>4 DEF Extended

\* ... and a frame opened is the next text accepted.
LEMMA AcceptsNext ==
    ASSUME TypeOK, NEW e \in Endpoint, NEW f \in Sealed, NEW s \in Salts, OpensFrame(e, s, f)
    PROVE  /\ TextsOf(opened)' = [TextsOf(opened) EXCEPT ![e][s] = Append(@, f.text)]
           /\ Link!Awaits(e, s, f.text)
<1>1. /\ sealed \in [Endpoint -> [Salts -> Seq(Sealed)]]
      /\ opened \in [Endpoint -> [Salts -> Seq(Sealed)]]
      /\ Peer(e) \in Endpoint /\ Peer(e) = Link!Other(e)
  BY Endpoints DEF TypeOK, Peer, Link!Other
<1>2. opened' = [opened EXCEPT ![e][s] = Append(@, f)]
  BY DEF OpensFrame
<1>3. TextsOf(opened') = Extended(TextsOf(opened), e, s, f.text)
  <2>1. /\ opened'[e][s] = Append(opened[e][s], f)
        /\ \A d \in Endpoint, r \in Salts : d # e \/ r # s => opened'[d][r] = opened[d][r]
    BY <1>1, <1>2
  <2> QED
    BY <1>1, <2>1, TextsOfMore
<1>4. PICK q, p : /\ q \in Seq(Sealed) /\ q = opened[e][s]
                  /\ p \in Seq(Sealed) /\ p = sealed[Peer(e)][s]
  BY <1>1
<1>5. Len(q) + 1 <= Len(p) /\ p[Len(q) + 1] = f
  BY <1>4 DEF OpensFrame
<1>6. TextsOf(opened)[e][s] = TextsIn(q) /\ TextsOf(sealed)[Peer(e)][s] = TextsIn(p)
  <2>1. /\ \A d \in Endpoint, r \in Salts : TextsOf(opened)[d][r] = TextsIn(opened[d][r])
        /\ \A d \in Endpoint, r \in Salts : TextsOf(sealed)[d][r] = TextsIn(sealed[d][r])
    BY <1>1, TextsOfFacts, Zenon
  <2> QED
    BY <1>1, <1>4, <2>1
<1>7. Len(TextsIn(q)) = Len(q) /\ Len(TextsIn(p)) = Len(p)
      /\ TextsIn(p)[Len(q) + 1] = f.text
  <2>1. Len(TextsIn(q)) = Len(q)
    BY <1>4, TextsInFacts
  <2>2. Len(TextsIn(p)) = Len(p) /\ \A i \in 1..Len(p) : TextsIn(p)[i] = p[i].text
    BY <1>4, TextsInFacts
  <2>3. Len(q) + 1 \in 1..Len(p)
    BY <1>4, <1>5
  <2> QED
    BY <1>5, <2>1, <2>2, <2>3
<1>8. Link!Awaits(e, s, f.text)
  BY <1>1, <1>5, <1>6, <1>7 DEF Link!Awaits
<1> QED
  BY <1>3, <1>8 DEF Extended

\* A history is empty under a salt exactly when its texts are.
LEMMA TextsEmpty ==
    ASSUME TypeOK, NEW e \in Endpoint, NEW s \in Salts
    PROVE  /\ TextsOf(sealed)[e][s] = <<>> <=> sealed[e][s] = <<>>
           /\ TextsOf(opened)[e][s] = <<>> <=> opened[e][s] = <<>>
<1>1. sealed[e][s] \in Seq(Sealed) /\ opened[e][s] \in Seq(Sealed)
  BY DEF TypeOK
<1>2. /\ sealed \in [Endpoint -> [Salts -> Seq(Sealed)]]
      /\ opened \in [Endpoint -> [Salts -> Seq(Sealed)]]
  BY DEF TypeOK
<1>3. TextsOf(sealed)[e][s] = TextsIn(sealed[e][s])
  BY <1>2, TextsOfFacts
<1>4. TextsOf(opened)[e][s] = TextsIn(opened[e][s])
  BY <1>2, TextsOfFacts
<1> QED
  BY <1>1, <1>3, <1>4, TextsInFacts

\* Each of the five steps is a step of the abstract specification.
LEMMA LinkStep ==
    ASSUME Trusted, Event
    PROVE  Link!Next
<1> USE Endpoints
<1>0. /\ TypeOK /\ ProofsFirst
  BY DEF Trusted, Inductive
<1>1. ASSUME NEW s \in Salts, NEW f \in Sealed, NEW line \in Line,
             NEW next \in PendingHandshake \cup Session \cup {None}, Proves(s, f, line, next)
      PROVE  Link!ClientProves(s)
  <2>1. /\ NoteSealed(Client, f) /\ f.key.salt = s /\ f.text = "AUTH" /\ UNCHANGED opened
        /\ sealed[Client][s] = <<>>
    BY <1>1 DEF Proves, Unused
  <2>2. TextsOf(sealed)' = [TextsOf(sealed) EXCEPT ![Client][s] = Append(@, "AUTH")]
    BY <1>0, <2>1, Posts
  <2>3. TextsOf(sealed)[Client][s] = <<>>
    BY <1>0, <2>1, TextsEmpty
  <2> QED
    BY <2>1, <2>2, <2>3 DEF Link!ClientProves, Link!Post
<1>2. ASSUME NEW s \in Salts, NEW f \in Sealed, NEW r \in Sealed, NEW line \in Line,
             NEW s1 \in Session, Answers(s, f, r, line, s1)
      PROVE  Link!ServerAnswers(s)
  <2>1. /\ NoteSealed(Server, r) /\ r.key.salt = s /\ r.text = "READY"
        /\ OpensFrame(Server, s, f) /\ f.text = "AUTH" /\ opened[Server][s] = <<>>
    BY <1>2 DEF Answers, Unused
  <2>2. TextsOf(sealed)' = [TextsOf(sealed) EXCEPT ![Server][s] = Append(@, "READY")]
    BY <1>0, <2>1, Posts
  <2>3. /\ TextsOf(opened)' = [TextsOf(opened) EXCEPT ![Server][s] = Append(@, "AUTH")]
        /\ Link!Awaits(Server, s, "AUTH")
    BY <1>0, <2>1, AcceptsNext
  <2>4. TextsOf(opened)[Server][s] = <<>>
    BY <1>0, <2>1, TextsEmpty
  <2> QED
    BY <2>2, <2>3, <2>4 DEF Link!ServerAnswers, Link!Post, Link!Accept
<1>3. ASSUME NEW s \in Salts, NEW f \in Sealed, NEW s1 \in Session, Accepts(s, f, s1)
      PROVE  Link!ClientAccepts(s)
  <2>1. OpensFrame(Client, s, f) /\ f.text = "READY" /\ opened[Client][s] = <<>> /\ UNCHANGED sealed
    BY <1>3 DEF Accepts
  <2>2. /\ TextsOf(opened)' = [TextsOf(opened) EXCEPT ![Client][s] = Append(@, "READY")]
        /\ Link!Awaits(Client, s, "READY")
    BY <1>0, <2>1, AcceptsNext
  <2>3. TextsOf(opened)[Client][s] = <<>>
    BY <1>0, <2>1, TextsEmpty
  <2> QED
    BY <2>1, <2>2, <2>3 DEF Link!ClientAccepts, Link!Accept
<1>4. ASSUME NEW e \in Endpoint, NEW s \in Salts, NEW f \in Sealed, NEW line \in Line,
             NEW d \in BOOLEAN, Says(e, s, f, line, d)
      PROVE  f.text \in Texts /\ Link!Says(e, s, f.text)
  <2>1. /\ NoteSealed(e, f) /\ f.key.salt = s /\ f.text \in Texts /\ opened[e][s] # <<>>
        /\ UNCHANGED opened
    BY <1>4 DEF Says
  <2>2. TextsOf(sealed)' = [TextsOf(sealed) EXCEPT ![e][s] = Append(@, f.text)]
    BY <1>0, <2>1, Posts
  <2>3. TextsOf(opened)[e][s] # <<>>
    BY <1>0, <2>1, TextsEmpty
  <2> QED
    BY <2>1, <2>2, <2>3 DEF Link!Says, Link!Post
<1>5. ASSUME NEW e \in Endpoint, NEW s \in Salts, NEW f \in Sealed, NEW s1 \in Session,
             Hears(e, s, f, s1)
      PROVE  f.text \in Texts /\ Link!Hears(e, s, f.text)
  <2>1. OpensFrame(e, s, f) /\ opened[e][s] # <<>> /\ UNCHANGED sealed
    BY <1>5 DEF Hears
  <2>2. /\ TextsOf(opened)' = [TextsOf(opened) EXCEPT ![e][s] = Append(@, f.text)]
        /\ Link!Awaits(e, s, f.text)
    BY <1>0, <2>1, AcceptsNext
  <2>3. TextsOf(opened)[e][s] # <<>>
    BY <1>0, <2>1, TextsEmpty
  <2>4. f.text \in Texts
    <3>1. PICK n, q, p : /\ q \in Seq(Sealed) /\ q = opened[e][s] /\ n = Len(q) + 1
                         /\ p \in Seq(Sealed) /\ p = sealed[Peer(e)][s]
      BY <1>0 DEF TypeOK
    <3>2. n <= Len(p) /\ p[n] = f /\ n > 1 /\ n \in Nat
      BY <2>1, <3>1 DEF OpensFrame
    <3>3. n \in DOMAIN p
      BY <3>1, <3>2
    <3> QED
      BY <1>0, <3>1, <3>2, <3>3 DEF ProofsFirst
  <2> QED
    BY <2>1, <2>2, <2>3, <2>4 DEF Link!Hears, Link!Accept
<1>6. Endpoint = Link!Side
  BY DEF Endpoint, Link!Side
<1>7. ASSUME NEW s \in Salts,
             Link!ClientProves(s) \/ Link!ServerAnswers(s) \/ Link!ClientAccepts(s)
      PROVE  Link!Next
  BY <1>7 DEF Link!Next
<1>8. ASSUME NEW s \in Salts, NEW e \in Endpoint, NEW t \in Texts,
             Link!Says(e, s, t) \/ Link!Hears(e, s, t)
      PROVE  Link!Next
  BY <1>6, <1>8 DEF Link!Next
<1> QED
  BY <1>1, <1>2, <1>3, <1>4, <1>5, <1>7, <1>8 DEF Event

\* Every other step leaves what was posted and accepted as it is.
LEMMA LinkStutter ==
    ASSUME UNCHANGED history
    PROVE  UNCHANGED Link!linkVars
BY DEF history, TextsOf, Link!linkVars

\* Nothing is sealed or opened initially.
LEMMA LinkInit ==
    ASSUME Init
    PROVE  Link!Init
<1>1. /\ TextsIn(<<>>) = <<>>
      /\ sealed = [e \in Endpoint |-> [s \in Salts |-> <<>>]]
      /\ opened = [e \in Endpoint |-> [s \in Salts |-> <<>>]]
  <2>1. <<>> \in Seq(Sealed)
    OBVIOUS
  <2> QED
    BY <2>1, TextsInFacts DEF Init
<1>2. /\ TextsOf(sealed) = [e \in Endpoint |-> [s \in Salts |-> TextsIn(sealed[e][s])]]
      /\ TextsOf(opened) = [e \in Endpoint |-> [s \in Salts |-> TextsIn(opened[e][s])]]
  BY DEF TextsOf, TextsIn
<1>3. \A e \in Endpoint, s \in Salts : TextsIn(sealed[e][s]) = <<>> /\ TextsIn(opened[e][s]) = <<>>
  BY <1>1
<1>4. /\ TextsOf(sealed) = [e \in Endpoint |-> [s \in Salts |-> <<>>]]
      /\ TextsOf(opened) = [e \in Endpoint |-> [s \in Salts |-> <<>>]]
  BY <1>2, <1>3
<1> QED
  BY <1>4 DEF Link!Init, Link!Side, Endpoint

-----------------------------------------------------------------------------
(* The keys of sessions *)

\* KeysInv for one endpoint.
KeysAt(e) ==
    /\ session[e] # None => Proved(e, session[e])
    /\ pending[e] \in ServerReadyWait => Proving(e, pending[e].session)
    /\ out[e] # None =>
         /\ out[e].op = "KEY" => Proving(e, out[e].next.session)
         /\ out[e].op = "READY" => Proved(e, out[e].next)

\* e keeps its session, handshake and call, loses them, or begins as a client.
Calm(e) ==
    /\ session'[e] \in {session[e], None}
    /\ pending'[e] \in {pending[e], None} \cup ServerHelloWait
    /\ out'[e] # None => /\ out[e] # None
                         /\ out'[e].op = out[e].op /\ out'[e].line = out[e].line
                         /\ out'[e].next = out[e].next

\* Steps that seal, open and finish nothing leave both endpoints calm.
LEMMA CalmSteps ==
    ASSUME TypeOK, NEW e \in Endpoint,
           \/ Quiet(e) \/ Refuses(e) \/ Refrains(e) \/ WriteShort(e)
           \/ WriteTimesOut(e) \/ WriteFails(e) \/ Crash(e) \/ Reset,
           NEW d \in Endpoint
    PROVE  Calm(d) /\ UNCHANGED history
<1>1. ASSUME NEW w \in Passwords, BeginClient(w)
      PROVE  Calm(d) /\ UNCHANGED history
  <2>1. pending' = [pending EXCEPT ![Client] = [phase |-> "WaitServerHello", password |-> w]]
    BY <1>1 DEF BeginClient
  <2>2. pending'[d] \in {pending[d], None} \cup ServerHelloWait
    BY <2>1 DEF TypeOK, ServerHelloWait
  <2> QED
    BY <1>1, <2>2 DEF BeginClient, Calm, TypeOK
<1>2. ASSUME Close(e) \/ Reset
      PROVE  Calm(d) /\ UNCHANGED history
  BY <1>2 DEF Close, Reset, Calm, channelVars
<1>3. ASSUME Clear(e), UNCHANGED history, UNCHANGED out \/ out' = [out EXCEPT ![e] = None]
      PROVE  Calm(d) /\ UNCHANGED history
  BY <1>3 DEF Clear, Calm, TypeOK
<1>4. ASSUME \/ StepEnds(e) \/ ReceiveClosed(e) \/ Forget(e) \/ Refuses(e) \/ Refrains(e)
             \/ WriteTimesOut(e) \/ WriteFails(e) \/ Crash(e)
      PROVE  Calm(d) /\ UNCHANGED history
  <2>1. Clear(e) /\ UNCHANGED history
    BY <1>4 DEF StepEnds, ReceiveClosed, Forget, Refuses, Refrains, WriteTimesOut, WriteFails,
                GiveUp, Crash
  <2>2. UNCHANGED out \/ out' = [out EXCEPT ![e] = None]
    BY <1>4 DEF StepEnds, ReceiveClosed, Forget, Refuses, Refrains, WriteTimesOut, WriteFails,
                GiveUp, Crash
  <2> QED
    BY <1>3, <2>1, <2>2
<1>5. ASSUME WriteShort(e)
      PROVE  Calm(d) /\ UNCHANGED history
  <2>1. PICK w \in {"nothing", "part", "body"} :
          out' = [out EXCEPT ![e].wrote = w, ![e].short = TRUE]
    BY <1>5 DEF WriteShort
  <2>2. out[e] \in Writing /\ out[e] # None /\ UNCHANGED <<channelVars, history>>
    BY <1>5 DEF WriteShort, Writable, TypeOK
  <2>3. /\ out'[e].op = out[e].op /\ out'[e].next = out[e].next /\ out'[e].line = out[e].line
        /\ d # e => out'[d] = out[d]
    BY <2>1, <2>2 DEF Writing, TypeOK
  <2>4. out'[d] # None => /\ out[d] # None
                          /\ out'[d].op = out[d].op /\ out'[d].line = out[d].line
                          /\ out'[d].next = out[d].next
    BY <2>2, <2>3
  <2> QED
    BY <2>2, <2>4 DEF Calm, channelVars
<1> QED
  BY <1>1, <1>2, <1>4, <1>5 DEF Quiet

\* A calm endpoint keeps its keys.
LEMMA KeysCalm ==
    ASSUME NEW e \in Endpoint, KeysAt(e), Calm(e), UNCHANGED sealed[e]
    PROVE  KeysAt(e)'
<1>1. \A s : Proved(e, s) => Proved(e, s)'
  BY DEF Proved, Keyed
<1>2. \A s : Proving(e, s) => Proving(e, s)'
  BY DEF Proving, Keyed
<1>3. session'[e] # None => Proved(e, session[e])'
  BY <1>1 DEF KeysAt, Calm, Proved, Keyed
<1>4. pending'[e] \in ServerReadyWait => Proving(e, pending[e].session)'
  BY <1>2, WaitKinds DEF KeysAt, Calm, Proving, Keyed
<1>5. out'[e] # None => /\ out'[e].op = "KEY" => Proving(e, out[e].next.session)'
                        /\ out'[e].op = "READY" => Proved(e, out[e].next)'
  BY <1>1, <1>2 DEF KeysAt, Calm, Proving, Proved, Keyed
<1> QED
  BY <1>3, <1>4, <1>5 DEF KeysAt

\* Another frame with the key of the session.
LEMMA KeyedMore ==
    ASSUME TypeOK, NEW e \in Endpoint, NEW f \in Sealed, NoteSealed(e, f),
           NEW s, Keyed(e, s), s.key = f.key
    PROVE  Keyed(e, s)'
<1>1. \A g : g \in Range(sealed'[e][f.key.salt]) => g \in Range(sealed[e][f.key.salt]) \/ g = f
  <2>1. f.key.salt \in Salts
    BY DEF Sealed, Key
  <2>2. \A d \in Endpoint, r \in Salts : \A g :
          g \in Range(sealed'[d][r])
            => g \in Range(sealed[d][r]) \/ (r = f.key.salt /\ g = f)
    BY SealedMore
  <2> QED
    BY <2>1, <2>2
<1> QED
  BY <1>1 DEF Keyed

\* The key of the first frame of a salt.
LEMMA KeyedFirst ==
    ASSUME TypeOK, NEW e \in Endpoint, NEW f \in Sealed, NoteSealed(e, f),
           sealed[e][f.key.salt] = <<>>, NEW s, s.key = f.key
    PROVE  Keyed(e, s)'
<1>1. Keyed(e, s)
  BY DEF Keyed, Range
<1> QED
  BY <1>1, KeyedMore

\* KeysInv: the five steps.
LEMMA KeysEvent ==
    ASSUME Trusted, Event, NEW e \in Endpoint
    PROVE  KeysAt(e)'
<1> USE Endpoints
<1>0. TypeOK /\ \A d \in Endpoint : KeysAt(d)
  BY DEF Trusted, Inductive, KeysInv, KeysAt
<1>a. TypeOK
  BY <1>0
<1>1. ASSUME UNCHANGED <<session[e], pending[e], out[e], sealed[e]>>
      PROVE  KeysAt(e)'
  BY <1>0, <1>1, KeysCalm DEF Calm
<1>2. ASSUME NEW s \in Salts, NEW f \in Sealed, NEW line \in Line,
             NEW next \in PendingHandshake \cup Session \cup {None}, Proves(s, f, line, next)
      PROVE  KeysAt(e)'
  <2>1. /\ NoteSealed(Client, f) /\ f.key.salt = s /\ sealed[Client][s] = <<>>
        /\ next.session.key = f.key /\ next.session.receiveCounter = 0
        /\ session[Client] = None /\ pending[Client] \in ServerHelloWait
        /\ UNCHANGED channelVars
    BY <1>2 DEF Proves, Unused
  <2>2. /\ out'[Client] # None /\ out'[Client].op = "KEY" /\ out'[Client].next = next
        /\ \A c \in Endpoint \ {Client} : UNCHANGED out[c]
    <3>1. StartWriting(Client, "KEY", line, next, TRUE)
      BY <1>2 DEF Proves
    <3> QED
      BY <1>a, <3>1, StartedSome
  <2>3. CASE e = Client
    <3>1. Keyed(Client, next.session)'
      BY <1>a, <2>1, KeyedFirst
    <3>2. Proving(Client, next.session)'
      BY <2>1, <3>1 DEF Proving
    <3> QED
      BY <2>1, <2>2, <2>3, <3>2, WaitKinds DEF KeysAt, channelVars
  <2>4. CASE e # Client
    <3>1. sealed'[e] = sealed[e]
      BY <1>a, <2>1, <2>4, SealedNext
    <3> QED
      BY <1>1, <2>1, <2>2, <2>4, <3>1 DEF channelVars
  <2> QED
    BY <2>3, <2>4
<1>3. ASSUME NEW s \in Salts, NEW f \in Sealed, NEW r \in Sealed, NEW line \in Line,
             NEW s1 \in Session, Answers(s, f, r, line, s1)
      PROVE  KeysAt(e)'
  <2>1. /\ NoteSealed(Server, r) /\ r.key.salt = s /\ sealed[Server][s] = <<>>
        /\ s1.key = r.key /\ s1.receiveCounter > 0
        /\ session[Server] = None /\ pending[Server] \in ClientKeyWait
        /\ UNCHANGED channelVars
    BY <1>3 DEF Answers, Unused
  <2>2. /\ out'[Server] # None /\ out'[Server].op = "READY" /\ out'[Server].next = s1
        /\ \A c \in Endpoint \ {Server} : UNCHANGED out[c]
    <3>1. StartWriting(Server, "READY", line, s1, TRUE)
      BY <1>3 DEF Answers
    <3> QED
      BY <1>a, <3>1, StartedSome
  <2>3. CASE e = Server
    <3>1. Keyed(Server, s1)'
      BY <1>a, <2>1, KeyedFirst
    <3>2. Proved(Server, s1)'
      BY <2>1, <3>1 DEF Proved
    <3> QED
      BY <2>1, <2>2, <2>3, <3>2, WaitKinds DEF KeysAt, channelVars
  <2>4. CASE e # Server
    <3>1. sealed'[e] = sealed[e]
      BY <1>a, <2>1, <2>4, SealedNext
    <3> QED
      BY <1>1, <2>1, <2>2, <2>4, <3>1 DEF channelVars
  <2> QED
    BY <2>3, <2>4
<1>4. ASSUME NEW s \in Salts, NEW f \in Sealed, NEW s1 \in Session, Accepts(s, f, s1)
      PROVE  KeysAt(e)'
  <2>1. /\ pending[Client] \in ServerReadyWait /\ s1.key = pending[Client].session.key
        /\ s1.receiveCounter > 0 /\ Promote(Client, s1)
        /\ out[Client] = None /\ UNCHANGED <<out, sealed>>
    BY <1>4 DEF Accepts
  <2>2. CASE e = Client
    <3>1. Keyed(Client, pending[Client].session)
      BY <1>0, <2>1 DEF KeysAt, Proving
    <3>2. Proved(Client, s1)'
      BY <2>1, <3>1 DEF Proved, Keyed
    <3>3. session'[Client] = s1 /\ pending'[Client] = None /\ out'[Client] = None
      BY <1>a, <2>1 DEF Promote, TypeOK
    <3> QED
      BY <2>2, <3>2, <3>3, WaitKinds DEF KeysAt
  <2>3. CASE e # Client
    BY <1>a, <1>1, <2>1, <2>3 DEF Promote, TypeOK
  <2> QED
    BY <2>2, <2>3
<1>5. ASSUME NEW d \in Endpoint, NEW s \in Salts, NEW f \in Sealed, NEW line \in Line,
             NEW b \in BOOLEAN, Says(d, s, f, line, b)
      PROVE  KeysAt(e)'
  <2>1. /\ NoteSealed(d, f) /\ f.key = session[d].key /\ session[d] # None /\ pending[d] = None
        /\ UNCHANGED channelVars
    BY <1>5 DEF Says
  <2>2. /\ out'[d].op = "LINE" /\ \A c \in Endpoint \ {d} : UNCHANGED out[c]
    <3>1. StartWriting(d, "LINE", line, None, b)
      BY <1>5 DEF Says
    <3> QED
      BY <1>a, <3>1, StartedSome
  <2>3. CASE e = d
    <3>1. Proved(d, session[d])
      BY <1>0, <2>1 DEF KeysAt
    <3>2. PICK s1 : s1 = session[d]
      OBVIOUS
    <3>3. Keyed(d, s1)'
      <4>1. Keyed(d, s1) /\ s1.key = f.key
        BY <2>1, <3>1, <3>2 DEF Proved
      <4> QED
        BY <1>a, <2>1, <4>1, KeyedMore
    <3>4. Proved(d, session[d])'
      BY <2>1, <3>1, <3>2, <3>3 DEF Proved, Keyed, channelVars
    <3> QED
      BY <2>1, <2>2, <2>3, <3>4, WaitKinds DEF KeysAt, channelVars
  <2>4. CASE e # d
    <3>1. sealed'[e] = sealed[e]
      BY <1>a, <2>1, <2>4, SealedNext
    <3> QED
      BY <1>1, <2>1, <2>2, <2>4, <3>1 DEF channelVars
  <2> QED
    BY <2>3, <2>4
<1>6. ASSUME NEW d \in Endpoint, NEW s \in Salts, NEW f \in Sealed, NEW s1 \in Session,
             Hears(d, s, f, s1)
      PROVE  KeysAt(e)'
  <2>1. /\ session' = [session EXCEPT ![d] = s1] /\ s1.key = session[d].key
        /\ s1.receiveCounter > 0 /\ session[d] # None /\ pending[d] = None /\ out[d] = None
        /\ UNCHANGED <<pending, out, sealed>>
    BY <1>6 DEF Hears
  <2>2. CASE e = d
    <3>1. Keyed(d, session[d])
      BY <1>0, <2>1 DEF KeysAt, Proved
    <3>2. Proved(d, s1)' /\ session'[d] = s1
      BY <1>a, <2>1, <3>1 DEF Proved, Keyed, TypeOK
    <3> QED
      BY <2>1, <2>2, <3>2, WaitKinds DEF KeysAt, Proved, Keyed
  <2>3. CASE e # d
    BY <1>a, <1>1, <2>1, <2>3 DEF TypeOK
  <2> QED
    BY <2>2, <2>3
<1> QED
  BY <1>2, <1>3, <1>4, <1>5, <1>6 DEF Event

\* KeysInv: a call that returns leaves the keys it worked with.
LEMMA KeysWrite ==
    ASSUME Trusted, NEW d \in Endpoint, Write(d), NEW e \in Endpoint
    PROVE  KeysAt(e)'
<1>0. TypeOK /\ CallInv /\ KeysAt(d) /\ KeysAt(e)
  BY DEF Trusted, Inductive, KeysInv, KeysAt
<1>1. /\ out[d] # None /\ out' = [out EXCEPT ![d] = None] /\ UNCHANGED history
  BY DEF Write, HelloWritten, KeyWritten, ReadyWritten, LineWritten, WriteRest, Writable
<1>2. \A c \in Endpoint \ {d} : UNCHANGED <<pending[c], session[c], out[c]>>
  <2>1. \A c \in Endpoint \ {d} : UNCHANGED out[c]
    BY <1>0, <1>1 DEF TypeOK
  <2>2. \A c \in Endpoint \ {d} : UNCHANGED <<pending[c], session[c]>>
    BY <1>0 DEF Write, HelloWritten, KeyWritten, ReadyWritten, LineWritten, Promote, TypeOK
  <2> QED
    BY <2>1, <2>2
<1>3. CASE e # d
  BY <1>0, <1>1, <1>2, <1>3, KeysCalm DEF Calm, history
<1>4. CASE e = d
  <2>1. out'[d] = None
    BY <1>0, <1>1 DEF TypeOK
  <2>2. CASE HelloWritten(d)
    <3>1. /\ session'[d] = None /\ pending'[d] \in ClientKeyWait
      BY <1>0, <1>1, <2>2 DEF HelloWritten, WriteRest, CallInv, FreshKeyWait, TypeOK
    <3> QED
      BY <1>4, <2>1, <3>1, WaitKinds DEF KeysAt
  <2>3. CASE KeyWritten(d)
    <3>1. session'[d] = None /\ pending'[d] = out[d].next /\ out[d].op = "KEY"
      BY <1>0, <1>1, <2>3 DEF KeyWritten, WriteRest, CallInv, TypeOK
    <3>2. Proving(d, out[d].next.session)
      BY <1>0, <1>1, <3>1 DEF KeysAt
    <3>3. Proving(d, pending[d].session)'
      BY <1>1, <3>1, <3>2 DEF Proving, Keyed, history
    <3> QED
      BY <1>4, <2>1, <3>1, <3>3 DEF KeysAt
  <2>4. CASE ReadyWritten(d)
    <3>1. PICK s, s1 : s = out[d].next /\ s1 = [s EXCEPT !.sendCounter = @ + 1]
      OBVIOUS
    <3>2. s \in Session /\ Proved(d, s)
      BY <1>0, <1>1, <2>4, <3>1 DEF ReadyWritten, WriteRest, CallInv, InSync, KeysAt
    <3>3. s1.key = s.key /\ s1.receiveCounter = s.receiveCounter
      BY <3>1, <3>2 DEF Session
    <3>4. session'[d] = s1 /\ pending'[d] = None
      BY <1>0, <2>4, <3>1 DEF ReadyWritten, Promote, TypeOK
    <3>5. Proved(d, session[d])'
      BY <1>1, <3>2, <3>3, <3>4 DEF Proved, Keyed, history
    <3> QED
      BY <1>4, <2>1, <3>4, <3>5, WaitKinds DEF KeysAt
  <2>5. CASE LineWritten(d)
    <3>1. PICK s, s1 : s = session[d] /\ s1 = [s EXCEPT !.sendCounter = @ + 1]
      OBVIOUS
    <3>2. s \in Session /\ s # None /\ pending[d] = None
      BY <1>0, <1>1, <2>5, <3>1, NoneAssumption DEF LineWritten, WriteRest, CallInv, InSync
    <3>3. Proved(d, s)
      BY <1>0, <3>1, <3>2 DEF KeysAt
    <3>4. s1.key = s.key /\ s1.receiveCounter = s.receiveCounter
      BY <3>1, <3>2 DEF Session
    <3>5. session'[d] = s1 /\ pending'[d] = None
      BY <1>0, <2>5, <3>1, <3>2 DEF LineWritten, TypeOK
    <3>6. Proved(d, session[d])'
      BY <1>1, <3>3, <3>4, <3>5 DEF Proved, Keyed, history
    <3> QED
      BY <1>4, <2>1, <3>5, <3>6, WaitKinds DEF KeysAt
  <2> QED
    BY <2>2, <2>3, <2>4, <2>5 DEF Write
<1> QED
  BY <1>3, <1>4

\* KeysInv: every step.
LEMMA KeysStep ==
    ASSUME Trusted, Next
    PROVE  KeysInv'
<1>0. TypeOK /\ \A d \in Endpoint : KeysAt(d)
  BY DEF Trusted, Inductive, KeysInv, KeysAt
<1>1. ASSUME NEW e \in Endpoint
      PROVE  KeysAt(e)'
  <2>1. CASE Event
    BY <2>1, KeysEvent
  <2>2. ASSUME NEW d \in Endpoint, Write(d)
        PROVE  KeysAt(e)'
    BY <2>2, KeysWrite
  <2>3. ASSUME NEW d \in Endpoint,
               \/ Quiet(d) \/ Refuses(d) \/ Refrains(d) \/ WriteShort(d)
               \/ WriteTimesOut(d) \/ WriteFails(d) \/ Crash(d) \/ Reset
        PROVE  KeysAt(e)'
    <3>1. Calm(e) /\ UNCHANGED history
      BY <1>0, <2>3, CalmSteps
    <3> QED
      BY <1>0, <3>1, KeysCalm DEF history
  <2>4. ASSUME NEW w \in Passwords, NEW x \in Prefixes, BeginServer(w, x)
        PROVE  KeysAt(e)'
    <3>1. /\ session'[Server] = None /\ pending'[Server] = None /\ out'[Server].op = "HELLO"
          /\ e # Server => UNCHANGED <<session[e], pending[e], out[e]>>
          /\ UNCHANGED sealed
      BY <1>0, <2>4, Endpoints DEF BeginServer, Clear, StartWriting, TypeOK, history
    <3>2. CASE e = Server
      BY <3>1, <3>2, WaitKinds DEF KeysAt
    <3>3. CASE e # Server
      BY <1>0, <3>1, <3>3, KeysCalm DEF Calm
    <3> QED
      BY <3>2, <3>3
  <2> QED
    BY <2>1, <2>2, <2>3, <2>4, Steps, Endpoints
<1> QED
  BY <1>1 DEF KeysInv, KeysAt

-----------------------------------------------------------------------------
(* The streams *)

\* The stream of e stays as it is, or loses its first line or the rest of it.
StreamKept(e) ==
    \/ UNCHANGED <<lines[e], tail[e]>>
    \/ lines[e] # <<>> /\ lines'[e] = Tail(lines[e]) /\ tail'[e] = tail[e]
    \/ lines[e] = <<>> /\ lines'[e] = <<>> /\ tail'[e] = None

\* receive_line takes a line from the peer's stream.
LEMMA StreamTaken ==
    ASSUME TypeOK, NEW d \in Endpoint, TakeLine(d), NEW e \in Endpoint
    PROVE  /\ StreamKept(e)
           /\ e # Peer(d) => UNCHANGED <<lines[e], tail[e]>>
<1>1. Peer(d) \in Endpoint
  BY Endpoints
<1>2. CASE lines[Peer(d)] # <<>>
  <2>1. lines' = [lines EXCEPT ![Peer(d)] = Tail(@)] /\ UNCHANGED tail
    BY <1>2 DEF TakeLine
  <2> QED
    BY <1>1, <1>2, <2>1 DEF StreamKept, TypeOK
<1>3. CASE lines[Peer(d)] = <<>>
  <2>1. tail' = [tail EXCEPT ![Peer(d)] = None] /\ UNCHANGED lines
    BY <1>3 DEF TakeLine
  <2> QED
    BY <1>1, <1>3, <2>1 DEF StreamKept, TypeOK
<1> QED
  BY <1>2, <1>3

\* What is left of a stream stands in the order it stood in.
LEMMA StreamOrder ==
    ASSUME TypeOK, NEW e \in Endpoint, StreamKept(e)
    PROVE  /\ tail'[e] \in {tail[e], None}
           /\ \E k \in {0, 1} : \A i \in DOMAIN lines'[e] :
                i \in Int /\ i + k \in DOMAIN lines[e] /\ lines'[e][i] = lines[e][i + k]
<1>1. tail'[e] \in {tail[e], None}
  BY DEF StreamKept
<1>2. PICK q, r : q \in Seq(Line) /\ q = lines[e] /\ r = lines'[e]
  BY DEF TypeOK
<1>3. r = q \/ (q # <<>> /\ r = Tail(q))
  BY <1>2 DEF StreamKept
<1>4. CASE r = q
  <2>1. \A i \in DOMAIN r : i \in Int /\ i + 0 \in DOMAIN q /\ r[i] = q[i + 0]
    BY <1>2, <1>4
  <2> QED
    BY <1>1, <1>2, <2>1
<1>5. CASE q # <<>> /\ r = Tail(q)
  <2>1. \A i \in DOMAIN r : i \in Int /\ i + 1 \in DOMAIN q /\ r[i] = q[i + 1]
    BY <1>2, <1>5
  <2> QED
    BY <1>1, <1>2, <2>1
<1> QED
  BY <1>3, <1>4, <1>5

\* So a clean stream stays clean, a salt announced stays announced, and one that
\* is still to be announced does too, as long as the peer does not hear of it.
LEMMA StreamKeeps ==
    ASSUME TypeOK, NEW e \in Endpoint, StreamKept(e)
    PROVE  /\ Clean(e) => Clean(e)'
           /\ \A s : (Heard(e, s)' => Heard(e, s)) =>
                /\ Announced(e, s) => Announced(e, s)'
                /\ Unannounced(e, s) => Unannounced(e, s)'
<1>1. tail'[e] \in {tail[e], None}
  BY StreamOrder
<1>2. PICK k \in {0, 1} : \A i \in DOMAIN lines'[e] :
        i \in Int /\ i + k \in DOMAIN lines[e] /\ lines'[e][i] = lines[e][i + k]
  BY StreamOrder
<1>3. Clean(e) => Clean(e)'
  BY <1>1, <1>2 DEF Clean, Range
<1>4. ASSUME NEW s, Heard(e, s)' => Heard(e, s), Announced(e, s)
      PROVE  Announced(e, s)'
  <2>1. tail'[e] = None /\ (Heard(e, s)' => Clean(e)')
    BY <1>1, <1>3, <1>4 DEF Announced
  <2>2. ASSUME NEW i \in DOMAIN lines'[e], NEW j \in DOMAIN lines'[e],
               Announces(e, lines'[e][i], s), i < j
        PROVE  lines'[e][j] # Garbage
    <3>1. /\ i \in Int /\ i + k \in DOMAIN lines[e] /\ lines'[e][i] = lines[e][i + k]
          /\ j \in Int /\ j + k \in DOMAIN lines[e] /\ lines'[e][j] = lines[e][j + k]
      BY <1>2
    <3>2. i + k < j + k
      BY <2>2, <3>1
    <3> QED
      BY <1>4, <2>2, <3>1, <3>2 DEF Announced
  <2> QED
    BY <2>1, <2>2 DEF Announced, Announces
<1>5. ASSUME NEW s, Heard(e, s)' => Heard(e, s), Unannounced(e, s)
      PROVE  Unannounced(e, s)'
  <2>1. ~Announces(e, tail'[e], s)
    BY <1>1, <1>5 DEF Unannounced, Announces
  <2>2. \A i \in DOMAIN lines'[e] : ~Announces(e, lines'[e][i], s)
    BY <1>2, <1>5 DEF Unannounced
  <2> QED
    BY <1>5, <2>1, <2>2 DEF Unannounced, Announces
<1> QED
  BY <1>3, <1>4, <1>5

\* The salts in the state of an endpoint.
LEMMA SaltsKnown ==
    ASSUME TypeOK, NEW e \in Endpoint, Local(e)
    PROVE  /\ pending[e] \in ClientKeyWait => pending[e].salt \in Salts
           /\ pending[e] \in ServerReadyWait => pending[e].session.key.salt \in Salts
           /\ out[e] # None =>
                /\ out[e].op = "HELLO" => out[e].next.salt \in Salts
                /\ out[e].op = "KEY" => out[e].next.session.key.salt \in Salts
<1>1. \A p \in ClientKeyWait : p.salt \in Salts
  BY DEF ClientKeyWait
<1>2. \A p \in ServerReadyWait : p.session.key.salt \in Salts
  BY DEF ServerReadyWait, Session, Key
<1>3. out[e] # None => /\ out[e].op = "HELLO" => out[e].next \in ClientKeyWait
                       /\ out[e].op = "KEY" => out[e].next \in ServerReadyWait
  BY DEF Local, Call, FreshKeyWait, SyncReadyWait
<1> QED
  BY <1>1, <1>2, <1>3

\* An endpoint that stays calm while its stream is only read stays uncut.
LEMMA UncutCalm ==
    ASSUME TypeOK, NEW e \in Endpoint, Local(e), Uncut(e), Calm(e), StreamKept(e),
           \A s \in Salts : /\ Announced(e, s) => Announced(e, s)'
                            /\ Unannounced(e, s) => Unannounced(e, s)'
    PROVE  Uncut(e)'
<1>1. session'[e] # None => Clean(e)'
  BY StreamKeeps DEF Uncut, Calm
<1>2. pending'[e] \in ClientKeyWait => Announced(e, pending[e].salt)' /\ pending'[e] = pending[e]
  BY WaitKinds, SaltsKnown DEF Uncut, Calm, Announced, Heard, Announces
<1>3. pending'[e] \in ServerReadyWait =>
        Announced(e, pending[e].session.key.salt)' /\ pending'[e] = pending[e]
  BY WaitKinds, SaltsKnown DEF Uncut, Calm, Announced, Heard, Announces
<1>4. ASSUME out'[e] # None
      PROVE  /\ out'[e].line # Garbage
             /\ out'[e].op = "HELLO" => Unannounced(e, out[e].next.salt)'
             /\ out'[e].op = "KEY" => Unannounced(e, out[e].next.session.key.salt)'
             /\ out'[e].op = "READY" => Clean(e)'
  <2>1. /\ out[e] # None /\ out'[e].op = out[e].op /\ out'[e].line = out[e].line
        /\ out'[e].next = out[e].next
    BY <1>4 DEF Calm
  <2>2. out[e].op = "HELLO" => Unannounced(e, out[e].next.salt)'
    <3>1. ASSUME out[e].op = "HELLO"
          PROVE  out[e].next.salt \in Salts /\ Unannounced(e, out[e].next.salt)
      BY <2>1, <3>1, SaltsKnown DEF Uncut
    <3>2. PICK s : s = out[e].next.salt
      OBVIOUS
    <3> QED
      BY <2>1, <3>1, <3>2 DEF Unannounced, Heard, Announces
  <2>3. out[e].op = "KEY" => Unannounced(e, out[e].next.session.key.salt)'
    <3>1. ASSUME out[e].op = "KEY"
          PROVE  /\ out[e].next.session.key.salt \in Salts
                 /\ Unannounced(e, out[e].next.session.key.salt)
      BY <2>1, <3>1, SaltsKnown DEF Uncut
    <3>2. PICK s : s = out[e].next.session.key.salt
      OBVIOUS
    <3> QED
      BY <2>1, <3>1, <3>2 DEF Unannounced, Heard, Announces
  <2>4. out[e].line # Garbage /\ (out[e].op = "READY" => Clean(e)')
    BY <2>1, StreamKeeps DEF Uncut
  <2> QED
    BY <2>1, <2>2, <2>3, <2>4
<1> QED
  BY <1>1, <1>2, <1>3, <1>4 DEF Uncut

\* The peer reads the line that announces a salt: had e cut its stream after that
\* line, it would have given up the salt.
LEMMA HeardClean ==
    ASSUME TypeOK, NEW e \in Endpoint, TakeLine(Peer(e)), NEW s,
           Announces(e, NextLine(Peer(e)), s)
    PROVE  /\ Announced(e, s) => Announced(e, s)'
           /\ ~Unannounced(e, s)
<1>1. Peer(e) \in Endpoint /\ Peer(Peer(e)) = e
  BY Endpoints
<1>2. PICK q, r : q \in Seq(Line) /\ q = lines[e] /\ r = lines'[e]
  BY DEF TypeOK
<1>3. CASE q # <<>>
  <2>1. r = Tail(q) /\ tail'[e] = tail[e] /\ NextLine(Peer(e)) = q[1]
    BY <1>1, <1>2, <1>3 DEF TakeLine, NextLine, TypeOK
  <2>2. 1 \in DOMAIN q /\ \A i \in DOMAIN r : i + 1 \in DOMAIN q /\ 1 < i + 1 /\ r[i] = q[i + 1]
    BY <1>2, <1>3, <2>1
  <2>3. ASSUME Announced(e, s)
        PROVE  Announced(e, s)'
    <3>1. \A i \in DOMAIN r : r[i] # Garbage
      BY <1>2, <2>1, <2>2, <2>3 DEF Announced
    <3>2. tail'[e] = None
      BY <2>1, <2>3 DEF Announced
    <3> QED
      BY <1>2, <3>1, <3>2 DEF Announced, Clean, Range
  <2> QED
    BY <1>2, <2>1, <2>2, <2>3 DEF Unannounced
<1>4. CASE q = <<>>
  <2>1. tail[e] # None /\ NextLine(Peer(e)) = tail[e]
    BY <1>1, <1>2, <1>4 DEF TakeLine, HasLine, NextLine
  <2> QED
    BY <2>1 DEF Announced, Unannounced
<1> QED
  BY <1>3, <1>4

\* So e stays uncut.
LEMMA UncutHeard ==
    ASSUME TypeOK, NEW e \in Endpoint, Local(e), Uncut(e), TakeLine(Peer(e)),
           NEW s \in Salts, Announces(e, NextLine(Peer(e)), s),
           UNCHANGED <<session[e], pending[e], out[e]>>,
           \A t \in Salts : t # s /\ Heard(e, t)' => Heard(e, t)
    PROVE  Uncut(e)'
<1>1. StreamKept(e)
  BY StreamTaken, Endpoints
<1>2. ASSUME NEW t \in Salts
      PROVE  /\ Announced(e, t) => Announced(e, t)'
             /\ Unannounced(e, t) => Unannounced(e, t)'
  <2>1. CASE t = s
    BY <2>1, HeardClean
  <2>2. CASE t # s
    <3>1. Heard(e, t)' => Heard(e, t)
      BY <2>2
    <3> QED
      BY <1>1, <3>1, StreamKeeps
  <2> QED
    BY <2>1, <2>2
<1>3. Calm(e)
  BY DEF Calm
<1> QED
  BY <1>1, <1>2, <1>3, UncutCalm

\* No stream carries a proof that the client has yet to seal.
LEMMA NotYetAnnounced ==
    ASSUME TypeOK, WireInv, NEW s \in Salts, Unused(Client, s), Unused(Server, s)
    PROVE  Unannounced(Client, s)
<1> USE Endpoints
<1>1. ASSUME NEW l \in Line \cup {None}, Genuine(Client, l)
      PROVE  ~Announces(Client, l, s)
  <2>1. ASSUME Announces(Client, l, s)
        PROVE  FALSE
    <3>1. l # None /\ l.type = "KEY" /\ l.sealed.key.salt = s /\ l \in Line
      BY <2>1 DEF Announces
    <3>2. l.sealed.counter < Len(sealed[Client][s]) /\ sealed[Client][s] = <<>>
      BY <1>1, <3>1 DEF Genuine, Unused
    <3>3. l.sealed.counter \in 0..MaxCounter
      BY <3>1, LineFields DEF Sealed
    <3> QED
      BY <3>2, <3>3, ConstantsAssumption
  <2> QED
    BY <2>1
<1>2. tail[Client] \in Line \cup {None} /\ Genuine(Client, tail[Client])
  BY DEF TypeOK, WireInv
<1>3. ASSUME NEW i \in DOMAIN lines[Client]
      PROVE  lines[Client][i] \in Line \cup {None} /\ Genuine(Client, lines[Client][i])
  <2>1. lines[Client] \in Seq(Line)
    BY DEF TypeOK
  <2> QED
    BY <1>3, <2>1 DEF WireInv
<1> QED
  BY <1>1, <1>2, <1>3 DEF Unannounced, Heard, Unused

\* UncutInv: the five steps.  The client seals its proof,
LEMMA UncutProves ==
    ASSUME Trusted, \A d \in Endpoint : Uncut(d), NEW e \in Endpoint,
           NEW s \in Salts, NEW f \in Sealed, NEW line \in Line,
           NEW next \in PendingHandshake \cup Session \cup {None}, Proves(s, f, line, next)
    PROVE  Uncut(e)'
<1> USE Endpoints
<1>0. TypeOK /\ WireInv /\ \A d \in Endpoint : Local(d)
  BY LocalInv DEF Trusted, Inductive
<1>a. TypeOK
  BY <1>0
<1>1. /\ TakeLine(Client) /\ Announces(Server, NextLine(Client), s)
      /\ Unused(Client, s) /\ Unused(Server, s)
      /\ NoteSealed(Client, f) /\ f.key.salt = s /\ line # Garbage
      /\ next \in ServerReadyWait /\ next.session.key = f.key
      /\ session[Client] = None /\ pending[Client] \in ServerHelloWait
      /\ UNCHANGED <<pending, session, opened>>
  BY DEF Proves, channelVars
<1>2. /\ out'[Client] # None /\ out'[Client].op = "KEY" /\ out'[Client].line = line
      /\ out'[Client].next = next
      /\ \A c \in Endpoint \ {Client} : UNCHANGED out[c]
  <2>1. StartWriting(Client, "KEY", line, next, TRUE)
    BY DEF Proves
  <2> QED
    BY <1>a, <2>1, StartedSome
<1>3. CASE e = Server
  <2>1. Peer(Server) = Client
    BY DEF Peer
  <2>2. \A t \in Salts : t # s /\ Heard(Server, t)' => Heard(Server, t)
    BY <1>a, <1>1, SealedNext DEF Heard
  <2>3. UNCHANGED <<session[Server], pending[Server], out[Server]>>
    BY <1>1, <1>2
  <2>4. Uncut(Server)'
    BY <1>0, <1>1, <2>1, <2>2, <2>3, UncutHeard
  <2> QED
    BY <1>3, <2>4
<1>4. CASE e = Client
  <2>1. Unannounced(Client, s)
    BY <1>0, <1>1, NotYetAnnounced
  <2>2. StreamKept(Client)
    BY <1>a, <1>1, StreamTaken
  <2>3. Heard(Client, s)' => Heard(Client, s)
    BY <1>1 DEF Heard
  <2>4. Unannounced(Client, s)'
    BY <1>a, <2>1, <2>2, <2>3, StreamKeeps
  <2>5. next.session.key.salt = s
    BY <1>1
  <2>6. Unannounced(Client, out[Client].next.session.key.salt)'
    BY <1>2, <2>4, <2>5 DEF Unannounced, Heard, Announces
  <2>7. pending'[Client] \in ServerHelloWait /\ session'[Client] = None
    BY <1>1
  <2> QED
    BY <1>1, <1>2, <1>4, <2>6, <2>7, WaitKinds DEF Uncut
<1> QED
  BY <1>3, <1>4 DEF Endpoint

\* ... the server opens it and answers,
LEMMA UncutAnswers ==
    ASSUME Trusted, \A d \in Endpoint : Uncut(d), NEW e \in Endpoint,
           NEW s \in Salts, NEW f \in Sealed, NEW r \in Sealed, NEW line \in Line,
           NEW s1 \in Session, Answers(s, f, r, line, s1)
    PROVE  Uncut(e)'
<1> USE Endpoints
<1>0. TypeOK /\ \A d \in Endpoint : Local(d)
  BY LocalInv DEF Trusted, Inductive
<1>a. TypeOK
  BY <1>0
<1>1. /\ TakeLine(Server) /\ Announces(Client, NextLine(Server), s)
      /\ OpensFrame(Server, s, f)
      /\ NoteSealed(Server, r) /\ line # Garbage
      /\ session[Server] = None /\ pending[Server] \in ClientKeyWait /\ pending[Server].salt = s
      /\ UNCHANGED <<pending, session>>
  BY DEF Answers, channelVars
<1>2. /\ out'[Server] # None /\ out'[Server].op = "READY" /\ out'[Server].line = line
      /\ \A c \in Endpoint \ {Server} : UNCHANGED out[c]
  <2>1. StartWriting(Server, "READY", line, s1, TRUE)
    BY DEF Answers
  <2> QED
    BY <1>a, <2>1, StartedSome
<1>3. CASE e = Client
  <2>1. Peer(Client) = Server
    BY DEF Peer
  <2>2. \A t \in Salts : t # s /\ Heard(Client, t)' => Heard(Client, t)
    BY <1>a, <1>1, OpenedMore DEF Heard
  <2>3. UNCHANGED <<session[Client], pending[Client], out[Client]>>
    BY <1>1, <1>2
  <2>4. Uncut(Client)'
    BY <1>0, <1>1, <2>1, <2>2, <2>3, UncutHeard
  <2> QED
    BY <1>3, <2>4
<1>4. CASE e = Server
  <2>1. Announced(Server, s)
    BY <1>1 DEF Uncut
  <2>2. Heard(Server, s)
    <3>1. sealed[Peer(Server)][s] # <<>>
      BY <1>a, <1>1, OpenedMore
    <3> QED
      BY <3>1 DEF Heard, Peer
  <2>3. Clean(Server)
    BY <2>1, <2>2 DEF Announced
  <2>4. StreamKept(Server)
    BY <1>a, <1>1, StreamTaken
  <2>5. Clean(Server)' /\ Announced(Server, s)'
    BY <1>a, <2>1, <2>2, <2>3, <2>4, StreamKeeps
  <2>6. Announced(Server, pending[Server].salt)'
    BY <1>1, <2>5 DEF Announced, Heard, Announces
  <2>7. pending'[Server] \in ClientKeyWait /\ session'[Server] = None
    BY <1>1
  <2> QED
    BY <1>1, <1>2, <1>4, <2>5, <2>6, <2>7, WaitKinds DEF Uncut
<1> QED
  BY <1>3, <1>4 DEF Endpoint

\* ... and the client accepts;
LEMMA UncutAccepts ==
    ASSUME Trusted, \A d \in Endpoint : Uncut(d), NEW e \in Endpoint,
           NEW s \in Salts, NEW f \in Sealed, NEW s1 \in Session, Accepts(s, f, s1)
    PROVE  Uncut(e)'
<1> USE Endpoints
<1>0. TypeOK /\ ProofsAnswered /\ \A d \in Endpoint : Local(d)
  BY LocalInv DEF Trusted, Inductive
<1>a. TypeOK
  BY <1>0
<1>1. /\ TakeLine(Client) /\ OpensFrame(Client, s, f) /\ Promote(Client, s1)
      /\ pending[Client] \in ServerReadyWait /\ pending[Client].session.key.salt = s
      /\ out[Client] = None /\ UNCHANGED <<out, sealed>>
  BY DEF Accepts
<1>2. StreamKept(e)
  BY <1>a, <1>1, StreamTaken
<1>3. CASE e = Client
  <2>1. Announced(Client, s)
    BY <1>1 DEF Uncut
  <2>2. Heard(Client, s)
    <3>1. sealed[Peer(Client)][s] # <<>>
      BY <1>a, <1>1, OpenedMore
    <3> QED
      BY <1>0, <3>1 DEF Heard, Peer, ProofsAnswered
  <2>3. Clean(Client)'
    BY <1>a, <1>2, <1>3, <2>1, <2>2, StreamKeeps DEF Announced
  <2>4. pending'[Client] = None /\ out'[Client] = None
    BY <1>a, <1>1 DEF Promote, TypeOK
  <2> QED
    BY <1>3, <2>3, <2>4, WaitKinds DEF Uncut
<1>4. CASE e = Server
  <2>1. \A t \in Salts : Heard(Server, t)' => Heard(Server, t)
    BY <1>1 DEF Heard
  <2>2. Calm(Server)
    BY <1>a, <1>1 DEF Calm, Promote, TypeOK
  <2>3. \A t \in Salts : /\ Announced(Server, t) => Announced(Server, t)'
                         /\ Unannounced(Server, t) => Unannounced(Server, t)'
    BY <1>a, <1>2, <1>4, <2>1, StreamKeeps
  <2>4. Uncut(Server)'
    BY <1>0, <1>2, <1>4, <2>2, <2>3, UncutCalm
  <2> QED
    BY <1>4, <2>4
<1> QED
  BY <1>3, <1>4 DEF Endpoint

\* ... and then both say,
LEMMA UncutSays ==
    ASSUME Trusted, \A d \in Endpoint : Uncut(d), NEW e \in Endpoint,
           NEW c \in Endpoint, NEW s \in Salts, NEW f \in Sealed, NEW line \in Line,
           NEW b \in BOOLEAN, Says(c, s, f, line, b)
    PROVE  Uncut(e)'
<1>0. TypeOK /\ \A d \in Endpoint : Local(d)
  BY LocalInv DEF Trusted, Inductive
<1>a. TypeOK
  BY <1>0
<1>1. /\ session[c] # None /\ pending[c] = None /\ sealed[c][s] # <<>>
      /\ NoteSealed(c, f) /\ f.key.salt = s /\ line # Garbage
      /\ UNCHANGED <<pending, session, lines, tail, opened>>
  BY DEF Says, channelVars
<1>2. /\ out'[c] # None /\ out'[c].op = "LINE" /\ out'[c].line = line
      /\ \A d \in Endpoint \ {c} : UNCHANGED out[d]
  <2>1. StartWriting(c, "LINE", line, None, b)
    BY DEF Says
  <2> QED
    BY <1>a, <2>1, StartedSome
<1>3. CASE e = c
  <2>1. Clean(c)'
    BY <1>0, <1>1 DEF Uncut, Clean
  <2> QED
    BY <1>1, <1>2, <1>3, <2>1, WaitKinds DEF Uncut
<1>4. CASE e # c
  <2>1. \A t \in Salts : Heard(e, t)' => Heard(e, t)
    <3>1. \A d \in Endpoint, t \in Salts : sealed'[d][t] # <<>> => sealed[d][t] # <<>>
      BY <1>a, <1>1, SealedMore
    <3> QED
      BY <1>1, <3>1, Endpoints DEF Heard
  <2>2. Calm(e) /\ StreamKept(e)
    BY <1>1, <1>2, <1>4 DEF Calm, StreamKept
  <2>3. \A t \in Salts : /\ Announced(e, t) => Announced(e, t)'
                         /\ Unannounced(e, t) => Unannounced(e, t)'
    BY <1>a, <2>1, <2>2, StreamKeeps
  <2> QED
    BY <1>0, <2>2, <2>3, UncutCalm
<1> QED
  BY <1>3, <1>4

\* ... and hear.
LEMMA UncutHears ==
    ASSUME Trusted, \A d \in Endpoint : Uncut(d), NEW e \in Endpoint,
           NEW c \in Endpoint, NEW s \in Salts, NEW f \in Sealed, NEW s1 \in Session,
           Hears(c, s, f, s1)
    PROVE  Uncut(e)'
<1>0. TypeOK /\ \A d \in Endpoint : Local(d)
  BY LocalInv DEF Trusted, Inductive
<1>a. TypeOK
  BY <1>0
<1>1. /\ out[c] = None /\ session[c] # None /\ pending[c] = None
      /\ TakeLine(c) /\ opened[c][s] # <<>> /\ OpensFrame(c, s, f)
      /\ session' = [session EXCEPT ![c] = s1]
      /\ UNCHANGED <<pending, out, sealed>>
  BY DEF Hears
<1>2. StreamKept(e)
  BY <1>a, <1>1, StreamTaken
<1>3. CASE e = c
  <2>1. Clean(c)'
    BY <1>a, <1>0, <1>1, <1>2, <1>3, StreamKeeps DEF Uncut
  <2> QED
    BY <1>1, <1>3, <2>1, WaitKinds DEF Uncut
<1>4. CASE e # c
  <2>1. \A t \in Salts : Heard(e, t)' => Heard(e, t)
    <3>1. \A d \in Endpoint, t \in Salts : opened'[d][t] # <<>> => opened[d][t] # <<>>
      BY <1>a, <1>1, OpenedMore
    <3> QED
      BY <1>1, <3>1, Endpoints DEF Heard
  <2>2. Calm(e)
    BY <1>a, <1>1, <1>4 DEF Calm, TypeOK
  <2>3. \A t \in Salts : /\ Announced(e, t) => Announced(e, t)'
                         /\ Unannounced(e, t) => Unannounced(e, t)'
    BY <1>a, <1>2, <2>1, StreamKeeps
  <2> QED
    BY <1>0, <1>2, <2>2, <2>3, UncutCalm
<1> QED
  BY <1>3, <1>4

\* A line written whole is one more line of the stream.
LEMMA StreamWritten ==
    ASSUME TypeOK, NEW e \in Endpoint, NEW op, WriteRest(e, op), Uncut(e)
    PROVE  /\ Clean(e) => Clean(e)'
           /\ \A s : Unannounced(e, s) => Announced(e, s)'
<1>1. PICK q, r, m : /\ q \in Seq(Line) /\ q = lines[e] /\ r = lines'[e]
                     /\ m = IF tail[e] = None THEN out[e].line ELSE Garbage
  BY DEF TypeOK
<1>2. tail'[e] = None /\ UNCHANGED history /\ out[e] # None /\ r = Append(q, m)
  BY <1>1 DEF WriteRest, Writable, TypeOK
<1>3. m \in Line /\ (tail[e] = None => m # Garbage)
  BY <1>1, <1>2, GarbageType DEF TypeOK, Writing, Uncut
<1>4. Len(q) \in Nat /\ DOMAIN r = 1..Len(q) + 1
      /\ \A i \in DOMAIN r : (i = Len(q) + 1 /\ r[i] = m) \/ (i \in DOMAIN q /\ r[i] = q[i])
  <2>1. /\ Len(q) \in Nat /\ r \in Seq(Line) /\ Len(r) = Len(q) + 1 /\ r[Len(q) + 1] = m
        /\ \A i \in 1..Len(q) : r[i] = q[i]
    BY <1>1, <1>2, <1>3, AppendFacts
  <2>2. DOMAIN r = 1..Len(q) + 1 /\ DOMAIN q = 1..Len(q)
    BY <1>1, <2>1
  <2> QED
    BY <2>1, <2>2
<1>5. Clean(e) => Clean(e)'
  BY <1>1, <1>2, <1>3, <1>4 DEF Clean, Range
<1>6. ASSUME NEW s, Unannounced(e, s)
      PROVE  Announced(e, s)'
  <2>1. ~Heard(e, s)'
    BY <1>2, <1>6 DEF Unannounced, Heard, history
  <2>2. ASSUME NEW i \in DOMAIN r, NEW j \in DOMAIN r, Announces(e, r[i], s), i < j
        PROVE  FALSE
    <3>1. i \notin DOMAIN q
      BY <1>1, <1>4, <1>6, <2>2 DEF Unannounced
    <3> QED
      BY <1>4, <2>2, <3>1
  <2> QED
    BY <1>1, <1>2, <2>1, <2>2 DEF Announced, Announces
<1> QED
  BY <1>5, <1>6

\* UncutInv: a call that returns, having written its line,
LEMMA UncutWrite ==
    ASSUME Trusted, \A d \in Endpoint : Uncut(d), NEW c \in Endpoint, Write(c),
           NEW e \in Endpoint
    PROVE  Uncut(e)'
<1>0. TypeOK /\ CallInv /\ Uncut(c) /\ \A d \in Endpoint : Local(d)
  BY LocalInv DEF Trusted, Inductive
<1>a. TypeOK /\ Uncut(c)
  BY <1>0
<1>1. PICK op : WriteRest(c, op) /\ out[c].op = op
  BY DEF Write, HelloWritten, KeyWritten, ReadyWritten, LineWritten, WriteRest
<1>2. /\ out[c] # None /\ out'[c] = None /\ UNCHANGED history
      /\ \A d \in Endpoint \ {c} : UNCHANGED <<out[d], lines[d], tail[d]>>
  BY <1>0, <1>1 DEF WriteRest, Writable, TypeOK
<1>3. CASE e # c
  <2>1. UNCHANGED <<pending[e], session[e]>>
    BY <1>0, <1>3 DEF Write, HelloWritten, KeyWritten, ReadyWritten, LineWritten, Promote, TypeOK
  <2>2. Calm(e) /\ StreamKept(e)
    BY <1>2, <1>3, <2>1 DEF Calm, StreamKept
  <2>3. \A t \in Salts : Heard(e, t)' => Heard(e, t)
    BY <1>2 DEF Heard, history
  <2>4. \A t \in Salts : /\ Announced(e, t) => Announced(e, t)'
                         /\ Unannounced(e, t) => Unannounced(e, t)'
    BY <1>a, <2>2, <2>3, StreamKeeps
  <2> QED
    BY <1>0, <2>2, <2>4, UncutCalm
<1>4. CASE e = c
  <2>1. /\ Clean(c) => Clean(c)'
        /\ \A s : Unannounced(c, s) => Announced(c, s)'
    BY <1>a, <1>1, StreamWritten
  <2>2. CASE HelloWritten(c)
    <3>1. /\ session'[c] = None /\ pending'[c] = out[c].next /\ out[c].next \in ClientKeyWait
          /\ out[c].op = "HELLO"
      BY <1>0, <1>2, <2>2 DEF HelloWritten, WriteRest, CallInv, FreshKeyWait, TypeOK
    <3>2. PICK s : s = out[c].next.salt
      OBVIOUS
    <3>3. Announced(c, s)'
      BY <1>0, <1>2, <2>1, <3>1, <3>2 DEF Uncut
    <3>4. Announced(c, pending[c].salt)'
      BY <3>1, <3>2, <3>3 DEF Announced, Heard, Announces
    <3> QED
      BY <1>2, <1>4, <3>1, <3>4, WaitKinds DEF Uncut
  <2>3. CASE KeyWritten(c)
    <3>1. /\ session'[c] = None /\ pending'[c] = out[c].next /\ out[c].next \in ServerReadyWait
          /\ out[c].op = "KEY"
      BY <1>0, <1>2, <2>3 DEF KeyWritten, WriteRest, CallInv, SyncReadyWait, TypeOK
    <3>2. PICK s : s = out[c].next.session.key.salt
      OBVIOUS
    <3>3. Announced(c, s)'
      BY <1>0, <1>2, <2>1, <3>1, <3>2 DEF Uncut
    <3>4. Announced(c, pending[c].session.key.salt)'
      BY <3>1, <3>2, <3>3 DEF Announced, Heard, Announces
    <3> QED
      BY <1>2, <1>4, <3>1, <3>4, WaitKinds DEF Uncut
  <2>4. CASE ReadyWritten(c)
    <3>1. out[c].op = "READY" /\ pending'[c] = None
      BY <1>0, <2>4 DEF ReadyWritten, WriteRest, Promote, TypeOK
    <3>2. Clean(c)'
      BY <1>0, <1>2, <2>1, <3>1 DEF Uncut
    <3> QED
      BY <1>2, <1>4, <3>1, <3>2, WaitKinds DEF Uncut
  <2>5. CASE LineWritten(c)
    <3>1. out[c].op = "LINE" /\ pending'[c] = None /\ session[c] # None
      BY <1>0, <1>2, <2>5, NoneAssumption DEF LineWritten, WriteRest, CallInv, InSync
    <3>2. Clean(c)'
      BY <1>0, <2>1, <3>1 DEF Uncut
    <3> QED
      BY <1>2, <1>4, <3>1, <3>2, WaitKinds DEF Uncut
  <2> QED
    BY <2>2, <2>3, <2>4, <2>5 DEF Write
<1> QED
  BY <1>3, <1>4

\* ... a call that gives its line up, or the exit of the process,
LEMMA UncutGivenUp ==
    ASSUME Trusted, \A d \in Endpoint : Uncut(d), NEW c \in Endpoint,
           WriteTimesOut(c) \/ WriteFails(c) \/ Crash(c), NEW e \in Endpoint
    PROVE  Uncut(e)'
<1>0. TypeOK /\ \A d \in Endpoint : Local(d)
  BY LocalInv DEF Trusted, Inductive
<1>a. TypeOK
  BY <1>0
<1>1. /\ Clear(c) /\ out' = [out EXCEPT ![c] = None] /\ UNCHANGED <<lines, history>>
      /\ tail' = [tail EXCEPT ![c] = IF reset THEN @ ELSE Left(c)]
  BY DEF WriteTimesOut, WriteFails, GiveUp, Crash
<1>2. /\ session'[c] = None /\ pending'[c] = None /\ out'[c] = None
      /\ \A d \in Endpoint \ {c} : UNCHANGED <<session[d], pending[d], out[d], lines[d], tail[d]>>
  BY <1>0, <1>1 DEF Clear, TypeOK
<1>3. CASE e = c
  BY <1>2, <1>3, WaitKinds DEF Uncut
<1>4. CASE e # c
  <2>1. Calm(e) /\ StreamKept(e)
    BY <1>2, <1>4 DEF Calm, StreamKept
  <2>2. \A t \in Salts : Heard(e, t)' => Heard(e, t)
    BY <1>1 DEF Heard, history
  <2>3. \A t \in Salts : /\ Announced(e, t) => Announced(e, t)'
                         /\ Unannounced(e, t) => Unannounced(e, t)'
    BY <1>a, <2>1, <2>2, StreamKeeps
  <2> QED
    BY <1>0, <2>1, <2>3, UncutCalm
<1> QED
  BY <1>3, <1>4

\* ... begin_server_handshake, whose salt is new,
LEMMA UncutBegins ==
    ASSUME Trusted, \A d \in Endpoint : Uncut(d), NEW w \in Passwords, NEW x \in Prefixes,
           BeginServer(w, x), NEW e \in Endpoint
    PROVE  Uncut(e)'
<1> USE Endpoints
<1>0. TypeOK /\ SaltsInv /\ HelloInv /\ \A d \in Endpoint : Local(d)
  BY LocalInv DEF Trusted, Inductive
<1>a. TypeOK
  BY <1>0
<1>1. PICK s, line, next :
        /\ s = lastSalt + 1 /\ line = [type |-> "HELLO", salt |-> s, prefix |-> x]
        /\ next = [phase |-> "WaitClientKey", password |-> w, salt |-> s, prefix |-> x]
  OBVIOUS
<1>2. s \in Salts /\ lastSalt \in Int
  BY <1>0, <1>1, ConstantsAssumption DEF BeginServer, TypeOK, Salts
<1>3. line \in Line /\ line # Garbage /\ next \in PendingHandshake /\ next.salt = s
  BY <1>1, <1>2, HelloType DEF Garbage, PendingHandshake, ClientKeyWait
<1>4. /\ StartWriting(Server, "HELLO", line, next, TRUE)
      /\ session'[Server] = None /\ pending'[Server] = None
      /\ \A d \in Endpoint \ {Server} : UNCHANGED <<session[d], pending[d]>>
      /\ UNCHANGED <<lines, tail, history>>
  <2>1. lastSalt' = s
    BY <1>1 DEF BeginServer
  <2> QED
    BY <1>0, <1>1, <2>1 DEF BeginServer, Clear, TypeOK, wireVars
<1>5. /\ out'[Server] # None /\ out'[Server].op = "HELLO" /\ out'[Server].line = line
      /\ out'[Server].next = next
      /\ \A c \in Endpoint \ {Server} : UNCHANGED out[c]
  <2>1. StartWriting(Server, "HELLO", line, next, TRUE)
    BY <1>4
  <2>2. next \in PendingHandshake \cup Session \cup {None}
    BY <1>3
  <2> QED
    BY <1>a, <1>3, <2>1, <2>2, StartedSome
<1>6. CASE e = Client
  <2>1. Calm(Client) /\ StreamKept(Client)
    BY <1>4, <1>5 DEF Calm, StreamKept
  <2>2. \A t \in Salts : Heard(Client, t)' => Heard(Client, t)
    BY <1>4 DEF Heard, history
  <2>3. \A t \in Salts : /\ Announced(Client, t) => Announced(Client, t)'
                         /\ Unannounced(Client, t) => Unannounced(Client, t)'
    BY <1>a, <2>1, <2>2, StreamKeeps
  <2>4. Uncut(Client)'
    BY <1>0, <2>1, <2>3, UncutCalm
  <2> QED
    BY <1>6, <2>4
<1>7. CASE e = Server
  <2>1. ~Heard(Server, s)
    BY <1>0, <1>1, <1>2 DEF SaltsInv, Unused, Heard
  <2>2. \A l : Fresh(FreshSalts, l) => ~Announces(Server, l, s)
    BY <1>1, <1>2 DEF Fresh, FreshSalts, IsHello, Announces
  <2>3. Unannounced(Server, s)
    BY <1>0, <2>1, <2>2 DEF Unannounced, HelloInv, Apart
  <2>4. Unannounced(Server, s)'
    BY <1>4, <2>3 DEF Unannounced, Heard, Announces, history
  <2>5. Unannounced(Server, out[Server].next.salt)'
    BY <1>3, <1>5, <2>4 DEF Unannounced, Heard, Announces
  <2> QED
    BY <1>3, <1>4, <1>5, <1>7, <2>5, WaitKinds DEF Uncut
<1> QED
  BY <1>6, <1>7 DEF Endpoint

\* ... and every step.
LEMMA UncutStep ==
    ASSUME Trusted, Next
    PROVE  UncutInv'
<1>0. TypeOK /\ UncutInv /\ \A d \in Endpoint : Local(d)
  BY LocalInv DEF Trusted, Inductive
<1>a. TypeOK
  BY <1>0
<1>1. CASE Reset
  BY <1>1 DEF Reset, UncutInv
<1>2. SUFFICES ASSUME ~Reset, ~reset', NEW e \in Endpoint
               PROVE  Uncut(e)'
  BY <1>1 DEF UncutInv
<1>3. ~reset
  <2>1. ASSUME Event
        PROVE  UNCHANGED reset
    BY <2>1 DEF Event, Proves, Answers, Accepts, Says, Hears
  <2>2. ASSUME NEW d \in Endpoint, Quiet(d) \/ Write(d) \/ WriteShort(d)
        PROVE  UNCHANGED reset
    BY <2>2 DEF Quiet, BeginClient, StepEnds, ReceiveClosed, Forget, Close, Write, HelloWritten,
                KeyWritten, ReadyWritten, LineWritten, WriteRest, WriteShort, wireVars
  <2>3. ASSUME NEW d \in Endpoint, Refuses(d) \/ Refrains(d) \/ WriteTimesOut(d)
                                    \/ WriteFails(d) \/ Crash(d)
        PROVE  UNCHANGED reset
    BY <2>3 DEF Refuses, Refrains, WriteTimesOut, WriteFails, GiveUp, Crash
  <2>4. ASSUME NEW w \in Passwords, NEW x \in Prefixes, BeginServer(w, x)
        PROVE  UNCHANGED reset
    BY <2>4 DEF BeginServer, wireVars
  <2> QED
    BY <1>2, <2>1, <2>2, <2>3, <2>4, Steps
<1>4. \A d \in Endpoint : Uncut(d)
  BY <1>0, <1>3 DEF UncutInv
<1>5. CASE Event
  BY <1>4, <1>5, UncutProves, UncutAnswers, UncutAccepts, UncutSays, UncutHears DEF Event
<1>6. ASSUME NEW d \in Endpoint, Quiet(d) \/ Refuses(d) \/ Refrains(d) \/ WriteShort(d)
      PROVE  Uncut(e)'
  <2>1. Calm(e) /\ UNCHANGED history
    BY <1>a, <1>6, CalmSteps
  <2>2. StreamKept(e)
    <3>1. CASE Refuses(d)
      BY <1>a, <3>1, StreamTaken DEF Refuses
    <3>2. CASE Quiet(d) \/ Refrains(d) \/ WriteShort(d)
      BY <3>2 DEF Quiet, BeginClient, StepEnds, ReceiveClosed, Forget, Close, Refrains, WriteShort,
                  wireVars, StreamKept
    <3> QED
      BY <1>6, <3>1, <3>2
  <2>3. \A t \in Salts : Heard(e, t)' => Heard(e, t)
    BY <2>1 DEF Heard, history
  <2>4. \A t \in Salts : /\ Announced(e, t) => Announced(e, t)'
                         /\ Unannounced(e, t) => Unannounced(e, t)'
    BY <1>a, <2>2, <2>3, StreamKeeps
  <2> QED
    BY <1>0, <1>4, <2>1, <2>2, <2>4, UncutCalm
<1>7. ASSUME NEW d \in Endpoint, Write(d)
      PROVE  Uncut(e)'
  BY <1>4, <1>7, UncutWrite
<1>8. ASSUME NEW d \in Endpoint, WriteTimesOut(d) \/ WriteFails(d) \/ Crash(d)
      PROVE  Uncut(e)'
  BY <1>4, <1>8, UncutGivenUp
<1>9. ASSUME NEW w \in Passwords, NEW x \in Prefixes, BeginServer(w, x)
      PROVE  Uncut(e)'
  BY <1>4, <1>9, UncutBegins
<1> QED
  BY <1>2, <1>5, <1>6, <1>7, <1>8, <1>9, Steps

-----------------------------------------------------------------------------
(* The theorems *)

\* The invariant holds initially,
LEMMA TrustedInit ==
    ASSUME Init
    PROVE  Trusted
<1>1. Inductive
  BY InductiveInit
<1>2. SaltHasOneKey /\ ProofsAnswered /\ ProofsFirst
  BY DEF Init, SaltHasOneKey, ProofsAnswered, ProofsFirst, Range
<1>3. KeysInv /\ UncutInv
  BY WaitKinds DEF Init, KeysInv, UncutInv, Uncut
<1> QED
  BY <1>1, <1>2, <1>3 DEF Trusted

\* ... and a step that changes nothing keeps it.
LEMMA TrustedStutter ==
    ASSUME Trusted, UNCHANGED vars, Inductive'
    PROVE  Trusted'
<1>1. UNCHANGED <<pending, session, out, lines, tail, open, reset, lastSalt, sealed, opened>>
  BY DEF vars
<1>2. SaltHasOneKey' /\ ProofsAnswered' /\ ProofsFirst'
  BY <1>1 DEF Trusted, SaltHasOneKey, ProofsAnswered, ProofsFirst, Range
<1>3. KeysInv'
  <2>1. ASSUME NEW e \in Endpoint
        PROVE  KeysAt(e)'
    <3>1. KeysAt(e) /\ Calm(e)
      BY <1>1 DEF Trusted, KeysInv, KeysAt, Calm
    <3> QED
      BY <1>1, <3>1, KeysCalm
  <2> QED
    BY <2>1 DEF KeysInv, KeysAt
<1>4. ASSUME ~reset', NEW e \in Endpoint
      PROVE  Uncut(e)'
  <2>1. Uncut(e)
    BY <1>1, <1>4 DEF Trusted, UncutInv
  <2> QED
    BY <1>1, <2>1 DEF Uncut, Clean, Announced, Unannounced, Heard, Announces, Range
<1> QED
  BY <1>2, <1>3, <1>4 DEF Trusted, UncutInv

\* Every step preserves what the three theorems below follow from: the frames of
\* a salt have the key of the session that seals or opens under it, the server
\* seals only after a proof, and a stream is cut only when its endpoint lets its
\* session and its handshake go (step_*_handshake, send_all, receive_line).
THEOREM TrustedCorrect == Spec => []Trusted
<1>1. ASSUME Trusted, Inductive', [Next]_vars
      PROVE  Trusted'
  <2>1. CASE Next
    <3>1. Frames' /\ KeysInv' /\ UncutInv'
      BY <1>1, <2>1, FramesStep, KeysStep, UncutStep
    <3> QED
      BY <1>1, <3>1 DEF Trusted, Frames
  <2>2. CASE UNCHANGED vars
    BY <1>1, <2>2, TrustedStutter
  <2> QED
    BY <1>1, <2>1, <2>2
<1> QED
  BY <1>1, TrustedInit, InductiveCorrect, PTL DEF Spec

\* An endpoint with a session has a first frame of its peer.
LEMMA SessionHeard ==
    ASSUME Trusted, NEW e \in Endpoint, session[e] # None
    PROVE  /\ pending[e] = None
           /\ session[e].key.salt \in Salts
           /\ Proved(e, session[e])
           /\ sealed[e][session[e].key.salt] # <<>>
           /\ opened[e][session[e].key.salt] # <<>>
<1>1. TypeOK /\ Local(e) /\ Proved(e, session[e])
  BY LocalInv DEF Trusted, Inductive, KeysInv
<1>2. pending[e] = None /\ \E n \in {0, 1} : InSync(e, session[e], n)
  <2>1. CASE out[e] = None
    BY <1>1, <2>1 DEF Local, Rest
  <2>2. CASE out[e] # None
    <3>1. out[e].op \in {"HELLO", "KEY", "READY", "LINE"}
      BY <1>1, <2>2 DEF TypeOK, Writing
    <3> QED
      BY <1>1, <2>2, <3>1 DEF Local, Call
  <2> QED
    BY <2>1, <2>2
<1>3. /\ session[e] \in Session /\ sealed[e][session[e].key.salt] # <<>>
      /\ Len(opened[e][session[e].key.salt]) = session[e].receiveCounter
  BY <1>2 DEF InSync
<1>4. session[e].key.salt \in Salts
  BY <1>3 DEF Session, Key
<1>5. opened[e][session[e].key.salt] # <<>>
  <2>1. Len(opened[e][session[e].key.salt]) > 0
    BY <1>1, <1>3 DEF Proved
  <2>2. opened[e][session[e].key.salt] \in Seq(Sealed)
    BY <1>1, <1>4 DEF TypeOK
  <2> QED
    BY <2>1, <2>2
<1> QED
  BY <1>1, <1>2, <1>3, <1>4, <1>5

\* A session is a mutual proof: the endpoint has opened a frame that its peer
\* sealed under the same password and salt, and all the peer sealed under that
\* salt has that key; a client's session says that the server opened the
\* client's proof (step_client_handshake, step_server_handshake).
THEOREM SessionsAreProved == Spec => []SessionIsProved
<1>1. ASSUME Trusted, NEW e \in Endpoint, session[e] # None,
             NEW k, k = session[e].key
      PROVE  /\ pending[e] = None
             /\ opened[e][k.salt] # <<>>
             /\ \A f \in Range(sealed[Peer(e)][k.salt]) : f.key = k
             /\ e = Client => opened[Server][k.salt] # <<>>
  <2>1. /\ pending[e] = None /\ k.salt \in Salts /\ Keyed(e, session[e])
        /\ sealed[e][k.salt] # <<>> /\ opened[e][k.salt] # <<>>
    BY <1>1, SessionHeard DEF Proved
  <2>2. PICK g \in Range(sealed[e][k.salt]) : g.key = k
    <3>1. PICK q \in Seq(Sealed) : q = sealed[e][k.salt]
      BY <1>1, <2>1 DEF Trusted, Inductive, TypeOK
    <3>2. 1 \in DOMAIN q
      BY <2>1, <3>1
    <3>3. q[1] \in Range(sealed[e][k.salt])
      BY <3>1, <3>2 DEF Range
    <3> QED
      BY <1>1, <2>1, <3>3 DEF Keyed
  <2>3. \A f \in Range(sealed[Peer(e)][k.salt]) : f.key = k
    BY <1>1, <2>1, <2>2, Endpoints DEF Trusted, SaltHasOneKey
  <2>4. ASSUME e = Client
        PROVE  opened[Server][k.salt] # <<>>
    <3>1. PICK p \in Seq(Sealed), q \in Seq(Sealed) :
            p = sealed[Server][k.salt] /\ q = opened[Client][k.salt]
      BY <1>1, <2>1, Endpoints DEF Trusted, Inductive, TypeOK
    <3>2. Len(q) <= Len(p)
      BY <1>1, <2>1, <3>1, Endpoints DEF Trusted, Inductive, OpenedInOrder, Peer
    <3>3. p # <<>>
      BY <2>1, <2>4, <3>1, <3>2
    <3> QED
      BY <1>1, <2>1, <3>1, <3>3 DEF Trusted, ProofsAnswered
  <2> QED
    BY <2>1, <2>3, <2>4
<1>2. Trusted => SessionIsProved
  BY <1>1 DEF SessionIsProved
<1> QED
  BY <1>2, TrustedCorrect, PTL

\* An endpoint whose stream was cut, by a send that failed or timed out, has no
\* session as long as what it cut may still be read (send_all and its callers).
THEOREM CutStreamsHaveNoSession == Spec => []CutStreamHasNoSession
<1>1. Trusted => CutStreamHasNoSession
  BY DEF Trusted, UncutInv, Uncut, Clean, CutStreamHasNoSession
<1> QED
  BY <1>1, TrustedCorrect, PTL

\* The channel implements the abstract link: what its steps seal and open is, to
\* who sees only the texts, what a reliable link with a proof in each direction
\* posts and accepts, and every other step leaves it as it is.
THEOREM ChannelImplementsLink == Spec => ImplementsLink
<1>1. Init => Link!Init
  BY LinkInit
<1>2. Trusted /\ [Next]_vars => [Link!Next]_Link!linkVars
  <2>1. ASSUME Trusted, Next
        PROVE  Link!Next \/ UNCHANGED Link!linkVars
    BY <2>1, Events, LinkStep, LinkStutter
  <2>2. ASSUME UNCHANGED vars
        PROVE  UNCHANGED Link!linkVars
    BY <2>2, LinkStutter DEF vars, history
  <2> QED
    BY <2>1, <2>2
<1> QED
  BY <1>1, <1>2, TrustedCorrect, PTL DEF Spec, ImplementsLink, Link!Spec
=============================================================================
