----------------------- MODULE NetworkManager_proofs -----------------------
(***************************************************************************)
(* Proofs about NetworkManager, for any number of connections, handles and *)
(* bytes, and any sizes of the buffers.                                    *)
(*                                                                         *)
(* That no byte is lost needs that no two handles have one socket, and     *)
(* that a connection nobody accepted yet keeps all its bytes in the        *)
(* kernel; that netSendAll counts what was written needs what its two      *)
(* counters mean while it runs.  That the lines are those that were sent,  *)
(* and that the connections are the streams of LineStream, needs where a   *)
(* line starts.                                                            *)
(***************************************************************************)
EXTENDS NetworkManager, Recursion, SequenceTheorems

-----------------------------------------------------------------------------
(* The inductive invariant *)

\* What the program took, what a line buffer holds and what the kernel holds is
\* the beginning of what arrived, and all of it unless the connection is reset.
Prefix(s, t) == Len(s) <= Len(t) /\ s = SubSeq(t, 1, Len(s))
Accounted(sent, status, took, buffer, left) ==
    /\ Prefix(took \o buffer \o left, sent)
    /\ status \in {"none", "open", "closed"} => took \o buffer \o left = sent

Unaccepted(c) == far[c] = "none" \/ \E i \in DOMAIN queue : queue[i] = c

GivenOut == \A h \in DOMAIN entries : h < next_handle

\* A connection is that of one handle, or waits once to be accepted.
OneOwner ==
    /\ \A h \in Streams : Socket(h) \in Conns /\ ~Unaccepted(Socket(h))
    /\ \A g, h \in Streams : Socket(g) = Socket(h) => g = h
    /\ \A i \in DOMAIN queue : far[queue[i]] # "none"
    /\ \A i, j \in DOMAIN queue : queue[i] = queue[j] => i = j

NoByteLost ==
    /\ \A h \in Streams :
         LET c == Socket(h)
         IN Accounted(arrived[c], far[c], taken[c], entries[h].line_buffer, wire[c])
    /\ \A c \in Conns : Unaccepted(c) => Accounted(arrived[c], far[c], taken[c], <<>>, wire[c])

\* The handle of the call in progress is in use, and what ::send took is what
\* was added to the total and what was not yet.
Counted ==
    call # None =>
        /\ call.handle \in Streams
        /\ call.op = "send" =>
             /\ call.written = call.total + call.sent
             /\ call.short => call.sent = 0

Inductive == TypeOK /\ GivenOut /\ OneOwner /\ NoByteLost /\ Counted /\ SendAllCounts

-----------------------------------------------------------------------------
(* Sequences *)

\* Cutting a sequence loses nothing.
LEMMA Cut ==
    ASSUME NEW S, NEW b \in Seq(S), NEW n \in 0..Len(b)
    PROVE  /\ SubSeq(b, 1, n) \in Seq(S) /\ SubSeq(b, n + 1, Len(b)) \in Seq(S)
           /\ SubSeq(b, 1, n) \o SubSeq(b, n + 1, Len(b)) = b
<1>1. SubSeq(b, 1, n) \in Seq(S) /\ SubSeq(b, n + 1, Len(b)) \in Seq(S)
  OBVIOUS
<1>2. Len(b) \in Nat
  BY LenProperties
<1>3. SubSeq(b, 1, n) \o SubSeq(b, n + 1, Len(b)) = SubSeq(b, 1, Len(b))
  <2>1. \A m \in 1..Len(b) + 1 : \A k \in m - 1..Len(b) : \A l \in k..Len(b) :
          SubSeq(b, m, k) \o SubSeq(b, k + 1, l) = SubSeq(b, m, l)
    BY ConcatAdjacentSubSeq
  <2>2. 1 \in 1..Len(b) + 1 /\ n \in 1 - 1..Len(b) /\ Len(b) \in n..Len(b)
    BY <1>2
  <2>3. QED
    BY <2>1, <2>2, Zenon
<1>4. QED
  BY <1>1, <1>3, SubSeqFull

\* Where the first newline is.
LEMMA FirstLFFacts ==
    ASSUME NEW b \in Seq(Byte), HasLF(b)
    PROVE  /\ FirstLF(b) \in 1..Len(b) /\ b[FirstLF(b)] = LF
           /\ \A j \in 1..FirstLF(b) - 1 : b[j] # LF
<1> DEFINE P == {i \in DOMAIN b : b[i] = LF}
<1>1. DOMAIN b = 1..Len(b) /\ Len(b) \in Nat
  BY LenProperties
<1>2. P \subseteq Nat /\ P # {}
  BY <1>1 DEF HasLF
<1>3. PICK x \in P : \A y \in P : x <= y
  <2> HIDE DEF P
  <2>1. QED
    BY <1>2, LeastExists
<1>4. \A y \in P : ~(y < x)
  BY <1>1, <1>3
<1>5. x \in DOMAIN b /\ b[x] = LF /\ \A j \in 1..x - 1 : b[j] # LF
  <2>1. x \in DOMAIN b /\ b[x] = LF
    OBVIOUS
  <2>2. \A j \in 1..x - 1 : j \in DOMAIN b /\ j < x
    BY <1>1, <2>1
  <2>3. QED
    BY <1>4, <2>1, <2>2, Zenon
<1>6. /\ FirstLF(b) \in DOMAIN b /\ b[FirstLF(b)] = LF
      /\ \A j \in 1..FirstLF(b) - 1 : b[j] # LF
  BY <1>5, Zenon DEF FirstLF
<1>7. QED
  BY <1>1, <1>6

\* A line without its CR is a byte string.
LEMMA StripType ==
    ASSUME NEW line \in Seq(Byte)
    PROVE  StripCR(line) \in Seq(Byte)
BY DEF StripCR

\* The beginning of a beginning.
LEMMA PrefixOfConcat ==
    ASSUME NEW S, NEW s \in Seq(S), NEW t \in Seq(S), NEW a \in Seq(S), Prefix(s \o t, a)
    PROVE  Prefix(s, a)
<1>1. /\ Len(s) \in Nat /\ Len(t) \in Nat /\ Len(s \o t) = Len(s) + Len(t) /\ Len(a) \in Nat
      /\ \A i \in 1..Len(s) : (s \o t)[i] = s[i]
  BY ConcatProperties, LenProperties
<1>2. Len(s) <= Len(a) /\ Len(s \o t) <= Len(a)
  BY <1>1 DEF Prefix
<1>3. s \o t = SubSeq(a, 1, Len(s \o t))
  BY DEF Prefix
<1>4. \A i \in 1..Len(s \o t) : SubSeq(a, 1, Len(s \o t))[i] = a[i]
  BY <1>1, <1>2
<1>5. \A i \in 1..Len(s) : s[i] = a[i]
  BY <1>1, <1>3, <1>4
<1>6. /\ SubSeq(a, 1, Len(s)) \in Seq(S) /\ Len(SubSeq(a, 1, Len(s))) = Len(s)
      /\ \A i \in 1..Len(s) : SubSeq(a, 1, Len(s))[i] = a[i]
  BY <1>1, <1>2
<1>7. s = SubSeq(a, 1, Len(s))
  BY <1>5, <1>6, SeqEqual
<1>8. QED
  BY <1>2, <1>7 DEF Prefix

\* Three byte strings, one after the other.
LEMMA ThreeBytes ==
    \A f \in Seq(Byte) : \A g \in Seq(Byte) : \A h \in Seq(Byte) : (f \o g) \o h = f \o (g \o h)
<1>1. ASSUME NEW f \in Seq(Byte), NEW g \in Seq(Byte), NEW h \in Seq(Byte)
      PROVE  (f \o g) \o h = f \o (g \o h)
  BY ConcatAssociative
<1>2. QED
  BY <1>1, Zenon

\* Bytes move from a line buffer to the program,
LEMMA Took ==
    ASSUME NEW t \in Seq(Byte), NEW b \in Seq(Byte), NEW w, NEW n \in 0..Len(b)
    PROVE  (t \o SubSeq(b, 1, n)) \o SubSeq(b, n + 1, Len(b)) \o w = t \o b \o w
<1>1. PICK p, q : p = SubSeq(b, 1, n) /\ q = SubSeq(b, n + 1, Len(b))
  OBVIOUS
<1>2. p \in Seq(Byte) /\ q \in Seq(Byte) /\ p \o q = b
  BY <1>1, Cut
<1>3. (t \o p) \o q = t \o (p \o q)
  <2>1. p \in Seq(Byte) /\ q \in Seq(Byte)
    BY <1>2
  <2>2. \A g \in Seq(Byte) : \A h \in Seq(Byte) : (t \o g) \o h = t \o (g \o h)
    BY ThreeBytes, Zenon
  <2>3. \A h \in Seq(Byte) : (t \o p) \o h = t \o (p \o h)
    BY <2>1, <2>2, Zenon
  <2>4. QED
    BY <2>1, <2>3, Zenon
<1>4. (t \o p) \o q = t \o b
  BY <1>2, <1>3
<1>5. QED
  BY <1>1, <1>4

\* ... and from the kernel to a line buffer.
LEMMA Came ==
    ASSUME NEW t \in Seq(Byte), NEW b \in Seq(Byte), NEW w \in Seq(Byte), NEW n \in 0..Len(w)
    PROVE  t \o (b \o SubSeq(w, 1, n)) \o SubSeq(w, n + 1, Len(w)) = t \o b \o w
<1>1. PICK v, x : v = SubSeq(w, 1, n) /\ x = SubSeq(w, n + 1, Len(w))
  OBVIOUS
<1>2. v \in Seq(Byte) /\ x \in Seq(Byte) /\ v \o x = w
  BY <1>1, Cut
<1>3. v \in Seq(Byte) /\ x \in Seq(Byte) /\ t \o b \in Seq(Byte)
  BY <1>2, ConcatProperties
<1>4. (t \o b) \o v = t \o (b \o v)
  <2>1. \A g \in Seq(Byte) : \A h \in Seq(Byte) : (t \o g) \o h = t \o (g \o h)
    BY ThreeBytes, Zenon
  <2>2. \A h \in Seq(Byte) : (t \o b) \o h = t \o (b \o h)
    BY <2>1, Zenon
  <2>3. QED
    BY <1>3, <2>2, Zenon
<1>5. ((t \o b) \o v) \o x = (t \o b) \o (v \o x)
  <2>1. \A g \in Seq(Byte) : \A h \in Seq(Byte) : ((t \o b) \o g) \o h = (t \o b) \o (g \o h)
    BY <1>3, ThreeBytes, Zenon
  <2>2. \A h \in Seq(Byte) : ((t \o b) \o v) \o h = (t \o b) \o (v \o h)
    BY <1>3, <2>1, Zenon
  <2>3. QED
    BY <1>3, <2>2, Zenon
<1>6. (t \o (b \o v)) \o x = (t \o b) \o w
  BY <1>2, <1>4, <1>5
<1>7. QED
  BY <1>1, <1>6

-----------------------------------------------------------------------------
(* Kinds of steps *)

\* The fields of an entry.
LEMMA EntryFacts ==
    ASSUME TypeOK, NEW h \in DOMAIN entries
    PROVE  /\ h \in Handle /\ entries[h] \in Entry
           /\ entries[h].socket \in Conns \cup {None} /\ entries[h].kind \in {"Listener", "Stream"}
           /\ entries[h].line_buffer \in Seq(Byte) /\ entries[h].peer_closed \in BOOLEAN
BY DEF TypeOK, Entry

\* What setting line buffer and end of stream does to the entries.
LEMMA SetFacts ==
    ASSUME TypeOK, NEW h \in DOMAIN entries, NEW b \in Seq(Byte), NEW closed \in BOOLEAN,
           SetEntry(h, b, closed)
    PROVE  /\ DOMAIN entries' = DOMAIN entries
           /\ \A g \in DOMAIN entries :
                /\ entries'[g] \in Entry
                /\ entries'[g].socket = entries[g].socket /\ entries'[g].kind = entries[g].kind
                /\ entries'[g].line_buffer = IF g = h THEN b ELSE entries[g].line_buffer
<1>1. entries' = [entries EXCEPT ![h] = [@ EXCEPT !.line_buffer = b, !.peer_closed = closed]]
  BY DEF SetEntry
<1>2. \A g \in DOMAIN entries : entries[g] \in Entry
  BY DEF TypeOK
<1>3. DOMAIN entries' = DOMAIN entries
  BY <1>1
<1>4. ASSUME NEW g \in DOMAIN entries, g # h
      PROVE  entries'[g] = entries[g]
  BY <1>1, <1>4
<1>5. entries'[h] = [entries[h] EXCEPT !.line_buffer = b, !.peer_closed = closed]
  BY <1>1
<1>6. /\ entries'[h] \in Entry
      /\ entries'[h].socket = entries[h].socket /\ entries'[h].kind = entries[h].kind
      /\ entries'[h].line_buffer = b
  BY <1>2, <1>5 DEF Entry
<1>7. QED
  BY <1>2, <1>3, <1>4, <1>6

\* The handles stay with their sockets.
SameHandles ==
    /\ DOMAIN entries' = DOMAIN entries
    /\ \A g \in DOMAIN entries : entries'[g].socket = entries[g].socket /\ entries'[g].kind = entries[g].kind

\* Something is read from the connection of h: bytes move, none goes away.
Reads(h) ==
    LET c == Socket(h)
    IN /\ SameHandles
       /\ \A g \in DOMAIN entries : g # h => entries'[g].line_buffer = entries[g].line_buffer
       /\ \A k \in Conns : k # c => taken'[k] = taken[k] /\ wire'[k] = wire[k]
       /\ \A k \in Conns : far'[k] = far[k] \/ (far[k] = "reset" /\ far'[k] = "failed")
       /\ taken'[c] \o entries'[h].line_buffer \o wire'[c] = taken[c] \o entries[h].line_buffer \o wire[c]
       /\ UNCHANGED <<next_handle, queue, arrived>>

\* With the handles, the streams stay.
LEMMA SameStreams ==
    ASSUME SameHandles
    PROVE  Streams' = Streams /\ \A h \in Streams : Socket(h)' = Socket(h)
BY DEF SameHandles, Streams, Socket

\* Reading loses nothing, and leaves the connections with their handles.
LEMMA ReadsKeeps ==
    ASSUME Inductive, NEW h \in Streams, Reads(h)
    PROVE  GivenOut' /\ OneOwner' /\ NoByteLost'
<1>1. Streams' = Streams /\ \A g \in Streams : Socket(g)' = Socket(g)
  BY SameStreams DEF Reads
<1>2. GivenOut'
  BY DEF Inductive, GivenOut, Reads, SameHandles
<1>3. \A i \in DOMAIN queue : queue[i] \in Conns
  BY DEF Inductive, TypeOK
<1>4. \A c \in Conns : (far'[c] = "none" <=> far[c] = "none") /\ (far'[c] = "open" <=> far[c] = "open")
                      /\ (far'[c] = "closed" <=> far[c] = "closed")
  BY DEF Reads
<1>5. \A c \in Conns : Unaccepted(c)' <=> Unaccepted(c)
  BY <1>4 DEF Unaccepted, Reads
<1>6. \A g \in Streams : Socket(g) \in Conns /\ ~Unaccepted(Socket(g))
  BY DEF Inductive, OneOwner
<1>7. OneOwner'
  BY <1>1, <1>3, <1>4, <1>5, <1>6 DEF Inductive, OneOwner, Reads
<1>8. ASSUME NEW c \in Conns, NEW t, NEW b, NEW w, Accounted(arrived[c], far[c], t, b, w)
      PROVE  Accounted(arrived'[c], far'[c], t, b, w)
  BY <1>4, <1>8, Zenon DEF Accounted, Reads
<1>9. ASSUME NEW g \in Streams
      PROVE  LET c == Socket(g) IN Accounted(arrived'[c], far'[c], taken'[c], entries'[g].line_buffer, wire'[c])
  <2>1. PICK c \in Conns : c = Socket(g)
    BY <1>6
  <2>2. Accounted(arrived[c], far[c], taken[c], entries[g].line_buffer, wire[c])
    BY <2>1 DEF Inductive, NoByteLost
  <2>3. CASE g # h
    <3>1. c # Socket(h) /\ g \in DOMAIN entries
      BY <2>1, <2>3 DEF Inductive, OneOwner, Streams
    <3>2. taken'[c] = taken[c] /\ wire'[c] = wire[c] /\ entries'[g].line_buffer = entries[g].line_buffer
      BY <2>3, <3>1 DEF Reads
    <3>3. QED
      BY <1>8, <2>1, <2>2, <3>2
  <2>4. CASE g = h
    <3>1. taken'[c] \o entries'[g].line_buffer \o wire'[c] = taken[c] \o entries[g].line_buffer \o wire[c]
      BY <2>1, <2>4 DEF Reads
    <3>2. Accounted(arrived'[c], far'[c], taken[c], entries[g].line_buffer, wire[c])
      BY <1>8, <2>2
    <3>3. Accounted(arrived'[c], far'[c], taken'[c], entries'[g].line_buffer, wire'[c])
      BY <3>1, <3>2, Zenon DEF Accounted
    <3>4. QED
      BY <2>1, <3>3
  <2>5. QED
    BY <2>3, <2>4
<1>10. ASSUME NEW c \in Conns, Unaccepted(c)
       PROVE  Accounted(arrived'[c], far'[c], taken'[c], <<>>, wire'[c])
  <2>1. c # Socket(h)
    BY <1>6, <1>10
  <2>2. taken'[c] = taken[c] /\ wire'[c] = wire[c]
    BY <2>1 DEF Reads
  <2>3. Accounted(arrived[c], far[c], taken[c], <<>>, wire[c])
    BY <1>10 DEF Inductive, NoByteLost
  <2>4. QED
    BY <1>8, <2>2, <2>3
<1>11. NoByteLost'
  BY <1>1, <1>5, <1>9, <1>10 DEF NoByteLost
<1>12. QED
  BY <1>2, <1>7, <1>11

\* A call answers: what it returned is typed, and the counts of the last
\* netSendAll are gone.
LEMMA ReturnsFacts ==
    ASSUME NEW h \in Handle, NEW status \in {"data", "wait", "closed", "error"}, NEW data \in Seq(Byte),
           Returns(h, status, data)
    PROVE  result' \in Result /\ SendAllCounts'
<1>1. result' = [handle |-> h, status |-> status, data |-> data]
  BY DEF Returns
<1>2. result' \in Result
  BY <1>1 DEF Result
<1>3. "total" \notin DOMAIN result'
  BY <1>1
<1>4. QED
  BY <1>2, <1>3 DEF SendAllCounts

\* What a call on the stream h that has b to return from does.
Answers(h, b) ==
    LET c == Socket(h)
    IN /\ SameHandles
       /\ \A g \in DOMAIN entries :
            entries'[g] \in Entry /\ (g # h => entries'[g].line_buffer = entries[g].line_buffer)
       /\ taken' \in [Conns -> Seq(Byte)] /\ lines' \in [Conns -> Seq(Seq(Byte))]
       /\ arrived' = arrived /\ raw' = raw
       /\ \A k \in Conns : k # c => taken'[k] = taken[k]
       /\ \A w : taken'[c] \o entries'[h].line_buffer \o w = taken[c] \o b \o w
       /\ result' \in Result /\ SendAllCounts'

\* A stream, its connection and what is known of them.
LEMMA StreamFacts ==
    ASSUME Inductive, NEW h \in Streams
    PROVE  /\ h \in DOMAIN entries /\ h \in Handle /\ Socket(h) \in Conns
           /\ entries[h].line_buffer \in Seq(Byte) /\ entries[h].peer_closed \in BOOLEAN
           /\ taken[Socket(h)] \in Seq(Byte) /\ wire[Socket(h)] \in Seq(Byte)
           /\ taken \in [Conns -> Seq(Byte)] /\ wire \in [Conns -> Seq(Byte)]
           /\ lines \in [Conns -> Seq(Seq(Byte))]
<1>1. h \in DOMAIN entries /\ Socket(h) \in Conns
  BY DEF Inductive, OneOwner, Streams
<1>2. TypeOK
  BY DEF Inductive
<1>3. QED
  BY <1>1, <1>2, EntryFacts DEF TypeOK

\* Data: n bytes leave b, the line among them.
LEMMA ReturnLineAnswers ==
    ASSUME Inductive, NEW h \in Streams, NEW b \in Seq(Byte), NEW n \in 0..Len(b),
           NEW line \in Seq(Byte), NEW closed \in BOOLEAN, ReturnLine(h, b, n, line, closed)
    PROVE  Answers(h, b) /\ call' = None
<1>1. PICK c \in Conns : c = Socket(h)
  BY StreamFacts
<1>2. /\ h \in DOMAIN entries /\ h \in Handle
      /\ taken \in [Conns -> Seq(Byte)] /\ lines \in [Conns -> Seq(Seq(Byte))] /\ taken[c] \in Seq(Byte)
  BY <1>1, StreamFacts
<1>3. SubSeq(b, 1, n) \in Seq(Byte) /\ SubSeq(b, n + 1, Len(b)) \in Seq(Byte)
  BY Cut
<1>4. TypeOK /\ SetEntry(h, SubSeq(b, n + 1, Len(b)), closed)
  BY DEF Inductive, ReturnLine
<1>5. /\ SameHandles
      /\ \A g \in DOMAIN entries :
           entries'[g] \in Entry /\ (g # h => entries'[g].line_buffer = entries[g].line_buffer)
      /\ entries'[h].line_buffer = SubSeq(b, n + 1, Len(b))
  <2>1. PICK r \in Seq(Byte) : r = SubSeq(b, n + 1, Len(b))
    BY <1>3
  <2>2. SetEntry(h, r, closed)
    BY <1>4, <2>1
  <2>3. h \in DOMAIN entries /\ TypeOK
    BY <1>2, <1>4
  <2>4. /\ DOMAIN entries' = DOMAIN entries
        /\ \A g \in DOMAIN entries :
             /\ entries'[g] \in Entry
             /\ entries'[g].socket = entries[g].socket /\ entries'[g].kind = entries[g].kind
             /\ entries'[g].line_buffer = IF g = h THEN r ELSE entries[g].line_buffer
    BY <2>2, <2>3, SetFacts, Zenon
  <2>5. QED
    BY <2>1, <2>3, <2>4 DEF SameHandles
<1>6. /\ taken' = [taken EXCEPT ![c] = taken[c] \o SubSeq(b, 1, n)]
      /\ lines' = [lines EXCEPT ![c] = Append(lines[c], line)]
      /\ call' = None /\ arrived' = arrived /\ raw' = raw
  BY <1>1 DEF ReturnLine
<1>7. taken[c] \o SubSeq(b, 1, n) \in Seq(Byte) /\ Append(lines[c], line) \in Seq(Seq(Byte))
  BY <1>2, <1>3, ConcatProperties
<1>8. taken' \in [Conns -> Seq(Byte)] /\ lines' \in [Conns -> Seq(Seq(Byte))]
  BY <1>2, <1>6, <1>7
<1>9. taken'[c] = taken[c] \o SubSeq(b, 1, n) /\ \A k \in Conns : k # c => taken'[k] = taken[k]
  BY <1>2, <1>6
<1>10. ASSUME NEW w
       PROVE  taken'[c] \o entries'[h].line_buffer \o w = taken[c] \o b \o w
  <2>1. PICK t \in Seq(Byte) : t = taken[c]
    BY <1>2
  <2>2. (t \o SubSeq(b, 1, n)) \o SubSeq(b, n + 1, Len(b)) \o w = t \o b \o w
    BY Took, Zenon
  <2>3. QED
    BY <1>5, <1>9, <2>1, <2>2
<1>11. result' \in Result /\ SendAllCounts'
  BY <1>2, ReturnsFacts DEF ReturnLine
<1>12. QED
  BY <1>1, <1>5, <1>6, <1>8, <1>9, <1>10, <1>11 DEF Answers

\* A line that ends with a newline.
LEMMA ExtractLineAnswers ==
    ASSUME Inductive, NEW h \in Streams, NEW b \in Seq(Byte), HasLF(b), ExtractLine(h, b)
    PROVE  Answers(h, b) /\ call' = None
<1>1. PICK n : n = FirstLF(b)
  OBVIOUS
<1>2. n \in 1..Len(b) /\ Len(b) \in Nat
  BY <1>1, FirstLFFacts, LenProperties
<1>3. SubSeq(b, 1, n - 1) \in Seq(Byte)
  BY <1>2
<1>4. StripCR(SubSeq(b, 1, n - 1)) \in Seq(Byte)
  BY <1>3, StripType
<1>5. entries[h].peer_closed \in BOOLEAN
  BY StreamFacts
<1>6. ReturnLine(h, b, n, StripCR(SubSeq(b, 1, n - 1)), entries[h].peer_closed)
  BY <1>1 DEF ExtractLine
<1>7. n \in 0..Len(b)
  BY <1>2
<1>8. QED
  BY <1>4, <1>5, <1>6, <1>7, ReturnLineAnswers

\* The end of the stream.
LEMMA ReturnEndAnswers ==
    ASSUME Inductive, NEW h \in Streams, ReturnEnd(h)
    PROVE  Answers(h, entries[h].line_buffer) /\ call' = None
<1>1. PICK b \in Seq(Byte) : b = entries[h].line_buffer
  BY StreamFacts
<1>2. CASE b # <<>> /\ ReturnLine(h, b, Len(b), b, TRUE)
  <2>1. Len(b) \in 0..Len(b)
    BY LenProperties
  <2>2. QED
    BY <1>1, <1>2, <2>1, ReturnLineAnswers
<1>3. CASE /\ b = <<>> /\ SetEntry(h, <<>>, TRUE) /\ Returns(h, "closed", <<>>)
           /\ call' = None /\ UNCHANGED history
  <2>1. /\ h \in DOMAIN entries /\ h \in Handle /\ <<>> \in Seq(Byte) /\ TypeOK
        /\ taken \in [Conns -> Seq(Byte)] /\ lines \in [Conns -> Seq(Seq(Byte))]
    BY StreamFacts DEF Inductive
  <2>2. /\ SameHandles
        /\ \A g \in DOMAIN entries :
             entries'[g] \in Entry /\ (g # h => entries'[g].line_buffer = entries[g].line_buffer)
        /\ entries'[h].line_buffer = <<>>
    BY <1>3, <2>1, SetFacts DEF SameHandles
  <2>3. result' \in Result /\ SendAllCounts'
    BY <1>3, <2>1, ReturnsFacts
  <2>4. UNCHANGED <<taken, lines, arrived, raw>>
    BY <1>3 DEF history
  <2>5. QED
    BY <1>1, <1>3, <2>1, <2>2, <2>3, <2>4 DEF Answers
<1>4. QED
  BY <1>1, <1>2, <1>3 DEF ReturnEnd

\* A step that answers from the line buffer and leaves the kernel alone, but for
\* the end of a reset, reads.
LEMMA AnswersReads ==
    ASSUME Inductive, NEW h \in Streams, NEW b \in Seq(Byte), Answers(h, b),
           taken[Socket(h)] \o b \o wire'[Socket(h)]
             = taken[Socket(h)] \o entries[h].line_buffer \o wire[Socket(h)],
           wire' \in [Conns -> Seq(Byte)], \A k \in Conns : k # Socket(h) => wire'[k] = wire[k],
           call' = None, UNCHANGED <<next_handle, queue, far, unsent>>
    PROVE  Inductive'
<1>1. /\ taken'[Socket(h)] \o entries'[h].line_buffer \o wire'[Socket(h)]
           = taken[Socket(h)] \o b \o wire'[Socket(h)]
      /\ SameHandles /\ arrived' = arrived /\ raw' = raw
      /\ \A g \in DOMAIN entries : g # h => entries'[g].line_buffer = entries[g].line_buffer
      /\ \A k \in Conns : k # Socket(h) => taken'[k] = taken[k]
  BY Zenon DEF Answers
<1>2. Reads(h)
  BY <1>1 DEF Reads
<1>3. GivenOut' /\ OneOwner' /\ NoByteLost'
  BY <1>2, ReadsKeeps
<1>4. /\ DOMAIN entries' = DOMAIN entries /\ \A g \in DOMAIN entries : entries'[g] \in Entry
      /\ taken' \in [Conns -> Seq(Byte)] /\ lines' \in [Conns -> Seq(Seq(Byte))]
      /\ result' \in Result /\ SendAllCounts'
  BY Zenon DEF Answers, SameHandles
<1>5. TypeOK'
  BY <1>1, <1>4 DEF Inductive, TypeOK
<1>6. Counted'
  BY DEF Counted
<1>7. QED
  BY <1>3, <1>4, <1>5, <1>6 DEF Inductive

\* receive_line before its loop.
LEMMA ReceiveLineStep ==
    ASSUME Inductive, NEW h \in Handle, ReceiveLine(h)
    PROVE  Inductive'
<1>1. h \in Streams /\ UNCHANGED <<next_handle, queue, wire, far, unsent>>
  BY DEF ReceiveLine, kernel
<1>2. PICK b \in Seq(Byte) : b = entries[h].line_buffer
  BY <1>1, StreamFacts
<1>3. wire \in [Conns -> Seq(Byte)]
  BY <1>1, StreamFacts
<1>4. CASE Answers(h, b) /\ call' = None
  BY <1>1, <1>2, <1>3, <1>4, AnswersReads
<1>5. CASE HasLF(b) /\ ExtractLine(h, b)
  BY <1>1, <1>4, <1>5, ExtractLineAnswers
<1>6. CASE ReturnEnd(h)
  BY <1>1, <1>2, <1>4, <1>6, ReturnEndAnswers
<1>7. CASE call' = [op |-> "line", handle |-> h] /\ UNCHANGED <<entries, result, history>>
  <2>1. UNCHANGED <<entries, result, arrived, taken, lines, raw>>
    BY <1>7 DEF history
  <2>2. Reads(h)
    BY <1>1, <2>1 DEF Reads, SameHandles
  <2>3. GivenOut' /\ OneOwner' /\ NoByteLost'
    BY <1>1, <2>2, ReadsKeeps
  <2>4. call' \in Call
    BY <1>7 DEF Call
  <2>5. TypeOK'
    BY <1>1, <2>1, <2>4 DEF Inductive, TypeOK
  <2>6. Counted'
    BY <1>1, <1>7, <2>1 DEF Counted, Streams
  <2>7. SendAllCounts'
    BY <2>1 DEF Inductive, SendAllCounts
  <2>8. QED
    BY <2>3, <2>5, <2>6, <2>7 DEF Inductive
<1>8. QED
  BY <1>2, <1>5, <1>6, <1>7 DEF ReceiveLine

\* recv returns bytes.
LEMMA RecvBytesStep ==
    ASSUME Inductive, NEW h \in Handle, RecvBytes(h)
    PROVE  Inductive'
<1>1. h \in Streams /\ UNCHANGED <<next_handle, queue, far, unsent>>
  BY DEF RecvBytes, Reading, Inductive, Counted
<1>2. PICK c \in Conns : c = Socket(h)
  BY <1>1, StreamFacts
<1>3. PICK w \in Seq(Byte) : w = wire[c]
  BY <1>1, <1>2, StreamFacts
<1>4. PICK n : n = Shorter(Chunk, Len(w))
  OBVIOUS
<1>5. n \in 0..Len(w)
  BY <1>4, LenProperties, ConstantsAssumption DEF Shorter
<1>6. SubSeq(w, 1, n) \in Seq(Byte) /\ SubSeq(w, n + 1, Len(w)) \in Seq(Byte)
  BY <1>5, Cut
<1>7. /\ entries[h].line_buffer \in Seq(Byte) /\ taken[c] \in Seq(Byte)
      /\ wire \in [Conns -> Seq(Byte)] /\ taken \in [Conns -> Seq(Byte)]
      /\ h \in DOMAIN entries /\ TypeOK
  BY <1>1, <1>2, StreamFacts DEF Inductive
<1>8. PICK b : b = entries[h].line_buffer \o SubSeq(w, 1, n)
  OBVIOUS
<1>9. b \in Seq(Byte)
  BY <1>6, <1>7, <1>8, ConcatProperties
<1>10. wire' = [wire EXCEPT ![c] = SubSeq(w, n + 1, Len(w))]
  BY <1>2, <1>3, <1>4 DEF RecvBytes
<1>11. /\ wire' \in [Conns -> Seq(Byte)] /\ wire'[c] = SubSeq(w, n + 1, Len(w))
       /\ \A k \in Conns : k # c => wire'[k] = wire[k]
  BY <1>6, <1>7, <1>10
<1>12. taken[c] \o b \o wire'[c] = taken[c] \o entries[h].line_buffer \o wire[c]
  <2>1. PICK t \in Seq(Byte), l \in Seq(Byte) : t = taken[c] /\ l = entries[h].line_buffer
    BY <1>7
  <2>2. t \o (l \o SubSeq(w, 1, n)) \o SubSeq(w, n + 1, Len(w)) = t \o l \o w
    BY <1>5, Came
  <2>3. QED
    BY <1>3, <1>8, <1>11, <2>1, <2>2
<1>13. CASE HasLF(b) /\ ExtractLine(h, b)
  <2>1. Answers(h, b) /\ call' = None
    BY <1>1, <1>9, <1>13, ExtractLineAnswers
  <2>2. QED
    BY <1>1, <1>2, <1>9, <1>11, <1>12, <2>1, AnswersReads
<1>14. ASSUME SetEntry(h, b, FALSE), UNCHANGED history
       PROVE  Reads(h) /\ \A g \in DOMAIN entries : entries'[g] \in Entry
  <2>1. UNCHANGED <<arrived, taken, lines, raw>>
    BY <1>14 DEF history
  <2>2. /\ DOMAIN entries' = DOMAIN entries
        /\ \A g \in DOMAIN entries :
             /\ entries'[g] \in Entry
             /\ entries'[g].socket = entries[g].socket /\ entries'[g].kind = entries[g].kind
             /\ entries'[g].line_buffer = IF g = h THEN b ELSE entries[g].line_buffer
    BY <1>7, <1>9, <1>14, SetFacts
  <2>3. SameHandles
    BY <2>2 DEF SameHandles
  <2>4. entries'[h].line_buffer = b
    BY <1>7, <2>2
  <2>5. taken'[c] \o entries'[h].line_buffer \o wire'[c] = taken[c] \o entries[h].line_buffer \o wire[c]
    BY <1>12, <2>1, <2>4
  <2>6. QED
    BY <1>1, <1>2, <1>11, <2>1, <2>2, <2>3, <2>5 DEF Reads
<1>15. CASE SetEntry(h, b, FALSE) /\ Returns(h, "error", <<>>) /\ call' = None /\ UNCHANGED history
  <2>1. Reads(h) /\ \A g \in DOMAIN entries : entries'[g] \in Entry
    BY <1>14, <1>15
  <2>2. GivenOut' /\ OneOwner' /\ NoByteLost'
    BY <1>1, <2>1, ReadsKeeps
  <2>3. result' \in Result /\ SendAllCounts'
    <3>1. <<>> \in Seq(Byte)
      OBVIOUS
    <3>2. QED
      BY <1>15, <3>1, ReturnsFacts
  <2>4. TypeOK'
    BY <1>1, <1>11, <1>15, <2>1, <2>3 DEF Inductive, TypeOK, history, Reads, SameHandles
  <2>5. QED
    BY <1>15, <2>2, <2>3, <2>4 DEF Inductive, Counted
<1>16. CASE SetEntry(h, b, FALSE) /\ UNCHANGED <<call, result, history>>
  <2>1. Reads(h) /\ \A g \in DOMAIN entries : entries'[g] \in Entry
    BY <1>14, <1>16
  <2>2. GivenOut' /\ OneOwner' /\ NoByteLost'
    BY <1>1, <2>1, ReadsKeeps
  <2>3. SendAllCounts'
    BY <1>16 DEF Inductive, SendAllCounts
  <2>4. TypeOK'
    BY <1>1, <1>11, <1>16, <2>1 DEF Inductive, TypeOK, history, Reads, SameHandles
  <2>5. Streams' = Streams
    BY <2>1, SameStreams DEF Reads
  <2>6. Counted'
    BY <1>16, <2>5 DEF Inductive, Counted
  <2>7. QED
    BY <2>2, <2>3, <2>4, <2>6 DEF Inductive
<1>17. QED
  BY <1>2, <1>3, <1>4, <1>8, <1>13, <1>15, <1>16 DEF RecvBytes

\* recv returns 0.
LEMMA RecvEndStep ==
    ASSUME Inductive, NEW h \in Handle, RecvEnd(h)
    PROVE  Inductive'
<1>1. h \in Streams /\ UNCHANGED <<next_handle, queue, wire, far, unsent>>
  BY DEF RecvEnd, Reading, Inductive, Counted, kernel
<1>2. PICK b \in Seq(Byte) : b = entries[h].line_buffer
  BY <1>1, StreamFacts
<1>3. Answers(h, b) /\ call' = None
  BY <1>1, <1>2, ReturnEndAnswers DEF RecvEnd
<1>4. wire \in [Conns -> Seq(Byte)]
  BY <1>1, StreamFacts
<1>5. QED
  BY <1>1, <1>2, <1>3, <1>4, AnswersReads

\* A call that answers and moves nothing, but may see the end of a reset.
LEMMA NothingRead ==
    ASSUME Inductive, NEW h \in Streams, UNCHANGED <<next_handle, queue, wire, unsent, arrived, taken, lines>>,
           SameHandles,
           \A g \in DOMAIN entries : entries'[g] \in Entry /\ entries'[g].line_buffer = entries[g].line_buffer,
           UNCHANGED far \/ (far[Socket(h)] = "reset" /\ far' = [far EXCEPT ![Socket(h)] = "failed"]),
           call' = None, result' \in Result, SendAllCounts', raw' \subseteq Conns
    PROVE  Inductive'
<1>1. far \in [Conns -> {"none", "open", "closed", "reset", "failed"}] /\ Socket(h) \in Conns /\ h \in DOMAIN entries
  BY StreamFacts DEF Inductive, TypeOK
<1>2. /\ far' \in [Conns -> {"none", "open", "closed", "reset", "failed"}]
      /\ \A k \in Conns : far'[k] = far[k] \/ (far[k] = "reset" /\ far'[k] = "failed")
  BY <1>1
<1>3. Reads(h)
  BY <1>1, <1>2 DEF Reads
<1>4. GivenOut' /\ OneOwner' /\ NoByteLost'
  BY <1>3, ReadsKeeps
<1>5. TypeOK'
  BY <1>2 DEF Inductive, TypeOK, SameHandles
<1>6. QED
  BY <1>4, <1>5 DEF Inductive, Counted

\* recv would block, or reports a reset.
LEMMA RecvNothingStep ==
    ASSUME Inductive, NEW h \in Handle, RecvWait(h) \/ RecvError(h)
    PROVE  Inductive'
<1>1. /\ h \in Streams /\ UNCHANGED <<entries, next_handle, queue, wire, unsent, arrived, taken, lines, raw>>
      /\ call' = None
      /\ UNCHANGED far \/ (far[Socket(h)] = "reset" /\ far' = [far EXCEPT ![Socket(h)] = "failed"])
  BY DEF RecvWait, RecvError, Reading, Inductive, Counted, kernel, history
<1>2. result' \in Result /\ SendAllCounts'
  <2>1. <<>> \in Seq(Byte) /\ (Returns(h, "wait", <<>>) \/ Returns(h, "error", <<>>))
    BY DEF RecvWait, RecvError
  <2>2. QED
    BY <2>1, ReturnsFacts
<1>3. SameHandles /\ \A g \in DOMAIN entries : entries'[g] \in Entry
  BY <1>1 DEF SameHandles, Inductive, TypeOK
<1>4. raw' \subseteq Conns
  BY <1>1 DEF Inductive, TypeOK
<1>5. QED
  BY <1>1, <1>2, <1>3, <1>4, NothingRead

\* receive: bytes of the line buffer, else bytes of the kernel.
LEMMA ReceiveStep ==
    ASSUME Inductive, NEW h \in Handle, NEW max \in Nat, Receive(h, max)
    PROVE  Inductive'
<1>1. h \in Streams /\ call = None /\ UNCHANGED <<next_handle, queue, unsent, call, arrived, lines>>
  BY DEF Receive, Idle
<1>2. PICK c \in Conns : c = Socket(h)
  BY <1>1, StreamFacts
<1>3. PICK w \in Seq(Byte), b \in Seq(Byte), t \in Seq(Byte) :
        w = wire[c] /\ b = entries[h].line_buffer /\ t = taken[c]
  BY <1>1, <1>2, StreamFacts
<1>4. PICK n, m : n = Shorter(max, Len(b)) /\ m = Shorter(max, Len(w))
  OBVIOUS
<1>5. n \in 0..Len(b) /\ m \in 0..Len(w)
  BY <1>4, LenProperties DEF Shorter
<1>6. /\ SubSeq(b, 1, n) \in Seq(Byte) /\ SubSeq(b, n + 1, Len(b)) \in Seq(Byte)
      /\ SubSeq(w, 1, m) \in Seq(Byte) /\ SubSeq(w, m + 1, Len(w)) \in Seq(Byte)
  BY <1>5, Cut
<1>7. /\ wire \in [Conns -> Seq(Byte)] /\ taken \in [Conns -> Seq(Byte)]
      /\ h \in DOMAIN entries /\ TypeOK /\ entries[h].peer_closed \in BOOLEAN
  BY <1>1, <1>2, StreamFacts DEF Inductive
<1>8. raw' \subseteq Conns
  BY <1>2 DEF Receive, Inductive, TypeOK
<1>9. ASSUME Reads(h), NEW data \in Seq(Byte), Returns(h, "data", data),
             \A g \in DOMAIN entries : entries'[g] \in Entry,
             wire' \in [Conns -> Seq(Byte)], taken' \in [Conns -> Seq(Byte)], UNCHANGED far
      PROVE  Inductive'
  <2>1. GivenOut' /\ OneOwner' /\ NoByteLost'
    BY <1>1, <1>9, ReadsKeeps
  <2>2. result' \in Result /\ SendAllCounts'
    BY <1>9, ReturnsFacts
  <2>3. TypeOK'
    BY <1>1, <1>7, <1>8, <1>9, <2>2 DEF TypeOK, Reads, SameHandles
  <2>4. QED
    BY <1>1, <2>1, <2>2, <2>3 DEF Inductive, Counted
<1>10. CASE /\ ReturnBytes(h, SubSeq(b, 1, n))
            /\ SetEntry(h, SubSeq(b, n + 1, Len(b)), entries[h].peer_closed)
            /\ UNCHANGED <<wire, far>>
  <2>1. PICK r \in Seq(Byte), closed \in BOOLEAN : r = SubSeq(b, n + 1, Len(b)) /\ closed = entries[h].peer_closed
    BY <1>6, <1>7
  <2>2. SetEntry(h, r, closed) /\ h \in DOMAIN entries /\ TypeOK
    BY <1>7, <1>10, <2>1
  <2>3. /\ DOMAIN entries' = DOMAIN entries
        /\ \A g \in DOMAIN entries :
             /\ entries'[g] \in Entry
             /\ entries'[g].socket = entries[g].socket /\ entries'[g].kind = entries[g].kind
             /\ entries'[g].line_buffer = IF g = h THEN r ELSE entries[g].line_buffer
    <3>1. \A x \in Seq(Byte) : \A f \in BOOLEAN : SetEntry(h, x, f) =>
            /\ DOMAIN entries' = DOMAIN entries
            /\ \A g \in DOMAIN entries :
                 /\ entries'[g] \in Entry
                 /\ entries'[g].socket = entries[g].socket /\ entries'[g].kind = entries[g].kind
                 /\ entries'[g].line_buffer = IF g = h THEN x ELSE entries[g].line_buffer
      BY <2>2, SetFacts
    <3>2. QED
      BY <2>2, <3>1, Zenon
  <2>4. SameHandles
    BY <2>3 DEF SameHandles
  <2>5. taken' = [taken EXCEPT ![c] = t \o SubSeq(b, 1, n)]
    BY <1>2, <1>3, <1>10 DEF ReturnBytes
  <2>6. t \o SubSeq(b, 1, n) \in Seq(Byte)
    BY <1>6, ConcatProperties
  <2>7. /\ taken' \in [Conns -> Seq(Byte)] /\ taken'[c] = t \o SubSeq(b, 1, n)
        /\ \A k \in Conns : k # c => taken'[k] = taken[k]
    BY <1>7, <2>5, <2>6
  <2>8. (t \o SubSeq(b, 1, n)) \o SubSeq(b, n + 1, Len(b)) \o w = t \o b \o w
    BY <1>5, Took
  <2>9. taken'[c] \o entries'[h].line_buffer \o wire'[c] = taken[c] \o entries[h].line_buffer \o wire[c]
    BY <1>3, <1>7, <1>10, <2>1, <2>3, <2>7, <2>8
  <2>10. Reads(h)
    BY <1>1, <1>2, <1>10, <2>3, <2>4, <2>7, <2>9 DEF Reads
  <2>11. QED
    BY <1>6, <1>7, <1>9, <1>10, <2>3, <2>7, <2>10 DEF ReturnBytes
<1>11. CASE /\ b = <<>> /\ ReturnBytes(h, SubSeq(w, 1, m))
            /\ wire' = [wire EXCEPT ![c] = SubSeq(w, m + 1, Len(w))]
            /\ UNCHANGED <<entries, far>>
  <2>1. taken' = [taken EXCEPT ![c] = t \o SubSeq(w, 1, m)]
    BY <1>2, <1>3, <1>11 DEF ReturnBytes
  <2>2. t \o SubSeq(w, 1, m) \in Seq(Byte)
    BY <1>6, ConcatProperties
  <2>3. /\ taken' \in [Conns -> Seq(Byte)] /\ taken'[c] = t \o SubSeq(w, 1, m)
        /\ \A k \in Conns : k # c => taken'[k] = taken[k]
    BY <1>7, <2>1, <2>2
  <2>4. /\ wire' \in [Conns -> Seq(Byte)] /\ wire'[c] = SubSeq(w, m + 1, Len(w))
        /\ \A k \in Conns : k # c => wire'[k] = wire[k]
    BY <1>6, <1>7, <1>11
  <2>5. (t \o SubSeq(w, 1, m)) \o SubSeq(w, m + 1, Len(w)) \o <<>> = t \o w \o <<>>
    BY <1>5, Took
  <2>6. /\ (t \o SubSeq(w, 1, m)) \o SubSeq(w, m + 1, Len(w)) \in Seq(Byte)
        /\ t \o w \in Seq(Byte)
    BY <1>6, <2>2, ConcatProperties
  <2>7. (t \o SubSeq(w, 1, m)) \o SubSeq(w, m + 1, Len(w)) = t \o w
    BY <2>5, <2>6, ConcatEmptySeq
  <2>8. t \o <<>> = t /\ (t \o SubSeq(w, 1, m)) \o <<>> = t \o SubSeq(w, 1, m)
    BY <2>2, ConcatEmptySeq
  <2>9. taken'[c] \o entries'[h].line_buffer \o wire'[c] = taken[c] \o entries[h].line_buffer \o wire[c]
    BY <1>3, <1>11, <2>3, <2>4, <2>7, <2>8
  <2>10. Reads(h)
    BY <1>1, <1>2, <1>11, <2>3, <2>4, <2>9 DEF Reads, SameHandles
  <2>11. \A g \in DOMAIN entries : entries'[g] \in Entry
    BY <1>7, <1>11 DEF TypeOK
  <2>12. QED
    BY <1>6, <1>9, <1>11, <2>3, <2>4, <2>10, <2>11 DEF ReturnBytes
<1>12. CASE b = <<>> /\ SetEntry(h, <<>>, TRUE) /\ Returns(h, "closed", <<>>) /\ UNCHANGED <<wire, far, taken>>
  <2>1. <<>> \in Seq(Byte) /\ TRUE \in BOOLEAN
    OBVIOUS
  <2>2. /\ DOMAIN entries' = DOMAIN entries
        /\ \A g \in DOMAIN entries :
             /\ entries'[g] \in Entry
             /\ entries'[g].socket = entries[g].socket /\ entries'[g].kind = entries[g].kind
             /\ entries'[g].line_buffer = IF g = h THEN <<>> ELSE entries[g].line_buffer
    BY <1>7, <1>12, <2>1, SetFacts, Zenon
  <2>3. SameHandles /\ \A g \in DOMAIN entries : entries'[g].line_buffer = entries[g].line_buffer
    BY <1>3, <1>12, <2>2 DEF SameHandles
  <2>4. result' \in Result /\ SendAllCounts'
    BY <1>12, <2>1, ReturnsFacts
  <2>5. QED
    BY <1>1, <1>8, <1>12, <2>2, <2>3, <2>4, NothingRead
<1>13. CASE /\ UNCHANGED <<entries, wire, taken>>
            /\ Returns(h, "error", <<>>) \/ Returns(h, "wait", <<>>)
            /\ UNCHANGED far \/ (far[c] = "reset" /\ far' = [far EXCEPT ![c] = "failed"])
  <2>1. result' \in Result /\ SendAllCounts'
    <3>1. <<>> \in Seq(Byte)
      OBVIOUS
    <3>2. QED
      BY <1>13, <3>1, ReturnsFacts
  <2>2. SameHandles /\ \A g \in DOMAIN entries : entries'[g] \in Entry
    BY <1>7, <1>13 DEF SameHandles, TypeOK
  <2>3. QED
    BY <1>1, <1>2, <1>8, <1>13, <2>1, <2>2, NothingRead
<1>14. QED
  BY <1>2, <1>3, <1>4, <1>10, <1>11, <1>12, <1>13 DEF Receive

-----------------------------------------------------------------------------
(* netSendAll *)

\* Entries, connections and what is read stay: the invariant needs only the call
\* and its result.
LEMMA OnlyTheCall ==
    ASSUME Inductive, UNCHANGED <<entries, next_handle, queue, wire, far, arrived, taken, lines, raw>>,
           unsent' \in [Conns -> 0..SendBuffer], call' \in Call \cup {None}, result' \in Result \cup {None},
           SendAllCounts',
           call' # None =>
             /\ call'.handle \in Streams
             /\ call'.op = "send" => /\ call'.written = call'.total + call'.sent
                                     /\ call'.short => call'.sent = 0
    PROVE  Inductive'
<1>1. TypeOK'
  BY DEF Inductive, TypeOK
<1>2. Streams' = Streams
  BY DEF Streams
<1>3. GivenOut' /\ Counted'
  BY <1>2 DEF Inductive, GivenOut, Counted
<1>4. OneOwner'
  BY <1>2 DEF Inductive, OneOwner, Unaccepted, Socket
<1>5. NoByteLost'
  BY <1>2 DEF Inductive, NoByteLost, Unaccepted, Socket
<1>6. QED
  BY <1>1, <1>3, <1>4, <1>5 DEF Inductive

\* netSendAll begins.
LEMMA SendAllStep ==
    ASSUME Inductive, NEW h \in Handle, NEW n \in Nat, NEW d \in BOOLEAN, SendAll(h, n, d)
    PROVE  Inductive'
<1>1. /\ h \in Streams
      /\ UNCHANGED <<entries, next_handle, queue, wire, far, unsent, result, arrived, taken, lines, raw>>
      /\ call' = [op |-> "send", handle |-> h, size |-> n, total |-> 0, sent |-> 0,
                  deadline |-> d, short |-> FALSE, written |-> 0]
  BY DEF SendAll, kernel, history
<1>2. call' \in Call
  BY <1>1 DEF Call
<1>3. SendAllCounts'
  BY <1>1 DEF Inductive, SendAllCounts
<1>4. /\ call'.handle \in Streams
      /\ call'.written = call'.total + call'.sent /\ (call'.short => call'.sent = 0)
  BY <1>1
<1>5. unsent' \in [Conns -> 0..SendBuffer] /\ result' \in Result \cup {None}
  BY <1>1 DEF Inductive, TypeOK
<1>6. QED
  BY <1>1, <1>2, <1>3, <1>4, <1>5, OnlyTheCall

\* A netSendAll in progress.
LEMMA SendingFacts ==
    ASSUME Inductive, NEW h, Sending(h)
    PROVE  /\ call = [op |-> "send", handle |-> h, size |-> call.size, total |-> call.total,
                      sent |-> call.sent, deadline |-> call.deadline, short |-> call.short,
                      written |-> call.written]
           /\ call.size \in Nat /\ call.total \in Nat /\ call.sent \in Nat /\ call.written \in Nat
           /\ call.deadline \in BOOLEAN /\ call.short \in BOOLEAN
           /\ call.written = call.total + call.sent /\ (call.short => call.sent = 0)
           /\ h \in Streams /\ h \in Handle /\ Socket(h) \in Conns
<1>1. call \in Call /\ call.op = "send" /\ call.handle = h
  BY DEF Inductive, TypeOK, Sending
<1>2. call \in [op : {"send"}, handle : Handle, size : Nat, total : Nat, sent : Nat,
                deadline : BOOLEAN, short : BOOLEAN, written : Nat]
  BY <1>1 DEF Call
<1>3. h \in Streams /\ call.written = call.total + call.sent /\ (call.short => call.sent = 0)
  BY <1>1 DEF Inductive, Counted, Sending
<1>4. Socket(h) \in Conns
  BY <1>3, StreamFacts
<1>5. QED
  BY <1>1, <1>2, <1>3, <1>4

\* ::send takes bytes.
LEMMA SendBytesStep ==
    ASSUME Inductive, NEW h, NEW n \in Nat, SendBytes(h, n)
    PROVE  Inductive'
<1>1. Sending(h)
  BY DEF SendBytes
<1>2. PICK z, t, s, d, x, w :
        /\ call = [op |-> "send", handle |-> h, size |-> z, total |-> t, sent |-> s,
                   deadline |-> d, short |-> x, written |-> w]
        /\ z \in Nat /\ t \in Nat /\ s \in Nat /\ w \in Nat /\ d \in BOOLEAN /\ w = t + s
        /\ h \in Streams /\ h \in Handle /\ Socket(h) \in Conns
  BY <1>1, SendingFacts
<1>3. call' = [call EXCEPT !.sent = call.sent + n, !.written = call.written + n, !.short = FALSE]
  BY DEF SendBytes
<1>4. call' = [op |-> "send", handle |-> h, size |-> z, total |-> t, sent |-> s + n,
               deadline |-> d, short |-> FALSE, written |-> w + n]
  BY <1>2, <1>3
<1>5. call' \in Call
  BY <1>2, <1>4 DEF Call
<1>6. /\ call'.handle \in Streams
      /\ call'.written = call'.total + call'.sent /\ (call'.short => call'.sent = 0)
  BY <1>2, <1>4
<1>7. /\ unsent \in [Conns -> 0..SendBuffer] /\ SendBuffer \in Nat
      /\ unsent' = [unsent EXCEPT ![Socket(h)] = unsent[Socket(h)] + n]
      /\ unsent[Socket(h)] + n <= SendBuffer
  BY ConstantsAssumption DEF Inductive, TypeOK, SendBytes
<1>8. unsent' \in [Conns -> 0..SendBuffer]
  <2>1. unsent[Socket(h)] + n \in 0..SendBuffer
    BY <1>2, <1>7
  <2>2. QED
    BY <1>7, <2>1
<1>9. UNCHANGED <<entries, next_handle, queue, wire, far, result, arrived, taken, lines, raw>>
  BY DEF SendBytes, history
<1>10. SendAllCounts' /\ result' \in Result \cup {None}
  BY <1>9 DEF Inductive, SendAllCounts, TypeOK
<1>11. QED
  BY <1>5, <1>6, <1>8, <1>9, <1>10, OnlyTheCall

\* ::send would block: what was sent goes to the total.
LEMMA SendWouldBlockStep ==
    ASSUME Inductive, NEW h, SendWouldBlock(h)
    PROVE  Inductive'
<1>1. Sending(h)
  BY DEF SendWouldBlock
<1>2. PICK z, t, s, d, x, w :
        /\ call = [op |-> "send", handle |-> h, size |-> z, total |-> t, sent |-> s,
                   deadline |-> d, short |-> x, written |-> w]
        /\ z \in Nat /\ t \in Nat /\ s \in Nat /\ w \in Nat /\ d \in BOOLEAN /\ w = t + s
        /\ h \in Streams /\ h \in Handle
  BY <1>1, SendingFacts
<1>3. call' = [call EXCEPT !.total = call.total + call.sent, !.sent = 0, !.short = TRUE]
  BY DEF SendWouldBlock
<1>4. call' = [op |-> "send", handle |-> h, size |-> z, total |-> t + s, sent |-> 0,
               deadline |-> d, short |-> TRUE, written |-> w]
  BY <1>2, <1>3
<1>5. call' \in Call
  BY <1>2, <1>4 DEF Call
<1>6. /\ call'.handle \in Streams
      /\ call'.written = call'.total + call'.sent /\ (call'.short => call'.sent = 0)
  BY <1>2, <1>4
<1>7. UNCHANGED <<entries, next_handle, queue, wire, far, unsent, result, arrived, taken, lines, raw>>
  BY DEF SendWouldBlock, kernel, history
<1>8. /\ SendAllCounts' /\ result' \in Result \cup {None}
      /\ unsent' \in [Conns -> 0..SendBuffer]
  BY <1>7 DEF Inductive, SendAllCounts, TypeOK
<1>9. QED
  BY <1>5, <1>6, <1>7, <1>8, OnlyTheCall

\* netSendAll ends.
LEMMA SendEnds ==
    ASSUME Inductive, NEW h, SendDone(h) \/ SendTimesOut(h) \/ SendFails(h)
    PROVE  Inductive'
<1>1. Sending(h)
  BY DEF SendDone, SendTimesOut, SendFails
<1>2. /\ call.total \in Nat /\ call.sent \in Nat /\ call.written \in Nat
      /\ call.written = call.total + call.sent /\ (call.short => call.sent = 0)
      /\ h \in Handle
  BY <1>1, SendingFacts
<1>3. PICK status \in {"sent", "timeout", "send failed"}, total \in Nat :
        /\ EndSend(h, status, total)
        /\ total <= call.written /\ (status = "send failed" \/ total = call.written)
  <2>. DEFINE Ends(status, total) ==
         /\ EndSend(h, status, total)
         /\ total <= call.written /\ (status = "send failed" \/ total = call.written)
  <2>0. /\ "sent" \in {"sent", "timeout", "send failed"} /\ "timeout" \in {"sent", "timeout", "send failed"}
        /\ "send failed" \in {"sent", "timeout", "send failed"}
    OBVIOUS
  <2>1. CASE SendDone(h)
    <3>1. Ends("sent", call.total + call.sent) /\ call.total + call.sent \in Nat
      BY <1>2, <2>1 DEF SendDone
    <3>2. QED
      BY <2>0, <3>1, Zenon
  <2>2. CASE SendTimesOut(h)
    <3>1. Ends("timeout", call.total) /\ call.total \in Nat
      BY <1>2, <2>2 DEF SendTimesOut
    <3>2. QED
      BY <2>0, <3>1, Zenon
  <2>3. CASE SendFails(h)
    <3>1. EndSend(h, "send failed", call.total)
      BY <2>3, Zenon DEF SendFails
    <3>2. call.total <= call.written
      BY <1>2
    <3>3. Ends("send failed", call.total) /\ call.total \in Nat
      BY <1>2, <3>1, <3>2, Zenon
    <3>4. QED
      BY <2>0, <3>3, Zenon
  <2>4. QED
    BY <2>1, <2>2, <2>3
<1>4. /\ result' = [handle |-> h, status |-> status, total |-> total, written |-> call.written]
      /\ call' = None
  BY <1>3 DEF EndSend
<1>5. result' \in Result
  BY <1>2, <1>4 DEF Result
<1>6. SendAllCounts'
  BY <1>3, <1>4 DEF SendAllCounts
<1>7. UNCHANGED <<entries, next_handle, queue, wire, far, unsent, arrived, taken, lines, raw>>
  BY DEF SendDone, SendTimesOut, SendFails, kernel, history
<1>8. unsent' \in [Conns -> 0..SendBuffer]
  BY <1>7 DEF Inductive, TypeOK
<1>9. QED
  BY <1>4, <1>5, <1>6, <1>7, <1>8, OnlyTheCall

-----------------------------------------------------------------------------
(* Handles come and go *)

\* A new handle, with an empty line buffer.
LEMMA AddFacts ==
    ASSUME Inductive, NEW c \in Conns \cup {None}, NEW kind \in {"Listener", "Stream"}, Add(c, kind)
    PROVE  /\ next_handle \notin DOMAIN entries /\ next_handle \in Handle
           /\ DOMAIN entries' = DOMAIN entries \cup {next_handle}
           /\ \A g \in DOMAIN entries : entries'[g] = entries[g]
           /\ entries'[next_handle] = [socket |-> c, kind |-> kind, line_buffer |-> <<>>, peer_closed |-> FALSE]
           /\ DOMAIN entries' \subseteq Handle /\ \A g \in DOMAIN entries' : entries'[g] \in Entry
           /\ next_handle' \in 1..MaxHandle + 1 /\ GivenOut'
<1>1. /\ next_handle \in 1..MaxHandle + 1 /\ DOMAIN entries \subseteq Handle
      /\ \A g \in DOMAIN entries : entries[g] \in Entry /\ g < next_handle
      /\ next_handle <= MaxHandle /\ next_handle' = next_handle + 1 /\ MaxHandle \in Nat
      /\ entries' = NewEntry(next_handle, c, kind)
  BY ConstantsAssumption DEF Inductive, TypeOK, GivenOut, Add
<1>2. next_handle \notin DOMAIN entries
  BY <1>1
<1>3. next_handle \in Handle
  BY <1>1 DEF Handle
<1>4. PICK e : e = [socket |-> c, kind |-> kind, line_buffer |-> <<>>, peer_closed |-> FALSE]
  OBVIOUS
<1>5. e \in Entry
  <2>1. <<>> \in Seq(Byte)
    OBVIOUS
  <2>2. QED
    BY <1>4, <2>1 DEF Entry
<1>6. entries' = [g \in DOMAIN entries \cup {next_handle} |-> IF g = next_handle THEN e ELSE entries[g]]
  BY <1>1, <1>4 DEF NewEntry
<1>7. /\ DOMAIN entries' = DOMAIN entries \cup {next_handle}
      /\ \A g \in DOMAIN entries : entries'[g] = entries[g]
      /\ entries'[next_handle] = e
  BY <1>2, <1>6
<1>8. DOMAIN entries' \subseteq Handle /\ \A g \in DOMAIN entries' : entries'[g] \in Entry
  BY <1>1, <1>3, <1>5, <1>7
<1>9. next_handle' \in 1..MaxHandle + 1
  BY <1>1
<1>10. GivenOut'
  <2>1. \A g \in DOMAIN entries : g \in Handle /\ g < next_handle
    BY <1>1
  <2>2. \A g \in DOMAIN entries' : g < next_handle'
    BY <1>1, <1>7, <2>1 DEF Handle
  <2>3. QED
    BY <2>2 DEF GivenOut
<1>11. QED
  BY <1>2, <1>3, <1>4, <1>7, <1>8, <1>9, <1>10

\* A listener is nobody's connection.
LEMMA ListenStep ==
    ASSUME Inductive, Listen
    PROVE  Inductive'
<1>1. /\ Add(None, "Listener") /\ call = None
      /\ UNCHANGED <<queue, wire, far, unsent, call, result, arrived, taken, lines, raw>>
  BY DEF Listen, Idle, kernel, history
<1>2. /\ next_handle \notin DOMAIN entries
      /\ DOMAIN entries' = DOMAIN entries \cup {next_handle}
      /\ \A g \in DOMAIN entries : entries'[g] = entries[g]
      /\ entries'[next_handle].kind = "Listener"
      /\ DOMAIN entries' \subseteq Handle /\ \A g \in DOMAIN entries' : entries'[g] \in Entry
      /\ next_handle' \in 1..MaxHandle + 1 /\ GivenOut'
  <2>1. /\ None \in Conns \cup {None} /\ "Listener" \in {"Listener", "Stream"}
        /\ Add(None, "Listener")
    BY <1>1
  <2>2. PICK e : e = [socket |-> None, kind |-> "Listener", line_buffer |-> <<>>, peer_closed |-> FALSE]
    OBVIOUS
  <2>3. entries'[next_handle] = e
    BY <2>1, <2>2, AddFacts
  <2>4. /\ next_handle \notin DOMAIN entries
        /\ DOMAIN entries' = DOMAIN entries \cup {next_handle}
        /\ \A g \in DOMAIN entries : entries'[g] = entries[g]
        /\ DOMAIN entries' \subseteq Handle /\ \A g \in DOMAIN entries' : entries'[g] \in Entry
        /\ next_handle' \in 1..MaxHandle + 1 /\ GivenOut'
    BY <2>1, AddFacts, Zenon
  <2>5. QED
    BY <2>2, <2>3, <2>4
<1>3. Streams' = Streams
  BY <1>2 DEF Streams
<1>4. \A h \in Streams : entries'[h] = entries[h]
  BY <1>2 DEF Streams
<1>5. TypeOK'
  BY <1>1, <1>2 DEF Inductive, TypeOK
<1>6. OneOwner'
  BY <1>1, <1>3, <1>4 DEF Inductive, OneOwner, Unaccepted, Socket
<1>7. NoByteLost'
  BY <1>1, <1>3, <1>4 DEF Inductive, NoByteLost, Unaccepted, Socket
<1>8. QED
  BY <1>1, <1>2, <1>5, <1>6, <1>7 DEF Inductive, Counted, SendAllCounts

\* No byte moves, handles come and go: a handle that comes is that of a
\* connection nobody had accepted, with an empty line buffer.
Resettles ==
    /\ UNCHANGED <<wire, arrived, taken>>
    /\ \A c \in Conns : far'[c] \in {"none", "open", "closed"} => far[c] \in {"none", "open", "closed"}
    /\ \A c \in Conns : Unaccepted(c)' => Unaccepted(c)
    /\ \A h \in Streams' :
         \/ h \in Streams /\ entries'[h] = entries[h]
         \/ /\ entries'[h].socket \in Conns /\ Unaccepted(entries'[h].socket)
            /\ entries'[h].line_buffer = <<>>

\* Then no byte is lost.
LEMMA ResettledKeeps ==
    ASSUME Inductive, Resettles
    PROVE  NoByteLost'
<1>1. ASSUME NEW c \in Conns, NEW t, NEW b, NEW w, Accounted(arrived[c], far[c], t, b, w)
      PROVE  Accounted(arrived'[c], far'[c], t, b, w)
  <2>1. arrived' = arrived /\ (far'[c] \in {"none", "open", "closed"} => far[c] \in {"none", "open", "closed"})
    BY DEF Resettles
  <2>2. QED
    BY <1>1, <2>1, Zenon DEF Accounted
<1>2. ASSUME NEW c \in Conns, Unaccepted(c)
      PROVE  Accounted(arrived'[c], far'[c], taken'[c], <<>>, wire'[c])
  <2>1. Accounted(arrived[c], far[c], taken[c], <<>>, wire[c])
    BY <1>2 DEF Inductive, NoByteLost
  <2>2. taken' = taken /\ wire' = wire
    BY DEF Resettles
  <2>3. QED
    BY <1>1, <2>1, <2>2
<1>3. ASSUME NEW h \in Streams'
      PROVE  LET c == entries'[h].socket
             IN Accounted(arrived'[c], far'[c], taken'[c], entries'[h].line_buffer, wire'[c])
  <2>1. CASE h \in Streams /\ entries'[h] = entries[h]
    <3>1. PICK c \in Conns : c = entries[h].socket
      BY <2>1 DEF Inductive, OneOwner, Socket
    <3>2. Accounted(arrived[c], far[c], taken[c], entries[h].line_buffer, wire[c])
      BY <2>1, <3>1 DEF Inductive, NoByteLost, Socket
    <3>3. taken' = taken /\ wire' = wire
      BY DEF Resettles
    <3>4. Accounted(arrived'[c], far'[c], taken'[c], entries[h].line_buffer, wire'[c])
      BY <1>1, <3>2, <3>3
    <3>5. QED
      BY <2>1, <3>1, <3>4
  <2>2. CASE /\ entries'[h].socket \in Conns /\ Unaccepted(entries'[h].socket)
             /\ entries'[h].line_buffer = <<>>
    <3>1. PICK c \in Conns : c = entries'[h].socket
      BY <2>2
    <3>2. Unaccepted(c)
      BY <2>2, <3>1
    <3>3. Accounted(arrived'[c], far'[c], taken'[c], <<>>, wire'[c])
      BY <1>2, <3>2
    <3>4. QED
      BY <2>2, <3>1, <3>3
  <2>3. QED
    BY <2>1, <2>2 DEF Resettles
<1>4. \A c \in Conns : Unaccepted(c)' => Unaccepted(c)
  BY DEF Resettles
<1>5. \A c \in Conns : Unaccepted(c)' => Accounted(arrived'[c], far'[c], taken'[c], <<>>, wire'[c])
  BY <1>2, <1>4
<1>6. QED
  BY <1>3, <1>5 DEF NoByteLost, Socket

\* A connection that nobody had gets a handle.
LEMMA Owned ==
    ASSUME Inductive, NEW c \in Conns, Add(c, "Stream"), Unaccepted(c),
           UNCHANGED <<wire, arrived, taken>>,
           far'[c] # "none", \A i \in DOMAIN queue' : queue'[i] # c,
           far'[c] \in {"open", "closed"} => far[c] \in {"none", "open", "closed"},
           \A k \in Conns : k # c => far'[k] = far[k],
           \A i \in DOMAIN queue' : \E j \in DOMAIN queue : queue[j] = queue'[i],
           \A i, j \in DOMAIN queue' : queue'[i] = queue'[j] => i = j
    PROVE  OneOwner' /\ NoByteLost'
<1>1. /\ next_handle \notin DOMAIN entries
      /\ DOMAIN entries' = DOMAIN entries \cup {next_handle}
      /\ \A g \in DOMAIN entries : entries'[g] = entries[g]
      /\ entries'[next_handle].kind = "Stream" /\ entries'[next_handle].socket = c
      /\ entries'[next_handle].line_buffer = <<>>
  <2>1. c \in Conns \cup {None} /\ "Stream" \in {"Listener", "Stream"}
    OBVIOUS
  <2>2. PICK e : e = [socket |-> c, kind |-> "Stream", line_buffer |-> <<>>, peer_closed |-> FALSE]
    OBVIOUS
  <2>3. entries'[next_handle] = e
    BY <2>1, <2>2, AddFacts
  <2>4. /\ next_handle \notin DOMAIN entries
        /\ DOMAIN entries' = DOMAIN entries \cup {next_handle}
        /\ \A g \in DOMAIN entries : entries'[g] = entries[g]
        /\ DOMAIN entries' \subseteq Handle /\ \A g \in DOMAIN entries' : entries'[g] \in Entry
        /\ next_handle' \in 1..MaxHandle + 1 /\ GivenOut'
    BY <2>1, AddFacts, Zenon
  <2>5. QED
    BY <2>2, <2>3, <2>4
<1>2. Streams' = Streams \cup {next_handle} /\ next_handle \notin Streams
  BY <1>1 DEF Streams
<1>3. /\ \A h \in Streams : entries'[h] = entries[h] /\ entries'[h].socket = Socket(h)
  BY <1>1 DEF Streams, Socket
<1>4. \A k \in Conns : Unaccepted(k)' => Unaccepted(k) /\ k # c
  <2>1. ASSUME NEW k \in Conns, far'[k] = "none" \/ \E i \in DOMAIN queue' : queue'[i] = k
        PROVE  k # c /\ (far[k] = "none" \/ \E i \in DOMAIN queue : queue[i] = k)
    BY <2>1
  <2>2. QED
    BY <2>1, Zenon DEF Unaccepted
<1>5. \A h \in Streams : Socket(h) \in Conns /\ Socket(h) # c /\ ~Unaccepted(Socket(h))
  BY DEF Inductive, OneOwner
<1>6. ASSUME NEW h \in Streams'
      PROVE  /\ entries'[h].socket \in Conns /\ far'[entries'[h].socket] # "none"
             /\ \A i \in DOMAIN queue' : queue'[i] # entries'[h].socket
  <2>1. PICK k \in Conns : k = entries'[h].socket /\ (k = c \/ ~Unaccepted(k))
    BY <1>1, <1>2, <1>3, <1>5
  <2>2. ~Unaccepted(k)'
    BY <1>4, <2>1
  <2>3. far'[k] # "none" /\ \A i \in DOMAIN queue' : queue'[i] # k
    BY <2>2, Zenon DEF Unaccepted
  <2>4. QED
    BY <2>1, <2>3
<1>7. \A g, h \in Streams' : entries'[g].socket = entries'[h].socket => g = h
  BY <1>1, <1>2, <1>3, <1>5 DEF Inductive, OneOwner
<1>8. \A i \in DOMAIN queue' : far'[queue'[i]] # "none"
  <2>1. \A i \in DOMAIN queue : far[queue[i]] # "none" /\ queue[i] \in Conns
    BY DEF Inductive, OneOwner, TypeOK
  <2>2. ASSUME NEW i \in DOMAIN queue'
        PROVE  far'[queue'[i]] # "none"
    <3>1. PICK j \in DOMAIN queue : queue[j] = queue'[i]
      OBVIOUS
    <3>2. PICK k \in Conns : k = queue'[i] /\ far[k] # "none" /\ k # c
      BY <2>1, <3>1
    <3>3. far'[k] = far[k]
      BY <3>2
    <3>4. QED
      BY <3>2, <3>3
  <2>3. QED
    BY <2>2
<1>9. OneOwner'
  BY <1>6, <1>7, <1>8 DEF OneOwner, Socket, Unaccepted
<1>10. Resettles
  <2>1. \A k \in Conns : far'[k] \in {"none", "open", "closed"} => far[k] \in {"none", "open", "closed"}
    OBVIOUS
  <2>2. \A h \in Streams' :
         \/ h \in Streams /\ entries'[h] = entries[h]
         \/ /\ entries'[h].socket \in Conns /\ Unaccepted(entries'[h].socket)
            /\ entries'[h].line_buffer = <<>>
    BY <1>1, <1>2, <1>3
  <2>3. QED
    BY <1>4, <2>1, <2>2 DEF Resettles
<1>11. QED
  BY <1>9, <1>10, ResettledKeeps

\* A connection comes into being with its handle.
LEMMA ConnectStep ==
    ASSUME Inductive, NEW c \in Conns, Connect(c)
    PROVE  Inductive'
<1>1. /\ Add(c, "Stream") /\ call = None /\ far[c] = "none" /\ far' = [far EXCEPT ![c] = "open"]
      /\ UNCHANGED <<queue, wire, unsent, call, result, arrived, taken, lines, raw>>
  BY DEF Connect, Idle, history
<1>2. /\ far \in [Conns -> {"none", "open", "closed", "reset", "failed"}]
      /\ \A i \in DOMAIN queue : far[queue[i]] # "none"
      /\ \A i, j \in DOMAIN queue : queue[i] = queue[j] => i = j
  BY DEF Inductive, TypeOK, OneOwner
<1>3. /\ far' \in [Conns -> {"none", "open", "closed", "reset", "failed"}]
      /\ far'[c] = "open" /\ \A k \in Conns : k # c => far'[k] = far[k]
  BY <1>1, <1>2
<1>4. Unaccepted(c)
  BY <1>1 DEF Unaccepted
<1>5. \A i \in DOMAIN queue' : queue'[i] # c
  BY <1>1, <1>2
<1>6. OneOwner' /\ NoByteLost'
  <2>1. /\ far'[c] # "none" /\ (far'[c] \in {"open", "closed"} => far[c] \in {"none", "open", "closed"})
        /\ \A i \in DOMAIN queue' : \E j \in DOMAIN queue : queue[j] = queue'[i]
        /\ \A i, j \in DOMAIN queue' : queue'[i] = queue'[j] => i = j
        /\ UNCHANGED <<wire, arrived, taken>>
    BY <1>1, <1>2, <1>3
  <2>2. QED
    BY <1>1, <1>3, <1>4, <1>5, <2>1, Owned
<1>7. /\ DOMAIN entries' \subseteq Handle /\ \A g \in DOMAIN entries' : entries'[g] \in Entry
      /\ next_handle' \in 1..MaxHandle + 1 /\ GivenOut'
  <2>1. c \in Conns \cup {None} /\ "Stream" \in {"Listener", "Stream"}
    OBVIOUS
  <2>2. QED
    BY <1>1, <2>1, AddFacts, Zenon
<1>8. TypeOK'
  BY <1>1, <1>3, <1>7 DEF Inductive, TypeOK
<1>9. QED
  BY <1>1, <1>6, <1>7, <1>8 DEF Inductive, Counted, SendAllCounts

\* The first in the accept queue gets a handle.
LEMMA AcceptStep ==
    ASSUME Inductive, NEW h \in Handle, Accept(h)
    PROVE  Inductive'
<1>1. /\ Add(Head(queue), "Stream") /\ call = None /\ queue # <<>> /\ queue' = Tail(queue)
      /\ UNCHANGED <<wire, far, unsent, call, result, arrived, taken, lines, raw>>
  BY DEF Accept, Idle, history
<1>2. /\ queue \in Seq(Conns)
      /\ \A i \in DOMAIN queue : far[queue[i]] # "none"
      /\ \A i, j \in DOMAIN queue : queue[i] = queue[j] => i = j
  BY DEF Inductive, TypeOK, OneOwner
<1>3. PICK c \in Conns : c = Head(queue) /\ c = queue[1]
  BY <1>1, <1>2
<1>4. /\ 1 \in DOMAIN queue /\ queue' \in Seq(Conns)
      /\ \A i \in DOMAIN queue' : i + 1 \in DOMAIN queue /\ queue'[i] = queue[i + 1] /\ i \in Nat \ {0}
  BY <1>1, <1>2
<1>5. Add(c, "Stream") /\ Unaccepted(c)
  BY <1>1, <1>3, <1>4 DEF Unaccepted
<1>6. \A i \in DOMAIN queue' : queue'[i] # c
  <2>1. ASSUME NEW i \in DOMAIN queue', queue'[i] = c
        PROVE  FALSE
    <3>1. i + 1 = 1
      BY <1>2, <1>3, <1>4, <2>1
    <3>2. QED
      BY <1>4, <3>1
  <2>2. QED
    BY <2>1
<1>7. /\ \A i \in DOMAIN queue' : \E j \in DOMAIN queue : queue[j] = queue'[i]
      /\ \A i, j \in DOMAIN queue' : queue'[i] = queue'[j] => i = j
  <2>1. ASSUME NEW i \in DOMAIN queue', NEW j \in DOMAIN queue', queue'[i] = queue'[j]
        PROVE  i = j
    <3>1. i + 1 = j + 1
      BY <1>2, <1>4, <2>1
    <3>2. QED
      BY <1>4, <3>1
  <2>2. QED
    BY <1>4, <2>1
<1>8. OneOwner' /\ NoByteLost'
  <2>1. /\ far'[c] # "none" /\ (far'[c] \in {"open", "closed"} => far[c] \in {"none", "open", "closed"})
        /\ \A k \in Conns : k # c => far'[k] = far[k]
        /\ UNCHANGED <<wire, arrived, taken>>
    BY <1>1, <1>2, <1>3, <1>4
  <2>2. QED
    BY <1>5, <1>6, <1>7, <2>1, Owned
<1>9. /\ DOMAIN entries' \subseteq Handle /\ \A g \in DOMAIN entries' : entries'[g] \in Entry
      /\ next_handle' \in 1..MaxHandle + 1 /\ GivenOut'
  <2>1. c \in Conns \cup {None} /\ "Stream" \in {"Listener", "Stream"}
    OBVIOUS
  <2>2. QED
    BY <1>5, <2>1, AddFacts, Zenon
<1>10. TypeOK'
  BY <1>1, <1>4, <1>9 DEF Inductive, TypeOK
<1>11. QED
  BY <1>1, <1>8, <1>9, <1>10 DEF Inductive, Counted, SendAllCounts

\* Handles go, and with a listener the connections nobody accepted.
Closes(gone) ==
    /\ call = None
    /\ entries' = [g \in DOMAIN entries \ gone |-> entries[g]]
    /\ \/ UNCHANGED <<queue, far>>
       \/ /\ queue' = <<>>
          /\ far' = [c \in Conns |-> IF \E i \in DOMAIN queue : queue[i] = c THEN "reset" ELSE far[c]]
    /\ result' \in {result, None}
    /\ UNCHANGED <<next_handle, wire, unsent, call, history>>

\* What is left is as it was.
LEMMA ClosesStep ==
    ASSUME Inductive, NEW gone, Closes(gone)
    PROVE  Inductive'
<1>1. /\ call = None /\ result' \in {result, None}
      /\ entries' = [g \in DOMAIN entries \ gone |-> entries[g]]
      /\ UNCHANGED <<next_handle, wire, unsent, call, arrived, taken, lines, raw>>
  BY DEF Closes, history
<1>2. /\ DOMAIN entries' = DOMAIN entries \ gone
      /\ \A g \in DOMAIN entries' : entries'[g] = entries[g]
  BY <1>1
<1>3. Streams' = Streams \ gone /\ \A g \in Streams' : entries'[g] = entries[g]
  BY <1>2 DEF Streams
<1>4. /\ far \in [Conns -> {"none", "open", "closed", "reset", "failed"}] /\ queue \in Seq(Conns)
      /\ \A i \in DOMAIN queue : far[queue[i]] # "none" /\ queue[i] \in Conns
      /\ \A i, j \in DOMAIN queue : queue[i] = queue[j] => i = j
  BY DEF Inductive, TypeOK, OneOwner
<1>5. /\ far' \in [Conns -> {"none", "open", "closed", "reset", "failed"}] /\ queue' \in Seq(Conns)
      /\ \A c \in Conns : far'[c] = far[c] \/ (far'[c] = "reset" /\ far[c] # "none")
      /\ queue' = queue \/ DOMAIN queue' = {}
  <2>1. CASE /\ queue' = <<>>
             /\ far' = [c \in Conns |-> IF \E i \in DOMAIN queue : queue[i] = c THEN "reset" ELSE far[c]]
    <3>1. queue' \in Seq(Conns) /\ DOMAIN queue' = {}
      BY <2>1
    <3>2. \A c \in Conns : far'[c] = far[c] \/ (far'[c] = "reset" /\ far[c] # "none")
      BY <1>4, <2>1
    <3>3. far' \in [Conns -> {"none", "open", "closed", "reset", "failed"}]
      BY <1>4, <2>1
    <3>4. QED
      BY <3>1, <3>2, <3>3
  <2>2. CASE UNCHANGED <<queue, far>>
    BY <1>4, <2>2
  <2>3. QED
    BY <2>1, <2>2 DEF Closes
<1>6. \A c \in Conns : Unaccepted(c)' => Unaccepted(c)
  <2>1. ASSUME NEW c \in Conns, far'[c] = "none" \/ \E i \in DOMAIN queue' : queue'[i] = c
        PROVE  far[c] = "none" \/ \E i \in DOMAIN queue : queue[i] = c
    BY <1>5, <2>1
  <2>2. QED
    BY <2>1, Zenon DEF Unaccepted
<1>7. OneOwner'
  <2>1. ASSUME NEW g \in Streams'
        PROVE  /\ entries'[g].socket \in Conns /\ far'[entries'[g].socket] # "none"
               /\ \A i \in DOMAIN queue' : queue'[i] # entries'[g].socket
    <3>1. PICK k \in Conns : k = entries'[g].socket /\ ~Unaccepted(k)
      BY <1>3 DEF Inductive, OneOwner, Socket
    <3>2. ~Unaccepted(k)'
      BY <1>6, <3>1
    <3>3. far'[k] # "none" /\ \A i \in DOMAIN queue' : queue'[i] # k
      BY <3>2, Zenon DEF Unaccepted
    <3>4. QED
      BY <3>1, <3>3
  <2>2. \A g, k \in Streams' : entries'[g].socket = entries'[k].socket => g = k
    BY <1>3 DEF Inductive, OneOwner, Socket
  <2>3. /\ \A i \in DOMAIN queue' : far'[queue'[i]] # "none"
        /\ \A i, j \in DOMAIN queue' : queue'[i] = queue'[j] => i = j
    BY <1>4, <1>5
  <2>4. QED
    BY <2>1, <2>2, <2>3 DEF OneOwner, Socket, Unaccepted
<1>8. NoByteLost'
  <2>1. \A c \in Conns : far'[c] \in {"none", "open", "closed"} => far[c] \in {"none", "open", "closed"}
    BY <1>5
  <2>2. \A g \in Streams' : g \in Streams /\ entries'[g] = entries[g]
    BY <1>3
  <2>3. Resettles
    BY <1>1, <1>6, <2>1, <2>2 DEF Resettles
  <2>4. QED
    BY <2>3, ResettledKeeps
<1>9. TypeOK'
  <2>1. DOMAIN entries' \subseteq Handle /\ \A g \in DOMAIN entries' : entries'[g] \in Entry
    BY <1>2 DEF Inductive, TypeOK
  <2>2. QED
    BY <1>1, <1>5, <2>1 DEF Inductive, TypeOK
<1>10. GivenOut'
  BY <1>1, <1>2 DEF Inductive, GivenOut
<1>11. QED
  BY <1>1, <1>7, <1>8, <1>9, <1>10 DEF Inductive, Counted, SendAllCounts

\* Close takes one.
LEMMA OneCloses ==
    ASSUME NEW h \in Handle, Close(h)
    PROVE  Closes({h})
BY DEF Close, Closes, Idle

\* So Close keeps the invariant.
LEMMA CloseStep ==
    ASSUME Inductive, NEW h \in Handle, Close(h)
    PROVE  Inductive'
BY OneCloses, ClosesStep

-----------------------------------------------------------------------------
(* The other end *)

\* Bytes arrive or are dropped in the kernel: what holds of any part of them the
\* program has holds of all.
LEMMA FarKeeps ==
    ASSUME Inductive, UNCHANGED <<entries, queue, taken>>,
           \A c \in Conns : far'[c] = "none" <=> far[c] = "none",
           \A c \in Conns : \A t \in Seq(Byte) : \A b \in Seq(Byte) :
             Accounted(arrived[c], far[c], t, b, wire[c]) => Accounted(arrived'[c], far'[c], t, b, wire'[c])
    PROVE  OneOwner' /\ NoByteLost'
<1>1. /\ Streams' = Streams
      /\ \A h \in Streams : Socket(h) \in Conns /\ ~Unaccepted(Socket(h)) /\ entries[h].line_buffer \in Seq(Byte)
      /\ \A i \in DOMAIN queue : queue[i] \in Conns
      /\ \A c \in Conns : taken[c] \in Seq(Byte)
  <2>1. Streams' = Streams
    BY DEF Streams
  <2>2. \A h \in Streams : Socket(h) \in Conns /\ ~Unaccepted(Socket(h)) /\ entries[h].line_buffer \in Seq(Byte)
    BY StreamFacts DEF Inductive, OneOwner
  <2>3. QED
    BY <2>1, <2>2 DEF Inductive, TypeOK
<1>2. \A c \in Conns : Unaccepted(c)' <=> Unaccepted(c)
  BY DEF Unaccepted
<1>3. OneOwner'
  <2>1. ASSUME NEW h \in Streams
        PROVE  /\ entries[h].socket \in Conns /\ far'[entries[h].socket] # "none"
               /\ \A i \in DOMAIN queue : queue[i] # entries[h].socket
    BY <1>1 DEF Socket, Unaccepted
  <2>2. \A i \in DOMAIN queue : far'[queue[i]] # "none"
    BY <1>1 DEF Inductive, OneOwner
  <2>3. QED
    BY <1>1, <2>1, <2>2 DEF Inductive, OneOwner, Socket, Unaccepted
<1>4. ASSUME NEW h \in Streams
      PROVE  LET c == entries[h].socket
             IN Accounted(arrived'[c], far'[c], taken[c], entries[h].line_buffer, wire'[c])
  <2>1. PICK c \in Conns : c = entries[h].socket
    BY <1>1 DEF Socket
  <2>2. Accounted(arrived[c], far[c], taken[c], entries[h].line_buffer, wire[c])
    BY <2>1 DEF Inductive, NoByteLost, Socket
  <2>3. taken[c] \in Seq(Byte) /\ entries[h].line_buffer \in Seq(Byte)
    BY <1>1
  <2>4. QED
    BY <2>1, <2>2, <2>3
<1>5. ASSUME NEW c \in Conns, Unaccepted(c)
      PROVE  Accounted(arrived'[c], far'[c], taken[c], <<>>, wire'[c])
  <2>1. Accounted(arrived[c], far[c], taken[c], <<>>, wire[c])
    BY <1>5 DEF Inductive, NoByteLost
  <2>2. taken[c] \in Seq(Byte) /\ <<>> \in Seq(Byte)
    BY <1>1
  <2>3. QED
    BY <2>1, <2>2
<1>6. NoByteLost'
  <2>1. \A c \in Conns : Unaccepted(c)' => Accounted(arrived'[c], far'[c], taken'[c], <<>>, wire'[c])
    BY <1>2, <1>5
  <2>2. QED
    BY <1>1, <1>4, <2>1 DEF NoByteLost, Socket
<1>7. QED
  BY <1>3, <1>6

\* One more byte arrives.
LEMMA Arrives ==
    ASSUME NEW t \in Seq(Byte), NEW b \in Seq(Byte), NEW w \in Seq(Byte), NEW a, NEW x \in Byte,
           Accounted(a, "open", t, b, w)
    PROVE  Accounted(Append(a, x), "open", t, b, Append(w, x))
<1>1. PICK p \in Seq(Byte) : p = t \o b
  BY ConcatProperties
<1>2. p \o w = a /\ a \in Seq(Byte)
  BY <1>1, ConcatProperties DEF Accounted
<1>3. p \o Append(w, x) = Append(a, x)
  <2>1. p \o Append(w, x) = Append(p \o w, x)
    OBVIOUS
  <2>2. QED
    BY <1>2, <2>1
<1>4. Append(a, x) \in Seq(Byte)
  BY <1>2
<1>5. Prefix(Append(a, x), Append(a, x))
  BY <1>4, SubSeqFull, LenProperties DEF Prefix
<1>6. QED
  BY <1>1, <1>3, <1>5 DEF Accounted

\* The kernel drops what has arrived.
LEMMA Dropped ==
    ASSUME NEW t \in Seq(Byte), NEW b \in Seq(Byte), NEW w \in Seq(Byte), NEW a \in Seq(Byte), NEW s,
           Accounted(a, s, t, b, w)
    PROVE  Accounted(a, "reset", t, b, <<>>)
<1>1. PICK p \in Seq(Byte) : p = t \o b
  BY ConcatProperties
<1>2. Prefix(p \o w, a)
  BY <1>1 DEF Accounted
<1>3. Prefix(p, a)
  BY <1>2, PrefixOfConcat
<1>4. p \o <<>> = p
  OBVIOUS
<1>5. QED
  BY <1>1, <1>3, <1>4 DEF Accounted

\* A connection waits to be accepted.
LEMMA FarConnectsStep ==
    ASSUME Inductive, NEW c \in Conns, FarConnects(c)
    PROVE  Inductive'
<1>1. /\ far[c] = "none" /\ far' = [far EXCEPT ![c] = "open"] /\ queue' = Append(queue, c)
      /\ UNCHANGED <<entries, next_handle, wire, unsent, call, result, arrived, taken, lines, raw>>
  BY DEF FarConnects, history
<1>2. /\ far \in [Conns -> {"none", "open", "closed", "reset", "failed"}] /\ queue \in Seq(Conns)
      /\ \A i \in DOMAIN queue : far[queue[i]] # "none" /\ queue[i] \in Conns
      /\ \A i, j \in DOMAIN queue : queue[i] = queue[j] => i = j
  BY DEF Inductive, TypeOK, OneOwner
<1>3. /\ far' \in [Conns -> {"none", "open", "closed", "reset", "failed"}] /\ queue' \in Seq(Conns)
      /\ far'[c] = "open" /\ \A k \in Conns : k # c => far'[k] = far[k]
  BY <1>1, <1>2
<1>4. \A i \in DOMAIN queue' : (i \in DOMAIN queue /\ queue'[i] = queue[i]) \/ (i = Len(queue) + 1 /\ queue'[i] = c)
  BY <1>1, <1>2
<1>5. \A k \in Conns : Unaccepted(k)' => Unaccepted(k)
  <2>1. ASSUME NEW k \in Conns, far'[k] = "none" \/ \E i \in DOMAIN queue' : queue'[i] = k
        PROVE  far[k] = "none" \/ \E i \in DOMAIN queue : queue[i] = k
    BY <1>1, <1>3, <1>4, <2>1
  <2>2. QED
    BY <2>1, Zenon DEF Unaccepted
<1>6. Streams' = Streams /\ \A h \in Streams : entries[h].socket \in Conns /\ ~Unaccepted(entries[h].socket)
  BY <1>1 DEF Streams, Inductive, OneOwner, Socket
<1>7. OneOwner'
  <2>1. ASSUME NEW h \in Streams
        PROVE  /\ entries[h].socket \in Conns /\ far'[entries[h].socket] # "none"
               /\ \A i \in DOMAIN queue' : queue'[i] # entries[h].socket
    <3>1. PICK k \in Conns : k = entries[h].socket /\ ~Unaccepted(k)
      BY <1>6
    <3>2. ~Unaccepted(k)'
      BY <1>5, <3>1
    <3>3. far'[k] # "none" /\ \A i \in DOMAIN queue' : queue'[i] # k
      BY <3>2, Zenon DEF Unaccepted
    <3>4. QED
      BY <3>1, <3>3
  <2>2. \A g, h \in Streams : entries[g].socket = entries[h].socket => g = h
    BY DEF Inductive, OneOwner, Socket
  <2>3. \A i \in DOMAIN queue' : far'[queue'[i]] # "none"
    BY <1>2, <1>3, <1>4
  <2>4. \A i, j \in DOMAIN queue' : queue'[i] = queue'[j] => i = j
    BY <1>1, <1>2, <1>4
  <2>5. QED
    BY <1>1, <1>6, <2>1, <2>2, <2>3, <2>4 DEF OneOwner, Socket, Unaccepted
<1>8. NoByteLost'
  <2>1. \A k \in Conns : far'[k] \in {"none", "open"} => far[k] \in {"none", "open"}
    BY <1>1, <1>3
  <2>2. Resettles
    BY <1>1, <1>5, <1>6, <2>1 DEF Resettles
  <2>3. QED
    BY <2>2, ResettledKeeps
<1>9. TypeOK'
  BY <1>1, <1>3 DEF Inductive, TypeOK
<1>10. QED
  BY <1>1, <1>6, <1>7, <1>8, <1>9 DEF Inductive, GivenOut, Counted, SendAllCounts

\* A byte arrives.
LEMMA FarSendsStep ==
    ASSUME Inductive, NEW c \in Conns, NEW x \in Byte, FarSends(c, x)
    PROVE  Inductive'
<1>1. /\ far[c] = "open" /\ wire' = [wire EXCEPT ![c] = Append(wire[c], x)]
      /\ arrived' = [arrived EXCEPT ![c] = Append(arrived[c], x)]
      /\ UNCHANGED <<entries, next_handle, queue, far, unsent, call, result, taken, lines, raw>>
  BY DEF FarSends
<1>2. wire \in [Conns -> Seq(Byte)] /\ arrived \in [Conns -> Seq(Byte)]
  BY DEF Inductive, TypeOK
<1>3. /\ wire' \in [Conns -> Seq(Byte)] /\ arrived' \in [Conns -> Seq(Byte)]
      /\ wire'[c] = Append(wire[c], x) /\ arrived'[c] = Append(arrived[c], x)
      /\ \A k \in Conns : k # c => wire'[k] = wire[k] /\ arrived'[k] = arrived[k]
  <2>1. wire[c] \in Seq(Byte) /\ arrived[c] \in Seq(Byte)
    BY <1>2
  <2>2. PICK w \in Seq(Byte), a \in Seq(Byte) : w = Append(wire[c], x) /\ a = Append(arrived[c], x)
    BY <2>1, AppendProperties
  <2>3. QED
    BY <1>1, <1>2, <2>2
<1>4. ASSUME NEW k \in Conns, NEW t \in Seq(Byte), NEW b \in Seq(Byte),
             Accounted(arrived[k], far[k], t, b, wire[k])
      PROVE  Accounted(arrived'[k], far'[k], t, b, wire'[k])
  <2>1. CASE k = c
    <3>1. Accounted(arrived[c], "open", t, b, wire[c]) /\ wire[c] \in Seq(Byte)
      BY <1>1, <1>2, <1>4, <2>1
    <3>2. Accounted(Append(arrived[c], x), "open", t, b, Append(wire[c], x))
      BY <3>1, Arrives
    <3>3. QED
      BY <1>1, <1>3, <2>1, <3>2
  <2>2. CASE k # c
    BY <1>1, <1>3, <1>4, <2>2
  <2>3. QED
    BY <2>1, <2>2
<1>5. OneOwner' /\ NoByteLost'
  <2>1. UNCHANGED <<entries, queue, taken>> /\ \A k \in Conns : far'[k] = "none" <=> far[k] = "none"
    BY <1>1
  <2>2. QED
    BY <1>4, <2>1, FarKeeps
<1>6. TypeOK'
  BY <1>1, <1>3 DEF Inductive, TypeOK
<1>7. Streams' = Streams
  BY <1>1 DEF Streams
<1>8. QED
  BY <1>1, <1>5, <1>6, <1>7 DEF Inductive, GivenOut, Counted, SendAllCounts

\* The connection ends, in one way or the other.
LEMMA FarEndsStep ==
    ASSUME Inductive, NEW c \in Conns, FarCloses(c) \/ FarResets(c)
    PROVE  Inductive'
<1>1. PICK status \in {"closed", "reset"} :
        /\ far[c] = "open" /\ far' = [far EXCEPT ![c] = status]
        /\ UNCHANGED <<entries, next_handle, queue, unsent, call, result, arrived, taken, lines, raw>>
        /\ wire' = wire \/ (status = "reset" /\ wire' = [wire EXCEPT ![c] = <<>>])
  <2>1. CASE FarCloses(c)
    BY <2>1 DEF FarCloses, history
  <2>2. CASE FarResets(c)
    <3>1. PICK w \in {wire[c], <<>>} : wire' = [wire EXCEPT ![c] = w]
      BY <2>2 DEF FarResets
    <3>2. wire \in [Conns -> Seq(Byte)]
      BY DEF Inductive, TypeOK
    <3>3. wire' = wire \/ wire' = [wire EXCEPT ![c] = <<>>]
      BY <3>1, <3>2
    <3>4. QED
      BY <2>2, <3>3 DEF FarResets, history
  <2>3. QED
    BY <2>1, <2>2
<1>2. /\ wire \in [Conns -> Seq(Byte)] /\ far \in [Conns -> {"none", "open", "closed", "reset", "failed"}]
      /\ arrived \in [Conns -> Seq(Byte)]
  BY DEF Inductive, TypeOK
<1>3. /\ far' \in [Conns -> {"none", "open", "closed", "reset", "failed"}]
      /\ far'[c] = status /\ \A k \in Conns : k # c => far'[k] = far[k]
  BY <1>1, <1>2
<1>4. /\ wire' \in [Conns -> Seq(Byte)] /\ \A k \in Conns : k # c => wire'[k] = wire[k]
      /\ wire'[c] = wire[c] \/ (status = "reset" /\ wire'[c] = <<>>)
  <2>1. <<>> \in Seq(Byte)
    OBVIOUS
  <2>2. QED
    BY <1>1, <1>2, <2>1
<1>5. ASSUME NEW k \in Conns, NEW t \in Seq(Byte), NEW b \in Seq(Byte),
             Accounted(arrived[k], far[k], t, b, wire[k])
      PROVE  Accounted(arrived'[k], far'[k], t, b, wire'[k])
  <2>1. CASE k # c
    BY <1>1, <1>3, <1>4, <1>5, <2>1
  <2>2. CASE k = c /\ wire'[c] = wire[c]
    <3>1. far[k] = "open" /\ arrived' = arrived /\ wire'[k] = wire[k]
      BY <1>1, <1>3, <2>2
    <3>2. QED
      BY <1>5, <3>1, Zenon DEF Accounted
  <2>3. CASE k = c /\ status = "reset" /\ wire'[c] = <<>>
    <3>1. wire[k] \in Seq(Byte) /\ arrived[k] \in Seq(Byte)
      BY <1>2
    <3>2. Accounted(arrived[k], "reset", t, b, <<>>)
      BY <1>5, <3>1, Dropped
    <3>3. QED
      BY <1>1, <1>3, <2>3, <3>2
  <2>4. QED
    BY <1>4, <2>1, <2>2, <2>3
<1>6. OneOwner' /\ NoByteLost'
  <2>1. UNCHANGED <<entries, queue, taken>> /\ \A k \in Conns : far'[k] = "none" <=> far[k] = "none"
    BY <1>1, <1>3
  <2>2. QED
    BY <1>5, <2>1, FarKeeps
<1>7. TypeOK'
  BY <1>1, <1>3, <1>4 DEF Inductive, TypeOK
<1>8. Streams' = Streams
  BY <1>1 DEF Streams
<1>9. QED
  BY <1>1, <1>6, <1>7, <1>8 DEF Inductive, GivenOut, Counted, SendAllCounts

\* The other end takes what was sent.
LEMMA FarReadsStep ==
    ASSUME Inductive, NEW c \in Conns, FarReads(c)
    PROVE  Inductive'
<1>1. /\ unsent' = [unsent EXCEPT ![c] = 0]
      /\ UNCHANGED <<entries, next_handle, queue, wire, far, call, result, arrived, taken, lines, raw>>
  BY DEF FarReads, history
<1>2. unsent' \in [Conns -> 0..SendBuffer]
  BY <1>1, ConstantsAssumption DEF Inductive, TypeOK
<1>3. call' \in Call \cup {None} /\ result' \in Result \cup {None} /\ SendAllCounts'
  BY <1>1 DEF Inductive, TypeOK, SendAllCounts
<1>4. call' # None =>
        /\ call'.handle \in Streams
        /\ call'.op = "send" => /\ call'.written = call'.total + call'.sent
                                /\ call'.short => call'.sent = 0
  BY <1>1 DEF Inductive, Counted
<1>5. QED
  BY <1>1, <1>2, <1>3, <1>4, OnlyTheCall

-----------------------------------------------------------------------------
(* Every step *)

\* There is nothing yet.
LEMMA InitInductive ==
    ASSUME Init
    PROVE  Inductive
<1>1. /\ entries = <<>> /\ next_handle = 1 /\ queue = <<>>
      /\ wire = [c \in Conns |-> <<>>] /\ far = [c \in Conns |-> "none"] /\ unsent = [c \in Conns |-> 0]
      /\ call = None /\ result = None /\ arrived = [c \in Conns |-> <<>>] /\ taken = [c \in Conns |-> <<>>]
      /\ lines = [c \in Conns |-> <<>>] /\ raw = {}
  BY DEF Init
<1>2. DOMAIN entries = {} /\ DOMAIN queue = {}
  BY <1>1
<1>3. <<>> \in Seq(Byte) /\ <<>> \in Seq(Conns) /\ <<>> \in Seq(Seq(Byte))
  OBVIOUS
<1>4. next_handle \in 1..MaxHandle + 1 /\ 0 \in 0..SendBuffer
  BY <1>1, ConstantsAssumption
<1>5. TypeOK
  BY <1>1, <1>2, <1>3, <1>4 DEF TypeOK
<1>6. Streams = {}
  BY <1>2 DEF Streams
<1>7. GivenOut /\ OneOwner
  BY <1>2, <1>6 DEF GivenOut, OneOwner
<1>8. NoByteLost
  <2>1. ASSUME NEW c \in Conns
        PROVE  Accounted(arrived[c], far[c], taken[c], <<>>, wire[c])
    <3>1. arrived[c] = <<>> /\ taken[c] = <<>> /\ wire[c] = <<>>
      BY <1>1
    <3>2. <<>> \o <<>> \o <<>> = <<>> /\ Prefix(<<>>, <<>>)
      BY DEF Prefix
    <3>3. QED
      BY <3>1, <3>2 DEF Accounted
  <2>2. QED
    BY <1>6, <2>1 DEF NoByteLost
<1>9. QED
  BY <1>1, <1>5, <1>7, <1>8 DEF Inductive, Counted, SendAllCounts

\* Nothing changes.
LEMMA StutterStep ==
    ASSUME Inductive, UNCHANGED vars
    PROVE  Inductive'
<1>1. /\ UNCHANGED <<entries, next_handle, queue, wire, far, unsent, call, result>>
      /\ UNCHANGED <<arrived, taken, lines, raw>>
  BY DEF vars, kernel, history
<1>2. /\ unsent' \in [Conns -> 0..SendBuffer] /\ call' \in Call \cup {None} /\ result' \in Result \cup {None}
      /\ SendAllCounts'
  BY <1>1 DEF Inductive, TypeOK, SendAllCounts
<1>3. call' # None =>
        /\ call'.handle \in Streams
        /\ call'.op = "send" => /\ call'.written = call'.total + call'.sent
                                /\ call'.short => call'.sent = 0
  BY <1>1 DEF Inductive, Counted
<1>4. QED
  BY <1>1, <1>2, <1>3, OnlyTheCall

\* The calls and system calls on a handle.
LEMMA HandleStep ==
    ASSUME Inductive, NEW h \in Handle,
           \/ Accept(h) \/ Close(h) \/ ReceiveLine(h) \/ ReceiveSystemCall(h)
           \/ \E max \in 1..2 : Receive(h, max)
           \/ \E n \in 1..MaxSend, d \in BOOLEAN : SendAll(h, n, d)
           \/ SendSystemCall(h)
    PROVE  Inductive'
<1>1. CASE Accept(h)
  BY <1>1, AcceptStep
<1>2. CASE Close(h)
  BY <1>2, CloseStep
<1>3. CASE ReceiveLine(h)
  BY <1>3, ReceiveLineStep
<1>4. CASE ReceiveSystemCall(h)
  BY <1>4, RecvBytesStep, RecvEndStep, RecvNothingStep DEF ReceiveSystemCall
<1>5. ASSUME NEW max \in 1..2, Receive(h, max)
      PROVE  Inductive'
  <2>1. max \in Nat
    OBVIOUS
  <2>2. QED
    BY <1>5, <2>1, ReceiveStep
<1>6. ASSUME NEW n \in 1..MaxSend, NEW d \in BOOLEAN, SendAll(h, n, d)
      PROVE  Inductive'
  <2>1. n \in Nat
    OBVIOUS
  <2>2. QED
    BY <1>6, <2>1, SendAllStep
<1>7. CASE SendSystemCall(h)
  <2>1. ASSUME NEW n \in 1..MaxSend, SendBytes(h, n)
        PROVE  Inductive'
    <3>1. n \in Nat
      OBVIOUS
    <3>2. QED
      BY <2>1, <3>1, SendBytesStep
  <2>2. CASE SendWouldBlock(h)
    BY <2>2, SendWouldBlockStep
  <2>3. CASE SendDone(h) \/ SendTimesOut(h) \/ SendFails(h)
    BY <2>3, SendEnds
  <2>4. QED
    BY <1>7, <2>1, <2>2, <2>3 DEF SendSystemCall
<1>8. QED
  BY <1>1, <1>2, <1>3, <1>4, <1>5, <1>6, <1>7

\* Every step keeps the invariant.
LEMMA NextInductive ==
    ASSUME Inductive, [Next]_vars
    PROVE  Inductive'
<1>1. CASE UNCHANGED vars
  BY <1>1, StutterStep
<1>2. CASE Listen
  BY <1>2, ListenStep
<1>3. ASSUME NEW c \in Conns, Connect(c)
      PROVE  Inductive'
  BY <1>3, ConnectStep
<1>4. ASSUME NEW h \in Handle,
             \/ Accept(h) \/ Close(h) \/ ReceiveLine(h) \/ ReceiveSystemCall(h)
             \/ \E max \in 1..2 : Receive(h, max)
             \/ \E n \in 1..MaxSend, d \in BOOLEAN : SendAll(h, n, d)
             \/ SendSystemCall(h)
      PROVE  Inductive'
  BY <1>4, HandleStep
<1>5. CASE Far
  <2>1. PICK c \in Conns : \/ FarConnects(c) \/ FarReads(c) \/ FarCloses(c) \/ FarResets(c)
                           \/ \E b \in Byte : FarSends(c, b)
    BY <1>5 DEF Far
  <2>2. CASE FarConnects(c)
    BY <2>2, FarConnectsStep
  <2>3. CASE FarReads(c)
    BY <2>3, FarReadsStep
  <2>4. CASE FarCloses(c) \/ FarResets(c)
    BY <2>4, FarEndsStep
  <2>5. ASSUME NEW b \in Byte, FarSends(c, b)
        PROVE  Inductive'
    BY <2>5, FarSendsStep
  <2>6. QED
    BY <2>1, <2>2, <2>3, <2>4, <2>5
<1>6. QED
  BY <1>1, <1>2, <1>3, <1>4, <1>5 DEF Next

-----------------------------------------------------------------------------
(* Handles and bytes *)

\* Every reachable state satisfies the inductive invariant.
THEOREM InductiveCorrect == Spec => []Inductive
<1>1. Init => Inductive
  BY InitInductive
<1>2. Inductive /\ [Next]_vars => Inductive'
  BY NextInductive
<1>3. QED
  BY <1>1, <1>2, PTL DEF Spec

\* The entries, the call in progress and what the kernel holds keep their types,
\* and no handle is given out beyond the ones there are.
THEOREM TypeCorrect == Spec => []TypeOK
<1>1. Inductive => TypeOK
  BY DEF Inductive
<1>2. QED
  BY <1>1, InductiveCorrect, PTL

\* What is accounted for is the beginning of what arrived.
LEMMA InductiveAccounts ==
    ASSUME Inductive
    PROVE  BytesAccounted
<1>1. ASSUME NEW h \in Streams
      PROVE  LET c == Socket(h)
                 seen == taken[c] \o entries[h].line_buffer \o wire[c]
             IN /\ Len(seen) <= Len(arrived[c]) /\ seen = SubSeq(arrived[c], 1, Len(seen))
                /\ far[c] \notin {"reset", "failed"} => Len(seen) = Len(arrived[c])
  <2>1. Accounted(arrived[Socket(h)], far[Socket(h)], taken[Socket(h)], entries[h].line_buffer, wire[Socket(h)])
    BY <1>1 DEF Inductive, NoByteLost
  <2>2. Socket(h) \in Conns /\ far \in [Conns -> {"none", "open", "closed", "reset", "failed"}]
    BY <1>1 DEF Inductive, OneOwner, TypeOK
  <2>3. QED
    BY <2>1, <2>2 DEF Accounted, Prefix
<1>2. QED
  BY <1>1 DEF BytesAccounted

\* No byte is lost, repeated or moved between the other end and the program, in
\* whatever order receive and receive_line read: what was taken, the line buffer
\* and what the kernel holds are together what was sent, also when the connection
\* has ended in order, and after a reset its beginning.
THEOREM BytesCorrect == Spec => []BytesAccounted
<1>1. Inductive => BytesAccounted
  BY InductiveAccounts
<1>2. QED
  BY <1>1, InductiveCorrect, PTL

\* netSendAll never reports more than was written, and reports exactly that
\* unless ::send failed.
THEOREM SendAllCorrect == Spec => []SendAllCounts
<1>1. Inductive => SendAllCounts
  BY DEF Inductive
<1>2. QED
  BY <1>1, InductiveCorrect, PTL

\* What setting line buffer and end of stream does.
LEMMA SetWhole ==
    ASSUME TypeOK, NEW h \in DOMAIN entries, NEW b, NEW closed, SetEntry(h, b, closed)
    PROVE  /\ SameHandles /\ \A g \in DOMAIN entries : g # h => entries'[g] = entries[g]
           /\ entries'[h].line_buffer = b /\ entries'[h].peer_closed = closed
<1>1. entries' = [entries EXCEPT ![h] = [@ EXCEPT !.line_buffer = b, !.peer_closed = closed]]
  BY DEF SetEntry
<1>2. entries[h] \in Entry
  BY DEF TypeOK
<1>3. DOMAIN entries' = DOMAIN entries /\ \A g \in DOMAIN entries : g # h => entries'[g] = entries[g]
  BY <1>1
<1>4. entries'[h] = [entries[h] EXCEPT !.line_buffer = b, !.peer_closed = closed]
  BY <1>1
<1>5. /\ entries'[h].socket = entries[h].socket /\ entries'[h].kind = entries[h].kind
      /\ entries'[h].line_buffer = b /\ entries'[h].peer_closed = closed
  BY <1>2, <1>4 DEF Entry
<1>6. QED
  BY <1>3, <1>5 DEF SameHandles

\* The calls that read keep the handles.
LEMMA ReadingKeepsHandles ==
    ASSUME Inductive, NEW h \in Handle,
           ReceiveLine(h) \/ ReceiveSystemCall(h) \/ \E max \in 1..2 : Receive(h, max)
    PROVE  SameHandles /\ next_handle' = next_handle
<1>1. TypeOK
  BY DEF Inductive
<1>2. h \in DOMAIN entries
  BY DEF ReceiveLine, ReceiveSystemCall, RecvBytes, RecvEnd, RecvWait, RecvError, Reading, Receive,
         Inductive, Counted, Streams
<1>3. next_handle' = next_handle
  BY DEF ReceiveLine, ReceiveSystemCall, RecvBytes, RecvEnd, RecvWait, RecvError, Receive
<1>4. (\E b, closed : SetEntry(h, b, closed)) \/ UNCHANGED entries
  <2>1. CASE ReceiveLine(h)
    BY <2>1, Zenon DEF ReceiveLine, ExtractLine, ReturnEnd, ReturnLine
  <2>2. CASE RecvBytes(h)
    BY <2>2, Zenon DEF RecvBytes, ExtractLine, ReturnLine
  <2>3. CASE RecvEnd(h)
    BY <2>3, Zenon DEF RecvEnd, ReturnEnd, ReturnLine
  <2>4. CASE RecvWait(h) \/ RecvError(h)
    BY <2>4, Zenon DEF RecvWait, RecvError
  <2>5. CASE \E max \in 1..2 : Receive(h, max)
    BY <2>5, Zenon DEF Receive
  <2>6. QED
    BY <2>1, <2>2, <2>3, <2>4, <2>5 DEF ReceiveSystemCall
<1>5. CASE UNCHANGED entries
  BY <1>3, <1>5 DEF SameHandles
<1>6. CASE \E b, closed : SetEntry(h, b, closed)
  BY <1>1, <1>2, <1>3, <1>6, SetWhole
<1>7. QED
  BY <1>4, <1>5, <1>6

\* Add takes the next handle.
LEMMA AddingKeepsHandles ==
    ASSUME Inductive, NEW c, NEW kind, Add(c, kind)
    PROVE  /\ next_handle <= next_handle'
           /\ \A h \in DOMAIN entries' :
                (h \in DOMAIN entries /\ entries'[h].socket = Socket(h)) \/ h = next_handle
<1>1. next_handle \in 1..MaxHandle + 1 /\ next_handle' = next_handle + 1 /\ MaxHandle \in Nat
  BY ConstantsAssumption DEF Inductive, TypeOK, Add
<1>2. PICK e : e = [socket |-> c, kind |-> kind, line_buffer |-> <<>>, peer_closed |-> FALSE]
  OBVIOUS
<1>3. entries' = [g \in DOMAIN entries \cup {next_handle} |-> IF g = next_handle THEN e ELSE entries[g]]
  BY <1>2 DEF Add, NewEntry
<1>4. next_handle <= next_handle'
  BY <1>1
<1>5. QED
  BY <1>3, <1>4 DEF Socket

\* What comes into use had not been given out.
NothingReused ==
    /\ next_handle <= next_handle'
    /\ \A h \in DOMAIN entries' :
         /\ h < next_handle'
         /\ \/ h \in DOMAIN entries /\ entries'[h].socket = Socket(h)
            \/ next_handle <= h

\* Every step is like that.
LEMMA StepReusesNothing ==
    ASSUME Inductive, [Next]_vars
    PROVE  NothingReused
<1>1. Inductive'
  BY NextInductive
<1>2. next_handle \in Nat /\ \A h \in DOMAIN entries' : h < next_handle'
  BY <1>1, ConstantsAssumption DEF Inductive, TypeOK, GivenOut
<1>3. CASE SameHandles /\ next_handle' = next_handle
  BY <1>2, <1>3 DEF NothingReused, SameHandles, Socket
<1>4. ASSUME NEW c, NEW kind, Add(c, kind)
      PROVE  NothingReused
  BY <1>2, <1>4, AddingKeepsHandles DEF NothingReused
<1>5. CASE UNCHANGED <<entries, next_handle>>
  BY <1>3, <1>5 DEF SameHandles
<1>6. CASE Listen \/ \E c \in Conns : Connect(c)
  BY <1>4, <1>6 DEF Listen, Connect
<1>7. ASSUME NEW h \in Handle,
             \/ Accept(h) \/ Close(h) \/ ReceiveLine(h) \/ ReceiveSystemCall(h)
             \/ \E max \in 1..2 : Receive(h, max)
             \/ \E n \in 1..MaxSend, d \in BOOLEAN : SendAll(h, n, d)
             \/ SendSystemCall(h)
      PROVE  NothingReused
  <2>1. CASE Accept(h)
    BY <1>4, <2>1 DEF Accept
  <2>2. CASE Close(h)
    <3>1. entries' = [g \in DOMAIN entries \ {h} |-> entries[g]] /\ next_handle' = next_handle
      BY <2>2 DEF Close
    <3>2. QED
      BY <1>2, <3>1 DEF NothingReused, Socket
  <2>3. CASE ReceiveLine(h) \/ ReceiveSystemCall(h) \/ \E max \in 1..2 : Receive(h, max)
    BY <1>3, <2>3, ReadingKeepsHandles
  <2>4. CASE (\E n \in 1..MaxSend, d \in BOOLEAN : SendAll(h, n, d)) \/ SendSystemCall(h)
    BY <1>5, <2>4 DEF SendAll, SendSystemCall, SendBytes, SendDone, SendWouldBlock, SendTimesOut, SendFails
  <2>5. QED
    BY <1>7, <2>1, <2>2, <2>3, <2>4
<1>8. CASE Far
  BY <1>5, <1>8 DEF Far, FarConnects, FarReads, FarCloses, FarResets, FarSends
<1>9. CASE UNCHANGED vars
  BY <1>5, <1>9 DEF vars
<1>10. QED
  BY <1>6, <1>7, <1>8, <1>9 DEF Next

\* A handle that was closed is never in use again: what comes into use had not
\* been given out, and what stays in use stays with its connection.
THEOREM HandlesCorrect == Spec => HandlesAreNotReused
<1>1. Inductive /\ [Next]_vars => NothingReused
  BY StepReusesNothing
<1>2. QED
  BY <1>1, InductiveCorrect, PTL DEF Spec, HandlesAreNotReused, NothingReused

-----------------------------------------------------------------------------
(* What a byte string says *)

\* One who takes byte after byte: the lines so far, and what follows the last.
Reader == [lines : Seq(Seq(Byte)), rest : Seq(Byte)]
Begun == [lines |-> <<>>, rest |-> <<>>]

\* A reader takes a byte.
LEMMA FeedType ==
    ASSUME NEW r \in Reader, NEW x \in Byte
    PROVE  Feed(r, x) \in Reader
<1>1. r.lines \in Seq(Seq(Byte)) /\ r.rest \in Seq(Byte)
  BY DEF Reader
<1>2. /\ StripCR(r.rest) \in Seq(Byte)
  BY <1>1, StripType
<1>3. Append(r.lines, StripCR(r.rest)) \in Seq(Seq(Byte)) /\ Append(r.rest, x) \in Seq(Byte)
  BY <1>1, <1>2
<1>4. <<>> \in Seq(Byte)
  OBVIOUS
<1> QED
  BY <1>1, <1>3, <1>4 DEF Feed, Reader

\* The reader after each of the bytes.
Readers(b, r) ==
    /\ r \in [0..Len(b) -> Reader] /\ r[0] = Begun
    /\ \A i \in 1..Len(b) : r[i] = Feed(r[i - 1], b[i])

\* What the reader is at the end, which is how Fed is defined.
LEMMA FedFacts ==
    ASSUME NEW b \in Seq(Byte)
    PROVE  \E r : Readers(b, r) /\ Fed(b) = r[Len(b)]
<1>1. PICK n \in Nat : n = Len(b)
  BY LenProperties
<1>2. \A i \in 1..n : b[i] \in Byte
  BY <1>1, ElementOfSeq
<1>3. Begun \in Reader
  BY DEF Begun, Reader
<1>4. PICK step : step = [i \in 1..n |-> [v \in Reader |-> Feed(v, b[i])]]
  OBVIOUS
<1>5. step \in [1..n -> [Reader -> Reader]]
  BY <1>2, <1>4, FeedType
<1>6. PICK r \in [0..n -> Reader] : r[0] = Begun /\ \A i \in 1..n : r[i] = step[i][r[i - 1]]
  BY <1>3, <1>5, RecursiveFunction DEF Iterates
<1>7. \A i \in 1..n : r[i] = Feed(r[i - 1], b[i])
  BY <1>4, <1>6
<1>8. r = [i \in 0..n |-> IF i = 0 THEN Begun ELSE Feed(r[i - 1], b[i])]
  <2>1. \A i \in 0..n : r[i] = IF i = 0 THEN Begun ELSE Feed(r[i - 1], b[i])
    BY <1>6, <1>7
  <2> QED
    BY <1>6, <2>1
<1>9. PICK u : u = CHOOSE h : h = [i \in 0..n |-> IF i = 0 THEN Begun ELSE Feed(h[i - 1], b[i])]
  OBVIOUS
<1>10. u = [i \in 0..n |-> IF i = 0 THEN Begun ELSE Feed(u[i - 1], b[i])]
  BY <1>8, <1>9, Zenon
<1>11. u[n] = r[n]
  <2>1. PICK S : S = {i \in Nat : i <= n => u[i] = r[i]}
    OBVIOUS
  <2>2. 0 \in S
    BY <1>6, <1>10, <2>1
  <2>3. ASSUME NEW i \in Nat, i \in S
        PROVE  i + 1 \in S
    <3>1. CASE i + 1 <= n
      <4>1. u[i] = r[i] /\ i + 1 \in 1..n /\ i + 1 \in 0..n /\ i + 1 # 0 /\ (i + 1) - 1 = i
        BY <2>1, <2>3, <3>1
      <4>2. u[i + 1] = Feed(u[i], b[i + 1])
        BY <1>10, <4>1
      <4>3. r[i + 1] = Feed(r[i], b[i + 1])
        BY <1>7, <4>1
      <4> QED
        BY <2>1, <4>1, <4>2, <4>3
    <3>2. CASE ~(i + 1 <= n)
      BY <2>1, <3>2
    <3> QED
      BY <3>1, <3>2
  <2>4. n \in S
    BY <2>2, <2>3, Induction
  <2> QED
    BY <2>1, <2>4
<1>12. Fed(b) = u[n]
  BY <1>1, <1>9 DEF Fed, Begun
<1> QED
  BY <1>1, <1>6, <1>7, <1>11, <1>12 DEF Readers

\* Two byte strings that begin alike leave the reader alike.
LEMMA ReadersAgree ==
    ASSUME NEW b, NEW t, NEW r, NEW q, Readers(b, r), Readers(t, q),
           NEW n \in Nat, n <= Len(b), n <= Len(t), Len(b) \in Nat, Len(t) \in Nat,
           \A i \in 1..n : b[i] = t[i]
    PROVE  r[n] = q[n]
<1>1. PICK S : S = {i \in Nat : i <= n => r[i] = q[i]}
  OBVIOUS
<1>2. 0 \in S
  BY <1>1 DEF Readers
<1>3. ASSUME NEW i \in Nat, i \in S
      PROVE  i + 1 \in S
  <2>1. CASE i + 1 <= n
    <3>1. /\ r[i] = q[i] /\ (i + 1) - 1 = i
          /\ i + 1 \in 1..Len(b) /\ i + 1 \in 1..Len(t) /\ i + 1 \in 1..n
      BY <1>1, <1>3, <2>1
    <3>2. r[i + 1] = Feed(r[i], b[i + 1]) /\ q[i + 1] = Feed(q[i], t[i + 1])
      BY <3>1 DEF Readers
    <3> QED
      BY <1>1, <3>1, <3>2
  <2>2. CASE ~(i + 1 <= n)
    BY <1>1, <2>2
  <2> QED
    BY <2>1, <2>2
<1>4. n \in S
  BY <1>2, <1>3, Induction
<1> QED
  BY <1>1, <1>4

\* Fed is a reader, which has read nothing when there is nothing,
LEMMA FedType ==
    ASSUME NEW b \in Seq(Byte)
    PROVE  Fed(b) \in Reader /\ (b = <<>> => Fed(b) = Begun)
<1>1. PICK r : Readers(b, r) /\ Fed(b) = r[Len(b)]
  BY FedFacts
<1>2. Len(b) \in Nat /\ (b = <<>> => Len(b) = 0)
  BY LenProperties
<1> QED
  BY <1>1, <1>2 DEF Readers

\* ... and one byte more is one byte read.
LEMMA FedAppend ==
    ASSUME NEW t \in Seq(Byte), NEW x \in Byte
    PROVE  Fed(Append(t, x)) = Feed(Fed(t), x)
<1>1. PICK b : b = Append(t, x)
  OBVIOUS
<1>2. /\ b \in Seq(Byte) /\ Len(b) = Len(t) + 1 /\ Len(t) \in Nat
      /\ \A i \in 1..Len(t) : b[i] = t[i] /\ b[Len(t) + 1] = x
  BY <1>1, LenProperties, AppendProperties
<1>3. b[Len(t) + 1] = x
  BY <1>1, AppendProperties
<1>4. PICK r : Readers(b, r) /\ Fed(b) = r[Len(b)]
  BY <1>2, FedFacts
<1>5. PICK q : Readers(t, q) /\ Fed(t) = q[Len(t)]
  BY FedFacts
<1>6. r[Len(t)] = q[Len(t)]
  BY <1>2, <1>4, <1>5, ReadersAgree
<1>7. Len(b) \in 1..Len(b) /\ Len(b) - 1 = Len(t)
  BY <1>2
<1>8. r[Len(b)] = Feed(r[Len(t)], x)
  BY <1>2, <1>3, <1>4, <1>7 DEF Readers
<1> QED
  BY <1>1, <1>4, <1>5, <1>6, <1>8

\* Bytes without a newline wait for it.
LEMMA FedPlain ==
    ASSUME NEW t \in Seq(Byte), NEW p \in Seq(Byte), ~HasLF(p)
    PROVE  Fed(t \o p) = [lines |-> Fed(t).lines, rest |-> Fed(t).rest \o p]
<1>1. PICK m \in Nat : m = Len(p) /\ DOMAIN p = 1..m
  BY LenProperties
<1>2. Fed(t) \in Reader
  BY FedType
<1>3. PICK ls \in Seq(Seq(Byte)), rest \in Seq(Byte) : ls = Fed(t).lines /\ rest = Fed(t).rest /\ Fed(t) = [lines |-> ls, rest |-> rest]
  BY <1>2 DEF Reader
<1> DEFINE Good(n) == Fed(t \o SubSeq(p, 1, n)) = [lines |-> ls, rest |-> rest \o SubSeq(p, 1, n)]
<1>4. PICK S : S = {n \in Nat : n <= m => Good(n)}
  OBVIOUS
<1>5. 0 \in S
  <2>1. SubSeq(p, 1, 0) = <<>>
    BY SubSeqEmpty
  <2>2. t \o <<>> = t /\ rest \o <<>> = rest
    BY ConcatEmptySeq
  <2>3. Good(0)
    BY <1>3, <2>1, <2>2
  <2> QED
    BY <1>4, <2>3
<1>6. ASSUME NEW n \in Nat, n \in S
      PROVE  n + 1 \in S
  <2>1. CASE n + 1 <= m
    <3>1. n + 1 \in 1..m /\ n \in 0..m /\ n <= m /\ 1 \in 1..m /\ n + 1 \in 1..Len(p) /\ (n + 1) - 1 = n
      BY <1>1, <2>1
    <3>2. PICK s, x : s = SubSeq(p, 1, n) /\ x = p[n + 1]
      OBVIOUS
    <3>3. s \in Seq(Byte) /\ x \in Byte /\ x # LF
      <4>1. s \in Seq(Byte)
        BY <1>1, <3>1, <3>2, Cut
      <4>2. x \in Byte
        BY <3>1, <3>2, ElementOfSeq
      <4>3. x # LF
        BY <1>1, <3>1, <3>2 DEF HasLF
      <4> QED
        BY <4>1, <4>2, <4>3
    <3>4. SubSeq(p, 1, n + 1) = s \o <<x>>
      <4>1. n + 1 \in 1..Len(p) /\ 1 \in 1..Len(p) /\ n + 1 \in 1..n + 1
        BY <1>1, <3>1
      <4>2. SubSeq(p, 1, n + 1) = SubSeq(p, 1, (n + 1) - 1) \o <<p[n + 1]>>
        BY <4>1, SubSeqRecursiveSecond
      <4> QED
        BY <3>1, <3>2, <4>2
    <3>5. /\ <<x>> \in Seq(Byte) /\ t \o s \in Seq(Byte) /\ rest \o s \in Seq(Byte)
      BY <3>3, ConcatProperties
    <3>6. /\ t \o (s \o <<x>>) = (t \o s) \o <<x>>
          /\ rest \o (s \o <<x>>) = (rest \o s) \o <<x>>
      <4>1. \A f \in Seq(Byte) : \A g \in Seq(Byte) : (f \o g) \o <<x>> = f \o (g \o <<x>>)
        <5>1. PICK y \in Seq(Byte) : y = <<x>>
          BY <3>5
        <5>2. \A f \in Seq(Byte) : \A g \in Seq(Byte) : (f \o g) \o y = f \o (g \o y)
          <6> SUFFICES ASSUME NEW f \in Seq(Byte), NEW g \in Seq(Byte)
                       PROVE  (f \o g) \o y = f \o (g \o y)
            OBVIOUS
          <6> QED
            BY ConcatAssociative
        <5> QED
          BY <5>1, <5>2
      <4>2. \A f \in Seq(Byte) : (f \o s) \o <<x>> = f \o (s \o <<x>>)
        BY <3>3, <4>1, Zenon
      <4>3. t \in Seq(Byte) /\ rest \in Seq(Byte)
        OBVIOUS
      <4>4. (t \o s) \o <<x>> = t \o (s \o <<x>>) /\ (rest \o s) \o <<x>> = rest \o (s \o <<x>>)
        BY <4>2, <4>3, Zenon
      <4> QED
        BY <4>4, Zenon
    <3>7. /\ (t \o s) \o <<x>> = Append(t \o s, x)
          /\ (rest \o s) \o <<x>> = Append(rest \o s, x)
      BY <3>3, <3>5, AppendIsConcat
    <3>8. Fed(t \o s) = [lines |-> ls, rest |-> rest \o s]
      BY <1>4, <1>6, <3>1, <3>2
    <3>9. Fed(Append(t \o s, x)) = Feed(Fed(t \o s), x)
      BY <3>3, <3>5, FedAppend
    <3>10. Feed(Fed(t \o s), x) = [lines |-> ls, rest |-> Append(rest \o s, x)]
      BY <3>3, <3>8 DEF Feed
    <3>11. Good(n + 1)
      BY <3>4, <3>6, <3>7, <3>9, <3>10
    <3> HIDE DEF Good
    <3> QED
      BY <1>4, <3>11
  <2>2. CASE ~(n + 1 <= m)
    BY <1>4, <2>2
  <2> QED
    BY <2>1, <2>2
<1>7. m \in S
  <2> HIDE DEF Good
  <2> QED
    BY <1>5, <1>6, Induction
<1>8. Good(m)
  BY <1>4, <1>7
<1>9. SubSeq(p, 1, m) = p
  BY <1>1, SubSeqFull
<1> QED
  BY <1>3, <1>8, <1>9

\* The bytes end at a newline, or there are none.
AtLine(t) == t = <<>> \/ t[Len(t)] = LF

\* Then nothing waits for a newline.
LEMMA FedAtLine ==
    ASSUME NEW t \in Seq(Byte), AtLine(t)
    PROVE  Fed(t).rest = <<>>
<1>1. CASE t = <<>>
  <2>1. Fed(t) = Begun
    BY <1>1, FedType
  <2> QED
    BY <2>1 DEF Begun
<1>2. CASE t # <<>>
  <2>1. PICK s \in Seq(Byte), x \in Byte : t = Append(s, x)
    BY <1>2, SequenceEmptyOrAppend
  <2>2. Len(t) = Len(s) + 1 /\ t[Len(s) + 1] = x
    BY <2>1, AppendProperties
  <2>3. x = LF
    BY <1>2, <2>2 DEF AtLine
  <2>4. Fed(t) = Feed(Fed(s), LF)
    BY <2>1, <2>3, FedAppend
  <2> QED
    BY <2>4 DEF Feed
<1> QED
  BY <1>1, <1>2

\* A line is read.
LEMMA LineRead ==
    ASSUME NEW t \in Seq(Byte), NEW p \in Seq(Byte), AtLine(t), ~HasLF(p)
    PROVE  /\ LinesOf((t \o p) \o <<LF>>) = Append(LinesOf(t), StripCR(p))
           /\ AtLine((t \o p) \o <<LF>>)
<1>1. LF \in Byte
  BY DEF Byte
<1>2. PICK s \in Seq(Byte) : s = t \o p
  BY ConcatProperties
<1>3. s \o <<LF>> = Append(s, LF)
  BY <1>1, <1>2, AppendIsConcat
<1>4. Fed(t) \in Reader /\ Fed(t).rest = <<>>
  BY FedType, FedAtLine
<1>5. PICK ls \in Seq(Seq(Byte)) : ls = Fed(t).lines
  BY <1>4 DEF Reader
<1>6. <<>> \o p = p
  BY ConcatEmptySeq
<1>7. Fed(s) = [lines |-> ls, rest |-> p]
  BY <1>2, <1>4, <1>5, <1>6, FedPlain
<1>8. Fed(Append(s, LF)) = [lines |-> Append(ls, StripCR(p)), rest |-> <<>>]
  BY <1>1, <1>7, FedAppend DEF Feed
<1>9. LinesOf(Append(s, LF)) = Append(ls, StripCR(p)) /\ LinesOf(t) = ls
  BY <1>4, <1>5, <1>8 DEF LinesOf
<1>10. Len(Append(s, LF)) = Len(s) + 1 /\ Append(s, LF)[Len(s) + 1] = LF
  BY <1>1, <1>2, AppendProperties
<1> QED
  BY <1>2, <1>3, <1>9, <1>10 DEF AtLine

\* What is left at the end is read.
LEMMA RestRead ==
    ASSUME NEW t \in Seq(Byte), NEW p \in Seq(Byte), AtLine(t), ~HasLF(p), p # <<>>
    PROVE  LinesOf(t \o p) = Append(LinesOf(t), p)
<1>1. Fed(t) \in Reader /\ Fed(t).rest = <<>>
  BY FedType, FedAtLine
<1>2. PICK ls \in Seq(Seq(Byte)) : ls = Fed(t).lines
  BY <1>1 DEF Reader
<1>3. <<>> \o p = p
  BY ConcatEmptySeq
<1>4. Fed(t \o p) = [lines |-> ls, rest |-> p]
  BY <1>1, <1>2, <1>3, FedPlain
<1> QED
  BY <1>1, <1>2, <1>4 DEF LinesOf

-----------------------------------------------------------------------------
(* Where the lines start *)

\* A receive_line begins after a newline, but at the end of a connection of
\* which all was read; while it reads, there is no newline in its line buffer.
LineStarts ==
    /\ \A h \in Streams :
         LET c == Socket(h)
         IN /\ entries[h].peer_closed => far[c] \in {"closed", "failed"}
            /\ Reading(h) => ~entries[h].peer_closed /\ ~HasLF(entries[h].line_buffer)
            /\ c \notin raw => AtLine(taken[c]) \/ (entries[h].peer_closed /\ entries[h].line_buffer = <<>>)
    /\ \A c \in Conns : Unaccepted(c) => taken[c] = <<>>

Whole == Inductive /\ LineStarts /\ LinesAsSent

\* A call that reads touches its own handle.
OnlyHandle(h) ==
    /\ SameHandles /\ \A g \in DOMAIN entries : g # h => entries'[g] = entries[g]
    /\ queue' = queue

Grows(c, p) == taken' = [taken EXCEPT ![c] = taken[c] \o p]
Adds(c, line) == lines' = [lines EXCEPT ![c] = Append(lines[c], line)]

\* The calls that take a line that ends with a newline,
ReadsLine(h) ==
    /\ OnlyHandle(h) /\ UNCHANGED <<arrived, raw, far>> /\ call' = None
    /\ entries'[h].peer_closed = entries[h].peer_closed
    /\ entries[h].peer_closed => entries[h].line_buffer # <<>>
    /\ \E p \in Seq(Byte) :
         ~HasLF(p) /\ Grows(Socket(h), p \o <<LF>>) /\ Adds(Socket(h), StripCR(p))

\* ... what is left at the end,
ReadsRest(h) ==
    /\ OnlyHandle(h) /\ UNCHANGED <<arrived, raw, far>> /\ call' = None
    /\ entries'[h].peer_closed /\ entries'[h].line_buffer = <<>>
    /\ entries[h].peer_closed => entries[h].line_buffer # <<>>
    /\ far[Socket(h)] \in {"closed", "failed"}
    /\ \E p \in Seq(Byte) : p # <<>> /\ ~HasLF(p) /\ Grows(Socket(h), p) /\ Adds(Socket(h), p)

\* ... or bytes as they are, and those that take nothing.
ReadsBytes(h) ==
    /\ OnlyHandle(h) /\ UNCHANGED <<arrived, lines, far>> /\ call' = None
    /\ raw' = raw \cup {Socket(h)}
    /\ entries'[h].peer_closed = entries[h].peer_closed
    /\ \E p \in Seq(Byte) : Grows(Socket(h), p)

ReadsNothing(h) ==
    /\ OnlyHandle(h) /\ UNCHANGED <<arrived, taken, lines>>
    /\ raw' = raw \/ raw' = raw \cup {Socket(h)}
    /\ far' = far \/ (far[Socket(h)] = "reset" /\ far' = [far EXCEPT ![Socket(h)] = "failed"])
    /\ entries'[h].peer_closed => far'[Socket(h)] \in {"closed", "failed"}
    /\ (entries[h].peer_closed /\ entries[h].line_buffer = <<>>)
         => (entries'[h].peer_closed /\ entries'[h].line_buffer = <<>>)
    /\ \/ call' = None
       \/ /\ call'.op = "line" /\ call'.handle = h
          /\ ~entries'[h].peer_closed /\ ~HasLF(entries'[h].line_buffer)

\* A line that ends with a newline is taken.
LEMMA ExtractLineReads ==
    ASSUME Inductive, NEW h \in Streams, NEW b \in Seq(Byte), HasLF(b), ExtractLine(h, b),
           UNCHANGED <<queue, far>>, entries[h].peer_closed => entries[h].line_buffer # <<>>
    PROVE  ReadsLine(h)
<1>1. PICK n : n = FirstLF(b)
  OBVIOUS
<1>2. n \in 1..Len(b) /\ Len(b) \in Nat /\ b[n] = LF /\ \A j \in 1..n - 1 : b[j] # LF
  BY <1>1, FirstLFFacts, LenProperties
<1>3. PICK p : p = SubSeq(b, 1, n - 1)
  OBVIOUS
<1>4. n - 1 \in 0..Len(b) /\ (n - 1) + 1 = n
  BY <1>2
<1>5. p \in Seq(Byte)
  BY <1>3, <1>4, Cut
<1>6. ~HasLF(p)
  <2>1. Len(p) = n - 1 /\ DOMAIN p = 1..n - 1 /\ \A i \in 1..n - 1 : p[i] = b[i]
    BY <1>2, <1>3
  <2> QED
    BY <1>2, <2>1 DEF HasLF
<1>7. SubSeq(b, 1, n) = p \o <<LF>>
  <2>1. 1 \in 1..Len(b) /\ n \in 1..Len(b)
    BY <1>2
  <2>2. SubSeq(b, 1, n) = SubSeq(b, 1, n - 1) \o <<b[n]>>
    BY <1>2, <2>1, SubSeqRecursiveSecond
  <2> QED
    BY <1>2, <1>3, <2>2
<1>8. ReturnLine(h, b, n, StripCR(p), entries[h].peer_closed)
  BY <1>1, <1>3 DEF ExtractLine
<1>9. PICK r : SetEntry(h, r, entries[h].peer_closed)
  BY <1>8 DEF ReturnLine
<1>10. h \in DOMAIN entries /\ TypeOK
  BY StreamFacts DEF Inductive
<1>11. OnlyHandle(h) /\ entries'[h].peer_closed = entries[h].peer_closed
  BY <1>9, <1>10, SetWhole DEF OnlyHandle
<1>12. /\ Grows(Socket(h), p \o <<LF>>) /\ Adds(Socket(h), StripCR(p))
       /\ call' = None /\ arrived' = arrived /\ raw' = raw
  BY <1>7, <1>8 DEF ReturnLine, Grows, Adds
<1>13. QED
  BY <1>5, <1>6, <1>11, <1>12 DEF ReadsLine

\* At the end, what is left is taken, if there is something.
LEMMA ReturnEndReads ==
    ASSUME Inductive, NEW h \in Streams, ~HasLF(entries[h].line_buffer), ReturnEnd(h),
           far[Socket(h)] \in {"closed", "failed"}, UNCHANGED <<queue, far>>
    PROVE  ReadsRest(h) \/ ReadsNothing(h)
<1>1. PICK b \in Seq(Byte) : b = entries[h].line_buffer
  BY StreamFacts
<1>2. h \in DOMAIN entries /\ TypeOK
  BY StreamFacts DEF Inductive
<1>3. CASE b # <<>> /\ ReturnLine(h, b, Len(b), b, TRUE)
  <2>1. Len(b) \in Nat /\ Len(b) < Len(b) + 1
    BY LenProperties
  <2>2. SubSeq(b, Len(b) + 1, Len(b)) = <<>> /\ SubSeq(b, 1, Len(b)) = b
    BY <2>1, SubSeqEmpty, SubSeqFull
  <2>3. SetEntry(h, <<>>, TRUE)
    BY <1>3, <2>2 DEF ReturnLine
  <2>4. OnlyHandle(h) /\ entries'[h].peer_closed /\ entries'[h].line_buffer = <<>>
    BY <1>2, <2>3, SetWhole DEF OnlyHandle
  <2>5. /\ Grows(Socket(h), b) /\ Adds(Socket(h), b)
        /\ call' = None /\ arrived' = arrived /\ raw' = raw
    BY <1>3, <2>2 DEF ReturnLine, Grows, Adds
  <2> QED
    BY <1>1, <1>3, <2>4, <2>5 DEF ReadsRest
<1>4. CASE /\ b = <<>> /\ SetEntry(h, <<>>, TRUE) /\ call' = None /\ UNCHANGED history
  <2>1. OnlyHandle(h) /\ entries'[h].peer_closed /\ entries'[h].line_buffer = <<>>
    BY <1>2, <1>4, SetWhole DEF OnlyHandle
  <2> QED
    BY <1>4, <2>1 DEF ReadsNothing, history
<1> QED
  BY <1>1, <1>3, <1>4 DEF ReturnEnd

\* receive_line before its loop.
LEMMA ReceiveLineReads ==
    ASSUME Inductive, LineStarts, NEW h \in Handle, ReceiveLine(h)
    PROVE  h \in Streams /\ (ReadsLine(h) \/ ReadsRest(h) \/ ReadsNothing(h))
<1>1. h \in Streams /\ UNCHANGED <<queue, far>>
  BY DEF ReceiveLine, kernel
<1>2. PICK b \in Seq(Byte) : b = entries[h].line_buffer
  BY <1>1, StreamFacts
<1>3. CASE HasLF(b) /\ ExtractLine(h, b)
  <2>1. b # <<>>
    BY <1>3 DEF HasLF
  <2> QED
    BY <1>1, <1>2, <1>3, <2>1, ExtractLineReads
<1>4. CASE ~HasLF(b) /\ entries[h].peer_closed /\ ReturnEnd(h)
  <2>1. far[Socket(h)] \in {"closed", "failed"}
    BY <1>1, <1>4 DEF LineStarts
  <2> QED
    BY <1>1, <1>2, <1>4, <2>1, ReturnEndReads
<1>5. CASE /\ ~HasLF(b) /\ ~entries[h].peer_closed
           /\ call' = [op |-> "line", handle |-> h]
           /\ UNCHANGED <<entries, result, history>>
  <2>1. entries' = entries /\ UNCHANGED <<arrived, taken, lines, raw>>
    BY <1>5 DEF history
  <2>2. OnlyHandle(h)
    BY <1>1, <2>1 DEF OnlyHandle, SameHandles
  <2>3. call'.op = "line" /\ call'.handle = h
    BY <1>5
  <2> QED
    BY <1>1, <1>2, <1>5, <2>1, <2>2, <2>3 DEF ReadsNothing
<1> QED
  BY <1>1, <1>2, <1>3, <1>4, <1>5 DEF ReceiveLine

\* recv.
LEMMA SystemCallReads ==
    ASSUME Inductive, LineStarts, NEW h \in Handle, ReceiveSystemCall(h)
    PROVE  h \in Streams /\ (ReadsLine(h) \/ ReadsRest(h) \/ ReadsNothing(h))
<1>1. h \in Streams /\ Reading(h) /\ queue' = queue
  BY DEF ReceiveSystemCall, RecvBytes, RecvEnd, RecvWait, RecvError, Reading, Inductive, Counted, kernel
<1>2. ~entries[h].peer_closed /\ ~HasLF(entries[h].line_buffer)
  BY <1>1 DEF LineStarts
<1>3. h \in DOMAIN entries /\ TypeOK
  BY <1>1, StreamFacts DEF Inductive
<1>4. CASE RecvBytes(h)
  <2>1. far' = far
    BY <1>4 DEF RecvBytes
  <2>2. PICK w \in Seq(Byte), l \in Seq(Byte) : w = wire[Socket(h)] /\ l = entries[h].line_buffer
    BY <1>1, StreamFacts
  <2>3. PICK n : n = Shorter(Chunk, Len(w))
    OBVIOUS
  <2>4. n \in 0..Len(w)
    BY <2>3, LenProperties, ConstantsAssumption DEF Shorter
  <2>5. PICK b : b = l \o SubSeq(w, 1, n)
    OBVIOUS
  <2>6. b \in Seq(Byte)
    <3>1. SubSeq(w, 1, n) \in Seq(Byte)
      BY <2>4, Cut
    <3> QED
      BY <2>5, <3>1, ConcatProperties
  <2>7. CASE HasLF(b) /\ ExtractLine(h, b)
    BY <1>1, <1>2, <2>1, <2>6, <2>7, ExtractLineReads
  <2>8. CASE SetEntry(h, b, FALSE) /\ call' = None /\ UNCHANGED history
    <3>1. OnlyHandle(h) /\ entries'[h].peer_closed = FALSE
      BY <1>1, <1>3, <2>8, SetWhole DEF OnlyHandle
    <3> QED
      BY <1>1, <1>2, <2>1, <2>8, <3>1 DEF ReadsNothing, history
  <2>9. CASE ~HasLF(b) /\ SetEntry(h, b, FALSE) /\ UNCHANGED <<call, result, history>>
    <3>1. OnlyHandle(h) /\ entries'[h].peer_closed = FALSE /\ entries'[h].line_buffer = b
      BY <1>1, <1>3, <2>9, SetWhole DEF OnlyHandle
    <3>2. call'.op = "line" /\ call'.handle = h
      BY <1>1, <2>9 DEF Reading
    <3> QED
      BY <1>1, <1>2, <2>1, <2>9, <3>1, <3>2 DEF ReadsNothing, history
  <2> QED
    BY <1>1, <1>4, <2>2, <2>3, <2>5, <2>7, <2>8, <2>9 DEF RecvBytes
<1>5. CASE RecvEnd(h)
  <2>1. far' = far /\ far[Socket(h)] \in {"closed", "failed"} /\ ReturnEnd(h)
    BY <1>5 DEF RecvEnd, kernel
  <2> QED
    BY <1>1, <1>2, <2>1, ReturnEndReads
<1>6. CASE RecvWait(h) \/ RecvError(h)
  <2>1. /\ UNCHANGED <<entries, arrived, taken, lines, raw>> /\ call' = None
        /\ UNCHANGED far \/ (far[Socket(h)] = "reset" /\ far' = [far EXCEPT ![Socket(h)] = "failed"])
    BY <1>6 DEF RecvWait, RecvError, kernel, history
  <2>2. OnlyHandle(h)
    BY <1>1, <2>1 DEF OnlyHandle, SameHandles
  <2>3. ~entries'[h].peer_closed
    BY <1>2, <2>1
  <2>4. /\ far' = far \/ (far[Socket(h)] = "reset" /\ far' = [far EXCEPT ![Socket(h)] = "failed"])
        /\ raw' = raw /\ UNCHANGED <<arrived, taken, lines>> /\ call' = None
    BY <2>1
  <2> QED
    BY <1>1, <1>2, <2>2, <2>3, <2>4 DEF ReadsNothing
<1> QED
  BY <1>1, <1>4, <1>5, <1>6 DEF ReceiveSystemCall

\* receive.
LEMMA ReceiveReads ==
    ASSUME Inductive, LineStarts, NEW h \in Handle, NEW max \in Nat, Receive(h, max)
    PROVE  h \in Streams /\ (ReadsBytes(h) \/ ReadsNothing(h))
<1>1. /\ h \in Streams /\ call' = None /\ UNCHANGED <<queue, arrived, lines>>
      /\ raw' = raw \cup {Socket(h)}
  BY DEF Receive, Idle
<1>2. /\ h \in DOMAIN entries /\ TypeOK /\ far \in [Conns -> {"none", "open", "closed", "reset", "failed"}]
      /\ Socket(h) \in Conns
  BY <1>1, StreamFacts DEF Inductive, TypeOK
<1>3. entries[h].peer_closed => far[Socket(h)] \in {"closed", "failed"}
  BY <1>1 DEF LineStarts
<1>4. PICK w \in Seq(Byte), b \in Seq(Byte) : w = wire[Socket(h)] /\ b = entries[h].line_buffer
  BY <1>1, StreamFacts
<1>5. PICK n, m : n = Shorter(max, Len(b)) /\ m = Shorter(max, Len(w))
  OBVIOUS
<1>6. n \in 0..Len(b) /\ m \in 0..Len(w)
  BY <1>5, LenProperties DEF Shorter
<1>7. SubSeq(b, 1, n) \in Seq(Byte) /\ SubSeq(w, 1, m) \in Seq(Byte)
  BY <1>6, Cut
<1>8. CASE /\ ReturnBytes(h, SubSeq(b, 1, n))
           /\ SetEntry(h, SubSeq(b, n + 1, Len(b)), entries[h].peer_closed)
           /\ UNCHANGED <<wire, far>>
  <2>1. OnlyHandle(h) /\ entries'[h].peer_closed = entries[h].peer_closed
    BY <1>1, <1>2, <1>8, SetWhole DEF OnlyHandle
  <2>2. Grows(Socket(h), SubSeq(b, 1, n))
    BY <1>8 DEF ReturnBytes, Grows
  <2> QED
    BY <1>1, <1>7, <1>8, <2>1, <2>2 DEF ReadsBytes
<1>9. CASE ReturnBytes(h, SubSeq(w, 1, m)) /\ UNCHANGED <<entries, far>>
  <2>1. OnlyHandle(h) /\ entries'[h].peer_closed = entries[h].peer_closed
    BY <1>1, <1>9 DEF OnlyHandle, SameHandles
  <2>2. Grows(Socket(h), SubSeq(w, 1, m))
    BY <1>9 DEF ReturnBytes, Grows
  <2> QED
    BY <1>1, <1>7, <1>9, <2>1, <2>2 DEF ReadsBytes
<1>10. CASE /\ entries[h].peer_closed \/ far[Socket(h)] \in {"closed", "failed"}
            /\ SetEntry(h, <<>>, TRUE) /\ UNCHANGED <<wire, far, taken>>
  <2>1. OnlyHandle(h) /\ entries'[h].peer_closed /\ entries'[h].line_buffer = <<>>
    BY <1>1, <1>2, <1>10, SetWhole DEF OnlyHandle
  <2> QED
    BY <1>1, <1>3, <1>10, <2>1 DEF ReadsNothing
<1>11. CASE /\ ~entries[h].peer_closed /\ UNCHANGED <<entries, taken>>
            /\ UNCHANGED far \/ (far[Socket(h)] = "reset" /\ far' = [far EXCEPT ![Socket(h)] = "failed"])
  <2>1. OnlyHandle(h)
    BY <1>1, <1>11 DEF OnlyHandle, SameHandles
  <2> QED
    BY <1>1, <1>11, <2>1 DEF ReadsNothing
<1> QED
  BY <1>1, <1>4, <1>5, <1>8, <1>9, <1>10, <1>11 DEF Receive

\* A call that reads leaves the other connections and what ended.
LEMMA OthersStay ==
    ASSUME Inductive, LineStarts, NEW h \in Streams, OnlyHandle(h),
           far' = far \/ (far[Socket(h)] = "reset" /\ far' = [far EXCEPT ![Socket(h)] = "failed"]),
           \A k \in Conns : k # Socket(h) => taken'[k] = taken[k],
           raw \subseteq raw',
           entries'[h].peer_closed => far'[Socket(h)] \in {"closed", "failed"},
           \/ call' = None
           \/ /\ call'.op = "line" /\ call'.handle = h
              /\ ~entries'[h].peer_closed /\ ~HasLF(entries'[h].line_buffer),
           Socket(h) \notin raw' =>
             AtLine(taken'[Socket(h)]) \/ (entries'[h].peer_closed /\ entries'[h].line_buffer = <<>>)
    PROVE  LineStarts'
<1>1. Streams' = Streams /\ \A g \in Streams : Socket(g)' = Socket(g)
  BY SameStreams DEF OnlyHandle
<1>2. Socket(h) \in Conns /\ far \in [Conns -> {"none", "open", "closed", "reset", "failed"}]
  BY StreamFacts DEF Inductive, TypeOK
<1>3. /\ \A k \in Conns : (far'[k] = "none" <=> far[k] = "none") /\ (far[k] \in {"closed", "failed"} => far'[k] \in {"closed", "failed"})
      /\ queue' = queue
  BY <1>2 DEF OnlyHandle
<1>4. ASSUME NEW g \in Streams
      PROVE  LET c == Socket(g)
             IN /\ entries'[g].peer_closed => far'[c] \in {"closed", "failed"}
                /\ Reading(g)' => ~entries'[g].peer_closed /\ ~HasLF(entries'[g].line_buffer)
                /\ c \notin raw' => AtLine(taken'[c]) \/ (entries'[g].peer_closed /\ entries'[g].line_buffer = <<>>)
  <2>1. CASE g = h
    BY <2>1 DEF Reading
  <2>2. CASE g # h
    <3>1. Socket(g) # Socket(h) /\ Socket(g) \in Conns /\ g \in DOMAIN entries
      BY <2>2, StreamFacts DEF Inductive, OneOwner
    <3>2. entries'[g] = entries[g] /\ taken'[Socket(g)] = taken[Socket(g)]
      BY <2>2, <3>1 DEF OnlyHandle
    <3>3. ~Reading(g)'
      BY <2>2 DEF Reading
    <3>4. /\ entries[g].peer_closed => far[Socket(g)] \in {"closed", "failed"}
          /\ Socket(g) \notin raw => AtLine(taken[Socket(g)])
                                     \/ (entries[g].peer_closed /\ entries[g].line_buffer = <<>>)
      BY DEF LineStarts
    <3> QED
      BY <1>3, <3>1, <3>2, <3>3, <3>4
  <2> QED
    BY <2>1, <2>2
<1>5. ASSUME NEW c \in Conns, Unaccepted(c)'
      PROVE  taken'[c] = <<>>
  <2>1. Unaccepted(c)
    BY <1>3, <1>5 DEF Unaccepted
  <2>2. c # Socket(h)
    BY <2>1 DEF Inductive, OneOwner
  <2> QED
    BY <2>1, <2>2 DEF LineStarts
<1> QED
  BY <1>1, <1>4, <1>5 DEF LineStarts

\* A connection grows by p.
LEMMA GrowsFacts ==
    ASSUME Inductive, NEW c \in Conns, NEW p \in Seq(Byte), Grows(c, p)
    PROVE  taken'[c] = taken[c] \o p /\ \A k \in Conns : k # c => taken'[k] = taken[k]
BY DEF Inductive, TypeOK, Grows

\* ... and a line is added.
LEMMA AddsFacts ==
    ASSUME Inductive, NEW c \in Conns, NEW line, Adds(c, line)
    PROVE  lines'[c] = Append(lines[c], line) /\ \A k \in Conns : k # c => lines'[k] = lines[k]
BY DEF Inductive, TypeOK, Adds

\* Where the next line starts, and what the lines are, after a line,
LEMMA LineKeeps ==
    ASSUME Whole, NEW h \in Streams, ReadsLine(h)
    PROVE  LineStarts' /\ LinesAsSent'
<1>1. PICK c \in Conns : c = Socket(h)
  BY StreamFacts DEF Whole
<1>2. PICK p \in Seq(Byte) : ~HasLF(p) /\ Grows(c, p \o <<LF>>) /\ Adds(c, StripCR(p))
  BY <1>1 DEF ReadsLine
<1>3. taken[c] \in Seq(Byte) /\ <<LF>> \in Seq(Byte) /\ p \o <<LF>> \in Seq(Byte)
  <2>1. LF \in Byte
    BY DEF Byte
  <2>2. <<LF>> \in Seq(Byte)
    BY <2>1
  <2> QED
    BY <1>1, <2>2, StreamFacts, ConcatProperties DEF Whole
<1>4. /\ taken'[c] = taken[c] \o (p \o <<LF>>) /\ \A k \in Conns : k # c => taken'[k] = taken[k]
      /\ lines'[c] = Append(lines[c], StripCR(p)) /\ \A k \in Conns : k # c => lines'[k] = lines[k]
  BY <1>2, <1>3, GrowsFacts, AddsFacts DEF Whole
<1>5. taken'[c] = (taken[c] \o p) \o <<LF>>
  <2>1. PICK t \in Seq(Byte), x \in Seq(Byte) : t = taken[c] /\ x = <<LF>>
    BY <1>3
  <2>2. (t \o p) \o x = t \o (p \o x)
    BY ConcatAssociative
  <2> QED
    BY <1>4, <2>1, <2>2
<1>6. c \notin raw => AtLine(taken[c])
  BY <1>1 DEF Whole, LineStarts, ReadsLine
<1>7. c \notin raw =>
        /\ LinesOf((taken[c] \o p) \o <<LF>>) = Append(LinesOf(taken[c]), StripCR(p))
        /\ AtLine((taken[c] \o p) \o <<LF>>)
  BY <1>2, <1>3, <1>6, LineRead
<1>8. LineStarts'
  <2>1. entries'[h].peer_closed => far'[c] \in {"closed", "failed"}
    BY <1>1 DEF ReadsLine, Whole, LineStarts
  <2>2. OnlyHandle(h) /\ far' = far /\ raw' = raw /\ call' = None
    BY DEF ReadsLine
  <2> QED
    BY <1>1, <1>4, <1>5, <1>7, <2>1, <2>2, OthersStay DEF Whole
<1>9. LinesAsSent'
  BY <1>4, <1>5, <1>7 DEF Whole, LinesAsSent, ReadsLine
<1> QED
  BY <1>8, <1>9

\* ... after what is left at the end,
LEMMA RestKeeps ==
    ASSUME Whole, NEW h \in Streams, ReadsRest(h)
    PROVE  LineStarts' /\ LinesAsSent'
<1>1. PICK c \in Conns : c = Socket(h)
  BY StreamFacts DEF Whole
<1>2. PICK p \in Seq(Byte) : p # <<>> /\ ~HasLF(p) /\ Grows(c, p) /\ Adds(c, p)
  BY <1>1 DEF ReadsRest
<1>3. taken[c] \in Seq(Byte)
  BY <1>1, StreamFacts DEF Whole
<1>4. /\ taken'[c] = taken[c] \o p /\ \A k \in Conns : k # c => taken'[k] = taken[k]
      /\ lines'[c] = Append(lines[c], p) /\ \A k \in Conns : k # c => lines'[k] = lines[k]
  BY <1>2, GrowsFacts, AddsFacts DEF Whole
<1>5. c \notin raw => AtLine(taken[c])
  BY <1>1 DEF Whole, LineStarts, ReadsRest
<1>6. c \notin raw => LinesOf(taken[c] \o p) = Append(LinesOf(taken[c]), p)
  BY <1>2, <1>3, <1>5, RestRead
<1>7. LineStarts'
  <2>1. /\ OnlyHandle(h) /\ far' = far /\ raw' = raw /\ call' = None /\ far'[c] \in {"closed", "failed"}
        /\ entries'[h].peer_closed /\ entries'[h].line_buffer = <<>>
    BY <1>1 DEF ReadsRest
  <2> QED
    BY <1>1, <1>4, <2>1, OthersStay DEF Whole
<1>8. LinesAsSent'
  BY <1>4, <1>6 DEF Whole, LinesAsSent, ReadsRest
<1> QED
  BY <1>7, <1>8

\* ... and after bytes or nothing.
LEMMA BytesKeep ==
    ASSUME Whole, NEW h \in Streams, ReadsBytes(h) \/ ReadsNothing(h)
    PROVE  LineStarts' /\ LinesAsSent'
<1>1. PICK c \in Conns : c = Socket(h)
  BY StreamFacts DEF Whole
<1>2. CASE ReadsBytes(h)
  <2>1. PICK p \in Seq(Byte) : Grows(c, p)
    BY <1>1, <1>2 DEF ReadsBytes
  <2>2. \A k \in Conns : k # c => taken'[k] = taken[k]
    BY <2>1, GrowsFacts DEF Whole
  <2>3. /\ OnlyHandle(h) /\ far' = far /\ raw' = raw \cup {c} /\ call' = None /\ lines' = lines
        /\ entries'[h].peer_closed => far'[c] \in {"closed", "failed"}
    BY <1>1, <1>2 DEF ReadsBytes, Whole, LineStarts
  <2>4. LineStarts'
    BY <1>1, <2>2, <2>3, OthersStay DEF Whole
  <2> QED
    BY <2>2, <2>3, <2>4 DEF Whole, LinesAsSent
<1>3. CASE ReadsNothing(h)
  <2>1. taken' = taken /\ lines' = lines /\ raw \subseteq raw' /\ OnlyHandle(h)
    BY <1>3 DEF ReadsNothing
  <2>2. c \notin raw' => AtLine(taken'[c]) \/ (entries'[h].peer_closed /\ entries'[h].line_buffer = <<>>)
    BY <1>1, <1>3, <2>1 DEF ReadsNothing, Whole, LineStarts
  <2>3. LineStarts'
    BY <1>1, <1>3, <2>1, <2>2, OthersStay DEF Whole, ReadsNothing
  <2> QED
    BY <2>1, <2>3 DEF Whole, LinesAsSent
<1> QED
  BY <1>2, <1>3

\* Where nothing is read, handles may come and go, and connections end.
LEMMA QuietKeeps ==
    ASSUME Inductive, LineStarts, taken' = taken, raw \subseteq raw',
           \A c \in Conns : Unaccepted(c)' => Unaccepted(c),
           \A h \in Streams' :
             \/ /\ h \in Streams /\ entries'[h] = entries[h]
                /\ far[Socket(h)] \in {"closed", "failed"} => far'[Socket(h)] \in {"closed", "failed"}
                /\ Reading(h)' => Reading(h)
             \/ /\ ~entries'[h].peer_closed /\ ~Reading(h)'
                /\ entries'[h].socket \in Conns /\ Unaccepted(entries'[h].socket)
    PROVE  LineStarts'
<1>1. ASSUME NEW h \in Streams'
      PROVE  LET c == entries'[h].socket
             IN /\ entries'[h].peer_closed => far'[c] \in {"closed", "failed"}
                /\ Reading(h)' => ~entries'[h].peer_closed /\ ~HasLF(entries'[h].line_buffer)
                /\ c \notin raw' => AtLine(taken'[c]) \/ (entries'[h].peer_closed /\ entries'[h].line_buffer = <<>>)
  <2>1. CASE /\ h \in Streams /\ entries'[h] = entries[h]
             /\ far[Socket(h)] \in {"closed", "failed"} => far'[Socket(h)] \in {"closed", "failed"}
             /\ Reading(h)' => Reading(h)
    BY <2>1 DEF LineStarts, Socket
  <2>2. CASE /\ ~entries'[h].peer_closed /\ ~Reading(h)'
             /\ entries'[h].socket \in Conns /\ Unaccepted(entries'[h].socket)
    BY <2>2 DEF LineStarts, AtLine
  <2> QED
    BY <2>1, <2>2
<1>2. \A c \in Conns : Unaccepted(c)' => taken'[c] = <<>>
  BY DEF LineStarts
<1> QED
  BY <1>1, <1>2 DEF LineStarts, Socket

\* A handle comes: that of a listener, or of a connection that nobody had.
LEMMA AddedKeeps ==
    ASSUME Inductive, LineStarts, call = None, UNCHANGED <<call, taken, raw>>,
           NEW c \in Conns \cup {None}, NEW kind \in {"Listener", "Stream"}, Add(c, kind),
           kind = "Stream" => c \in Conns /\ Unaccepted(c),
           \A k \in Conns : far[k] \in {"closed", "failed"} => far'[k] \in {"closed", "failed"},
           \A k \in Conns : Unaccepted(k)' => Unaccepted(k)
    PROVE  LineStarts'
<1>1. PICK e : e = [socket |-> c, kind |-> kind, line_buffer |-> <<>>, peer_closed |-> FALSE]
  OBVIOUS
<1>2. entries'[next_handle] = e
  BY <1>1, AddFacts
<1>3. /\ DOMAIN entries' = DOMAIN entries \cup {next_handle}
      /\ \A g \in DOMAIN entries : entries'[g] = entries[g]
  BY AddFacts, Zenon
<1>4. \A g : ~Reading(g)'
  BY DEF Reading
<1>5. ASSUME NEW h \in Streams'
      PROVE  \/ /\ h \in Streams /\ entries'[h] = entries[h]
                /\ far[Socket(h)] \in {"closed", "failed"} => far'[Socket(h)] \in {"closed", "failed"}
                /\ Reading(h)' => Reading(h)
             \/ /\ ~entries'[h].peer_closed /\ ~Reading(h)'
                /\ entries'[h].socket \in Conns /\ Unaccepted(entries'[h].socket)
  <2>1. h \in DOMAIN entries' /\ entries'[h].kind = "Stream"
    BY DEF Streams
  <2>2. CASE h \in DOMAIN entries
    <3>1. h \in Streams /\ entries'[h] = entries[h]
      BY <1>3, <2>1, <2>2 DEF Streams
    <3>2. Socket(h) \in Conns
      BY <3>1, StreamFacts
    <3> QED
      BY <1>4, <3>1, <3>2
  <2>3. CASE h = next_handle
    <3>1. /\ ~entries'[h].peer_closed /\ entries'[h].socket = c /\ kind = "Stream"
      BY <1>1, <1>2, <2>1, <2>3
    <3> QED
      BY <1>4, <3>1
  <2> QED
    BY <1>3, <2>1, <2>2, <2>3
<1> QED
  BY <1>5, QuietKeeps

\* Handles that go take nothing with them but what is in their line buffers.
LEMMA ClosingKeeps ==
    ASSUME Inductive, LineStarts, NEW gone, Closes(gone)
    PROVE  LineStarts'
<1>1. /\ entries' = [g \in DOMAIN entries \ gone |-> entries[g]] /\ call = None
      /\ UNCHANGED <<call, taken, raw>>
  BY DEF Closes, history
<1>2. \/ /\ queue' = <<>>
         /\ far' = [c \in Conns |-> IF \E i \in DOMAIN queue : queue[i] = c THEN "reset" ELSE far[c]]
      \/ UNCHANGED <<queue, far>>
  BY DEF Closes
<1>3. \A c \in Conns : Unaccepted(c)' => Unaccepted(c)
  <2>1. CASE UNCHANGED <<queue, far>>
    BY <2>1 DEF Unaccepted
  <2>2. CASE /\ queue' = <<>>
             /\ far' = [c \in Conns |-> IF \E i \in DOMAIN queue : queue[i] = c THEN "reset" ELSE far[c]]
    <3>1. DOMAIN queue' = {} /\ \A c \in Conns : far'[c] = "none" => far[c] = "none"
      BY <2>2
    <3> QED
      BY <3>1 DEF Unaccepted
  <2> QED
    BY <1>2, <2>1, <2>2
<1>4. ASSUME NEW g \in Streams'
      PROVE  /\ g \in Streams /\ entries'[g] = entries[g]
             /\ far[Socket(g)] \in {"closed", "failed"} => far'[Socket(g)] \in {"closed", "failed"}
             /\ Reading(g)' => Reading(g)
  <2>1. g \in Streams /\ entries'[g] = entries[g]
    BY <1>1 DEF Streams
  <2>2. Socket(g) \in Conns /\ ~Unaccepted(Socket(g))
    BY <2>1 DEF Inductive, OneOwner
  <2>3. far'[Socket(g)] = far[Socket(g)]
    BY <1>2, <2>2 DEF Unaccepted
  <2> QED
    BY <1>1, <2>1, <2>3 DEF Reading
<1> QED
  BY <1>1, <1>3, <1>4, QuietKeeps

\* The program opens and closes.
LEMMA OpeningKeeps ==
    ASSUME Inductive, LineStarts,
           Listen \/ (\E c \in Conns : Connect(c)) \/ (\E h \in Handle : Accept(h) \/ Close(h))
    PROVE  LineStarts'
<1>1. far \in [Conns -> {"none", "open", "closed", "reset", "failed"}] /\ queue \in Seq(Conns)
  BY DEF Inductive, TypeOK
<1>2. CASE Listen
  <2>1. Add(None, "Listener") /\ call = None /\ UNCHANGED <<queue, far, call, taken, raw>>
    BY <1>2 DEF Listen, Idle, kernel, history
  <2>2. \A k \in Conns : Unaccepted(k)' => Unaccepted(k)
    BY <2>1 DEF Unaccepted
  <2>3. None \in Conns \cup {None} /\ "Listener" \in {"Listener", "Stream"} /\ "Listener" # "Stream"
    OBVIOUS
  <2> QED
    BY <2>1, <2>2, <2>3, AddedKeeps
<1>3. ASSUME NEW c \in Conns, Connect(c)
      PROVE  LineStarts'
  <2>1. /\ Add(c, "Stream") /\ call = None /\ UNCHANGED <<queue, call, taken, raw>>
        /\ far[c] = "none" /\ far' = [far EXCEPT ![c] = "open"]
    BY <1>3 DEF Connect, Idle, history
  <2>2. Unaccepted(c)
    BY <2>1 DEF Unaccepted
  <2>3. /\ \A k \in Conns : far[k] \in {"closed", "failed"} => far'[k] \in {"closed", "failed"}
        /\ \A k \in Conns : far'[k] = "none" => far[k] = "none"
    BY <1>1, <2>1
  <2>4. \A k \in Conns : Unaccepted(k)' => Unaccepted(k)
    BY <2>1, <2>3 DEF Unaccepted
  <2>5. c \in Conns \cup {None} /\ "Stream" \in {"Listener", "Stream"}
    OBVIOUS
  <2> QED
    BY <2>1, <2>2, <2>3, <2>4, <2>5, AddedKeeps
<1>4. ASSUME NEW h \in Handle, Accept(h)
      PROVE  LineStarts'
  <2>1. /\ Add(Head(queue), "Stream") /\ call = None /\ UNCHANGED <<far, call, taken, raw>>
        /\ queue # <<>> /\ queue' = Tail(queue)
    BY <1>4 DEF Accept, Idle, history
  <2>2. /\ Head(queue) \in Conns /\ Len(queue) \in Nat \ {0} /\ DOMAIN queue = 1..Len(queue)
        /\ Head(queue) = queue[1]
    BY <1>1, <2>1, HeadTailProperties, LenProperties
  <2>3. /\ DOMAIN queue' = 1..Len(queue) - 1 /\ \A i \in DOMAIN queue' : queue'[i] = queue[i + 1]
    BY <1>1, <2>1, <2>2
  <2>4. \A i \in DOMAIN queue' : i + 1 \in DOMAIN queue
    BY <2>2, <2>3
  <2>5. \A k \in Conns : Unaccepted(k)' => Unaccepted(k)
    BY <2>1, <2>3, <2>4 DEF Unaccepted
  <2>6. 1 \in DOMAIN queue
    BY <2>2
  <2>7. Unaccepted(Head(queue))
    BY <2>2, <2>6 DEF Unaccepted
  <2>8. Head(queue) \in Conns \cup {None} /\ "Stream" \in {"Listener", "Stream"}
    BY <2>2
  <2> QED
    BY <2>1, <2>2, <2>5, <2>7, <2>8, AddedKeeps
<1>5. ASSUME NEW h \in Handle, Close(h)
      PROVE  LineStarts'
  BY <1>5, OneCloses, ClosingKeeps
<1> QED
  BY <1>2, <1>3, <1>4, <1>5

\* Sending, and what the other end does, are quiet too.
LEMMA EntriesStay ==
    ASSUME Inductive, LineStarts, UNCHANGED <<entries, taken, raw>>,
           \A h : Reading(h)' => Reading(h),
           \A c \in Conns : Unaccepted(c)' => Unaccepted(c),
           \A c \in Conns : far[c] \in {"closed", "failed"} => far'[c] \in {"closed", "failed"}
    PROVE  LineStarts'
<1>1. Streams' = Streams
  BY DEF Streams
<1>2. \A h \in Streams : Socket(h) \in Conns
  BY StreamFacts
<1> QED
  BY <1>1, <1>2, QuietKeeps

\* netSendAll reads nothing.
LEMMA SendingKeeps ==
    ASSUME Inductive, LineStarts, NEW h \in Handle,
           (\E n \in 1..MaxSend, d \in BOOLEAN : SendAll(h, n, d)) \/ SendSystemCall(h)
    PROVE  LineStarts' /\ UNCHANGED <<arrived, taken, lines, raw, far>>
<1>1. /\ UNCHANGED <<entries, queue, far, arrived, taken, lines, raw>>
      /\ call' = None \/ call'.op = "send"
  <2>1. CASE \E n \in 1..MaxSend, d \in BOOLEAN : SendAll(h, n, d)
    BY <2>1 DEF SendAll, kernel, history
  <2>2. ASSUME NEW n \in 1..MaxSend, SendBytes(h, n)
        PROVE  /\ UNCHANGED <<entries, queue, far, arrived, taken, lines, raw>>
               /\ call'.op = "send"
    <3>1. /\ Sending(h) /\ call' = [call EXCEPT !.sent = call.sent + n, !.written = call.written + n, !.short = FALSE]
          /\ UNCHANGED <<entries, queue, far, arrived, taken, lines, raw>>
      BY <2>2 DEF SendBytes, history
    <3>2. PICK z, t, s, d, x, w :
            call = [op |-> "send", handle |-> h, size |-> z, total |-> t, sent |-> s,
                    deadline |-> d, short |-> x, written |-> w]
      BY <3>1, SendingFacts
    <3> QED
      BY <3>1, <3>2
  <2>3. CASE SendWouldBlock(h)
    <3>1. /\ Sending(h) /\ call' = [call EXCEPT !.total = call.total + call.sent, !.sent = 0, !.short = TRUE]
          /\ UNCHANGED <<entries, queue, far, arrived, taken, lines, raw>>
      BY <2>3 DEF SendWouldBlock, kernel, history
    <3>2. PICK z, t, s, d, x, w :
            call = [op |-> "send", handle |-> h, size |-> z, total |-> t, sent |-> s,
                    deadline |-> d, short |-> x, written |-> w]
      BY <3>1, SendingFacts
    <3> QED
      BY <3>1, <3>2
  <2>4. CASE SendDone(h) \/ SendTimesOut(h) \/ SendFails(h)
    BY <2>4 DEF SendDone, SendTimesOut, SendFails, EndSend, kernel, history
  <2> QED
    BY <2>1, <2>2, <2>3, <2>4 DEF SendSystemCall
<1>2. \A g : ~Reading(g)'
  BY <1>1 DEF Reading
<1>3. \A c \in Conns : Unaccepted(c)' => Unaccepted(c)
  BY <1>1 DEF Unaccepted
<1> QED
  BY <1>1, <1>2, <1>3, EntriesStay

\* The other end.
LEMMA FarKeepsStarts ==
    ASSUME Inductive, LineStarts, Far
    PROVE  LineStarts' /\ UNCHANGED <<taken, lines, raw>>
<1>1. /\ far \in [Conns -> {"none", "open", "closed", "reset", "failed"}] /\ queue \in Seq(Conns)
  BY DEF Inductive, TypeOK
<1>2. PICK c \in Conns : \/ FarConnects(c) \/ FarReads(c) \/ FarCloses(c) \/ FarResets(c)
                         \/ \E b \in Byte : FarSends(c, b)
  BY DEF Far
<1>3. UNCHANGED <<entries, call, taken, lines, raw>>
  BY <1>2 DEF FarConnects, FarReads, FarCloses, FarResets, FarSends, history
<1>4. \A h : Reading(h)' => Reading(h)
  BY <1>3 DEF Reading
<1>5. /\ \A k \in Conns : far[k] \in {"closed", "failed"} => far'[k] \in {"closed", "failed"}
      /\ \A k \in Conns : Unaccepted(k)' => Unaccepted(k)
  <2>1. CASE FarConnects(c)
    <3>1. far[c] = "none" /\ far' = [far EXCEPT ![c] = "open"] /\ queue' = Append(queue, c)
      BY <2>1 DEF FarConnects
    <3>2. /\ Len(queue) \in Nat /\ DOMAIN queue = 1..Len(queue) /\ DOMAIN queue' = 1..Len(queue) + 1
          /\ \A i \in 1..Len(queue) : queue'[i] = queue[i]
      BY <1>1, <3>1, LenProperties, AppendProperties
    <3>3. queue'[Len(queue) + 1] = c
      BY <1>1, <3>1, AppendProperties
    <3>4. \A i \in DOMAIN queue' : queue'[i] = c \/ (i \in DOMAIN queue /\ queue'[i] = queue[i])
      BY <3>2, <3>3
    <3>5. \A k \in Conns : (far[k] \in {"closed", "failed"} => far'[k] \in {"closed", "failed"}) /\ (far'[k] = "none" => far[k] = "none")
      BY <1>1, <3>1
    <3> QED
      BY <3>1, <3>4, <3>5 DEF Unaccepted
  <2>2. CASE FarReads(c) \/ \E b \in Byte : FarSends(c, b)
    <3>1. far' = far /\ queue' = queue
      BY <2>2 DEF FarReads, FarSends
    <3> QED
      BY <3>1 DEF Unaccepted
  <2>3. CASE FarCloses(c) \/ FarResets(c)
    <3>1. /\ far[c] = "open" /\ queue' = queue
          /\ far' = [far EXCEPT ![c] = "closed"] \/ far' = [far EXCEPT ![c] = "reset"]
      BY <2>3 DEF FarCloses, FarResets
    <3>2. \A k \in Conns : (far[k] \in {"closed", "failed"} => far'[k] \in {"closed", "failed"}) /\ (far'[k] = "none" => far[k] = "none")
      BY <1>1, <3>1
    <3> QED
      BY <3>1, <3>2 DEF Unaccepted
  <2> QED
    BY <1>2, <2>1, <2>2, <2>3
<1> QED
  BY <1>3, <1>4, <1>5, EntriesStay

-----------------------------------------------------------------------------
(* The lines are those that were sent *)

\* A step opens or closes, sends, is the other end's, or reads.
LEMMA StepKinds ==
    ASSUME Inductive, LineStarts, [Next]_vars
    PROVE  \/ UNCHANGED vars
           \/ Listen \/ (\E c \in Conns : Connect(c)) \/ (\E h \in Handle : Accept(h) \/ Close(h))
           \/ \E h \in Handle : (\E n \in 1..MaxSend, d \in BOOLEAN : SendAll(h, n, d)) \/ SendSystemCall(h)
           \/ Far
           \/ \E h \in Streams : ReadsLine(h) \/ ReadsRest(h) \/ ReadsBytes(h) \/ ReadsNothing(h)
<1>1. ASSUME NEW h \in Handle, ReceiveLine(h)
      PROVE  h \in Streams /\ (ReadsLine(h) \/ ReadsRest(h) \/ ReadsNothing(h))
  BY <1>1, ReceiveLineReads
<1>2. ASSUME NEW h \in Handle, ReceiveSystemCall(h)
      PROVE  h \in Streams /\ (ReadsLine(h) \/ ReadsRest(h) \/ ReadsNothing(h))
  BY <1>2, SystemCallReads
<1>3. ASSUME NEW h \in Handle, NEW max \in 1..2, Receive(h, max)
      PROVE  h \in Streams /\ (ReadsBytes(h) \/ ReadsNothing(h))
  <2>1. max \in Nat
    OBVIOUS
  <2> QED
    BY <1>3, <2>1, ReceiveReads
<1> QED
  BY <1>1, <1>2, <1>3 DEF Next

\* Every step keeps where lines start, and what the lines are.
LEMMA WholeNext ==
    ASSUME Whole, [Next]_vars
    PROVE  Whole'
<1>1. Inductive /\ LineStarts /\ LinesAsSent
  BY DEF Whole
<1>2. Inductive'
  BY <1>1, NextInductive
<1>3. ASSUME UNCHANGED <<taken, lines, raw>>
      PROVE  LinesAsSent'
  BY <1>1, <1>3 DEF LinesAsSent
<1>4. CASE UNCHANGED vars
  <2>1. UNCHANGED <<entries, queue, far, call, taken, lines, raw>>
    BY <1>4 DEF vars, kernel, history
  <2>2. \A h : Reading(h)' => Reading(h)
    BY <2>1 DEF Reading
  <2>3. \A c \in Conns : Unaccepted(c)' => Unaccepted(c)
    BY <2>1 DEF Unaccepted
  <2>4. LineStarts'
    BY <1>1, <2>1, <2>2, <2>3, EntriesStay
  <2> QED
    BY <1>2, <1>3, <2>1, <2>4 DEF Whole
<1>5. CASE Listen \/ (\E c \in Conns : Connect(c)) \/ (\E h \in Handle : Accept(h) \/ Close(h))
  <2>1. UNCHANGED <<taken, lines, raw>>
    BY <1>5 DEF Listen, Connect, Accept, Close, history
  <2> QED
    BY <1>1, <1>2, <1>3, <1>5, <2>1, OpeningKeeps DEF Whole
<1>6. ASSUME NEW h \in Handle,
             (\E n \in 1..MaxSend, d \in BOOLEAN : SendAll(h, n, d)) \/ SendSystemCall(h)
      PROVE  Whole'
  <2>1. LineStarts' /\ UNCHANGED <<taken, lines, raw>>
    BY <1>1, <1>6, SendingKeeps
  <2> QED
    BY <1>2, <1>3, <2>1 DEF Whole
<1>7. CASE Far
  BY <1>1, <1>2, <1>3, <1>7, FarKeepsStarts DEF Whole
<1>8. ASSUME NEW h \in Streams, ReadsLine(h) \/ ReadsRest(h) \/ ReadsBytes(h) \/ ReadsNothing(h)
      PROVE  Whole'
  BY <1>2, <1>8, LineKeeps, RestKeeps, BytesKeep DEF Whole
<1> QED
  BY <1>1, <1>4, <1>5, <1>6, <1>7, <1>8, StepKinds

\* Nothing was read yet.
LEMMA WholeInit ==
    ASSUME Init
    PROVE  Whole
<1>1. Inductive
  BY InitInductive
<1>2. DOMAIN entries = {} /\ DOMAIN queue = {}
  BY DEF Init
<1>3. \A c \in Conns : taken[c] = <<>> /\ lines[c] = <<>>
  BY DEF Init
<1>4. LineStarts
  BY <1>2, <1>3 DEF LineStarts, Streams
<1>5. LinesOf(<<>>) = <<>>
  <2>1. <<>> \in Seq(Byte)
    OBVIOUS
  <2>2. Fed(<<>>) = Begun
    BY <2>1, FedType
  <2> QED
    BY <2>2 DEF LinesOf, Begun
<1> QED
  BY <1>1, <1>3, <1>4, <1>5 DEF Whole, LinesAsSent

\* Every reachable state satisfies the whole invariant.
THEOREM WholeCorrect == Spec => []Whole
<1>1. Init => Whole
  BY WholeInit
<1>2. Whole /\ [Next]_vars => Whole'
  BY WholeNext
<1>3. QED
  BY <1>1, <1>2, PTL DEF Spec

\* However the bytes arrive, cut in pieces of any size, and whatever happens
\* between two of them, receive_line returns the lines of the bytes it takes: cut
\* at each newline and nowhere else, one CR before it left out, and at the end
\* what is left.
THEOREM LinesCorrect == Spec => []LinesAsSent
<1>1. Whole => LinesAsSent
  BY DEF Whole
<1>2. QED
  BY <1>1, WholeCorrect, PTL

-----------------------------------------------------------------------------
(* The connections as streams of lines *)

\* What comes after a beginning is found where the beginning ends.
LEMMA NextPiece ==
    ASSUME NEW s \in Seq(Byte), NEW t \in Seq(Byte), NEW p \in Seq(Byte), Prefix(t \o p, s)
    PROVE  /\ Len(t) + Len(p) \in Len(t)..Len(s)
           /\ t \o p = SubSeq(s, 1, Len(t) + Len(p))
           /\ p = SubSeq(s, Len(t) + 1, Len(t) + Len(p))
<1>1. PICK n, k, l : n = Len(t) /\ k = Len(p) /\ l = Len(s)
  OBVIOUS
<1>2. n \in Nat /\ k \in Nat /\ l \in Nat
  BY <1>1, LenProperties
<1>3. Len(t \o p) = n + k /\ t \o p \in Seq(Byte)
  BY <1>1, ConcatProperties
<1>4. n + k <= l /\ t \o p = SubSeq(s, 1, n + k)
  BY <1>1, <1>3 DEF Prefix
<1>5. \A i \in 1..k : p[i] = s[n + i]
  <2> SUFFICES ASSUME NEW i \in 1..k
               PROVE  p[i] = s[n + i]
    OBVIOUS
  <2>1. n + i \in 1..n + k /\ ~(n + i <= n) /\ (n + i) - n = i
    BY <1>2
  <2>2. (t \o p)[n + i] = p[i]
    BY <1>1, <2>1, ConcatProperties
  <2>3. SubSeq(s, 1, n + k)[n + i] = s[n + i]
    BY <1>1, <1>2, <1>4, <2>1
  <2> QED
    BY <1>4, <2>2, <2>3
<1>6. PICK q : q = SubSeq(s, n + 1, n + k)
  OBVIOUS
<1>7. q \in Seq(Byte) /\ Len(q) = k /\ \A i \in 1..k : q[i] = s[n + i]
  BY <1>1, <1>2, <1>4, <1>6
<1>8. p = q
  BY <1>1, <1>5, <1>7, SeqEqual
<1> QED
  BY <1>1, <1>2, <1>4, <1>6, <1>8

\* What a call took is the beginning of what was sent, also after the call.
LEMMA TookPrefix ==
    ASSUME Inductive, Inductive', NEW h \in Streams, OnlyHandle(h), UNCHANGED arrived
    PROVE  Prefix(taken'[Socket(h)], arrived[Socket(h)])
<1>1. PICK c \in Conns : c = Socket(h)
  BY StreamFacts
<1>2. h \in Streams' /\ Socket(h)' = c /\ h \in DOMAIN entries' /\ arrived' = arrived
  BY <1>1, SameStreams DEF OnlyHandle, Streams
<1>3. /\ entries'[h] \in Entry /\ taken' \in [Conns -> Seq(Byte)]
      /\ wire' \in [Conns -> Seq(Byte)] /\ arrived' \in [Conns -> Seq(Byte)]
  BY <1>2 DEF Inductive, TypeOK
<1>4. PICK t \in Seq(Byte), b \in Seq(Byte), w \in Seq(Byte), a \in Seq(Byte) :
        t = taken'[c] /\ b = entries'[h].line_buffer /\ w = wire'[c] /\ a = arrived'[c]
  BY <1>3 DEF Entry
<1>5. Prefix(t \o b \o w, a)
  BY <1>2, <1>4 DEF Inductive, NoByteLost, Accounted
<1>6. t \o b \in Seq(Byte)
  BY ConcatProperties
<1>7. Prefix(t \o b, a)
  BY <1>5, <1>6, PrefixOfConcat
<1>8. Prefix(t, a)
  BY <1>7, PrefixOfConcat
<1> QED
  BY <1>1, <1>2, <1>4, <1>8

\* A newline is a newline.
LEMMA SameNewline ==
    ASSUME NEW b \in Seq(Byte)
    PROVE  LineStreams!HasLF(b) <=> HasLF(b)
BY LenProperties DEF LineStreams!HasLF, HasLF

\* A step that takes nothing may only end connections.
LEMMA NothingTaken ==
    ASSUME UNCHANGED <<arrived, taken, lines>>,
           \A c \in Conns : far[c] \in {"closed", "reset", "failed"} => far'[c] \in {"closed", "reset", "failed"}
    PROVE  LineStreams!Next
<1>1. PICK gone \in SUBSET Conns : gone = {c \in Conns : far'[c] \in {"closed", "reset", "failed"}}
  OBVIOUS
<1>2. {c \in Conns : far'[c] \in {"closed", "reset", "failed"}}
        = {c \in Conns : far[c] \in {"closed", "reset", "failed"}} \cup gone
  BY <1>1
<1>3. LineStreams!End(gone)
  BY <1>2 DEF LineStreams!End
<1> QED
  BY <1>3 DEF LineStreams!Next

\* A line is taken as it was sent,
LEMMA LineTaken ==
    ASSUME Inductive, Inductive', NEW h \in Streams, ReadsLine(h)
    PROVE  LineStreams!TakeLine(Socket(h))
<1>1. PICK c \in Conns : c = Socket(h)
  BY StreamFacts
<1>2. PICK p \in Seq(Byte) : ~HasLF(p) /\ Grows(c, p \o <<LF>>) /\ Adds(c, StripCR(p))
  BY <1>1 DEF ReadsLine
<1>3. PICK t \in Seq(Byte), s \in Seq(Byte), x \in Seq(Byte) : t = taken[c] /\ s = arrived[c] /\ x = <<LF>>
  <2>1. LF \in Byte
    BY DEF Byte
  <2>2. <<LF>> \in Seq(Byte)
    BY <2>1
  <2>3. taken[c] \in Seq(Byte) /\ arrived[c] \in Seq(Byte)
    BY <1>1 DEF Inductive, TypeOK
  <2> QED
    BY <2>2, <2>3
<1>4. p \o x \in Seq(Byte) /\ t \o p \in Seq(Byte)
  BY ConcatProperties
<1>5. arrived' = arrived /\ far' = far /\ OnlyHandle(h)
  BY DEF ReadsLine
<1>6. taken' = [taken EXCEPT ![c] = t \o (p \o x)] /\ taken'[c] = t \o (p \o x)
  BY <1>2, <1>3, <1>4, GrowsFacts DEF Grows
<1>7. Prefix(t \o (p \o x), s)
  BY <1>1, <1>3, <1>5, <1>6, TookPrefix
<1>8. t \o (p \o x) = (t \o p) \o x
  <2>1. \A g \in Seq(Byte) : \A k \in Seq(Byte) : (t \o g) \o k = t \o (g \o k)
    BY ThreeBytes, Zenon
  <2>2. \A k \in Seq(Byte) : (t \o p) \o k = t \o (p \o k)
    BY <2>1, Zenon
  <2> QED
    BY <2>2, Zenon
<1>9. Prefix(t \o p, s)
  BY <1>4, <1>7, <1>8, PrefixOfConcat
<1>10. PICK n : n = Len(t) + Len(p) + 1
  OBVIOUS
<1>11. /\ Len(t) \in Nat /\ Len(p) \in Nat /\ Len(s) \in Nat /\ Len(x) = 1 /\ Len(p \o x) = Len(p) + 1
       /\ n - 1 = Len(t) + Len(p) /\ Len(t) + Len(p \o x) = n
  <2>1. Len(t) \in Nat /\ Len(p) \in Nat /\ Len(s) \in Nat
    BY LenProperties
  <2>2. Len(x) = 1
    BY <1>3
  <2>3. Len(p \o x) = Len(p) + Len(x)
    BY ConcatProperties
  <2> QED
    BY <1>10, <2>1, <2>2, <2>3
<1>12. p = SubSeq(s, Len(t) + 1, n - 1)
  BY <1>9, <1>11, NextPiece
<1>13. n \in Len(t)..Len(s) /\ t \o (p \o x) = SubSeq(s, 1, n) /\ p \o x = SubSeq(s, Len(t) + 1, n)
  BY <1>4, <1>7, <1>11, NextPiece
<1>14. n \in Len(t) + 1..Len(s)
  BY <1>10, <1>11, <1>13
<1>15. s[n] = LF
  <2>1. (p \o x)[Len(p) + 1] = LF
    <3>1. Len(p) + 1 \in 1..Len(p) + Len(x) /\ ~(Len(p) + 1 <= Len(p)) /\ (Len(p) + 1) - Len(p) = 1
      BY <1>11
    <3>2. (p \o x)[Len(p) + 1] = x[1]
      BY <3>1, ConcatProperties
    <3> QED
      BY <1>3, <3>2
  <2>2. SubSeq(s, Len(t) + 1, n)[Len(p) + 1] = s[n]
    BY <1>10, <1>11, <1>14
  <2> QED
    BY <1>13, <2>1, <2>2
<1>16. LineStreams!TakeLine(c)
  <2>1. LineStreams!Fresh(c, n - 1) = p
    BY <1>3, <1>12 DEF LineStreams!Fresh
  <2>2. ~LineStreams!HasLF(p) /\ LineStreams!Shown(p) = StripCR(p)
    BY <1>2, SameNewline DEF LineStreams!Shown, StripCR
  <2>3. LineStreams!TakeTo(c, n)
    BY <1>3, <1>6, <1>13 DEF LineStreams!TakeTo
  <2>4. LineStreams!Returned(c, StripCR(p))
    BY <1>2 DEF LineStreams!Returned, Adds
  <2>5. n \in Len(taken[c]) + 1..Len(arrived[c]) /\ arrived[c][n] = LF
    BY <1>3, <1>14, <1>15
  <2> QED
    BY <1>5, <2>1, <2>2, <2>3, <2>4, <2>5 DEF LineStreams!TakeLine
<1> QED
  BY <1>1, <1>16

\* ... what is left at the end too,
LEMMA RestTaken ==
    ASSUME Inductive, Inductive', NEW h \in Streams, ReadsRest(h)
    PROVE  LineStreams!TakeRest(Socket(h))
<1>1. PICK c \in Conns : c = Socket(h)
  BY StreamFacts
<1>2. PICK p \in Seq(Byte) : p # <<>> /\ ~HasLF(p) /\ Grows(c, p) /\ Adds(c, p)
  BY <1>1 DEF ReadsRest
<1>3. PICK t \in Seq(Byte), s \in Seq(Byte) : t = taken[c] /\ s = arrived[c]
  BY <1>1 DEF Inductive, TypeOK
<1>4. arrived' = arrived /\ far' = far /\ OnlyHandle(h) /\ far[c] \in {"closed", "failed"}
  BY <1>1 DEF ReadsRest
<1>5. taken' = [taken EXCEPT ![c] = t \o p] /\ taken'[c] = t \o p
  BY <1>2, <1>3, GrowsFacts DEF Grows
<1>6. Prefix(t \o p, s)
  BY <1>1, <1>3, <1>4, <1>5, TookPrefix
<1>7. PICK n : n = Len(t) + Len(p)
  OBVIOUS
<1>8. n \in Len(t)..Len(s) /\ t \o p = SubSeq(s, 1, n) /\ p = SubSeq(s, Len(t) + 1, n)
  BY <1>6, <1>7, NextPiece
<1>9. n \in Len(t) + 1..Len(s)
  <2>1. Len(t) \in Nat /\ Len(p) \in Nat \ {0} /\ Len(s) \in Nat
    BY <1>2, LenProperties, EmptySeq
  <2> QED
    BY <1>7, <1>8, <2>1
<1>10. LineStreams!TakeRest(c)
  <2>1. LineStreams!Fresh(c, n) = p
    BY <1>3, <1>8 DEF LineStreams!Fresh
  <2>2. ~LineStreams!HasLF(p)
    BY <1>2, SameNewline
  <2>3. LineStreams!TakeTo(c, n)
    BY <1>3, <1>5, <1>8 DEF LineStreams!TakeTo
  <2>4. LineStreams!Returned(c, p)
    BY <1>2 DEF LineStreams!Returned, Adds
  <2>5. n \in Len(taken[c]) + 1..Len(arrived[c])
    BY <1>3, <1>9
  <2>6. c \in {k \in Conns : far[k] \in {"closed", "reset", "failed"}}
    BY <1>4
  <2> QED
    BY <1>4, <2>1, <2>2, <2>3, <2>4, <2>5, <2>6 DEF LineStreams!TakeRest
<1> QED
  BY <1>1, <1>10

\* ... and so are bytes.
LEMMA BytesTaken ==
    ASSUME Inductive, Inductive', NEW h \in Streams, ReadsBytes(h)
    PROVE  LineStreams!TakeBytes(Socket(h))
<1>1. PICK c \in Conns : c = Socket(h)
  BY StreamFacts
<1>2. PICK p \in Seq(Byte) : Grows(c, p)
  BY <1>1 DEF ReadsBytes
<1>3. PICK t \in Seq(Byte), s \in Seq(Byte) : t = taken[c] /\ s = arrived[c]
  BY <1>1 DEF Inductive, TypeOK
<1>4. arrived' = arrived /\ far' = far /\ lines' = lines /\ OnlyHandle(h)
  BY DEF ReadsBytes
<1>5. taken' = [taken EXCEPT ![c] = t \o p] /\ taken'[c] = t \o p
  BY <1>2, <1>3, GrowsFacts DEF Grows
<1>6. Prefix(t \o p, s)
  BY <1>1, <1>3, <1>4, <1>5, TookPrefix
<1>7. PICK n \in Len(t)..Len(s) : t \o p = SubSeq(s, 1, n)
  BY <1>6, NextPiece
<1>8. LineStreams!TakeTo(c, n) /\ n \in Len(taken[c])..Len(arrived[c])
  BY <1>3, <1>5, <1>7 DEF LineStreams!TakeTo
<1> QED
  BY <1>1, <1>4, <1>8 DEF LineStreams!TakeBytes

\* What ended stays ended.
LEMMA EndedStays ==
    ASSUME Inductive, LineStarts, [Next]_vars
    PROVE  \A c \in Conns : far[c] \in {"closed", "reset", "failed"} => far'[c] \in {"closed", "reset", "failed"}
<1>1. far \in [Conns -> {"none", "open", "closed", "reset", "failed"}]
  BY DEF Inductive, TypeOK
<1>2. CASE \/ UNCHANGED far
           \/ \E c \in Conns : far[c] \in {"none", "open"} /\ \E s : far' = [far EXCEPT ![c] = s]
           \/ \E c \in Conns, end \in {"closed", "failed"} : far' = [far EXCEPT ![c] = end]
           \/ far' = [c \in Conns |-> IF \E i \in DOMAIN queue : queue[i] = c THEN "reset" ELSE far[c]]
  BY <1>1, <1>2
<1>3. CASE UNCHANGED vars
  BY <1>2, <1>3 DEF vars, kernel
<1>4. CASE Listen \/ (\E c \in Conns : Connect(c)) \/ (\E h \in Handle : Accept(h) \/ Close(h))
  BY <1>2, <1>4 DEF Listen, Connect, Accept, Close, kernel
<1>5. ASSUME NEW h \in Handle,
             (\E n \in 1..MaxSend, d \in BOOLEAN : SendAll(h, n, d)) \/ SendSystemCall(h)
      PROVE  UNCHANGED far
  BY <1>5, SendingKeeps
<1>6. CASE Far
  BY <1>2, <1>6 DEF Far, FarConnects, FarReads, FarCloses, FarResets, FarSends
<1>7. ASSUME NEW h \in Streams, ReadsLine(h) \/ ReadsRest(h) \/ ReadsBytes(h) \/ ReadsNothing(h)
      PROVE  UNCHANGED far \/ \E c \in Conns, end \in {"closed", "failed"} : far' = [far EXCEPT ![c] = end]
  BY <1>7, StreamFacts DEF ReadsLine, ReadsRest, ReadsBytes, ReadsNothing
<1> QED
  BY <1>2, <1>3, <1>4, <1>5, <1>6, <1>7, StepKinds

\* Every step is one of the streams of lines.
LEMMA StreamStep ==
    ASSUME Whole, Whole', [Next]_vars
    PROVE  LineStreams!Next
<1>1. Inductive /\ Inductive' /\ LineStarts
  BY DEF Whole
<1>2. \A c \in Conns : far[c] \in {"closed", "reset", "failed"} => far'[c] \in {"closed", "reset", "failed"}
  BY <1>1, EndedStays
<1>3. CASE UNCHANGED <<arrived, taken, lines>>
  BY <1>2, <1>3, NothingTaken
<1>4. CASE \/ UNCHANGED vars
           \/ Listen \/ (\E c \in Conns : Connect(c)) \/ (\E h \in Handle : Accept(h) \/ Close(h))
  BY <1>3, <1>4 DEF vars, Listen, Connect, Accept, Close, history
<1>5. ASSUME NEW h \in Handle,
             (\E n \in 1..MaxSend, d \in BOOLEAN : SendAll(h, n, d)) \/ SendSystemCall(h)
      PROVE  LineStreams!Next
  BY <1>1, <1>3, <1>5, SendingKeeps
<1>6. CASE Far
  <2>1. PICK c \in Conns : \/ FarConnects(c) \/ FarReads(c) \/ FarCloses(c) \/ FarResets(c)
                           \/ \E b \in Byte : FarSends(c, b)
    BY <1>6 DEF Far
  <2>2. CASE FarConnects(c) \/ FarReads(c) \/ FarCloses(c) \/ FarResets(c)
    BY <1>3, <2>2 DEF FarConnects, FarReads, FarCloses, FarResets, history
  <2>3. ASSUME NEW b \in Byte, FarSends(c, b)
        PROVE  LineStreams!Next
    <3>1. /\ far[c] = "open" /\ UNCHANGED <<far, taken, lines>>
          /\ arrived' = [arrived EXCEPT ![c] = Append(@, b)]
      BY <2>3 DEF FarSends
    <3>2. c \notin {k \in Conns : far[k] \in {"closed", "reset", "failed"}}
      BY <3>1
    <3>3. LineStreams!Send(c)
      BY <3>1, <3>2 DEF LineStreams!Send
    <3> QED
      BY <3>3 DEF LineStreams!Next
  <2> QED
    BY <2>1, <2>2, <2>3
<1>7. ASSUME NEW h \in Streams, ReadsLine(h) \/ ReadsRest(h) \/ ReadsBytes(h) \/ ReadsNothing(h)
      PROVE  LineStreams!Next
  <2>1. Socket(h) \in Conns
    BY <1>1, StreamFacts
  <2>2. CASE ReadsLine(h)
    BY <1>1, <2>1, <2>2, LineTaken DEF LineStreams!Next
  <2>3. CASE ReadsRest(h)
    BY <1>1, <2>1, <2>3, RestTaken DEF LineStreams!Next
  <2>4. CASE ReadsBytes(h)
    BY <1>1, <2>1, <2>4, BytesTaken DEF LineStreams!Next
  <2>5. CASE ReadsNothing(h)
    BY <1>3, <2>5 DEF ReadsNothing
  <2> QED
    BY <1>7, <2>2, <2>3, <2>4, <2>5
<1> QED
  BY <1>1, <1>4, <1>5, <1>6, <1>7, StepKinds

\* Nothing is sent or taken at the start.
LEMMA StreamInit ==
    ASSUME Init
    PROVE  LineStreams!Init
<1>1. /\ arrived = [c \in Conns |-> <<>>] /\ far = [c \in Conns |-> "none"]
      /\ taken = [c \in Conns |-> <<>>] /\ lines = [c \in Conns |-> <<>>]
  BY DEF Init
<1>2. {c \in Conns : far[c] \in {"closed", "reset", "failed"}} = {}
  BY <1>1
<1> QED
  BY <1>1, <1>2 DEF LineStreams!Init

\* The connections of the program are streams of lines: each call of receive and
\* receive_line takes the next bytes of what the other end sent, a line ends at
\* the next newline, also when the two are used in turn, and what stands before
\* no newline is a line only at the end.
THEOREM ManagerImplementsLineStream == Spec => ImplementsLineStream
<1>1. Init => LineStreams!Init
  BY StreamInit
<1>2. Whole /\ Whole' /\ [Next]_vars => LineStreams!Next
  BY StreamStep
<1>3. QED
  BY <1>1, <1>2, WholeCorrect, PTL DEF Spec, ImplementsLineStream, LineStreams!Spec
=============================================================================
