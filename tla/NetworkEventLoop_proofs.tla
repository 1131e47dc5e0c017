----------------------- MODULE NetworkEventLoop_proofs -----------------------
(***************************************************************************)
(* Proofs about the main loop, for any number of clients, bytes and sizes: *)
(* what holds of the sockets of a program holds in the loop.  Between two  *)
(* calls the loop takes clients away, any number at once, which is not a   *)
(* step of NetworkManager; so the invariant of the sockets has to be kept  *)
(* by these steps too, and they have to find no call in progress.          *)
(***************************************************************************)
EXTENDS NetworkEventLoop, NetworkManager_proofs

\* While drainClient waits for receive_line, its client is there, and the call in
\* progress, or else what was returned last, is of this client.
Drains ==
    /\ ~called => call = None
    /\ called =>
         /\ phase = "drain" /\ handle # None /\ handle \in Streams
         /\ \/ call = [op |-> "line", handle |-> handle]
            \/ /\ call = None
               /\ \E s \in {"data", "wait", "closed", "error"} : \E d :
                    result = [handle |-> handle, status |-> s, data |-> d]

LoopInv == Whole /\ Drains

-----------------------------------------------------------------------------
(* What the loop's steps do to the sockets *)

\* A call of receive_line has begun or returned.
LEMMA CallStep ==
    ASSUME Inductive, NEW h \in Handle, ReceiveLine(h) \/ ReceiveSystemCall(h)
    PROVE  /\ h \in Streams /\ Streams' = Streams
           /\ \/ call' = [op |-> "line", handle |-> h]
              \/ UNCHANGED call /\ call # None
              \/ /\ call' = None
                 /\ \E s \in {"data", "wait", "closed", "error"} : \E d :
                      result' = [handle |-> h, status |-> s, data |-> d]
<1>1. h \in Streams
  BY DEF ReceiveLine, ReceiveSystemCall, RecvBytes, RecvEnd, RecvWait, RecvError, Reading,
         Inductive, Counted
<1>2. SameHandles
  BY ReadingKeepsHandles
<1>3. Streams' = Streams
  BY <1>2, SameStreams
<1> DEFINE Returned ==
      /\ call' = None
      /\ \E s \in {"data", "wait", "closed", "error"} : \E d :
           result' = [handle |-> h, status |-> s, data |-> d]
<1>4. ASSUME NEW s \in {"data", "wait", "closed", "error"}, NEW d, Returns(h, s, d), call' = None
      PROVE  Returned
  BY <1>4 DEF Returns
<1>5. ASSUME NEW b, NEW n, NEW line, NEW closed, ReturnLine(h, b, n, line, closed)
      PROVE  Returned
  BY <1>4, <1>5 DEF ReturnLine
<1> HIDE DEF Returned
<1>6. ASSUME ReturnEnd(h)
      PROVE  Returned
  BY <1>4, <1>5, <1>6 DEF ReturnEnd
<1>7. ASSUME NEW b, ExtractLine(h, b)
      PROVE  Returned
  BY <1>5, <1>7 DEF ExtractLine
<1>8. \/ call' = [op |-> "line", handle |-> h]
      \/ UNCHANGED call /\ call # None
      \/ Returned
  <2>1. CASE ReceiveLine(h)
    BY <1>6, <1>7, <2>1 DEF ReceiveLine
  <2>2. CASE RecvBytes(h)
    BY <1>4, <1>7, <2>2 DEF RecvBytes, Reading
  <2>3. CASE RecvEnd(h)
    BY <1>6, <2>3 DEF RecvEnd
  <2>4. CASE RecvWait(h) \/ RecvError(h)
    BY <1>4, <2>4 DEF RecvWait, RecvError
  <2> QED
    BY <2>1, <2>2, <2>3, <2>4 DEF ReceiveSystemCall
<1> QED
  BY <1>1, <1>3, <1>8 DEF Returned

\* Clients are removed.
LEMMA RemovalCloses ==
    ASSUME call = None, NEW gone, RemoveClients(gone), UNCHANGED kernel
    PROVE  Closes(gone)
BY DEF RemoveClients, Closes, kernel

\* A step of the loop is one of the sockets, or takes handles away.
LEMMA LoopSteps ==
    ASSUME Inductive, Drains, [LoopNext]_loopVars
    PROVE  [Next]_vars \/ \E gone : Closes(gone)
<1>1. Streams \subseteq Handle /\ Listeners \subseteq Handle
  BY DEF Inductive, TypeOK, Streams, Listeners
<1>2. CASE UNCHANGED loopVars \/ Poll \/ DrainNext
  BY <1>2 DEF loopVars, Poll, DrainNext
<1>3. CASE Start
  BY <1>3 DEF Start, Next
<1>4. CASE AcceptPending
  BY <1>1, <1>4 DEF AcceptPending, Next
<1>5. CASE CallLine
  <2>1. CASE ReceiveLine(handle)
    <3>1. handle \in Handle
      BY <1>1, <2>1 DEF ReceiveLine
    <3> QED
      BY <2>1, <3>1 DEF Next
  <2> QED
    BY <1>5, <2>1 DEF CallLine
<1>6. CASE GoOn
  <2>1. handle \in Handle
    BY <1>1, <1>6 DEF GoOn, Drains
  <2> QED
    BY <1>6, <2>1 DEF GoOn, Next
<1>7. CASE LookAtResult
  <2>1. PICK gone : RemoveClients(gone)
    BY <1>7 DEF LookAtResult, ProcessLine, RemoveDrained, DrainedToWait
  <2>2. call = None /\ UNCHANGED kernel
    BY <1>7 DEF LookAtResult, Idle
  <2> QED
    BY <2>1, <2>2, RemovalCloses
<1>8. CASE Console
  <2>1. PICK gone : RemoveClients(gone)
    BY <1>8 DEF Console
  <2>2. call = None /\ UNCHANGED kernel
    BY <1>8 DEF Console, Drained, Drains
  <2> QED
    BY <2>1, <2>2, RemovalCloses
<1>9. CASE Stop
  <2>1. call = None
    BY <1>9 DEF Stop, Drained, Drains
  <2>2. Closes(DOMAIN entries)
    BY <1>9, <2>1 DEF Stop, RemoveClients, Closes
  <2> QED
    BY <2>2
<1>10. CASE Far
  BY <1>10 DEF Next
<1> QED
  BY <1>2, <1>3, <1>4, <1>5, <1>6, <1>7, <1>8, <1>9, <1>10 DEF LoopNext, Loop

-----------------------------------------------------------------------------
(* The inductive invariant *)

\* Taking handles away keeps what the lines are.
LEMMA ClosesWhole ==
    ASSUME Whole, NEW gone, Closes(gone)
    PROVE  Whole'
<1>1. Inductive /\ LineStarts /\ LinesAsSent
  BY DEF Whole
<1>2. Inductive' /\ LineStarts'
  BY <1>1, ClosesStep, ClosingKeeps
<1>3. LinesAsSent'
  BY <1>1 DEF Closes, history, LinesAsSent
<1> QED
  BY <1>2, <1>3 DEF Whole

\* The loop looks at what its own call returned.
LEMMA DrainsNext ==
    ASSUME Inductive, Drains, [LoopNext]_loopVars
    PROVE  Drains'
<1>1. CASE UNCHANGED <<entries, call, result, phase, handle, called>>
  BY <1>1 DEF Drains, Streams
<1>2. CASE UNCHANGED loopVars
  BY <1>1, <1>2 DEF loopVars, vars, chat
<1>3. CASE UNCHANGED called /\ ~called /\ call' = call
  BY <1>3 DEF Drains
<1>4. CASE Start \/ Poll \/ AcceptPending
  <2>1. UNCHANGED called /\ ~called /\ call' = call
    BY <1>4 DEF Start, Poll, AcceptPending, Listen, Accept, vars, Drains
  <2> QED
    BY <1>3, <2>1
<1>5. CASE DrainNext
  BY <1>3, <1>5 DEF DrainNext, vars, Drains
<1>6. CASE Console \/ Stop
  <2>1. UNCHANGED called /\ ~called /\ call' = call
    BY <1>6 DEF Console, Stop, Drained, RemoveClients, Drains
  <2> QED
    BY <1>3, <2>1
<1>7. CASE LookAtResult
  <2>1. ~called' /\ call = None
    BY <1>7 DEF LookAtResult, Idle
  <2>2. call' = call
    BY <1>7 DEF LookAtResult, ProcessLine, RemoveDrained, DrainedToWait, RemoveClients
  <2> QED
    BY <2>1, <2>2 DEF Drains
<1>8. CASE CallLine
  <2>1. CASE ReceiveLine(handle) /\ called' /\ UNCHANGED handle
    <3>1. handle \in Handle /\ phase' = "drain" /\ handle # None /\ call = None
      BY <1>8, <2>1 DEF CallLine, Draining, ReceiveLine, Idle, Inductive, TypeOK, Streams
    <3>2. /\ handle \in Streams /\ Streams' = Streams
          /\ \/ call' = [op |-> "line", handle |-> handle]
             \/ UNCHANGED call /\ call # None
             \/ /\ call' = None
                /\ \E s \in {"data", "wait", "closed", "error"} : \E d :
                     result' = [handle |-> handle, status |-> s, data |-> d]
      BY <2>1, <3>1, CallStep
    <3> QED
      BY <2>1, <3>1, <3>2 DEF Drains
  <2>2. CASE UNCHANGED called /\ ~called /\ call' = call
    BY <1>3, <2>2
  <2> QED
    BY <1>8, <2>1, <2>2 DEF CallLine, vars
<1>9. CASE GoOn
  <2>1. /\ ReceiveSystemCall(handle) /\ UNCHANGED <<phase, handle, called>>
        /\ called /\ phase = "drain" /\ handle # None /\ handle \in Streams
    BY <1>9 DEF GoOn, chat, Draining, Drains
  <2>2. handle \in Handle
    BY <2>1 DEF Inductive, TypeOK, Streams
  <2>3. Streams' = Streams /\ call = [op |-> "line", handle |-> handle]
    <3>1. call # None
      BY <2>1 DEF ReceiveSystemCall, RecvBytes, RecvEnd, RecvWait, RecvError, Reading
    <3> QED
      BY <2>1, <2>2, <3>1, CallStep DEF Drains
  <2> QED
    BY <2>1, <2>2, <2>3, CallStep DEF Drains
<1>10. CASE Far /\ UNCHANGED chat
  BY <1>1, <1>10 DEF chat, Far, FarConnects, FarSends, FarReads, FarCloses, FarResets
<1> QED
  BY <1>2, <1>4, <1>5, <1>6, <1>7, <1>8, <1>9, <1>10 DEF LoopNext, Loop

\* No bytes were read and nothing is called when the program starts.
LEMMA LoopInvInit ==
    ASSUME LoopInit
    PROVE  LoopInv
BY WholeInit DEF LoopInit, LoopInv, Drains, Init

\* Every step of the loop keeps both.
LEMMA LoopInvNext ==
    ASSUME LoopInv, [LoopNext]_loopVars
    PROVE  LoopInv'
<1>1. Whole /\ Drains /\ Inductive
  BY DEF LoopInv, Whole
<1>2. Whole'
  BY <1>1, LoopSteps, WholeNext, ClosesWhole
<1> QED
  BY <1>1, <1>2, DrainsNext DEF LoopInv

-----------------------------------------------------------------------------
(* Theorems *)

\* Every reachable state of the loop satisfies the inductive invariant: the calls
\* of the loop find no other call in progress, and drainClient looks at what its
\* own call returned.
THEOREM LoopInvCorrect == LoopSpec => []LoopInv
<1>1. LoopInit => LoopInv
  BY LoopInvInit
<1>2. LoopInv /\ [LoopNext]_loopVars => LoopInv'
  BY LoopInvNext
<1>3. QED
  BY <1>1, <1>2, PTL DEF LoopSpec

\* In the main loop no byte is lost, repeated or moved either, whatever clients
\* are removed between two calls.
THEOREM LoopBytesCorrect == LoopSpec => []BytesAccounted
<1>1. LoopInv => BytesAccounted
  BY InductiveAccounts DEF LoopInv, Whole
<1>2. QED
  BY <1>1, LoopInvCorrect, PTL

\* The lines that drainClient hands to processLine are those its clients sent,
\* each whole and in order.
THEOREM LoopLinesCorrect == LoopSpec => []LinesAsSent
<1>1. LoopInv => LinesAsSent
  BY DEF LoopInv, Whole
<1>2. QED
  BY <1>1, LoopInvCorrect, PTL

\* The loop finds the streams of lines that NetworkManager promises: its steps
\* send, end, or take the next line, the rest or nothing, for one client.
THEOREM LoopImplementsLineStream == LoopSpec => ImplementsLineStream
<1>1. LoopInit => LineStreams!Init
  BY StreamInit DEF LoopInit
<1>2. LoopInv /\ LoopInv' /\ [LoopNext]_loopVars => [LineStreams!Next]_(LineStreams!vars)
  <2>1. ASSUME NEW gone, Closes(gone), Inductive
        PROVE  LineStreams!Next
    <3>1. far \in [Conns -> {"none", "open", "closed", "reset", "failed"}]
      BY <2>1 DEF Inductive, TypeOK
    <3>2. \A c \in Conns : far[c] \in {"closed", "reset", "failed"} => far'[c] \in {"closed", "reset", "failed"}
      BY <2>1, <3>1 DEF Closes
    <3> QED
      BY <2>1, <3>2, NothingTaken DEF Closes, history
  <2> QED
    BY <2>1, LoopSteps, StreamStep DEF LoopInv, Whole
<1>3. QED
  BY <1>1, <1>2, LoopInvCorrect, PTL DEF LoopSpec, ImplementsLineStream, LineStreams!Spec

\* In the main loop a handle that was closed is never in use again: a client that
\* is removed while another is being drained is not taken for a later one.
THEOREM LoopHandlesCorrect == LoopSpec => HandlesAreNotReused
<1>1. ASSUME LoopInv, [LoopNext]_loopVars
      PROVE  [NothingReused]_vars
  <2>1. Inductive /\ Drains
    BY <1>1 DEF LoopInv, Whole
  <2>2. ASSUME NEW gone, Closes(gone)
        PROVE  NothingReused
    <3>1. entries' = [g \in DOMAIN entries \ gone |-> entries[g]] /\ next_handle' = next_handle
      BY <2>2 DEF Closes
    <3>2. next_handle \in Nat /\ \A h \in DOMAIN entries : h < next_handle
      BY <2>1, ConstantsAssumption DEF Inductive, TypeOK, GivenOut
    <3> QED
      BY <3>1, <3>2 DEF NothingReused, Socket
  <2> QED
    BY <1>1, <2>1, <2>2, LoopSteps, StepReusesNothing
<1>2. QED
  BY <1>1, LoopInvCorrect, PTL DEF LoopSpec, HandlesAreNotReused, NothingReused
=============================================================================
