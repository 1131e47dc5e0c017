----------------------- MODULE SecureChannelProgress -----------------------
(***************************************************************************)
(* What the channel achieves when nothing goes wrong: both programs begin  *)
(* one handshake with the same password, call their step function until it *)
(* is over, then call receive_line whenever their event loop comes round,  *)
(* and the connection lives.  They may send a line at any time.            *)
(*                                                                         *)
(* A line whose buffer stays full is written without a deadline here, so   *)
(* that what is shown is not that calls give up.                           *)
(***************************************************************************)
EXTENDS SecureChannel

CONSTANT Password   \* the password both sides were started with

ASSUME PasswordAssumption == Password \in Passwords

Begin ==
    \/ /\ pending[Client] = None /\ session[Client] = None
       /\ BeginClient(Password)
    \/ \E x \in Prefixes : BeginServer(Password, x)

\* The counter, 2^64 - 1 in the code, is not exhausted.
Send(e) ==
    /\ session[e] # None /\ session[e].sendCounter < MaxCounter
    /\ \E t \in Texts : SendLine(e, t, FALSE)

GoodNext ==
    \/ Begin
    \/ \E e \in Endpoint : Step(e) \/ Write(e) \/ WriteShort(e) \/ Send(e) \/ ReceiveLine(e)

\* A write with room for its line goes on: every receive_line of the peer, also
\* one that returns Wait, takes what has arrived out of the socket buffer.
GoodSpec ==
    /\ Init /\ [][GoodNext]_vars
    /\ WF_vars(Begin)
    /\ \A e \in Endpoint : WF_vars(Step(e)) /\ WF_vars(Write(e)) /\ WF_vars(ReceiveLine(e))

\* Both handshakes complete, and the two sessions then stay.
HandshakeCompletes == <>[](\A e \in Endpoint : session[e] # None)

\* What one side seals, the other opens in the end, unless each side is in a
\* write without a deadline that waits for the other to read.
BothStalled ==
    \A e \in Endpoint : out[e] # None /\ Len(lines[e]) = Cap

EverythingIsOpened ==
    \A e \in Endpoint, s \in Salts, n \in 1..MaxCounter :
        Len(sealed[e][s]) >= n ~> (Len(opened[Peer(e)][s]) >= n \/ BothStalled)

=============================================================================
