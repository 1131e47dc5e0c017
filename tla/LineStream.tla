----------------------------- MODULE LineStream -----------------------------
(***************************************************************************)
(* What the connections of a program promise to the one who reads: the     *)
(* bytes the other end sends are taken in their order, each once; a line   *)
(* is what stands before the next newline, however the bytes arrived and   *)
(* whatever was taken before; at the end what is left is a line as well.   *)
(***************************************************************************)
EXTENDS Integers, Sequences

CONSTANTS
    Conns,  \* the connections
    Byte,   \* what can be sent
    CR, LF

VARIABLES
    sent,   \* what the other end has sent
    ended,  \* the connections whose other end sends no more
    taken,  \* what was taken of it
    lines   \* the lines among what was taken

vars == <<sent, ended, taken, lines>>

Init ==
    /\ sent = [c \in Conns |-> <<>>] /\ ended = {}
    /\ taken = [c \in Conns |-> <<>>] /\ lines = [c \in Conns |-> <<>>]

Send(c) ==
    /\ c \notin ended
    /\ \E b \in Byte : sent' = [sent EXCEPT ![c] = Append(@, b)]
    /\ UNCHANGED <<ended, taken, lines>>

\* Connections end, several at once with the listener they wait at.
End(gone) ==
    /\ ended' = ended \cup gone
    /\ UNCHANGED <<sent, taken, lines>>

\* The bytes up to number n that were not taken.
Fresh(c, n) == SubSeq(sent[c], Len(taken[c]) + 1, n)
TakeTo(c, n) == taken' = [taken EXCEPT ![c] = SubSeq(sent[c], 1, n)]
HasLF(b) == \E i \in 1..Len(b) : b[i] = LF

\* A line as it is returned: one CR at its end is left out.
Shown(b) == IF b # <<>> /\ b[Len(b)] = CR THEN SubSeq(b, 1, Len(b) - 1) ELSE b

Returned(c, line) == lines' = [lines EXCEPT ![c] = Append(@, line)]

TakeLine(c) ==
    \E n \in Len(taken[c]) + 1..Len(sent[c]) :
        /\ sent[c][n] = LF /\ ~HasLF(Fresh(c, n - 1))
        /\ TakeTo(c, n) /\ Returned(c, Shown(Fresh(c, n - 1)))
        /\ UNCHANGED <<sent, ended>>

\* What stands before the end and not before a newline, as it is.
TakeRest(c) ==
    \E n \in Len(taken[c]) + 1..Len(sent[c]) :
        /\ c \in ended /\ ~HasLF(Fresh(c, n))
        /\ TakeTo(c, n) /\ Returned(c, Fresh(c, n))
        /\ UNCHANGED <<sent, ended>>

TakeBytes(c) ==
    /\ \E n \in Len(taken[c])..Len(sent[c]) : TakeTo(c, n)
    /\ UNCHANGED <<sent, ended, lines>>

Next ==
    \/ \E c \in Conns : Send(c) \/ TakeLine(c) \/ TakeRest(c) \/ TakeBytes(c)
    \/ \E gone \in SUBSET Conns : End(gone)

Spec == Init /\ [][Next]_vars
=============================================================================
