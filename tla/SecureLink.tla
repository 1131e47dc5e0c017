----------------------------- MODULE SecureLink -----------------------------
(***************************************************************************)
(* What the secure channel promises, without wires, counters or keys.      *)
(*                                                                         *)
(* Each handshake the server begins has an epoch of its own.  In an epoch  *)
(* each side posts a sequence of texts and accepts a prefix of what the    *)
(* other posted: nothing lost in the middle, repeated, reordered or        *)
(* carried over from another epoch.  The client's first text is its proof  *)
(* that it knows the password; the server accepts it and answers with its  *)
(* own proof in one step; and no side posts application text before it has *)
(* accepted the other's proof.                                             *)
(***************************************************************************)
EXTENDS Integers, Sequences

CONSTANTS Client, Server, Texts, Epochs

Side == {Client, Server}
Other(e) == IF e = Client THEN Server ELSE Client

VARIABLES
    posted,    \* the texts a side has posted, by epoch
    accepted   \* the texts a side has accepted from the other, by epoch

linkVars == <<posted, accepted>>

Init ==
    /\ posted = [e \in Side |-> [s \in Epochs |-> <<>>]]
    /\ accepted = [e \in Side |-> [s \in Epochs |-> <<>>]]

\* The next text e has not accepted yet in epoch s is t.
Awaits(e, s, t) ==
    LET n == Len(accepted[e][s]) + 1
    IN n <= Len(posted[Other(e)][s]) /\ posted[Other(e)][s][n] = t

Accept(e, s, t) == accepted' = [accepted EXCEPT ![e][s] = Append(@, t)]
Post(e, s, t) == posted' = [posted EXCEPT ![e][s] = Append(@, t)]

ClientProves(s) ==
    /\ posted[Client][s] = <<>>
    /\ Post(Client, s, "AUTH")
    /\ UNCHANGED accepted

ServerAnswers(s) ==
    /\ accepted[Server][s] = <<>>
    /\ Awaits(Server, s, "AUTH")
    /\ Accept(Server, s, "AUTH")
    /\ Post(Server, s, "READY")

ClientAccepts(s) ==
    /\ accepted[Client][s] = <<>>
    /\ Awaits(Client, s, "READY")
    /\ Accept(Client, s, "READY")
    /\ UNCHANGED posted

Says(e, s, t) ==
    /\ accepted[e][s] # <<>>
    /\ Post(e, s, t)
    /\ UNCHANGED accepted

Hears(e, s, t) ==
    /\ accepted[e][s] # <<>>
    /\ Awaits(e, s, t)
    /\ Accept(e, s, t)
    /\ UNCHANGED posted

Next ==
    \E s \in Epochs :
        \/ ClientProves(s) \/ ServerAnswers(s) \/ ClientAccepts(s)
        \/ \E e \in Side, t \in Texts : Says(e, s, t) \/ Hears(e, s, t)

Spec == Init /\ [][Next]_linkVars

=============================================================================
