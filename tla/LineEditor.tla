----------------------------- MODULE LineEditor -----------------------------
(***************************************************************************)
(* What a line editor promises to the one who types: a key changes the     *)
(* text next to the cursor by one character, moves the cursor, recalls a   *)
(* line that was entered before, empties the line or enters it.            *)
(***************************************************************************)
EXTENDS Integers, Sequences, SequencesExt

CONSTANTS
  Units,     \* the characters that can be typed
  MaxRepeat  \* bound on how often one key event repeats its key

VARIABLES
  text,    \* the characters of the line
  cursor,  \* how many of them are before the cursor
  lines    \* the lines entered before, joined

vars == <<text, cursor, lines>>

Init == text = <<>> /\ cursor = 0 /\ lines = <<>>

\* A key that is held down comes n times at once, and need not type the same
\* each time: the second half of a pair completes it once.
Type(n) ==
  /\ cursor' = cursor + n /\ Len(text') = Len(text) + n
  /\ text' = SubSeq(text, 1, cursor) \o SubSeq(text', cursor + 1, cursor')
               \o SubSeq(text, cursor + 1, Len(text))
  /\ \A i \in (cursor + 1)..cursor' : text'[i] \in Units
  /\ UNCHANGED lines

EraseBefore(n) ==
  /\ cursor >= n
  /\ text' = SubSeq(text, 1, cursor - n) \o SubSeq(text, cursor + 1, Len(text))
  /\ cursor' = cursor - n
  /\ UNCHANGED lines

EraseAfter(n) ==
  /\ cursor + n <= Len(text)
  /\ text' = SubSeq(text, 1, cursor) \o SubSeq(text, cursor + n + 1, Len(text))
  /\ UNCHANGED <<cursor, lines>>

Move(n) ==
  /\ cursor' \in {cursor - n, cursor + n, 0, Len(text)}
  /\ UNCHANGED <<text, lines>>

Recall ==
  /\ \E i \in 1..Len(lines) : FlattenSeq(text') = lines[i]
  /\ cursor' = Len(text')
  /\ UNCHANGED lines

Empty == text' = <<>> /\ cursor' = 0 /\ UNCHANGED lines

\* The line is remembered unless it is empty or the same as the last one; the
\* oldest ones may be forgotten for it.
Enter ==
  LET line == FlattenSeq(text)
      known == line = <<>> \/ (lines # <<>> /\ Last(lines) = line)
  IN /\ text' = <<>> /\ cursor' = 0
     /\ IF known THEN UNCHANGED lines
        ELSE \E i \in 1..Len(lines) + 1 : lines' = Append(SubSeq(lines, i, Len(lines)), line)

Next ==
  \/ \E n \in 1..MaxRepeat : Type(n) \/ EraseBefore(n) \/ EraseAfter(n) \/ Move(n)
  \/ Recall \/ Empty \/ Enter

Spec == Init /\ [][Next]_vars
=============================================================================
