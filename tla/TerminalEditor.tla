--------------------------- MODULE TerminalEditor ---------------------------
(***************************************************************************)
(* The interactive terminal: a line editor fed one byte (Unix) or one key  *)
(* event (Windows) at a time, its history, the line it draws, and the mode *)
(* of the terminal it borrows.                                             *)
(*                                                                         *)
(* A byte is the name of its class: "lead2" starts a character of two      *)
(* bytes, "cont" continues one, "esc", "enter"... are control codes, the   *)
(* others print themselves.  A unit is the sequence of bytes of one        *)
(* buffer entry, a line is a sequence of bytes.  Styles are left out.      *)
(***************************************************************************)
EXTENDS Integers, Sequences, SequencesExt

CONSTANTS
  Platforms,      \* "windows" has key events, "unix" bytes
  Bytes,          \* the bytes the user may send (Unix)
  Keys,           \* the keys the user may press (Windows)
  MaxRepeat,      \* bound on the repeat count of a key event
  MaxInputBytes,  \* 4096 in the code
  MaxHistory,     \* 100 in the code
  Columns,        \* width of the window
  PromptWidths    \* widths of the prompts the script sets

ASSUME TerminalAssumption ==
  /\ Platforms \subseteq {"unix", "windows"}
  /\ MaxInputBytes \in Nat /\ MaxHistory \in Nat \ {0} /\ MaxRepeat \in Nat \ {0}
  /\ Columns \in Nat /\ PromptWidths \subseteq Nat
  /\ Keys \cap {"lead2", "lead3", "lead4", "cont"} = {}   \* a key is not a byte of a character

VARIABLES
  ed,     \* TerminalManager::Impl, with the line it last drew
  tty,    \* modes of the terminal's input and output: "cooked" (as found) or "raw"
  call,   \* "none", "read" or "hidden" inside read_line, "failed" after an exception
  result  \* what the last poll or read returned

vars == <<ed, tty, call, result>>

(***************************************************************************)
(* Bytes and units                                                         *)
(***************************************************************************)
utf8_length(b) == CASE b = "lead2" -> 2 [] b = "lead3" -> 3 [] b = "lead4" -> 4 [] OTHER -> 1

is_utf8_continuation(b) == b = "cont"

Tab == <<"space", "space", "space", "space">>

IsCharacter(u) ==
  /\ u # <<>> /\ Len(u) = utf8_length(u[1])
  /\ \A i \in 2..Len(u) : is_utf8_continuation(u[i])

\* How wide the code takes a unit to be.  Two-byte characters stand for combining
\* marks, three-byte ones for wide characters.  A tab decodes as a four-byte
\* character, in the wide range.
unit_width(u) == CASE Len(u) = 2 -> 0 [] Len(u) \in {3, 4} -> 2 [] OTHER -> 1

\* How far the terminal moves on when the unit is written: it agrees on single
\* characters, and a tab is written as its four spaces.
written_width(u) == IF u = Tab THEN Len(Tab) ELSE unit_width(u)

UnitLength_Byte(text, i) == 1   \* mutant: splits bytes, not characters

\* Length of the unit that starts at byte i: 1 when the character is cut
\* short or broken.
UnitLength(text, i) ==
  LET n == utf8_length(text[i])
  IN IF i + n - 1 <= Len(text) /\ IsCharacter(SubSeq(text, i, i + n - 1)) THEN n ELSE 1

split_utf8(text) ==
  LET from[i \in 1..(Len(text) + 1)] ==
        IF i > Len(text) THEN <<>>
        ELSE <<SubSeq(text, i, i + UnitLength(text, i) - 1)>> \o from[i + UnitLength(text, i)]
  IN from[1]

joined(units) == FlattenSeq(units)

input_bytes(e) == Len(joined(e.buffer))

(***************************************************************************)
(* Drawing the line                                                        *)
(***************************************************************************)
NoLine == [prompt |-> 0, start |-> 0, cells |-> <<>>, column |-> 0, blank |-> TRUE]

\* Of a hidden line every unit is a dot.
CellWidths(e) == [i \in 1..Len(e.buffer) |-> IF e.masked THEN 1 ELSE unit_width(e.buffer[i])]

WrittenWidths(e) ==
  [i \in 1..Len(e.buffer) |-> IF e.masked THEN 1 ELSE written_width(e.buffer[i])]

total(widths, first, last) ==
  LET upto[i \in first..last] == IF i = first THEN 0 ELSE upto[i - 1] + widths[i]
  IN upto[last]

\* The width of the units after the first ones up to the last, as the code counts
\* it and as the terminal shows it.
range_width(e, first, last) == total(CellWidths(e), first, last)

shown_width(e, first, last) == total(WrittenWidths(e), first, last)

Available(e) == IF Columns > e.prompt + 2 THEN Columns - e.prompt - 2 ELSE 8

\* The first start from which the text up to the cursor fits, and the last
\* end to which the text from there fits.
WindowStart(e) ==
  CHOOSE s \in 0..e.cursor :
    /\ s = e.cursor \/ range_width(e, s, e.cursor) <= Available(e)
    /\ \A r \in 0..(s - 1) : range_width(e, r, e.cursor) > Available(e)

WindowEnd(e, s) ==
  Max({n \in s..Len(e.buffer) : range_width(e, s, n) <= Available(e)})

\* The units are written, then the cursor moves back by the counted width of those
\* behind it.
DrawnWithin(e, s, n) ==
  [prompt |-> e.prompt, start |-> s, blank |-> FALSE,
   cells |-> [i \in 1..(n - s) |-> IF e.masked THEN <<"dot">> ELSE e.buffer[s + i]],
   column |-> shown_width(e, s, n)
                - (IF e.cursor < n THEN range_width(e, e.cursor, n) ELSE 0)]

DrawnFrom(e, s) == DrawnWithin(e, s, WindowEnd(e, s))

Drawn(e) == DrawnFrom(e, WindowStart(e))

render(e) == IF e.interactive THEN [e EXCEPT !.screen = Drawn(e)] ELSE e

clear_input_line(e) == IF e.interactive THEN [e EXCEPT !.screen = NoLine] ELSE e

(***************************************************************************)
(* Editing                                                                 *)
(***************************************************************************)
with_units(e, units) == render([e EXCEPT !.buffer = units, !.cursor = Len(units)])

replace_buffer(e, text) == with_units(e, split_utf8(text))

insert(e, unit) ==
  IF unit = <<>> \/ input_bytes(e) + Len(unit) > MaxInputBytes THEN e
  ELSE render([e EXCEPT !.buffer = InsertAt(@, e.cursor + 1, unit), !.cursor = @ + 1])

backspace(e) ==
  IF e.cursor = 0 THEN e
  ELSE render([e EXCEPT !.buffer = RemoveAt(@, e.cursor), !.cursor = @ - 1])

erase_at_cursor_Unseen(e) ==   \* mutant: does not draw the line again
  IF e.cursor >= Len(e.buffer) THEN e ELSE [e EXCEPT !.buffer = RemoveAt(@, e.cursor + 1)]

erase_at_cursor(e) ==
  IF e.cursor >= Len(e.buffer) THEN e
  ELSE render([e EXCEPT !.buffer = RemoveAt(@, e.cursor + 1)])

move_left(e) == IF e.cursor > 0 THEN render([e EXCEPT !.cursor = @ - 1]) ELSE e

move_right(e) == IF e.cursor < Len(e.buffer) THEN render([e EXCEPT !.cursor = @ + 1]) ELSE e

move_home(e) == render([e EXCEPT !.cursor = 0])

move_end(e) == render([e EXCEPT !.cursor = Len(e.buffer)])

kill_line(e) == render([e EXCEPT !.buffer = <<>>, !.cursor = 0])

history_up(e) ==
  LET p == IF e.position > 0 THEN e.position - 1 ELSE 0
  IN IF e.history = <<>> THEN e
     ELSE replace_buffer([e EXCEPT !.position = p], e.history[p + 1])

history_down(e) ==
  LET p == IF e.position < Len(e.history) THEN e.position + 1 ELSE e.position
  IN replace_buffer([e EXCEPT !.position = p],
                    IF p = Len(e.history) THEN <<>> ELSE e.history[p + 1])

\* The line is remembered unless it is empty or repeats the last one; the
\* oldest line goes when there are too many.
Remember(history, line) ==
  IF line = <<>> \/ (history # <<>> /\ Last(history) = line) THEN history
  ELSE IF Len(history) = MaxHistory THEN Append(Tail(history), line)
  ELSE Append(history, line)

finish_line_Kept(e) ==   \* mutant: leaves the text in the buffer
  LET h == Remember(e.history, joined(e.buffer))
  IN [clear_input_line(e) EXCEPT !.history = h, !.position = Len(h)]

finish_line(e) ==
  LET h == Remember(e.history, joined(e.buffer))
  IN [clear_input_line(e) EXCEPT !.history = h, !.position = Len(h), !.buffer = <<>>, !.cursor = 0]

(***************************************************************************)
(* One byte of a Unix terminal                                             *)
(***************************************************************************)
EscapeSequences ==
  {<<"esc", "[", c>> : c \in {"A", "B", "C", "D", "H", "F"}} \cup {<<"esc", "[", "3", "~">>}

escape_prefix_known(s) == \E q \in EscapeSequences : IsPrefix(s, q)

EscapeAction(e, s) ==
  CASE s[3] = "A" -> history_up(e)
    [] s[3] = "B" -> history_down(e)
    [] s[3] = "C" -> move_right(e)
    [] s[3] = "D" -> move_left(e)
    [] s[3] = "H" -> move_home(e)
    [] s[3] = "F" -> move_end(e)
    [] OTHER -> erase_at_cursor(e)

\* The byte is swallowed by the sequence, also when it breaks it.
EscapeByte(e, b) ==
  LET s == Append(e.escape, b)
  IN IF s \in EscapeSequences THEN [EscapeAction(e, s) EXCEPT !.escape = <<>>]
     ELSE [e EXCEPT !.escape = IF escape_prefix_known(s) THEN s ELSE <<>>]

ContinuationByte(e, b) ==
  LET u == Append(e.pending, b)
  IN IF Len(u) = utf8_length(u[1]) THEN [insert(e, u) EXCEPT !.pending = <<>>]
     ELSE [e EXCEPT !.pending = u]

PlainByte(e, b) ==
  CASE b = "backspace" -> backspace(e)
    [] b = "redraw" -> render(e)
    [] b = "kill" -> kill_line(e)
    [] b = "esc" -> [e EXCEPT !.escape = <<"esc">>]
    [] b = "tab" -> insert(e, Tab)
    [] b \in {"eof", "control", "cont"} -> e
    [] utf8_length(b) > 1 -> [e EXCEPT !.pending = <<b>>]
    [] OTHER -> insert(e, <<b>>)

Nothing == [status |-> "none", line |-> <<>>]
Wait    == [status |-> "wait", line |-> <<>>]
Closed  == [status |-> "closed", line |-> <<>>]
Data(line) == [status |-> "data", line |-> line]

\* What the byte does to the editor, and what it makes the poll return.
process_unix_byte(e, b) ==
  LET f == [e EXCEPT !.pending = <<>>]
  IN CASE e.escape # <<>> -> [ed |-> EscapeByte(e, b), result |-> Nothing]
       [] e.escape = <<>> /\ e.pending # <<>> /\ is_utf8_continuation(b) ->
            [ed |-> ContinuationByte(e, b), result |-> Nothing]
       [] OTHER ->
            IF b = "enter" THEN [ed |-> finish_line(f), result |-> Data(joined(f.buffer))]
            ELSE IF b = "eof" /\ f.buffer = <<>> THEN [ed |-> f, result |-> Closed]
            ELSE [ed |-> PlainByte(f, b), result |-> Nothing]

(***************************************************************************)
(* One key event of a Windows console.  A character above U+FFFF comes as  *)
(* two events, "high" and "low".                                           *)
(***************************************************************************)
WideCharacter == <<"lead4", "cont", "cont", "cont">>
LoneSurrogate == <<"lead3", "cont", "cont">>

KeyOnce(e, k) ==
  LET f == [e EXCEPT !.high = FALSE]
  IN CASE k = "backspace" -> backspace(e)
       [] k = "delete" -> erase_at_cursor(e)
       [] k = "left" -> move_left(e)
       [] k = "right" -> move_right(e)
       [] k = "home" -> move_home(e)
       [] k = "end" -> move_end(e)
       [] k = "up" -> history_up(e)
       [] k = "down" -> history_down(e)
       [] k = "redraw" -> render(e)
       [] k = "kill" -> kill_line(e)
       [] k = "tab" -> insert(e, Tab)
       [] k = "control" -> e
       [] k = "high" -> [e EXCEPT !.high = TRUE]
       [] k = "low" -> insert(f, IF e.high THEN WideCharacter ELSE LoneSurrogate)
       [] OTHER -> insert(f, <<k>>)

\* A key that is held down.
KeyTimes(e, k, repeat) ==
  LET times[n \in 0..repeat] == IF n = 0 THEN e ELSE KeyOnce(times[n - 1], k)
  IN times[repeat]

process_windows_key(e, k, repeat) ==
  IF k = "enter" THEN [ed |-> finish_line(e), result |-> Data(joined(e.buffer))]
  ELSE [ed |-> KeyTimes(e, k, repeat), result |-> Nothing]

(***************************************************************************)
(* The terminal.  Putting back a mode that was found does not fail; the    *)
(* code pages of a Windows console are left out.                           *)
(***************************************************************************)
Found == [input |-> "cooked", output |-> "cooked"]

Raw(platform) == [input |-> "raw", output |-> IF platform = "windows" THEN "raw" ELSE "cooked"]

Init ==
  /\ \E platform \in Platforms :
       ed = [platform |-> platform, opened |-> FALSE, interactive |-> FALSE, masked |-> FALSE,
             original |-> Found, prompt |-> 0, buffer |-> <<>>, cursor |-> 0, history |-> <<>>,
             position |-> 0, pending |-> <<>>, escape |-> <<>>, high |-> FALSE, screen |-> NoLine]
  /\ tty = Found /\ call = "none" /\ result = Nothing

\* How the terminal may answer open(); only Windows sets a mode of the output.
Answers ==
  {"no terminal", "input refused", "taken"} \cup
  (IF ed.platform = "windows" THEN {"output refused"} ELSE {})

\* open() remembers the modes it finds.
Opened(e, answer) ==
  IF e.opened THEN e
  ELSE render([e EXCEPT !.opened = TRUE, !.interactive = (answer = "taken"),
                        !.original = IF answer = "no terminal" THEN @ ELSE tty])

\* The modes of modes that the code sets, as they were found.
PutBack(platform, original, modes) ==
  [input |-> original.input,
   output |-> IF platform = "windows" THEN original.output ELSE modes.output]

InputSet == [input |-> "raw", output |-> tty.output]

ModeAfterOpen_Left(e, answer) ==   \* mutant: the input stays raw when the output is refused
  CASE e.opened \/ answer \in {"no terminal", "input refused"} -> tty
    [] ~e.opened /\ answer = "output refused" -> InputSet
    [] OTHER -> IF e.platform = "windows" THEN [InputSet EXCEPT !.output = "raw"] ELSE InputSet

\* The mode of the input is set, then on Windows that of the output; when one of
\* the two is refused there, both are put back.
ModeAfterOpen(e, answer) ==
  LET back(modes) == IF e.platform = "windows" THEN PutBack(e.platform, tty, modes) ELSE modes
  IN CASE e.opened \/ answer = "no terminal" -> tty
       [] ~e.opened /\ answer = "input refused" -> back(tty)
       [] ~e.opened /\ answer = "output refused" -> back(InputSet)
       [] OTHER -> IF e.platform = "windows" THEN [InputSet EXCEPT !.output = "raw"] ELSE InputSet

open ==
  /\ call = "none"
  /\ \E answer \in Answers :
       /\ ed' = Opened(ed, answer)
       /\ tty' = ModeAfterOpen(ed, answer)
  /\ UNCHANGED <<call, result>>

\* close(), also run by the destructor when an exception ends the program.
close ==
  /\ call \in {"none", "failed"}
  /\ ed.opened
  /\ ed' = [clear_input_line(ed) EXCEPT !.opened = FALSE, !.interactive = FALSE]
  /\ tty' = IF ed.interactive THEN PutBack(ed.platform, ed.original, tty) ELSE tty
  /\ UNCHANGED <<call, result>>

set_prompt(width) ==
  /\ call = "none"
  /\ ed' = render([ed EXCEPT !.prompt = width])
  /\ UNCHANGED <<tty, call, result>>

\* clear() and print_line(): what they write goes above the input line.
print_line ==
  /\ call = "none"
  /\ ed' = render(clear_input_line(ed))
  /\ UNCHANGED <<tty, call, result>>

Reading == call \in {"read", "hidden"}

EndCall_ShowsEarly(e, r) ==   \* mutant: the echo is back before the status is looked at
  IF Reading
  THEN /\ ed' = render([e EXCEPT !.masked = FALSE])
       /\ call' = IF r.status = "none" THEN call ELSE "none"
       /\ result' = IF r.status = "none" THEN result ELSE r
  ELSE /\ ed' = e /\ call' = call
       /\ result' = IF r.status = "none" THEN Wait ELSE r

\* How a call ends: read_line puts the echo and the prompt back.
EndCall(e, r) ==
  IF Reading /\ r.status # "none"
  THEN /\ ed' = render([e EXCEPT !.masked = FALSE, !.prompt = 0])
       /\ call' = "none" /\ result' = r
  ELSE /\ ed' = e /\ call' = call
       /\ result' = IF r.status = "none" THEN IF Reading THEN result ELSE Wait ELSE r

\* One turn of the loop of poll_line() in which a byte or a key arrives.
PollByte(b) ==
  /\ ed.platform = "unix" /\ (call = "none" \/ Reading) /\ ed.interactive
  /\ \E r \in {process_unix_byte(ed, b)} : EndCall(r.ed, r.result)
  /\ UNCHANGED tty

PollKey(k, repeat) ==
  /\ ed.platform = "windows" /\ (call = "none" \/ Reading) /\ ed.interactive
  /\ \E r \in {process_windows_key(ed, k, repeat)} : EndCall(r.ed, r.result)
  /\ UNCHANGED tty

\* No byte comes before the timeout of a poll.
PollWait ==
  /\ call = "none" /\ ed.interactive
  /\ result' = Wait
  /\ UNCHANGED <<ed, tty, call>>

\* The read returns no byte: the other side of the terminal is gone.
PollHangup ==
  /\ ed.platform = "unix" /\ (call = "none" \/ Reading) /\ ed.interactive
  /\ EndCall(ed, Closed)
  /\ UNCHANGED tty

\* poll() or read() fails: the exception leaves read_line() as it is.
PollError ==
  /\ (call = "none" \/ Reading) /\ ed.interactive
  /\ call' = "failed"
  /\ UNCHANGED <<ed, tty, result>>

\* poll_line() of a terminal that is not open yet opens it first; one that is
\* not interactive asks the I/O manager for a line.
PollOpens ==
  /\ call = "none" /\ ~ed.opened
  /\ \E answer \in Answers :
       /\ ed' = Opened(ed, answer)
       /\ tty' = ModeAfterOpen(ed, answer)
       /\ result' \in IF answer = "taken" THEN {Wait} ELSE {Wait, Closed, Data(<<"a">>)}
  /\ UNCHANGED call

PollRedirected ==
  /\ call = "none" /\ ed.opened /\ ~ed.interactive
  /\ result' \in {Wait, Closed, Data(<<"a">>)}
  /\ UNCHANGED <<ed, tty, call>>

\* read_line(): the loop that follows is PollByte until a line is there.
read_line(width, mask) ==
  /\ call = "none"
  /\ \E answer \in Answers : \E e \in {Opened(ed, answer)} :
       /\ tty' = ModeAfterOpen(ed, answer)
       /\ \/ /\ e.interactive
             /\ ed' = render([e EXCEPT !.prompt = width, !.masked = mask])
             /\ call' = (IF mask THEN "hidden" ELSE "read") /\ result' = result
          \/ /\ ~e.interactive
             /\ ed' = e /\ call' = call
             /\ result' \in {Closed, Data(<<"a">>)}

Next ==
  \/ open \/ close \/ print_line
  \/ \E w \in PromptWidths : set_prompt(w)
  \/ \E w \in PromptWidths, m \in BOOLEAN : read_line(w, m)
  \/ \E b \in Bytes : PollByte(b)
  \/ \E k \in Keys, n \in 1..MaxRepeat : PollKey(k, n)
  \/ PollWait \/ PollHangup \/ PollError \/ PollOpens \/ PollRedirected

Spec == Init /\ [][Next]_vars

\* For TLC: nothing reads the line of the last result.
View == <<ed, tty, call, result.status>>

(***************************************************************************)
(* Properties                                                              *)
(***************************************************************************)
\* Every entry of the buffer is one whole character or a tab: no piece of an
\* escape sequence or of a broken or interrupted character gets into it, and
\* what the history gives back is split where it was joined.  Nor does the line
\* ever hold more than MaxInputBytes bytes, although a line that is recalled is
\* put there without the check that insert makes.
WholeCharacters ==
  /\ \A i \in 1..Len(ed.buffer) : IsCharacter(ed.buffer[i]) \/ ed.buffer[i] = Tab
  /\ input_bytes(ed) <= MaxInputBytes

\* What the user sees is the line being edited: unless the line is wiped, the
\* screen shows the buffer from its window, with the current prompt, and the
\* cursor of the screen stands where the next character will be inserted, and
\* what is shown fits the window.  The code counts a tab as two columns but writes
\* four: the cursor is right only if no tab shows behind it, and the text fits only
\* if no tab shows at all.
ScreenIsCurrent ==
  ed.interactive /\ ~ed.screen.blank =>
    LET start == ed.screen.start
        cells == ed.screen.cells
        NoTabFrom(k) == \A i \in k..Len(cells) : cells[i] # Tab
    IN /\ ed.screen = Drawn(ed)
       /\ ed.cursor \in start..(start + Len(cells))
       /\ NoTabFrom(ed.cursor - start + 1) =>
            ed.screen.column = shown_width(ed, start, ed.cursor)
       /\ NoTabFrom(1) => shown_width(ed, start, start + Len(cells)) <= Available(ed)

\* A terminal that is not interactive has the modes it was found in, both of them,
\* after any number of opens, opens refused half-way, reads that failed and closes;
\* an interactive one is raw, and is open.
ModeRestored ==
  IF ed.interactive THEN ed.opened /\ tty = Raw(ed.platform) ELSE tty = Found

\* A read_line() that asked for it hides its input until it ends: the echo is off
\* all through the call and in no other one, and nothing but dots is on the screen.
HiddenInput ==
  /\ call = "hidden" => ed.masked
  /\ ed.masked => /\ call \in {"hidden", "failed"}
                  /\ \A i \in 1..Len(ed.screen.cells) : ed.screen.cells[i] = <<"dot">>

LineEditing == INSTANCE LineEditor
  WITH Units <- {<<b>> : b \in Bytes \cup Keys} \cup
                {Tab, <<"lead2", "cont">>, WideCharacter, LoneSurrogate},
       text <- ed.buffer, cursor <- ed.cursor, lines <- ed.history

\* The editor implements LineEditor, whatever bytes its keys are made of and
\* wherever polls and other calls cut their sequences.
ImplementsLineEditor == LineEditing!Spec
=============================================================================
