------------------------------ MODULE IOManager ------------------------------
(***************************************************************************)
(* io_manager.cpp and io_builtins.cpp: where print writes to and input     *)
(* reads from.  Both can be switched to files and back while text is still *)
(* on its way: every stream has a buffer of its own, and so has the        *)
(* program's standard input, which is a pipe that somebody writes to.      *)
(*                                                                         *)
(* A write that fails writes nothing.  A call that fails throws, and an    *)
(* exception ends the program: only the destructors still run.  Arguments  *)
(* of a wrong type, unknown modes and directories opened for reading are   *)
(* left out.                                                               *)
(***************************************************************************)
EXTENDS Integers, Sequences, SequencesExt, FiniteSetsExt

CONSTANTS
  Paths,       \* files
  Standard,    \* StandardPath, and the console
  Missing,     \* content of a path where there is no file
  None,        \* no stream
  Letter,      \* any character but a newline
  NL,          \* a newline
  BufferSize,  \* of an output stream
  MaxSize,     \* bound on the size of a file and of the console's text
  MaxSent      \* bound on what arrives at the standard input

ASSUME IOAssumption ==
  /\ Standard \notin Paths /\ None \notin Paths \cup {Standard}
  /\ Letter # NL /\ {BufferSize, MaxSize, MaxSent} \subseteq Nat

VARIABLES
  disk,             \* the text of each file, and what the console has shown
  standard_output,  \* the stream of the standard output
  output_file,      \* the stream output was switched to, or None
  bad,              \* redirected_output_ has failed
  input_file,       \* the stream input was switched to, or None
  standard_input,   \* what is in its buffer, and whether it has seen the end
  pipe,             \* what has been sent to the standard input and not read
  ended,            \* the writer of the pipe has closed it
  call,             \* None, "reading" inside read_line, "failed" after an
                    \* exception, "destroyed" after the destructor
  result,           \* what the last call returned
  expected,         \* history: the text each path ought to have, all flushed
  leftover,         \* history: iostream emptied the present output while it
                    \* still had text to write
  sent, taken       \* history: all that was sent, all that was returned

outputs == <<disk, standard_output, output_file, bad>>
inputs == <<input_file, standard_input, call>>
outside == <<pipe, ended, sent>>
vars == <<outputs, inputs, outside, result, expected, leftover, taken>>

Chars == {Letter, NL}
Text == Seq(Chars)
Modes == {"rewrite", "append", "create"}

OutputStream ==
  [path : Paths \cup {Standard}, append : BOOLEAN, position : Nat, buffer : Text, good : BOOLEAN]
FileInput == [path : Paths, position : Nat, buffer : Text, eof : BOOLEAN]

\* No file has the content of a file that is not there, and None is no stream
\* and no call.
ASSUME NoneAssumption ==
  /\ Missing \notin Text
  /\ None \notin OutputStream \cup FileInput \cup {"reading", "failed", "destroyed"}

(***************************************************************************)
(* Output streams                                                          *)
(***************************************************************************)
Stream(path, append) == [path |-> path, append |-> append, position |-> 0, buffer |-> <<>>, good |-> TRUE]

\* redirected_output_ writes to the buffer of target_.
target == IF output_file = None THEN standard_output ELSE output_file

\* The text of a file after a write that starts `at` characters into it.
Written(text, at, new) ==
  [i \in 1..Max({Len(text), at + Len(new)}) |->
     IF i \in (at + 1)..(at + Len(new)) THEN new[i - at]
     ELSE IF i <= Len(text) THEN text[i] ELSE NL]

\* The buffer of a stream is written out, or the write fails.
FlushStream(stream, files, ok) ==
  LET at == IF stream.append THEN Len(files[stream.path]) ELSE stream.position
  IN IF stream.buffer = <<>> \/ ~ok
     THEN [files |-> files, stream |-> [stream EXCEPT !.good = @ /\ stream.buffer = <<>>]]
     ELSE [files |-> [files EXCEPT ![stream.path] = Written(@, at, stream.buffer)],
           stream |-> [stream EXCEPT !.position = at + Len(stream.buffer), !.buffer = <<>>]]

\* flush() of a stream that has failed does nothing.
Flushed(stream, files, ok) ==
  IF stream.good THEN FlushStream(stream, files, ok) ELSE [files |-> files, stream |-> stream]

SetTarget(stream) ==
  IF output_file = None THEN standard_output' = stream /\ UNCHANGED output_file
  ELSE output_file' = stream /\ UNCHANGED standard_output

(***************************************************************************)
(* print and flush                                                         *)
(***************************************************************************)
Reports(value) == result' = value
Throws(fails) == call' = IF fails THEN "failed" ELSE None

Fits(stream, text) == Len(stream.buffer) + Len(text) <= BufferSize

\* operator<< to redirected_output_: what was printed after a failure is lost.
PrintChar(char, ok) ==
  LET stream == [target EXCEPT !.buffer = Append(@, char)]
      out == FlushStream(stream, disk, ok)
  IN /\ call = None /\ Len(expected[target.path]) < MaxSize
     /\ expected' = [expected EXCEPT ![target.path] = Append(@, char)]
     /\ CASE bad -> UNCHANGED outputs
          [] ~bad /\ ~target.good -> bad' = TRUE /\ UNCHANGED <<disk, standard_output, output_file>>
          [] ~bad /\ target.good /\ Fits(target, <<char>>) -> SetTarget(stream) /\ UNCHANGED <<disk, bad>>
          [] OTHER -> /\ SetTarget(IF ok THEN out.stream ELSE [target EXCEPT !.good = FALSE])
                      /\ disk' = out.files /\ bad' = ~ok
     /\ Reports("other")
     /\ UNCHANGED <<inputs, outside, leftover, taken>>

flush(ok) ==
  LET out == Flushed(target, disk, ok)
  IN /\ call = None
     /\ IF bad THEN UNCHANGED outputs
        ELSE disk' = out.files /\ SetTarget(out.stream) /\ bad' = ~out.stream.good
     /\ Reports(IF bad' THEN "other" ELSE "flushed") /\ Throws(bad')
     /\ UNCHANGED <<input_file, standard_input, outside, expected, leftover, taken>>

(***************************************************************************)
(* Switching                                                               *)
(***************************************************************************)
\* open_output_file: opens is whether the system lets the file be opened.
CanOpenOutput(path, mode, files, opens) == opens /\ ~(mode = "create" /\ files[path] # Missing)

OpenedOutput(path, mode, files) ==
  [files EXCEPT ![path] = IF mode = "append" /\ @ # Missing THEN @ ELSE <<>>]

\* What is done to the old output: flush() of the redirected stream, then, if
\* it is a file, its destructor writes what is left.  Nobody asks whether that
\* succeeded.
Detached(files, ok) ==
  LET flushed == IF bad THEN [files |-> files, stream |-> target] ELSE Flushed(target, files, ok)
      closed == FlushStream(flushed.stream, flushed.files, ok)
  IN IF output_file = None THEN [files |-> flushed.files, standard |-> flushed.stream]
     ELSE [files |-> closed.files, standard |-> standard_output]

Expecting(path, mode, files) ==
  [p \in DOMAIN files |-> IF p = Standard THEN expected[p]
                          ELSE IF p = path /\ mode # "append" THEN <<>> ELSE files[p]]

\* The new stream, if any, becomes the target of print.
Attach(path, mode, files, standard) ==
  /\ disk' = files /\ standard_output' = standard /\ bad' = FALSE
  /\ output_file' = IF path = Standard THEN None ELSE Stream(path, mode = "append")
  /\ expected' = Expecting(path, mode, files)

\* mutant: the new file is opened before the old one is let go.
set_output_OpensFirst(path, mode, opens, ok) ==
  LET opened == IF path = Standard THEN disk ELSE OpenedOutput(path, mode, disk)
      old == Detached(opened, ok)
      fails == path # Standard /\ ~CanOpenOutput(path, mode, disk, opens)
  IN /\ call = None /\ ~fails
     /\ Attach(path, mode, old.files, old.standard) /\ Reports("other") /\ leftover' = FALSE
     /\ UNCHANGED <<inputs, outside, taken>>

\* The old output was let go, and no write to it has failed.
Switched(ok) == IF ok /\ ~bad /\ target.good THEN "switched" ELSE "other"

\* The old file is let go first, so a failure leaves the standard output.
set_output(path, mode, opens, ok) ==
  LET old == Detached(disk, ok)
      fails == path # Standard /\ ~CanOpenOutput(path, mode, old.files, opens)
      opened == IF path = Standard THEN old.files ELSE OpenedOutput(path, mode, old.files)
  IN /\ call = None
     /\ IF fails THEN Attach(Standard, mode, old.files, old.standard)
        ELSE Attach(path, mode, opened, old.standard)
     /\ Reports(Switched(ok)) /\ Throws(fails) /\ leftover' = FALSE
     /\ UNCHANGED <<input_file, standard_input, outside, taken>>

InputStream(path) == [path |-> path, position |-> 0, buffer |-> <<>>, eof |-> FALSE]

CanOpenInput(path, opens) == path = Standard \/ (opens /\ disk[path] # Missing)

\* mutant: back to the standard input as if it had just been opened.
AttachInput_Anew(path) ==
  /\ input_file' = IF path = Standard THEN None ELSE InputStream(path)
  /\ standard_input' = IF path = Standard THEN [buffer |-> <<>>, eof |-> FALSE] ELSE standard_input

\* clear() forgets that the standard input was at its end, not its buffer.
AttachInput(path) ==
  /\ input_file' = IF path = Standard THEN None ELSE InputStream(path)
  /\ standard_input' = IF path = Standard THEN [standard_input EXCEPT !.eof = FALSE] ELSE standard_input

set_input(path, opens) ==
  /\ call = None
  /\ IF CanOpenInput(path, opens) THEN AttachInput(path) ELSE UNCHANGED <<input_file, standard_input>>
  /\ Reports("other") /\ Throws(~CanOpenInput(path, opens))
  /\ UNCHANGED <<outputs, outside, expected, leftover, taken>>

\* One file is opened after the other: `so_far` is the files and whether every
\* open has succeeded.  An output is emptied by being opened.
OpenInput(input, opens, so_far) == [so_far EXCEPT !.opened = @ /\ CanOpenInput(input, opens)]

OpenOutput(path, mode, opens, so_far) ==
  IF path = Standard \/ ~so_far.opened THEN so_far
  ELSE IF CanOpenOutput(path, mode, so_far.files, opens)
  THEN [so_far EXCEPT !.files = OpenedOutput(path, mode, @)]
  ELSE [so_far EXCEPT !.opened = FALSE]

\* What follows the two opens of iostream.
Replace(now, input, path, mode, ok) ==
  LET old == Detached(now.files, ok)
  IN /\ call = None
     /\ IF now.opened
        THEN /\ Attach(path, mode, old.files, old.standard) /\ AttachInput(input)
             /\ leftover' = (path # Standard /\ mode = "rewrite" /\ path = target.path /\ target.buffer # <<>>)
             /\ Reports(Switched(ok))
        ELSE /\ disk' = now.files /\ Reports("refused")
             /\ UNCHANGED <<standard_output, output_file, bad, input_file, standard_input, expected, leftover>>
     /\ Throws(~now.opened)
     /\ UNCHANGED <<outside, taken>>

\* mutant: the output is opened first.
set_streams_OutputFirst(input, path, mode, reads, opens, ok) ==
  Replace(OpenInput(input, reads, OpenOutput(path, mode, opens, [files |-> disk, opened |-> TRUE])),
          input, path, mode, ok)

\* The input is opened first, then the output, which is emptied before the old
\* one writes what it still has.
set_streams(input, path, mode, reads, opens, ok) ==
  Replace(OpenOutput(path, mode, opens, OpenInput(input, reads, [files |-> disk, opened |-> TRUE])),
          input, path, mode, ok)

\* ~IOManager(), at the end of the program or after an exception.
destroy(ok) ==
  LET old == Detached(disk, ok)
  IN /\ call \in {None, "failed"}
     /\ disk' = old.files /\ standard_output' = old.standard
     /\ call' = "destroyed" /\ Reports(IF ok /\ ~bad /\ target.good THEN "flushed" ELSE "other")
     /\ UNCHANGED <<output_file, bad, input_file, standard_input, outside, expected, leftover, taken>>

(***************************************************************************)
(* input and inputPoll                                                     *)
(***************************************************************************)
HasLine(text) == NL \in ToSet(text)
EndOfLine(text) == Min({i \in DOMAIN text : text[i] = NL})

\* std::getline from a file, which is at hand whole.
ReadFile ==
  LET f == input_file
      rest == SubSeq(disk[f.path], f.position + 1, Len(disk[f.path]))
      text == IF HasLine(f.buffer) THEN f.buffer ELSE f.buffer \o rest
      n == EndOfLine(text)
      read == f.position + Len(text) - Len(f.buffer)
  IN /\ IF f.eof \/ (text = <<>>)
        THEN input_file' = [f EXCEPT !.eof = TRUE] /\ Reports("other")
        ELSE IF HasLine(text)
        THEN /\ input_file' = [f EXCEPT !.buffer = SubSeq(text, n + 1, Len(text)), !.position = read]
             /\ Reports("other")
        ELSE /\ input_file' = [f EXCEPT !.buffer = <<>>, !.position = read, !.eof = TRUE]
             /\ Reports("other")
     /\ UNCHANGED <<standard_input, call, outside, taken>>

\* std::getline from the standard input starts; it may have to wait.
read_line ==
  /\ call = None
  /\ IF input_file # None THEN ReadFile
     ELSE call' = "reading" /\ Reports("other") /\ UNCHANGED <<input_file, standard_input, outside, taken>>
  /\ UNCHANGED <<outputs, expected, leftover>>

\* poll() sees the pipe, and not what is in the buffer.
standard_line_ready == pipe # <<>> \/ ended

poll_line ==
  /\ call = None /\ (input_file = None => standard_line_ready)
  /\ read_line

\* The timeout passes.
PollTimesOut ==
  /\ call = None /\ input_file = None /\ ~standard_line_ready
  /\ Reports("wait")
  /\ UNCHANGED <<outputs, inputs, outside, expected, leftover, taken>>

GetLine(text, rest) ==
  /\ taken' = taken \o text
  /\ standard_input' = [buffer |-> rest, eof |-> standard_input.eof]
  /\ call' = None /\ Reports("other")
  /\ UNCHANGED pipe

ReturnLine ==
  LET b == standard_input.buffer
      n == EndOfLine(b)
  IN /\ call = "reading" /\ ~standard_input.eof /\ HasLine(b)
     /\ GetLine(SubSeq(b, 1, n), SubSeq(b, n + 1, Len(b)))
     /\ UNCHANGED <<outputs, input_file, ended, sent, expected, leftover>>

Underflow ==
  /\ call = "reading" /\ ~standard_input.eof /\ ~HasLine(standard_input.buffer) /\ pipe # <<>>
  /\ standard_input' = [standard_input EXCEPT !.buffer = @ \o pipe] /\ pipe' = <<>>
  /\ UNCHANGED <<outputs, input_file, call, ended, sent, result, expected, leftover, taken>>

\* The last line may have no newline.
ReturnLast ==
  LET b == standard_input.buffer
  IN /\ call = "reading" /\ (standard_input.eof \/ (ended /\ pipe = <<>> /\ ~HasLine(b)))
     /\ IF standard_input.eof THEN UNCHANGED <<standard_input, taken>> /\ Reports("other")
        ELSE /\ standard_input' = [buffer |-> <<>>, eof |-> TRUE]
             /\ taken' = taken \o b /\ Reports("other")
     /\ call' = None
     /\ UNCHANGED <<outputs, input_file, outside, expected, leftover>>

(***************************************************************************)
(* The writer of the pipe                                                  *)
(***************************************************************************)
Sends(char) ==
  /\ ~ended /\ Len(sent) < MaxSent
  /\ pipe' = Append(pipe, char) /\ sent' = Append(sent, char)
  /\ UNCHANGED <<outputs, inputs, ended, result, expected, leftover, taken>>

Ends ==
  /\ ~ended /\ ended' = TRUE
  /\ UNCHANGED <<outputs, inputs, pipe, sent, result, expected, leftover, taken>>

Init ==
  /\ disk \in [Paths \cup {Standard} -> {Missing, <<>>, <<NL>>}] /\ disk[Standard] = <<>>
  /\ standard_output = Stream(Standard, FALSE) /\ output_file = None /\ bad = FALSE
  /\ input_file = None /\ standard_input = [buffer |-> <<>>, eof |-> FALSE]
  /\ pipe = <<>> /\ ended = FALSE /\ sent = <<>> /\ taken = <<>>
  /\ call = None /\ result = "other"
  /\ expected = disk /\ leftover = FALSE

Switch ==
  \E path \in Paths \cup {Standard}, opens \in BOOLEAN :
    \/ set_input(path, opens)
    \/ \E mode \in Modes, ok \in BOOLEAN :
         \/ set_output(path, mode, opens, ok)
         \/ \E input \in Paths \cup {Standard}, reads \in BOOLEAN :
              set_streams(input, path, mode, reads, opens, ok)

Read == read_line \/ poll_line \/ PollTimesOut \/ ReturnLine \/ Underflow \/ ReturnLast

Write == \E ok \in BOOLEAN : flush(ok) \/ PrintChar(Letter, ok) \/ destroy(ok)

Next == Switch \/ Read \/ Write \/ Ends \/ \E char \in Chars : Sends(char)

Spec == Init /\ [][Next]_vars

(***************************************************************************)
(* Properties                                                              *)
(***************************************************************************)
\* After a flush that succeeded, and after an end of the program, by an error
\* too, at which no write failed, the file is just what it should be: for
\* "rewrite" and "create" all that was printed since, for "append" what it was
\* with that at its end, whatever was switched and failed before.  Left out is
\* the output that iostream opened again, for "rewrite", with text still to be
\* written: that text lands in the emptied file.
FlushedIsWritten ==
  (result = "flushed" /\ ~leftover) => disk[target.path] = expected[target.path]

\* "If the opening of one of the new files failed, the old streams are not replaced
\* with a partly prepared configuration": an iostream that is refused, at its first
\* file or its second, changes no stream and empties no file.  And a switch to
\* another path, by iostream or by ostream, which lets the old output go even when
\* the new file does not open, leaves all that was printed before in the old file,
\* if no write to it has failed.
SwitchesLoseNothing ==
  [][/\ result' = "refused" => UNCHANGED <<outputs, input_file, standard_input>>
     /\ result' = "switched" /\ target'.path # target.path /\ ~leftover
          => disk'[target.path] = expected[target.path]]_vars

\* However input is switched to files and back, and past the end, what is sent
\* to the standard input is returned once and in order.
StandardLinesInOrder == sent = taken \o standard_input.buffer \o pipe
=============================================================================
