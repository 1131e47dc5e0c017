--------------------------- MODULE IOManager_proofs ---------------------------
(***************************************************************************)
(* A flush that succeeds leaves the file as it ought to be, what is sent   *)
(* to the standard input is returned in order, a switch that is refused    *)
(* changes nothing and one that is done loses nothing, for every value of  *)
(* IOManager's constants.                                                  *)
(***************************************************************************)
EXTENDS IOManager, TLAPS, SequenceTheorems, WellFoundedInduction

-----------------------------------------------------------------------------
(* The invariant *)

Files == [Paths \cup {Standard} -> Text \cup {Missing}]

\* The file that output goes to is there.
OutputTypes ==
    /\ disk \in Files /\ disk[Standard] \in Text
    /\ standard_output \in OutputStream /\ standard_output.path = Standard
    /\ output_file \in OutputStream \cup {None} /\ bad \in BOOLEAN
    /\ expected \in Files /\ expected[Standard] \in Text /\ leftover \in BOOLEAN
    /\ output_file # None => /\ output_file.path \in Paths
                             /\ disk[output_file.path] \in Text
                             /\ expected[output_file.path] \in Text

\* So is the file that input comes from.
InputTypes ==
    /\ input_file \in FileInput \cup {None}
    /\ standard_input \in [buffer : Text, eof : BOOLEAN]
    /\ pipe \in Text /\ ended \in BOOLEAN /\ sent \in Text /\ taken \in Text
    /\ call \in {None, "reading", "failed", "destroyed"}
    /\ result \in {"other", "flushed", "switched", "wait", "refused"}
    /\ input_file # None => disk[input_file.path] \in Text

\* What a path ought to have is what it has and what the stream still holds, and
\* the stream goes on where the text ends.
InPlace(stream, files) == stream.append \/ stream.position = Len(files[stream.path])

InOrderIn(stream, files) ==
    stream.good => /\ expected[stream.path] = files[stream.path] \o stream.buffer
                   /\ InPlace(stream, files)

InOrder(stream) == InOrderIn(stream, disk)

StreamsInOrder ==
    call # "destroyed" => /\ InOrder(standard_output)
                          /\ output_file # None /\ ~leftover => InOrder(output_file)
                          /\ bad => ~target.good

\* A read waits only after a call that was not refused.
ReadsReport == call = "reading" => result = "other"

Inductive ==
    /\ OutputTypes /\ InputTypes /\ StreamsInOrder /\ ReadsReport
    /\ FlushedIsWritten /\ StandardLinesInOrder

-----------------------------------------------------------------------------
(* Texts *)

\* A set of natural numbers that is not empty has a least one.
LEMMA LeastExists ==
    ASSUME NEW S \in SUBSET Nat, S # {}
    PROVE  Min(S) \in S /\ \A y \in S : Min(S) <= y
<1>1. \A R, T : IsWellFoundedOn(R, Nat) /\ T \subseteq Nat /\ T # {}
                  => \E x \in T : \A y \in T : <<y, x>> \notin R
  BY WFMin
<1>2. PICK R : R = OpToRel(<, Nat)
  OBVIOUS
<1>3. IsWellFoundedOn(R, Nat)
  BY <1>2, NatLessThanWellFounded
<1>4. R = {ss \in Nat \X Nat : ss[1] < ss[2]}
  BY <1>2 DEF OpToRel
<1>5. PICK x \in S : \A y \in S : <<y, x>> \notin R
  BY <1>1, <1>3
<1>6. ASSUME NEW y \in S
      PROVE  x <= y
  <2>1. PICK p : p = <<y, x>>
    OBVIOUS
  <2>2. p \in Nat \X Nat /\ p[1] = y /\ p[2] = x
    BY <2>1
  <2>3. ~(p[1] < p[2])
    BY <1>4, <1>5, <2>1, <2>2
  <2> QED
    BY <2>2, <2>3
<1> QED
  BY <1>6 DEF Min

\* The last number of a set of two.
LEMMA LargerOf ==
    ASSUME NEW m \in Nat, NEW n \in Nat
    PROVE  /\ Max({m, n}) = IF m <= n THEN n ELSE m
           /\ Max({m, n}) \in Nat
<1>1. PICK k : k = IF m <= n THEN n ELSE m
  OBVIOUS
<1>2. k \in {m, n} /\ \A y \in {m, n} : k >= y
  BY <1>1
<1>3. \A x \in {m, n} : (\A y \in {m, n} : x >= y) => x = k
  BY <1>1
<1>4. Max({m, n}) = k
  BY <1>2, <1>3 DEF Max
<1> QED
  BY <1>1, <1>4

\* Putting texts together.
LEMMA TextFacts ==
    /\ <<>> \in Text
    /\ \A a \in Text : Len(a) \in Nat /\ a \o <<>> = a /\ <<>> \o a = a
    /\ \A a, b \in Text : a \o b \in Text /\ Len(a \o b) = Len(a) + Len(b)
    /\ \A a, b, c \in Text : (a \o b) \o c = a \o (b \o c)
<1>1. <<>> \in Text
  BY DEF Text
<1>2. \A a \in Text : Len(a) \in Nat /\ a \o <<>> = a /\ <<>> \o a = a
  BY ConcatEmptySeq, LenProperties DEF Text
<1>3. \A a, b \in Text : a \o b \in Text /\ Len(a \o b) = Len(a) + Len(b)
  BY ConcatProperties DEF Text
<1>4. \A a, b, c \in Text : (a \o b) \o c = a \o (b \o c)
  BY ConcatAssociative DEF Text
<1> QED
  BY <1>1, <1>2, <1>3, <1>4

\* A character at the end of the second text is at the end of both.
LEMMA AppendText ==
    ASSUME NEW a \in Text, NEW b \in Text, NEW x \in Chars
    PROVE  /\ Append(a, x) \in Text /\ Append(a, x) # <<>>
           /\ a \o Append(b, x) = Append(a \o b, x)
<1>0. <<x>> \in Seq(Chars)
  OBVIOUS
<1>1. PICK t \in Text : t = <<x>>
  BY <1>0 DEF Text
<1>2. \A c \in Text : Append(c, x) = c \o t
  BY <1>1, AppendIsConcat DEF Text
<1>3. a \o (b \o t) = (a \o b) \o t /\ a \o b \in Text
  BY TextFacts
<1>4. Append(a, x) \in Text /\ Append(a, x) # <<>>
  BY AppendProperties DEF Text
<1> QED
  BY <1>2, <1>3, <1>4

\* What a write makes of a text is a text.
LEMMA WrittenType ==
    ASSUME NEW text \in Text, NEW at \in Nat, NEW new \in Text
    PROVE  Written(text, at, new) \in Text
<1>1. Len(text) \in Nat /\ Len(new) \in Nat /\ at + Len(new) \in Nat
  BY TextFacts
<1>2. PICK n \in Nat : n = Max({Len(text), at + Len(new)})
  BY <1>1, LargerOf
<1>3. PICK w : w = Written(text, at, new)
  OBVIOUS
<1>4. w = [i \in 1..n |-> IF i \in (at + 1)..(at + Len(new)) THEN new[i - at]
                          ELSE IF i <= Len(text) THEN text[i] ELSE NL]
  BY <1>2, <1>3 DEF Written
<1>5. \A i \in 1..n : w[i] \in Chars
  <2>1. \A j \in 1..Len(new) : new[j] \in Chars
    BY DEF Text
  <2>2. \A j \in 1..Len(text) : text[j] \in Chars
    BY DEF Text
  <2>3. NL \in Chars
    BY DEF Chars
  <2>4. \A i \in (at + 1)..(at + Len(new)) : i - at \in 1..Len(new)
    BY <1>1
  <2> QED
    BY <1>1, <1>4, <2>1, <2>2, <2>3, <2>4
<1>6. w \in [1..n -> Chars]
  BY <1>4, <1>5
<1>7. w \in Seq(Chars)
  BY <1>2, <1>6, SeqDef
<1> QED
  BY <1>3, <1>7 DEF Text

\* A write at the end of a text adds to it.
LEMMA WrittenAtEnd ==
    ASSUME NEW text \in Text, NEW new \in Text
    PROVE  Written(text, Len(text), new) = text \o new
<1>1. Len(text) \in Nat /\ Len(new) \in Nat
  BY TextFacts
<1>2. Max({Len(text), Len(text) + Len(new)}) = Len(text) + Len(new)
  BY <1>1, LargerOf
<1>3. PICK w : w = Written(text, Len(text), new)
  OBVIOUS
<1>4. w = [i \in 1..(Len(text) + Len(new)) |->
             IF i \in (Len(text) + 1)..(Len(text) + Len(new)) THEN new[i - Len(text)]
             ELSE IF i <= Len(text) THEN text[i] ELSE NL]
  BY <1>2, <1>3 DEF Written
<1>5. w \in Text
  BY <1>1, <1>3, WrittenType
<1>6. PICK c \in Text : c = text \o new
  BY TextFacts
<1>7. /\ Len(c) = Len(text) + Len(new)
      /\ \A i \in 1..(Len(text) + Len(new)) :
           c[i] = IF i <= Len(text) THEN text[i] ELSE new[i - Len(text)]
  BY <1>6, ConcatProperties DEF Text
<1>8. Len(w) = Len(text) + Len(new)
  BY <1>1, <1>4, <1>5 DEF Text
<1>9. \A i \in 1..Len(w) : w[i] = c[i]
  BY <1>1, <1>4, <1>7, <1>8
<1>10. w = c
  BY <1>5, <1>6, <1>7, <1>8, <1>9, SeqEqual DEF Text
<1> QED
  BY <1>3, <1>6, <1>10

-----------------------------------------------------------------------------
(* Flushing *)

\* Where output can go.
Places == Paths \cup {Standard}

\* The texts of `files` are still texts, and only `path` may have changed.
Keeps(files, new, path) ==
    /\ new \in Files
    /\ \A q \in Places : files[q] \in Text => new[q] \in Text
    /\ \A q \in Places : q # path => new[q] = files[q]

\* What a flush of `stream` makes of it and of the files.
FlushesTo(stream, files, ok, out) ==
    /\ Keeps(files, out.files, stream.path)
    /\ out.stream \in OutputStream /\ out.stream.path = stream.path
    /\ out.stream.good => stream.good /\ out.stream.buffer = <<>>
    /\ ok /\ stream.good => out.stream.good
    /\ stream.buffer = <<>> => out.files = files /\ out.stream.buffer = <<>>
    /\ out.stream.good /\ InPlace(stream, files) =>
         /\ out.files[stream.path] = files[stream.path] \o stream.buffer
         /\ InPlace(out.stream, out.files)

\* A stream that writes its buffer out puts it at the end of its file.
LEMMA FlushWrites ==
    ASSUME NEW files \in Files, NEW stream \in OutputStream, files[stream.path] \in Text,
           stream.buffer # <<>>
    PROVE  FlushesTo(stream, files, TRUE, FlushStream(stream, files, TRUE))
<1>1. PICK text \in Text : text = files[stream.path]
  OBVIOUS
<1>2. PICK at \in Nat : at = IF stream.append THEN Len(text) ELSE stream.position
  BY <1>1, TextFacts DEF OutputStream
<1>3. PICK new \in Text : new = stream.buffer
  BY DEF OutputStream
<1>4. PICK w \in Text : w = Written(text, at, new)
  BY WrittenType
<1>5. PICK fs : fs = [files EXCEPT ![stream.path] = w]
  OBVIOUS
<1>6. PICK st : st = [stream EXCEPT !.position = at + Len(new), !.buffer = <<>>]
  OBVIOUS
<1>7. FlushStream(stream, files, TRUE) = [files |-> fs, stream |-> st]
  BY <1>1, <1>2, <1>3, <1>4, <1>5, <1>6 DEF FlushStream
<1>8. stream.path \in Places
  BY DEF OutputStream, Places
<1>9. Keeps(files, fs, stream.path) /\ fs[stream.path] = w
  BY <1>4, <1>5, <1>8 DEF Files, Keeps, Places
<1>10. Len(new) \in Nat /\ Len(text) \in Nat
  BY TextFacts
<1>11. /\ st \in OutputStream /\ st.path = stream.path /\ st.buffer = <<>>
       /\ st.good = stream.good /\ st.append = stream.append
       /\ st.position = at + Len(new)
  <2>1. at + Len(new) \in Nat
    BY <1>10
  <2>2. PICK m \in Nat : m = at + Len(new)
    BY <2>1
  <2>3. <<>> \in Text
    BY TextFacts
  <2> QED
    BY <1>6, <2>2, <2>3 DEF OutputStream
<1>12. ASSUME InPlace(stream, files)
       PROVE  w = text \o new /\ InPlace(st, fs)
  <2>1. at = Len(text)
    BY <1>1, <1>2, <1>12 DEF InPlace
  <2>2. w = text \o new
    BY <1>4, <2>1, WrittenAtEnd
  <2>3. Len(w) = Len(text) + Len(new)
    BY <2>2, TextFacts
  <2> QED
    BY <1>9, <1>11, <2>1, <2>2, <2>3 DEF InPlace
<1>13. PICK out : out = [files |-> fs, stream |-> st]
  OBVIOUS
<1>14. out.files = fs /\ out.stream = st
  BY <1>13
<1>15. FlushesTo(stream, files, TRUE, out)
  BY <1>1, <1>3, <1>9, <1>11, <1>12, <1>14 DEF FlushesTo
<1> QED
  BY <1>7, <1>13, <1>15

\* A stream that fails to write, or that has nothing to write, leaves the files.
LEMMA FlushLeaves ==
    ASSUME NEW files \in Files, NEW stream \in OutputStream, files[stream.path] \in Text,
           NEW ok \in BOOLEAN, stream.buffer = <<>> \/ ~ok
    PROVE  FlushesTo(stream, files, ok, FlushStream(stream, files, ok))
<1>1. PICK g \in BOOLEAN : g = (stream.good /\ stream.buffer = <<>>)
  OBVIOUS
<1>2. PICK st : st = [stream EXCEPT !.good = g]
  OBVIOUS
<1>3. FlushStream(stream, files, ok) = [files |-> files, stream |-> st]
  <2>1. [stream EXCEPT !.good = @ /\ stream.buffer = <<>>] = st
    BY <1>1, <1>2
  <2> QED
    BY <2>1 DEF FlushStream
<1>4. /\ st \in OutputStream /\ st.path = stream.path /\ st.buffer = stream.buffer
      /\ st.good = g /\ st.append = stream.append /\ st.position = stream.position
  BY <1>2 DEF OutputStream
<1>5. Keeps(files, files, stream.path)
  BY DEF Keeps
<1>6. g => stream.good /\ stream.buffer = <<>>
  BY <1>1
<1>7. ok /\ stream.good => g
  BY <1>1
<1>8. files[stream.path] \o <<>> = files[stream.path]
  BY TextFacts
<1>9. InPlace(stream, files) => InPlace(st, files)
  BY <1>4 DEF InPlace
<1>10. PICK out : out = [files |-> files, stream |-> st]
  OBVIOUS
<1>11. out.files = files /\ out.stream = st
  BY <1>10
<1>12. FlushesTo(stream, files, ok, out)
  BY <1>4, <1>5, <1>6, <1>7, <1>8, <1>9, <1>11 DEF FlushesTo
<1> QED
  BY <1>3, <1>10, <1>12

\* Either way.
LEMMA FlushFacts ==
    ASSUME NEW files \in Files, NEW stream \in OutputStream, files[stream.path] \in Text,
           NEW ok \in BOOLEAN
    PROVE  FlushesTo(stream, files, ok, FlushStream(stream, files, ok))
<1>1. CASE stream.buffer = <<>> \/ ~ok
  BY <1>1, FlushLeaves
<1>2. CASE ~(stream.buffer = <<>> \/ ~ok)
  <2>1. ok = TRUE
    BY <1>2
  <2> QED
    BY <1>2, <2>1, FlushWrites
<1> QED
  BY <1>1, <1>2

\* The same of flush(), which does nothing for a stream that has failed.
LEMMA FlushedFacts ==
    ASSUME NEW files \in Files, NEW stream \in OutputStream, files[stream.path] \in Text,
           NEW ok \in BOOLEAN
    PROVE  FlushesTo(stream, files, ok, Flushed(stream, files, ok))
<1>1. CASE stream.good
  BY <1>1, FlushFacts DEF Flushed
<1>2. CASE ~stream.good
  <2>1. Flushed(stream, files, ok) = [files |-> files, stream |-> stream]
    BY <1>2 DEF Flushed
  <2>2. Keeps(files, files, stream.path)
    BY DEF Keeps
  <2>3. PICK out : out = [files |-> files, stream |-> stream]
    OBVIOUS
  <2>4. out.files = files /\ out.stream = stream
    BY <2>3
  <2>5. FlushesTo(stream, files, ok, out)
    BY <1>2, <2>2, <2>4 DEF FlushesTo
  <2> QED
    BY <2>1, <2>3, <2>5
<1> QED
  BY <1>1, <1>2

\* Where print writes to.
LEMMA TargetFacts ==
    ASSUME OutputTypes
    PROVE  /\ target \in OutputStream /\ target.path \in Places
           /\ disk[target.path] \in Text /\ expected[target.path] \in Text
           /\ output_file = None => target = standard_output /\ target.path = Standard
           /\ output_file # None => target = output_file /\ target.path # Standard
<1>1. CASE output_file = None
  BY <1>1 DEF OutputTypes, target, Places
<1>2. CASE output_file # None
  BY <1>2, IOAssumption DEF OutputTypes, target, Places
<1> QED
  BY <1>1, <1>2

\* A flush keeps what a flush before it kept.
LEMMA KeepsTwice ==
    ASSUME NEW path, NEW files, NEW mid, NEW new, Keeps(files, mid, path), Keeps(mid, new, path)
    PROVE  Keeps(files, new, path)
BY DEF Keeps

\* What letting the old output go makes of the files and the standard output.
DetachesTo(files, ok, old) ==
    /\ Keeps(files, old.files, target.path)
    /\ old.standard \in OutputStream /\ old.standard.path = Standard
    /\ target.buffer = <<>> => old.files = files
    /\ files[Standard] = disk[Standard] => InOrderIn(old.standard, old.files)
    /\ ok /\ ~bad /\ target.good /\ files[target.path] = disk[target.path] /\ InOrder(target)
         => old.files[target.path] = expected[target.path]

\* flush() of the redirected stream, when it lets its buffer go.
LEMMA FlushedOld ==
    ASSUME OutputTypes, bad => ~target.good, NEW files \in Files,
           files[target.path] \in Text, NEW ok \in BOOLEAN
    PROVE  FlushesTo(target, files, ok,
             IF bad THEN [files |-> files, stream |-> target] ELSE Flushed(target, files, ok))
<1>1. target \in OutputStream
  BY TargetFacts
<1>2. CASE ~bad
  BY <1>1, <1>2, FlushedFacts
<1>3. CASE bad
  <2>1. PICK out : out = [files |-> files, stream |-> target]
    OBVIOUS
  <2>2. out.files = files /\ out.stream = target
    BY <2>1
  <2>3. Keeps(files, files, target.path)
    BY DEF Keeps
  <2>4. FlushesTo(target, files, ok, out)
    BY <1>1, <1>3, <2>2, <2>3 DEF FlushesTo
  <2> QED
    BY <1>3, <2>1, <2>4
<1> QED
  BY <1>2, <1>3

\* Letting the console go.
LEMMA DetachStandard ==
    ASSUME OutputTypes, InOrder(standard_output), bad => ~target.good, NEW files \in Files,
           files[target.path] \in Text, NEW ok \in BOOLEAN, output_file = None
    PROVE  DetachesTo(files, ok, Detached(files, ok))
<1>1. PICK flushed : flushed = IF bad THEN [files |-> files, stream |-> target]
                               ELSE Flushed(target, files, ok)
  OBVIOUS
<1>2. FlushesTo(target, files, ok, flushed)
  BY <1>1, FlushedOld
<1>3. PICK old : old = [files |-> flushed.files, standard |-> flushed.stream]
  OBVIOUS
<1>4. Detached(files, ok) = old
  BY <1>1, <1>3 DEF Detached
<1>5. old.files = flushed.files /\ old.standard = flushed.stream
  BY <1>3
<1>6. /\ target = standard_output /\ target.path = Standard /\ target \in OutputStream
      /\ disk[Standard] \in Text /\ target.buffer \in Text
  BY TargetFacts DEF OutputTypes, OutputStream
<1>7. /\ Keeps(files, old.files, target.path)
      /\ old.standard \in OutputStream /\ old.standard.path = Standard
      /\ target.buffer = <<>> => old.files = files
  BY <1>2, <1>5, <1>6 DEF FlushesTo
<1>8. ASSUME old.standard.good, files[Standard] = disk[Standard]
      PROVE  /\ expected[Standard] = old.files[Standard] /\ old.standard.buffer = <<>>
             /\ InPlace(old.standard, old.files)
  <2>1. target.good /\ old.standard.buffer = <<>>
    BY <1>2, <1>5, <1>8 DEF FlushesTo
  <2>2. expected[Standard] = disk[Standard] \o target.buffer /\ InPlace(target, disk)
    BY <1>6, <2>1 DEF InOrder, InOrderIn
  <2>3. InPlace(target, files)
    BY <1>6, <1>8, <2>2 DEF InPlace
  <2>4. /\ flushed.files[target.path] = files[target.path] \o target.buffer
        /\ InPlace(flushed.stream, flushed.files)
    BY <1>2, <1>5, <1>8, <2>3 DEF FlushesTo
  <2> QED
    BY <1>5, <1>6, <1>8, <2>1, <2>2, <2>4
<1>9. files[Standard] = disk[Standard] => InOrderIn(old.standard, old.files)
  <2> SUFFICES ASSUME files[Standard] = disk[Standard], old.standard.good
               PROVE  /\ expected[Standard] = old.files[Standard] \o old.standard.buffer
                      /\ InPlace(old.standard, old.files)
    BY <1>7 DEF InOrderIn
  <2>1. expected[Standard] = old.files[Standard] /\ expected[Standard] \in Text
    BY <1>8 DEF OutputTypes
  <2>2. expected[Standard] \o <<>> = expected[Standard]
    BY <2>1, TextFacts
  <2> QED
    BY <1>8, <2>1, <2>2
<1>10. ok /\ ~bad /\ target.good /\ files[target.path] = disk[target.path] /\ InOrder(target)
         => old.files[target.path] = expected[target.path]
  <2> SUFFICES ASSUME ok, target.good, files[target.path] = disk[target.path]
               PROVE  old.files[target.path] = expected[target.path]
    OBVIOUS
  <2>1. old.standard.good
    BY <1>2, <1>5 DEF FlushesTo
  <2> QED
    BY <1>6, <1>8, <2>1
<1> QED
  BY <1>4, <1>7, <1>9, <1>10 DEF DetachesTo

\* Letting a file go: its destructor writes what flush() has not.
LEMMA DetachFile ==
    ASSUME OutputTypes, InOrder(standard_output), bad => ~target.good, NEW files \in Files,
           files[target.path] \in Text, NEW ok \in BOOLEAN, output_file # None
    PROVE  DetachesTo(files, ok, Detached(files, ok))
<1>1. PICK flushed : flushed = IF bad THEN [files |-> files, stream |-> target]
                               ELSE Flushed(target, files, ok)
  OBVIOUS
<1>2. FlushesTo(target, files, ok, flushed)
  BY <1>1, FlushedOld
<1>3. PICK closed : closed = FlushStream(flushed.stream, flushed.files, ok)
  OBVIOUS
<1>4. /\ target.path # Standard /\ target.path \in Places /\ Standard \in Places
      /\ target \in OutputStream /\ disk[Standard] \in Text
      /\ disk[target.path] \in Text /\ target.buffer \in Text
  BY TargetFacts DEF OutputTypes, OutputStream, Places
<1>5. /\ Keeps(files, flushed.files, target.path)
      /\ flushed.stream \in OutputStream /\ flushed.stream.path = target.path
  BY <1>2 DEF FlushesTo
<1>6. flushed.files \in Files /\ flushed.files[flushed.stream.path] \in Text
  BY <1>4, <1>5 DEF Keeps
<1>7. FlushesTo(flushed.stream, flushed.files, ok, closed)
  BY <1>3, <1>5, <1>6, FlushFacts
<1>8. PICK old : old = [files |-> closed.files, standard |-> standard_output]
  OBVIOUS
<1>9. Detached(files, ok) = old
  BY <1>1, <1>3, <1>8 DEF Detached
<1>10. old.files = closed.files /\ old.standard = standard_output
  BY <1>8
<1>11. Keeps(files, old.files, target.path)
  <2>1. Keeps(flushed.files, closed.files, target.path)
    BY <1>5, <1>7 DEF FlushesTo
  <2> QED
    BY <1>5, <1>10, <2>1, KeepsTwice
<1>12. old.standard \in OutputStream /\ old.standard.path = Standard
  BY <1>10 DEF OutputTypes
<1>13. flushed.stream.buffer = <<>> => old.files = flushed.files
  BY <1>7, <1>10 DEF FlushesTo
<1>14. target.buffer = <<>> => old.files = files
  BY <1>2, <1>13 DEF FlushesTo
<1>15. files[Standard] = disk[Standard] => InOrderIn(old.standard, old.files)
  <2>1. old.files[Standard] = files[Standard]
    BY <1>4, <1>11 DEF Keeps
  <2> QED
    BY <1>10, <1>12, <2>1 DEF InOrder, InOrderIn, InPlace
<1>16. ok /\ ~bad /\ target.good /\ files[target.path] = disk[target.path] /\ InOrder(target)
         => old.files[target.path] = expected[target.path]
  <2> SUFFICES ASSUME ok, target.good, files[target.path] = disk[target.path], InOrder(target)
               PROVE  old.files[target.path] = expected[target.path]
    OBVIOUS
  <2>1. flushed.stream.good /\ flushed.stream.buffer = <<>>
    BY <1>2 DEF FlushesTo
  <2>2. /\ expected[target.path] = disk[target.path] \o target.buffer
        /\ InPlace(target, files)
    BY DEF InOrder, InOrderIn, InPlace
  <2>3. flushed.files[target.path] = files[target.path] \o target.buffer
    BY <1>2, <2>1, <2>2 DEF FlushesTo
  <2> QED
    BY <1>13, <2>1, <2>2, <2>3
<1> QED
  BY <1>9, <1>11, <1>12, <1>14, <1>15, <1>16 DEF DetachesTo

\* Either way.
LEMMA DetachFacts ==
    ASSUME OutputTypes, InOrder(standard_output), bad => ~target.good, NEW files \in Files,
           files[target.path] \in Text, NEW ok \in BOOLEAN
    PROVE  DetachesTo(files, ok, Detached(files, ok))
BY DetachStandard, DetachFile

-----------------------------------------------------------------------------
(* The steps on the output *)

\* A text stays one.
TextsKept == \A q \in Places : disk[q] \in Text => disk'[q] \in Text

\* A new stream has nothing in it.
LEMMA StreamFacts ==
    ASSUME NEW path \in Places, NEW append \in BOOLEAN
    PROVE  /\ Stream(path, append) \in OutputStream /\ Stream(path, append) # None
           /\ Stream(path, append).path = path /\ Stream(path, append).append = append
           /\ Stream(path, append).position = 0 /\ Stream(path, append).buffer = <<>>
           /\ Stream(path, append).good
<1>1. PICK st : st = Stream(path, append)
  OBVIOUS
<1>2. st \in OutputStream
  BY <1>1, TextFacts DEF Stream, OutputStream, Places
<1>3. st # None
  BY <1>2, NoneAssumption
<1> QED
  BY <1>1, <1>2, <1>3 DEF Stream

\* What a switch expects of the files.
LEMMA ExpectingFacts ==
    ASSUME OutputTypes, NEW path \in Places, NEW mode \in Modes, NEW files \in Files
    PROVE  /\ Expecting(path, mode, files) \in Files
           /\ Expecting(path, mode, files)[Standard] = expected[Standard]
           /\ path # Standard =>
                Expecting(path, mode, files)[path] = IF mode = "append" THEN files[path] ELSE <<>>
<1>1. DOMAIN files = Places /\ Standard \in Places
  BY DEF Files, Places
<1>2. PICK e : e = Expecting(path, mode, files)
  OBVIOUS
<1>3. e = [p \in Places |-> IF p = Standard THEN expected[p]
                             ELSE IF p = path /\ mode # "append" THEN <<>> ELSE files[p]]
  BY <1>1, <1>2 DEF Expecting
<1>4. \A p \in Places : e[p] = IF p = Standard THEN expected[Standard]
                               ELSE IF p = path /\ mode # "append" THEN <<>> ELSE files[p]
  BY <1>3
<1>5. \A p \in Places : e[p] \in Text \cup {Missing}
  BY <1>4, TextFacts DEF OutputTypes, Files, Places
<1>6. e \in Files
  BY <1>3, <1>5 DEF Files, Places
<1> QED
  BY <1>1, <1>2, <1>4, <1>6

\* A new target of print starts where its file is as expected.
LEMMA AttachKeeps ==
    ASSUME OutputTypes, NEW path \in Places, NEW mode \in Modes, NEW files \in Files,
           NEW standard \in OutputStream, standard.path = Standard, leftover' \in BOOLEAN,
           files[Standard] \in Text, path # Standard => files[path] \in Text,
           InOrderIn(standard, files), Attach(path, mode, files, standard)
    PROVE  /\ OutputTypes' /\ InOrder(standard_output)' /\ ~bad'
           /\ path # Standard /\ (mode # "append" => files[path] = <<>>)
                => InOrder(output_file)'
           /\ path = Standard => output_file' = None
<1>1. PICK append \in BOOLEAN : append = (mode = "append")
  OBVIOUS
<1>2. /\ disk' = files /\ standard_output' = standard /\ bad' = FALSE
      /\ output_file' = IF path = Standard THEN None ELSE Stream(path, append)
      /\ expected' = Expecting(path, mode, files)
  BY <1>1 DEF Attach
<1>3. /\ expected' \in Files /\ expected'[Standard] = expected[Standard]
      /\ path # Standard => expected'[path] = IF append THEN files[path] ELSE <<>>
  BY <1>1, <1>2, ExpectingFacts
<1>4. path = Standard => output_file' = None
  BY <1>2
<1>5. path # Standard =>
        /\ output_file' \in OutputStream /\ output_file'.path = path
        /\ output_file'.append = append /\ output_file'.position = 0
        /\ output_file'.buffer = <<>>
  BY <1>2, StreamFacts
<1>6. path # Standard => path \in Paths /\ expected'[path] \in Text
  BY <1>3, TextFacts DEF Places
<1>7. OutputTypes'
  <2>1. disk' \in Files /\ disk'[Standard] \in Text
    BY <1>2
  <2>2. expected'[Standard] \in Text
    BY <1>3 DEF OutputTypes
  <2>3. standard_output' \in OutputStream /\ standard_output'.path = Standard
    BY <1>2
  <2>4. output_file' \in OutputStream \cup {None}
    BY <1>4, <1>5
  <2>5. output_file' # None => /\ output_file'.path \in Paths
                               /\ disk'[output_file'.path] \in Text
                               /\ expected'[output_file'.path] \in Text
    BY <1>2, <1>4, <1>5, <1>6
  <2> QED
    BY <1>2, <1>3, <2>1, <2>2, <2>3, <2>4, <2>5 DEF OutputTypes
<1>8. InOrder(standard_output)'
  <2>1. standard.good => /\ expected[Standard] = files[Standard] \o standard.buffer
                         /\ InPlace(standard, files)
    BY DEF InOrderIn
  <2>2. standard_output' = standard /\ disk' = files /\ expected'[Standard] = expected[Standard]
    BY <1>2, <1>3
  <2> QED
    BY <2>1, <2>2 DEF InOrder, InOrderIn, InPlace
<1>9. ASSUME path # Standard, mode # "append" => files[path] = <<>>
      PROVE  InOrder(output_file)'
  <2>1. files[path] \o <<>> = files[path] /\ Len(<<>>) = 0
    BY <1>9, TextFacts
  <2>2. expected'[path] = files[path]
    BY <1>1, <1>3, <1>9
  <2>3. append \/ Len(files[path]) = 0
    BY <1>1, <1>9, <2>1
  <2> QED
    BY <1>2, <1>5, <1>9, <2>1, <2>2, <2>3 DEF InOrder, InOrderIn, InPlace
<1> QED
  BY <1>2, <1>4, <1>7, <1>8, <1>9

\* The file that is opened for output.
LEMMA OpenedFacts ==
    ASSUME NEW path \in Places, NEW mode \in Modes, NEW files \in Files
    PROVE  /\ Keeps(files, OpenedOutput(path, mode, files), path)
           /\ OpenedOutput(path, mode, files)[path] \in Text
           /\ mode # "append" => OpenedOutput(path, mode, files)[path] = <<>>
<1>1. PICK text : text = IF mode = "append" /\ files[path] # Missing THEN files[path] ELSE <<>>
  OBVIOUS
<1>2. PICK fs : fs = [files EXCEPT ![path] = text]
  OBVIOUS
<1>3. OpenedOutput(path, mode, files) = fs
  BY <1>1, <1>2 DEF OpenedOutput
<1>4. text \in Text /\ (mode # "append" => text = <<>>)
  BY <1>1, TextFacts DEF Files, Places
<1>5. Keeps(files, fs, path) /\ fs[path] = text
  BY <1>2, <1>4 DEF Keeps, Files, Places
<1> QED
  BY <1>3, <1>4, <1>5

\* What the steps on the output keep.
OutputsKept == OutputTypes' /\ StreamsInOrder' /\ TextsKept

\* Letting the old output go, whatever comes next.
LEMMA DetachKeeps ==
    ASSUME OutputTypes, StreamsInOrder, call # "destroyed", NEW files \in Files,
           files[target.path] \in Text, files[Standard] = disk[Standard],
           NEW ok \in BOOLEAN, NEW old, old = Detached(files, ok)
    PROVE  /\ Keeps(files, old.files, target.path)
           /\ old.standard \in OutputStream /\ old.standard.path = Standard
           /\ old.files[Standard] \in Text
           /\ target.buffer = <<>> => old.files = files
           /\ InOrderIn(old.standard, old.files)
           /\ ok /\ ~bad /\ target.good /\ files[target.path] = disk[target.path] /\ ~leftover
                => old.files[target.path] = expected[target.path]
<1>1. InOrder(standard_output) /\ (bad => ~target.good)
  BY DEF StreamsInOrder
<1>2. DetachesTo(files, ok, Detached(files, ok))
  BY <1>1, DetachFacts
<1>3. DetachesTo(files, ok, old)
  BY <1>2
<1>4. Keeps(files, old.files, target.path)
  BY <1>3 DEF DetachesTo
<1>5. old.files[Standard] \in Text
  BY <1>4 DEF Keeps, OutputTypes, Places
<1>6. ~leftover => InOrder(target)
  BY TargetFacts DEF StreamsInOrder
<1> QED
  BY <1>3, <1>4, <1>5, <1>6 DEF DetachesTo

\* output() keeps the streams in order.
LEMMA SetOutputKeeps ==
    ASSUME OutputTypes, StreamsInOrder,
           NEW path \in Places, NEW mode \in Modes, NEW opens \in BOOLEAN, NEW ok \in BOOLEAN,
           set_output(path, mode, opens, ok)
    PROVE  OutputsKept
<1>1. PICK old : old = Detached(disk, ok)
  OBVIOUS
<1>2. PICK opened : opened = IF path = Standard THEN old.files
                             ELSE OpenedOutput(path, mode, old.files)
  OBVIOUS
<1>3. PICK fails \in BOOLEAN :
        fails = (path # Standard /\ ~CanOpenOutput(path, mode, old.files, opens))
  OBVIOUS
<1>4. /\ call = None /\ leftover' = FALSE
      /\ fails => Attach(Standard, mode, old.files, old.standard)
      /\ ~fails => Attach(path, mode, opened, old.standard)
  BY <1>1, <1>2, <1>3 DEF set_output
<1>5. disk \in Files /\ disk[target.path] \in Text /\ leftover \in BOOLEAN
  BY TargetFacts DEF OutputTypes
<1>6. /\ Keeps(disk, old.files, target.path)
      /\ old.standard \in OutputStream /\ old.standard.path = Standard
      /\ old.files[Standard] \in Text /\ InOrderIn(old.standard, old.files)
  BY <1>1, <1>4, <1>5, NoneAssumption, DetachKeeps
<1>7. old.files \in Files /\ Standard \in Places
  BY <1>6 DEF Keeps, Places
<1>8. CASE fails
  <2>1. Attach(Standard, mode, old.files, old.standard)
    BY <1>4, <1>8
  <2>2. OutputTypes' /\ InOrder(standard_output)' /\ ~bad' /\ output_file' = None
    BY <1>4, <1>5, <1>6, <1>7, <2>1, AttachKeeps
  <2>3. disk' = old.files
    BY <2>1 DEF Attach
  <2>4. TextsKept
    BY <1>6, <2>3 DEF Keeps, TextsKept
  <2> QED
    BY <2>2, <2>4 DEF StreamsInOrder, OutputsKept
<1>9. CASE ~fails /\ path = Standard
  <2>1. Attach(Standard, mode, old.files, old.standard)
    BY <1>2, <1>4, <1>9
  <2>2. OutputTypes' /\ InOrder(standard_output)' /\ ~bad' /\ output_file' = None
    BY <1>4, <1>5, <1>6, <1>7, <2>1, AttachKeeps
  <2>3. disk' = old.files
    BY <2>1 DEF Attach
  <2>4. TextsKept
    BY <1>6, <2>3 DEF Keeps, TextsKept
  <2> QED
    BY <2>2, <2>4 DEF StreamsInOrder, OutputsKept
<1>10. CASE ~fails /\ path # Standard
  <2>1. Attach(path, mode, opened, old.standard) /\ opened = OpenedOutput(path, mode, old.files)
    BY <1>2, <1>4, <1>10
  <2>2. /\ Keeps(old.files, opened, path) /\ opened[path] \in Text
        /\ mode # "append" => opened[path] = <<>>
    BY <1>7, <2>1, OpenedFacts
  <2>3. opened \in Files /\ opened[Standard] = old.files[Standard]
    BY <1>7, <1>10, <2>2 DEF Keeps
  <2>4. InOrderIn(old.standard, opened)
    BY <1>6, <2>3 DEF InOrderIn, InPlace
  <2>5. OutputTypes' /\ InOrder(standard_output)' /\ ~bad' /\ InOrder(output_file)'
    BY <1>4, <1>5, <1>6, <1>10, <2>1, <2>2, <2>3, <2>4, AttachKeeps
  <2>6. disk' = opened
    BY <2>1 DEF Attach
  <2>7. TextsKept
    BY <1>6, <2>2, <2>6 DEF Keeps, TextsKept
  <2> QED
    BY <2>5, <2>7 DEF StreamsInOrder, OutputsKept
<1> QED
  BY <1>8, <1>9, <1>10

\* What has been opened when iostream has tried to open its files.
OpenedFiles(input, path, mode, reads, opens) ==
    OpenOutput(path, mode, opens, OpenInput(input, reads, [files |-> disk, opened |-> TRUE]))

\* Both, or none that is changed by it.
LEMMA OpenedFilesFacts ==
    ASSUME NEW input \in Places, NEW path \in Places, NEW mode \in Modes,
           NEW reads \in BOOLEAN, NEW opens \in BOOLEAN,
           NEW now, now = OpenedFiles(input, path, mode, reads, opens)
    PROVE  /\ ~now.opened => now.files = disk
           /\ now.opened => /\ CanOpenInput(input, reads)
                            /\ path = Standard \/ CanOpenOutput(path, mode, disk, opens)
                            /\ now.files = IF path = Standard THEN disk
                                           ELSE OpenedOutput(path, mode, disk)
<1>1. PICK first : first = OpenInput(input, reads, [files |-> disk, opened |-> TRUE])
  OBVIOUS
<1>2. first.files = disk /\ (first.opened => CanOpenInput(input, reads))
  BY <1>1 DEF OpenInput
<1>3. first = [files |-> disk, opened |-> TRUE /\ CanOpenInput(input, reads)]
  BY <1>1 DEF OpenInput
<1>4. now = OpenOutput(path, mode, opens, first)
  BY <1>1 DEF OpenedFiles
<1>5. CASE path = Standard \/ ~first.opened
  BY <1>2, <1>4, <1>5 DEF OpenOutput
<1>6. CASE ~(path = Standard \/ ~first.opened) /\ CanOpenOutput(path, mode, disk, opens)
  <2>1. PICK files : files = OpenedOutput(path, mode, disk)
    OBVIOUS
  <2>2. now = [first EXCEPT !.files = files]
    BY <1>2, <1>4, <1>6, <2>1 DEF OpenOutput
  <2>3. now.files = files /\ now.opened = first.opened
    BY <1>3, <2>2
  <2> QED
    BY <1>2, <1>6, <2>1, <2>3
<1>7. CASE ~(path = Standard \/ ~first.opened) /\ ~CanOpenOutput(path, mode, disk, opens)
  <2>1. now = [first EXCEPT !.opened = FALSE]
    BY <1>2, <1>4, <1>7 DEF OpenOutput
  <2>2. now.files = disk /\ now.opened = FALSE
    BY <1>3, <2>1
  <2> QED
    BY <2>2
<1> QED
  BY <1>5, <1>6, <1>7

\* iostream() that opens both keeps them in order, but for the text that was
\* left when it opened its own output again.
LEMMA SetStreamsKeeps ==
    ASSUME OutputTypes, StreamsInOrder, NEW input \in Places,
           NEW path \in Places, NEW mode \in Modes, NEW reads \in BOOLEAN,
           NEW opens \in BOOLEAN, NEW ok \in BOOLEAN,
           set_streams(input, path, mode, reads, opens, ok),
           OpenedFiles(input, path, mode, reads, opens).opened
    PROVE  OutputsKept
<1>1. PICK now : now = OpenedFiles(input, path, mode, reads, opens)
  OBVIOUS
<1>2. PICK opened : opened = now.files
  OBVIOUS
<1>3. PICK old : old = Detached(opened, ok)
  OBVIOUS
<1>4. /\ call = None /\ Attach(path, mode, old.files, old.standard)
      /\ leftover' = (path # Standard /\ mode = "rewrite" /\ path = target.path /\ target.buffer # <<>>)
  BY <1>1, <1>2, <1>3 DEF set_streams, Replace, OpenedFiles
<1>5. /\ opened = IF path = Standard THEN disk ELSE OpenedOutput(path, mode, disk)
      /\ path = Standard \/ CanOpenOutput(path, mode, disk, opens)
  BY <1>1, <1>2, OpenedFilesFacts
<1>6. /\ disk \in Files /\ disk[target.path] \in Text /\ disk[Standard] \in Text
      /\ leftover' \in BOOLEAN /\ target.path \in Places /\ Standard \in Places
  BY <1>4, TargetFacts DEF OutputTypes, Places
<1>7. Keeps(disk, opened, path) /\ opened[Standard] = disk[Standard]
  <2>1. CASE path = Standard
    BY <1>5, <1>6, <2>1 DEF Keeps
  <2>2. CASE path # Standard
    <3>1. Keeps(disk, opened, path)
      BY <1>5, <1>6, <2>2, OpenedFacts
    <3> QED
      BY <1>6, <2>2, <3>1 DEF Keeps
  <2> QED
    BY <2>1, <2>2
<1>8. opened \in Files /\ opened[target.path] \in Text
  BY <1>6, <1>7 DEF Keeps
<1>9. path # Standard => opened[path] \in Text /\ (mode # "append" => opened[path] = <<>>)
  BY <1>5, <1>6, OpenedFacts
<1>10. /\ Keeps(opened, old.files, target.path)
       /\ old.standard \in OutputStream /\ old.standard.path = Standard
       /\ old.files[Standard] \in Text
       /\ target.buffer = <<>> => old.files = opened
       /\ InOrderIn(old.standard, old.files)
  BY <1>3, <1>4, <1>7, <1>8, NoneAssumption, DetachKeeps
<1>11. old.files \in Files /\ (path # Standard => old.files[path] \in Text)
  BY <1>9, <1>10 DEF Keeps
<1>12. /\ OutputTypes' /\ InOrder(standard_output)' /\ ~bad'
       /\ path # Standard /\ (mode # "append" => old.files[path] = <<>>)
            => InOrder(output_file)'
       /\ path = Standard => output_file' = None
  BY <1>4, <1>6, <1>10, <1>11, AttachKeeps
<1>13. ASSUME output_file' # None, ~leftover'
       PROVE  InOrder(output_file)'
  <2>1. path # Standard
    BY <1>12, <1>13
  <2>2. CASE path # target.path \/ target.buffer = <<>>
    <3>1. old.files[path] = opened[path]
      BY <1>10, <2>2 DEF Keeps
    <3> QED
      BY <1>9, <1>12, <2>1, <3>1
  <2>3. CASE path = target.path /\ target.buffer # <<>>
    <3>1. mode # "rewrite"
      BY <1>4, <1>13, <2>1, <2>3
    <3>2. mode # "create"
      BY <1>6, <1>5, <2>1, <2>3, NoneAssumption DEF CanOpenOutput
    <3> QED
      BY <1>12, <2>1, <3>1, <3>2 DEF Modes
  <2> QED
    BY <2>2, <2>3
<1>14. disk' = old.files
  BY <1>4 DEF Attach
<1>15. TextsKept
  BY <1>7, <1>10, <1>14 DEF Keeps, TextsKept
<1> QED
  BY <1>12, <1>13, <1>15 DEF StreamsInOrder, OutputsKept

\* iostream() that does not open both leaves everything as it was.
LEMMA RefusedLeaves ==
    ASSUME NEW input \in Places, NEW path \in Places, NEW mode \in Modes,
           NEW reads \in BOOLEAN, NEW opens \in BOOLEAN, NEW ok \in BOOLEAN,
           set_streams(input, path, mode, reads, opens, ok),
           ~OpenedFiles(input, path, mode, reads, opens).opened
    PROVE  /\ UNCHANGED <<outputs, input_file, standard_input, expected, leftover>>
           /\ result' = "refused" /\ call' = "failed" /\ disk' = disk
<1>1. PICK now : now = OpenedFiles(input, path, mode, reads, opens)
  OBVIOUS
<1>2. now.files = disk
  BY <1>1, OpenedFilesFacts
<1>3. /\ disk' = now.files /\ result' = "refused" /\ call' = "failed"
      /\ UNCHANGED <<standard_output, output_file, bad, input_file, standard_input, expected, leftover>>
  BY <1>1 DEF set_streams, Replace, OpenedFiles, Reports, Throws
<1> QED
  BY <1>2, <1>3 DEF outputs

\* Going to another path, output leaves what was printed in the old file.
LEMMA OldIsWritten ==
    ASSUME OutputTypes, StreamsInOrder, call # "destroyed", ~leftover, NEW path \in Places,
           NEW mode \in Modes, NEW files \in Files, files[target.path] = disk[target.path],
           files[Standard] = disk[Standard], NEW ok \in BOOLEAN, Switched(ok) = "switched",
           NEW new, \/ new = Detached(files, ok).files
                     \/ /\ path # target.path
                        /\ new = OpenedOutput(path, mode, Detached(files, ok).files)
    PROVE  new[target.path] = expected[target.path]
<1>1. PICK old : old = Detached(files, ok)
  OBVIOUS
<1>2. files[target.path] \in Text /\ target.path \in Places
  BY TargetFacts
<1>3. ok /\ ~bad /\ target.good
  BY DEF Switched
<1>4. old.files[target.path] = expected[target.path] /\ old.files \in Files
  BY <1>1, <1>2, <1>3, DetachKeeps DEF Keeps
<1>5. CASE new = old.files
  BY <1>4, <1>5
<1>6. CASE path # target.path /\ new = OpenedOutput(path, mode, old.files)
  <2>1. Keeps(old.files, new, path)
    BY <1>4, <1>6, OpenedFacts
  <2> QED
    BY <1>2, <1>4, <1>6, <2>1 DEF Keeps
<1> QED
  BY <1>1, <1>5, <1>6

\* A step that leaves the output alone.
LEMMA OutputStays ==
    ASSUME OutputTypes, StreamsInOrder, UNCHANGED <<outputs, expected, leftover>>,
           call # "destroyed" \/ call' = "destroyed"
    PROVE  OutputsKept
<1>1. /\ disk' = disk /\ standard_output' = standard_output /\ output_file' = output_file
      /\ bad' = bad /\ expected' = expected /\ leftover' = leftover
  BY DEF outputs
<1>2. OutputTypes'
  BY <1>1 DEF OutputTypes
<1>3. target' = target
  BY <1>1 DEF target
<1>4. StreamsInOrder'
  <2>1. InOrder(standard_output)' = InOrder(standard_output)
    BY <1>1 DEF InOrder, InOrderIn, InPlace
  <2>2. InOrder(output_file)' = InOrder(output_file)
    BY <1>1 DEF InOrder, InOrderIn, InPlace
  <2>3. CASE call' = "destroyed"
    BY <2>3 DEF StreamsInOrder
  <2>4. CASE call # "destroyed"
    BY <1>1, <1>3, <2>1, <2>2, <2>4 DEF StreamsInOrder
  <2> QED
    BY <2>3, <2>4
<1> QED
  BY <1>1, <1>2, <1>4 DEF OutputsKept, TextsKept

\* A step of the stream that print writes to.
LEMMA TargetStep ==
    ASSUME OutputTypes, StreamsInOrder, call # "destroyed",
           NEW stream \in OutputStream, stream.path = target.path, SetTarget(stream),
           Keeps(disk, disk', target.path), expected' \in Files, expected'[target.path] \in Text,
           \A q \in Places : q # target.path => expected'[q] = expected[q],
           leftover' = leftover, bad' \in BOOLEAN, bad' => ~stream.good,
           InOrder(target) /\ stream.good =>
             /\ expected'[stream.path] = disk'[stream.path] \o stream.buffer
             /\ InPlace(stream, disk')
    PROVE  OutputsKept /\ target' = stream
<1>1. /\ target.path \in Places /\ Standard \in Places
      /\ disk[target.path] \in Text /\ disk'[target.path] \in Text
      /\ disk' \in Files /\ disk'[Standard] \in Text /\ TextsKept
  BY TargetFacts DEF OutputTypes, Keeps, TextsKept, Places
<1>2. expected'[Standard] \in Text
  BY <1>1 DEF OutputTypes
<1>3. stream # None
  BY NoneAssumption
<1>4. CASE output_file = None
  <2>1. /\ standard_output' = stream /\ output_file' = None /\ stream.path = Standard
        /\ target = standard_output
    BY <1>4, TargetFacts DEF SetTarget
  <2>2. target' = stream
    BY <2>1 DEF target
  <2>3. OutputTypes'
    BY <1>1, <1>2, <2>1 DEF OutputTypes
  <2>4. InOrder(target)
    BY <2>1 DEF StreamsInOrder
  <2>5. InOrder(standard_output)'
    BY <2>1, <2>4 DEF InOrder, InOrderIn
  <2> QED
    BY <1>1, <2>1, <2>2, <2>3, <2>5 DEF StreamsInOrder, OutputsKept
<1>5. CASE output_file # None
  <2>1. /\ standard_output' = standard_output /\ output_file' = stream
        /\ target = output_file /\ target.path # Standard /\ target.path \in Paths
    BY <1>1, <1>5, TargetFacts DEF SetTarget, Places
  <2>2. target' = stream
    BY <1>3, <2>1 DEF target
  <2>3. OutputTypes'
    BY <1>1, <1>2, <2>1 DEF OutputTypes
  <2>4. disk'[Standard] = disk[Standard] /\ expected'[Standard] = expected[Standard]
    BY <1>1, <2>1 DEF Keeps
  <2>5. InOrder(standard_output) /\ standard_output.path = Standard
    BY DEF StreamsInOrder, OutputTypes
  <2>6. InOrder(standard_output)'
    BY <2>1, <2>4, <2>5 DEF InOrder, InOrderIn, InPlace
  <2>7. ~leftover => InOrder(target)
    BY <1>5, <2>1 DEF StreamsInOrder
  <2>8. ~leftover => InOrder(output_file)'
    BY <2>1, <2>7 DEF InOrder, InOrderIn
  <2> QED
    BY <1>1, <2>2, <2>3, <2>6, <2>8 DEF StreamsInOrder, OutputsKept
<1> QED
  BY <1>4, <1>5

\* flush() keeps the streams in order, and what it says it has written is there.
LEMMA FlushKeeps ==
    ASSUME OutputTypes, StreamsInOrder, NEW ok \in BOOLEAN, flush(ok)
    PROVE  OutputsKept /\ FlushedIsWritten'
<1>1. call = None /\ expected' = expected /\ leftover' = leftover
  BY DEF flush
<1>2. CASE bad
  <2>1. UNCHANGED outputs /\ bad' /\ result' = "other"
    BY <1>2 DEF flush, outputs, Reports
  <2>2. OutputsKept
    BY <1>1, <2>1, NoneAssumption, OutputStays
  <2> QED
    BY <2>1, <2>2 DEF FlushedIsWritten
<1>3. CASE ~bad
  <2>1. PICK out : out = Flushed(target, disk, ok)
    OBVIOUS
  <2>2. /\ disk' = out.files /\ SetTarget(out.stream) /\ bad' = ~out.stream.good
        /\ result' = IF bad' THEN "other" ELSE "flushed"
    BY <1>3, <2>1 DEF flush, Reports
  <2>3. /\ target \in OutputStream /\ target.path \in Places /\ target.buffer \in Text
        /\ disk \in Files /\ disk[target.path] \in Text
        /\ expected \in Files /\ expected[target.path] \in Text
    BY TargetFacts DEF OutputTypes, OutputStream
  <2>4. FlushesTo(target, disk, ok, out)
    BY <2>1, <2>3, FlushedFacts
  <2>5. /\ out.stream \in OutputStream /\ out.stream.path = target.path
        /\ Keeps(disk, disk', target.path)
        /\ out.stream.good => out.stream.buffer = <<>> /\ target.good
    BY <2>2, <2>4 DEF FlushesTo
  <2>6. ASSUME InOrder(target), out.stream.good
        PROVE  expected'[target.path] = disk'[target.path] /\ InPlace(out.stream, disk')
    <3>1. expected[target.path] = disk[target.path] \o target.buffer /\ InPlace(target, disk)
      BY <2>5, <2>6 DEF InOrder, InOrderIn
    <3> QED
      BY <1>1, <2>2, <2>4, <2>6, <3>1 DEF FlushesTo
  <2>7. disk'[target.path] \o <<>> = disk'[target.path]
    BY <2>3, <2>5, TextFacts DEF Keeps
  <2>8. bad' \in BOOLEAN /\ (bad' => ~out.stream.good)
    BY <2>2, <2>5 DEF OutputStream
  <2>9. InOrder(target) /\ out.stream.good =>
          /\ expected'[out.stream.path] = disk'[out.stream.path] \o out.stream.buffer
          /\ InPlace(out.stream, disk')
    BY <2>5, <2>6, <2>7
  <2>10. PICK stream \in OutputStream : stream = out.stream
    BY <2>5
  <2>11. OutputsKept /\ target' = stream
    BY <1>1, <2>2, <2>3, <2>5, <2>8, <2>9, <2>10, NoneAssumption, TargetStep
  <2>12. ASSUME result' = "flushed", ~leftover'
         PROVE  disk'[target'.path] = expected'[target'.path]
    <3>1. out.stream.good
      BY <2>2, <2>12
    <3>2. InOrder(target)
      BY <1>1, <2>12, NoneAssumption DEF StreamsInOrder, target
    <3> QED
      BY <2>5, <2>6, <2>10, <2>11, <3>1, <3>2
  <2> QED
    BY <2>11, <2>12 DEF FlushedIsWritten
<1> QED
  BY <1>2, <1>3

\* print keeps the streams in order when the stream has failed.
LEMMA PrintLost ==
    ASSUME OutputTypes, StreamsInOrder, NEW char \in Chars, NEW ok \in BOOLEAN,
           PrintChar(char, ok), bad \/ ~target.good
    PROVE  OutputsKept
<1>1. /\ call = None /\ leftover' = leftover
      /\ expected' = [expected EXCEPT ![target.path] = Append(@, char)]
  BY DEF PrintChar
<1>2. /\ target \in OutputStream /\ target.path \in Places
      /\ disk \in Files /\ disk[target.path] \in Text
      /\ expected \in Files /\ expected[target.path] \in Text
  BY TargetFacts DEF OutputTypes
<1>3. PICK text \in Text : text = Append(expected[target.path], char)
  BY <1>2, AppendText
<1>4. /\ expected' \in Files /\ expected'[target.path] = text
      /\ \A q \in Places : q # target.path => expected'[q] = expected[q]
  BY <1>1, <1>2, <1>3 DEF Files, Places
<1>5. ~target.good
  BY <1>1, NoneAssumption DEF StreamsInOrder
<1>6. /\ disk' = disk /\ standard_output' = standard_output /\ output_file' = output_file
      /\ bad' \in BOOLEAN
  <2>1. CASE bad
    BY <2>1 DEF PrintChar, outputs, OutputTypes
  <2>2. CASE ~bad
    BY <1>5, <2>2 DEF PrintChar
  <2> QED
    BY <2>1, <2>2
<1>7. SetTarget(target) /\ Keeps(disk, disk', target.path)
  BY <1>2, <1>6 DEF SetTarget, target, Keeps
<1>8. PICK stream \in OutputStream : stream = target
  BY <1>2
<1> QED
  BY <1>1, <1>2, <1>4, <1>5, <1>6, <1>7, <1>8, NoneAssumption, TargetStep

\* A stream with one character more.
LEMMA MoreFacts ==
    ASSUME NEW stream \in OutputStream, NEW char \in Chars
    PROVE  LET more == [stream EXCEPT !.buffer = Append(@, char)]
           IN /\ more \in OutputStream /\ more.path = stream.path /\ more.good = stream.good
              /\ more.buffer = Append(stream.buffer, char) /\ more.buffer # <<>>
              /\ \A files : InPlace(stream, files) => InPlace(more, files)
<1>1. stream.buffer \in Text
  BY DEF OutputStream
<1>2. PICK text \in Text : text = Append(stream.buffer, char) /\ text # <<>>
  BY <1>1, AppendText
<1>3. PICK more : more = [stream EXCEPT !.buffer = Append(@, char)]
  OBVIOUS
<1>4. more = [stream EXCEPT !.buffer = text]
  BY <1>2, <1>3
<1>5. /\ more \in OutputStream /\ more.path = stream.path /\ more.good = stream.good
      /\ more.buffer = text /\ more.append = stream.append /\ more.position = stream.position
  BY <1>4 DEF OutputStream
<1> QED
  BY <1>2, <1>3, <1>5 DEF InPlace

\* What print does to a stream that has not failed: the character is in its
\* buffer, or it is written with it, or nothing is written and the stream fails.
Prints(char, ok, stream) ==
    /\ stream \in OutputStream /\ stream.path = target.path
    /\ SetTarget(stream) /\ Keeps(disk, disk', target.path)
    /\ bad' \in BOOLEAN /\ (bad' => ~stream.good)
    /\ InOrder(target) /\ stream.good =>
         /\ disk'[target.path] \o stream.buffer
              = Append(disk[target.path] \o target.buffer, char)
         /\ InPlace(stream, disk')

\* The character goes into the buffer.
LEMMA PrintBuffers ==
    ASSUME OutputTypes, NEW char \in Chars, NEW ok \in BOOLEAN,
           PrintChar(char, ok), ~bad, target.good, Fits(target, <<char>>)
    PROVE  \E stream : Prints(char, ok, stream)
<1>1. PICK more : more = [target EXCEPT !.buffer = Append(@, char)]
  OBVIOUS
<1>2. SetTarget(more) /\ disk' = disk /\ bad' = bad
  BY <1>1 DEF PrintChar
<1>3. /\ target \in OutputStream /\ disk \in Files /\ disk[target.path] \in Text
      /\ target.buffer \in Text /\ bad \in BOOLEAN
  BY TargetFacts DEF OutputTypes, OutputStream
<1>4. /\ more \in OutputStream /\ more.path = target.path /\ more.good = target.good
      /\ more.buffer = Append(target.buffer, char)
      /\ \A files : InPlace(target, files) => InPlace(more, files)
  BY <1>1, <1>3, MoreFacts
<1>5. disk[target.path] \o Append(target.buffer, char)
        = Append(disk[target.path] \o target.buffer, char)
  BY <1>3, AppendText
<1>6. Keeps(disk, disk', target.path)
  BY <1>2, <1>3 DEF Keeps
<1>7. InOrder(target) => InPlace(more, disk')
  BY <1>2, <1>4 DEF InOrder, InOrderIn
<1>8. Prints(char, ok, more)
  BY <1>2, <1>3, <1>4, <1>5, <1>6, <1>7 DEF Prints
<1> QED
  BY <1>8

\* The buffer is full: it is written out with the character, or nothing is.
LEMMA PrintWrites ==
    ASSUME OutputTypes, NEW char \in Chars, NEW ok \in BOOLEAN,
           PrintChar(char, ok), ~bad, target.good, ~Fits(target, <<char>>)
    PROVE  \E stream : Prints(char, ok, stream)
<1>1. PICK more : more = [target EXCEPT !.buffer = Append(@, char)]
  OBVIOUS
<1>2. PICK out : out = FlushStream(more, disk, ok)
  OBVIOUS
<1>3. PICK failed : failed = [target EXCEPT !.good = FALSE]
  OBVIOUS
<1>4. SetTarget(IF ok THEN out.stream ELSE failed) /\ disk' = out.files /\ bad' = ~ok
  BY <1>1, <1>2, <1>3 DEF PrintChar
<1>5. /\ target \in OutputStream /\ disk \in Files /\ disk[target.path] \in Text
      /\ target.buffer \in Text
  BY TargetFacts DEF OutputTypes, OutputStream
<1>6. /\ more \in OutputStream /\ more.path = target.path
      /\ more.buffer = Append(target.buffer, char)
      /\ \A files : InPlace(target, files) => InPlace(more, files)
  BY <1>1, <1>5, MoreFacts
<1>7. FlushesTo(more, disk, ok, out)
  BY <1>2, <1>5, <1>6, FlushFacts
<1>8. Keeps(disk, disk', target.path)
  BY <1>4, <1>6, <1>7 DEF FlushesTo
<1>9. CASE ok
  <2>1. /\ out.stream \in OutputStream /\ out.stream.path = target.path
        /\ out.stream.good => out.stream.buffer = <<>>
    BY <1>6, <1>7 DEF FlushesTo
  <2>2. ASSUME InOrder(target), out.stream.good
        PROVE  disk'[target.path] = disk[target.path] \o Append(target.buffer, char)
               /\ InPlace(out.stream, disk')
    <3>1. InPlace(more, disk)
      BY <1>6, <2>2 DEF InOrder, InOrderIn
    <3> QED
      BY <1>4, <1>6, <1>7, <2>2, <3>1 DEF FlushesTo
  <2>3. disk[target.path] \o Append(target.buffer, char)
          = Append(disk[target.path] \o target.buffer, char)
    BY <1>5, AppendText
  <2>4. disk'[target.path] \o <<>> = disk'[target.path]
    BY <1>5, <1>8, TargetFacts, TextFacts DEF Keeps
  <2>5. SetTarget(out.stream) /\ bad' = FALSE
    BY <1>4, <1>9
  <2>6. Prints(char, ok, out.stream)
    BY <1>8, <2>1, <2>2, <2>3, <2>4, <2>5 DEF Prints
  <2> QED
    BY <2>6
<1>10. CASE ~ok
  <2>1. /\ failed \in OutputStream /\ failed.path = target.path /\ ~failed.good
    BY <1>3, <1>5 DEF OutputStream
  <2>2. SetTarget(failed) /\ bad' = TRUE
    BY <1>4, <1>10
  <2>3. Prints(char, ok, failed)
    BY <1>8, <2>1, <2>2 DEF Prints
  <2> QED
    BY <2>3
<1> QED
  BY <1>9, <1>10

\* print keeps the streams in order.
LEMMA PrintKeeps ==
    ASSUME OutputTypes, StreamsInOrder, NEW char \in Chars, NEW ok \in BOOLEAN,
           PrintChar(char, ok)
    PROVE  OutputsKept
<1>1. CASE bad \/ ~target.good
  BY <1>1, PrintLost
<1>2. CASE ~bad /\ target.good
  <2>1. PICK stream : Prints(char, ok, stream)
    BY <1>2, PrintBuffers, PrintWrites
  <2>2. /\ call = None /\ leftover' = leftover
        /\ expected' = [expected EXCEPT ![target.path] = Append(@, char)]
    BY DEF PrintChar
  <2>3. /\ target \in OutputStream /\ target.path \in Places
        /\ expected \in Files /\ expected[target.path] \in Text
    BY TargetFacts DEF OutputTypes
  <2>4. PICK text \in Text : text = Append(expected[target.path], char)
    BY <2>3, AppendText
  <2>5. /\ expected' \in Files /\ expected'[target.path] = text
        /\ \A q \in Places : q # target.path => expected'[q] = expected[q]
    BY <2>2, <2>3, <2>4 DEF Files, Places
  <2>6. /\ stream \in OutputStream /\ stream.path = target.path
        /\ SetTarget(stream) /\ Keeps(disk, disk', target.path)
        /\ bad' \in BOOLEAN /\ (bad' => ~stream.good)
    BY <2>1 DEF Prints
  <2>7. ASSUME InOrder(target), stream.good
        PROVE  /\ expected'[stream.path] = disk'[stream.path] \o stream.buffer
               /\ InPlace(stream, disk')
    <3>1. expected[target.path] = disk[target.path] \o target.buffer
      BY <1>2, <2>7 DEF InOrder, InOrderIn
    <3>2. /\ disk'[target.path] \o stream.buffer
               = Append(disk[target.path] \o target.buffer, char)
          /\ InPlace(stream, disk')
      BY <2>1, <2>7 DEF Prints
    <3> QED
      BY <2>4, <2>5, <2>6, <3>1, <3>2
  <2> QED
    BY <2>2, <2>5, <2>6, <2>7, NoneAssumption, TargetStep
<1> QED
  BY <1>1, <1>2

\* The destructor lets the output go: what it says it has written is there.
LEMMA DestroyKeeps ==
    ASSUME OutputTypes, StreamsInOrder, NEW ok \in BOOLEAN, destroy(ok)
    PROVE  OutputsKept /\ FlushedIsWritten'
<1>1. PICK old : old = Detached(disk, ok)
  OBVIOUS
<1>2. /\ call # "destroyed" /\ call' = "destroyed"
      /\ disk' = old.files /\ standard_output' = old.standard
      /\ result' = IF ok /\ ~bad /\ target.good THEN "flushed" ELSE "other"
      /\ output_file' = output_file /\ bad' = bad /\ expected' = expected
      /\ leftover' = leftover
  BY <1>1, NoneAssumption DEF destroy, Reports
<1>3. disk \in Files /\ disk[target.path] \in Text
  BY TargetFacts DEF OutputTypes
<1>4. /\ Keeps(disk, old.files, target.path)
      /\ old.standard \in OutputStream /\ old.standard.path = Standard
      /\ old.files[Standard] \in Text
  BY <1>1, <1>2, <1>3, DetachKeeps
<1>5. TextsKept /\ disk' \in Files
  BY <1>2, <1>4 DEF Keeps, TextsKept
<1>6. OutputTypes'
  BY <1>2, <1>4, <1>5 DEF OutputTypes, TextsKept, Places
<1>7. StreamsInOrder'
  BY <1>2 DEF StreamsInOrder
<1>8. target'.path = target.path
  BY <1>2, <1>4 DEF target, OutputTypes
<1>9. ASSUME result' = "flushed", ~leftover'
      PROVE  disk'[target'.path] = expected'[target'.path]
  <2>1. ok /\ ~bad /\ target.good
    BY <1>2, <1>9
  <2>2. InOrder(standard_output) /\ InOrder(target)
    BY <1>2, <1>9 DEF StreamsInOrder, target
  <2>3. DetachesTo(disk, ok, Detached(disk, ok))
    BY <1>3, <2>1, <2>2, DetachFacts
  <2>4. old.files[target.path] = expected[target.path]
    BY <1>1, <2>1, <2>2, <2>3 DEF DetachesTo
  <2> QED
    BY <1>2, <1>8, <2>4
<1> QED
  BY <1>5, <1>6, <1>7, <1>9 DEF OutputsKept, FlushedIsWritten

-----------------------------------------------------------------------------
(* The steps on the input *)

\* A part of a text is a text.
LEMMA PartOfText ==
    ASSUME NEW text \in Text, NEW m \in Nat \ {0}
    PROVE  SubSeq(text, m, Len(text)) \in Text
<1>1. \A i \in m..Len(text) : text[i] \in Chars
  BY DEF Text
<1>2. m \in Int /\ Len(text) \in Int
  BY TextFacts
<1>3. SubSeq(text, m, Len(text)) \in Seq(Chars)
  BY <1>1, <1>2, SubSeqProperties
<1> QED
  BY <1>3 DEF Text

\* A text that has a newline is a line and what comes after it.
LEMMA LineSplits ==
    ASSUME NEW text \in Text, HasLine(text)
    PROVE  LET n == EndOfLine(text)
           IN /\ n \in 1..Len(text) /\ text[n] = NL
              /\ SubSeq(text, 1, n) \in Text /\ SubSeq(text, n + 1, Len(text)) \in Text
              /\ SubSeq(text, 1, n) \o SubSeq(text, n + 1, Len(text)) = text
<1>1. PICK N : N = {i \in DOMAIN text : text[i] = NL}
  OBVIOUS
<1>2. DOMAIN text = 1..Len(text) /\ Len(text) \in Nat
  BY LenProperties DEF Text
<1>3. N \in SUBSET Nat /\ N # {}
  BY <1>1, <1>2 DEF HasLine, ToSet
<1>4. PICK n : n = Min(N)
  OBVIOUS
<1>5. n \in N
  BY <1>3, <1>4, LeastExists
<1>6. EndOfLine(text) = n
  BY <1>1, <1>4 DEF EndOfLine
<1>7. n \in 1..Len(text) /\ text[n] = NL
  BY <1>1, <1>2, <1>5
<1>8. \A i \in 1..n : text[i] \in Chars
  BY <1>7 DEF Text
<1>9. SubSeq(text, 1, n) \in Seq(Chars)
  BY <1>7, <1>8, SubSeqProperties
<1>10. SubSeq(text, n + 1, Len(text)) \in Text
  BY <1>7, PartOfText
<1>11. SubSeq(text, 1, n) \o SubSeq(text, n + 1, Len(text)) = SubSeq(text, 1, Len(text))
  <2>1. text \in Seq(Chars) /\ 1 \in 1..(Len(text) + 1) /\ n \in (1 - 1)..Len(text)
        /\ Len(text) \in n..Len(text)
    BY <1>2, <1>7 DEF Text
  <2> QED
    BY <2>1, ConcatAdjacentSubSeq
<1>12. SubSeq(text, 1, Len(text)) = text
  <2>1. SubSeq(text, 1, Len(text)) \in Text
    BY PartOfText
  <2>2. /\ Len(SubSeq(text, 1, Len(text))) = Len(text)
        /\ \A i \in 1..Len(text) : SubSeq(text, 1, Len(text))[i] = text[i]
    <3>1. \A i \in 1..Len(text) : text[i] \in Chars
      BY DEF Text
    <3>2. /\ Len(SubSeq(text, 1, Len(text))) = IF 1 <= Len(text) THEN Len(text) - 1 + 1 ELSE 0
          /\ \A i \in 1..(Len(text) - 1 + 1) : SubSeq(text, 1, Len(text))[i] = text[1 + i - 1]
      BY <1>2, <3>1, SubSeqProperties
    <3> QED
      BY <1>2, <3>2
  <2> QED
    BY <2>1, <2>2, SeqEqual DEF Text
<1> QED
  BY <1>6, <1>7, <1>9, <1>10, <1>11, <1>12 DEF Text

\* What the steps on the input keep.
InputsKept == InputTypes' /\ ReadsReport' /\ StandardLinesInOrder'

\* A step that leaves the input alone but for what it returns.
LEMMA InputStays ==
    ASSUME InputTypes, StandardLinesInOrder, TextsKept,
           UNCHANGED <<input_file, standard_input, pipe, ended, sent, taken>>,
           call' \in {None, "reading", "failed", "destroyed"},
           result' \in {"other", "flushed", "switched", "wait", "refused"}, ReadsReport'
    PROVE  InputsKept
<1>1. input_file' # None => disk'[input_file'.path] \in Text
  <2> SUFFICES ASSUME input_file # None
               PROVE  disk'[input_file.path] \in Text
    OBVIOUS
  <2>1. input_file.path \in Places /\ disk[input_file.path] \in Text
    BY DEF InputTypes, FileInput, Places
  <2> QED
    BY <2>1 DEF TextsKept
<1>2. InputTypes'
  BY <1>1 DEF InputTypes
<1> QED
  BY <1>2 DEF InputsKept, StandardLinesInOrder

\* A step that keeps the input's streams, and does not start to read.
LEMMA InputLeft ==
    ASSUME InputTypes, StandardLinesInOrder, TextsKept,
           UNCHANGED <<input_file, standard_input, outside, taken>>,
           call' \in {None, "failed", "destroyed"},
           result' \in {"other", "flushed", "switched", "wait", "refused"}
    PROVE  InputsKept
<1>1. ReadsReport'
  BY NoneAssumption DEF ReadsReport
<1> QED
  BY <1>1, InputStays DEF outside

\* A switch of the input: the file is there, and the standard input keeps what
\* it has read.
LEMMA AttachInputKeeps ==
    ASSUME OutputTypes, InputTypes, StandardLinesInOrder, TextsKept,
           NEW path \in Places, NEW opens \in BOOLEAN, CanOpenInput(path, opens),
           AttachInput(path), UNCHANGED <<outside, taken>>,
           call' = None, result' \in {"other", "switched"}
    PROVE  InputsKept
<1>1. /\ standard_input'.buffer = standard_input.buffer
      /\ standard_input' \in [buffer : Text, eof : BOOLEAN]
  BY DEF AttachInput, InputTypes
<1>2. pipe' = pipe /\ ended' = ended /\ sent' = sent /\ taken' = taken
  BY DEF outside
<1>3. ReadsReport' /\ call' \in {None, "reading", "failed", "destroyed"}
      /\ result' \in {"other", "flushed", "switched", "wait", "refused"}
  BY NoneAssumption DEF ReadsReport
<1>4. input_file' \in FileInput \cup {None} /\ (input_file' # None => disk'[input_file'.path] \in Text)
  <2>1. CASE path = Standard
    BY <2>1 DEF AttachInput
  <2>2. CASE path # Standard
    <3>1. path \in Paths /\ disk[path] \in Text
      BY <2>2 DEF CanOpenInput, OutputTypes, Files, Places
    <3>2. PICK file : file = InputStream(path)
      OBVIOUS
    <3>3. file \in FileInput /\ file.path = path
      BY <3>1, <3>2, TextFacts DEF InputStream, FileInput
    <3>4. input_file' = file
      BY <2>2, <3>2 DEF AttachInput
    <3>5. disk'[path] \in Text
      BY <3>1 DEF TextsKept
    <3> QED
      BY <3>3, <3>4, <3>5
  <2> QED
    BY <2>1, <2>2
<1>5. InputTypes'
  BY <1>1, <1>2, <1>3, <1>4 DEF InputTypes
<1>6. StandardLinesInOrder'
  BY <1>1, <1>2 DEF StandardLinesInOrder
<1> QED
  BY <1>3, <1>5, <1>6 DEF InputsKept

\* A line of a file.
LEMMA ReadFileKeeps ==
    ASSUME InputTypes, StandardLinesInOrder, input_file # None, call = None,
           ReadFile, disk' = disk
    PROVE  InputsKept
<1>1. input_file \in FileInput /\ disk[input_file.path] \in Text
  BY DEF InputTypes
<1>2. PICK rest : rest = SubSeq(disk[input_file.path], input_file.position + 1, Len(disk[input_file.path]))
  OBVIOUS
<1>3. PICK text : text = IF HasLine(input_file.buffer) THEN input_file.buffer
                         ELSE input_file.buffer \o rest
  OBVIOUS
<1>4. PICK read : read = input_file.position + Len(text) - Len(input_file.buffer)
  OBVIOUS
<1>5. PICK n : n = EndOfLine(text)
  OBVIOUS
<1>6. input_file.position \in Nat /\ input_file.buffer \in Text /\ input_file.path \in Paths
  BY <1>1 DEF FileInput
<1>7. rest \in Text
  <2>1. PICK whole \in Text : whole = disk[input_file.path]
    BY <1>1
  <2>2. PICK m \in Nat \ {0} : m = input_file.position + 1
    BY <1>6
  <2> QED
    BY <1>2, <2>1, <2>2, PartOfText
<1>8. text \in Text /\ Len(text) >= Len(input_file.buffer)
  BY <1>3, <1>6, <1>7, TextFacts
<1>9. read \in Nat
  BY <1>4, <1>6, <1>8, TextFacts
<1>10. HasLine(text) => SubSeq(text, n + 1, Len(text)) \in Text
  BY <1>5, <1>8, LineSplits
<1>11. \/ input_file' = [input_file EXCEPT !.eof = TRUE]
       \/ /\ HasLine(text)
          /\ input_file' = [input_file EXCEPT !.buffer = SubSeq(text, n + 1, Len(text)), !.position = read]
       \/ input_file' = [input_file EXCEPT !.buffer = <<>>, !.position = read, !.eof = TRUE]
  BY <1>2, <1>3, <1>4, <1>5 DEF ReadFile
<1>12. input_file' \in FileInput /\ input_file'.path = input_file.path
  <2>1. CASE input_file' = [input_file EXCEPT !.eof = TRUE]
    BY <1>1, <2>1 DEF FileInput
  <2>2. CASE /\ HasLine(text)
             /\ input_file' = [input_file EXCEPT !.buffer = SubSeq(text, n + 1, Len(text)), !.position = read]
    <3>1. PICK left \in Text : left = SubSeq(text, n + 1, Len(text))
      BY <1>10, <2>2
    <3>2. input_file' = [input_file EXCEPT !.buffer = left, !.position = read]
      BY <2>2, <3>1
    <3> QED
      BY <1>1, <1>9, <3>2 DEF FileInput
  <2>3. CASE input_file' = [input_file EXCEPT !.buffer = <<>>, !.position = read, !.eof = TRUE]
    BY <1>1, <1>9, <2>3, TextFacts DEF FileInput
  <2> QED
    BY <1>11, <2>1, <2>2, <2>3
<1>13. /\ result' = "other" /\ standard_input' = standard_input /\ call' = None /\ pipe' = pipe
       /\ ended' = ended /\ sent' = sent /\ taken' = taken
  BY DEF ReadFile, Reports, outside
<1>14. InputTypes'
  BY <1>1, <1>12, <1>13 DEF InputTypes
<1> QED
  BY <1>13, <1>14 DEF InputsKept, ReadsReport, StandardLinesInOrder

\* A read of the standard input starts, or a line of a file is read.
LEMMA ReadLineKeeps ==
    ASSUME InputTypes, StandardLinesInOrder, read_line
    PROVE  InputsKept /\ result' = "other" /\ UNCHANGED <<outputs, expected, leftover>>
           /\ call # "destroyed"
<1>1. call = None /\ UNCHANGED <<outputs, expected, leftover>> /\ disk' = disk
  BY DEF read_line, outputs
<1>2. TextsKept
  BY <1>1 DEF TextsKept
<1>3. CASE input_file # None
  <2>1. ReadFile
    BY <1>3 DEF read_line
  <2>2. result' = "other"
    BY <2>1 DEF ReadFile, Reports
  <2> QED
    BY <1>1, <1>3, <2>1, <2>2, ReadFileKeeps, NoneAssumption
<1>4. CASE input_file = None
  <2>1. /\ call' = "reading" /\ result' = "other"
        /\ UNCHANGED <<input_file, standard_input, outside, taken>>
    BY <1>4 DEF read_line, Reports
  <2>2. InputsKept
    BY <1>2, <2>1, InputStays DEF ReadsReport, outside
  <2> QED
    BY <1>1, <2>1, <2>2, NoneAssumption
<1> QED
  BY <1>3, <1>4

\* A line that is returned is no longer in the buffer.
LEMMA ReturnLineKeeps ==
    ASSUME InputTypes, StandardLinesInOrder, ReturnLine
    PROVE  InputsKept /\ result' = "other" /\ UNCHANGED <<outputs, expected, leftover>>
           /\ call # "destroyed"
<1>1. PICK b : b = standard_input.buffer
  OBVIOUS
<1>2. PICK line : line = SubSeq(b, 1, EndOfLine(b))
  OBVIOUS
<1>3. PICK rest : rest = SubSeq(b, EndOfLine(b) + 1, Len(b))
  OBVIOUS
<1>4. /\ call = "reading" /\ HasLine(b) /\ GetLine(line, rest)
      /\ UNCHANGED <<outputs, input_file, ended, sent, expected, leftover>>
  BY <1>1, <1>2, <1>3 DEF ReturnLine
<1>5. b \in Text /\ taken \in Text /\ pipe \in Text /\ standard_input.eof \in BOOLEAN
  BY <1>1 DEF InputTypes
<1>6. line \in Text /\ rest \in Text /\ line \o rest = b
  BY <1>2, <1>3, <1>4, <1>5, LineSplits
<1>7. /\ taken' = taken \o line /\ call' = None /\ result' = "other" /\ pipe' = pipe
      /\ standard_input' = [buffer |-> rest, eof |-> standard_input.eof]
      /\ input_file' = input_file /\ ended' = ended /\ sent' = sent /\ disk' = disk
  BY <1>4 DEF GetLine, Reports, outputs
<1>8. /\ taken' \in Text /\ standard_input' \in [buffer : Text, eof : BOOLEAN]
      /\ standard_input'.buffer = rest
  BY <1>5, <1>6, <1>7, TextFacts
<1>9. InputTypes'
  BY <1>7, <1>8 DEF InputTypes
<1>10. StandardLinesInOrder'
  <2>1. sent = taken \o b \o pipe
    BY <1>1 DEF StandardLinesInOrder
  <2>2. (taken \o line) \o rest = taken \o b
    <3>1. \A t, u, v \in Text : (t \o u) \o v = t \o (u \o v)
      BY TextFacts
    <3> QED
      BY <1>5, <1>6, <3>1
  <2> QED
    BY <1>7, <1>8, <2>1, <2>2 DEF StandardLinesInOrder
<1> QED
  BY <1>4, <1>7, <1>9, <1>10, NoneAssumption DEF InputsKept, ReadsReport

\* What was in the pipe is in the buffer, after what was there.
LEMMA UnderflowKeeps ==
    ASSUME InputTypes, StandardLinesInOrder, ReadsReport, Underflow
    PROVE  /\ InputsKept /\ result' = result /\ UNCHANGED <<outputs, expected, leftover>>
           /\ call # "destroyed" /\ result = "other"
<1>1. /\ call = "reading" /\ pipe' = <<>>
      /\ standard_input' = [standard_input EXCEPT !.buffer = @ \o pipe]
      /\ UNCHANGED <<outputs, input_file, call, ended, sent, result, expected, leftover, taken>>
  BY DEF Underflow
<1>2. /\ standard_input.buffer \in Text /\ pipe \in Text /\ taken \in Text
      /\ standard_input \in [buffer : Text, eof : BOOLEAN]
  BY DEF InputTypes
<1>3. PICK b \in Text : b = standard_input.buffer \o pipe
  BY <1>2, TextFacts
<1>4. /\ standard_input' \in [buffer : Text, eof : BOOLEAN] /\ standard_input'.buffer = b
      /\ pipe' \in Text
  BY <1>1, <1>2, <1>3, TextFacts
<1>5. InputTypes'
  BY <1>1, <1>4 DEF InputTypes, outputs
<1>6. StandardLinesInOrder'
  <2>1. sent = (taken \o standard_input.buffer) \o pipe
    BY DEF StandardLinesInOrder
  <2>2. (taken \o standard_input.buffer) \o pipe = taken \o b
    BY <1>2, <1>3, TextFacts
  <2>3. taken \o b \in Text
    BY <1>2, TextFacts
  <2>4. (taken \o b) \o <<>> = taken \o b
    BY <2>3, TextFacts
  <2> QED
    BY <1>1, <1>4, <2>1, <2>2, <2>4 DEF StandardLinesInOrder
<1>7. result = "other"
  BY <1>1 DEF ReadsReport
<1> QED
  BY <1>1, <1>5, <1>6, <1>7 DEF InputsKept, ReadsReport

\* The last line is all that was left.
LEMMA ReturnLastKeeps ==
    ASSUME InputTypes, StandardLinesInOrder, ReturnLast
    PROVE  InputsKept /\ result' = "other" /\ UNCHANGED <<outputs, expected, leftover>>
           /\ call # "destroyed"
<1>1. PICK b : b = standard_input.buffer
  OBVIOUS
<1>2. /\ call = "reading" /\ call' = None /\ result' = "other"
      /\ UNCHANGED <<outputs, input_file, outside, expected, leftover>> /\ disk' = disk
  BY DEF ReturnLast, Reports, outputs
<1>3. TextsKept
  BY <1>2 DEF TextsKept
<1>4. CASE standard_input.eof
  <2>1. UNCHANGED <<standard_input, taken>>
    BY <1>4 DEF ReturnLast
  <2>2. InputsKept
    BY <1>2, <1>3, <2>1, InputLeft
  <2> QED
    BY <1>2, <2>2
<1>5. CASE ~standard_input.eof
  <2>1. /\ standard_input' = [buffer |-> <<>>, eof |-> TRUE] /\ taken' = taken \o b
        /\ pipe = <<>> /\ pipe' = <<>> /\ ended' = ended /\ sent' = sent
    BY <1>1, <1>2, <1>5 DEF ReturnLast, outside
  <2>2. b \in Text /\ taken \in Text
    BY <1>1 DEF InputTypes
  <2>3. /\ taken' \in Text /\ standard_input' \in [buffer : Text, eof : BOOLEAN]
        /\ standard_input'.buffer = <<>>
    BY <2>1, <2>2, TextFacts
  <2>4. InputTypes'
    BY <1>2, <2>1, <2>3, TextFacts DEF InputTypes
  <2>5. StandardLinesInOrder'
    <3>1. sent = taken \o b \o <<>>
      BY <1>1, <2>1 DEF StandardLinesInOrder
    <3>2. taken \o b \in Text
      BY <2>2, TextFacts
    <3>3. (taken \o b) \o <<>> = taken \o b
      BY <3>2, TextFacts
    <3> QED
      BY <2>1, <2>3, <3>1, <3>3 DEF StandardLinesInOrder
  <2> QED
    BY <1>2, <2>4, <2>5, NoneAssumption DEF InputsKept, ReadsReport
<1> QED
  BY <1>2, <1>4, <1>5

\* What is sent goes to the end of the pipe.
LEMMA SendsKeeps ==
    ASSUME InputTypes, StandardLinesInOrder, ReadsReport, NEW char \in Chars, Sends(char)
    PROVE  InputsKept
<1>1. /\ pipe' = Append(pipe, char) /\ sent' = Append(sent, char)
      /\ disk' = disk /\ input_file' = input_file /\ standard_input' = standard_input
      /\ call' = call /\ ended' = ended /\ result' = result /\ taken' = taken
  BY DEF Sends, outputs, inputs
<1>2. standard_input.buffer \in Text /\ pipe \in Text /\ taken \in Text /\ sent \in Text
  BY DEF InputTypes
<1>3. PICK a \in Text : a = taken \o standard_input.buffer
  BY <1>2, TextFacts
<1>4. pipe' \in Text /\ sent' \in Text /\ a \o Append(pipe, char) = Append(a \o pipe, char)
  BY <1>1, <1>2, AppendText
<1>5. InputTypes'
  BY <1>1, <1>4 DEF InputTypes
<1>6. sent = a \o pipe
  BY <1>3 DEF StandardLinesInOrder
<1>7. StandardLinesInOrder'
  BY <1>1, <1>3, <1>4, <1>6 DEF StandardLinesInOrder
<1> QED
  BY <1>1, <1>5, <1>7 DEF InputsKept, ReadsReport

-----------------------------------------------------------------------------
(* All steps *)

\* At first nothing has been printed or sent.
LEMMA InitInductive ==
    ASSUME Init
    PROVE  Inductive
<1>1. <<>> \in Text /\ <<NL>> \in Text
  <2>1. NL \in Chars /\ <<>> \in Seq(Chars)
    BY DEF Chars
  <2>2. <<NL>> \in Seq(Chars)
    BY <2>1
  <2> QED
    BY <2>1, <2>2 DEF Text
<1>2. disk \in Files /\ disk[Standard] = <<>>
  BY <1>1 DEF Init, Files
<1>3. /\ standard_output \in OutputStream /\ standard_output.path = Standard
      /\ standard_output.position = 0 /\ standard_output.buffer = <<>>
      /\ standard_output.good
  BY StreamFacts DEF Init, Places
<1>4. /\ output_file = None /\ bad = FALSE /\ input_file = None
       /\ standard_input = [buffer |-> <<>>, eof |-> FALSE]
       /\ pipe = <<>> /\ ended = FALSE /\ sent = <<>> /\ taken = <<>>
       /\ call = None /\ result = "other" /\ expected = disk /\ leftover = FALSE
  BY DEF Init
<1>5. OutputTypes
  BY <1>1, <1>2, <1>3, <1>4 DEF OutputTypes
<1>6. InputTypes
  BY <1>1, <1>4 DEF InputTypes
<1>7. <<>> \o <<>> = <<>> /\ Len(<<>>) = 0
  BY TextFacts
<1>8. InOrder(standard_output)
  BY <1>2, <1>3, <1>4, <1>7 DEF InOrder, InOrderIn, InPlace
<1>9. StreamsInOrder
  BY <1>4, <1>8 DEF StreamsInOrder
<1>10. ReadsReport /\ FlushedIsWritten
  BY <1>4 DEF ReadsReport, FlushedIsWritten
<1>11. StandardLinesInOrder
  BY <1>4, <1>7 DEF StandardLinesInOrder
<1> QED
  BY <1>5, <1>6, <1>9, <1>10, <1>11 DEF Inductive

\* A step of both sides that is not a successful flush.
LEMMA BothKept ==
    ASSUME OutputsKept, InputsKept, result' # "flushed"
    PROVE  Inductive'
BY DEF OutputsKept, InputsKept, Inductive, FlushedIsWritten

\* A step of the input's side alone.
LEMMA InputStep ==
    ASSUME Inductive, InputsKept, UNCHANGED <<outputs, expected, leftover>>,
           call # "destroyed" \/ call' = "destroyed",
           result' = result \/ result' # "flushed"
    PROVE  Inductive'
<1>1. OutputsKept
  BY OutputStays DEF Inductive
<1>2. FlushedIsWritten'
  BY DEF Inductive, FlushedIsWritten, outputs, target
<1> QED
  BY <1>1, <1>2 DEF OutputsKept, InputsKept, Inductive

\* set_input keeps the invariant.
LEMMA SetInputStep ==
    ASSUME Inductive, NEW path \in Places, NEW opens \in BOOLEAN, set_input(path, opens)
    PROVE  Inductive'
<1>1. OutputTypes /\ InputTypes /\ StandardLinesInOrder /\ StreamsInOrder
  BY DEF Inductive
<1>2. /\ call = None /\ result' = "other" /\ UNCHANGED <<outputs, expected, leftover>>
      /\ UNCHANGED <<outside, taken>> /\ disk' = disk
  BY DEF set_input, Reports, outputs
<1>3. TextsKept
  BY <1>2 DEF TextsKept
<1>4. CASE CanOpenInput(path, opens)
  <2>1. AttachInput(path) /\ call' = None
    BY <1>4 DEF set_input, Throws
  <2>2. InputsKept
    BY <1>1, <1>2, <1>3, <1>4, <2>1, AttachInputKeeps
  <2> QED
    BY <1>2, <2>2, NoneAssumption, InputStep
<1>5. CASE ~CanOpenInput(path, opens)
  <2>1. UNCHANGED <<input_file, standard_input>> /\ call' = "failed"
    BY <1>5 DEF set_input, Throws
  <2>2. InputsKept
    BY <1>1, <1>2, <1>3, <2>1, InputLeft
  <2> QED
    BY <1>2, <2>2, NoneAssumption, InputStep
<1> QED
  BY <1>4, <1>5

\* set_output keeps the invariant.
LEMMA SetOutputStep ==
    ASSUME Inductive, NEW path \in Places, NEW mode \in Modes,
           NEW opens \in BOOLEAN, NEW ok \in BOOLEAN, set_output(path, mode, opens, ok)
    PROVE  Inductive'
<1>1. OutputTypes /\ InputTypes /\ StandardLinesInOrder /\ StreamsInOrder
  BY DEF Inductive
<1>2. OutputsKept
  BY <1>1, SetOutputKeeps
<1>3. /\ result' \in {"other", "switched"} /\ call' \in {"failed", None}
      /\ UNCHANGED <<input_file, standard_input, outside, taken>>
  BY DEF set_output, Reports, Switched, Throws
<1>4. InputsKept
  BY <1>1, <1>2, <1>3, InputLeft DEF OutputsKept
<1> QED
  BY <1>2, <1>3, <1>4, BothKept

\* set_streams keeps the invariant.
LEMMA SetStreamsStep ==
    ASSUME Inductive, NEW input \in Places, NEW path \in Places, NEW mode \in Modes,
           NEW reads \in BOOLEAN, NEW opens \in BOOLEAN, NEW ok \in BOOLEAN,
           set_streams(input, path, mode, reads, opens, ok)
    PROVE  Inductive'
<1>1. OutputTypes /\ InputTypes /\ StandardLinesInOrder /\ StreamsInOrder
  BY DEF Inductive
<1>2. call = None /\ UNCHANGED <<outside, taken>>
  BY DEF set_streams, Replace
<1>3. PICK now : now = OpenedFiles(input, path, mode, reads, opens)
  OBVIOUS
<1>4. CASE now.opened
  <2>1. OutputsKept
    BY <1>1, <1>3, <1>4, SetStreamsKeeps
  <2>2. AttachInput(input) /\ result' \in {"other", "switched"} /\ call' = None
    BY <1>3, <1>4 DEF set_streams, Replace, OpenedFiles, Reports, Switched, Throws
  <2>3. CanOpenInput(input, reads)
    BY <1>3, <1>4, OpenedFilesFacts
  <2>4. InputsKept
    BY <1>1, <1>2, <2>1, <2>2, <2>3, AttachInputKeeps DEF OutputsKept
  <2> QED
    BY <2>1, <2>2, <2>4, BothKept
<1>5. CASE ~now.opened
  <2>1. /\ UNCHANGED <<outputs, input_file, standard_input, expected, leftover>>
        /\ result' = "refused" /\ call' = "failed" /\ disk' = disk
    BY <1>3, <1>5, RefusedLeaves
  <2>2. TextsKept
    BY <2>1 DEF TextsKept
  <2>3. InputsKept
    BY <1>1, <1>2, <2>1, <2>2, InputLeft
  <2> QED
    BY <1>2, <2>1, <2>3, NoneAssumption, InputStep
<1> QED
  BY <1>4, <1>5

\* print, flush and the destructor keep the invariant.
LEMMA WriteStep ==
    ASSUME Inductive, Write
    PROVE  Inductive'
<1>1. OutputTypes /\ InputTypes /\ StandardLinesInOrder /\ StreamsInOrder
  BY DEF Inductive
<1>2. ASSUME NEW ok \in BOOLEAN, flush(ok)
      PROVE  Inductive'
  <2>1. OutputsKept /\ FlushedIsWritten'
    BY <1>1, <1>2, FlushKeeps
  <2>2. /\ result' \in {"other", "flushed"} /\ call' \in {"failed", None}
        /\ UNCHANGED <<input_file, standard_input, outside, taken>>
    BY <1>2 DEF flush, Reports, Throws
  <2>3. InputsKept
    BY <1>1, <2>1, <2>2, InputLeft DEF OutputsKept
  <2> QED
    BY <2>1, <2>3 DEF OutputsKept, InputsKept, Inductive
<1>3. ASSUME NEW ok \in BOOLEAN, destroy(ok)
      PROVE  Inductive'
  <2>1. OutputsKept /\ FlushedIsWritten'
    BY <1>1, <1>3, DestroyKeeps
  <2>2. /\ result' \in {"other", "flushed"} /\ call' = "destroyed"
        /\ UNCHANGED <<input_file, standard_input, outside, taken>>
    BY <1>3 DEF destroy, Reports
  <2>3. InputsKept
    BY <1>1, <2>1, <2>2, InputLeft DEF OutputsKept
  <2> QED
    BY <2>1, <2>3 DEF OutputsKept, InputsKept, Inductive
<1>4. ASSUME NEW ok \in BOOLEAN, PrintChar(Letter, ok)
      PROVE  Inductive'
  <2>1. OutputsKept
    BY <1>1, <1>4, PrintKeeps DEF Chars
  <2>2. /\ result' = "other" /\ call = None /\ UNCHANGED <<inputs, outside, taken>>
    BY <1>4 DEF PrintChar, Reports
  <2>3. call' = None /\ UNCHANGED <<input_file, standard_input, outside, taken>>
    BY <2>2 DEF inputs
  <2>4. InputsKept
    BY <1>1, <2>1, <2>2, <2>3, InputLeft DEF OutputsKept
  <2> QED
    BY <2>1, <2>2, <2>4, BothKept
<1> QED
  BY <1>2, <1>3, <1>4 DEF Write

\* So do the steps of a read.
LEMMA ReadStep ==
    ASSUME Inductive, Read
    PROVE  Inductive'
<1>1. InputTypes /\ StandardLinesInOrder /\ ReadsReport
  BY DEF Inductive
<1>2. ASSUME read_line
      PROVE  Inductive'
  BY <1>1, <1>2, ReadLineKeeps, InputStep
<1>3. ASSUME poll_line
      PROVE  Inductive'
  BY <1>2, <1>3 DEF poll_line
<1>4. ASSUME PollTimesOut
      PROVE  Inductive'
  <2>1. /\ call = None /\ result' = "wait" /\ disk' = disk /\ call' = None
        /\ UNCHANGED <<outputs, expected, leftover>>
        /\ UNCHANGED <<input_file, standard_input, outside, taken>>
    BY <1>4 DEF PollTimesOut, Reports, outputs, inputs
  <2>2. TextsKept
    BY <2>1 DEF TextsKept
  <2>3. InputsKept
    BY <1>1, <2>1, <2>2, InputLeft
  <2> QED
    BY <2>1, <2>3, NoneAssumption, InputStep
<1>5. ASSUME ReturnLine
      PROVE  Inductive'
  BY <1>1, <1>5, ReturnLineKeeps, InputStep
<1>6. ASSUME Underflow
      PROVE  Inductive'
  BY <1>1, <1>6, UnderflowKeeps, InputStep
<1>7. ASSUME ReturnLast
      PROVE  Inductive'
  BY <1>1, <1>7, ReturnLastKeeps, InputStep
<1> QED
  BY <1>2, <1>3, <1>4, <1>5, <1>6, <1>7 DEF Read

\* And the writer of the pipe.
LEMMA WriterStep ==
    ASSUME Inductive, Ends \/ \E char \in Chars : Sends(char)
    PROVE  Inductive'
<1>1. InputTypes /\ StandardLinesInOrder /\ ReadsReport
  BY DEF Inductive
<1>2. ASSUME NEW char \in Chars, Sends(char)
      PROVE  Inductive'
  <2>1. InputsKept
    BY <1>1, <1>2, SendsKeeps
  <2>2. UNCHANGED <<outputs, expected, leftover>> /\ call' = call /\ result' = result
    BY <1>2 DEF Sends, inputs
  <2> QED
    BY <2>1, <2>2, InputStep
<1>3. ASSUME Ends
      PROVE  Inductive'
  <2>1. UNCHANGED <<outputs, expected, leftover>> /\ call' = call /\ result' = result
    BY <1>3 DEF Ends, inputs
  <2>2. /\ input_file' = input_file /\ standard_input' = standard_input /\ pipe' = pipe
        /\ ended' = TRUE /\ sent' = sent /\ taken' = taken /\ disk' = disk
    BY <1>3 DEF Ends, inputs, outputs
  <2>3. InputsKept
    BY <1>1, <2>1, <2>2 DEF InputTypes, InputsKept, ReadsReport, StandardLinesInOrder
  <2> QED
    BY <2>1, <2>3, InputStep
<1> QED
  BY <1>2, <1>3

\* The invariant is inductive.
LEMMA NextInductive ==
    ASSUME Inductive, [Next]_vars
    PROVE  Inductive'
<1>1. ASSUME Switch
      PROVE  Inductive'
  <2>1. PICK path \in Places, opens \in BOOLEAN :
          \/ set_input(path, opens)
          \/ \E mode \in Modes, ok \in BOOLEAN :
               \/ set_output(path, mode, opens, ok)
               \/ \E input \in Places, reads \in BOOLEAN :
                    set_streams(input, path, mode, reads, opens, ok)
    BY <1>1 DEF Switch, Places
  <2>2. CASE set_input(path, opens)
    BY <2>2, SetInputStep
  <2>3. ASSUME NEW mode \in Modes, NEW ok \in BOOLEAN, set_output(path, mode, opens, ok)
        PROVE  Inductive'
    BY <2>3, SetOutputStep
  <2>4. ASSUME NEW mode \in Modes, NEW ok \in BOOLEAN, NEW input \in Places,
               NEW reads \in BOOLEAN, set_streams(input, path, mode, reads, opens, ok)
        PROVE  Inductive'
    BY <2>4, SetStreamsStep
  <2> QED
    BY <2>1, <2>2, <2>3, <2>4
<1>2. CASE UNCHANGED vars
  <2>1. /\ UNCHANGED <<outputs, expected, leftover>> /\ call' = call /\ result' = result
        /\ input_file' = input_file /\ standard_input' = standard_input /\ pipe' = pipe
        /\ ended' = ended /\ sent' = sent /\ taken' = taken /\ disk' = disk
    BY <1>2 DEF vars, outputs, inputs, outside
  <2>2. InputTypes /\ StandardLinesInOrder /\ ReadsReport
    BY DEF Inductive
  <2>3. InputsKept
    BY <2>1, <2>2 DEF InputTypes, InputsKept, ReadsReport, StandardLinesInOrder
  <2> QED
    BY <2>1, <2>3, InputStep
<1> QED
  BY <1>1, <1>2, WriteStep, ReadStep, WriterStep DEF Next

\* The I/O manager's types, the order of what its streams hold and of what the
\* standard input returns: the invariant that carries the theorems below.
THEOREM InductiveCorrect == Spec => []Inductive
<1>1. Init => Inductive
  BY InitInductive
<1>2. Inductive /\ [Next]_vars => Inductive'
  BY NextInductive
<1> QED
  BY <1>1, <1>2, PTL DEF Spec

\* After a flush that succeeded, and after an end of the program at which no
\* write failed, the file is what it should be.
THEOREM FlushCorrect == Spec => []FlushedIsWritten
<1>1. Inductive => FlushedIsWritten
  BY DEF Inductive
<1> QED
  BY <1>1, InductiveCorrect, PTL

\* What is sent to the standard input is returned once and in order, however
\* input is switched.
THEOREM StandardInputCorrect == Spec => []StandardLinesInOrder
<1>1. Inductive => StandardLinesInOrder
  BY DEF Inductive
<1> QED
  BY <1>1, InductiveCorrect, PTL

\* Where output goes to after a new target has been attached.
LEMMA AttachedTarget ==
    ASSUME NEW path \in Places, NEW mode \in Modes, NEW files, NEW standard,
           standard.path = Standard, Attach(path, mode, files, standard)
    PROVE  target'.path = path /\ disk' = files
<1>1. /\ disk' = files /\ standard_output' = standard
      /\ output_file' = IF path = Standard THEN None ELSE Stream(path, mode = "append")
  BY DEF Attach
<1>2. /\ Stream(path, mode = "append") # None
      /\ Stream(path, mode = "append").path = path
  BY StreamFacts
<1> QED
  BY <1>1, <1>2 DEF target

\* What a step promises of switches.
SwitchKeeps ==
    /\ result' = "refused" => UNCHANGED <<outputs, input_file, standard_input>>
    /\ result' = "switched" /\ target'.path # target.path /\ ~leftover
         => disk'[target.path] = expected[target.path]

\* ostream keeps the promise.
LEMMA OutputSwitched ==
    ASSUME Inductive, NEW path \in Places, NEW mode \in Modes, NEW opens \in BOOLEAN,
           NEW ok \in BOOLEAN, set_output(path, mode, opens, ok)
    PROVE  SwitchKeeps
<1>1. OutputTypes /\ StreamsInOrder /\ Standard \in Places
  BY DEF Inductive, Places
<1>2. PICK old : old = Detached(disk, ok)
  OBVIOUS
<1>3. PICK opened : opened = IF path = Standard THEN old.files
                             ELSE OpenedOutput(path, mode, old.files)
  OBVIOUS
<1>4. PICK fails \in BOOLEAN :
        fails = (path # Standard /\ ~CanOpenOutput(path, mode, old.files, opens))
  OBVIOUS
<1>5. /\ call # "destroyed" /\ result' = Switched(ok)
      /\ fails => Attach(Standard, mode, old.files, old.standard)
      /\ ~fails => Attach(path, mode, opened, old.standard)
  BY <1>2, <1>3, <1>4, NoneAssumption DEF set_output, Reports
<1>6. result' # "refused"
  BY <1>5 DEF Switched
<1>7. disk \in Files /\ disk[target.path] \in Text
  BY <1>1, TargetFacts DEF OutputTypes
<1>8. old.standard.path = Standard
  BY <1>1, <1>2, <1>5, <1>7, DetachKeeps
<1>9. ASSUME result' = "switched", target'.path # target.path, ~leftover
      PROVE  disk'[target.path] = expected[target.path]
  <2>1. CASE fails
    <3>1. disk' = old.files
      BY <1>5, <2>1 DEF Attach
    <3> QED
      BY <1>1, <1>2, <1>5, <1>7, <1>9, <3>1, OldIsWritten
  <2>2. CASE ~fails
    <3>1. target'.path = path /\ disk' = opened
      BY <1>5, <1>8, <2>2, AttachedTarget
    <3>2. disk' = old.files \/ (path # target.path /\ disk' = OpenedOutput(path, mode, old.files))
      BY <1>3, <1>9, <3>1
    <3> QED
      BY <1>1, <1>2, <1>5, <1>7, <1>9, <3>2, OldIsWritten
  <2> QED
    BY <2>1, <2>2
<1> QED
  BY <1>6, <1>9 DEF SwitchKeeps

\* So does iostream, refused or not.
LEMMA StreamsSwitched ==
    ASSUME Inductive, NEW input \in Places, NEW path \in Places, NEW mode \in Modes,
           NEW reads \in BOOLEAN, NEW opens \in BOOLEAN, NEW ok \in BOOLEAN,
           set_streams(input, path, mode, reads, opens, ok)
    PROVE  SwitchKeeps
<1>1. OutputTypes /\ StreamsInOrder /\ Standard \in Places
  BY DEF Inductive, Places
<1>2. PICK now : now = OpenedFiles(input, path, mode, reads, opens)
  OBVIOUS
<1>3. CASE ~now.opened
  BY <1>2, <1>3, RefusedLeaves DEF SwitchKeeps
<1>4. CASE now.opened
  <2>1. PICK old : old = Detached(now.files, ok)
    OBVIOUS
  <2>2. /\ call # "destroyed" /\ result' = Switched(ok)
        /\ Attach(path, mode, old.files, old.standard)
    BY <1>2, <1>4, <2>1, NoneAssumption DEF set_streams, Replace, OpenedFiles, Reports
  <2>3. result' # "refused"
    BY <2>2 DEF Switched
  <2>4. now.files = IF path = Standard THEN disk ELSE OpenedOutput(path, mode, disk)
    BY <1>2, <1>4, OpenedFilesFacts
  <2>5. disk \in Files /\ disk[target.path] \in Text /\ target.path \in Places
    BY <1>1, TargetFacts DEF OutputTypes
  <2>6. Keeps(disk, now.files, path)
    BY <2>4, <2>5, OpenedFacts DEF Keeps
  <2>7. now.files[Standard] = disk[Standard]
    BY <1>1, <2>4, <2>6 DEF Keeps
  <2>8. now.files \in Files /\ now.files[target.path] \in Text
    BY <2>5, <2>6 DEF Keeps
  <2>9. old.standard.path = Standard
    BY <1>1, <2>1, <2>2, <2>7, <2>8, DetachKeeps
  <2>10. target'.path = path /\ disk' = old.files
    BY <2>2, <2>9, AttachedTarget
  <2>11. ASSUME result' = "switched", target'.path # target.path, ~leftover
         PROVE  disk'[target.path] = expected[target.path]
    <3>1. now.files[target.path] = disk[target.path]
      BY <2>5, <2>6, <2>10, <2>11 DEF Keeps
    <3>2. PICK files \in Files : files = now.files
      BY <2>8
    <3>3. disk' = Detached(files, ok).files
      BY <2>1, <2>10, <3>2
    <3>4. files[target.path] = disk[target.path] /\ files[Standard] = disk[Standard]
      BY <2>7, <3>1, <3>2
    <3>5. Switched(ok) = "switched" /\ ~leftover /\ call # "destroyed"
      BY <2>2, <2>11
    <3> QED
      BY <1>1, <3>3, <3>4, <3>5, OldIsWritten
  <2> QED
    BY <2>3, <2>11 DEF SwitchKeeps
<1> QED
  BY <1>3, <1>4

\* No other step is a switch.
LEMMA StepKeepsPromise ==
    ASSUME Inductive, [Next]_vars
    PROVE  SwitchKeeps \/ UNCHANGED vars
<1>1. InputTypes /\ StandardLinesInOrder /\ ReadsReport
  BY DEF Inductive
<1>2. ASSUME Switch
      PROVE  SwitchKeeps
  <2>1. ASSUME NEW path \in Places, NEW opens \in BOOLEAN, set_input(path, opens)
        PROVE  SwitchKeeps
    BY <2>1 DEF set_input, Reports, SwitchKeeps
  <2> QED
    BY <1>2, <2>1, OutputSwitched, StreamsSwitched DEF Switch, Places
<1>3. ASSUME Write
      PROVE  SwitchKeeps
  BY <1>3 DEF Write, flush, destroy, PrintChar, Reports, SwitchKeeps
<1>4. ASSUME Read
      PROVE  SwitchKeeps
  <2>1. read_line => result' \notin {"refused", "switched"}
    BY <1>1, ReadLineKeeps
  <2>2. poll_line => result' \notin {"refused", "switched"}
    BY <2>1 DEF poll_line
  <2>3. PollTimesOut => result' \notin {"refused", "switched"}
    BY DEF PollTimesOut, Reports
  <2>4. ReturnLine => result' \notin {"refused", "switched"}
    BY <1>1, ReturnLineKeeps
  <2>5. Underflow => result' \notin {"refused", "switched"}
    BY <1>1, UnderflowKeeps
  <2>6. ReturnLast => result' \notin {"refused", "switched"}
    BY <1>1, ReturnLastKeeps
  <2> QED
    BY <1>4, <2>1, <2>2, <2>3, <2>4, <2>5, <2>6 DEF Read, SwitchKeeps
<1>5. ASSUME Ends \/ \E char \in Chars : Sends(char)
      PROVE  SwitchKeeps
  <2>1. UNCHANGED <<outputs, input_file, standard_input>>
    BY <1>5 DEF Ends, Sends, inputs
  <2>2. target' = target
    BY <2>1 DEF outputs, target
  <2> QED
    BY <2>1, <2>2 DEF SwitchKeeps
<1> QED
  BY <1>2, <1>3, <1>4, <1>5 DEF Next

\* An iostream that is refused, at its first file or its second, changes no stream
\* and empties no file, and a switch that is done leaves all that was printed in
\* the old file, if no write to it has failed.
THEOREM SwitchCorrect == Spec => SwitchesLoseNothing
<1>1. Inductive /\ [Next]_vars
        => [/\ result' = "refused" => UNCHANGED <<outputs, input_file, standard_input>>
            /\ result' = "switched" /\ target'.path # target.path /\ ~leftover
                 => disk'[target.path] = expected[target.path]]_vars
  BY StepKeepsPromise DEF SwitchKeeps
<1> QED
  BY <1>1, InductiveCorrect, PTL DEF Spec, SwitchesLoseNothing

=============================================================================
