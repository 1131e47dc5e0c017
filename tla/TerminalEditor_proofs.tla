------------------------ MODULE TerminalEditor_proofs ------------------------
(***************************************************************************)
(* The terminal's mode is restored, hidden input stays hidden, the screen  *)
(* shows the line, the line holds whole characters, and the editor         *)
(* implements LineEditor: for every value of TerminalEditor's constants.   *)
(***************************************************************************)
EXTENDS TerminalEditor, Recursion, SequenceTheorems

-----------------------------------------------------------------------------
(* The editor *)

\* What a unit of the buffer is made of: bytes, the names of keys, spaces.
Byte == Bytes \cup Keys \cup {"lead2", "lead3", "lead4", "cont", "space"}
Text == Seq(Byte)

Screens == [prompt : Nat, start : Nat, cells : Seq(Text \cup {<<"dot">>}), column : Int, blank : BOOLEAN]

Modes == [input : {"cooked", "raw"}, output : {"cooked", "raw"}]

Editors ==
    [platform : Platforms, opened : BOOLEAN, interactive : BOOLEAN, masked : BOOLEAN,
     original : Modes, prompt : Nat, buffer : Seq(Text), cursor : Nat, history : Seq(Text), position : Nat,
     pending : Seq(Bytes), escape : Seq(Bytes \cup {"esc"}), high : BOOLEAN, screen : Screens]

\* The cursor is in the line.
Editable(e) == e \in Editors /\ e.cursor <= Len(e.buffer)

-----------------------------------------------------------------------------
(* Widths *)

\* How wide the text is from the start of the line up to each unit.
Sums(c, w) ==
    /\ w \in [0..Len(c) -> Nat] /\ w[0] = 0
    /\ \A i \in 1..Len(c) : w[i] = w[i - 1] + c[i]

\* The sums are there.
LEMMA SumsExist ==
    ASSUME NEW c \in Seq(Nat)
    PROVE  \E w : Sums(c, w)
<1>1. PICK n \in Nat : n = Len(c)
  BY LenProperties
<1>2. PICK step : step = [i \in 1..n |-> [v \in Nat |-> v + c[i]]]
  OBVIOUS
<1>3. \A i \in 1..n, v \in Nat : step[i][v] = v + c[i]
  BY <1>2
<1>4. step \in [1..n -> [Nat -> Nat]]
  <2>1. \A i \in 1..n, v \in Nat : v + c[i] \in Nat
    BY <1>1
  <2> QED
    BY <1>2, <2>1
<1>5. PICK w \in [0..n -> Nat] : w[0] = 0 /\ \A i \in 1..n : w[i] = step[i][w[i - 1]]
  <2>1. 0 \in Nat
    OBVIOUS
  <2>2. \E g : Iterates(g, Nat, 0, n, step)
    BY <1>4, <2>1, RecursiveFunction
  <2> QED
    BY <2>2 DEF Iterates
<1>6. \A i \in 1..n : w[i] = w[i - 1] + c[i]
  <2>1. \A i \in 1..n : i - 1 \in 0..n
    OBVIOUS
  <2>2. \A i \in 1..n : w[i - 1] \in Nat
    BY <1>5, <2>1
  <2> QED
    BY <1>3, <1>5, <2>2
<1> QED
  BY <1>1, <1>5, <1>6 DEF Sums

\* They grow along the line.
LEMMA SumsGrow ==
    ASSUME NEW c \in Seq(Nat), NEW w, Sums(c, w)
    PROVE  \A i, j \in 0..Len(c) : i <= j => w[i] <= w[j]
<1>1. PICK n \in Nat : n = Len(c)
  BY LenProperties
<1>2. w \in [0..n -> Nat] /\ \A i \in 1..n : w[i] >= w[i - 1]
  <2>1. /\ w \in [0..n -> Nat]
        /\ \A i \in 1..n : w[i] = w[i - 1] + c[i]
    BY <1>1 DEF Sums
  <2>2. ASSUME NEW i \in 1..n
        PROVE  w[i] >= w[i - 1]
    <3>1. c[i] \in Nat
      BY <1>1
    <3>2. w[i] = w[i - 1] + c[i] /\ i - 1 \in 0..n /\ w[i - 1] \in Nat
      BY <2>1
    <3> QED
      BY <3>1, <3>2
  <2> QED
    BY <2>1, <2>2
<1>3. SUFFICES ASSUME NEW i \in 0..n
               PROVE  \A j \in 0..n : i <= j => w[i] <= w[j]
  BY <1>1
<1>4. PICK S : S = {m \in Nat : i + m <= n => w[i] <= w[i + m]}
  OBVIOUS
<1>5. 0 \in S
  BY <1>2, <1>4
<1>6. ASSUME NEW m \in Nat, m \in S
      PROVE  m + 1 \in S
  <2>1. CASE i + (m + 1) <= n
    <3>1. i + m \in 0..n /\ i + (m + 1) \in 1..n /\ (i + (m + 1)) - 1 = i + m
      BY <2>1
    <3>2. w[i] <= w[i + m] /\ w[i + m] <= w[i + (m + 1)]
      BY <1>2, <1>4, <1>6, <3>1
    <3>3. w[i] \in Nat /\ w[i + m] \in Nat /\ w[i + (m + 1)] \in Nat
      BY <1>2, <3>1
    <3> QED
      BY <1>4, <3>2, <3>3
  <2>2. CASE ~(i + (m + 1) <= n)
    BY <1>4, <2>2
  <2> QED
    BY <2>1, <2>2
<1>7. \A m \in Nat : m \in S
  BY <1>5, <1>6, Induction
<1>8. ASSUME NEW j \in 0..n, i <= j
      PROVE  w[i] <= w[j]
  <2>1. j - i \in Nat /\ i + (j - i) = j
    BY <1>8
  <2>2. j - i \in S
    BY <1>7, <2>1
  <2> QED
    BY <1>4, <2>1, <2>2
<1> QED
  BY <1>8

\* The total of a part is the difference of two sums.
LEMMA TotalIs ==
    ASSUME NEW c \in Seq(Nat), NEW w, Sums(c, w),
           NEW first \in Nat, NEW last \in Nat, first <= last, last <= Len(c)
    PROVE  total(c, first, last) = w[last] - w[first]
<1>1. PICK n \in Nat : n = Len(c)
  BY LenProperties
<1>2. /\ w \in [0..n -> Nat]
      /\ \A i \in 1..n : w[i] = w[i - 1] + c[i]
  BY <1>1 DEF Sums
<1>3. PICK cell : cell = [i \in 1..n |-> c[i]]
  OBVIOUS
<1>4. \A i \in 1..n : cell[i] = c[i] /\ cell[i] \in Nat
  BY <1>1, <1>3
<1>5. PICK u : u = CHOOSE h : h = [i \in first..last |->
                       IF i = first THEN 0 ELSE h[i - 1] + c[i]]
  OBVIOUS
<1>6. total(c, first, last) = u[last]
  BY <1>5 DEF total
<1>7. \E h : h = [i \in first..last |->
                       IF i = first THEN 0 ELSE h[i - 1] + c[i]]
  <2>1. PICK g : g = [i \in first..last |-> w[i] - w[first]]
    OBVIOUS
  <2>2. \A i \in first..last : g[i] = w[i] - w[first] /\ w[i] \in Nat /\ w[first] \in Nat
    <3>1. \A i \in first..last : g[i] = w[i] - w[first]
      BY <2>1
    <3>2. first \in 0..n /\ \A i \in first..last : i \in 0..n
      BY <1>1
    <3>3. \A i \in 0..n : w[i] \in Nat
      BY <1>2
    <3> QED
      BY <3>1, <3>2, <3>3
  <2>3. \A i \in first..last :
          g[i] = IF i = first THEN 0 ELSE g[i - 1] + c[i]
    <3> SUFFICES ASSUME NEW i \in first..last
                 PROVE  g[i] = IF i = first THEN 0 ELSE g[i - 1] + c[i]
      OBVIOUS
    <3>1. CASE i = first
      BY <2>2, <3>1
    <3>2. CASE i # first
      <4>1. i \in 1..n /\ i - 1 \in first..last
        BY <1>1, <3>2
      <4>2. w[i] = w[i - 1] + cell[i]
        BY <1>2, <1>4, <4>1
      <4>3. g[i] = w[i] - w[first] /\ g[i - 1] = w[i - 1] - w[first]
        BY <2>2, <4>1
      <4>4. w[i - 1] \in Nat /\ w[first] \in Nat /\ cell[i] \in Nat
        BY <1>4, <2>2, <4>1
      <4>5. g[i] = g[i - 1] + cell[i]
        BY <4>2, <4>3, <4>4
      <4> QED
        BY <1>4, <3>2, <4>1, <4>5
    <3> QED
      BY <3>1, <3>2
  <2>4. g = [i \in first..last |->
               IF i = first THEN 0 ELSE g[i - 1] + c[i]]
    BY <2>1, <2>3
  <2> QED
    BY <2>4
<1>8. u = [i \in first..last |->
             IF i = first THEN 0 ELSE u[i - 1] + c[i]]
  BY <1>5, <1>7
<1>9. \A i \in first..last : u[i] = IF i = first THEN 0 ELSE u[i - 1] + c[i]
  BY <1>8
<1>10. PICK S : S = {m \in Nat : first + m <= last => u[first + m] = w[first + m] - w[first]}
  OBVIOUS
<1>11. 0 \in S
  <2>1. first \in first..last /\ w[first] \in Nat /\ first + 0 = first
    <3>1. first \in first..last /\ first \in 0..n /\ first + 0 = first
      BY <1>1
    <3> QED
      BY <1>2, <3>1
  <2>2. u[first] = 0
    BY <1>9, <2>1
  <2> QED
    BY <1>10, <2>1, <2>2
<1>12. ASSUME NEW m \in Nat, m \in S
       PROVE  m + 1 \in S
  <2>1. CASE first + (m + 1) <= last
    <3>1. PICK i \in first..last : i = first + (m + 1)
      BY <2>1
    <3>2. i \in 1..n /\ i - 1 \in first..last /\ i - 1 = first + m /\ i # first
      BY <1>1, <3>1
    <3>3. u[i - 1] = w[i - 1] - w[first]
      BY <1>10, <1>12, <2>1, <3>1, <3>2
    <3>4. u[i] = u[i - 1] + cell[i] /\ w[i] = w[i - 1] + cell[i]
      BY <1>2, <1>4, <1>9, <3>2
    <3>5. cell[i] \in Nat /\ w[i - 1] \in Nat /\ w[first] \in Nat
      <4>1. i - 1 \in 0..n /\ first \in 0..n
        BY <1>1, <3>2
      <4>2. \A j \in 0..n : w[j] \in Nat
        BY <1>2
      <4> QED
        BY <1>4, <3>2, <4>1, <4>2
    <3>6. u[i] = w[i] - w[first]
      BY <3>3, <3>4, <3>5
    <3> QED
      BY <1>10, <3>1, <3>6
  <2>2. CASE ~(first + (m + 1) <= last)
    BY <1>10, <2>2
  <2> QED
    BY <2>1, <2>2
<1>13. \A m \in Nat : m \in S
  BY <1>11, <1>12, Induction
<1>14. last - first \in Nat /\ first + (last - first) = last
  OBVIOUS
<1>15. last - first \in S
  BY <1>13, <1>14
<1> QED
  BY <1>6, <1>10, <1>14, <1>15

\* It is a number, and adds up.
LEMMA TotalFacts ==
    ASSUME NEW c \in Seq(Nat)
    PROVE  /\ \A x, z \in 0..Len(c) : x <= z => total(c, x, z) \in Nat
           /\ \A x \in 0..Len(c) : total(c, x, x) = 0
           /\ \A x, y, z \in 0..Len(c) : x <= y /\ y <= z =>
                total(c, x, z) = total(c, x, y) + total(c, y, z)
<1>1. PICK w : Sums(c, w)
  BY SumsExist
<1>2. PICK n \in Nat : n = Len(c)
  BY LenProperties
<1>3. \A i \in 0..n : w[i] \in Nat
  BY <1>1, <1>2 DEF Sums
<1>4. \A i, j \in 0..n : i <= j => w[i] <= w[j]
  BY <1>1, <1>2, SumsGrow
<1>5. ASSUME NEW x \in 0..n, NEW z \in 0..n, x <= z
      PROVE  total(c, x, z) = w[z] - w[x]
  BY <1>1, <1>2, <1>5, TotalIs
<1>6. ASSUME NEW x \in 0..n, NEW z \in 0..n, x <= z
      PROVE  total(c, x, z) \in Nat
  <2>1. w[x] \in Nat /\ w[z] \in Nat /\ w[x] <= w[z]
    BY <1>3, <1>4, <1>6
  <2>2. total(c, x, z) = w[z] - w[x]
    BY <1>5, <1>6
  <2> QED
    BY <2>1, <2>2
<1>7. \A x \in 0..n : total(c, x, x) = 0
  BY <1>3, <1>5
<1>8. ASSUME NEW x \in 0..n, NEW y \in 0..n, NEW z \in 0..n, x <= y, y <= z
      PROVE  total(c, x, z) = total(c, x, y) + total(c, y, z)
  <2>1. /\ total(c, x, z) = w[z] - w[x] /\ total(c, x, y) = w[y] - w[x]
        /\ total(c, y, z) = w[z] - w[y]
    BY <1>5, <1>8
  <2>2. w[x] \in Nat /\ w[y] \in Nat /\ w[z] \in Nat
    BY <1>3
  <2> QED
    BY <2>1, <2>2
<1> QED
  BY <1>2, <1>6, <1>7, <1>8

\* Widths that agree on a part have the same total there.
LEMMA TotalAgrees ==
    ASSUME NEW c \in Seq(Nat), NEW d \in Seq(Nat), Len(c) = Len(d),
           NEW first \in 0..Len(c), NEW last \in 0..Len(c), first <= last,
           \A i \in (first + 1)..last : c[i] = d[i]
    PROVE  total(c, first, last) = total(d, first, last)
<1>1. PICK n \in Nat : n = Len(c)
  BY LenProperties
<1>2. PICK v : Sums(c, v)
  BY SumsExist
<1>3. PICK w : Sums(d, w)
  BY SumsExist
<1>4. /\ \A i \in 0..n : v[i] \in Nat /\ w[i] \in Nat
      /\ \A i \in 1..n : v[i] = v[i - 1] + c[i] /\ w[i] = w[i - 1] + d[i]
      /\ \A i \in 1..n : c[i] \in Nat
  <2>1. v \in [0..n -> Nat] /\ \A i \in 1..n : v[i] = v[i - 1] + c[i]
    BY <1>1, <1>2 DEF Sums
  <2>2. w \in [0..n -> Nat] /\ \A i \in 1..n : w[i] = w[i - 1] + d[i]
    BY <1>1, <1>3 DEF Sums
  <2>3. \A i \in 1..n : c[i] \in Nat
    BY <1>1
  <2> QED
    BY <2>1, <2>2, <2>3
<1>5. PICK S : S = {m \in Nat : first + m <= last => v[first + m] - v[first] = w[first + m] - w[first]}
  OBVIOUS
<1>6. 0 \in S
  BY <1>1, <1>4, <1>5
<1>7. ASSUME NEW m \in Nat, m \in S
      PROVE  m + 1 \in S
  <2>1. CASE first + (m + 1) <= last
    <3>1. PICK i \in 1..n : i = first + (m + 1)
      BY <1>1, <2>1
    <3>2. i - 1 = first + m /\ i - 1 \in 0..n /\ i \in (first + 1)..last /\ first \in 0..n
      BY <1>1, <2>1, <3>1
    <3>3. v[i - 1] - v[first] = w[i - 1] - w[first]
      BY <1>5, <1>7, <2>1, <3>2
    <3>4. v[i] = v[i - 1] + c[i] /\ w[i] = w[i - 1] + c[i] /\ c[i] \in Nat
      BY <1>4, <3>2
    <3>5. v[i - 1] \in Nat /\ w[i - 1] \in Nat /\ v[first] \in Nat /\ w[first] \in Nat
      BY <1>4, <3>2
    <3>6. PICK p \in Nat, q \in Nat, x \in Nat, y \in Nat, k \in Nat :
            /\ p = v[i - 1] /\ q = w[i - 1] /\ x = v[first] /\ y = w[first] /\ k = c[i]
      BY <3>4, <3>5
    <3>7. v[i] - v[first] = w[i] - w[first]
      <4>1. p - x = q - y /\ v[i] = p + k /\ w[i] = q + k
        BY <3>3, <3>4, <3>6
      <4>2. (p + k) - x = (q + k) - y
        BY <4>1
      <4> QED
        BY <3>6, <4>1, <4>2
    <3> QED
      BY <1>5, <3>1, <3>7
  <2>2. CASE ~(first + (m + 1) <= last)
    BY <1>5, <2>2
  <2> QED
    BY <2>1, <2>2
<1>8. \A m \in Nat : m \in S
  BY <1>6, <1>7, Induction
<1>9. last - first \in S /\ first + (last - first) = last
  BY <1>1, <1>8
<1>10. total(c, first, last) = v[last] - v[first] /\ total(d, first, last) = w[last] - w[first]
  BY <1>1, <1>2, <1>3, TotalIs
<1> QED
  BY <1>5, <1>9, <1>10

\* Every unit has two widths, the one the code counts and the one it takes.
LEMMA WidthFacts ==
    ASSUME NEW e \in Editors
    PROVE  /\ CellWidths(e) \in Seq(Nat) /\ Len(CellWidths(e)) = Len(e.buffer)
           /\ WrittenWidths(e) \in Seq(Nat) /\ Len(WrittenWidths(e)) = Len(e.buffer)
           /\ \A i \in 1..Len(e.buffer) :
                e.masked \/ e.buffer[i] # Tab => CellWidths(e)[i] = WrittenWidths(e)[i]
<1>1. PICK n \in Nat : n = Len(e.buffer)
  BY LenProperties DEF Editors
<1>2. \A u : unit_width(u) \in Nat
  BY DEF unit_width
<1>3. Len(Tab) \in Nat
  BY DEF Tab
<1>4. \A u : written_width(u) \in Nat
  BY <1>2, <1>3 DEF written_width
<1>5. CellWidths(e) \in [1..n -> Nat]
  BY <1>1, <1>2 DEF CellWidths
<1>6. WrittenWidths(e) \in [1..n -> Nat]
  BY <1>1, <1>4 DEF WrittenWidths
<1>7. ASSUME NEW i \in 1..n, e.masked \/ e.buffer[i] # Tab
      PROVE  CellWidths(e)[i] = WrittenWidths(e)[i]
  BY <1>1, <1>7 DEF CellWidths, WrittenWidths, written_width
<1>8. /\ CellWidths(e) \in Seq(Nat) /\ Len(CellWidths(e)) = n
      /\ WrittenWidths(e) \in Seq(Nat) /\ Len(WrittenWidths(e)) = n
  BY <1>5, <1>6, SeqDef, LenProperties
<1> QED
  BY <1>1, <1>7, <1>8

-----------------------------------------------------------------------------
(* Drawing *)

\* How much of the line fits.
LEMMA AvailableNat ==
    ASSUME NEW e \in Editors
    PROVE  Available(e) \in Nat
BY TerminalAssumption DEF Available, Editors

\* The width of a part is a number, and smaller for a smaller part.
LEMMA RangeFacts ==
    ASSUME NEW e \in Editors
    PROVE  /\ \A a, c \in 0..Len(e.buffer) : a <= c => range_width(e, a, c) \in Nat
           /\ \A a \in 0..Len(e.buffer) : range_width(e, a, a) = 0
           /\ \A a, b, c \in 0..Len(e.buffer) : a <= b /\ b <= c =>
                range_width(e, a, c) = range_width(e, a, b) + range_width(e, b, c)
<1>1. PICK ws \in Seq(Nat) : ws = CellWidths(e) /\ Len(ws) = Len(e.buffer)
  BY WidthFacts
<1>2. \A a, c : range_width(e, a, c) = total(ws, a, c)
  BY <1>1 DEF range_width
<1> QED
  BY <1>1, <1>2, TotalFacts

\* As above, on the screen; without a tab that shows it is the same.
LEMMA ShownFacts ==
    ASSUME NEW e \in Editors
    PROVE  /\ \A a, c \in 0..Len(e.buffer) : a <= c => shown_width(e, a, c) \in Nat
           /\ \A a, b, c \in 0..Len(e.buffer) : a <= b /\ b <= c =>
                shown_width(e, a, c) = shown_width(e, a, b) + shown_width(e, b, c)
           /\ \A a, c \in 0..Len(e.buffer) :
                a <= c /\ (\A i \in (a + 1)..c : e.masked \/ e.buffer[i] # Tab)
                  => shown_width(e, a, c) = range_width(e, a, c)
<1>1. PICK ws \in Seq(Nat) : ws = CellWidths(e) /\ Len(ws) = Len(e.buffer)
  BY WidthFacts
<1>2. PICK vs \in Seq(Nat) : vs = WrittenWidths(e) /\ Len(vs) = Len(e.buffer)
  BY WidthFacts
<1>3. \A a, c : range_width(e, a, c) = total(ws, a, c) /\ shown_width(e, a, c) = total(vs, a, c)
  BY <1>1, <1>2 DEF range_width, shown_width
<1>4. PICK n \in Nat : n = Len(e.buffer)
  BY LenProperties DEF Editors
<1>5. ASSUME NEW a \in 0..n, NEW c \in 0..n, a <= c,
             \A i \in (a + 1)..c : e.masked \/ e.buffer[i] # Tab
      PROVE  shown_width(e, a, c) = range_width(e, a, c)
  <2>1. \A i \in (a + 1)..c : i \in 1..n
    OBVIOUS
  <2>2. \A i \in (a + 1)..c : vs[i] = ws[i]
    BY <1>1, <1>2, <1>4, <1>5, <2>1, WidthFacts
  <2>3. a \in 0..Len(vs) /\ c \in 0..Len(vs) /\ Len(vs) = Len(ws)
    BY <1>1, <1>2, <1>4
  <2>4. total(vs, a, c) = total(ws, a, c)
    BY <1>5, <2>2, <2>3, TotalAgrees
  <2> QED
    BY <1>3, <2>4
<1>6. /\ \A a, c \in 0..n : a <= c => total(vs, a, c) \in Nat
      /\ \A a, b, c \in 0..n : a <= b /\ b <= c =>
           total(vs, a, c) = total(vs, a, b) + total(vs, b, c)
  <2>1. Len(vs) = n
    BY <1>2, <1>4
  <2> QED
    BY <2>1, TotalFacts
<1>7. ASSUME NEW a \in 0..n, NEW c \in 0..n, a <= c
      PROVE  shown_width(e, a, c) \in Nat
  <2>1. total(vs, a, c) \in Nat
    BY <1>6, <1>7
  <2> QED
    BY <1>3, <2>1
<1>8. ASSUME NEW a \in 0..n, NEW b \in 0..n, NEW c \in 0..n, a <= b, b <= c
      PROVE  shown_width(e, a, c) = shown_width(e, a, b) + shown_width(e, b, c)
  <2>1. total(vs, a, c) = total(vs, a, b) + total(vs, b, c)
    BY <1>6, <1>8
  <2> QED
    BY <1>3, <2>1
<1> QED
  BY <1>4, <1>5, <1>7, <1>8

\* Where the window starts: the first place from which the text up to the cursor
\* fits.
Starts(e, s) ==
    /\ s \in 0..e.cursor
    /\ s = e.cursor \/ range_width(e, s, e.cursor) <= Available(e)
    /\ \A r \in 0..(s - 1) : range_width(e, r, e.cursor) > Available(e)

\* There is one such place.
LEMMA StartExists ==
    ASSUME NEW e, Editable(e)
    PROVE  Starts(e, WindowStart(e))
<1>1. e \in Editors /\ e.cursor \in 0..Len(e.buffer) /\ e.cursor \in Nat
  BY LenProperties DEF Editable, Editors
<1>2. PICK S : S = {s \in 0..e.cursor : s = e.cursor \/ range_width(e, s, e.cursor) <= Available(e)}
  OBVIOUS
<1>3. S \in SUBSET Nat /\ S # {}
  <2>1. e.cursor \in S
    BY <1>1, <1>2
  <2> QED
    BY <1>1, <1>2, <2>1
<1>4. PICK m \in S : \A y \in S : m <= y
  BY <1>3, LeastExists
<1>5. m \in 0..e.cursor /\ (m = e.cursor \/ range_width(e, m, e.cursor) <= Available(e))
  BY <1>2
<1>6. ASSUME NEW r \in 0..(m - 1)
      PROVE  range_width(e, r, e.cursor) > Available(e)
  <2>1. r \in 0..e.cursor /\ r \in 0..Len(e.buffer) /\ r <= e.cursor /\ r < m
    BY <1>1, <1>5
  <2>2. ~(range_width(e, r, e.cursor) <= Available(e))
    BY <1>2, <1>4, <2>1
  <2>3. range_width(e, r, e.cursor) \in Nat
    BY <1>1, <2>1, RangeFacts
  <2>4. Available(e) \in Nat
    BY <1>1, AvailableNat
  <2> QED
    BY <2>2, <2>3, <2>4
<1>7. \E s \in 0..e.cursor :
        /\ s = e.cursor \/ range_width(e, s, e.cursor) <= Available(e)
        /\ \A r \in 0..(s - 1) : range_width(e, r, e.cursor) > Available(e)
  BY <1>5, <1>6
<1> QED
  BY <1>7 DEF WindowStart, Starts

\* And only one.
LEMMA StartUnique ==
    ASSUME NEW e, Editable(e), NEW s, NEW t, Starts(e, s), Starts(e, t), s < t
    PROVE  FALSE
<1>1. e \in Editors /\ e.cursor \in 0..Len(e.buffer) /\ e.cursor \in Nat
  BY LenProperties DEF Editable, Editors
<1>2. s \in 0..(t - 1) /\ s # e.cursor /\ s \in 0..Len(e.buffer) /\ s <= e.cursor
  BY <1>1 DEF Starts
<1>3. range_width(e, s, e.cursor) <= Available(e) /\ range_width(e, s, e.cursor) > Available(e)
  BY <1>2 DEF Starts
<1>4. range_width(e, s, e.cursor) \in Nat /\ Available(e) \in Nat
  BY <1>1, <1>2, RangeFacts, AvailableNat
<1> QED
  BY <1>3, <1>4

\* Where the window ends: the last place to which the text from its start fits.
LEMMA EndExists ==
    ASSUME NEW e, Editable(e), NEW s \in 0..Len(e.buffer)
    PROVE  /\ WindowEnd(e, s) \in s..Len(e.buffer)
           /\ range_width(e, s, WindowEnd(e, s)) <= Available(e)
           /\ \A n \in s..Len(e.buffer) :
                range_width(e, s, n) <= Available(e) => n <= WindowEnd(e, s)
<1>1. e \in Editors /\ Len(e.buffer) \in Nat
  BY LenProperties DEF Editable, Editors
<1>2. PICK S : S = {n \in s..Len(e.buffer) : range_width(e, s, n) <= Available(e)}
  OBVIOUS
<1>3. S \in SUBSET Nat /\ (\A y \in S : y <= Len(e.buffer))
  BY <1>1, <1>2
<1>4. s \in S
  <2>1. range_width(e, s, s) = 0 /\ Available(e) \in Nat
    BY <1>1, RangeFacts, AvailableNat
  <2> QED
    BY <1>1, <1>2, <2>1
<1>5. PICK m \in S : \A y \in S : y <= m
  BY <1>1, <1>3, <1>4, LargestExists
<1>6. PICK x : x = Max(S)
  OBVIOUS
<1>7. x \in S /\ \A y \in S : x >= y
  BY <1>3, <1>5, <1>6 DEF Max
<1>8. WindowEnd(e, s) = x
  BY <1>2, <1>6 DEF WindowEnd
<1> QED
  BY <1>2, <1>3, <1>7, <1>8

\* What is drawn.
LEMMA DrawnFacts ==
    ASSUME NEW e, Editable(e), NEW d, d = Drawn(e)
    PROVE  /\ d \in Screens /\ ~d.blank
           /\ e.cursor \in d.start..(d.start + Len(d.cells))
           /\ (\A i \in (e.cursor - d.start + 1)..Len(d.cells) : d.cells[i] # Tab)
                => d.column = shown_width(e, d.start, e.cursor)
           /\ (\A i \in 1..Len(d.cells) : d.cells[i] # Tab)
                => shown_width(e, d.start, d.start + Len(d.cells)) <= Available(e)
           /\ e.masked => \A i \in 1..Len(d.cells) : d.cells[i] = <<"dot">>
<1>1. e \in Editors /\ Len(e.buffer) \in Nat /\ e.cursor \in 0..Len(e.buffer)
  BY LenProperties DEF Editable, Editors
<1>2. PICK s : s = WindowStart(e)
  OBVIOUS
<1>3. Starts(e, s) /\ s \in 0..Len(e.buffer) /\ s <= e.cursor
  BY <1>1, <1>2, StartExists DEF Starts
<1>4. PICK n : n = WindowEnd(e, s)
  OBVIOUS
<1>5. /\ n \in s..Len(e.buffer) /\ range_width(e, s, n) <= Available(e)
      /\ \A m \in s..Len(e.buffer) : range_width(e, s, m) <= Available(e) => m <= n
  BY <1>3, <1>4, EndExists
<1>6. e.cursor \in s..n
  <2>1. CASE s = e.cursor
    BY <1>1, <1>3, <1>5, <2>1
  <2>2. CASE s # e.cursor
    <3>1. e.cursor \in s..Len(e.buffer) /\ range_width(e, s, e.cursor) <= Available(e)
      BY <1>1, <1>3, <2>2 DEF Starts
    <3> QED
      BY <1>1, <1>3, <1>5, <3>1
  <2> QED
    BY <2>1, <2>2
<1>7. PICK cells : cells = [i \in 1..(n - s) |-> IF e.masked THEN <<"dot">> ELSE e.buffer[s + i]]
  OBVIOUS
<1>8. n - s \in Nat /\ n \in Nat /\ s \in Nat /\ s + (n - s) = n
  BY <1>3, <1>5
<1>9. cells \in Seq(Text \cup {<<"dot">>}) /\ Len(cells) = n - s
  <2>1. \A i \in 1..(n - s) : s + i \in 1..Len(e.buffer)
    BY <1>1, <1>5, <1>8
  <2>2. \A i \in 1..Len(e.buffer) : e.buffer[i] \in Text
    BY <1>1 DEF Editors
  <2>3. \A i \in 1..(n - s) : cells[i] \in Text \cup {<<"dot">>}
    BY <1>7, <2>1, <2>2
  <2>4. cells \in [1..(n - s) -> Text \cup {<<"dot">>}]
    BY <1>7, <2>3
  <2>5. cells \in Seq(Text \cup {<<"dot">>})
    BY <1>8, <2>4, SeqDef
  <2> QED
    BY <1>8, <2>4, <2>5
<1>10. PICK column : column = shown_width(e, s, n)
                       - (IF e.cursor < n THEN range_width(e, e.cursor, n) ELSE 0)
  OBVIOUS
<1>a. s \in 0..Len(e.buffer) /\ n \in 0..Len(e.buffer) /\ s <= e.cursor /\ e.cursor <= n
  BY <1>3, <1>5, <1>6
<1>b. /\ shown_width(e, s, n) = shown_width(e, s, e.cursor) + shown_width(e, e.cursor, n)
      /\ shown_width(e, s, e.cursor) \in Nat /\ shown_width(e, e.cursor, n) \in Nat
      /\ shown_width(e, s, n) \in Nat /\ range_width(e, e.cursor, n) \in Nat
      /\ range_width(e, n, n) = 0
  <2>1. s <= n
    BY <1>5
  <2> QED
    BY <1>1, <1>a, <2>1, RangeFacts, ShownFacts
<1>c. column \in Int
  BY <1>10, <1>b
\* A unit that shows and is not a tab is masked, or not a tab in the buffer either.
<1>d. ASSUME NEW k \in s..n, \A i \in (k - s + 1)..(n - s) : cells[i] # Tab
      PROVE  shown_width(e, k, n) = range_width(e, k, n)
  <2>1. ASSUME NEW j \in (k + 1)..n
        PROVE  e.masked \/ e.buffer[j] # Tab
    <3>1. j - s \in (k - s + 1)..(n - s) /\ j - s \in 1..(n - s) /\ s + (j - s) = j
      BY <1>8
    <3>2. cells[j - s] # Tab
      BY <1>d, <3>1
    <3> QED
      BY <1>7, <3>1, <3>2
  <2>2. k \in 0..Len(e.buffer) /\ k <= n
    BY <1>a, <1>8
  <2> QED
    BY <1>1, <1>a, <2>1, <2>2, ShownFacts
<1>11. ASSUME \A i \in (e.cursor - s + 1)..(n - s) : cells[i] # Tab
       PROVE  column = shown_width(e, s, e.cursor)
  <2>1. shown_width(e, e.cursor, n) = range_width(e, e.cursor, n)
    BY <1>6, <1>11, <1>d
  <2>2. CASE e.cursor < n
    BY <1>10, <1>b, <2>1, <2>2
  <2>3. CASE ~(e.cursor < n)
    <3>1. e.cursor = n
      BY <1>1, <1>6, <1>8, <2>3
    <3> QED
      BY <1>10, <1>b, <2>1, <2>3, <3>1
  <2> QED
    BY <2>2, <2>3
<1>e. ASSUME \A i \in 1..(n - s) : cells[i] # Tab
      PROVE  shown_width(e, s, n) <= Available(e)
  <2>1. s \in s..n /\ s - s + 1 = 1
    BY <1>8, <1>5
  <2> QED
    BY <1>5, <1>d, <1>e, <2>1
<1>12. d = [prompt |-> e.prompt, start |-> s, blank |-> FALSE, cells |-> cells, column |-> column]
  BY <1>2, <1>4, <1>7, <1>10 DEF Drawn, DrawnFrom, DrawnWithin
<1>13. /\ d.prompt = e.prompt /\ d.start = s /\ d.blank = FALSE /\ d.cells = cells
       /\ d.column = column
  BY <1>12
<1>14. d \in Screens
  BY <1>1, <1>8, <1>9, <1>c, <1>12 DEF Screens, Editors
<1>15. e.masked => \A i \in 1..(n - s) : cells[i] = <<"dot">>
  BY <1>7
<1> QED
  BY <1>5, <1>6, <1>8, <1>9, <1>11, <1>13, <1>14, <1>15, <1>e

\* Only the line, the cursor, the prompt and whether input is hidden matter.
SameLine(e, f) ==
    /\ e.buffer = f.buffer /\ e.cursor = f.cursor
    /\ e.prompt = f.prompt /\ e.masked = f.masked

\* The widths are the same.
LEMMA SameWidths ==
    ASSUME NEW e, NEW f, SameLine(e, f)
    PROVE  \A a, c : /\ range_width(e, a, c) = range_width(f, a, c)
                     /\ shown_width(e, a, c) = shown_width(f, a, c)
<1>1. CellWidths(e) = CellWidths(f) /\ WrittenWidths(e) = WrittenWidths(f)
  BY DEF SameLine, CellWidths, WrittenWidths
<1> QED
  BY <1>1 DEF range_width, shown_width

\* So what is drawn is the same.
LEMMA DrawnSame ==
    ASSUME NEW e, NEW f, Editable(e), Editable(f), SameLine(e, f)
    PROVE  Drawn(e) = Drawn(f)
<1>1. /\ Len(e.buffer) \in Nat /\ e.cursor \in 0..Len(e.buffer)
      /\ e.buffer = f.buffer /\ e.cursor = f.cursor /\ e.prompt = f.prompt /\ e.masked = f.masked
  BY LenProperties DEF Editable, Editors, SameLine
<1>2. \A a, c : /\ range_width(e, a, c) = range_width(f, a, c)
                /\ shown_width(e, a, c) = shown_width(f, a, c)
  BY SameWidths
<1>3. Available(e) = Available(f)
  BY <1>1 DEF Available
<1>4. PICK s : s = WindowStart(e)
  OBVIOUS
<1>5. PICK t : t = WindowStart(f)
  OBVIOUS
<1>6. Starts(e, s) /\ Starts(f, t)
  BY <1>4, <1>5, StartExists
<1>7. Starts(f, s)
  <2>1. s \in 0..e.cursor /\ s \in 0..Len(e.buffer)
    BY <1>1, <1>6 DEF Starts
  <2>2. range_width(e, s, e.cursor) = range_width(f, s, f.cursor)
    BY <1>1, <1>2, <2>1
  <2>3. ASSUME NEW r \in 0..(s - 1)
        PROVE  range_width(f, r, f.cursor) > Available(f)
    <3>1. r \in 0..Len(e.buffer) /\ r <= e.cursor
      BY <1>1, <2>1
    <3>2. range_width(e, r, e.cursor) = range_width(f, r, f.cursor)
      BY <1>1, <1>2, <3>1
    <3>3. range_width(e, r, e.cursor) > Available(e)
      BY <1>6 DEF Starts
    <3> QED
      BY <1>3, <3>2, <3>3
  <2>4. s = f.cursor \/ range_width(f, s, f.cursor) <= Available(f)
    BY <1>1, <1>3, <1>6, <2>2 DEF Starts
  <2> QED
    BY <1>1, <2>1, <2>3, <2>4 DEF Starts
<1>8. s = t
  <2>1. s \in Nat /\ t \in Nat
    BY <1>6 DEF Starts
  <2>2. ~(s < t) /\ ~(t < s)
    BY <1>6, <1>7, StartUnique
  <2> QED
    BY <2>1, <2>2
<1>9. s \in 0..Len(e.buffer) /\ s <= e.cursor
  BY <1>1, <1>6 DEF Starts
<1>10. {m \in s..Len(e.buffer) : range_width(e, s, m) <= Available(e)}
         = {m \in s..Len(f.buffer) : range_width(f, s, m) <= Available(f)}
  BY <1>1, <1>2, <1>3, <1>9
<1>11. PICK n : n = WindowEnd(e, s)
  OBVIOUS
<1>12. n = WindowEnd(f, s)
  BY <1>10, <1>11 DEF WindowEnd
<1>13. n \in s..Len(e.buffer)
  BY <1>9, <1>11, EndExists
<1>14. /\ shown_width(e, s, n) = shown_width(f, s, n)
       /\ e.cursor < n => range_width(e, e.cursor, n) = range_width(f, f.cursor, n)
  BY <1>1, <1>2, <1>9, <1>13
<1>15. DrawnWithin(e, s, n) = DrawnWithin(f, s, n)
  BY <1>1, <1>14 DEF DrawnWithin
<1> QED
  BY <1>4, <1>5, <1>8, <1>11, <1>12, <1>15 DEF Drawn, DrawnFrom

-----------------------------------------------------------------------------
(* What every operation keeps *)

\* The cursor is in the line and the position in the history; what is on the
\* screen, if anything, is the line.
Sound(e) ==
    /\ Editable(e) /\ e.position <= Len(e.history)
    /\ e.screen.blank => e.screen = NoLine
    /\ ~e.interactive => e.screen = NoLine
    /\ ~e.screen.blank => e.screen = Drawn(e)

\* The same terminal, prompt and echo.
SameTerminal(e, f) ==
    /\ e.platform = f.platform /\ e.opened = f.opened /\ e.interactive = f.interactive
    /\ e.masked = f.masked /\ e.prompt = f.prompt /\ e.original = f.original

\* The same text, history and unfinished input.
SameText(e, f) ==
    /\ e.buffer = f.buffer /\ e.cursor = f.cursor
    /\ e.history = f.history /\ e.position = f.position

\* The same bytes of an unfinished character or escape sequence.
SameInput(e, f) == e.pending = f.pending /\ e.escape = f.escape /\ e.high = f.high

\* What e became is sound, in the same terminal.
Kept(e, f) == Sound(f) /\ SameTerminal(e, f)

\* An empty line is what a wiped screen shows.
LEMMA NoLineScreen ==
    ASSUME TRUE
    PROVE  NoLine \in Screens /\ NoLine.blank
BY DEF NoLine, Screens

\* Drawing an editor again makes it sound.
LEMMA Redrawn ==
    ASSUME NEW e, Editable(e), e.position <= Len(e.history), ~e.interactive => e.screen = NoLine,
           NEW f, f = render(e)
    PROVE  Sound(f) /\ SameTerminal(e, f) /\ SameText(e, f) /\ SameInput(e, f)
<1>1. e \in Editors
  BY DEF Editable
<1>2. CASE ~e.interactive
  <2>1. f = e /\ e.screen.blank
    BY <1>2, NoLineScreen DEF render
  <2> QED
    BY <1>2, <2>1 DEF Sound, SameTerminal, SameText, SameInput
<1>3. CASE e.interactive
  <2>1. PICK d : d = Drawn(e)
    OBVIOUS
  <2>2. d \in Screens /\ ~d.blank
    BY <2>1, DrawnFacts
  <2>3. f = [e EXCEPT !.screen = d]
    BY <1>3, <2>1 DEF render
  <2>4. f \in Editors /\ f.screen = d
    BY <1>1, <2>2, <2>3 DEF Editors
  <2>5. SameTerminal(e, f) /\ SameText(e, f) /\ SameInput(e, f)
    BY <1>1, <2>3 DEF Editors, SameTerminal, SameText, SameInput
  <2>6. Editable(f) /\ SameLine(e, f) /\ f.position <= Len(f.history)
    BY <2>4, <2>5 DEF Editable, SameTerminal, SameText, SameLine
  <2>7. Drawn(f) = d
    BY <2>1, <2>6, DrawnSame
  <2>8. f.interactive
    BY <1>3, <2>5 DEF SameTerminal
  <2>9. Sound(f)
    BY <2>2, <2>4, <2>6, <2>7, <2>8 DEF Sound
  <2> QED
    BY <2>5, <2>9
<1> QED
  BY <1>1, <1>2, <1>3 DEF Editors

\* What is not drawn may change.
LEMMA Undrawn ==
    ASSUME NEW e, Sound(e), NEW f \in Editors,
           SameTerminal(e, f), SameText(e, f), f.screen = e.screen
    PROVE  Kept(e, f)
<1>1. Editable(e) /\ Editable(f) /\ SameLine(e, f)
  BY DEF Sound, Editable, SameTerminal, SameText, SameLine
<1>2. Drawn(e) = Drawn(f)
  BY <1>1, DrawnSame
<1> QED
  BY <1>1, <1>2 DEF Sound, Kept, SameTerminal, SameText

\* An edit that is drawn.
LEMMA Edited ==
    ASSUME NEW e, Sound(e), NEW g \in Editors,
           g.cursor <= Len(g.buffer), g.position <= Len(g.history),
           SameTerminal(e, g), g.screen = e.screen, NEW f, f = render(g)
    PROVE  Kept(e, f) /\ SameText(g, f) /\ SameInput(g, f)
<1>1. Editable(g) /\ (~g.interactive => g.screen = NoLine)
  BY DEF Editable, Sound, SameTerminal
<1>2. Sound(f) /\ SameTerminal(g, f) /\ SameText(g, f) /\ SameInput(g, f)
  BY <1>1, Redrawn
<1> QED
  BY <1>2 DEF Kept, SameTerminal

\* Kept from one to the next.
LEMMA KeptOn ==
    ASSUME NEW e, NEW f, NEW g, Kept(e, f), Kept(f, g)
    PROVE  Kept(e, g)
BY DEF Kept, SameTerminal

-----------------------------------------------------------------------------
(* Sequences *)

\* A part of a sequence.
LEMMA Part ==
    ASSUME NEW S, NEW s \in Seq(S), NEW m \in 1..(Len(s) + 1), NEW n \in (m - 1)..Len(s)
    PROVE  /\ SubSeq(s, m, n) \in Seq(S) /\ Len(SubSeq(s, m, n)) = n - m + 1
           /\ \A i \in 1..(n - m + 1) : SubSeq(s, m, n)[i] = s[m + i - 1]
<1>1. Len(s) \in Nat /\ m \in Int /\ n \in Int /\ \A i \in 1..Len(s) : s[i] \in S
  BY LenProperties
<1>2. \A i \in m..n : s[i] \in S
  BY <1>1
<1>3. /\ SubSeq(s, m, n) \in Seq(S)
      /\ Len(SubSeq(s, m, n)) = IF m <= n THEN n - m + 1 ELSE 0
      /\ \A i \in 1..(n - m + 1) : SubSeq(s, m, n)[i] = s[m + i - 1]
  BY <1>1, <1>2, SubSeqProperties
<1> QED
  BY <1>1, <1>3

\* A list with an entry more after the first c ones, and with one less.
OneMore(s, c, u, t) ==
    /\ t \in Seq(Text) /\ Len(t) = Len(s) + 1
    /\ t[c + 1] = u /\ (\A i \in 1..c : t[i] = s[i])
    /\ \A i \in (c + 2)..(Len(s) + 1) : t[i] = s[i - 1]

OneLess(s, c, t) ==
    /\ t \in Seq(Text) /\ Len(t) = Len(s) - 1
    /\ (\A i \in 1..c : t[i] = s[i])
    /\ \A i \in (c + 1)..(Len(s) - 1) : t[i] = s[i + 1]

\* An entry is put in after the first c ones.
LEMMA Inserted ==
    ASSUME NEW s \in Seq(Text), NEW c \in 0..Len(s), NEW u \in Text, NEW t, t = InsertAt(s, c + 1, u)
    PROVE  OneMore(s, c, u, t)
<1>1. Len(s) \in Nat /\ c \in Nat
  BY LenProperties
<1>2. PICK a : a = SubSeq(s, 1, c)
  OBVIOUS
<1>3. PICK b : b = SubSeq(s, c + 1, Len(s))
  OBVIOUS
<1>4. a \in Seq(Text) /\ Len(a) = c /\ \A i \in 1..c : a[i] = s[i]
  <2>1. 1 \in 1..(Len(s) + 1) /\ c \in (1 - 1)..Len(s)
    BY <1>1
  <2>2. /\ a \in Seq(Text) /\ Len(a) = c - 1 + 1
        /\ \A i \in 1..(c - 1 + 1) : a[i] = s[1 + i - 1]
    BY <1>2, <2>1, Part
  <2> QED
    BY <1>1, <2>2
<1>5. b \in Seq(Text) /\ Len(b) = Len(s) - c /\ \A i \in 1..(Len(s) - c) : b[i] = s[c + i]
  <2>1. c + 1 \in 1..(Len(s) + 1) /\ Len(s) \in ((c + 1) - 1)..Len(s)
    BY <1>1
  <2>2. /\ b \in Seq(Text) /\ Len(b) = Len(s) - (c + 1) + 1
        /\ \A i \in 1..(Len(s) - (c + 1) + 1) : b[i] = s[(c + 1) + i - 1]
    BY <1>3, <2>1, Part
  <2> QED
    BY <1>1, <2>2
<1>6. t = a \o <<u>> \o b
  <2>1. (c + 1) - 1 = c
    BY <1>1
  <2> QED
    BY <1>2, <1>3, <2>1 DEF InsertAt
<1>7. PICK d : d = a \o <<u>>
  OBVIOUS
<1>8. d \in Seq(Text) /\ Len(d) = c + 1 /\ d[c + 1] = u /\ \A i \in 1..c : d[i] = s[i]
  BY <1>1, <1>4, <1>7
<1>9. /\ t \in Seq(Text) /\ Len(t) = Len(d) + Len(b)
      /\ \A i \in 1..(Len(d) + Len(b)) : t[i] = IF i <= Len(d) THEN d[i] ELSE b[i - Len(d)]
  <2>1. t = d \o b
    BY <1>6, <1>7
  <2>2. d \in Seq(Text) /\ b \in Seq(Text)
    BY <1>5, <1>8
  <2>3. /\ d \o b \in Seq(Text) /\ Len(d \o b) = Len(d) + Len(b)
        /\ \A i \in 1..(Len(d) + Len(b)) :
             (d \o b)[i] = IF i <= Len(d) THEN d[i] ELSE b[i - Len(d)]
    BY <2>2, ConcatProperties
  <2> QED
    BY <2>1, <2>3
<1>10. ASSUME NEW i \in (c + 2)..(Len(s) + 1)
       PROVE  t[i] = s[i - 1]
  <2>1. i \in 1..(Len(d) + Len(b)) /\ ~(i <= Len(d)) /\ i - Len(d) \in 1..(Len(s) - c)
    BY <1>1, <1>5, <1>8
  <2>2. t[i] = b[i - Len(d)] /\ b[i - Len(d)] = s[c + (i - Len(d))]
    BY <1>5, <1>9, <2>1
  <2>3. c + (i - Len(d)) = i - 1
    BY <1>1, <1>8
  <2> QED
    BY <2>2, <2>3
<1>11. \A i \in 1..(c + 1) : t[i] = d[i]
  BY <1>1, <1>5, <1>8, <1>9
<1> QED
  BY <1>1, <1>5, <1>8, <1>9, <1>10, <1>11 DEF OneMore

\* The entry after the first c ones is taken out.
LEMMA Removed ==
    ASSUME NEW s \in Seq(Text), NEW c \in Nat, c < Len(s), NEW t, t = RemoveAt(s, c + 1)
    PROVE  OneLess(s, c, t)
<1>1. Len(s) \in Nat
  BY LenProperties
<1>2. PICK a : a = SubSeq(s, 1, c)
  OBVIOUS
<1>3. PICK b : b = SubSeq(s, c + 2, Len(s))
  OBVIOUS
<1>4. a \in Seq(Text) /\ Len(a) = c /\ \A i \in 1..c : a[i] = s[i]
  <2>1. 1 \in 1..(Len(s) + 1) /\ c \in (1 - 1)..Len(s)
    BY <1>1
  <2>2. /\ a \in Seq(Text) /\ Len(a) = c - 1 + 1
        /\ \A i \in 1..(c - 1 + 1) : a[i] = s[1 + i - 1]
    BY <1>2, <2>1, Part
  <2> QED
    BY <1>1, <2>2
<1>5. /\ b \in Seq(Text) /\ Len(b) = Len(s) - c - 1
      /\ \A i \in 1..(Len(s) - c - 1) : b[i] = s[c + i + 1]
  <2>1. c + 2 \in 1..(Len(s) + 1) /\ Len(s) \in ((c + 2) - 1)..Len(s)
    BY <1>1
  <2>2. /\ b \in Seq(Text) /\ Len(b) = Len(s) - (c + 2) + 1
        /\ \A i \in 1..(Len(s) - (c + 2) + 1) : b[i] = s[(c + 2) + i - 1]
    BY <1>3, <2>1, Part
  <2>3. \A i \in 1..(Len(s) - c - 1) : i \in 1..(Len(s) - (c + 2) + 1) /\ (c + 2) + i - 1 = c + i + 1
    BY <1>1
  <2> QED
    BY <1>1, <2>2, <2>3
<1>6. t = a \o b
  <2>1. (c + 1) - 1 = c /\ (c + 1) + 1 = c + 2
    OBVIOUS
  <2> QED
    BY <1>2, <1>3, <2>1 DEF RemoveAt
<1>7. /\ t \in Seq(Text) /\ Len(t) = Len(a) + Len(b)
      /\ \A i \in 1..(Len(a) + Len(b)) : t[i] = IF i <= Len(a) THEN a[i] ELSE b[i - Len(a)]
  <2>1. a \in Seq(Text) /\ b \in Seq(Text)
    BY <1>4, <1>5
  <2>2. /\ a \o b \in Seq(Text) /\ Len(a \o b) = Len(a) + Len(b)
        /\ \A i \in 1..(Len(a) + Len(b)) :
             (a \o b)[i] = IF i <= Len(a) THEN a[i] ELSE b[i - Len(a)]
    BY <2>1, ConcatProperties
  <2> QED
    BY <1>6, <2>2
<1>8. ASSUME NEW i \in (c + 1)..(Len(s) - 1)
      PROVE  t[i] = s[i + 1]
  <2>1. i \in 1..(Len(a) + Len(b)) /\ ~(i <= Len(a)) /\ i - c \in 1..(Len(s) - c - 1)
    BY <1>1, <1>4, <1>5
  <2>2. t[i] = b[i - c] /\ b[i - c] = s[c + (i - c) + 1]
    BY <1>4, <1>5, <1>7, <2>1
  <2>3. c + (i - c) + 1 = i + 1
    BY <1>1
  <2> QED
    BY <2>2, <2>3
<1>9. ASSUME NEW i \in 1..c
      PROVE  t[i] = a[i]
  <2>1. i \in 1..(Len(a) + Len(b)) /\ i <= Len(a)
    BY <1>1, <1>4, <1>5
  <2>2. t[i] = IF i <= Len(a) THEN a[i] ELSE b[i - Len(a)]
    BY <1>7, <2>1
  <2> QED
    BY <2>1, <2>2
<1> QED
  BY <1>1, <1>4, <1>5, <1>7, <1>8, <1>9 DEF OneLess

-----------------------------------------------------------------------------
(* Units joined *)

\* The first i units joined, for each i.
Joins(units, p) ==
    /\ p \in [0..Len(units) -> Text] /\ p[0] = <<>>
    /\ \A i \in 1..Len(units) : p[i] = p[i - 1] \o units[i]

\* They are there.
LEMMA JoinsExist ==
    ASSUME NEW units \in Seq(Text)
    PROVE  \E p : Joins(units, p)
<1>1. PICK n \in Nat : n = Len(units)
  BY LenProperties
<1>2. PICK step : step = [i \in 1..n |-> [v \in Text |-> v \o units[i]]]
  OBVIOUS
<1>3. \A i \in 1..n, v \in Text : step[i][v] = v \o units[i]
  BY <1>2
<1>4. step \in [1..n -> [Text -> Text]]
  <2>1. ASSUME NEW i \in 1..n, NEW v \in Text
        PROVE  v \o units[i] \in Text
    <3>1. units[i] \in Text
      BY <1>1
    <3> QED
      BY <3>1 DEF Text
  <2> QED
    BY <1>2, <2>1
<1>5. PICK p \in [0..n -> Text] : p[0] = <<>> /\ \A i \in 1..n : p[i] = step[i][p[i - 1]]
  <2>1. <<>> \in Text
    BY DEF Text
  <2>2. \E g : Iterates(g, Text, <<>>, n, step)
    BY <1>4, <2>1, RecursiveFunction
  <2> QED
    BY <2>2 DEF Iterates
<1>6. ASSUME NEW i \in 1..n
      PROVE  p[i] = p[i - 1] \o units[i]
  <2>1. PICK v \in Text : v = p[i - 1]
    BY <1>5
  <2>2. step[i][v] = v \o units[i]
    BY <1>3
  <2> QED
    BY <1>5, <2>1, <2>2
<1> QED
  BY <1>1, <1>5, <1>6 DEF Joins

\* The last of them is the whole.
LEMMA JoinedIs ==
    ASSUME NEW units \in Seq(Text), NEW p, Joins(units, p)
    PROVE  joined(units) = p[Len(units)]
<1>1. PICK n \in Nat : n = Len(units)
  BY LenProperties
<1>2. /\ p \in [0..n -> Text] /\ p[0] = <<>>
      /\ \A i \in 1..n : p[i] = p[i - 1] \o units[i]
  BY <1>1 DEF Joins
<1>3. CASE n = 0
  <2>1. joined(units) = units
    BY <1>1, <1>3 DEF joined, FlattenSeq
  <2>2. units = <<>>
    BY <1>1, <1>3, EmptySeq
  <2> QED
    BY <1>1, <1>2, <1>3, <2>1, <2>2
<1>4. CASE n # 0
  <2>1. PICK u : u = CHOOSE h : h = [i \in 1..n |-> IF i = 1 THEN units[i] ELSE h[i - 1] \o units[i]]
    OBVIOUS
  <2>2. joined(units) = u[n]
    BY <1>1, <1>4, <2>1 DEF joined, FlattenSeq
  <2>3. PICK g : g = [i \in 1..n |-> p[i]]
    OBVIOUS
  <2>4. \A i \in 1..n : g[i] = IF i = 1 THEN units[i] ELSE g[i - 1] \o units[i]
    <3> SUFFICES ASSUME NEW i \in 1..n
                 PROVE  g[i] = IF i = 1 THEN units[i] ELSE g[i - 1] \o units[i]
      OBVIOUS
    <3>1. g[i] = p[i - 1] \o units[i] /\ units[i] \in Text
      BY <1>1, <1>2, <2>3
    <3>2. CASE i = 1
      <4>1. p[i - 1] = <<>> /\ <<>> \o units[i] = units[i]
        BY <1>2, <3>1, <3>2, ConcatEmptySeq DEF Text
      <4> QED
        BY <3>1, <3>2, <4>1
    <3>3. CASE i # 1
      <4>1. i - 1 \in 1..n
        BY <3>3
      <4>2. g[i - 1] = p[i - 1]
        BY <2>3, <4>1
      <4> QED
        BY <3>1, <3>3, <4>2
    <3> QED
      BY <3>2, <3>3
  <2>5. g = [i \in 1..n |-> IF i = 1 THEN units[i] ELSE g[i - 1] \o units[i]]
    BY <2>3, <2>4
  <2>6. u = [i \in 1..n |-> IF i = 1 THEN units[i] ELSE u[i - 1] \o units[i]]
    BY <2>1, <2>5
  <2>7. \A i \in 1..n : u[i] = IF i = 1 THEN units[i] ELSE u[i - 1] \o units[i]
    BY <2>6
  <2>8. PICK S : S = {m \in Nat : m + 1 <= n => u[m + 1] = g[m + 1]}
    OBVIOUS
  <2>9. 0 \in S
    <3>1. 1 \in 1..n
      BY <1>4
    <3>2. u[1] = units[1] /\ g[1] = units[1]
      BY <2>4, <2>7, <3>1
    <3> QED
      BY <2>8, <3>2
  <2>10. ASSUME NEW m \in Nat, m \in S
         PROVE  m + 1 \in S
    <3>1. CASE (m + 1) + 1 <= n
      <4>1. PICK i \in 1..n : i = (m + 1) + 1
        BY <3>1
      <4>2. i - 1 = m + 1 /\ i # 1 /\ u[i - 1] = g[i - 1]
        BY <2>8, <2>10, <3>1, <4>1
      <4>3. u[i] = g[i]
        BY <2>4, <2>7, <4>2
      <4> QED
        BY <2>8, <4>1, <4>3
    <3>2. CASE ~((m + 1) + 1 <= n)
      BY <2>8, <3>2
    <3> QED
      BY <3>1, <3>2
  <2>11. \A m \in Nat : m \in S
    BY <2>9, <2>10, Induction
  <2>12. n - 1 \in S /\ (n - 1) + 1 = n
    BY <1>4, <2>11
  <2>13. u[n] = g[n]
    BY <2>8, <2>12
  <2>14. g[n] = p[n]
    BY <1>4, <2>3
  <2> QED
    BY <1>1, <2>2, <2>13, <2>14
<1> QED
  BY <1>3, <1>4

\* Units joined are a text.
LEMMA JoinedText ==
    ASSUME NEW units \in Seq(Text)
    PROVE  joined(units) \in Text
<1>1. PICK p : Joins(units, p)
  BY JoinsExist
<1>2. joined(units) = p[Len(units)] /\ Len(units) \in 0..Len(units)
  BY <1>1, JoinedIs, LenProperties
<1> QED
  BY <1>1, <1>2 DEF Joins

\* No units, and one.
LEMMA JoinedFew ==
    ASSUME TRUE
    PROVE  joined(<<>>) = <<>> /\ \A u \in Text : joined(<<u>>) = u
<1>1. joined(<<>>) = <<>>
  BY DEF joined, FlattenSeq
<1>2. ASSUME NEW u \in Text
      PROVE  joined(<<u>>) = u
  <2>1. <<u>> \in Seq(Text) /\ Len(<<u>>) = 1 /\ <<u>>[1] = u
    OBVIOUS
  <2>2. PICK p : Joins(<<u>>, p)
    BY <2>1, JoinsExist
  <2>3. joined(<<u>>) = p[1]
    BY <2>1, <2>2, JoinedIs
  <2>4. p[1] = p[0] \o u /\ p[0] = <<>>
    BY <2>1, <2>2 DEF Joins
  <2>5. <<>> \o u = u
    BY ConcatEmptySeq DEF Text
  <2> QED
    BY <2>3, <2>4, <2>5
<1> QED
  BY <1>1, <1>2

\* Texts are joined in any order.
LEMMA TextAssociative ==
    ASSUME NEW a \in Text, NEW b \in Text, NEW c \in Text
    PROVE  (a \o b) \o c = a \o (b \o c)
BY ConcatAssociative DEF Text

\* Two lists of units, one after the other.
LEMMA JoinedConcat ==
    ASSUME NEW s \in Seq(Text), NEW t \in Seq(Text)
    PROVE  joined(s \o t) = joined(s) \o joined(t)
<1>1. PICK st : st = s \o t
  OBVIOUS
<1>2. PICK n \in Nat : n = Len(s)
  BY LenProperties
<1>3. PICK m \in Nat : m = Len(t)
  BY LenProperties
<1>4. /\ st \in Seq(Text) /\ Len(st) = n + m
      /\ \A i \in 1..(n + m) : st[i] = IF i <= n THEN s[i] ELSE t[i - n]
  <2>1. /\ s \o t \in Seq(Text) /\ Len(s \o t) = Len(s) + Len(t)
        /\ \A i \in 1..(Len(s) + Len(t)) : (s \o t)[i] = IF i <= Len(s) THEN s[i] ELSE t[i - Len(s)]
    BY ConcatProperties
  <2> QED
    BY <1>1, <1>2, <1>3, <2>1
<1>5. PICK p : Joins(s, p)
  BY JoinsExist
<1>6. PICK q : Joins(t, q)
  BY JoinsExist
<1>7. PICK r : Joins(st, r)
  BY <1>4, JoinsExist
<1>8. /\ p \in [0..n -> Text] /\ p[0] = <<>>
      /\ \A i \in 1..n : p[i] = p[i - 1] \o s[i]
  BY <1>2, <1>5 DEF Joins
<1>9. /\ q \in [0..m -> Text] /\ q[0] = <<>>
      /\ \A i \in 1..m : q[i] = q[i - 1] \o t[i]
  BY <1>3, <1>6 DEF Joins
<1>10. /\ r \in [0..(n + m) -> Text] /\ r[0] = <<>>
       /\ \A i \in 1..(n + m) : r[i] = r[i - 1] \o st[i]
  BY <1>4, <1>7 DEF Joins
<1>11. r[n] = p[n]
  <2>1. PICK S : S = {k \in Nat : k <= n => r[k] = p[k]}
    OBVIOUS
  <2>2. 0 \in S
    BY <1>8, <1>10, <2>1
  <2>3. ASSUME NEW k \in Nat, k \in S
        PROVE  k + 1 \in S
    <3>1. CASE k + 1 <= n
      <4>1. PICK i \in 1..n : i = k + 1
        BY <3>1
      <4>2. i \in 1..(n + m) /\ i <= n /\ i - 1 = k /\ r[i - 1] = p[i - 1]
        BY <2>1, <2>3, <4>1
      <4>3. st[i] = s[i]
        BY <1>4, <4>2
      <4>4. r[i] = p[i]
        BY <1>8, <1>10, <4>2, <4>3
      <4> QED
        BY <2>1, <4>1, <4>4
    <3>2. CASE ~(k + 1 <= n)
      BY <2>1, <3>2
    <3> QED
      BY <3>1, <3>2
  <2>4. n \in S
    BY <2>2, <2>3, Induction
  <2> QED
    BY <2>1, <2>4
<1>12. r[n + m] = p[n] \o q[m]
  <2>a. PICK c : c = [k \in 0..m |-> p[n] \o q[k]]
    OBVIOUS
  <2>b. PICK S : S = {k \in Nat : k <= m => r[n + k] = c[k]}
    OBVIOUS
  <2>1. \A k \in 0..m : c[k] = p[n] \o q[k]
    BY <2>a
  <2>2. p[n] \in Text
    BY <1>8
  <2>3. 0 \in S
    <3>1. p[n] \o <<>> = p[n]
      BY <2>2, ConcatEmptySeq DEF Text
    <3>2. 0 \in 0..m /\ n + 0 = n
      OBVIOUS
    <3>3. c[0] = p[n]
      BY <1>9, <2>1, <3>1, <3>2
    <3> QED
      BY <1>11, <2>b, <3>2, <3>3
  <2>4. ASSUME NEW k \in Nat, k \in S
        PROVE  k + 1 \in S
    <3>1. CASE k + 1 <= m
      <4>1. PICK j \in 1..m : j = k + 1
        BY <3>1
      <4>2. PICK i \in 1..(n + m) : i = n + j
        OBVIOUS
      <4>3. ~(i <= n) /\ i - n = j /\ i - 1 = n + k /\ j - 1 = k /\ k \in 0..m
        BY <4>1, <4>2
      <4>4. st[i] = t[j]
        BY <1>4, <4>3
      <4>5. r[i] = (p[n] \o q[k]) \o t[j]
        <5>1. r[n + k] = c[k]
          BY <2>b, <2>4, <4>3
        <5>2. r[i] = r[n + k] \o t[j]
          BY <1>10, <4>3, <4>4
        <5> QED
          BY <2>1, <4>3, <5>1, <5>2
      <4>6. q[k] \in Text /\ t[j] \in Text
        <5>1. q \in [0..m -> Text] /\ k \in 0..m
          BY <1>9, <4>3
        <5>2. j \in 1..Len(t)
          BY <1>3
        <5> QED
          BY <5>1, <5>2, ElementOfSeq
      <4>7. (p[n] \o q[k]) \o t[j] = p[n] \o (q[k] \o t[j])
        BY <2>2, <4>6, TextAssociative
      <4>8. q[j] = q[k] \o t[j]
        BY <1>9, <4>3
      <4>9. r[i] = p[n] \o q[j]
        BY <4>5, <4>7, <4>8
      <4>10. c[j] = p[n] \o q[j]
        <5>1. j \in 0..m
          OBVIOUS
        <5> QED
          BY <2>1, <5>1, Zenon
      <4>11. r[n + (k + 1)] = c[k + 1]
        BY <4>1, <4>2, <4>9, <4>10
      <4> QED
        BY <2>b, <4>11
    <3>2. CASE ~(k + 1 <= m)
      BY <2>b, <3>2
    <3> QED
      BY <3>1, <3>2
  <2>5. m \in S
    BY <2>3, <2>4, Induction
  <2>6. r[n + m] = c[m]
    BY <2>b, <2>5
  <2>7. m \in 0..m
    OBVIOUS
  <2>8. c[m] = p[n] \o q[m]
    BY <2>1, <2>7, Zenon
  <2> QED
    BY <2>6, <2>8
<1>13. joined(s) = p[n] /\ joined(t) = q[m]
  BY <1>2, <1>3, <1>5, <1>6, JoinedIs
<1>14. joined(st) = r[n + m]
  BY <1>4, <1>7, JoinedIs
<1> QED
  BY <1>1, <1>12, <1>13, <1>14

-----------------------------------------------------------------------------
(* A text split *)

\* The unit that starts at byte i, and where the next one starts.
UnitAt(text, i) == SubSeq(text, i, i + UnitLength(text, i) - 1)
NextUnit(text, i) == i + UnitLength(text, i)

\* A unit has a byte, and ends within the text.
LEMMA UnitFacts ==
    ASSUME NEW text \in Text, NEW i \in 1..Len(text)
    PROVE  /\ NextUnit(text, i) \in (i + 1)..(Len(text) + 1)
           /\ UnitAt(text, i) \in Text /\ Len(UnitAt(text, i)) = UnitLength(text, i)
           /\ UnitLength(text, i) \in Nat \ {0}
<1>1. Len(text) \in Nat /\ text \in Seq(Byte)
  BY LenProperties DEF Text
<1>2. PICK n : n = utf8_length(text[i])
  OBVIOUS
<1>3. n \in 1..4
  BY <1>2 DEF utf8_length
<1>4. PICK k : k = UnitLength(text, i)
  OBVIOUS
<1>5. (k = n /\ i + n - 1 <= Len(text)) \/ k = 1
  BY <1>2, <1>4 DEF UnitLength
<1>6. k \in 1..4 /\ i + k - 1 <= Len(text)
  BY <1>1, <1>3, <1>5
<1>7. i \in 1..(Len(text) + 1) /\ i + k - 1 \in (i - 1)..Len(text)
  BY <1>1, <1>6
<1>8. PICK u : u = SubSeq(text, i, i + k - 1)
  OBVIOUS
<1>9. u \in Seq(Byte) /\ Len(u) = (i + k - 1) - i + 1
  BY <1>1, <1>7, <1>8, Part
<1>10. u \in Text /\ Len(u) = k
  BY <1>6, <1>9 DEF Text
<1>11. UnitAt(text, i) = u /\ NextUnit(text, i) = i + k
  BY <1>4, <1>8 DEF UnitAt, NextUnit
<1>12. i + k \in (i + 1)..(Len(text) + 1) /\ k \in Nat \ {0}
  BY <1>1, <1>6
<1> QED
  BY <1>4, <1>10, <1>11, <1>12

\* The units of the text from each byte on, as far back as byte j.
SplitsFrom(text, j, h) ==
    /\ h \in [1..(Len(text) + 1) -> Seq(Text)] /\ h[Len(text) + 1] = <<>>
    /\ \A i \in 1..Len(text) : i >= j => h[i] = <<UnitAt(text, i)>> \o h[NextUnit(text, i)]

\* They are there.
LEMMA SplitsExist ==
    ASSUME NEW text \in Text
    PROVE  \E g : SplitsFrom(text, 1, g)
<1>1. PICK n \in Nat : n = Len(text)
  BY LenProperties DEF Text
<1>2. PICK S : S = {m \in Nat : \E h : SplitsFrom(text, n + 1 - m, h)}
  OBVIOUS
<1>3. 0 \in S
  <2>1. PICK h : h = [i \in 1..(n + 1) |-> <<>>]
    OBVIOUS
  <2>2. h \in [1..(n + 1) -> Seq(Text)] /\ h[n + 1] = <<>>
    BY <2>1
  <2>3. \A i \in 1..n : ~(i >= n + 1)
    OBVIOUS
  <2>4. SplitsFrom(text, n + 1, h)
    BY <1>1, <2>2, <2>3 DEF SplitsFrom
  <2>5. n + 1 - 0 = n + 1
    OBVIOUS
  <2> QED
    BY <1>2, <2>4, <2>5
<1>4. ASSUME NEW m \in Nat, m \in S
      PROVE  m + 1 \in S
  <2>1. PICK g : SplitsFrom(text, n + 1 - m, g)
    BY <1>2, <1>4
  <2>2. PICK j \in Int : j = n + 1 - (m + 1)
    OBVIOUS
  <2>3. j + 1 = n + 1 - m
    BY <2>2
  <2>4. /\ g \in [1..(n + 1) -> Seq(Text)] /\ g[n + 1] = <<>>
        /\ \A i \in 1..n : i >= j + 1 => g[i] = <<UnitAt(text, i)>> \o g[NextUnit(text, i)]
    BY <1>1, <2>1, <2>3 DEF SplitsFrom
  <2>5. CASE j \in 1..n
    <3>1. PICK k \in (j + 1)..(n + 1) : k = NextUnit(text, j)
      BY <1>1, <2>5, UnitFacts
    <3>2. UnitAt(text, j) \in Text /\ g[k] \in Seq(Text)
      <4>1. UnitAt(text, j) \in Text
        BY <1>1, <2>5, UnitFacts
      <4>2. k \in 1..(n + 1)
        BY <2>5
      <4> QED
        BY <2>4, <4>1, <4>2
    <3>3. PICK v : v = <<UnitAt(text, j)>> \o g[k]
      OBVIOUS
    <3>4. v \in Seq(Text)
      BY <3>2, <3>3
    <3>5. PICK h : h = [i \in 1..(n + 1) |-> IF i = j THEN v ELSE g[i]]
      OBVIOUS
    <3>6. /\ h \in [1..(n + 1) -> Seq(Text)] /\ h[j] = v /\ h[n + 1] = <<>>
          /\ \A i \in 1..(n + 1) : i # j => h[i] = g[i]
      BY <2>4, <2>5, <3>4, <3>5
    <3>7. ASSUME NEW i \in 1..n, i >= j
          PROVE  h[i] = <<UnitAt(text, i)>> \o h[NextUnit(text, i)]
      <4>1. PICK l \in (i + 1)..(n + 1) : l = NextUnit(text, i)
        BY <1>1, UnitFacts
      <4>2. l \in 1..(n + 1) /\ l # j
        BY <2>5, <3>7, <4>1
      <4>3. h[l] = g[l]
        BY <3>6, <4>2
      <4>4. CASE i = j
        BY <3>1, <3>3, <3>6, <4>1, <4>3, <4>4
      <4>5. CASE i # j
        <5>1. i >= j + 1 /\ i \in 1..(n + 1)
          BY <2>5, <3>7, <4>5
        <5>2. g[i] = <<UnitAt(text, i)>> \o g[l]
          BY <2>4, <4>1, <5>1
        <5>3. h[i] = g[i]
          BY <3>6, <4>5, <5>1
        <5> QED
          BY <4>1, <4>3, <5>2, <5>3
      <4> QED
        BY <4>4, <4>5
    <3>8. SplitsFrom(text, j, h)
      BY <1>1, <3>6, <3>7 DEF SplitsFrom
    <3> QED
      BY <1>2, <2>2, <3>8
  <2>6. CASE j \notin 1..n
    <3>1. \A i \in 1..n : i >= j => i >= j + 1
      BY <2>6
    <3>2. SplitsFrom(text, j, g)
      BY <1>1, <2>4, <3>1 DEF SplitsFrom
    <3> QED
      BY <1>2, <2>2, <3>2
  <2> QED
    BY <2>5, <2>6
<1>5. n \in S
  BY <1>3, <1>4, Induction
<1>6. n + 1 - n = 1
  OBVIOUS
<1> QED
  BY <1>2, <1>5, <1>6

\* The first of them is the text split.
LEMMA SplitIs ==
    ASSUME NEW text \in Text, NEW g, SplitsFrom(text, 1, g)
    PROVE  split_utf8(text) = g[1]
<1>1. PICK n \in Nat : n = Len(text)
  BY LenProperties DEF Text
<1>2. /\ g \in [1..(n + 1) -> Seq(Text)] /\ g[n + 1] = <<>>
      /\ \A i \in 1..n : g[i] = <<UnitAt(text, i)>> \o g[NextUnit(text, i)]
  BY <1>1 DEF SplitsFrom
<1>3. PICK u : u = CHOOSE h : h = [i \in 1..(n + 1) |->
          IF i > n THEN <<>> ELSE <<UnitAt(text, i)>> \o h[NextUnit(text, i)]]
  OBVIOUS
<1>4. split_utf8(text) = u[1]
  BY <1>1, <1>3 DEF split_utf8, UnitAt, NextUnit
<1>5. \A i \in 1..(n + 1) :
        g[i] = IF i > n THEN <<>> ELSE <<UnitAt(text, i)>> \o g[NextUnit(text, i)]
  <2> SUFFICES ASSUME NEW i \in 1..(n + 1)
               PROVE  g[i] = IF i > n THEN <<>> ELSE <<UnitAt(text, i)>> \o g[NextUnit(text, i)]
    OBVIOUS
  <2>1. CASE i > n
    <3>1. i = n + 1
      BY <2>1
    <3> QED
      BY <1>2, <2>1, <3>1
  <2>2. CASE ~(i > n)
    <3>1. i \in 1..n
      BY <2>2
    <3> QED
      BY <1>2, <2>2, <3>1
  <2> QED
    BY <2>1, <2>2
<1>6. g = [i \in 1..(n + 1) |->
             IF i > n THEN <<>> ELSE <<UnitAt(text, i)>> \o g[NextUnit(text, i)]]
  BY <1>2, <1>5
<1>7. u = [i \in 1..(n + 1) |->
             IF i > n THEN <<>> ELSE <<UnitAt(text, i)>> \o u[NextUnit(text, i)]]
  BY <1>3, <1>6
<1>8. \A i \in 1..(n + 1) :
        u[i] = IF i > n THEN <<>> ELSE <<UnitAt(text, i)>> \o u[NextUnit(text, i)]
  BY <1>7
<1>9. PICK S : S = {m \in Nat : \A i \in 1..(n + 1) : i + m >= n + 1 => u[i] = g[i]}
  OBVIOUS
<1>10. 0 \in S
  <2>1. ASSUME NEW i \in 1..(n + 1), i + 0 >= n + 1
        PROVE  u[i] = g[i]
    <3>1. i > n
      BY <2>1
    <3>2. u[i] = <<>> /\ g[i] = <<>>
      BY <1>5, <1>8, <3>1
    <3> QED
      BY <3>2
  <2> QED
    BY <1>9, <2>1
<1>11. ASSUME NEW m \in Nat, m \in S
       PROVE  m + 1 \in S
  <2>1. ASSUME NEW i \in 1..(n + 1), i + (m + 1) >= n + 1
        PROVE  u[i] = g[i]
    <3>1. CASE i > n
      BY <1>5, <1>8, <3>1
    <3>2. CASE ~(i > n)
      <4>1. i \in 1..n
        BY <3>2
      <4>2. PICK l \in (i + 1)..(n + 1) : l = NextUnit(text, i)
        BY <1>1, <4>1, UnitFacts
      <4>3. l \in 1..(n + 1) /\ l + m >= n + 1
        BY <2>1, <4>2
      <4>4. u[l] = g[l]
        BY <1>9, <1>11, <4>3
      <4> QED
        BY <1>5, <1>8, <3>2, <4>2, <4>4
    <3> QED
      BY <3>1, <3>2
  <2> QED
    BY <1>9, <2>1
<1>12. n \in S
  BY <1>10, <1>11, Induction
<1>13. 1 \in 1..(n + 1) /\ 1 + n >= n + 1
  OBVIOUS
<1>14. u[1] = g[1]
  BY <1>9, <1>12, <1>13
<1> QED
  BY <1>4, <1>14

\* A text split and joined is the text.
LEMMA SplitJoined ==
    ASSUME NEW text \in Text
    PROVE  split_utf8(text) \in Seq(Text) /\ joined(split_utf8(text)) = text
<1>1. PICK n \in Nat : n = Len(text)
  BY LenProperties DEF Text
<1>2. PICK g : SplitsFrom(text, 1, g)
  BY SplitsExist
<1>3. split_utf8(text) = g[1]
  BY <1>2, SplitIs
<1>4. /\ g \in [1..(n + 1) -> Seq(Text)] /\ g[n + 1] = <<>>
      /\ \A i \in 1..n : g[i] = <<UnitAt(text, i)>> \o g[NextUnit(text, i)]
  BY <1>1, <1>2 DEF SplitsFrom
<1>5. PICK S : S = {m \in Nat : \A i \in 1..(n + 1) : i + m >= n + 1 => joined(g[i]) = SubSeq(text, i, n)}
  OBVIOUS
<1>6. joined(g[n + 1]) = SubSeq(text, n + 1, n)
  <2>1. SubSeq(text, n + 1, n) = <<>>
    BY SubSeqEmpty
  <2> QED
    BY <1>4, <2>1, JoinedFew
<1>7. 0 \in S
  <2>1. \A i \in 1..(n + 1) : i + 0 >= n + 1 => i = n + 1
    OBVIOUS
  <2> QED
    BY <1>5, <1>6, <2>1
<1>8. ASSUME NEW m \in Nat, m \in S
       PROVE  m + 1 \in S
  <2>1. ASSUME NEW i \in 1..(n + 1), i + (m + 1) >= n + 1
        PROVE  joined(g[i]) = SubSeq(text, i, n)
    <3>1. CASE i > n
      <4>1. i = n + 1
        BY <3>1
      <4> QED
        BY <1>6, <4>1
    <3>2. CASE ~(i > n)
      <4>1. i \in 1..n
        BY <3>2
      <4>2. PICK l \in (i + 1)..(n + 1) : l = NextUnit(text, i)
        BY <1>1, <4>1, UnitFacts
      <4>3. l \in 1..(n + 1) /\ l + m >= n + 1
        BY <2>1, <4>2
      <4>4. joined(g[l]) = SubSeq(text, l, n)
        BY <1>5, <1>8, <4>3
      <4>5. PICK a : a = UnitAt(text, i)
        OBVIOUS
      <4>6. a \in Text /\ a = SubSeq(text, i, l - 1)
        <5>1. a \in Text
          BY <1>1, <4>1, <4>5, UnitFacts
        <5>2. PICK c : c = UnitLength(text, i)
          OBVIOUS
        <5>3. a = SubSeq(text, i, i + c - 1) /\ l = i + c
          BY <4>2, <4>5, <5>2 DEF UnitAt, NextUnit
        <5>4. c \in Nat
          BY <1>1, <4>1, <5>2, UnitFacts
        <5>5. i + c - 1 = l - 1
          BY <5>3, <5>4
        <5> QED
          BY <5>1, <5>3, <5>5
      <4>7. PICK b : b = g[l]
        OBVIOUS
      <4>8. b \in Seq(Text) /\ g[i] = <<a>> \o b
        BY <1>4, <4>1, <4>2, <4>3, <4>5, <4>7
      <4>9. <<a>> \in Seq(Text)
        BY <4>6
      <4>10. joined(<<a>> \o b) = joined(<<a>>) \o joined(b)
        BY <4>8, <4>9, JoinedConcat
      <4>11. joined(<<a>>) = a
        BY <4>6, JoinedFew
      <4>12. joined(g[i]) = SubSeq(text, i, l - 1) \o SubSeq(text, l, n)
        BY <4>4, <4>6, <4>7, <4>8, <4>10, <4>11
      <4>13. SubSeq(text, i, l - 1) \o SubSeq(text, (l - 1) + 1, n) = SubSeq(text, i, n)
        <5>1. PICK k : k = l - 1
          OBVIOUS
        <5>2. i \in 1..(Len(text) + 1) /\ k \in (i - 1)..Len(text) /\ n \in k..Len(text)
          BY <1>1, <4>1, <4>2, <5>1
        <5>3. SubSeq(text, i, k) \o SubSeq(text, k + 1, n) = SubSeq(text, i, n)
          BY <5>2, ConcatAdjacentSubSeq DEF Text
        <5> QED
          BY <5>1, <5>3
      <4>14. (l - 1) + 1 = l
        OBVIOUS
      <4> QED
        BY <4>12, <4>13, <4>14
    <3> QED
      BY <3>1, <3>2
  <2> QED
    BY <1>5, <2>1
<1>9. n \in S
  BY <1>7, <1>8, Induction
<1>10. 1 \in 1..(n + 1) /\ 1 + n >= n + 1
  OBVIOUS
<1>11. joined(g[1]) = SubSeq(text, 1, n)
  BY <1>5, <1>9, <1>10
<1>12. SubSeq(text, 1, n) = text
  BY <1>1, SubSeqFull DEF Text
<1> QED
  BY <1>3, <1>4, <1>10, <1>11, <1>12

-----------------------------------------------------------------------------
(* What each operation does to the line *)

\* The line and the cursor become these, the rest of the state stays.
Becomes(e, f, units, cursor) ==
    /\ Kept(e, f) /\ SameInput(e, f)
    /\ f.history = e.history /\ f.position = e.position
    /\ f.buffer = units /\ f.cursor = cursor

\* An edit of the line that is drawn.
LEMMA LineEdited ==
    ASSUME NEW e, Sound(e), NEW units \in Seq(Text), NEW cursor \in 0..Len(units),
           NEW f, f = render([e EXCEPT !.buffer = units, !.cursor = cursor])
    PROVE  Becomes(e, f, units, cursor)
<1>1. e \in Editors /\ cursor \in Nat /\ Len(units) \in Nat
  BY LenProperties DEF Sound, Editable
<1>2. PICK g : g = [e EXCEPT !.buffer = units, !.cursor = cursor]
  OBVIOUS
<1>3. g \in Editors /\ g.buffer = units /\ g.cursor = cursor
  BY <1>1, <1>2 DEF Editors
<1>4. /\ SameTerminal(e, g) /\ SameInput(e, g) /\ g.screen = e.screen
      /\ g.history = e.history /\ g.position = e.position
  BY <1>1, <1>2 DEF Editors, SameTerminal, SameInput
<1>5. g.cursor <= Len(g.buffer) /\ g.position <= Len(g.history)
  BY <1>1, <1>3, <1>4 DEF Sound
<1>6. Kept(e, f) /\ SameText(g, f) /\ SameInput(g, f)
  BY <1>2, <1>3, <1>4, <1>5, Edited
<1> QED
  BY <1>3, <1>4, <1>6 DEF Becomes, SameText, SameInput

\* Nothing happens.
LEMMA Unchanged ==
    ASSUME NEW e, Sound(e)
    PROVE  Becomes(e, e, e.buffer, e.cursor)
BY DEF Becomes, Kept, SameTerminal, SameInput

\* A unit is put in at the cursor if there is room for it.
LEMMA InsertFacts ==
    ASSUME NEW e, Sound(e), NEW unit \in Text, NEW f, f = insert(e, unit)
    PROVE  \/ f = e
           \/ /\ unit # <<>> /\ input_bytes(e) + Len(unit) <= MaxInputBytes
              /\ Becomes(e, f, InsertAt(e.buffer, e.cursor + 1, unit), e.cursor + 1)
<1>1. e \in Editors /\ e.buffer \in Seq(Text) /\ e.cursor \in 0..Len(e.buffer) /\ Len(e.buffer) \in Nat
  BY LenProperties DEF Sound, Editable, Editors
<1>2. PICK units : units = InsertAt(e.buffer, e.cursor + 1, unit)
  OBVIOUS
<1>3. units \in Seq(Text) /\ Len(units) = Len(e.buffer) + 1
  <2>1. PICK s \in Seq(Text) : s = e.buffer
    BY <1>1
  <2>2. PICK c \in 0..Len(s) : c = e.cursor
    BY <1>1, <2>1
  <2>3. units = InsertAt(s, c + 1, unit)
    BY <1>2, <2>1, <2>2
  <2>4. units \in Seq(Text) /\ Len(units) = Len(s) + 1
    BY <2>3, Inserted DEF OneMore
  <2> QED
    BY <2>1, <2>4
<1>4. e.cursor + 1 \in 0..Len(units)
  BY <1>1, <1>3
<1>5. CASE unit = <<>> \/ input_bytes(e) + Len(unit) > MaxInputBytes
  BY <1>5 DEF insert
<1>6. CASE ~(unit = <<>> \/ input_bytes(e) + Len(unit) > MaxInputBytes)
  <2>1. f = render([e EXCEPT !.buffer = units, !.cursor = e.cursor + 1])
    BY <1>1, <1>2, <1>6 DEF insert, Editors
  <2>2. Becomes(e, f, units, e.cursor + 1)
    BY <1>3, <1>4, <2>1, LineEdited
  <2>3. input_bytes(e) + Len(unit) <= MaxInputBytes
    <3>1. joined(e.buffer) \in Text
      BY <1>1, JoinedText
    <3>2. input_bytes(e) \in Nat /\ Len(unit) \in Nat
      BY <3>1, LenProperties DEF input_bytes, Text
    <3> QED
      BY <1>6, <3>2, TerminalAssumption
  <2> QED
    BY <1>2, <1>6, <2>2, <2>3
<1> QED
  BY <1>5, <1>6

\* The unit before the cursor is taken out.
LEMMA BackspaceFacts ==
    ASSUME NEW e, Sound(e), NEW f, f = backspace(e)
    PROVE  \/ f = e
           \/ e.cursor > 0 /\ Becomes(e, f, RemoveAt(e.buffer, e.cursor), e.cursor - 1)
<1>1. e \in Editors /\ e.buffer \in Seq(Text) /\ e.cursor \in 0..Len(e.buffer) /\ Len(e.buffer) \in Nat
  BY LenProperties DEF Sound, Editable, Editors
<1>2. CASE e.cursor = 0
  BY <1>2 DEF backspace
<1>3. CASE e.cursor # 0
  <2>1. PICK c \in Nat : c = e.cursor - 1
    BY <1>1, <1>3
  <2>2. c < Len(e.buffer) /\ c + 1 = e.cursor
    BY <1>1, <2>1
  <2>3. PICK units : units = RemoveAt(e.buffer, e.cursor)
    OBVIOUS
  <2>4. units \in Seq(Text) /\ Len(units) = Len(e.buffer) - 1
    BY <1>1, <2>2, <2>3, Removed DEF OneLess
  <2>5. c \in 0..Len(units)
    BY <1>1, <2>2, <2>4
  <2>6. f = render([e EXCEPT !.buffer = units, !.cursor = c])
    BY <1>1, <1>3, <2>1, <2>3 DEF backspace, Editors
  <2>7. Becomes(e, f, units, c)
    BY <2>4, <2>5, <2>6, LineEdited
  <2> QED
    BY <1>1, <1>3, <2>1, <2>3, <2>7
<1> QED
  BY <1>2, <1>3

\* The unit after the cursor is taken out.
LEMMA EraseFacts ==
    ASSUME NEW e, Sound(e), NEW f, f = erase_at_cursor(e)
    PROVE  \/ f = e
           \/ /\ e.cursor < Len(e.buffer)
              /\ Becomes(e, f, RemoveAt(e.buffer, e.cursor + 1), e.cursor)
<1>1. /\ e \in Editors /\ e.buffer \in Seq(Text) /\ e.cursor \in 0..Len(e.buffer)
      /\ Len(e.buffer) \in Nat /\ e.cursor \in Nat
  BY LenProperties DEF Sound, Editable, Editors
<1>2. CASE e.cursor >= Len(e.buffer)
  BY <1>2 DEF erase_at_cursor
<1>3. CASE ~(e.cursor >= Len(e.buffer))
  <2>1. e.cursor < Len(e.buffer)
    BY <1>1, <1>3
  <2>2. PICK units : units = RemoveAt(e.buffer, e.cursor + 1)
    OBVIOUS
  <2>3. units \in Seq(Text) /\ Len(units) = Len(e.buffer) - 1
    BY <1>1, <2>1, <2>2, Removed DEF OneLess
  <2>4. e.cursor \in 0..Len(units)
    BY <1>1, <2>1, <2>3
  <2>5. f = render([e EXCEPT !.buffer = units, !.cursor = e.cursor])
    <3>1. [e EXCEPT !.buffer = units] = [e EXCEPT !.buffer = units, !.cursor = e.cursor]
      BY <1>1 DEF Editors
    <3> QED
      BY <1>3, <2>2, <3>1 DEF erase_at_cursor
  <2>6. Becomes(e, f, units, e.cursor)
    BY <2>3, <2>4, <2>5, LineEdited
  <2> QED
    BY <2>1, <2>2, <2>6
<1> QED
  BY <1>2, <1>3

\* The cursor goes elsewhere in the line.
LEMMA CursorMoved ==
    ASSUME NEW e, Sound(e), NEW c \in 0..Len(e.buffer), NEW f, f = render([e EXCEPT !.cursor = c])
    PROVE  Becomes(e, f, e.buffer, c)
<1>1. e \in Editors /\ e.buffer \in Seq(Text)
  BY DEF Sound, Editable, Editors
<1>2. [e EXCEPT !.cursor = c] = [e EXCEPT !.buffer = e.buffer, !.cursor = c]
  BY <1>1 DEF Editors
<1> QED
  BY <1>1, <1>2, LineEdited

\* The line is emptied.
LEMMA KillFacts ==
    ASSUME NEW e, Sound(e), NEW f, f = kill_line(e)
    PROVE  Becomes(e, f, <<>>, 0)
<1>1. <<>> \in Seq(Text) /\ 0 \in 0..Len(<<>>)
  OBVIOUS
<1>2. f = render([e EXCEPT !.buffer = <<>>, !.cursor = 0])
  BY DEF kill_line
<1> QED
  BY <1>1, <1>2, LineEdited

\* The line is drawn again.
LEMMA RenderFacts ==
    ASSUME NEW e, Sound(e), NEW f, f = render(e)
    PROVE  Becomes(e, f, e.buffer, e.cursor)
<1>1. Editable(e) /\ e.position <= Len(e.history) /\ (~e.interactive => e.screen = NoLine)
  BY DEF Sound
<1>2. Sound(f) /\ SameTerminal(e, f) /\ SameText(e, f) /\ SameInput(e, f)
  BY <1>1, Redrawn
<1> QED
  BY <1>2 DEF Becomes, Kept, SameText

\* A text replaces the line, at this position of the history.
LEMMA ReplaceFacts ==
    ASSUME NEW e, Sound(e), NEW p \in 0..Len(e.history), NEW text \in Text,
           NEW f, f = replace_buffer([e EXCEPT !.position = p], text)
    PROVE  /\ Kept(e, f) /\ SameInput(e, f) /\ f.history = e.history
           /\ f.buffer = split_utf8(text) /\ f.cursor = Len(f.buffer)
<1>1. e \in Editors /\ p \in Nat
  BY DEF Sound, Editable
<1>2. PICK units : units = split_utf8(text)
  OBVIOUS
<1>3. units \in Seq(Text) /\ Len(units) \in 0..Len(units) /\ Len(units) \in Nat
  BY <1>2, SplitJoined, LenProperties
<1>4. PICK g : g = [e EXCEPT !.position = p, !.buffer = units, !.cursor = Len(units)]
  OBVIOUS
<1>5. g \in Editors /\ g.buffer = units /\ g.cursor = Len(units) /\ g.position = p
  BY <1>1, <1>3, <1>4 DEF Editors
<1>6. SameTerminal(e, g) /\ SameInput(e, g) /\ g.screen = e.screen /\ g.history = e.history
  BY <1>1, <1>4 DEF Editors, SameTerminal, SameInput
<1>7. g.cursor <= Len(g.buffer) /\ g.position <= Len(g.history)
  BY <1>3, <1>5, <1>6 DEF Editors
<1>8. f = render(g)
  BY <1>1, <1>2, <1>4 DEF replace_buffer, with_units, Editors
<1>9. Kept(e, f) /\ SameText(g, f) /\ SameInput(g, f)
  BY <1>5, <1>6, <1>7, <1>8, Edited
<1> QED
  BY <1>2, <1>5, <1>6, <1>9 DEF SameText, SameInput

\* What up and down recall: an earlier line, or an empty one.
Recalls(e, f, text) ==
    /\ Kept(e, f) /\ SameInput(e, f) /\ f.history = e.history
    /\ f.buffer = split_utf8(text) /\ f.cursor = Len(f.buffer)
    /\ text = <<>> \/ \E i \in 1..Len(e.history) : text = e.history[i]

\* A step back in the history.
LEMMA HistoryUpFacts ==
    ASSUME NEW e, Sound(e), NEW f, f = history_up(e)
    PROVE  f = e \/ \E text \in Text : Recalls(e, f, text)
<1>1. /\ e \in Editors /\ e.history \in Seq(Text) /\ e.position \in Nat
      /\ e.position <= Len(e.history) /\ Len(e.history) \in Nat
  BY LenProperties DEF Sound, Editable, Editors
<1>2. CASE e.history = <<>>
  BY <1>2 DEF history_up
<1>3. CASE e.history # <<>>
  <2>1. PICK p : p = IF e.position > 0 THEN e.position - 1 ELSE 0
    OBVIOUS
  <2>2. Len(e.history) \in Nat \ {0}
    BY <1>1, <1>3, EmptySeq
  <2>3. p \in 0..Len(e.history) /\ p + 1 \in 1..Len(e.history)
    BY <1>1, <2>1, <2>2
  <2>4. PICK text \in Text : text = e.history[p + 1]
    BY <1>1, <2>3, ElementOfSeq
  <2>5. f = replace_buffer([e EXCEPT !.position = p], text)
    BY <1>3, <2>1, <2>4 DEF history_up
  <2>6. /\ Kept(e, f) /\ SameInput(e, f) /\ f.history = e.history
        /\ f.buffer = split_utf8(text) /\ f.cursor = Len(f.buffer)
    BY <2>3, <2>5, ReplaceFacts
  <2> QED
    BY <2>3, <2>4, <2>6 DEF Recalls
<1> QED
  BY <1>2, <1>3

\* A step forward, at the end to an empty line.
LEMMA HistoryDownFacts ==
    ASSUME NEW e, Sound(e), NEW f, f = history_down(e)
    PROVE  \E text \in Text : Recalls(e, f, text)
<1>1. /\ e \in Editors /\ e.history \in Seq(Text) /\ e.position \in Nat
      /\ e.position <= Len(e.history) /\ Len(e.history) \in Nat
  BY LenProperties DEF Sound, Editable, Editors
<1>2. PICK p : p = IF e.position < Len(e.history) THEN e.position + 1 ELSE e.position
  OBVIOUS
<1>3. p \in 0..Len(e.history)
  BY <1>1, <1>2
<1>4. PICK text : text = IF p = Len(e.history) THEN <<>> ELSE e.history[p + 1]
  OBVIOUS
<1>5. text \in Text /\ (text = <<>> \/ \E i \in 1..Len(e.history) : text = e.history[i])
  <2>1. CASE p = Len(e.history)
    BY <1>4, <2>1 DEF Text
  <2>2. CASE p # Len(e.history)
    <3>1. p + 1 \in 1..Len(e.history)
      BY <1>1, <1>3, <2>2
    <3> QED
      BY <1>1, <1>4, <2>2, <3>1, ElementOfSeq
  <2> QED
    BY <2>1, <2>2
<1>6. f = replace_buffer([e EXCEPT !.position = p], text)
  BY <1>2, <1>4 DEF history_down
<1>7. /\ Kept(e, f) /\ SameInput(e, f) /\ f.history = e.history
      /\ f.buffer = split_utf8(text) /\ f.cursor = Len(f.buffer)
  BY <1>3, <1>5, <1>6, ReplaceFacts
<1> QED
  BY <1>5, <1>7 DEF Recalls

\* A history in which a line is remembered.
Remembered(history, line, h) ==
    /\ h \in Seq(Text)
    /\ IF line = <<>> \/ (history # <<>> /\ Last(history) = line) THEN h = history
       ELSE \E i \in 1..(Len(history) + 1) : h = Append(SubSeq(history, i, Len(history)), line)

\* The line is entered and remembered.
LEMMA RememberFacts ==
    ASSUME NEW history \in Seq(Text), NEW line \in Text, NEW h, h = Remember(history, line)
    PROVE  Remembered(history, line, h)
<1>1. Len(history) \in Nat
  BY LenProperties
<1>2. CASE line = <<>> \/ (history # <<>> /\ Last(history) = line)
  BY <1>2 DEF Remember, Remembered
<1>3. CASE ~(line = <<>> \/ (history # <<>> /\ Last(history) = line))
  <2>1. CASE Len(history) = MaxHistory
    <3>1. history # <<>>
      BY <2>1, TerminalAssumption, EmptySeq
    <3>2. Tail(history) = SubSeq(history, 2, Len(history)) /\ Tail(history) \in Seq(Text)
      BY <3>1, TailIsSubSeq, HeadTailProperties
    <3>3. h = Append(Tail(history), line)
      BY <1>3, <2>1 DEF Remember
    <3>4. h \in Seq(Text)
      BY <3>2, <3>3
    <3>5. 2 \in 1..(Len(history) + 1)
      BY <1>1, <2>1, TerminalAssumption
    <3> QED
      BY <1>3, <3>2, <3>3, <3>4, <3>5 DEF Remembered
  <2>2. CASE Len(history) # MaxHistory
    <3>1. h = Append(history, line)
      BY <1>3, <2>2 DEF Remember
    <3>2. SubSeq(history, 1, Len(history)) = history
      BY SubSeqFull
    <3>3. h \in Seq(Text)
      BY <3>1
    <3>4. 1 \in 1..(Len(history) + 1)
      BY <1>1
    <3> QED
      BY <1>3, <3>1, <3>2, <3>3, <3>4 DEF Remembered
  <2> QED
    BY <2>1, <2>2
<1> QED
  BY <1>2, <1>3

\* The line and the cursor may become any others.
LEMMA LineChanged ==
    ASSUME NEW e \in Editors, NEW units \in Seq(Text), NEW cursor \in Nat,
           NEW f, f = [e EXCEPT !.buffer = units, !.cursor = cursor]
    PROVE  f \in Editors
BY DEF Editors

\* The line is entered: it goes to the history and the screen is wiped.
LEMMA FinishFacts ==
    ASSUME NEW e, Sound(e), NEW f, f = finish_line(e)
    PROVE  /\ Kept(e, f) /\ SameInput(e, f) /\ f.buffer = <<>> /\ f.cursor = 0
           /\ f.history = Remember(e.history, joined(e.buffer))
<1>1. e \in Editors /\ e.buffer \in Seq(Text) /\ e.history \in Seq(Text)
  BY DEF Sound, Editable, Editors
<1>2. PICK h : h = Remember(e.history, joined(e.buffer))
  OBVIOUS
<1>3. h \in Seq(Text) /\ Len(h) \in Nat
  <2>1. joined(e.buffer) \in Text
    BY <1>1, JoinedText
  <2>2. h \in Seq(Text)
    BY <1>1, <1>2, <2>1, RememberFacts DEF Remembered
  <2> QED
    BY <2>2, LenProperties
<1>4. PICK c : c = clear_input_line(e)
  OBVIOUS
<1>5. /\ c \in Editors /\ SameTerminal(e, c) /\ SameInput(e, c) /\ c.screen = NoLine
  <2>1. CASE e.interactive
    <3>1. c = [e EXCEPT !.screen = NoLine]
      BY <1>4, <2>1 DEF clear_input_line
    <3> QED
      BY <1>1, <3>1, NoLineScreen DEF Editors, SameTerminal, SameInput
  <2>2. CASE ~e.interactive
    <3>1. c = e
      BY <1>4, <2>2 DEF clear_input_line
    <3> QED
      BY <1>1, <2>2, <3>1 DEF Sound, SameTerminal, SameInput
  <2> QED
    BY <1>1, <2>1, <2>2 DEF Editors
<1>6. PICK n \in Nat : n = Len(h)
  BY <1>3
<1>7. /\ f \in Editors /\ f.buffer = <<>> /\ f.cursor = 0 /\ f.history = h
      /\ f.position = Len(h) /\ f.screen = NoLine
  <2>1. f = [c EXCEPT !.history = h, !.position = n, !.buffer = <<>>, !.cursor = 0]
    BY <1>2, <1>4, <1>6 DEF finish_line
  <2>2. PICK g : g = [c EXCEPT !.history = h, !.position = n]
    OBVIOUS
  <2>3. f \in Editors
    <3>1. g \in Editors
      BY <1>3, <1>5, <2>2 DEF Editors
    <3>2. <<>> \in Seq(Text) /\ 0 \in Nat
      OBVIOUS
    <3>3. f = [g EXCEPT !.buffer = <<>>, !.cursor = 0]
      BY <2>1, <2>2
    <3> QED
      BY <3>1, <3>2, <3>3, LineChanged
  <2>4. /\ f.buffer = <<>> /\ f.cursor = 0 /\ f.history = h
        /\ f.position = n /\ f.screen = c.screen
    BY <1>5, <2>1 DEF Editors
  <2> QED
    BY <1>5, <1>6, <2>3, <2>4
<1>8. SameTerminal(c, f) /\ SameInput(c, f)
  <2>1. f = [c EXCEPT !.history = h, !.position = n, !.buffer = <<>>, !.cursor = 0]
    BY <1>2, <1>4, <1>6 DEF finish_line
  <2> QED
    BY <1>5, <2>1 DEF Editors, SameTerminal, SameInput
<1>9. Sound(f)
  BY <1>3, <1>7, NoLineScreen DEF Sound, Editable
<1> QED
  BY <1>2, <1>5, <1>7, <1>8, <1>9 DEF Kept, SameTerminal, SameInput

\* The bytes of an unfinished character or sequence are not drawn.
LEMMA InputChanged ==
    ASSUME NEW e, Sound(e), NEW f \in Editors, SameTerminal(e, f),
           f.buffer = e.buffer, f.cursor = e.cursor,
           f.history = e.history, f.position = e.position, f.screen = e.screen
    PROVE  Kept(e, f)
BY Undrawn DEF SameText

-----------------------------------------------------------------------------
(* What a byte or a key does to the line *)

\* What can be typed: a byte that is a character, or one of several bytes.
TypedUnits ==
    {<<b>> : b \in {x \in Bytes \cup Keys : utf8_length(x) = 1 /\ ~is_utf8_continuation(x)}}
      \cup {Tab, <<"lead2", "cont">>, WideCharacter, LoneSurrogate}

\* It is a text.
LEMMA TypedText ==
    ASSUME NEW u \in TypedUnits
    PROVE  u \in Text /\ u # <<>>
<1>1. CASE u \in {<<b>> : b \in {x \in Bytes \cup Keys : utf8_length(x) = 1 /\ ~is_utf8_continuation(x)}}
  <2>1. PICK b \in Bytes \cup Keys : u = <<b>>
    BY <1>1
  <2> QED
    BY <2>1 DEF Text, Byte
<1>2. CASE u = Tab
  BY <1>2 DEF Text, Byte, Tab
<1>3. CASE u = <<"lead2", "cont">>
  BY <1>3 DEF Text, Byte
<1>4. CASE u = WideCharacter
  BY <1>4 DEF Text, Byte, WideCharacter
<1>5. CASE u = LoneSurrogate
  BY <1>5 DEF Text, Byte, LoneSurrogate
<1> QED
  BY <1>1, <1>2, <1>3, <1>4, <1>5 DEF TypedUnits

\* The operations, as what they do to the line, the cursor and the history.
Still(e, f) == f.buffer = e.buffer /\ f.cursor = e.cursor /\ f.history = e.history

Types(e, f) ==
    /\ f.history = e.history
    /\ \E u \in TypedUnits :
         /\ input_bytes(e) + Len(u) <= MaxInputBytes
         /\ f.buffer = InsertAt(e.buffer, e.cursor + 1, u) /\ f.cursor = e.cursor + 1

ErasesBefore(e, f) ==
    /\ e.cursor > 0 /\ f.history = e.history
    /\ f.buffer = RemoveAt(e.buffer, e.cursor) /\ f.cursor = e.cursor - 1

ErasesAfter(e, f) ==
    /\ e.cursor < Len(e.buffer) /\ f.history = e.history
    /\ f.buffer = RemoveAt(e.buffer, e.cursor + 1) /\ f.cursor = e.cursor

MovesTo(e, f, cursors) ==
    f.buffer = e.buffer /\ f.cursor \in cursors /\ f.history = e.history

Empties(e, f) == f.buffer = <<>> /\ f.cursor = 0 /\ f.history = e.history

Returns(e, f) ==
    /\ f.history = e.history /\ f.cursor = Len(f.buffer)
    /\ \E i \in 1..Len(e.history) : f.buffer = split_utf8(e.history[i])

Enters(e, f) ==
    f.buffer = <<>> /\ f.cursor = 0 /\ f.history = Remember(e.history, joined(e.buffer))

Acts(e, f) ==
    \/ Still(e, f) \/ Types(e, f) \/ ErasesBefore(e, f) \/ ErasesAfter(e, f)
    \/ MovesTo(e, f, {e.cursor - 1, e.cursor + 1, 0, Len(e.buffer)})
    \/ Empties(e, f) \/ Returns(e, f)

\* Typing a unit.
LEMMA InsertActs ==
    ASSUME NEW e, Sound(e), NEW u \in TypedUnits, NEW f, f = insert(e, u)
    PROVE  Kept(e, f) /\ SameInput(e, f) /\ (Still(e, f) \/ Types(e, f))
<1>1. u \in Text
  BY TypedText
<1>2. CASE f = e
  BY <1>2, Unchanged DEF Becomes, Still
<1>3. CASE /\ u # <<>> /\ input_bytes(e) + Len(u) <= MaxInputBytes
           /\ Becomes(e, f, InsertAt(e.buffer, e.cursor + 1, u), e.cursor + 1)
  BY <1>3 DEF Becomes, Types
<1> QED
  BY <1>1, <1>2, <1>3, InsertFacts

\* Erasing a unit.
LEMMA EraseActs ==
    ASSUME NEW e, Sound(e), NEW f
    PROVE  /\ f = backspace(e) =>
                Kept(e, f) /\ SameInput(e, f) /\ (Still(e, f) \/ ErasesBefore(e, f))
           /\ f = erase_at_cursor(e) =>
                Kept(e, f) /\ SameInput(e, f) /\ (Still(e, f) \/ ErasesAfter(e, f))
<1>1. CASE f = e
  BY <1>1, Unchanged DEF Becomes, Still
<1>2. CASE f = backspace(e) /\ f # e
  <2>1. e.cursor > 0 /\ Becomes(e, f, RemoveAt(e.buffer, e.cursor), e.cursor - 1)
    BY <1>2, BackspaceFacts
  <2>2. Kept(e, f) /\ SameInput(e, f) /\ ErasesBefore(e, f)
    BY <2>1 DEF Becomes, ErasesBefore
  <2>3. f = erase_at_cursor(e) =>
          Kept(e, f) /\ SameInput(e, f) /\ (Still(e, f) \/ ErasesAfter(e, f))
    <3>1. ASSUME f = erase_at_cursor(e)
          PROVE  Kept(e, f) /\ SameInput(e, f) /\ (Still(e, f) \/ ErasesAfter(e, f))
      <4>1. e.cursor < Len(e.buffer) /\ Becomes(e, f, RemoveAt(e.buffer, e.cursor + 1), e.cursor)
        BY <1>2, <3>1, EraseFacts
      <4> QED
        BY <4>1 DEF Becomes, ErasesAfter
    <3> QED
      BY <3>1
  <2> QED
    BY <2>2, <2>3
<1>3. CASE f = erase_at_cursor(e) /\ f # e /\ f # backspace(e)
  <2>1. e.cursor < Len(e.buffer) /\ Becomes(e, f, RemoveAt(e.buffer, e.cursor + 1), e.cursor)
    BY <1>3, EraseFacts
  <2> QED
    BY <1>3, <2>1 DEF Becomes, ErasesAfter
<1> QED
  BY <1>1, <1>2, <1>3

\* Moving the cursor.
LEMMA LeftActs ==
    ASSUME NEW e, Sound(e), NEW f, f = move_left(e)
    PROVE  Kept(e, f) /\ SameInput(e, f) /\ (Still(e, f) \/ MovesTo(e, f, {e.cursor - 1}))
<1>1. e \in Editors /\ e.cursor \in 0..Len(e.buffer) /\ Len(e.buffer) \in Nat
  BY LenProperties DEF Sound, Editable, Editors
<1>2. CASE e.cursor > 0
  <2>1. PICK c \in 0..Len(e.buffer) : c = e.cursor - 1
    BY <1>1, <1>2
  <2>2. f = render([e EXCEPT !.cursor = c])
    BY <1>1, <1>2, <2>1 DEF move_left, Editors
  <2>3. Becomes(e, f, e.buffer, c)
    BY <2>2, CursorMoved
  <2> QED
    BY <2>1, <2>3 DEF Becomes, MovesTo
<1>3. CASE ~(e.cursor > 0)
  <2>1. f = e
    BY <1>3 DEF move_left
  <2> QED
    BY <2>1, Unchanged DEF Becomes, Still
<1> QED
  BY <1>2, <1>3

\* Moving it the other way.
LEMMA RightActs ==
    ASSUME NEW e, Sound(e), NEW f, f = move_right(e)
    PROVE  Kept(e, f) /\ SameInput(e, f) /\ (Still(e, f) \/ MovesTo(e, f, {e.cursor + 1}))
<1>1. e \in Editors /\ e.cursor \in 0..Len(e.buffer) /\ Len(e.buffer) \in Nat
  BY LenProperties DEF Sound, Editable, Editors
<1>2. CASE e.cursor < Len(e.buffer)
  <2>1. PICK c \in 0..Len(e.buffer) : c = e.cursor + 1
    BY <1>1, <1>2
  <2>2. f = render([e EXCEPT !.cursor = c])
    BY <1>1, <1>2, <2>1 DEF move_right, Editors
  <2>3. Becomes(e, f, e.buffer, c)
    BY <2>2, CursorMoved
  <2> QED
    BY <2>1, <2>3 DEF Becomes, MovesTo
<1>3. CASE ~(e.cursor < Len(e.buffer))
  <2>1. f = e
    BY <1>3 DEF move_right
  <2> QED
    BY <2>1, Unchanged DEF Becomes, Still
<1> QED
  BY <1>2, <1>3

\* Moving it to the start or to the end.
LEMMA HomeActs ==
    ASSUME NEW e, Sound(e), NEW f, f \in {move_home(e), move_end(e)}
    PROVE  Kept(e, f) /\ SameInput(e, f) /\ MovesTo(e, f, {0, Len(e.buffer)})
<1>1. Len(e.buffer) \in Nat
  BY LenProperties DEF Sound, Editable, Editors
<1>2. CASE f = move_home(e)
  <2>1. PICK c \in 0..Len(e.buffer) : c = 0
    BY <1>1
  <2>2. f = render([e EXCEPT !.cursor = c])
    BY <1>2, <2>1 DEF move_home
  <2>3. Becomes(e, f, e.buffer, c)
    BY <2>2, CursorMoved
  <2> QED
    BY <2>1, <2>3 DEF Becomes, MovesTo
<1>3. CASE f = move_end(e)
  <2>1. PICK c \in 0..Len(e.buffer) : c = Len(e.buffer)
    BY <1>1
  <2>2. f = render([e EXCEPT !.cursor = c])
    BY <1>3, <2>1 DEF move_end
  <2>3. Becomes(e, f, e.buffer, c)
    BY <2>2, CursorMoved
  <2> QED
    BY <2>1, <2>3 DEF Becomes, MovesTo
<1> QED
  BY <1>2, <1>3

\* An empty text has no units.
LEMMA SplitEmpty ==
    ASSUME TRUE
    PROVE  split_utf8(<<>>) = <<>>
<1>1. <<>> \in Text /\ Len(<<>>) = 0
  BY DEF Text
<1>2. PICK g : SplitsFrom(<<>>, 1, g)
  BY <1>1, SplitsExist
<1>3. split_utf8(<<>>) = g[1]
  BY <1>1, <1>2, SplitIs
<1>4. g[1] = <<>>
  BY <1>1, <1>2 DEF SplitsFrom
<1> QED
  BY <1>3, <1>4

\* Recalling a line.
LEMMA RecallActs ==
    ASSUME NEW e, Sound(e), NEW f, f \in {history_up(e), history_down(e)}
    PROVE  Kept(e, f) /\ SameInput(e, f) /\ (Still(e, f) \/ Empties(e, f) \/ Returns(e, f))
<1>1. CASE f = e
  BY <1>1, Unchanged DEF Becomes, Still
<1>2. CASE f # e
  <2>1. PICK text \in Text : Recalls(e, f, text)
    BY <1>2, HistoryUpFacts, HistoryDownFacts
  <2>2. CASE text = <<>>
    <3>1. f.buffer = <<>>
      BY <2>1, <2>2, SplitEmpty DEF Recalls
    <3> QED
      BY <2>1, <3>1, EmptySeq DEF Recalls, Empties
  <2>3. CASE text # <<>>
    BY <2>1, <2>3 DEF Recalls, Returns
  <2> QED
    BY <2>2, <2>3
<1> QED
  BY <1>1, <1>2

-----------------------------------------------------------------------------
(* Bytes *)

\* The bytes of a character that are waiting for the rest of it.
Unfinished ==
    {<<>>, <<"lead2">>, <<"lead3">>, <<"lead3", "cont">>,
     <<"lead4">>, <<"lead4", "cont">>, <<"lead4", "cont", "cont">>}

\* Where the line is the same, an operation does the same to it.
LEMMA ActsSame ==
    ASSUME NEW e, NEW f, NEW g, SameText(e, f), Acts(f, g)
    PROVE  Acts(e, g)
BY DEF SameText, Acts, Still, Types, ErasesBefore, ErasesAfter, MovesTo, Empties, Returns, input_bytes

\* Each operation is one of them.
LEMMA OperationActs ==
    ASSUME NEW e, Sound(e), NEW f
    PROVE  /\ f \in {backspace(e), erase_at_cursor(e), move_left(e), move_right(e), move_home(e),
                     move_end(e), history_up(e), history_down(e), kill_line(e), render(e)} =>
                Kept(e, f) /\ SameInput(e, f) /\ Acts(e, f)
           /\ \A u \in TypedUnits : f = insert(e, u) =>
                Kept(e, f) /\ SameInput(e, f) /\ Acts(e, f)
<1>1. CASE f \in {backspace(e), erase_at_cursor(e)}
  BY <1>1, EraseActs DEF Acts
<1>2. CASE f \in {move_home(e), move_end(e)}
  BY <1>2, HomeActs DEF Acts, MovesTo
<1>3. CASE f = move_left(e)
  BY <1>3, LeftActs DEF Acts, MovesTo
<1>4. CASE f = move_right(e)
  BY <1>4, RightActs DEF Acts, MovesTo
<1>5. CASE f \in {history_up(e), history_down(e)}
  BY <1>5, RecallActs DEF Acts
<1>6. CASE f = kill_line(e)
  <2>1. Becomes(e, f, <<>>, 0)
    BY <1>6, KillFacts
  <2> QED
    BY <2>1 DEF Becomes, Acts, Empties
<1>7. CASE f = render(e)
  <2>1. Becomes(e, f, e.buffer, e.cursor)
    BY <1>7, RenderFacts
  <2> QED
    BY <2>1 DEF Becomes, Acts, Still
<1>8. \A u \in TypedUnits : f = insert(e, u) => Kept(e, f) /\ SameInput(e, f) /\ Acts(e, f)
  BY InsertActs DEF Acts
<1> QED
  BY <1>1, <1>2, <1>3, <1>4, <1>5, <1>6, <1>7, <1>8

\* A byte of an escape sequence.
LEMMA EscapeByteActs ==
    ASSUME NEW e, Sound(e), NEW b \in Bytes, NEW f, f = EscapeByte(e, b)
    PROVE  Kept(e, f) /\ Acts(e, f) /\ f.pending = e.pending
<1>1. e \in Editors /\ e.escape \in Seq(Bytes \cup {"esc"})
  BY DEF Sound, Editable, Editors
<1>2. PICK s : s = Append(e.escape, b)
  OBVIOUS
<1>3. s \in Seq(Bytes \cup {"esc"})
  BY <1>1, <1>2
<1>4. CASE s \in EscapeSequences
  <2>1. PICK g : g = EscapeAction(e, s)
    OBVIOUS
  <2>2. g \in {history_up(e), history_down(e), move_right(e), move_left(e), move_home(e),
               move_end(e), erase_at_cursor(e)}
    BY <2>1 DEF EscapeAction
  <2>3. Kept(e, g) /\ SameInput(e, g) /\ Acts(e, g)
    BY <2>2, OperationActs
  <2>4. f = [g EXCEPT !.escape = <<>>]
    BY <1>2, <1>4, <2>1 DEF EscapeByte
  <2>5. g \in Editors /\ Sound(g)
    BY <2>3 DEF Kept, Sound, Editable
  <2>6. /\ f \in Editors /\ SameTerminal(g, f) /\ f.screen = g.screen /\ f.pending = g.pending
        /\ SameText(g, f)
    <3>1. PICK x : x = <<>>
      OBVIOUS
    <3>2. x \in Seq(Bytes \cup {"esc"})
      BY <3>1
    <3>3. f = [g EXCEPT !.escape = x]
      BY <2>4, <3>1
    <3> QED
      BY <2>5, <3>2, <3>3 DEF Editors, SameTerminal, SameText
  <2>7. Kept(g, f)
    BY <2>5, <2>6, Undrawn
  <2>8. Kept(e, f)
    BY <2>3, <2>7, KeptOn
  <2>9. Acts(e, f)
    BY <2>3, <2>6 DEF SameText, Acts, Still, Types, ErasesBefore, ErasesAfter, MovesTo, Empties, Returns
  <2> QED
    BY <2>3, <2>6, <2>8, <2>9 DEF SameInput
<1>5. CASE s \notin EscapeSequences
  <2>1. PICK x : x = IF escape_prefix_known(s) THEN s ELSE <<>>
    OBVIOUS
  <2>2. x \in Seq(Bytes \cup {"esc"})
    BY <1>3, <2>1
  <2>3. f = [e EXCEPT !.escape = x]
    BY <1>2, <1>5, <2>1 DEF EscapeByte
  <2>4. /\ f \in Editors /\ SameTerminal(e, f) /\ f.screen = e.screen /\ f.pending = e.pending
        /\ SameText(e, f)
    BY <1>1, <2>2, <2>3 DEF Editors, SameTerminal, SameText
  <2>5. Kept(e, f)
    BY <2>4, Undrawn
  <2> QED
    BY <2>4, <2>5 DEF SameText, Acts, Still
<1> QED
  BY <1>4, <1>5

\* The editor with other bytes waiting.
WithPending(e, x) == [e EXCEPT !.pending = x]

\* The line stays where it is when only the bytes waiting change.
LEMMA PendingChanged ==
    ASSUME NEW e, Sound(e), NEW x \in Seq(Bytes), NEW f, f = WithPending(e, x)
    PROVE  Kept(e, f) /\ SameText(e, f) /\ f.pending = x /\ f.escape = e.escape
<1>1. e \in Editors
  BY DEF Sound, Editable
<1>2. /\ f \in Editors /\ SameTerminal(e, f) /\ f.screen = e.screen /\ f.pending = x
      /\ SameText(e, f) /\ f.escape = e.escape
  BY <1>1 DEF WithPending, Editors, SameTerminal, SameText
<1> QED
  BY <1>2, Undrawn

\* Where the line becomes the same, an operation has done the same to it.
LEMMA ActsThen ==
    ASSUME NEW e, NEW f, NEW g, SameText(f, g), Acts(e, f)
    PROVE  Acts(e, g)
BY DEF SameText, Acts, Still, Types, ErasesBefore, ErasesAfter, MovesTo, Empties, Returns

\* A text of one byte, of two and of three, with one more.
LEMMA AppendOne ==
    ASSUME NEW x \in Byte, NEW b \in Byte
    PROVE  Append(<<x>>, b) = <<x, b>>
<1>1. PICK s : s = <<x>>
  OBVIOUS
<1>2. s \in Text /\ Len(s) = 1 /\ s[1] = x
  BY <1>1 DEF Text
<1>3. PICK t : t = <<x, b>>
  OBVIOUS
<1>4. t \in Text /\ Len(t) = 2 /\ t[1] = x /\ t[2] = b
  BY <1>3 DEF Text
<1>5. PICK a : a = Append(s, b)
  OBVIOUS
<1>6. a \in Text /\ Len(a) = 2 /\ a[1] = x /\ a[2] = b
  <2>1. s \in Seq(Byte)
    BY <1>2 DEF Text
  <2>2. a \in Text /\ Len(a) = Len(s) + 1 /\ a[Len(s) + 1] = b
    BY <1>5, <2>1, AppendProperties DEF Text
  <2>3. \A i \in 1..Len(s) : a[i] = s[i]
    BY <1>5, <2>1, AppendProperties
  <2> QED
    BY <1>2, <2>2, <2>3
<1>7. \A i \in 1..Len(a) : a[i] = t[i]
  BY <1>4, <1>6
<1>8. a = t
  BY <1>4, <1>6, <1>7, SeqEqual DEF Text
<1> QED
  BY <1>1, <1>3, <1>5, <1>8

\* As above.
LEMMA AppendTwo ==
    ASSUME NEW x \in Byte, NEW y \in Byte, NEW b \in Byte
    PROVE  Append(<<x, y>>, b) = <<x, y, b>>
<1>1. PICK s : s = <<x, y>>
  OBVIOUS
<1>2. s \in Text /\ Len(s) = 2 /\ s[1] = x /\ s[2] = y
  BY <1>1 DEF Text
<1>3. PICK t : t = <<x, y, b>>
  OBVIOUS
<1>4. t \in Text /\ Len(t) = 3 /\ t[1] = x /\ t[2] = y /\ t[3] = b
  BY <1>3 DEF Text
<1>5. PICK a : a = Append(s, b)
  OBVIOUS
<1>6. a \in Text /\ Len(a) = 3 /\ a[1] = x /\ a[2] = y /\ a[3] = b
  <2>1. s \in Seq(Byte)
    BY <1>2 DEF Text
  <2>2. a \in Text /\ Len(a) = Len(s) + 1 /\ a[Len(s) + 1] = b
    BY <1>5, <2>1, AppendProperties DEF Text
  <2>3. \A i \in 1..Len(s) : a[i] = s[i]
    BY <1>5, <2>1, AppendProperties
  <2> QED
    BY <1>2, <2>2, <2>3
<1>7. \A i \in 1..Len(a) : a[i] = t[i]
  BY <1>4, <1>6
<1>8. a = t
  BY <1>4, <1>6, <1>7, SeqEqual DEF Text
<1> QED
  BY <1>1, <1>3, <1>5, <1>8

\* As above.
LEMMA AppendThree ==
    ASSUME NEW x \in Byte, NEW y \in Byte, NEW z \in Byte, NEW b \in Byte
    PROVE  Append(<<x, y, z>>, b) = <<x, y, z, b>>
<1>1. PICK s : s = <<x, y, z>>
  OBVIOUS
<1>2. s \in Text /\ Len(s) = 3 /\ s[1] = x /\ s[2] = y /\ s[3] = z
  BY <1>1 DEF Text
<1>3. PICK t : t = <<x, y, z, b>>
  OBVIOUS
<1>4. t \in Text /\ Len(t) = 4 /\ t[1] = x /\ t[2] = y /\ t[3] = z /\ t[4] = b
  BY <1>3 DEF Text
<1>5. PICK a : a = Append(s, b)
  OBVIOUS
<1>6. a \in Text /\ Len(a) = 4 /\ a[1] = x /\ a[2] = y /\ a[3] = z /\ a[4] = b
  <2>1. s \in Seq(Byte)
    BY <1>2 DEF Text
  <2>2. a \in Text /\ Len(a) = Len(s) + 1 /\ a[Len(s) + 1] = b
    BY <1>5, <2>1, AppendProperties DEF Text
  <2>3. \A i \in 1..Len(s) : a[i] = s[i]
    BY <1>5, <2>1, AppendProperties
  <2> QED
    BY <1>2, <2>2, <2>3
<1>7. \A i \in 1..Len(a) : a[i] = t[i]
  BY <1>4, <1>6
<1>8. a = t
  BY <1>4, <1>6, <1>7, SeqEqual DEF Text
<1> QED
  BY <1>1, <1>3, <1>5, <1>8

\* A byte that continues a character.
LEMMA ContinuationByteActs ==
    ASSUME NEW e, Sound(e), e.pending \in Unfinished, e.pending # <<>>,
           NEW b \in Bytes, is_utf8_continuation(b), NEW f, f = ContinuationByte(e, b)
    PROVE  Kept(e, f) /\ Acts(e, f) /\ f.pending \in Unfinished
<1>1. e \in Editors /\ e.pending \in Seq(Bytes)
  BY DEF Sound, Editable, Editors
<1>2. PICK u : u = Append(e.pending, b)
  OBVIOUS
<1>3. u \in Seq(Bytes) /\ b = "cont"
  BY <1>1, <1>2 DEF is_utf8_continuation
<1>4. u \in {<<"lead2", "cont">>, <<"lead3", "cont">>, <<"lead3", "cont", "cont">>,
             <<"lead4", "cont">>, <<"lead4", "cont", "cont">>, <<"lead4", "cont", "cont", "cont">>}
  <2>b. "lead2" \in Byte /\ "lead3" \in Byte /\ "lead4" \in Byte /\ "cont" \in Byte
    BY DEF Byte
  <2>1. CASE e.pending = <<"lead2">>
    BY <1>2, <1>3, <2>1, <2>b, AppendOne
  <2>2. CASE e.pending = <<"lead3">>
    BY <1>2, <1>3, <2>2, <2>b, AppendOne
  <2>3. CASE e.pending = <<"lead3", "cont">>
    BY <1>2, <1>3, <2>3, <2>b, AppendTwo
  <2>4. CASE e.pending = <<"lead4">>
    BY <1>2, <1>3, <2>4, <2>b, AppendOne
  <2>5. CASE e.pending = <<"lead4", "cont">>
    BY <1>2, <1>3, <2>5, <2>b, AppendTwo
  <2>6. CASE e.pending = <<"lead4", "cont", "cont">>
    BY <1>2, <1>3, <2>6, <2>b, AppendThree
  <2> QED
    BY <2>1, <2>2, <2>3, <2>4, <2>5, <2>6 DEF Unfinished
<1>5. CASE u \in {<<"lead2", "cont">>, <<"lead3", "cont", "cont">>, <<"lead4", "cont", "cont", "cont">>}
  <2>1. Len(u) = utf8_length(u[1])
    BY <1>5 DEF utf8_length
  <2>2. u \in TypedUnits
    BY <1>5 DEF TypedUnits, WideCharacter, LoneSurrogate
  <2>3. PICK g : g = insert(e, u)
    OBVIOUS
  <2>4. Kept(e, g) /\ SameInput(e, g) /\ Acts(e, g)
    BY <2>2, <2>3, OperationActs
  <2>5. f = [g EXCEPT !.pending = <<>>]
    BY <1>2, <2>1, <2>3 DEF ContinuationByte
  <2>6. Sound(g)
    BY <2>4 DEF Kept
  <2>7. Kept(g, f) /\ SameText(g, f) /\ f.pending = <<>>
    <3>1. PICK x : x = <<>>
      OBVIOUS
    <3>2. x \in Seq(Bytes)
      BY <3>1
    <3>3. f = WithPending(g, x)
      BY <2>5, <3>1 DEF WithPending
    <3>4. Kept(g, f) /\ SameText(g, f) /\ f.pending = x
      BY <2>6, <3>2, <3>3, PendingChanged
    <3> QED
      BY <3>1, <3>4
  <2>8. Kept(e, f) /\ Acts(e, f)
    BY <2>4, <2>7, KeptOn, ActsThen
  <2> QED
    BY <2>7, <2>8 DEF Unfinished
<1>6. CASE u \in {<<"lead3", "cont">>, <<"lead4", "cont">>, <<"lead4", "cont", "cont">>}
  <2>1. Len(u) # utf8_length(u[1])
    <3>1. CASE u = <<"lead3", "cont">>
      BY <3>1 DEF utf8_length
    <3>2. CASE u = <<"lead4", "cont">>
      BY <3>2 DEF utf8_length
    <3>3. CASE u = <<"lead4", "cont", "cont">>
      BY <3>3 DEF utf8_length
    <3> QED
      BY <1>6, <3>1, <3>2, <3>3
  <2>2. f = WithPending(e, u)
    BY <1>2, <2>1 DEF ContinuationByte, WithPending
  <2>3. Kept(e, f) /\ SameText(e, f) /\ f.pending = u
    BY <1>3, <2>2, PendingChanged
  <2> QED
    BY <1>6, <2>3 DEF Unfinished, SameText, Acts, Still
<1> QED
  BY <1>4, <1>5, <1>6

\* Any other byte.
LEMMA PlainByteActs ==
    ASSUME NEW e, Sound(e), e.pending = <<>>, NEW b \in Bytes, NEW f, f = PlainByte(e, b)
    PROVE  Kept(e, f) /\ Acts(e, f) /\ f.pending \in Unfinished
<1>1. e \in Editors
  BY DEF Sound, Editable
<1>2. CASE f \in {backspace(e), render(e), kill_line(e)}
  BY <1>2, OperationActs DEF SameInput, Unfinished
<1>3. CASE b = "esc" /\ f = [e EXCEPT !.escape = <<"esc">>]
  <2>1. /\ f \in Editors /\ SameTerminal(e, f) /\ f.screen = e.screen /\ f.pending = <<>>
        /\ SameText(e, f)
    <3>1. <<"esc">> \in Seq(Bytes \cup {"esc"})
      OBVIOUS
    <3> QED
      BY <1>1, <1>3, <3>1 DEF Editors, SameTerminal, SameText
  <2>2. Kept(e, f)
    BY <2>1, Undrawn
  <2> QED
    BY <2>1, <2>2 DEF SameText, Acts, Still, Unfinished
<1>4. CASE f = insert(e, Tab)
  <2>1. Tab \in TypedUnits
    BY DEF TypedUnits
  <2> QED
    BY <1>4, <2>1, OperationActs DEF SameInput, Unfinished
<1>5. CASE f = e
  BY <1>5, Unchanged DEF Becomes, Acts, Still, Unfinished
<1>6. CASE utf8_length(b) > 1 /\ f = [e EXCEPT !.pending = <<b>>]
  <2>1. PICK x : x = <<b>>
    OBVIOUS
  <2>2. Kept(e, f) /\ SameText(e, f) /\ f.pending = <<b>>
    <3>1. x \in Seq(Bytes)
      BY <2>1
    <3>2. f = WithPending(e, x)
      BY <1>6, <2>1 DEF WithPending
    <3>3. Kept(e, f) /\ SameText(e, f) /\ f.pending = x
      BY <3>1, <3>2, PendingChanged
    <3> QED
      BY <2>1, <3>3
  <2>3. b \in {"lead2", "lead3", "lead4"}
    BY <1>6 DEF utf8_length
  <2>4. <<b>> \in Unfinished
    BY <2>3 DEF Unfinished
  <2> QED
    BY <2>2, <2>4 DEF SameText, Acts, Still
<1>7. CASE b # "cont" /\ ~(utf8_length(b) > 1) /\ f = insert(e, <<b>>)
  <2>1. utf8_length(b) = 1 /\ ~is_utf8_continuation(b)
    BY <1>7 DEF utf8_length, is_utf8_continuation
  <2>2. <<b>> \in TypedUnits
    BY <2>1 DEF TypedUnits
  <2> QED
    BY <1>7, <2>2, OperationActs DEF SameInput, Unfinished
<1> QED
  BY <1>2, <1>3, <1>4, <1>5, <1>6, <1>7 DEF PlainByte

\* A byte, whatever it finds unfinished.
LEMMA UnixByteActs ==
    ASSUME NEW e, Sound(e), e.pending \in Unfinished, NEW b \in Bytes,
           NEW r, r = process_unix_byte(e, b)
    PROVE  /\ Kept(e, r.ed) /\ r.ed.pending \in Unfinished
           /\ Acts(e, r.ed) \/ Enters(e, r.ed)
<1>1. PICK f : f = [e EXCEPT !.pending = <<>>]
  OBVIOUS
<1>2. Kept(e, f) /\ SameText(e, f) /\ f.pending = <<>> /\ Sound(f)
  <2>1. PICK x : x = <<>>
    OBVIOUS
  <2>2. x \in Seq(Bytes)
    BY <2>1
  <2>3. f = WithPending(e, x)
    BY <1>1, <2>1 DEF WithPending
  <2>4. Kept(e, f) /\ SameText(e, f) /\ f.pending = x
    BY <2>2, <2>3, PendingChanged
  <2> QED
    BY <2>1, <2>4 DEF Kept
<1>3. CASE e.escape # <<>>
  <2>1. r.ed = EscapeByte(e, b)
    BY <1>3 DEF process_unix_byte
  <2> QED
    BY <2>1, EscapeByteActs
<1>4. CASE e.escape = <<>> /\ e.pending # <<>> /\ is_utf8_continuation(b)
  <2>1. r.ed = ContinuationByte(e, b)
    BY <1>4 DEF process_unix_byte
  <2> QED
    BY <1>4, <2>1, ContinuationByteActs
<1>5. CASE ~(e.escape # <<>>) /\ ~(e.escape = <<>> /\ e.pending # <<>> /\ is_utf8_continuation(b))
  <2>1. r = IF b = "enter" THEN [ed |-> finish_line(f), result |-> Data(joined(f.buffer))]
            ELSE IF b = "eof" /\ f.buffer = <<>> THEN [ed |-> f, result |-> Closed]
            ELSE [ed |-> PlainByte(f, b), result |-> Nothing]
    BY <1>1, <1>5 DEF process_unix_byte
  <2>2. CASE r.ed = finish_line(f)
    <3>1. PICK g : g = r.ed
      OBVIOUS
    <3>2. /\ Kept(f, g) /\ SameInput(f, g) /\ g.buffer = <<>> /\ g.cursor = 0
          /\ g.history = Remember(f.history, joined(f.buffer))
      BY <1>2, <2>2, <3>1, FinishFacts
    <3>3. Kept(e, g)
      BY <1>2, <3>2, KeptOn
    <3> QED
      BY <1>2, <3>1, <3>2, <3>3 DEF Enters, SameText, SameInput, Unfinished
  <2>3. CASE r.ed = f
    BY <1>2, <2>3 DEF SameText, Acts, Still, Unfinished
  <2>4. CASE r.ed = PlainByte(f, b)
    <3>1. Kept(f, r.ed) /\ Acts(f, r.ed) /\ r.ed.pending \in Unfinished
      BY <1>2, <2>4, PlainByteActs
    <3>2. Kept(e, r.ed)
      BY <1>2, <3>1, KeptOn
    <3>3. Acts(e, r.ed)
      BY <1>2, <3>1, ActsSame
    <3> QED
      BY <3>1, <3>2, <3>3
  <2> QED
    BY <2>1, <2>2, <2>3, <2>4
<1> QED
  BY <1>3, <1>4, <1>5

-----------------------------------------------------------------------------
(* Whole characters *)

\* A byte that begins a character, and how long that character is.
Begins(text, i) == text[i] # "cont"
Size(text, i) == utf8_length(text[i])

\* A text of whole characters: each byte that begins one is followed by the
\* rest of it, and after it another one begins.
Whole(text) ==
    /\ text \in Text
    /\ 1 \in 1..Len(text) => Begins(text, 1)
    /\ \A i \in 1..Len(text) : Begins(text, i) =>
         /\ i + Size(text, i) \in 1..(Len(text) + 1)
         /\ \A j \in (i + 1)..(i + Size(text, i) - 1) : ~Begins(text, j)
         /\ i + Size(text, i) \in 1..Len(text) => Begins(text, i + Size(text, i))

\* What an entry of the buffer is: a character or a tab.
WholeUnit(u) == u \in Text /\ ((IsCharacter(u) /\ Begins(u, 1)) \/ u = Tab)

\* The lengths of characters.
LEMMA SizeFacts ==
    ASSUME NEW text, NEW i
    PROVE  Size(text, i) \in 1..4
BY DEF Size, utf8_length

\* It is a text of whole characters.
LEMMA UnitWhole ==
    ASSUME NEW u, WholeUnit(u)
    PROVE  Whole(u)
<1>1. u \in Text /\ Len(u) \in Nat
  BY LenProperties DEF WholeUnit, Text
<1>2. CASE IsCharacter(u) /\ Begins(u, 1)
  <2>1. u # <<>> /\ Len(u) = Size(u, 1) /\ \A j \in 2..Len(u) : ~Begins(u, j)
    BY <1>2 DEF IsCharacter, Size, Begins, is_utf8_continuation
  <2>2. PICK n \in 1..4 : n = Size(u, 1)
    BY SizeFacts
  <2>3. ASSUME NEW i \in 1..Len(u), Begins(u, i)
        PROVE  /\ i + Size(u, i) \in 1..(Len(u) + 1)
               /\ \A j \in (i + 1)..(i + Size(u, i) - 1) : ~Begins(u, j)
               /\ i + Size(u, i) \in 1..Len(u) => Begins(u, i + Size(u, i))
    <3>1. i = 1
      BY <1>1, <2>1, <2>3
    <3>2. Size(u, i) = n /\ Len(u) = n
      BY <2>1, <2>2, <3>1
    <3>3. i + n = n + 1
      BY <3>1
    <3>4. \A j \in (i + 1)..(i + n - 1) : ~Begins(u, j)
      BY <2>1, <3>1, <3>2
    <3> QED
      BY <3>2, <3>3, <3>4
  <2> QED
    BY <1>1, <1>2, <2>3 DEF Whole
<1>3. CASE u = Tab
  <2>1. Len(u) = 4 /\ \A i \in 1..4 : u[i] = "space"
    BY <1>3 DEF Tab
  <2>2. \A i \in 1..4 : Begins(u, i) /\ Size(u, i) = 1
    BY <2>1 DEF Begins, Size, utf8_length
  <2> QED
    BY <1>1, <2>1, <2>2 DEF Whole
<1> QED
  BY <1>2, <1>3 DEF WholeUnit

\* What is typed is whole.
LEMMA TypedWhole ==
    ASSUME NEW u \in TypedUnits
    PROVE  WholeUnit(u)
<1>1. u \in Text
  BY TypedText
<1>2. CASE u \in {<<b>> : b \in {x \in Bytes \cup Keys : utf8_length(x) = 1 /\ ~is_utf8_continuation(x)}}
  <2>1. PICK b : u = <<b>> /\ utf8_length(b) = 1 /\ b # "cont"
    BY <1>2 DEF is_utf8_continuation
  <2>2. Len(u) = 1 /\ u[1] = b /\ u # <<>>
    BY <2>1
  <2>3. IsCharacter(u) /\ Begins(u, 1)
    BY <2>1, <2>2 DEF IsCharacter, Begins
  <2> QED
    BY <1>1, <2>3 DEF WholeUnit
<1>3. CASE u = Tab
  BY <1>1, <1>3 DEF WholeUnit
<1>4. CASE u = <<"lead2", "cont">>
  <2>1. Len(u) = 2 /\ u[1] = "lead2" /\ u[2] = "cont" /\ u # <<>>
    BY <1>4
  <2>2. IsCharacter(u) /\ Begins(u, 1)
    BY <2>1 DEF IsCharacter, Begins, utf8_length, is_utf8_continuation
  <2> QED
    BY <1>1, <2>2 DEF WholeUnit
<1>5. CASE u = WideCharacter
  <2>1. Len(u) = 4 /\ u[1] = "lead4" /\ u[2] = "cont" /\ u[3] = "cont" /\ u[4] = "cont" /\ u # <<>>
    BY <1>5 DEF WideCharacter
  <2>2. IsCharacter(u) /\ Begins(u, 1)
    BY <2>1 DEF IsCharacter, Begins, utf8_length, is_utf8_continuation
  <2> QED
    BY <1>1, <2>2 DEF WholeUnit
<1>6. CASE u = LoneSurrogate
  <2>1. Len(u) = 3 /\ u[1] = "lead3" /\ u[2] = "cont" /\ u[3] = "cont" /\ u # <<>>
    BY <1>6 DEF LoneSurrogate
  <2>2. IsCharacter(u) /\ Begins(u, 1)
    BY <2>1 DEF IsCharacter, Begins, utf8_length, is_utf8_continuation
  <2> QED
    BY <1>1, <2>2 DEF WholeUnit
<1> QED
  BY <1>2, <1>3, <1>4, <1>5, <1>6 DEF TypedUnits

\* Two texts of whole characters, one after the other.
LEMMA WholeConcat ==
    ASSUME NEW s, Whole(s), NEW t, Whole(t)
    PROVE  Whole(s \o t)
<1>1. s \in Seq(Byte) /\ t \in Seq(Byte)
  BY DEF Whole, Text
<1>2. PICK n \in Nat : n = Len(s)
  BY <1>1, LenProperties
<1>3. PICK m \in Nat : m = Len(t)
  BY <1>1, LenProperties
<1>4. PICK st : st = s \o t
  OBVIOUS
<1>5. /\ st \in Seq(Byte) /\ Len(st) = n + m
      /\ \A i \in 1..n : st[i] = s[i]
      /\ \A i \in 1..m : st[n + i] = t[i]
  <2>1. /\ st \in Seq(Byte) /\ Len(st) = Len(s) + Len(t)
        /\ \A i \in 1..(Len(s) + Len(t)) : st[i] = IF i <= Len(s) THEN s[i] ELSE t[i - Len(s)]
    BY <1>1, <1>4, ConcatProperties
  <2>2. \A i \in 1..n : st[i] = s[i]
    BY <1>2, <1>3, <2>1
  <2>3. ASSUME NEW i \in 1..m
        PROVE  st[n + i] = t[i]
    <3>1. n + i \in 1..(Len(s) + Len(t)) /\ ~(n + i <= Len(s)) /\ (n + i) - Len(s) = i
      BY <1>2, <1>3
    <3> QED
      BY <2>1, <3>1
  <2> QED
    BY <1>2, <1>3, <2>1, <2>2, <2>3
<1>6. /\ \A i \in 1..n : (Begins(st, i) <=> Begins(s, i)) /\ Size(st, i) = Size(s, i)
      /\ \A i \in 1..m : (Begins(st, n + i) <=> Begins(t, i)) /\ Size(st, n + i) = Size(t, i)
  BY <1>5 DEF Begins, Size
<1>7. 1 \in 1..(n + m) => Begins(st, 1)
  <2>1. CASE n > 0
    <3>1. 1 \in 1..n
      BY <2>1
    <3>2. Begins(s, 1)
      BY <1>2, <3>1 DEF Whole
    <3> QED
      BY <1>6, <3>1, <3>2
  <2>2. CASE n = 0 /\ m > 0
    <3>1. 1 \in 1..m /\ n + 1 = 1
      BY <2>2
    <3>2. Begins(t, 1)
      BY <1>3, <3>1 DEF Whole
    <3> QED
      BY <1>6, <3>1, <3>2
  <2> QED
    BY <2>1, <2>2
<1>8. ASSUME NEW i \in 1..(n + m), Begins(st, i)
      PROVE  /\ i + Size(st, i) \in 1..((n + m) + 1)
             /\ \A j \in (i + 1)..(i + Size(st, i) - 1) : ~Begins(st, j)
             /\ i + Size(st, i) \in 1..(n + m) => Begins(st, i + Size(st, i))
  <2>1. PICK k \in 1..4 : k = Size(st, i)
    BY SizeFacts
  <2>2. CASE i \in 1..n
    <3>1. Begins(s, i) /\ Size(s, i) = k
      BY <1>6, <1>8, <2>1, <2>2
    <3>2. /\ i + k \in 1..(n + 1)
          /\ \A j \in (i + 1)..(i + k - 1) : ~Begins(s, j)
          /\ i + k \in 1..n => Begins(s, i + k)
      BY <1>2, <2>2, <3>1 DEF Whole
    <3>3. ASSUME NEW j \in (i + 1)..(i + k - 1)
          PROVE  ~Begins(st, j)
      <4>1. j \in 1..n
        BY <2>2, <3>2
      <4> QED
        BY <1>6, <3>2, <4>1
    <3>4. ASSUME i + k \in 1..(n + m)
          PROVE  Begins(st, i + k)
      <4>1. CASE i + k \in 1..n
        BY <1>6, <3>2, <4>1
      <4>2. CASE i + k \notin 1..n
        <5>1. i + k = n + 1 /\ 1 \in 1..m
          BY <3>2, <3>4, <4>2
        <5>2. Begins(t, 1)
          BY <1>3, <5>1 DEF Whole
        <5> QED
          BY <1>6, <5>1, <5>2
      <4> QED
        BY <4>1, <4>2
    <3>5. i + k \in 1..((n + m) + 1)
      BY <3>2
    <3> QED
      BY <2>1, <3>3, <3>4, <3>5
  <2>3. CASE i \notin 1..n
    <3>1. PICK l \in 1..m : i = n + l
      <4>1. i - n \in 1..m /\ i = n + (i - n)
        BY <2>3
      <4> QED
        BY <4>1
    <3>2. Begins(t, l) /\ Size(t, l) = k
      BY <1>6, <1>8, <2>1, <3>1
    <3>3. /\ l + k \in 1..(m + 1)
          /\ \A j \in (l + 1)..(l + k - 1) : ~Begins(t, j)
          /\ l + k \in 1..m => Begins(t, l + k)
      BY <1>3, <3>2 DEF Whole
    <3>4. ASSUME NEW j \in (i + 1)..(i + k - 1)
          PROVE  ~Begins(st, j)
      <4>1. PICK x \in (l + 1)..(l + k - 1) : j = n + x
        <5>1. j - n \in (l + 1)..(l + k - 1) /\ j = n + (j - n)
          BY <3>1
        <5> QED
          BY <5>1
      <4>2. x \in 1..m /\ ~Begins(t, x)
        BY <3>3
      <4> QED
        BY <1>6, <4>1, <4>2
    <3>5. ASSUME i + k \in 1..(n + m)
          PROVE  Begins(st, i + k)
      <4>1. PICK x \in 1..m : x = l + k
        BY <3>1, <3>5
      <4>2. i + k = n + x /\ Begins(t, x)
        BY <3>1, <3>3, <4>1
      <4> QED
        BY <1>6, <4>2
    <3>6. i + k \in 1..((n + m) + 1)
      BY <3>1, <3>3
    <3> QED
      BY <2>1, <3>4, <3>5, <3>6
  <2> QED
    BY <2>2, <2>3
<1>9. Whole(st)
  BY <1>5, <1>7, <1>8 DEF Whole, Text
<1> QED
  BY <1>4, <1>9

\* Whole units joined are whole.
LEMMA WholeJoined ==
    ASSUME NEW units \in Seq(Text), \A i \in 1..Len(units) : WholeUnit(units[i])
    PROVE  Whole(joined(units))
<1>1. PICK n \in Nat : n = Len(units)
  BY LenProperties
<1>2. PICK p : Joins(units, p)
  BY JoinsExist
<1>3. p[0] = <<>> /\ \A i \in 1..n : p[i] = p[i - 1] \o units[i]
  BY <1>1, <1>2 DEF Joins
<1>4. PICK S : S = {m \in Nat : m <= n => Whole(p[m])}
  OBVIOUS
<1>5. 0 \in S
  <2>1. Whole(<<>>)
    BY DEF Whole, Text
  <2> QED
    BY <1>3, <1>4, <2>1
<1>6. ASSUME NEW m \in Nat, m \in S
      PROVE  m + 1 \in S
  <2>1. CASE m + 1 <= n
    <3>1. m + 1 \in 1..n /\ (m + 1) - 1 = m /\ Whole(p[m])
      BY <1>4, <1>6, <2>1
    <3>2. Whole(units[m + 1])
      BY <1>1, <3>1, UnitWhole
    <3>3. Whole(p[m] \o units[m + 1])
      BY <3>1, <3>2, WholeConcat
    <3>4. p[m + 1] = p[m] \o units[m + 1]
      BY <1>3, <3>1
    <3>5. Whole(p[m + 1])
      BY <3>3, <3>4
    <3> QED
      BY <1>4, <3>5
  <2>2. CASE ~(m + 1 <= n)
    BY <1>4, <2>2
  <2> QED
    BY <2>1, <2>2
<1>7. n \in S
  BY <1>5, <1>6, Induction
<1>8. joined(units) = p[n]
  BY <1>1, <1>2, JoinedIs
<1> QED
  BY <1>4, <1>7, <1>8

\* The unit of a text of whole characters that begins at a byte.
LEMMA UnitOfWhole ==
    ASSUME NEW text, Whole(text), NEW i \in 1..Len(text), Begins(text, i)
    PROVE  /\ WholeUnit(UnitAt(text, i))
           /\ NextUnit(text, i) \in 1..Len(text) => Begins(text, NextUnit(text, i))
<1>1. text \in Seq(Byte) /\ text \in Text
  BY DEF Whole, Text
<1>2. PICK n \in Nat : n = Len(text)
  BY <1>1, LenProperties
<1>3. PICK k \in 1..4 : k = Size(text, i)
  BY SizeFacts
<1>4. /\ i + k \in 1..(n + 1)
      /\ \A j \in (i + 1)..(i + k - 1) : ~Begins(text, j)
      /\ i + k \in 1..n => Begins(text, i + k)
  BY <1>2, <1>3 DEF Whole
<1>5. PICK u : u = SubSeq(text, i, i + k - 1)
  OBVIOUS
<1>6. u \in Seq(Byte) /\ Len(u) = k /\ \A j \in 1..k : u[j] = text[i + j - 1]
  <2>1. i \in 1..(Len(text) + 1) /\ i + k - 1 \in (i - 1)..Len(text)
    BY <1>2, <1>4
  <2>2. /\ u \in Seq(Byte) /\ Len(u) = (i + k - 1) - i + 1
        /\ \A j \in 1..((i + k - 1) - i + 1) : u[j] = text[i + j - 1]
    BY <1>1, <1>5, <2>1, Part
  <2>3. (i + k - 1) - i + 1 = k
    BY <1>2
  <2> QED
    BY <2>2, <2>3
<1>7. u[1] = text[i]
  <2>1. 1 \in 1..k /\ i + 1 - 1 = i
    BY <1>2
  <2> QED
    BY <1>6, <2>1
<1>8. ASSUME NEW j \in 2..k
      PROVE  ~Begins(u, j)
  <2>1. j \in 1..k /\ i + j - 1 \in (i + 1)..(i + k - 1)
    BY <1>2
  <2>2. u[j] = text[i + j - 1] /\ ~Begins(text, i + j - 1)
    BY <1>4, <1>6, <2>1
  <2> QED
    BY <2>2 DEF Begins
<1>9. IsCharacter(u)
  <2>1. utf8_length(u[1]) = k
    BY <1>3, <1>7 DEF Size
  <2>2. u # <<>>
    BY <1>6
  <2> QED
    BY <1>6, <1>8, <2>1, <2>2 DEF IsCharacter, Begins, is_utf8_continuation
<1>10. WholeUnit(u)
  BY <1>6, <1>7, <1>9 DEF WholeUnit, Begins, Text
<1>11. UnitLength(text, i) = k
  <2>1. utf8_length(text[i]) = k /\ i + k - 1 <= Len(text)
    BY <1>2, <1>3, <1>4 DEF Size
  <2> QED
    BY <1>5, <1>9, <2>1 DEF UnitLength
<1>12. UnitAt(text, i) = u /\ NextUnit(text, i) = i + k
  BY <1>5, <1>11 DEF UnitAt, NextUnit
<1> QED
  BY <1>2, <1>4, <1>10, <1>12

\* A text of whole characters is split into them.
LEMMA WholeSplit ==
    ASSUME NEW text, Whole(text)
    PROVE  \A i \in 1..Len(split_utf8(text)) : WholeUnit(split_utf8(text)[i])
<1>1. text \in Text
  BY DEF Whole
<1>2. PICK n \in Nat : n = Len(text)
  BY <1>1, LenProperties DEF Text
<1>3. PICK g : SplitsFrom(text, 1, g)
  BY <1>1, SplitsExist
<1>4. split_utf8(text) = g[1]
  BY <1>1, <1>3, SplitIs
<1>5. /\ g \in [1..(n + 1) -> Seq(Text)] /\ g[n + 1] = <<>>
      /\ \A i \in 1..n : g[i] = <<UnitAt(text, i)>> \o g[NextUnit(text, i)]
  BY <1>2, <1>3 DEF SplitsFrom
<1> DEFINE Fine(i) == (i \in 1..n => Begins(text, i)) => \A x \in 1..Len(g[i]) : WholeUnit(g[i][x])
<1>6. PICK S : S = {m \in Nat : \A i \in 1..(n + 1) : i + m >= n + 1 => Fine(i)}
  OBVIOUS
<1>7. Fine(n + 1)
  BY <1>5
<1>8. 0 \in S
  <2>1. \A i \in 1..(n + 1) : i + 0 >= n + 1 => i = n + 1
    OBVIOUS
  <2> HIDE DEF Fine
  <2> QED
    BY <1>6, <1>7, <2>1
<1>9. ASSUME NEW m \in Nat, m \in S
      PROVE  m + 1 \in S
  <2>1. ASSUME NEW i \in 1..(n + 1), i + (m + 1) >= n + 1
        PROVE  Fine(i)
    <3>1. CASE i > n
      <4>1. i = n + 1
        BY <3>1
      <4> HIDE DEF Fine
      <4> QED
        BY <1>7, <4>1
    <3>2. CASE ~(i > n)
      <4> SUFFICES ASSUME Begins(text, i)
                   PROVE  \A x \in 1..Len(g[i]) : WholeUnit(g[i][x])
        BY <3>2
      <4>1. i \in 1..n
        BY <3>2
      <4>2. PICK l \in (i + 1)..(n + 1) : l = NextUnit(text, i)
        BY <1>1, <1>2, <4>1, UnitFacts
      <4>3. l \in 1..(n + 1) /\ l + m >= n + 1
        BY <2>1, <4>2
      <4>4. Fine(l)
        <5> HIDE DEF Fine
        <5> QED
          BY <1>6, <1>9, <4>3
      <4>5. PICK a : a = UnitAt(text, i)
        OBVIOUS
      <4>6. WholeUnit(a) /\ (l \in 1..n => Begins(text, l))
        BY <1>2, <4>1, <4>2, <4>5, UnitOfWhole
      <4>7. PICK b : b = g[l]
        OBVIOUS
      <4>8. b \in Seq(Text) /\ \A x \in 1..Len(b) : WholeUnit(b[x])
        BY <1>5, <4>3, <4>4, <4>6, <4>7
      <4>9. g[i] = <<a>> \o b
        BY <1>5, <4>1, <4>2, <4>5, <4>7
      <4>10. a \in Text
        BY <4>6 DEF WholeUnit
      <4>11. PICK c : c = <<a>> \o b
        OBVIOUS
      <4>12. /\ Len(c) = 1 + Len(b) /\ Len(b) \in Nat
             /\ \A x \in 1..(1 + Len(b)) : c[x] = IF x <= 1 THEN a ELSE b[x - 1]
        <5>1. PICK o : o = <<a>>
          OBVIOUS
        <5>2. o \in Seq(Text) /\ Len(o) = 1 /\ o[1] = a
          BY <4>10, <5>1
        <5>3. c = o \o b
          BY <4>11, <5>1
        <5>4. /\ Len(c) = Len(o) + Len(b)
              /\ \A x \in 1..(Len(o) + Len(b)) : c[x] = IF x <= Len(o) THEN o[x] ELSE b[x - Len(o)]
          BY <4>8, <5>2, <5>3, ConcatProperties
        <5>5. Len(b) \in Nat
          BY <4>8, LenProperties
        <5> QED
          BY <5>2, <5>4, <5>5
      <4>13. ASSUME NEW x \in 1..Len(c)
             PROVE  WholeUnit(c[x])
        <5>1. CASE x = 1
          BY <4>6, <4>12, <5>1
        <5>2. CASE x # 1
          <6>1. x - 1 \in 1..Len(b) /\ c[x] = b[x - 1]
            BY <4>12, <5>2
          <6> QED
            BY <4>8, <6>1
        <5> QED
          BY <5>1, <5>2
      <4> QED
        BY <4>9, <4>11, <4>13
    <3> QED
      BY <3>1, <3>2
  <2> HIDE DEF Fine
  <2> QED
    BY <1>6, <2>1
<1>10. n \in S
  <2> HIDE DEF Fine
  <2> QED
    BY <1>8, <1>9, Induction
<1>11. Fine(1)
  <2>1. 1 \in 1..(n + 1) /\ 1 + n >= n + 1
    OBVIOUS
  <2> HIDE DEF Fine
  <2> QED
    BY <1>6, <1>10, <2>1
<1>12. 1 \in 1..n => Begins(text, 1)
  BY <1>2 DEF Whole
<1> QED
  BY <1>4, <1>11, <1>12

\* How many bytes a line has with one unit more, and with one less.
LEMMA InsertedLength ==
    ASSUME NEW s \in Seq(Text), NEW c \in 0..Len(s), NEW u \in Text, NEW t, t = InsertAt(s, c + 1, u)
    PROVE  Len(joined(t)) = Len(joined(s)) + Len(u)
<1>1. PICK n \in Nat : n = Len(s)
  BY LenProperties
<1>2. PICK a : a = SubSeq(s, 1, c)
  OBVIOUS
<1>3. PICK b : b = SubSeq(s, c + 1, Len(s))
  OBVIOUS
<1>4. a \in Seq(Text)
  <2>1. 1 \in 1..(Len(s) + 1) /\ c \in (1 - 1)..Len(s)
    BY <1>1
  <2> QED
    BY <1>2, <2>1, Part
<1>5. b \in Seq(Text)
  <2>1. c + 1 \in 1..(Len(s) + 1) /\ Len(s) \in ((c + 1) - 1)..Len(s)
    BY <1>1
  <2> QED
    BY <1>3, <2>1, Part
<1>6. s = a \o b
  <2>1. 1 \in 1..(Len(s) + 1) /\ c \in (1 - 1)..Len(s) /\ Len(s) \in c..Len(s)
    BY <1>1
  <2>2. SubSeq(s, 1, c) \o SubSeq(s, c + 1, Len(s)) = SubSeq(s, 1, Len(s))
    BY <2>1, ConcatAdjacentSubSeq
  <2> QED
    BY <1>2, <1>3, <2>2, SubSeqFull
<1>7. PICK o : o = <<u>>
  OBVIOUS
<1>8. o \in Seq(Text) /\ joined(o) = u
  BY <1>7, JoinedFew
<1>9. PICK d : d = a \o o
  OBVIOUS
<1>10. d \in Seq(Text) /\ t = d \o b
  <2>1. (c + 1) - 1 = c
    BY <1>1
  <2>2. t = a \o <<u>> \o b
    BY <1>2, <1>3, <2>1 DEF InsertAt
  <2>3. d \in Seq(Text)
    BY <1>4, <1>8, <1>9, ConcatProperties
  <2> QED
    BY <1>7, <1>9, <2>2, <2>3
<1>11. joined(s) = joined(a) \o joined(b)
  BY <1>4, <1>5, <1>6, JoinedConcat
<1>12. joined(d) = joined(a) \o u
  BY <1>4, <1>8, <1>9, JoinedConcat
<1>13. joined(t) = joined(d) \o joined(b)
  BY <1>5, <1>10, JoinedConcat
<1>14. PICK ja \in Seq(Byte) : ja = joined(a)
  BY <1>4, JoinedText DEF Text
<1>15. PICK jb \in Seq(Byte) : jb = joined(b)
  BY <1>5, JoinedText DEF Text
<1>16. PICK jd \in Seq(Byte) : jd = joined(d)
  BY <1>10, JoinedText DEF Text
<1>17. Len(joined(s)) = Len(ja) + Len(jb)
  BY <1>11, <1>14, <1>15, ConcatProperties
<1>18. Len(jd) = Len(ja) + Len(u)
  BY <1>12, <1>14, <1>16, ConcatProperties DEF Text
<1>19. Len(joined(t)) = Len(jd) + Len(jb)
  BY <1>13, <1>15, <1>16, ConcatProperties
<1>20. Len(ja) \in Nat /\ Len(jb) \in Nat /\ Len(u) \in Nat
  BY LenProperties DEF Text
<1> QED
  BY <1>17, <1>18, <1>19, <1>20

\* As above: a line is the line without the unit, with it put in again.
LEMMA RemovedLength ==
    ASSUME NEW s \in Seq(Text), NEW c \in Nat, c < Len(s), NEW t, t = RemoveAt(s, c + 1)
    PROVE  Len(joined(t)) <= Len(joined(s))
<1>1. PICK n \in Nat : n = Len(s)
  BY LenProperties
<1>2. /\ t \in Seq(Text) /\ Len(t) = n - 1 /\ (\A i \in 1..c : t[i] = s[i])
      /\ \A i \in (c + 1)..(n - 1) : t[i] = s[i + 1]
  <2>1. OneLess(s, c, t)
    BY Removed
  <2> QED
    BY <1>1, <2>1 DEF OneLess
<1>3. PICK u \in Text : u = s[c + 1]
  <2>1. c + 1 \in 1..Len(s)
    BY <1>1
  <2> QED
    BY <2>1, ElementOfSeq
<1>4. c \in 0..Len(t)
  BY <1>1, <1>2
<1>5. PICK v : v = InsertAt(t, c + 1, u)
  OBVIOUS
<1>a. t \in Seq(Text)
  BY <1>2
<1>6. /\ v \in Seq(Text) /\ Len(v) = Len(t) + 1
      /\ v[c + 1] = u /\ (\A i \in 1..c : v[i] = t[i])
      /\ \A i \in (c + 2)..(Len(t) + 1) : v[i] = t[i - 1]
  <2>1. OneMore(t, c, u, v)
    BY <1>4, <1>5, <1>a, Inserted
  <2> QED
    BY <2>1 DEF OneMore
<1>7. Len(v) = Len(s)
  BY <1>1, <1>2, <1>6
<1>8. ASSUME NEW i \in 1..Len(v)
      PROVE  v[i] = s[i]
  <2>1. CASE i \in 1..c
    BY <1>2, <1>6, <2>1
  <2>2. CASE i = c + 1
    BY <1>3, <1>6, <2>2
  <2>3. CASE i \in (c + 2)..n
    <3>1. v[i] = t[i - 1]
      <4>1. i \in (c + 2)..(Len(t) + 1)
        BY <1>1, <1>2, <2>3
      <4> QED
        BY <1>6, <4>1
    <3>2. i - 1 \in (c + 1)..(n - 1) /\ (i - 1) + 1 = i
      BY <1>1, <2>3
    <3> QED
      BY <1>2, <3>1, <3>2
  <2> QED
    BY <1>1, <1>7, <2>1, <2>2, <2>3
<1>9. v = s
  BY <1>6, <1>7, <1>8, SeqEqual
<1>10. Len(joined(v)) = Len(joined(t)) + Len(u)
  BY <1>2, <1>4, <1>5, InsertedLength
<1>11. Len(joined(t)) \in Nat /\ Len(u) \in Nat
  <2>1. joined(t) \in Text
    BY <1>2, JoinedText
  <2> QED
    BY <2>1, LenProperties DEF Text
<1> QED
  BY <1>9, <1>10, <1>11

\* The line and the history hold whole characters, and lines that fit.
WholeText(e) ==
    /\ \A i \in 1..Len(e.buffer) : WholeUnit(e.buffer[i])
    /\ input_bytes(e) <= MaxInputBytes
    /\ \A i \in 1..Len(e.history) : Whole(e.history[i]) /\ Len(e.history[i]) <= MaxInputBytes

\* Typing and erasing keep them so.
LEMMA TypesWhole ==
    ASSUME NEW e, Sound(e), WholeText(e), NEW f, Types(e, f)
    PROVE  WholeText(f)
<1>1. PICK s \in Seq(Text) : s = e.buffer
  BY DEF Sound, Editable, Editors
<1>2. PICK n \in Nat : n = Len(s)
  BY LenProperties
<1>3. PICK c \in 0..Len(s) : c = e.cursor
  BY <1>1, <1>2 DEF Sound, Editable, Editors
<1>4. PICK u \in TypedUnits : /\ input_bytes(e) + Len(u) <= MaxInputBytes
                             /\ f.buffer = InsertAt(e.buffer, e.cursor + 1, u)
  BY DEF Types
<1>5. u \in Text /\ WholeUnit(u)
  BY TypedText, TypedWhole
<1>6. PICK t : t = f.buffer
  OBVIOUS
<1>7. t = InsertAt(s, c + 1, u)
  BY <1>1, <1>3, <1>4, <1>6
<1>8. /\ t \in Seq(Text) /\ Len(t) = n + 1
      /\ t[c + 1] = u /\ (\A i \in 1..c : t[i] = s[i])
      /\ \A i \in (c + 2)..(n + 1) : t[i] = s[i - 1]
  <2>1. u \in Text
    BY <1>5
  <2>2. OneMore(s, c, u, t)
    BY <1>7, <2>1, Inserted
  <2> QED
    BY <1>2, <2>2 DEF OneMore
<1>9. \A i \in 1..n : WholeUnit(s[i])
  BY <1>1, <1>2 DEF WholeText
<1>10. ASSUME NEW i \in 1..Len(t)
       PROVE  WholeUnit(t[i])
  <2>1. CASE i \in 1..c
    BY <1>2, <1>8, <1>9, <2>1
  <2>2. CASE i = c + 1
    BY <1>5, <1>8, <2>2
  <2>3. CASE i \in (c + 2)..(n + 1)
    <3>1. i - 1 \in 1..n /\ t[i] = s[i - 1]
      BY <1>8, <2>3
    <3> QED
      BY <1>9, <3>1
  <2> QED
    BY <1>2, <1>8, <2>1, <2>2, <2>3
<1>11. Len(joined(t)) = Len(joined(s)) + Len(u)
  BY <1>5, <1>7, InsertedLength
<1>12. input_bytes(f) <= MaxInputBytes
  BY <1>1, <1>4, <1>6, <1>11 DEF input_bytes
<1> QED
  BY <1>6, <1>10, <1>12 DEF WholeText, Types

\* A unit out of the line.
LEMMA RemovedWhole ==
    ASSUME NEW e, Sound(e), WholeText(e), NEW c \in Nat, c < Len(e.buffer),
           NEW f, f.buffer = RemoveAt(e.buffer, c + 1), f.history = e.history
    PROVE  WholeText(f)
<1>1. PICK s \in Seq(Text) : s = e.buffer
  BY DEF Sound, Editable, Editors
<1>2. PICK n \in Nat : n = Len(s)
  BY LenProperties
<1>3. PICK t : t = f.buffer
  OBVIOUS
<1>4. t = RemoveAt(s, c + 1) /\ c < Len(s)
  BY <1>1, <1>3
<1>5. /\ t \in Seq(Text) /\ Len(t) = n - 1 /\ (\A i \in 1..c : t[i] = s[i])
      /\ \A i \in (c + 1)..(n - 1) : t[i] = s[i + 1]
  <2>1. c < Len(s) /\ t = RemoveAt(s, c + 1)
    BY <1>4
  <2>2. OneLess(s, c, t)
    BY <2>1, Removed
  <2> QED
    BY <1>2, <2>2 DEF OneLess
<1>6. \A i \in 1..n : WholeUnit(s[i])
  BY <1>1, <1>2 DEF WholeText
<1>7. ASSUME NEW i \in 1..Len(t)
      PROVE  WholeUnit(t[i])
  <2>1. CASE i \in 1..c
    BY <1>2, <1>4, <1>5, <1>6, <2>1
  <2>2. CASE i \notin 1..c
    <3>1. i \in (c + 1)..(n - 1) /\ i + 1 \in 1..n
      BY <1>2, <1>5, <2>2
    <3> QED
      BY <1>5, <1>6, <3>1
  <2> QED
    BY <2>1, <2>2
<1>8. Len(joined(t)) <= Len(joined(s))
  BY <1>4, RemovedLength
<1>9. Len(joined(t)) \in Nat /\ Len(joined(s)) \in Nat
  <2>1. joined(t) \in Text /\ joined(s) \in Text
    BY <1>5, JoinedText
  <2> QED
    BY <2>1, LenProperties DEF Text
<1>10. input_bytes(f) <= MaxInputBytes
  BY <1>1, <1>3, <1>8, <1>9, TerminalAssumption DEF input_bytes, WholeText
<1> QED
  BY <1>3, <1>7, <1>10 DEF WholeText

\* Every operation keeps them so.
LEMMA ActsWhole ==
    ASSUME NEW e, Sound(e), WholeText(e), NEW f, Acts(e, f)
    PROVE  WholeText(f)
<1>1. CASE f.buffer = e.buffer /\ f.history = e.history
  BY <1>1 DEF WholeText, input_bytes
<1>2. CASE Types(e, f)
  BY <1>2, TypesWhole
<1>3. CASE ErasesBefore(e, f)
  <2>1. PICK c \in Nat : c = e.cursor - 1
    BY <1>3 DEF Sound, Editable, Editors, ErasesBefore
  <2>2. Len(e.buffer) \in Nat /\ e.cursor \in Nat /\ e.cursor <= Len(e.buffer)
    BY LenProperties DEF Sound, Editable, Editors
  <2>3. c + 1 = e.cursor /\ c < Len(e.buffer)
    BY <2>1, <2>2
  <2>4. f.buffer = RemoveAt(e.buffer, c + 1) /\ f.history = e.history
    BY <1>3, <2>3 DEF ErasesBefore
  <2> QED
    BY <2>3, <2>4, RemovedWhole
<1>4. CASE ErasesAfter(e, f)
  <2>1. PICK c \in Nat : c = e.cursor
    BY DEF Sound, Editable, Editors
  <2>2. c < Len(e.buffer) /\ f.buffer = RemoveAt(e.buffer, c + 1) /\ f.history = e.history
    BY <1>4, <2>1 DEF ErasesAfter
  <2> QED
    BY <2>2, RemovedWhole
<1>5. CASE Empties(e, f)
  <2>1. Len(joined(f.buffer)) = 0 /\ Len(f.buffer) = 0
    BY <1>5, JoinedFew DEF Empties
  <2>2. \A i \in 1..Len(f.buffer) : WholeUnit(f.buffer[i])
    BY <2>1
  <2> QED
    BY <1>5, <2>1, <2>2, TerminalAssumption DEF Empties, WholeText, input_bytes
<1>6. CASE Returns(e, f)
  <2>1. PICK i \in 1..Len(e.history) : f.buffer = split_utf8(e.history[i])
    BY <1>6 DEF Returns
  <2>2. PICK text : text = e.history[i]
    OBVIOUS
  <2>3. Whole(text) /\ Len(text) <= MaxInputBytes /\ text \in Text
    BY <2>2 DEF WholeText, Whole
  <2>4. joined(f.buffer) = text
    BY <2>1, <2>2, <2>3, SplitJoined
  <2>5. \A x \in 1..Len(f.buffer) : WholeUnit(f.buffer[x])
    BY <2>1, <2>2, <2>3, WholeSplit
  <2> QED
    BY <1>6, <2>3, <2>4, <2>5 DEF WholeText, input_bytes, Returns
<1> QED
  BY <1>1, <1>2, <1>3, <1>4, <1>5, <1>6 DEF Acts, Still, MovesTo

\* Entering the line keeps them so: it is whole and fits.
LEMMA EntersWhole ==
    ASSUME NEW e, Sound(e), WholeText(e), NEW f, Enters(e, f)
    PROVE  WholeText(f)
<1>1. PICK history \in Seq(Text) : history = e.history
  BY DEF Sound, Editable, Editors
<1>2. e.buffer \in Seq(Text)
  BY DEF Sound, Editable, Editors
<1>3. PICK line : line = joined(e.buffer)
  OBVIOUS
<1>4. line \in Text /\ Whole(line) /\ Len(line) <= MaxInputBytes
  <2>1. Whole(line)
    BY <1>2, <1>3, WholeJoined DEF WholeText
  <2> QED
    BY <1>3, <2>1 DEF WholeText, input_bytes, Whole
<1> DEFINE Fits(text) == Whole(text) /\ Len(text) <= MaxInputBytes
<1>5. \A i \in 1..Len(history) : Fits(history[i])
  BY <1>1 DEF WholeText
<1>6. Fits(line)
  BY <1>4
<1> HIDE DEF Fits
<1>7. PICK h : h = Remember(history, line)
  OBVIOUS
<1>8. /\ h \in Seq(Text)
      /\ \/ h = history
         \/ \E i \in 1..(Len(history) + 1) : h = Append(SubSeq(history, i, Len(history)), line)
  <2>1. line \in Text
    BY <1>4
  <2>2. Remembered(history, line, h)
    BY <1>7, <2>1, RememberFacts
  <2> QED
    BY <2>2 DEF Remembered
<1>9. \A i \in 1..Len(h) : Fits(h[i])
  <2>1. CASE h = history
    BY <1>5, <2>1
  <2>2. CASE \E i \in 1..(Len(history) + 1) : h = Append(SubSeq(history, i, Len(history)), line)
    <3>1. PICK n \in Nat : n = Len(history)
      BY LenProperties
    <3>2. PICK i \in 1..(n + 1) : h = Append(SubSeq(history, i, n), line)
      BY <2>2, <3>1
    <3>3. PICK a : a = SubSeq(history, i, n)
      OBVIOUS
    <3>4. /\ a \in Seq(Text) /\ Len(a) = n - i + 1
          /\ \A x \in 1..(n - i + 1) : a[x] = history[i + x - 1]
      <4>1. i \in 1..(Len(history) + 1) /\ n \in (i - 1)..Len(history)
        BY <3>1
      <4> QED
        BY <3>3, <4>1, Part
    <3>5. h = Append(a, line)
      BY <3>2, <3>3
    <3>6. /\ Len(h) = Len(a) + 1 /\ h[Len(a) + 1] = line
          /\ \A x \in 1..Len(a) : h[x] = a[x]
      BY <1>4, <3>4, <3>5, AppendProperties
    <3>7. ASSUME NEW x \in 1..Len(h)
          PROVE  Fits(h[x])
      <4>1. CASE x = Len(a) + 1
        BY <1>6, <3>6, <4>1
      <4>2. CASE x # Len(a) + 1
        <5>1. x \in 1..Len(a) /\ x \in 1..(n - i + 1) /\ i + x - 1 \in 1..Len(history)
          BY <3>1, <3>4, <3>6, <4>2
        <5>2. h[x] = history[i + x - 1]
          BY <3>4, <3>6, <5>1
        <5> QED
          BY <1>5, <5>1, <5>2
      <4> QED
        BY <4>1, <4>2
    <3> QED
      BY <3>7
  <2> QED
    BY <1>8, <2>1, <2>2
<1>10. f.history = h /\ f.buffer = <<>>
  BY <1>1, <1>3, <1>7 DEF Enters
<1>11. Len(joined(f.buffer)) = 0 /\ Len(f.buffer) = 0
  BY <1>10, JoinedFew
<1>12. \A i \in 1..Len(f.buffer) : WholeUnit(f.buffer[i])
  BY <1>11
<1> QED
  BY <1>9, <1>10, <1>11, <1>12, TerminalAssumption DEF WholeText, input_bytes, Fits

-----------------------------------------------------------------------------
(* Keys *)

\* What one press of a key does to the line.
Presses(e, k, f) ==
    \/ Still(e, f)
    \/ k = "backspace" /\ ErasesBefore(e, f)
    \/ k = "delete" /\ ErasesAfter(e, f)
    \/ k = "left" /\ MovesTo(e, f, {e.cursor - 1})
    \/ k = "right" /\ MovesTo(e, f, {e.cursor + 1})
    \/ k \in {"home", "end"} /\ MovesTo(e, f, {0, Len(e.buffer)})
    \/ k \in {"up", "down"} /\ (Empties(e, f) \/ Returns(e, f))
    \/ k = "kill" /\ Empties(e, f)
    \/ k \notin {"backspace", "delete", "left", "right", "home", "end", "up", "down", "kill"}
         /\ Types(e, f)

\* The editor with or without half of a pair.
WithHigh(e, x) == [e EXCEPT !.high = x]

\* The line stays where it is when only that changes.
LEMMA HighChanged ==
    ASSUME NEW e, Sound(e), NEW x \in BOOLEAN, NEW f, f = WithHigh(e, x)
    PROVE  Kept(e, f) /\ SameText(e, f) /\ f.pending = e.pending
<1>1. e \in Editors
  BY DEF Sound, Editable
<1>2. /\ f \in Editors /\ SameTerminal(e, f) /\ f.screen = e.screen /\ f.pending = e.pending
      /\ SameText(e, f)
  BY <1>1 DEF WithHigh, Editors, SameTerminal, SameText
<1> QED
  BY <1>2, Undrawn

\* A press is an operation.
LEMMA PressesActs ==
    ASSUME NEW e, NEW k, NEW f, Presses(e, k, f)
    PROVE  Acts(e, f)
BY DEF Presses, Acts, MovesTo

\* A unit typed after that.
LEMMA TypedAfter ==
    ASSUME NEW e, Sound(e), NEW f, Kept(e, f), SameText(e, f), f.pending = e.pending,
           NEW u \in TypedUnits, NEW g, g = insert(f, u)
    PROVE  Kept(e, g) /\ g.pending = e.pending /\ (Still(e, g) \/ Types(e, g))
<1>1. Sound(f)
  BY DEF Kept
<1>2. Kept(f, g) /\ SameInput(f, g) /\ (Still(f, g) \/ Types(f, g))
  BY <1>1, InsertActs
<1>3. Kept(e, g)
  BY <1>2, KeptOn
<1>4. Still(e, g) \/ Types(e, g)
  BY <1>2 DEF SameText, Still, Types, input_bytes
<1> QED
  BY <1>2, <1>3, <1>4 DEF SameInput

\* One press.
LEMMA KeyOnceActs ==
    ASSUME NEW e, Sound(e), NEW k \in Keys, NEW f, f = KeyOnce(e, k)
    PROVE  Kept(e, f) /\ f.pending = e.pending /\ Presses(e, k, f)
<1>1. PICK l : l = [e EXCEPT !.high = FALSE]
  OBVIOUS
<1>2. Kept(e, l) /\ SameText(e, l) /\ l.pending = e.pending
  <2>1. l = WithHigh(e, FALSE)
    BY <1>1 DEF WithHigh
  <2> QED
    BY <2>1, HighChanged
<1>3. CASE k = "backspace"
  <2>1. f = backspace(e)
    BY <1>3 DEF KeyOnce
  <2> QED
    BY <1>3, <2>1, EraseActs DEF SameInput, Presses
<1>4. CASE k = "delete"
  <2>1. f = erase_at_cursor(e)
    BY <1>4 DEF KeyOnce
  <2> QED
    BY <1>4, <2>1, EraseActs DEF SameInput, Presses
<1>5. CASE k = "left"
  <2>1. f = move_left(e)
    BY <1>5 DEF KeyOnce
  <2> QED
    BY <1>5, <2>1, LeftActs DEF SameInput, Presses
<1>6. CASE k = "right"
  <2>1. f = move_right(e)
    BY <1>6 DEF KeyOnce
  <2> QED
    BY <1>6, <2>1, RightActs DEF SameInput, Presses
<1>7. CASE k = "home" \/ k = "end"
  <2>1. f \in {move_home(e), move_end(e)}
    BY <1>7 DEF KeyOnce
  <2> QED
    BY <1>7, <2>1, HomeActs DEF SameInput, Presses
<1>8. CASE k = "up" \/ k = "down"
  <2>1. f \in {history_up(e), history_down(e)}
    BY <1>8 DEF KeyOnce
  <2> QED
    BY <1>8, <2>1, RecallActs DEF SameInput, Presses
<1>9. CASE k = "redraw"
  <2>1. f = render(e)
    BY <1>9 DEF KeyOnce
  <2>2. Becomes(e, f, e.buffer, e.cursor)
    BY <2>1, RenderFacts
  <2> QED
    BY <2>2 DEF Becomes, SameInput, Presses, Still
<1>10. CASE k = "kill"
  <2>1. f = kill_line(e)
    BY <1>10 DEF KeyOnce
  <2>2. Becomes(e, f, <<>>, 0)
    BY <2>1, KillFacts
  <2> QED
    BY <1>10, <2>2 DEF Becomes, SameInput, Presses, Empties
<1>11. CASE k = "tab"
  <2>1. f = insert(e, Tab)
    BY <1>11 DEF KeyOnce
  <2>2. PICK u \in TypedUnits : u = Tab
    BY DEF TypedUnits
  <2>3. Kept(e, f) /\ SameInput(e, f) /\ (Still(e, f) \/ Types(e, f))
    BY <2>1, <2>2, InsertActs
  <2> QED
    BY <1>11, <2>3 DEF SameInput, Presses
<1>12. CASE k = "control"
  <2>1. f = e
    BY <1>12 DEF KeyOnce
  <2> QED
    BY <2>1, Unchanged DEF Becomes, Presses, Still
<1>13. CASE k = "high"
  <2>1. f = WithHigh(e, TRUE)
    BY <1>13 DEF KeyOnce, WithHigh
  <2>2. Kept(e, f) /\ SameText(e, f) /\ f.pending = e.pending
    BY <2>1, HighChanged
  <2> QED
    BY <2>2 DEF SameText, Presses, Still
<1>14. CASE k = "low"
  <2>1. PICK u : u = IF e.high THEN WideCharacter ELSE LoneSurrogate
    OBVIOUS
  <2>2. u \in TypedUnits
    BY <2>1 DEF TypedUnits
  <2>3. f = insert(l, u)
    BY <1>1, <1>14, <2>1 DEF KeyOnce
  <2>4. Kept(e, f) /\ f.pending = e.pending /\ (Still(e, f) \/ Types(e, f))
    BY <1>2, <2>2, <2>3, TypedAfter
  <2> QED
    BY <1>14, <2>4 DEF Presses
<1>15. CASE k \notin {"backspace", "delete", "left", "right", "home", "end", "up", "down",
                      "redraw", "kill", "tab", "control", "high", "low"}
  <2>1. PICK u : u = <<k>>
    OBVIOUS
  <2>2. u \in TypedUnits
    <3>1. utf8_length(k) = 1 /\ ~is_utf8_continuation(k)
      BY TerminalAssumption DEF utf8_length, is_utf8_continuation
    <3> QED
      BY <2>1, <3>1 DEF TypedUnits
  <2>3. f = insert(l, u)
    BY <1>1, <1>15, <2>1 DEF KeyOnce
  <2>4. Kept(e, f) /\ f.pending = e.pending /\ (Still(e, f) \/ Types(e, f))
    BY <1>2, <2>2, <2>3, TypedAfter
  <2> QED
    BY <1>15, <2>4 DEF Presses
<1> QED
  BY <1>3, <1>4, <1>5, <1>6, <1>7, <1>8, <1>9, <1>10, <1>11, <1>12, <1>13, <1>14, <1>15

\* The states of the editor while a key is held down.
Holds(e, k, n, g) ==
    /\ g[0] = e
    /\ \A i \in 0..n : Kept(e, g[i]) /\ g[i].pending = e.pending
    /\ \A i \in 1..n : Presses(g[i - 1], k, g[i])

\* A key that is held down is pressed again and again.
LEMMA KeyTimesActs ==
    ASSUME NEW e, Sound(e), NEW k \in Keys, NEW n \in Nat, NEW f, f = KeyTimes(e, k, n)
    PROVE  \E g : Holds(e, k, n, g) /\ f = g[n]
<1>1. PICK V : V = {v \in Editors : Kept(e, v) /\ v.pending = e.pending}
  OBVIOUS
<1>2. e \in V
  <2>1. e \in Editors
    BY DEF Sound, Editable
  <2> QED
    BY <1>1, <2>1 DEF Kept, SameTerminal
<1>3. ASSUME NEW v \in V
      PROVE  KeyOnce(v, k) \in V /\ Presses(v, k, KeyOnce(v, k))
  <2>1. Sound(v) /\ Kept(e, v) /\ v.pending = e.pending
    BY <1>1, <1>3 DEF Kept
  <2>2. PICK w : w = KeyOnce(v, k)
    OBVIOUS
  <2>3. Kept(v, w) /\ w.pending = v.pending /\ Presses(v, k, w)
    BY <2>1, <2>2, KeyOnceActs
  <2>4. Kept(e, w) /\ w \in Editors
    BY <2>1, <2>3, KeptOn DEF Kept, Sound, Editable
  <2> QED
    BY <1>1, <2>1, <2>2, <2>3, <2>4
<1>4. PICK step : step = [i \in 1..n |-> [v \in V |-> KeyOnce(v, k)]]
  OBVIOUS
<1>5. step \in [1..n -> [V -> V]] /\ \A i \in 1..n, v \in V : step[i][v] = KeyOnce(v, k)
  BY <1>3, <1>4
<1>6. PICK g : Iterates(g, V, e, n, step)
  BY <1>2, <1>5, RecursiveFunction
<1>7. /\ g \in [0..n -> V] /\ g[0] = e
      /\ \A i \in 1..n : g[i] = step[i][g[i - 1]]
  BY <1>6 DEF Iterates
<1>8. \A i \in 1..n : g[i - 1] \in V /\ g[i] = KeyOnce(g[i - 1], k)
  <2>1. \A i \in 1..n : i - 1 \in 0..n
    OBVIOUS
  <2>2. \A i \in 1..n : g[i - 1] \in V
    BY <1>7, <2>1
  <2> QED
    BY <1>5, <1>7, <2>2
<1>9. Holds(e, k, n, g)
  <2>1. \A i \in 0..n : Kept(e, g[i]) /\ g[i].pending = e.pending
    BY <1>1, <1>7
  <2>2. \A i \in 1..n : Presses(g[i - 1], k, g[i])
    BY <1>3, <1>8
  <2> QED
    BY <1>7, <2>1, <2>2 DEF Holds
<1>10. PICK t : t = CHOOSE h : h = [i \in 0..n |-> IF i = 0 THEN e ELSE KeyOnce(h[i - 1], k)]
  OBVIOUS
<1>11. f = t[n]
  BY <1>10 DEF KeyTimes
<1>12. g = [i \in 0..n |-> IF i = 0 THEN e ELSE KeyOnce(g[i - 1], k)]
  <2>1. g = [i \in 0..n |-> g[i]]
    BY <1>7
  <2>2. \A i \in 0..n : g[i] = IF i = 0 THEN e ELSE KeyOnce(g[i - 1], k)
    BY <1>7, <1>8
  <2> QED
    BY <2>1, <2>2
<1>13. t = [i \in 0..n |-> IF i = 0 THEN e ELSE KeyOnce(t[i - 1], k)]
  BY <1>10, <1>12
<1>14. \A i \in 0..n : t[i] = IF i = 0 THEN e ELSE KeyOnce(t[i - 1], k)
  BY <1>13
<1>15. PICK S : S = {m \in Nat : m <= n => t[m] = g[m]}
  OBVIOUS
<1>16. 0 \in S
  BY <1>7, <1>14, <1>15
<1>17. ASSUME NEW m \in Nat, m \in S
       PROVE  m + 1 \in S
  <2>1. CASE m + 1 <= n
    <3>1. PICK i \in 1..n : i = m + 1
      BY <2>1
    <3>2. i \in 0..n /\ i # 0 /\ i - 1 = m
      BY <3>1
    <3>3. t[m] = g[m]
      BY <1>15, <1>17, <2>1
    <3>4. t[i] = KeyOnce(t[m], k)
      BY <1>14, <3>2
    <3>5. g[i] = KeyOnce(g[m], k)
      BY <1>8, <3>2
    <3>6. t[m + 1] = g[m + 1]
      BY <3>1, <3>3, <3>4, <3>5
    <3> QED
      BY <1>15, <3>6
  <2>2. CASE ~(m + 1 <= n)
    BY <1>15, <2>2
  <2> QED
    BY <2>1, <2>2
<1>18. n \in S
  BY <1>16, <1>17, Induction
<1>19. t[n] = g[n]
  BY <1>15, <1>18
<1> QED
  BY <1>9, <1>11, <1>19

\* The line stays whole while a key is held down.
LEMMA HoldsWhole ==
    ASSUME NEW e, WholeText(e), NEW k, NEW n \in Nat, NEW g, Holds(e, k, n, g)
    PROVE  WholeText(g[n])
<1>1. PICK S : S = {m \in Nat : m <= n => WholeText(g[m])}
  OBVIOUS
<1>2. 0 \in S
  BY <1>1 DEF Holds
<1>3. ASSUME NEW m \in Nat, m \in S
      PROVE  m + 1 \in S
  <2>1. CASE m + 1 <= n
    <3>1. m + 1 \in 1..n /\ (m + 1) - 1 = m /\ m \in 0..n
      BY <2>1
    <3>2. Presses(g[m], k, g[m + 1]) /\ Sound(g[m])
      BY <3>1 DEF Holds, Kept
    <3>3. Acts(g[m], g[m + 1])
      BY <3>2, PressesActs
    <3>4. WholeText(g[m])
      BY <1>1, <1>3, <2>1
    <3>5. WholeText(g[m + 1])
      BY <3>2, <3>3, <3>4, ActsWhole
    <3> QED
      BY <1>1, <3>5
  <2>2. CASE ~(m + 1 <= n)
    BY <1>1, <2>2
  <2> QED
    BY <2>1, <2>2
<1>4. n \in S
  BY <1>2, <1>3, Induction
<1> QED
  BY <1>1, <1>4

\* What must hold of the editor itself.
Core(e) == Sound(e) /\ WholeText(e) /\ e.pending \in Unfinished

\* What a step does to the line.
Edits(e, f) ==
    \/ Acts(e, f) \/ Enters(e, f)
    \/ \E k \in Keys, n \in 1..MaxRepeat : \E g : Holds(e, k, n, g) /\ SameText(g[n], f)

\* A byte and a key.
LEMMA ByteFacts ==
    ASSUME NEW e, Core(e), NEW b \in Bytes, NEW r, r = process_unix_byte(e, b)
    PROVE  Core(r.ed) /\ Kept(e, r.ed) /\ Edits(e, r.ed)
<1>1. /\ Kept(e, r.ed) /\ r.ed.pending \in Unfinished
      /\ Acts(e, r.ed) \/ Enters(e, r.ed)
  BY UnixByteActs DEF Core
<1>2. WholeText(r.ed)
  BY <1>1, ActsWhole, EntersWhole DEF Core
<1> QED
  BY <1>1, <1>2 DEF Core, Kept, Edits

\* As above.
LEMMA KeyFacts ==
    ASSUME NEW e, Core(e), NEW k \in Keys, NEW n \in 1..MaxRepeat,
           NEW r, r = process_windows_key(e, k, n)
    PROVE  Core(r.ed) /\ Kept(e, r.ed) /\ Edits(e, r.ed)
<1>1. PICK f : f = r.ed
  OBVIOUS
<1>2. Sound(e) /\ WholeText(e) /\ e.pending \in Unfinished
  BY DEF Core
<1>3. CASE k = "enter"
  <2>1. f = finish_line(e)
    BY <1>1, <1>3 DEF process_windows_key
  <2>2. /\ Kept(e, f) /\ SameInput(e, f) /\ f.buffer = <<>> /\ f.cursor = 0
        /\ f.history = Remember(e.history, joined(e.buffer))
    BY <1>2, <2>1, FinishFacts
  <2>3. Enters(e, f)
    BY <2>2 DEF Enters
  <2>4. WholeText(f)
    BY <1>2, <2>3, EntersWhole
  <2> QED
    BY <1>1, <1>2, <2>2, <2>3, <2>4 DEF Core, Kept, SameInput, Edits
<1>4. CASE k # "enter"
  <2>1. f = KeyTimes(e, k, n)
    BY <1>1, <1>4 DEF process_windows_key
  <2>2. n \in Nat
    BY TerminalAssumption
  <2>3. PICK g : Holds(e, k, n, g) /\ f = g[n]
    BY <1>2, <2>1, <2>2, KeyTimesActs
  <2>4. WholeText(f)
    BY <1>2, <2>2, <2>3, HoldsWhole
  <2>5. Kept(e, f) /\ f.pending = e.pending
    <3>1. n \in 0..n
      BY <2>2
    <3> QED
      BY <2>3, <3>1 DEF Holds
  <2>6. Edits(e, f)
    <3>1. SameText(g[n], f)
      BY <2>3 DEF SameText
    <3> QED
      BY <2>3, <3>1 DEF Edits
  <2> QED
    BY <1>1, <1>2, <2>4, <2>5, <2>6 DEF Core, Kept
<1> QED
  BY <1>3, <1>4

-----------------------------------------------------------------------------
(* The terminal *)

\* Nothing happens to the line.
LEMMA SameTextCore ==
    ASSUME NEW e, Core(e), NEW f, Sound(f), SameText(e, f), f.pending = e.pending
    PROVE  Core(f) /\ Edits(e, f)
BY DEF Core, SameText, WholeText, input_bytes, Edits, Acts, Still

\* The modes are those of an interactive terminal that remembers what it found, or
\* those that were found.
ModesOf(e, modes) ==
    IF e.interactive THEN e.opened /\ e.original = Found /\ modes = Raw(e.platform)
    ELSE modes = Found

\* The echo is off in a call that hides its input, and in no other call that goes on.
EchoOf(e, c) == (c = "hidden" => e.masked) /\ (e.masked => c \in {"hidden", "failed"})

\* The modes after an attempt to open, refused at any point.
LEMMA ModesAfterOpen ==
    ASSUME NEW e, ~e.opened, ModesOf(e, tty), NEW modes,
           NEW answer \in {"no terminal", "input refused", "output refused", "taken"},
           answer = "output refused" => e.platform = "windows",
           modes = ModeAfterOpen(e, answer)
    PROVE  modes = IF answer = "taken" THEN Raw(e.platform) ELSE Found
<1>1. tty = Found
  BY DEF ModesOf
<1>2. CASE answer = "no terminal"
  BY <1>1, <1>2 DEF ModeAfterOpen
<1>3. CASE answer = "input refused"
  <2>1. PutBack(e.platform, Found, Found) = Found
    BY DEF PutBack, Found
  <2> QED
    BY <1>1, <1>3, <2>1 DEF ModeAfterOpen
<1>4. CASE answer = "output refused"
  <2>1. InputSet = [input |-> "raw", output |-> "cooked"]
    BY <1>1 DEF InputSet, Found
  <2>2. modes = PutBack(e.platform, tty, InputSet)
    BY <1>4 DEF ModeAfterOpen
  <2> QED
    BY <1>1, <1>4, <2>1, <2>2 DEF PutBack, Found
<1>5. CASE answer = "taken"
  <2>1. InputSet = [input |-> "raw", output |-> "cooked"]
    BY <1>1 DEF InputSet, Found
  <2>2. modes = IF e.platform = "windows" THEN [InputSet EXCEPT !.output = "raw"] ELSE InputSet
    BY <1>5 DEF ModeAfterOpen
  <2>3. CASE e.platform = "windows"
    <3>1. modes = [[input |-> "raw", output |-> "cooked"] EXCEPT !.output = "raw"]
      BY <2>1, <2>2, <2>3
    <3>2. Raw(e.platform) = [input |-> "raw", output |-> "raw"]
      BY <2>3 DEF Raw
    <3> QED
      BY <1>5, <3>1, <3>2
  <2>4. CASE e.platform # "windows"
    BY <1>5, <2>1, <2>2, <2>4 DEF Raw
  <2> QED
    BY <2>3, <2>4
<1> QED
  BY <1>2, <1>3, <1>4, <1>5

\* Opening the terminal.
LEMMA OpenedFacts ==
    ASSUME NEW e, Core(e), ModesOf(e, tty),
           NEW answer \in {"no terminal", "input refused", "output refused", "taken"},
           answer = "output refused" => e.platform = "windows",
           NEW f, f = Opened(e, answer), NEW modes, modes = ModeAfterOpen(e, answer)
    PROVE  /\ Core(f) /\ Edits(e, f) /\ f.opened /\ f.masked = e.masked /\ SameText(e, f)
           /\ ModesOf(f, modes)
<1>1. Sound(e) /\ e \in Editors
  BY DEF Core, Sound, Editable
<1>2. CASE e.opened
  <2>1. f = e /\ modes = tty
    BY <1>2 DEF Opened, ModeAfterOpen
  <2>2. SameText(e, f)
    BY <2>1 DEF SameText
  <2> QED
    BY <1>1, <1>2, <2>1, <2>2, SameTextCore
<1>3. CASE ~e.opened
  <2>1. tty = Found /\ Found \in Modes /\ ~e.interactive
    BY <1>3 DEF ModesOf, Found, Modes
  <2>2. PICK original \in Modes : original = IF answer = "no terminal" THEN e.original ELSE tty
    BY <1>1, <2>1 DEF Editors
  <2>3. PICK ok \in BOOLEAN : ok <=> answer = "taken"
    OBVIOUS
  <2>4. PICK g : g = [e EXCEPT !.opened = TRUE, !.interactive = ok, !.original = original]
    OBVIOUS
  <2>5. /\ g \in Editors /\ SameText(e, g) /\ SameInput(e, g) /\ g.screen = e.screen
        /\ g.opened = TRUE /\ g.interactive = ok /\ g.masked = e.masked
        /\ g.original = original /\ g.platform = e.platform
    BY <1>1, <2>4 DEF Editors, SameText, SameInput
  <2>6. f = render(g)
    <3>1. [e EXCEPT !.opened = TRUE, !.interactive = (answer = "taken"),
                    !.original = IF answer = "no terminal" THEN @ ELSE tty] = g
      BY <1>1, <2>2, <2>3, <2>4 DEF Editors
    <3> QED
      BY <1>3, <3>1 DEF Opened
  <2>7. e.screen = NoLine
    BY <1>1, <2>1 DEF Sound
  <2>8. Editable(g) /\ g.position <= Len(g.history)
    BY <1>1, <2>5 DEF Sound, Editable, SameText
  <2>9. Sound(f) /\ SameTerminal(g, f) /\ SameText(g, f) /\ SameInput(g, f)
    BY <2>5, <2>6, <2>7, <2>8, Redrawn
  <2>10. SameText(e, f) /\ f.pending = e.pending
    BY <2>5, <2>9 DEF SameText, SameInput
  <2>11. Core(f) /\ Edits(e, f)
    BY <2>9, <2>10, SameTextCore
  <2>12. modes = IF answer = "taken" THEN Raw(e.platform) ELSE Found
    BY <1>3, ModesAfterOpen
  <2>13. ModesOf(f, modes)
    BY <2>1, <2>2, <2>3, <2>5, <2>9, <2>12 DEF SameTerminal, ModesOf
  <2> QED
    BY <2>5, <2>9, <2>10, <2>11, <2>13 DEF SameTerminal
<1> QED
  BY <1>2, <1>3

\* The editor with another prompt and echo.
WithPrompt(e, width, mask) == [e EXCEPT !.masked = mask, !.prompt = width]

\* Setting them.
LEMMA PromptFacts ==
    ASSUME NEW e, Core(e), NEW width \in Nat, NEW mask \in BOOLEAN,
           NEW f, f = render(WithPrompt(e, width, mask))
    PROVE  /\ Core(f) /\ SameText(e, f) /\ f.opened = e.opened /\ f.platform = e.platform
           /\ f.interactive = e.interactive /\ f.masked = mask /\ f.original = e.original
<1>1. Sound(e) /\ e \in Editors
  BY DEF Core, Sound, Editable
<1>2. PICK g : g = WithPrompt(e, width, mask)
  OBVIOUS
<1>3. /\ g \in Editors /\ SameText(e, g) /\ SameInput(e, g) /\ g.screen = e.screen
      /\ g.opened = e.opened /\ g.interactive = e.interactive /\ g.masked = mask
      /\ g.platform = e.platform /\ g.original = e.original
  BY <1>1, <1>2 DEF WithPrompt, Editors, SameText, SameInput
<1>4. Editable(g) /\ g.position <= Len(g.history) /\ (~g.interactive => g.screen = NoLine)
  BY <1>1, <1>3 DEF Sound, Editable, SameText
<1>5. Sound(f) /\ SameTerminal(g, f) /\ SameText(g, f) /\ SameInput(g, f)
  BY <1>2, <1>3, <1>4, Redrawn
<1>6. SameText(e, f) /\ f.pending = e.pending
  BY <1>3, <1>5 DEF SameText, SameInput
<1>7. Core(f)
  BY <1>5, <1>6, SameTextCore
<1> QED
  BY <1>3, <1>5, <1>6, <1>7 DEF SameTerminal

\* Wiping the line.
LEMMA WipedFacts ==
    ASSUME NEW e, Core(e), NEW f, f = clear_input_line(e)
    PROVE  /\ Core(f) /\ SameText(e, f) /\ SameTerminal(e, f) /\ f.screen = NoLine /\ f.pending = e.pending
<1>1. Sound(e) /\ e \in Editors
  BY DEF Core, Sound, Editable
<1>2. /\ f \in Editors /\ SameText(e, f) /\ SameTerminal(e, f) /\ f.screen = NoLine
      /\ f.pending = e.pending
  <2>1. CASE e.interactive
    <3>1. f = [e EXCEPT !.screen = NoLine]
      BY <2>1 DEF clear_input_line
    <3> QED
      BY <1>1, <3>1, NoLineScreen DEF Editors, SameText, SameTerminal
  <2>2. CASE ~e.interactive
    <3>1. f = e
      BY <2>2 DEF clear_input_line
    <3> QED
      BY <1>1, <2>2, <3>1 DEF Sound, SameText, SameTerminal
  <2> QED
    BY <2>1, <2>2
<1>3. Sound(f)
  BY <1>1, <1>2, NoLineScreen DEF Sound, Editable, SameText
<1>4. Core(f)
  BY <1>2, <1>3, SameTextCore
<1> QED
  BY <1>2, <1>4

\* Closing the terminal.
LEMMA ClosedFacts ==
    ASSUME NEW e, Core(e),
           NEW f, f = [clear_input_line(e) EXCEPT !.opened = FALSE, !.interactive = FALSE]
    PROVE  Core(f) /\ SameText(e, f) /\ ~f.interactive /\ f.masked = e.masked
<1>1. PICK c : c = clear_input_line(e)
  OBVIOUS
<1>2. /\ Core(c) /\ SameText(e, c) /\ SameTerminal(e, c) /\ c.screen = NoLine /\ c.pending = e.pending
  BY <1>1, WipedFacts
<1>3. Sound(c) /\ c \in Editors
  BY <1>2 DEF Core, Sound, Editable
<1>4. f = [c EXCEPT !.opened = FALSE, !.interactive = FALSE]
  BY <1>1
<1>5. /\ f \in Editors /\ SameText(c, f) /\ f.screen = NoLine /\ f.pending = c.pending
      /\ f.interactive = FALSE /\ f.masked = c.masked
  BY <1>2, <1>3, <1>4 DEF Editors, SameText
<1>6. Sound(f)
  BY <1>3, <1>5, NoLineScreen DEF Sound, Editable, SameText
<1>7. SameText(e, f) /\ f.pending = e.pending
  BY <1>2, <1>5 DEF SameText
<1>8. Core(f)
  BY <1>6, <1>7, SameTextCore
<1> QED
  BY <1>2, <1>5, <1>7, <1>8 DEF SameTerminal

\* The invariant: the editor is sound, the modes are what it took or found, and
\* the echo is what the call asked for.
TerminalInv == Core(ed) /\ ModesOf(ed, tty) /\ EchoOf(ed, call)

\* It holds at the start.
LEMMA TerminalInit ==
    ASSUME Init
    PROVE  TerminalInv
<1>1. PICK platform \in Platforms :
        ed = [platform |-> platform, opened |-> FALSE, interactive |-> FALSE, masked |-> FALSE,
              original |-> Found, prompt |-> 0, buffer |-> <<>>, cursor |-> 0, history |-> <<>>,
              position |-> 0, pending |-> <<>>, escape |-> <<>>, high |-> FALSE, screen |-> NoLine]
  BY DEF Init
<1>2. PICK e : e = ed
  OBVIOUS
<1>3. /\ e.buffer = <<>> /\ e.history = <<>> /\ e.pending = <<>> /\ e.cursor = 0 /\ e.position = 0
      /\ ~e.interactive /\ ~e.masked /\ e.screen = NoLine
  BY <1>1, <1>2
<1>4. e \in Editors
  <2>1. /\ <<>> \in Seq(Text) /\ <<>> \in Seq(Bytes) /\ <<>> \in Seq(Bytes \cup {"esc"})
        /\ NoLine \in Screens /\ Found \in Modes
    BY NoLineScreen DEF Found, Modes
  <2> QED
    BY <1>1, <1>2, <2>1 DEF Editors
<1>5. Sound(e)
  BY <1>3, <1>4, NoLineScreen, EmptySeq DEF Sound, Editable
<1>6. WholeText(e)
  <2>1. Len(joined(e.buffer)) = 0 /\ Len(e.buffer) = 0 /\ Len(e.history) = 0
    BY <1>3, JoinedFew
  <2>2. (\A i \in 1..Len(e.buffer) : FALSE) /\ \A i \in 1..Len(e.history) : FALSE
    BY <2>1
  <2> QED
    BY <2>1, <2>2, TerminalAssumption DEF WholeText, input_bytes
<1>7. Core(e)
  BY <1>3, <1>5, <1>6 DEF Core, Unfinished
<1>8. tty = Found /\ call = "none"
  BY DEF Init
<1> QED
  BY <1>2, <1>3, <1>7, <1>8 DEF TerminalInv, ModesOf, EchoOf

\* What a step keeps, and what it does to the line.
Keeps == Core(ed') /\ Edits(ed, ed') /\ ModesOf(ed', tty') /\ EchoOf(ed', call')

\* A call that ends draws the line again with the echo on.
LEMMA EndCallKeeps ==
    ASSUME TerminalInv, UNCHANGED tty, NEW e, Core(e), Kept(ed, e), Edits(ed, e),
           NEW r, EndCall(e, r)
    PROVE  Keeps
<1>1. CASE Reading /\ r.status # "none"
  <2>1. ed' = render([e EXCEPT !.masked = FALSE, !.prompt = 0])
    BY <1>1 DEF EndCall
  <2>2. PICK f : f = ed'
    OBVIOUS
  <2>3. PICK w \in Nat : w = 0
    OBVIOUS
  <2>4. PICK m \in BOOLEAN : m = FALSE
    OBVIOUS
  <2>5. f = render(WithPrompt(e, w, m))
    BY <2>1, <2>2, <2>3, <2>4 DEF WithPrompt
  <2>6. /\ Core(f) /\ SameText(e, f) /\ f.opened = e.opened /\ f.platform = e.platform
        /\ f.interactive = e.interactive /\ f.masked = m /\ f.original = e.original
    BY <2>5, PromptFacts
  <2>7. Edits(ed, f)
    <3>1. CASE Acts(ed, e)
      BY <2>6, <3>1, ActsThen DEF Edits
    <3>2. CASE Enters(ed, e)
      BY <2>6, <3>2 DEF Edits, Enters, SameText
    <3>3. CASE \E k \in Keys, n \in 1..MaxRepeat : \E g : Holds(ed, k, n, g) /\ SameText(g[n], e)
      <4>1. PICK k \in Keys, n \in 1..MaxRepeat : \E g : Holds(ed, k, n, g) /\ SameText(g[n], e)
        BY <3>3
      <4>2. PICK g : Holds(ed, k, n, g) /\ SameText(g[n], e)
        BY <4>1
      <4>3. SameText(g[n], f)
        BY <2>6, <4>2 DEF SameText
      <4> QED
        BY <4>2, <4>3 DEF Edits
    <3> QED
      BY <3>1, <3>2, <3>3 DEF Edits
  <2>8. ModesOf(f, tty') /\ EchoOf(f, call')
    <3>1. call' = "none"
      BY <1>1 DEF EndCall
    <3> QED
      BY <2>4, <2>6, <3>1 DEF TerminalInv, ModesOf, EchoOf, Kept, SameTerminal
  <2> QED
    BY <2>2, <2>6, <2>7, <2>8 DEF Keeps
<1>2. CASE ~(Reading /\ r.status # "none")
  <2>1. ed' = e /\ call' = call
    BY <1>2 DEF EndCall
  <2> QED
    BY <2>1 DEF Keeps, TerminalInv, ModesOf, EchoOf, Kept, SameTerminal
<1> QED
  BY <1>1, <1>2

\* A step that leaves the editor alone.
LEMMA StillKeeps ==
    ASSUME TerminalInv, UNCHANGED <<ed, tty>>, call' \in {call, "failed"}
    PROVE  Keeps
<1>1. PICK e : e = ed
  OBVIOUS
<1>2. Core(e) /\ Sound(e) /\ SameText(e, e)
  BY <1>1 DEF TerminalInv, Core, SameText
<1>3. Edits(e, e)
  BY <1>2, SameTextCore
<1> QED
  BY <1>1, <1>3 DEF Keeps, TerminalInv, ModesOf, EchoOf

\* Opening the terminal.
LEMMA OpensKeeps ==
    ASSUME TerminalInv, call = "none", NEW answer \in Answers,
           ed' = Opened(ed, answer), tty' = ModeAfterOpen(ed, answer), call' = call
    PROVE  Keeps
<1>1. PICK e : e = ed
  OBVIOUS
<1>2. Core(e) /\ ModesOf(e, tty) /\ EchoOf(e, call)
  BY <1>1 DEF TerminalInv
<1>3. PICK f : f = ed'
  OBVIOUS
<1>4. PICK modes : modes = tty'
  OBVIOUS
<1>5. f = Opened(e, answer) /\ modes = ModeAfterOpen(e, answer)
  BY <1>1, <1>3, <1>4
<1>6. /\ answer \in {"no terminal", "input refused", "output refused", "taken"}
      /\ answer = "output refused" => e.platform = "windows"
  BY <1>1 DEF Answers
<1>7. Core(f) /\ Edits(e, f) /\ f.masked = e.masked /\ ModesOf(f, modes)
  BY <1>2, <1>5, <1>6, OpenedFacts
<1> QED
  BY <1>1, <1>2, <1>3, <1>4, <1>7 DEF Keeps, EchoOf

\* Closing it.
LEMMA CloseKeeps ==
    ASSUME TerminalInv, close
    PROVE  Keeps
<1>1. PICK e : e = ed
  OBVIOUS
<1>2. Core(e) /\ ModesOf(e, tty) /\ EchoOf(e, call)
  BY <1>1 DEF TerminalInv
<1>3. PICK f : f = ed'
  OBVIOUS
<1>4. f = [clear_input_line(e) EXCEPT !.opened = FALSE, !.interactive = FALSE]
  BY <1>1, <1>3 DEF close
<1>5. Core(f) /\ SameText(e, f) /\ ~f.interactive /\ f.masked = e.masked
  BY <1>2, <1>4, ClosedFacts
<1>6. Edits(e, f)
  BY <1>5 DEF SameText, Edits, Acts, Still
<1>7. /\ tty' = IF e.interactive THEN PutBack(e.platform, e.original, tty) ELSE tty
      /\ call' = call
  BY <1>1 DEF close
<1>8. tty' = Found
  <2>1. CASE e.interactive
    <3>1. tty' = PutBack(e.platform, e.original, tty)
      BY <1>7, <2>1
    <3>2. e.original = Found /\ (e.platform # "windows" => tty.output = "cooked")
      BY <1>2, <2>1 DEF ModesOf, Raw
    <3> QED
      BY <3>1, <3>2 DEF PutBack, Found
  <2>2. CASE ~e.interactive
    BY <1>2, <1>7, <2>2 DEF ModesOf
  <2> QED
    BY <2>1, <2>2
<1> QED
  BY <1>1, <1>2, <1>3, <1>5, <1>6, <1>7, <1>8 DEF Keeps, ModesOf, EchoOf

\* Setting the prompt.
LEMMA PromptKeeps ==
    ASSUME TerminalInv, NEW w \in PromptWidths, set_prompt(w)
    PROVE  Keeps
<1>1. PICK e : e = ed
  OBVIOUS
<1>2. Core(e) /\ ModesOf(e, tty) /\ EchoOf(e, call)
  BY <1>1 DEF TerminalInv
<1>3. PICK f : f = ed'
  OBVIOUS
<1>4. e \in Editors /\ w \in Nat
  BY <1>2, TerminalAssumption DEF Core, Sound, Editable
<1>5. PICK m \in BOOLEAN : m = e.masked
  BY <1>4 DEF Editors
<1>6. f = render(WithPrompt(e, w, m))
  <2>1. [e EXCEPT !.prompt = w] = WithPrompt(e, w, m)
    BY <1>4, <1>5 DEF WithPrompt, Editors
  <2> QED
    BY <1>1, <1>3, <2>1 DEF set_prompt
<1>7. /\ Core(f) /\ SameText(e, f) /\ f.opened = e.opened /\ f.platform = e.platform
      /\ f.interactive = e.interactive /\ f.masked = m /\ f.original = e.original
  BY <1>2, <1>4, <1>6, PromptFacts
<1>8. Edits(e, f)
  BY <1>7 DEF SameText, Edits, Acts, Still
<1>9. tty' = tty /\ call' = call
  BY DEF set_prompt
<1> QED
  BY <1>1, <1>2, <1>3, <1>5, <1>7, <1>8, <1>9 DEF Keeps, ModesOf, EchoOf

\* Printing above the line.
LEMMA PrintKeeps ==
    ASSUME TerminalInv, print_line
    PROVE  Keeps
<1>1. PICK e : e = ed
  OBVIOUS
<1>2. Core(e) /\ ModesOf(e, tty) /\ EchoOf(e, call)
  BY <1>1 DEF TerminalInv
<1>3. PICK f : f = ed'
  OBVIOUS
<1>4. PICK c : c = clear_input_line(e)
  OBVIOUS
<1>5. f = render(c)
  BY <1>1, <1>3, <1>4 DEF print_line
<1>6. Core(c) /\ SameText(e, c) /\ SameTerminal(e, c) /\ c.pending = e.pending
  BY <1>2, <1>4, WipedFacts
<1>7. Becomes(c, f, c.buffer, c.cursor)
  BY <1>5, <1>6, RenderFacts DEF Core
<1>8. Sound(f) /\ SameTerminal(c, f) /\ SameText(c, f) /\ f.pending = c.pending
  BY <1>7 DEF Becomes, Kept, SameInput, SameText
<1>9. Core(f) /\ Edits(e, f)
  <2>1. SameText(e, f) /\ f.pending = e.pending
    BY <1>6, <1>8 DEF SameText
  <2> QED
    BY <1>2, <1>8, <2>1, SameTextCore
<1>10. tty' = tty /\ call' = call
  BY DEF print_line
<1> QED
  BY <1>1, <1>2, <1>3, <1>6, <1>8, <1>9, <1>10 DEF Keeps, SameTerminal, ModesOf, EchoOf

\* Reading a line.
LEMMA ReadKeeps ==
    ASSUME TerminalInv, NEW w \in PromptWidths, NEW mask \in BOOLEAN, read_line(w, mask)
    PROVE  Keeps
<1>1. PICK e : e = ed
  OBVIOUS
<1>2. Core(e) /\ ModesOf(e, tty) /\ EchoOf(e, call) /\ call = "none"
  BY <1>1 DEF TerminalInv, read_line
<1>3. PICK answer \in Answers : \E o \in {Opened(ed, answer)} :
        /\ tty' = ModeAfterOpen(ed, answer)
        /\ \/ /\ o.interactive
              /\ ed' = render([o EXCEPT !.prompt = w, !.masked = mask])
              /\ call' = (IF mask THEN "hidden" ELSE "read") /\ result' = result
           \/ /\ ~o.interactive
              /\ ed' = o /\ call' = call
              /\ result' \in {Closed, Data(<<"a">>)}
  BY DEF read_line
<1>4. PICK o : o = Opened(e, answer)
  OBVIOUS
<1>5. PICK modes : modes = ModeAfterOpen(e, answer)
  OBVIOUS
<1>6. /\ answer \in {"no terminal", "input refused", "output refused", "taken"}
      /\ answer = "output refused" => e.platform = "windows"
  BY <1>1 DEF Answers
<1>7. /\ Core(o) /\ Edits(e, o) /\ o.masked = e.masked /\ SameText(e, o)
      /\ ModesOf(o, modes) /\ tty' = modes
  <2>1. tty' = modes
    BY <1>1, <1>3, <1>5
  <2> QED
    BY <1>2, <1>4, <1>5, <1>6, <2>1, OpenedFacts
<1>8. CASE ed' = o /\ call' = call
  BY <1>1, <1>2, <1>7, <1>8 DEF Keeps, EchoOf
<1>9. CASE /\ ed' = render([o EXCEPT !.prompt = w, !.masked = mask])
           /\ call' = IF mask THEN "hidden" ELSE "read"
  <2>1. PICK f : f = ed'
    OBVIOUS
  <2>2. o \in Editors
    BY <1>7 DEF Core, Sound, Editable
  <2>3. PICK width \in Nat : width = w
    BY TerminalAssumption
  <2>4. f = render(WithPrompt(o, width, mask))
    <3>1. [o EXCEPT !.prompt = w, !.masked = mask] = WithPrompt(o, width, mask)
      BY <2>2, <2>3 DEF WithPrompt, Editors
    <3> QED
      BY <1>9, <2>1, <3>1
  <2>5. /\ Core(f) /\ SameText(o, f) /\ f.opened = o.opened /\ f.platform = o.platform
        /\ f.interactive = o.interactive /\ f.masked = mask /\ f.original = o.original
    BY <1>7, <2>4, PromptFacts
  <2>6. SameText(e, f)
    BY <1>7, <2>5 DEF SameText
  <2>7. Edits(e, f)
    BY <2>6 DEF SameText, Edits, Acts, Still
  <2> QED
    BY <1>1, <1>7, <1>9, <2>1, <2>5, <2>7 DEF Keeps, ModesOf, EchoOf
<1> QED
  BY <1>1, <1>3, <1>4, <1>8, <1>9

\* A byte, a key and a hangup.
LEMMA PollKeeps ==
    ASSUME TerminalInv
    PROVE  /\ \A b \in Bytes : PollByte(b) => Keeps
           /\ \A k \in Keys, n \in 1..MaxRepeat : PollKey(k, n) => Keeps
           /\ PollHangup => Keeps
<1>1. ASSUME NEW b \in Bytes, PollByte(b)
      PROVE  Keeps
  <2>1. PICK e : e = ed
    OBVIOUS
  <2>2. PICK r : r = process_unix_byte(e, b)
    OBVIOUS
  <2>3. EndCall(r.ed, r.result) /\ UNCHANGED tty
    BY <1>1, <2>1, <2>2 DEF PollByte
  <2>4. Core(e)
    BY <2>1 DEF TerminalInv
  <2>5. Core(r.ed) /\ Kept(e, r.ed) /\ Edits(e, r.ed)
    BY <2>2, <2>4, ByteFacts
  <2> QED
    BY <2>1, <2>3, <2>5, EndCallKeeps
<1>2. ASSUME NEW k \in Keys, NEW n \in 1..MaxRepeat, PollKey(k, n)
      PROVE  Keeps
  <2>1. PICK e : e = ed
    OBVIOUS
  <2>2. PICK r : r = process_windows_key(e, k, n)
    OBVIOUS
  <2>3. EndCall(r.ed, r.result) /\ UNCHANGED tty
    BY <1>2, <2>1, <2>2 DEF PollKey
  <2>4. Core(e)
    BY <2>1 DEF TerminalInv
  <2>5. Core(r.ed) /\ Kept(e, r.ed) /\ Edits(e, r.ed)
    BY <2>2, <2>4, KeyFacts
  <2> QED
    BY <2>1, <2>3, <2>5, EndCallKeeps
<1>3. ASSUME PollHangup
      PROVE  Keeps
  <2>1. PICK e : e = ed
    OBVIOUS
  <2>2. Core(e) /\ Sound(e) /\ SameText(e, e)
    BY <2>1 DEF TerminalInv, Core, SameText
  <2>3. Kept(e, e) /\ Edits(e, e)
    BY <2>2, SameTextCore DEF Kept, SameTerminal
  <2>4. EndCall(e, Closed) /\ UNCHANGED tty
    BY <1>3, <2>1 DEF PollHangup
  <2> QED
    BY <2>1, <2>2, <2>3, <2>4, EndCallKeeps
<1> QED
  BY <1>1, <1>2, <1>3

\* Every step keeps the invariant.
LEMMA TerminalStep ==
    ASSUME TerminalInv, [Next]_vars
    PROVE  Keeps
<1>1. CASE open
  BY <1>1, OpensKeeps DEF open
<1>2. CASE close
  BY <1>2, CloseKeeps
<1>3. CASE print_line
  BY <1>3, PrintKeeps
<1>4. CASE \E w \in PromptWidths : set_prompt(w)
  BY <1>4, PromptKeeps
<1>5. CASE \E w \in PromptWidths, m \in BOOLEAN : read_line(w, m)
  BY <1>5, ReadKeeps
<1>6. CASE \E b \in Bytes : PollByte(b)
  BY <1>6, PollKeeps
<1>7. CASE \E k \in Keys, n \in 1..MaxRepeat : PollKey(k, n)
  BY <1>7, PollKeeps
<1>8. CASE PollWait
  BY <1>8, StillKeeps DEF PollWait
<1>9. CASE PollHangup
  BY <1>9, PollKeeps
<1>10. CASE PollError
  BY <1>10, StillKeeps DEF PollError
<1>11. CASE PollOpens
  BY <1>11, OpensKeeps DEF PollOpens
<1>12. CASE PollRedirected
  BY <1>12, StillKeeps DEF PollRedirected
<1>13. CASE UNCHANGED vars
  BY <1>13, StillKeeps DEF vars
<1> QED
  BY <1>1, <1>2, <1>3, <1>4, <1>5, <1>6, <1>7, <1>8, <1>9, <1>10, <1>11, <1>12, <1>13 DEF Next

\* The invariant always holds.
LEMMA TerminalInvariant == Spec => []TerminalInv
<1>1. Init => TerminalInv
  BY TerminalInit
<1>2. TerminalInv /\ [Next]_vars => TerminalInv'
  BY TerminalStep DEF Keeps, TerminalInv
<1> QED
  BY <1>1, <1>2, PTL DEF Spec

\* A terminal that is not interactive has both modes it was found in, after any
\* number of opens, opens refused at the first or the second mode, failed reads and
\* closes.
THEOREM TerminalModeRestored == Spec => []ModeRestored
<1>1. TerminalInv => ModeRestored
  BY DEF TerminalInv, ModesOf, ModeRestored
<1> QED
  BY <1>1, TerminalInvariant, PTL

\* In a read_line() that hides its input the echo is off until the call ends, and
\* nothing but dots is on the screen; in no other call is it off.
THEOREM TerminalHiddenInput == Spec => []HiddenInput
<1>1. ASSUME TerminalInv
      PROVE  HiddenInput
  <2>1. PICK e : e = ed
    OBVIOUS
  <2>2. Sound(e) /\ Editable(e) /\ EchoOf(e, call)
    BY <1>1, <2>1 DEF TerminalInv, Core, Sound
  <2>3. ASSUME e.masked
        PROVE  \A i \in 1..Len(e.screen.cells) : e.screen.cells[i] = <<"dot">>
    <3>1. CASE e.screen = NoLine
      <4>1. Len(e.screen.cells) = 0
        BY <3>1 DEF NoLine
      <4> QED
        BY <4>1
    <3>2. CASE e.screen # NoLine
      <4>1. PICK d : d = e.screen
        OBVIOUS
      <4>2. d = Drawn(e)
        BY <2>2, <3>2, <4>1 DEF Sound
      <4>3. e.masked => \A i \in 1..Len(d.cells) : d.cells[i] = <<"dot">>
        BY <2>2, <4>2, DrawnFacts
      <4> QED
        BY <2>3, <4>1, <4>3
    <3> QED
      BY <3>1, <3>2
  <2> QED
    BY <2>1, <2>2, <2>3 DEF HiddenInput, EchoOf
<1> QED
  BY <1>1, TerminalInvariant, PTL

\* What is on the screen is the line being edited, with the cursor where the
\* next character will go unless a tab shows behind it, and it fits the window
\* unless a tab shows.
THEOREM TerminalScreenIsCurrent == Spec => []ScreenIsCurrent
<1>1. ASSUME TerminalInv
      PROVE  ScreenIsCurrent
  <2>1. PICK e : e = ed
    OBVIOUS
  <2>2. Sound(e) /\ Editable(e)
    BY <1>1, <2>1 DEF TerminalInv, Core, Sound
  <2>3. ASSUME ~e.screen.blank
        PROVE  /\ e.screen = Drawn(e)
               /\ e.cursor \in e.screen.start..(e.screen.start + Len(e.screen.cells))
               /\ (\A i \in (e.cursor - e.screen.start + 1)..Len(e.screen.cells) : e.screen.cells[i] # Tab)
                    => e.screen.column = shown_width(e, e.screen.start, e.cursor)
               /\ (\A i \in 1..Len(e.screen.cells) : e.screen.cells[i] # Tab)
                    => shown_width(e, e.screen.start, e.screen.start + Len(e.screen.cells)) <= Available(e)
    <3>1. PICK d : d = e.screen
      OBVIOUS
    <3>2. d = Drawn(e)
      BY <2>2, <2>3, <3>1 DEF Sound
    <3>3. /\ e.cursor \in d.start..(d.start + Len(d.cells))
          /\ (\A i \in (e.cursor - d.start + 1)..Len(d.cells) : d.cells[i] # Tab)
               => d.column = shown_width(e, d.start, e.cursor)
          /\ (\A i \in 1..Len(d.cells) : d.cells[i] # Tab)
               => shown_width(e, d.start, d.start + Len(d.cells)) <= Available(e)
      BY <2>2, <3>2, DrawnFacts
    <3> QED
      BY <3>1, <3>2, <3>3
  <2> QED
    BY <2>1, <2>3 DEF ScreenIsCurrent
<1> QED
  BY <1>1, TerminalInvariant, PTL

\* Every entry of the line is one whole character or a tab, and the line never
\* has more bytes than the limit, also when it came from the history.
THEOREM TerminalWholeCharacters == Spec => []WholeCharacters
<1>1. ASSUME TerminalInv
      PROVE  WholeCharacters
  BY <1>1 DEF TerminalInv, Core, WholeText, WholeUnit, WholeCharacters
<1> QED
  BY <1>1, TerminalInvariant, PTL

-----------------------------------------------------------------------------
(* The line editor *)

\* The text t is the first a units of s, m typed units, and the units of s after
\* the first b.
Spliced(s, t, a, b, m) ==
    /\ Len(t) = a + m + (Len(s) - b)
    /\ \A i \in 1..a : t[i] = s[i]
    /\ \A i \in (a + 1)..(a + m) : t[i] \in TypedUnits
    /\ \A i \in (a + m + 1)..(a + m + (Len(s) - b)) : t[i] = s[i - (a + m) + b]

\* A text is made of its own units.
LEMMA SplicedNone ==
    ASSUME NEW s \in Seq(Text), NEW c \in 0..Len(s)
    PROVE  Spliced(s, s, c, c, 0)
<1>1. PICK n \in Nat : n = Len(s)
  BY LenProperties
<1>2. c + 0 + (n - c) = n
  BY <1>1
<1>3. \A i \in (c + 1)..(c + 0) : FALSE
  BY <1>1
<1>4. \A i \in (c + 0 + 1)..(c + 0 + (n - c)) : i - (c + 0) + c = i
  BY <1>1
<1> QED
  BY <1>1, <1>2, <1>3, <1>4 DEF Spliced

\* One more unit is typed.
LEMMA SplicedMore ==
    ASSUME NEW s \in Seq(Text), NEW t \in Seq(Text), NEW c \in 0..Len(s), NEW m \in Nat,
           Spliced(s, t, c, c, m), NEW u \in TypedUnits, NEW v, OneMore(t, c + m, u, v)
    PROVE  Spliced(s, v, c, c, m + 1)
<1>1. PICK n \in Nat : n = Len(s)
  BY LenProperties
<1>2. /\ Len(t) = n + m
      /\ \A i \in 1..c : t[i] = s[i]
      /\ \A i \in (c + 1)..(c + m) : t[i] \in TypedUnits
      /\ \A i \in (c + m + 1)..(n + m) : t[i] = s[i - m]
  <2>1. c + m + (n - c) = n + m
    BY <1>1
  <2>2. /\ Len(t) = n + m
        /\ \A i \in 1..c : t[i] = s[i]
        /\ \A i \in (c + 1)..(c + m) : t[i] \in TypedUnits
    BY <1>1, <2>1 DEF Spliced
  <2>3. \A i \in (c + m + 1)..(c + m + (n - c)) : t[i] = s[i - (c + m) + c]
    BY <1>1 DEF Spliced
  <2>4. ASSUME NEW i \in (c + m + 1)..(n + m)
        PROVE  t[i] = s[i - m]
    <3>1. i \in (c + m + 1)..(c + m + (n - c)) /\ i - (c + m) + c = i - m
      BY <1>1
    <3>2. t[i] = s[i - (c + m) + c]
      BY <2>3, <3>1
    <3> QED
      BY <3>1, <3>2
  <2> QED
    BY <2>2, <2>4
<1>3. /\ Len(v) = n + m + 1
      /\ v[c + m + 1] = u /\ (\A i \in 1..(c + m) : v[i] = t[i])
      /\ \A i \in ((c + m) + 2)..(n + m + 1) : v[i] = t[i - 1]
  BY <1>1, <1>2 DEF OneMore
<1>4. \A i \in 1..c : v[i] = s[i]
  BY <1>1, <1>2, <1>3
<1>5. \A i \in (c + 1)..(c + (m + 1)) : v[i] \in TypedUnits
  <2> SUFFICES ASSUME NEW i \in (c + 1)..(c + (m + 1))
               PROVE  v[i] \in TypedUnits
    OBVIOUS
  <2>1. CASE i = c + m + 1
    BY <1>3, <2>1
  <2>2. CASE i # c + m + 1
    <3>1. i \in (c + 1)..(c + m) /\ i \in 1..(c + m)
      BY <1>1, <2>2
    <3>2. v[i] = t[i] /\ t[i] \in TypedUnits
      BY <1>2, <1>3, <3>1
    <3> QED
      BY <3>2
  <2> QED
    BY <2>1, <2>2
<1>6. ASSUME NEW i \in (c + (m + 1) + 1)..(n + (m + 1))
      PROVE  v[i] = s[i - (m + 1)]
  <2>1. i \in ((c + m) + 2)..(n + m + 1) /\ i - 1 \in (c + m + 1)..(n + m) /\ (i - 1) - m = i - (m + 1)
    BY <1>1
  <2>2. v[i] = t[i - 1] /\ t[i - 1] = s[(i - 1) - m]
    BY <1>2, <1>3, <2>1
  <2> QED
    BY <2>1, <2>2
<1>7. /\ Len(v) = c + (m + 1) + (n - c)
      /\ \A i \in (c + (m + 1) + 1)..(c + (m + 1) + (n - c)) : v[i] = s[i - (c + (m + 1)) + c]
  <2>1. c + (m + 1) + (n - c) = n + (m + 1) /\ Len(v) = n + (m + 1)
    <3>1. c + (m + 1) + (n - c) = n + (m + 1) /\ n + m + 1 = n + (m + 1)
      BY <1>1
    <3>2. Len(v) = n + m + 1
      BY <1>3
    <3> QED
      BY <3>1, <3>2
  <2>2. ASSUME NEW i \in (c + (m + 1) + 1)..(c + (m + 1) + (n - c))
        PROVE  v[i] = s[i - (c + (m + 1)) + c]
    <3>1. i \in (c + (m + 1) + 1)..(n + (m + 1)) /\ i - (c + (m + 1)) + c = i - (m + 1)
      BY <1>1
    <3>2. v[i] = s[i - (m + 1)]
      BY <1>6, <3>1
    <3> QED
      BY <3>1, <3>2
  <2> QED
    BY <2>1, <2>2
<1> QED
  BY <1>1, <1>4, <1>5, <1>7 DEF Spliced

\* One more unit is erased, before the cursor or after it.
LEMMA SplicedLess ==
    ASSUME NEW s \in Seq(Text), NEW t \in Seq(Text), NEW v, NEW a \in Nat, NEW b \in Nat,
           OneLess(t, a, v), b <= Len(s)
    PROVE  /\ a + 1 <= b /\ Spliced(s, t, a + 1, b, 0) => Spliced(s, v, a, b, 0)
           /\ a <= b /\ b < Len(s) /\ Spliced(s, t, a, b, 0) => Spliced(s, v, a, b + 1, 0)
<1>1. PICK n \in Nat : n = Len(s)
  BY LenProperties
<1>2. PICK l \in Nat : l = Len(t)
  BY LenProperties
<1>3. /\ Len(v) = l - 1
      /\ (\A i \in 1..a : v[i] = t[i])
      /\ \A i \in (a + 1)..(l - 1) : v[i] = t[i + 1]
  BY <1>2 DEF OneLess
<1>4. ASSUME a + 1 <= b, Spliced(s, t, a + 1, b, 0)
      PROVE  Spliced(s, v, a, b, 0)
  <2>1. /\ l = a + 1 + (n - b)
        /\ \A i \in 1..(a + 1) : t[i] = s[i]
        /\ \A i \in ((a + 1) + 1)..((a + 1) + (n - b)) : t[i] = s[i - (a + 1) + b]
    BY <1>1, <1>2, <1>4 DEF Spliced
  <2>2. \A i \in 1..a : v[i] = s[i]
    BY <1>3, <2>1
  <2>3. ASSUME NEW i \in (a + 1)..(a + (n - b))
        PROVE  v[i] = s[i - a + b]
    <3>1. i \in (a + 1)..(l - 1) /\ i + 1 \in ((a + 1) + 1)..((a + 1) + (n - b))
      BY <1>1, <1>2, <2>1
    <3>2. (i + 1) - (a + 1) + b = i - a + b
      BY <1>1
    <3>3. v[i] = t[i + 1] /\ t[i + 1] = s[(i + 1) - (a + 1) + b]
      BY <1>3, <2>1, <3>1
    <3> QED
      BY <3>2, <3>3
  <2>4. /\ Len(v) = a + 0 + (n - b)
        /\ \A i \in (a + 0 + 1)..(a + 0 + (n - b)) : v[i] = s[i - (a + 0) + b]
        /\ \A i \in (a + 1)..(a + 0) : FALSE
    <3>1. a + 0 = a /\ l - 1 = a + (n - b)
      BY <1>1, <2>1
    <3> QED
      BY <1>3, <2>3, <3>1
  <2> QED
    BY <1>1, <2>2, <2>4 DEF Spliced
<1>5. ASSUME a <= b, b < Len(s), Spliced(s, t, a, b, 0)
      PROVE  Spliced(s, v, a, b + 1, 0)
  <2>1. /\ l = a + (n - b)
        /\ \A i \in 1..a : t[i] = s[i]
        /\ \A i \in (a + 1)..(a + (n - b)) : t[i] = s[i - a + b]
    <3>1. a + 0 = a
      OBVIOUS
    <3> QED
      BY <1>1, <1>2, <1>5, <3>1 DEF Spliced
  <2>2. \A i \in 1..a : v[i] = s[i]
    BY <1>3, <2>1
  <2>3. ASSUME NEW i \in (a + 1)..(a + (n - (b + 1)))
        PROVE  v[i] = s[i - a + (b + 1)]
    <3>1. i \in (a + 1)..(l - 1) /\ i + 1 \in (a + 1)..(a + (n - b))
      BY <1>1, <1>2, <2>1
    <3>2. (i + 1) - a + b = i - a + (b + 1)
      BY <1>1
    <3>3. v[i] = t[i + 1] /\ t[i + 1] = s[(i + 1) - a + b]
      BY <1>3, <2>1, <3>1
    <3> QED
      BY <3>2, <3>3
  <2>4. /\ Len(v) = a + 0 + (n - (b + 1))
        /\ \A i \in (a + 0 + 1)..(a + 0 + (n - (b + 1))) : v[i] = s[i - (a + 0) + (b + 1)]
        /\ \A i \in (a + 1)..(a + 0) : FALSE
    <3>1. a + 0 = a /\ l - 1 = a + (n - (b + 1))
      BY <1>1, <2>1
    <3> QED
      BY <1>3, <2>3, <3>1
  <2> QED
    BY <1>1, <2>2, <2>4 DEF Spliced
<1> QED
  BY <1>4, <1>5

\* Such a text, as its three parts.
InParts(s, t, a, b, m) ==
    /\ t = SubSeq(s, 1, a) \o SubSeq(t, a + 1, a + m) \o SubSeq(s, b + 1, Len(s))
    /\ m = 0 => t = SubSeq(s, 1, a) \o SubSeq(s, b + 1, Len(s))

\* It is made of them.
LEMMA SplicedParts ==
    ASSUME NEW s \in Seq(Text), NEW t \in Seq(Text), NEW b \in 0..Len(s), NEW a \in 0..b,
           NEW m \in Nat, Spliced(s, t, a, b, m)
    PROVE  InParts(s, t, a, b, m)
<1>1. PICK n \in Nat : n = Len(s)
  BY LenProperties
<1>2. PICK l \in Nat : l = Len(t)
  BY LenProperties
<1>3. /\ l = a + m + (n - b)
      /\ \A i \in 1..a : t[i] = s[i]
      /\ \A i \in (a + m + 1)..(a + m + (n - b)) : t[i] = s[i - (a + m) + b]
  BY <1>1, <1>2 DEF Spliced
<1>4. PICK x : x = SubSeq(s, 1, a)
  OBVIOUS
<1>5. PICK y : y = SubSeq(t, a + 1, l)
  OBVIOUS
<1>6. PICK z : z = SubSeq(s, b + 1, n)
  OBVIOUS
<1>7. SubSeq(t, 1, a) = x
  <2>1. x \in Seq(Text) /\ Len(x) = a /\ \A i \in 1..a : x[i] = s[i]
    <3>1. 1 \in 1..(Len(s) + 1) /\ a \in (1 - 1)..Len(s)
      BY <1>1
    <3>2. /\ x \in Seq(Text) /\ Len(x) = a - 1 + 1
          /\ \A i \in 1..(a - 1 + 1) : x[i] = s[1 + i - 1]
      BY <1>4, <3>1, Part
    <3> QED
      BY <1>1, <3>2
  <2>2. PICK w : w = SubSeq(t, 1, a)
    OBVIOUS
  <2>3. w \in Seq(Text) /\ Len(w) = a /\ \A i \in 1..a : w[i] = t[i]
    <3>1. 1 \in 1..(Len(t) + 1) /\ a \in (1 - 1)..Len(t)
      BY <1>1, <1>2, <1>3
    <3>2. /\ w \in Seq(Text) /\ Len(w) = a - 1 + 1
          /\ \A i \in 1..(a - 1 + 1) : w[i] = t[1 + i - 1]
      BY <2>2, <3>1, Part
    <3> QED
      BY <1>1, <3>2
  <2>4. w = x
    <3>1. \A i \in 1..Len(w) : w[i] = x[i]
      BY <1>3, <2>1, <2>3
    <3> QED
      BY <2>1, <2>3, <3>1, SeqEqual
  <2> QED
    BY <2>2, <2>4
<1>8. SubSeq(t, a + m + 1, l) = z
  <2>1. z \in Seq(Text) /\ Len(z) = n - b /\ \A i \in 1..(n - b) : z[i] = s[b + i]
    <3>1. b + 1 \in 1..(Len(s) + 1) /\ n \in ((b + 1) - 1)..Len(s)
      BY <1>1
    <3>2. /\ z \in Seq(Text) /\ Len(z) = n - (b + 1) + 1
          /\ \A i \in 1..(n - (b + 1) + 1) : z[i] = s[(b + 1) + i - 1]
      BY <1>6, <3>1, Part
    <3>3. n - (b + 1) + 1 = n - b
      BY <1>1
    <3>4. ASSUME NEW i \in 1..(n - b)
          PROVE  z[i] = s[b + i]
      <4>1. i \in 1..(n - (b + 1) + 1) /\ (b + 1) + i - 1 = b + i
        BY <1>1
      <4>2. z[i] = s[(b + 1) + i - 1]
        BY <3>2, <4>1
      <4> QED
        BY <4>1, <4>2
    <3> QED
      BY <3>2, <3>3, <3>4
  <2>2. PICK w : w = SubSeq(t, a + m + 1, l)
    OBVIOUS
  <2>3. w \in Seq(Text) /\ Len(w) = n - b /\ \A i \in 1..(n - b) : w[i] = t[a + m + i]
    <3>1. a + m + 1 \in 1..(Len(t) + 1) /\ l \in ((a + m + 1) - 1)..Len(t)
      BY <1>1, <1>2, <1>3
    <3>2. /\ w \in Seq(Text) /\ Len(w) = l - (a + m + 1) + 1
          /\ \A i \in 1..(l - (a + m + 1) + 1) : w[i] = t[(a + m + 1) + i - 1]
      BY <2>2, <3>1, Part
    <3>3. l - (a + m + 1) + 1 = n - b
      BY <1>1, <1>3
    <3>4. ASSUME NEW i \in 1..(n - b)
          PROVE  w[i] = t[a + m + i]
      <4>1. i \in 1..(l - (a + m + 1) + 1) /\ (a + m + 1) + i - 1 = a + m + i
        BY <1>1, <3>3
      <4>2. w[i] = t[(a + m + 1) + i - 1]
        BY <3>2, <4>1
      <4> QED
        BY <4>1, <4>2
    <3> QED
      BY <3>2, <3>3, <3>4
  <2>4. ASSUME NEW i \in 1..(n - b)
        PROVE  w[i] = z[i]
    <3>1. a + m + i \in (a + m + 1)..(a + m + (n - b)) /\ (a + m + i) - (a + m) + b = b + i
      BY <1>1
    <3>2. t[a + m + i] = s[b + i]
      BY <1>3, <3>1
    <3> QED
      BY <2>1, <2>3, <3>2
  <2>5. w = z
    <3>1. Len(w) = Len(z) /\ \A i \in 1..Len(w) : w[i] = z[i]
      BY <2>1, <2>3, <2>4
    <3> QED
      BY <2>1, <2>3, <3>1, SeqEqual
  <2> QED
    BY <2>2, <2>5
<1>9. SubSeq(t, 1, a) \o SubSeq(t, a + 1, a + m) = SubSeq(t, 1, a + m)
  <2>1. 1 \in 1..(Len(t) + 1) /\ a \in (1 - 1)..Len(t) /\ a + m \in a..Len(t)
    BY <1>1, <1>2, <1>3
  <2> QED
    BY <2>1, ConcatAdjacentSubSeq
<1>10. SubSeq(t, 1, a + m) \o SubSeq(t, (a + m) + 1, l) = SubSeq(t, 1, l)
  <2>1. 1 \in 1..(Len(t) + 1) /\ a + m \in (1 - 1)..Len(t) /\ l \in (a + m)..Len(t)
    BY <1>1, <1>2, <1>3
  <2> QED
    BY <2>1, ConcatAdjacentSubSeq
<1>11. SubSeq(t, 1, l) = t
  BY <1>2, SubSeqFull
<1>12. t = x \o SubSeq(t, a + 1, a + m) \o z
  BY <1>7, <1>8, <1>9, <1>10, <1>11
<1>13. ASSUME m = 0
       PROVE  t = x \o z
  <2>1. a + m = a
    BY <1>13
  <2>2. SubSeq(t, 1, a) \o SubSeq(t, a + 1, l) = SubSeq(t, 1, l)
    BY <1>10, <2>1
  <2>3. SubSeq(t, a + 1, l) = z
    BY <1>8, <2>1
  <2> QED
    BY <1>7, <1>11, <2>2, <2>3
<1> QED
  BY <1>1, <1>4, <1>6, <1>12, <1>13 DEF InParts

\* What m presses of a key make of the line e.
Held(e, k, f, m) ==
    /\ f.history = e.history
    /\ \/ k = "left" /\ f.buffer = e.buffer /\ \E j \in 0..m : f.cursor = e.cursor - j
       \/ k = "right" /\ f.buffer = e.buffer /\ \E j \in 0..m : f.cursor = e.cursor + j
       \/ k \in {"home", "end"} /\ f.buffer = e.buffer /\ f.cursor \in {e.cursor, 0, Len(e.buffer)}
       \/ k \in {"up", "down", "kill"} /\ (Still(e, f) \/ Empties(e, f) \/ Returns(e, f))
       \/ /\ k = "backspace"
          /\ \E j \in 0..m : /\ j <= e.cursor /\ f.cursor = e.cursor - j
                             /\ Spliced(e.buffer, f.buffer, e.cursor - j, e.cursor, 0)
       \/ /\ k = "delete"
          /\ \E j \in 0..m : /\ e.cursor + j <= Len(e.buffer) /\ f.cursor = e.cursor
                             /\ Spliced(e.buffer, f.buffer, e.cursor, e.cursor + j, 0)
       \/ /\ k \notin {"backspace", "delete", "left", "right", "home", "end", "up", "down", "kill"}
          /\ \E j \in 0..m : /\ f.cursor = e.cursor + j
                             /\ Spliced(e.buffer, f.buffer, e.cursor, e.cursor, j)

\* No press changes nothing.
LEMMA HeldNone ==
    ASSUME NEW e, Sound(e), NEW k
    PROVE  Held(e, k, e, 0)
<1>1. PICK s \in Seq(Text) : s = e.buffer
  BY DEF Sound, Editable, Editors
<1>2. Len(s) \in Nat
  BY LenProperties
<1>3. PICK c \in 0..Len(s) : c = e.cursor
  BY <1>1, <1>2 DEF Sound, Editable, Editors
<1>4. Spliced(s, s, c, c, 0)
  BY SplicedNone
<1>5. 0 \in 0..0 /\ c - 0 = c /\ c + 0 = c /\ c <= Len(s) /\ 0 <= c
  BY <1>2
<1> QED
  BY <1>1, <1>3, <1>4, <1>5 DEF Held, Still

\* Another press of a key that erases or types.
LEMMA HeldErases ==
    ASSUME NEW e, Sound(e), NEW g, Sound(g), NEW h, NEW m \in Nat,
           Held(e, "backspace", g, m), ErasesBefore(g, h)
    PROVE  Held(e, "backspace", h, m + 1)
<1>1. PICK s \in Seq(Text) : s = e.buffer
  BY DEF Sound, Editable, Editors
<1>2. Len(s) \in Nat
  BY LenProperties
<1>3. PICK c \in 0..Len(s) : c = e.cursor
  BY <1>1, <1>2 DEF Sound, Editable, Editors
<1>4. PICK t \in Seq(Text) : t = g.buffer
  BY DEF Sound, Editable, Editors
<1>5. PICK j \in 0..m : j <= c /\ g.cursor = c - j /\ Spliced(s, t, c - j, c, 0)
  BY <1>1, <1>3, <1>4 DEF Held
<1>6. g.cursor > 0 /\ h.history = g.history /\ h.buffer = RemoveAt(t, g.cursor) /\ h.cursor = g.cursor - 1
  BY <1>4 DEF ErasesBefore
<1>7. PICK a \in Nat : a = c - (j + 1)
  BY <1>2, <1>5, <1>6
<1>8. a + 1 = c - j /\ g.cursor = a + 1 /\ h.cursor = c - (j + 1)
  BY <1>2, <1>5, <1>6, <1>7
<1>9. g.cursor <= Len(t) /\ Len(t) \in Nat
  BY <1>4, LenProperties DEF Sound, Editable
<1>10. PICK v : v = h.buffer
  OBVIOUS
<1>11. OneLess(t, a, v)
  <2>1. a < Len(t) /\ v = RemoveAt(t, a + 1)
    BY <1>6, <1>8, <1>9, <1>10
  <2> QED
    BY <2>1, Removed
<1>12. Spliced(s, v, a, c, 0)
  <2>1. PICK b \in Nat : b = c
    BY <1>2
  <2>2. b <= Len(s) /\ a + 1 <= b /\ Spliced(s, t, a + 1, b, 0)
    BY <1>2, <1>5, <1>8, <2>1
  <2>3. Spliced(s, v, a, b, 0)
    BY <1>11, <2>2, SplicedLess
  <2> QED
    BY <2>1, <2>3
<1>13. j + 1 \in 0..(m + 1) /\ j + 1 <= c
  BY <1>2, <1>5, <1>7
<1>14. Spliced(s, v, c - (j + 1), c, 0)
  BY <1>7, <1>12
<1>15. h.history = e.history
  BY <1>6 DEF Held
<1> QED
  BY <1>1, <1>3, <1>8, <1>10, <1>13, <1>14, <1>15 DEF Held

\* As above.
LEMMA HeldDeletes ==
    ASSUME NEW e, Sound(e), NEW g, Sound(g), NEW h, NEW m \in Nat,
           Held(e, "delete", g, m), ErasesAfter(g, h)
    PROVE  Held(e, "delete", h, m + 1)
<1>1. PICK s \in Seq(Text) : s = e.buffer
  BY DEF Sound, Editable, Editors
<1>2. Len(s) \in Nat
  BY LenProperties
<1>3. PICK c \in 0..Len(s) : c = e.cursor
  BY <1>1, <1>2 DEF Sound, Editable, Editors
<1>4. PICK t \in Seq(Text) : t = g.buffer
  BY DEF Sound, Editable, Editors
<1>5. PICK j \in 0..m : c + j <= Len(s) /\ g.cursor = c /\ Spliced(s, t, c, c + j, 0)
  BY <1>1, <1>3, <1>4 DEF Held
<1>6. c < Len(t) /\ h.history = g.history /\ h.buffer = RemoveAt(t, c + 1) /\ h.cursor = c
  BY <1>4, <1>5 DEF ErasesAfter
<1>7. PICK v : v = h.buffer
  OBVIOUS
<1>8. c \in Nat
  BY <1>2
<1>9. OneLess(t, c, v)
  BY <1>6, <1>7, <1>8, Removed
<1>10. PICK b \in Nat : b = c + j
  BY <1>2
<1>11. b < Len(s)
  <2>1. Len(t) = c + 0 + (Len(s) - (c + j))
    BY <1>5 DEF Spliced
  <2> QED
    BY <1>2, <1>5, <1>6, <1>10, <2>1
<1>12. Spliced(s, v, c, b + 1, 0)
  <2>1. b <= Len(s) /\ c <= b /\ Spliced(s, t, c, b, 0)
    BY <1>2, <1>5, <1>10
  <2> QED
    BY <1>8, <1>9, <1>11, <2>1, SplicedLess
<1>13. j + 1 \in 0..(m + 1) /\ c + (j + 1) <= Len(s) /\ b + 1 = c + (j + 1)
  BY <1>2, <1>10, <1>11
<1>14. Spliced(s, v, c, c + (j + 1), 0)
  BY <1>12, <1>13
<1>15. h.history = e.history
  BY <1>6 DEF Held
<1> QED
  BY <1>1, <1>3, <1>6, <1>7, <1>13, <1>14, <1>15 DEF Held

\* As above.
LEMMA HeldTypes ==
    ASSUME NEW e, Sound(e), NEW g, Sound(g), NEW h, NEW m \in Nat, NEW k,
           k \notin {"backspace", "delete", "left", "right", "home", "end", "up", "down", "kill"},
           Held(e, k, g, m), Types(g, h)
    PROVE  Held(e, k, h, m + 1)
<1>1. PICK s \in Seq(Text) : s = e.buffer
  BY DEF Sound, Editable, Editors
<1>2. Len(s) \in Nat
  BY LenProperties
<1>3. PICK c \in 0..Len(s) : c = e.cursor
  BY <1>1, <1>2 DEF Sound, Editable, Editors
<1>4. PICK t \in Seq(Text) : t = g.buffer
  BY DEF Sound, Editable, Editors
<1>5. PICK j \in 0..m : g.cursor = c + j /\ Spliced(s, t, c, c, j)
  BY <1>1, <1>3, <1>4 DEF Held
<1>6. PICK u \in TypedUnits : h.buffer = InsertAt(t, c + j + 1, u) /\ h.cursor = c + j + 1
  BY <1>4, <1>5 DEF Types
<1>7. PICK v : v = h.buffer
  OBVIOUS
<1>8. PICK d \in 0..Len(t) : d = c + j
  <2>1. g.cursor <= Len(t) /\ Len(t) \in Nat
    BY <1>4, LenProperties DEF Sound, Editable
  <2>2. c + j \in 0..Len(t)
    BY <1>2, <1>5, <2>1
  <2> QED
    BY <2>2
<1>9. OneMore(t, d, u, v)
  <2>1. PICK x \in Text : x = u
    BY TypedText
  <2>2. v = InsertAt(t, d + 1, x)
    BY <1>6, <1>7, <1>8, <2>1
  <2>3. OneMore(t, d, x, v)
    BY <2>2, Inserted
  <2> QED
    BY <2>1, <2>3
<1>10. PICK i \in Nat : i = j
  OBVIOUS
<1>11. Spliced(s, v, c, c, i + 1)
  <2>1. Spliced(s, t, c, c, i) /\ OneMore(t, c + i, u, v)
    BY <1>5, <1>8, <1>9, <1>10
  <2> QED
    BY <2>1, SplicedMore
<1>12. j + 1 \in 0..(m + 1) /\ c + j + 1 = c + (j + 1)
  BY <1>2
<1>13. Spliced(s, v, c, c, j + 1) /\ h.cursor = c + (j + 1)
  BY <1>6, <1>10, <1>11, <1>12
<1>14. h.history = e.history
  BY DEF Held, Types
<1> QED
  BY <1>1, <1>3, <1>7, <1>12, <1>13, <1>14 DEF Held

\* Another press of any key.
LEMMA HeldMore ==
    ASSUME NEW e, Sound(e), NEW g, Sound(g), NEW h, NEW m \in Nat, NEW k,
           Held(e, k, g, m), Presses(g, k, h)
    PROVE  Held(e, k, h, m + 1)
<1>1. e.cursor \in Nat /\ Len(e.buffer) \in Nat
  BY LenProperties DEF Sound, Editable, Editors
<1>2. \A j \in 0..m : j \in 0..(m + 1) /\ j + 1 \in 0..(m + 1)
  OBVIOUS
<1>3. CASE Still(g, h)
  <2>1. h.buffer = g.buffer /\ h.cursor = g.cursor /\ h.history = g.history
    BY <1>3 DEF Still
  <2>2. k \in {"up", "down", "kill"} => \/ ~(Still(e, g) \/ Empties(e, g) \/ Returns(e, g))
                                         \/ Still(e, h) \/ Empties(e, h) \/ Returns(e, h)
    BY <2>1 DEF Still, Empties, Returns
  <2> QED
    BY <1>2, <2>1, <2>2 DEF Held
<1>4. CASE k = "backspace" /\ ErasesBefore(g, h)
  BY <1>4, HeldErases
<1>5. CASE k = "delete" /\ ErasesAfter(g, h)
  BY <1>5, HeldDeletes
<1>6. CASE k = "left" /\ MovesTo(g, h, {g.cursor - 1})
  <2>1. PICK j \in 0..m : g.cursor = e.cursor - j
    BY <1>6 DEF Held
  <2>2. h.cursor = e.cursor - (j + 1) /\ h.buffer = e.buffer /\ h.history = e.history
    BY <1>1, <1>6, <2>1 DEF Held, MovesTo
  <2> QED
    BY <1>2, <1>6, <2>2 DEF Held
<1>7. CASE k = "right" /\ MovesTo(g, h, {g.cursor + 1})
  <2>1. PICK j \in 0..m : g.cursor = e.cursor + j
    BY <1>7 DEF Held
  <2>2. h.cursor = e.cursor + (j + 1) /\ h.buffer = e.buffer /\ h.history = e.history
    BY <1>1, <1>7, <2>1 DEF Held, MovesTo
  <2> QED
    BY <1>2, <1>7, <2>2 DEF Held
<1>8. CASE k \in {"home", "end"} /\ MovesTo(g, h, {0, Len(g.buffer)})
  BY <1>8 DEF Held, MovesTo
<1>9. CASE k \in {"up", "down", "kill"} /\ (Empties(g, h) \/ Returns(g, h))
  <2>1. g.history = e.history
    BY DEF Held
  <2>2. (Empties(e, h) \/ Returns(e, h)) /\ h.history = e.history
    BY <1>9, <2>1 DEF Empties, Returns
  <2> QED
    BY <1>9, <2>2 DEF Held
<1>10. CASE /\ k \notin {"backspace", "delete", "left", "right", "home", "end", "up", "down", "kill"}
            /\ Types(g, h)
  BY <1>10, HeldTypes
<1> QED
  BY <1>3, <1>4, <1>5, <1>6, <1>7, <1>8, <1>9, <1>10 DEF Presses

\* All of them.
LEMMA HoldsHeld ==
    ASSUME NEW e, Sound(e), NEW k, NEW n \in Nat, NEW g, Holds(e, k, n, g)
    PROVE  Held(e, k, g[n], n)
<1>1. PICK S : S = {m \in Nat : m <= n => Held(e, k, g[m], m)}
  OBVIOUS
<1>2. 0 \in S
  BY <1>1, HeldNone DEF Holds
<1>3. ASSUME NEW m \in Nat, m \in S
      PROVE  m + 1 \in S
  <2>1. CASE m + 1 <= n
    <3>1. m + 1 \in 1..n /\ (m + 1) - 1 = m /\ m \in 0..n
      BY <2>1
    <3>2. Presses(g[m], k, g[m + 1]) /\ Sound(g[m])
      BY <3>1 DEF Holds, Kept
    <3>3. Held(e, k, g[m], m)
      BY <1>1, <1>3, <2>1
    <3>4. Held(e, k, g[m + 1], m + 1)
      BY <3>2, <3>3, HeldMore
    <3> QED
      BY <1>1, <3>4
  <2>2. CASE ~(m + 1 <= n)
    BY <1>1, <2>2
  <2> QED
    BY <2>1, <2>2
<1>4. n \in S
  BY <1>2, <1>3, Induction
<1> QED
  BY <1>1, <1>4

\* An operation is one press of some key.
LEMMA ActsHeld ==
    ASSUME NEW e, Sound(e), NEW f, Acts(e, f)
    PROVE  \E k : Held(e, k, f, 1)
<1>1. \E k : Presses(e, k, f)
  <2>1. CASE Still(e, f)
    BY <2>1 DEF Presses
  <2>2. CASE Types(e, f)
    <3>1. Presses(e, "tab", f)
      BY <2>2 DEF Presses
    <3> QED
      BY <3>1
  <2>3. CASE ErasesBefore(e, f)
    <3>1. Presses(e, "backspace", f)
      BY <2>3 DEF Presses
    <3> QED
      BY <3>1
  <2>4. CASE ErasesAfter(e, f)
    <3>1. Presses(e, "delete", f)
      BY <2>4 DEF Presses
    <3> QED
      BY <3>1
  <2>5. CASE MovesTo(e, f, {e.cursor - 1})
    <3>1. Presses(e, "left", f)
      BY <2>5 DEF Presses
    <3> QED
      BY <3>1
  <2>6. CASE MovesTo(e, f, {e.cursor + 1})
    <3>1. Presses(e, "right", f)
      BY <2>6 DEF Presses
    <3> QED
      BY <3>1
  <2>7. CASE MovesTo(e, f, {0, Len(e.buffer)})
    <3>1. Presses(e, "home", f)
      BY <2>7 DEF Presses
    <3> QED
      BY <3>1
  <2>8. CASE Empties(e, f) \/ Returns(e, f)
    <3>1. Presses(e, "up", f)
      BY <2>8 DEF Presses
    <3> QED
      BY <3>1
  <2>9. \/ ~MovesTo(e, f, {e.cursor - 1, e.cursor + 1, 0, Len(e.buffer)})
        \/ MovesTo(e, f, {e.cursor - 1}) \/ MovesTo(e, f, {e.cursor + 1})
        \/ MovesTo(e, f, {0, Len(e.buffer)})
    BY DEF MovesTo
  <2> QED
    BY <2>1, <2>2, <2>3, <2>4, <2>5, <2>6, <2>7, <2>8, <2>9 DEF Acts
<1>2. PICK k : Presses(e, k, f)
  BY <1>1
<1>3. Held(e, k, e, 0)
  BY HeldNone
<1>4. PICK m \in Nat : m = 0
  OBVIOUS
<1>5. Held(e, k, f, m + 1)
  <2>1. Held(e, k, e, m)
    BY <1>3, <1>4
  <2> QED
    BY <1>2, <2>1, HeldMore
<1>6. m + 1 = 1
  BY <1>4
<1> QED
  BY <1>5, <1>6

\* A text with nothing typed and nothing erased is the same.
LEMMA SplicedSame ==
    ASSUME NEW s \in Seq(Text), NEW t \in Seq(Text), NEW c \in 0..Len(s), Spliced(s, t, c, c, 0)
    PROVE  t = s
<1>1. PICK n \in Nat : n = Len(s)
  BY LenProperties
<1>2. /\ Len(t) = n
      /\ \A i \in 1..c : t[i] = s[i]
  <2>1. c + 0 + (n - c) = n
    BY <1>1
  <2> QED
    BY <1>1, <2>1 DEF Spliced
<1>3. ASSUME NEW i \in (c + 1)..n
      PROVE  t[i] = s[i]
  <2>1. i \in (c + 0 + 1)..(c + 0 + (n - c)) /\ i - (c + 0) + c = i
    BY <1>1
  <2>2. t[i] = s[i - (c + 0) + c]
    BY <1>1, <2>1 DEF Spliced
  <2> QED
    BY <2>1, <2>2
<1>4. ASSUME NEW i \in 1..Len(t)
      PROVE  t[i] = s[i]
  <2>1. i \in 1..c \/ i \in (c + 1)..n
    BY <1>1, <1>2
  <2> QED
    BY <1>2, <1>3, <2>1
<1> QED
  BY <1>1, <1>2, <1>4, SeqEqual

\* Keys that move the cursor.
LEMMA MovesRefine ==
    ASSUME NEW k \in {"left", "right", "home", "end"}, NEW n \in 1..MaxRepeat,
           Sound(ed), Held(ed, k, ed', n)
    PROVE  LineEditing!Next \/ UNCHANGED LineEditing!vars
<1>1. PICK e : e = ed
  OBVIOUS
<1>2. PICK f : f = ed'
  OBVIOUS
<1>3. f.history = e.history /\ f.buffer = e.buffer
  BY <1>1, <1>2 DEF Held
<1>4. e.cursor \in Nat
  BY <1>1 DEF Sound, Editable, Editors
<1>5. ASSUME f.cursor = e.cursor
      PROVE  UNCHANGED LineEditing!vars
  BY <1>1, <1>2, <1>3, <1>5 DEF LineEditing!vars
<1>6. ASSUME NEW j \in 1..n, f.cursor \in {e.cursor - j, e.cursor + j, 0, Len(e.buffer)}
      PROVE  LineEditing!Next
  <2>1. LineEditing!Move(j)
    BY <1>1, <1>2, <1>3, <1>6 DEF LineEditing!Move
  <2>2. j \in 1..MaxRepeat
    BY TerminalAssumption
  <2> QED
    BY <2>1, <2>2 DEF LineEditing!Next
<1>7. CASE k \in {"left", "right"}
  <2>1. PICK j \in 0..n : f.cursor \in {e.cursor - j, e.cursor + j}
    BY <1>1, <1>2, <1>7 DEF Held
  <2>2. CASE j = 0
    <3>1. f.cursor = e.cursor
      BY <1>4, <2>1, <2>2
    <3> QED
      BY <1>5, <3>1
  <2>3. CASE j # 0
    <3>1. j \in 1..n /\ f.cursor \in {e.cursor - j, e.cursor + j, 0, Len(e.buffer)}
      BY <2>1, <2>3
    <3> QED
      BY <1>6, <3>1
  <2> QED
    BY <2>2, <2>3
<1>8. CASE k \in {"home", "end"}
  <2>1. f.cursor = e.cursor \/ f.cursor \in {0, Len(e.buffer)}
    BY <1>1, <1>2, <1>8 DEF Held
  <2>2. CASE f.cursor \in {0, Len(e.buffer)}
    <3>1. 1 \in 1..n /\ f.cursor \in {e.cursor - 1, e.cursor + 1, 0, Len(e.buffer)}
      BY <2>2
    <3> QED
      BY <1>6, <3>1
  <2> QED
    BY <1>5, <2>1, <2>2
<1> QED
  BY <1>7, <1>8

\* Keys that type or erase.
LEMMA SplicesRefine ==
    ASSUME NEW k, k \notin {"left", "right", "home", "end", "up", "down", "kill"},
           NEW n \in 1..MaxRepeat, Sound(ed), Sound(ed'), Held(ed, k, ed', n)
    PROVE  LineEditing!Next \/ UNCHANGED LineEditing!vars
<1>1. PICK e : e = ed
  OBVIOUS
<1>2. PICK f : f = ed'
  OBVIOUS
<1>3. PICK s \in Seq(Text) : s = e.buffer
  BY <1>1 DEF Sound, Editable, Editors
<1>4. PICK t \in Seq(Text) : t = f.buffer
  BY <1>2 DEF Sound, Editable, Editors
<1>5. Len(s) \in Nat /\ Len(t) \in Nat
  BY LenProperties
<1>6. PICK c \in 0..Len(s) : c = e.cursor
  BY <1>1, <1>3, <1>5 DEF Sound, Editable, Editors
<1>7. f.history = e.history
  BY <1>1, <1>2 DEF Held
<1>8. ASSUME f.cursor = c, Spliced(s, t, c, c, 0)
      PROVE  UNCHANGED LineEditing!vars
  <2>1. t = s
    BY <1>8, SplicedSame
  <2> QED
    BY <1>1, <1>2, <1>3, <1>4, <1>6, <1>7, <1>8, <2>1 DEF LineEditing!vars
<1>9. ASSUME NEW j \in 1..n, j <= c, f.cursor = c - j, Spliced(s, t, c - j, c, 0)
      PROVE  LineEditing!Next
  <2>1. PICK a \in 0..c : a = c - j
    BY <1>5, <1>9
  <2>2. PICK b \in 0..Len(s) : b = c
    OBVIOUS
  <2>3. t = SubSeq(s, 1, a) \o SubSeq(s, b + 1, Len(s))
    <3>1. PICK x \in 0..b : x = a
      BY <2>2
    <3>2. PICK m \in Nat : m = 0
      OBVIOUS
    <3>3. Spliced(s, t, x, b, m)
      BY <1>9, <2>1, <2>2, <3>1, <3>2
    <3>4. InParts(s, t, x, b, m)
      BY <3>3, SplicedParts
    <3> QED
      BY <3>1, <3>2, <3>4 DEF InParts
  <2>4. LineEditing!EraseBefore(j)
    BY <1>1, <1>2, <1>3, <1>4, <1>5, <1>6, <1>7, <1>9, <2>1, <2>2, <2>3 DEF LineEditing!EraseBefore
  <2>5. j \in 1..MaxRepeat
    BY TerminalAssumption
  <2> QED
    BY <2>4, <2>5 DEF LineEditing!Next
<1>10. ASSUME NEW j \in 1..n, c + j <= Len(s), f.cursor = c, Spliced(s, t, c, c + j, 0)
       PROVE  LineEditing!Next
  <2>1. PICK b \in 0..Len(s) : b = c + j
    BY <1>5, <1>10
  <2>2. t = SubSeq(s, 1, c) \o SubSeq(s, b + 1, Len(s))
    <3>1. PICK x \in 0..b : x = c
      BY <1>5, <2>1
    <3>2. PICK m \in Nat : m = 0
      OBVIOUS
    <3>3. Spliced(s, t, x, b, m)
      BY <1>10, <2>1, <3>1, <3>2
    <3>4. InParts(s, t, x, b, m)
      BY <3>3, SplicedParts
    <3> QED
      BY <3>1, <3>2, <3>4 DEF InParts
  <2>3. LineEditing!EraseAfter(j)
    BY <1>1, <1>2, <1>3, <1>4, <1>6, <1>7, <1>10, <2>1, <2>2 DEF LineEditing!EraseAfter
  <2>4. j \in 1..MaxRepeat
    BY TerminalAssumption
  <2> QED
    BY <2>3, <2>4 DEF LineEditing!Next
<1>11. ASSUME NEW j \in 1..n, f.cursor = c + j, Spliced(s, t, c, c, j)
       PROVE  LineEditing!Next
  <2>1. t = SubSeq(s, 1, c) \o SubSeq(t, c + 1, c + j) \o SubSeq(s, c + 1, Len(s))
    <3>1. PICK b \in 0..Len(s) : b = c
      OBVIOUS
    <3>2. PICK a \in 0..b : a = c
      BY <1>5, <3>1
    <3>3. PICK m \in Nat : m = j
      OBVIOUS
    <3>4. Spliced(s, t, a, b, m)
      BY <1>11, <3>1, <3>2, <3>3
    <3>5. InParts(s, t, a, b, m)
      BY <3>4, SplicedParts
    <3> QED
      BY <3>1, <3>2, <3>3, <3>5 DEF InParts
  <2>2. Len(t) = Len(s) + j
    <3>1. Len(t) = c + j + (Len(s) - c)
      BY <1>11 DEF Spliced
    <3> QED
      BY <1>5, <3>1
  <2>3. \A i \in (c + 1)..(c + j) :
          t[i] \in {<<b>> : b \in Bytes \cup Keys} \cup
                     {Tab, <<"lead2", "cont">>, WideCharacter, LoneSurrogate}
    <3>1. \A i \in (c + 1)..(c + j) : t[i] \in TypedUnits
      BY <1>11 DEF Spliced
    <3> QED
      BY <3>1 DEF TypedUnits
  <2>4. LineEditing!Type(j)
    BY <1>1, <1>2, <1>3, <1>4, <1>6, <1>7, <1>11, <2>1, <2>2, <2>3 DEF LineEditing!Type
  <2>5. j \in 1..MaxRepeat
    BY TerminalAssumption
  <2> QED
    BY <2>4, <2>5 DEF LineEditing!Next
<1>12. CASE k = "backspace"
  <2>1. PICK j \in 0..n : j <= c /\ f.cursor = c - j /\ Spliced(s, t, c - j, c, 0)
    BY <1>1, <1>2, <1>3, <1>4, <1>6, <1>12 DEF Held
  <2>2. CASE j = 0
    <3>1. c - 0 = c
      BY <1>5
    <3> QED
      BY <1>8, <2>1, <2>2, <3>1
  <2>3. CASE j # 0
    <3>1. j \in 1..n
      BY <2>3
    <3> QED
      BY <1>9, <2>1, <3>1
  <2> QED
    BY <2>2, <2>3
<1>13. CASE k = "delete"
  <2>1. PICK j \in 0..n : c + j <= Len(s) /\ f.cursor = c /\ Spliced(s, t, c, c + j, 0)
    BY <1>1, <1>2, <1>3, <1>4, <1>6, <1>13 DEF Held
  <2>2. CASE j = 0
    <3>1. c + 0 = c
      BY <1>5
    <3> QED
      BY <1>8, <2>1, <2>2, <3>1
  <2>3. CASE j # 0
    <3>1. j \in 1..n
      BY <2>3
    <3> QED
      BY <1>10, <2>1, <3>1
  <2> QED
    BY <2>2, <2>3
<1>14. CASE k \notin {"backspace", "delete"}
  <2>1. PICK j \in 0..n : f.cursor = c + j /\ Spliced(s, t, c, c, j)
    BY <1>1, <1>2, <1>3, <1>4, <1>6, <1>14 DEF Held
  <2>2. CASE j = 0
    <3>1. c + 0 = c
      BY <1>5
    <3> QED
      BY <1>8, <2>1, <2>2, <3>1
  <2>3. CASE j # 0
    BY <1>11, <2>1, <2>3
  <2> QED
    BY <2>2, <2>3
<1> QED
  BY <1>12, <1>13, <1>14

\* Both modules join the units of a line in the same way.
LEMMA SameSequences ==
    ASSUME NEW s
    PROVE  LineEditing!FlattenSeq(s) = FlattenSeq(s) /\ LineEditing!Last(s) = Last(s)
<1>1. LineEditing!FlattenSeq(s) = FlattenSeq(s)
  BY DEF FlattenSeq, LineEditing!FlattenSeq
<1>2. LineEditing!Last(s) = Last(s)
  BY DEF Last, LineEditing!Last
<1> QED
  BY <1>1, <1>2

\* Keys that replace the line.
LEMMA ReplacesRefine ==
    ASSUME Sound(ed), Sound(ed'), Still(ed, ed') \/ Empties(ed, ed') \/ Returns(ed, ed')
    PROVE  LineEditing!Next \/ UNCHANGED LineEditing!vars
<1>1. PICK e : e = ed
  OBVIOUS
<1>2. PICK f : f = ed'
  OBVIOUS
<1>3. CASE Still(e, f)
  BY <1>1, <1>2, <1>3 DEF Still, LineEditing!vars
<1>4. CASE Empties(e, f)
  <2>1. LineEditing!Empty
    BY <1>1, <1>2, <1>4 DEF Empties, LineEditing!Empty
  <2> QED
    BY <2>1 DEF LineEditing!Next
<1>5. CASE Returns(e, f)
  <2>1. PICK i \in 1..Len(e.history) : f.buffer = split_utf8(e.history[i])
    BY <1>5 DEF Returns
  <2>2. e.history[i] \in Text
    BY <1>1, <2>1, ElementOfSeq DEF Sound, Editable, Editors
  <2>3. LineEditing!FlattenSeq(f.buffer) = e.history[i]
    <3>1. joined(f.buffer) = e.history[i]
      BY <2>1, <2>2, SplitJoined
    <3> QED
      BY <3>1, SameSequences DEF joined
  <2>4. LineEditing!Recall
    BY <1>1, <1>2, <1>5, <2>3 DEF Returns, LineEditing!Recall
  <2> QED
    BY <2>4 DEF LineEditing!Next
<1> QED
  BY <1>1, <1>2, <1>3, <1>4, <1>5

\* Entering the line.
LEMMA EntersRefine ==
    ASSUME Sound(ed), Enters(ed, ed')
    PROVE  LineEditing!Next
<1>1. PICK e : e = ed
  OBVIOUS
<1>2. PICK f : f = ed'
  OBVIOUS
<1>3. PICK history \in Seq(Text) : history = e.history
  BY <1>1 DEF Sound, Editable, Editors
<1>4. PICK line \in Text : line = joined(e.buffer)
  BY <1>1, JoinedText DEF Sound, Editable, Editors
<1>5. PICK h : h = Remember(history, line)
  OBVIOUS
<1>6. Remembered(history, line, h)
  BY <1>5, RememberFacts
<1>7. f.buffer = <<>> /\ f.cursor = 0 /\ f.history = h
  BY <1>1, <1>2, <1>3, <1>4, <1>5 DEF Enters
<1>8. line = LineEditing!FlattenSeq(e.buffer)
  BY <1>4, SameSequences DEF joined
<1>9. IF line = <<>> \/ (history # <<>> /\ LineEditing!Last(history) = line) THEN h = history
      ELSE \E i \in 1..(Len(history) + 1) : h = Append(SubSeq(history, i, Len(history)), line)
  BY <1>6, SameSequences DEF Remembered
<1>10. LineEditing!Enter
  BY <1>1, <1>2, <1>3, <1>7, <1>8, <1>9 DEF LineEditing!Enter
<1> QED
  BY <1>10 DEF LineEditing!Next

\* Every step of the editor is one of the line editor, or does not touch the line.
LEMMA EditsRefine ==
    ASSUME TerminalInv, [Next]_vars
    PROVE  LineEditing!Next \/ UNCHANGED LineEditing!vars
<1>1. Sound(ed) /\ Sound(ed') /\ Edits(ed, ed')
  BY TerminalStep DEF TerminalInv, Keeps, Core
<1>2. ASSUME NEW k, NEW n \in 1..MaxRepeat, Held(ed, k, ed', n)
      PROVE  LineEditing!Next \/ UNCHANGED LineEditing!vars
  <2>1. CASE k \in {"left", "right", "home", "end"}
    BY <1>1, <1>2, <2>1, MovesRefine
  <2>2. CASE k \in {"up", "down", "kill"}
    <3>1. Still(ed, ed') \/ Empties(ed, ed') \/ Returns(ed, ed')
      BY <1>2, <2>2 DEF Held
    <3> QED
      BY <1>1, <3>1, ReplacesRefine
  <2>3. CASE k \notin {"left", "right", "home", "end", "up", "down", "kill"}
    BY <1>1, <1>2, <2>3, SplicesRefine
  <2> QED
    BY <2>1, <2>2, <2>3
<1>3. CASE Acts(ed, ed')
  <2>1. PICK e : e = ed
    OBVIOUS
  <2>2. PICK f : f = ed'
    OBVIOUS
  <2>3. PICK k : Held(e, k, f, 1)
    BY <1>1, <1>3, <2>1, <2>2, ActsHeld
  <2>4. 1 \in 1..MaxRepeat
    BY TerminalAssumption
  <2> QED
    BY <1>2, <2>1, <2>2, <2>3, <2>4
<1>4. CASE Enters(ed, ed')
  BY <1>1, <1>4, EntersRefine
<1>5. CASE \E k \in Keys, n \in 1..MaxRepeat : \E g : Holds(ed, k, n, g) /\ SameText(g[n], ed')
  <2>1. PICK k \in Keys, n \in 1..MaxRepeat : \E g : Holds(ed, k, n, g) /\ SameText(g[n], ed')
    BY <1>5
  <2>2. PICK g : Holds(ed, k, n, g) /\ SameText(g[n], ed')
    BY <2>1
  <2>3. n \in Nat
    BY TerminalAssumption
  <2>4. PICK e : e = ed
    OBVIOUS
  <2>5. Held(e, k, g[n], n)
    BY <1>1, <2>2, <2>3, <2>4, HoldsHeld
  <2>6. Held(ed, k, ed', n)
    BY <2>2, <2>4, <2>5 DEF Held, SameText, Still, Empties, Returns
  <2> QED
    BY <1>2, <2>6
<1> QED
  BY <1>1, <1>3, <1>4, <1>5 DEF Edits

\* The editor implements the line editor: whatever bytes its keys are made of,
\* and wherever polls and other calls cut their sequences, each step changes the
\* line as a key of the line editor does, or leaves it alone.
THEOREM TerminalImplementsLineEditor == Spec => ImplementsLineEditor
<1>1. Init => LineEditing!Init
  BY DEF Init, LineEditing!Init
<1>2. TerminalInv /\ [Next]_vars => [LineEditing!Next]_LineEditing!vars
  BY EditsRefine
<1> QED
  BY <1>1, <1>2, TerminalInvariant, PTL DEF Spec, LineEditing!Spec, ImplementsLineEditor

=============================================================================
