------------------------------ MODULE Grammar -------------------------------
(***************************************************************************)
(* The syntax of Chompo as its documentation gives it, for comparison with *)
(* the parser: how a tree is written, which trees can be written as they   *)
(* are, and where break, continue and return may stand.                    *)
(***************************************************************************)
EXTENDS Resolver

\* Binding strength, from the table of operators: 1 binds least.
Strength(operation) ==
  CASE operation = "||" -> 2
    [] operation = "&&" -> 3
    [] operation \in {"==", "!="} -> 4
    [] operation \in {"<", "<=", ">", ">=", "in"} -> 5
    [] operation \in {"+", "-"} -> 6
    [] operation \in {"*", "/", "%"} -> 7

Level(e) ==
  CASE e.k = "assignment" -> 1
    [] e.k = "binary" -> Strength(e.operation)
    [] e.k = "unary" \/ (e.k = "update" /\ e.prefix) -> 8
    [] e.k \in {"call", "index", "update"} -> 9
    [] OTHER -> 10

RECURSIVE Wrote(_), Listed(_), Entries(_)
Listed(parts) ==
  IF parts = <<>> THEN <<>>
  ELSE Wrote(parts[1]) \o (IF Len(parts) = 1 THEN <<>> ELSE <<",">>) \o Listed(Tail(parts))

\* A comma after the last entry is allowed.
Entries(pairs) ==
  IF pairs = <<>> THEN <<>>
  ELSE Wrote(pairs[1][1]) \o <<":">> \o Wrote(pairs[1][2]) \o <<",">> \o Entries(Tail(pairs))

\* The tokens of an expression.
Wrote(e) ==
  CASE e.k = "literal" -> <<e.value>>
    [] e.k = "variable" -> <<e.name.symbol>>
    [] e.k = "grouping" -> <<"(">> \o Wrote(e.expression) \o <<")">>
    [] e.k = "unary" -> <<e.operation>> \o Wrote(e.right)
    [] e.k = "binary" -> Wrote(e.left) \o <<e.operation>> \o Wrote(e.right)
    [] e.k = "assignment" -> Wrote(e.target) \o <<e.op>> \o Wrote(e.value)
    [] e.k = "call" -> Wrote(e.callee) \o <<"(">> \o Listed(e.arguments) \o <<")">>
    [] e.k = "array" -> <<"Array", "{">> \o Listed(e.elements) \o <<"}">>
    [] e.k = "map" -> <<"Map", "{">> \o Entries(e.elements) \o <<"}">>
    [] e.k = "index" -> Wrote(e.object) \o <<"[">> \o Wrote(e.index) \o <<"]">>
    [] e.k = "update" -> IF e.prefix THEN <<e.operation>> \o Wrote(e.target)
                         ELSE Wrote(e.target) \o <<e.operation>>

Optional(before, parts) == IF parts = <<>> THEN <<>> ELSE before \o Wrote(parts[1])

RECURSIVE WroteStatement(_), WroteAll(_), Parameters(_)
WroteAll(body) == IF body = <<>> THEN <<>> ELSE WroteStatement(body[1]) \o WroteAll(Tail(body))

Parameters(names) ==
  IF names = <<>> THEN <<>>
  ELSE <<names[1].symbol>> \o (IF Len(names) = 1 THEN <<>> ELSE <<",">>) \o Parameters(Tail(names))

\* The tokens of a statement.
WroteStatement(s) ==
  CASE s.k = "empty" -> <<";">>
    [] s.k = "expression" -> Wrote(s.expression) \o <<";">>
    [] s.k = "print" -> <<"print", "(">> \o Listed(s.arguments) \o <<")", ";">>
    [] s.k = "var" -> <<"var", s.name.symbol>> \o Optional(<<"=">>, s.initializer) \o <<";">>
    [] s.k = "block" -> <<"{">> \o WroteAll(s.body) \o <<"}">>
    [] s.k = "if" -> <<"if", "(">> \o Wrote(s.condition) \o <<")">> \o WroteStatement(s.then)
                       \o (IF s.else = <<>> THEN <<>> ELSE <<"else">> \o WroteStatement(s.else[1]))
    [] s.k = "while" -> <<"while", "(">> \o Wrote(s.condition) \o <<")">> \o WroteStatement(s.body)
    [] s.k = "for" -> <<"for", "(", "var", s.variable.symbol, "in">> \o Wrote(s.iterable) \o <<")">>
                        \o WroteStatement(s.body)
    [] s.k \in {"break", "continue"} -> <<s.k, ";">>
    [] s.k = "return" -> <<"return">> \o Optional(<<>>, s.value) \o <<";">>
    [] s.k = "function" -> <<"fun", s.name.symbol, "(">> \o Parameters(s.parameters) \o <<")", "{">>
                             \o WroteAll(s.body) \o <<"}">>

\* Parts of an expression that may hold anything, and those that need a
\* certain strength, because nothing but precedence separates them.
Free(e) ==
  CASE e.k = "grouping" -> <<e.expression>>
    [] e.k = "assignment" -> <<e.value>>
    [] e.k = "call" -> e.arguments
    [] e.k = "array" -> e.elements
    [] e.k = "index" -> <<e.index>>
    [] OTHER -> <<>>

Bound(e) ==
  CASE e.k = "unary" -> <<<<e.right, 8>>>>
    [] e.k = "binary" -> <<<<e.left, Level(e)>>, <<e.right, Level(e) + 1>>>>
    [] e.k = "assignment" -> <<<<e.target, 9>>>>
    [] e.k = "call" -> <<<<e.callee, 9>>>>
    [] e.k = "index" -> <<<<e.object, 9>>>>
    [] e.k = "update" -> <<<<e.target, IF e.prefix THEN 8 ELSE 9>>>>
    [] OTHER -> <<>>

Targets(e) == IF e.k \in {"assignment", "update"} THEN {e.target} ELSE {}

\* The expression means, by the table of operators, what its tree says.
RECURSIVE Expressible(_)
Expressible(e) ==
  /\ \A t \in Targets(e) : IsAssignmentTarget(t)
  /\ \A i \in DOMAIN Free(e) : Expressible(Free(e)[i])
  /\ \A i \in DOMAIN Bound(e) : Level(Bound(e)[i][1]) >= Bound(e)[i][2] /\ Expressible(Bound(e)[i][1])
  /\ e.k = "map" => \A i \in DOMAIN e.elements : \A j \in 1..2 : Expressible(e.elements[i][j])

\* Expressions and statements directly under a statement.
Expressions(s) ==
  CASE s.k = "expression" -> <<s.expression>>
    [] s.k = "print" -> s.arguments
    [] s.k = "var" -> s.initializer
    [] s.k \in {"if", "while"} -> <<s.condition>>
    [] s.k = "for" -> <<s.iterable>>
    [] s.k = "return" -> s.value
    [] OTHER -> <<>>

Children(s) ==
  CASE s.k \in {"block", "function"} -> s.body
    [] s.k = "if" -> <<s.then>> \o s.else
    [] s.k \in {"while", "for"} -> <<s.body>>
    [] OTHER -> <<>>

\* An else would be taken by this statement.
RECURSIVE TakesElse(_)
TakesElse(s) ==
  CASE s.k = "if" -> s.else = <<>> \/ TakesElse(s.else[1])
    [] s.k \in {"while", "for"} -> TakesElse(s.body)
    [] OTHER -> FALSE

RECURSIVE Readable(_)
Readable(s) ==
  /\ \A i \in DOMAIN Expressions(s) : Expressible(Expressions(s)[i])
  /\ \A i \in DOMAIN Children(s) : Readable(Children(s)[i])
  /\ s.k \in {"if", "while", "for"} => \A i \in DOMAIN Children(s) : Children(s)[i].k \notin {"var", "function"}
  /\ (s.k = "if" /\ s.else # <<>>) => ~TakesElse(s.then)

\* break and continue stand in a loop of the same function, return in a
\* function.
RECURSIVE Placed(_, _, _)
Placed(s, inLoop, inFunction) ==
  /\ s.k \in {"break", "continue"} => inLoop
  /\ s.k = "return" => inFunction
  /\ \A i \in DOMAIN Children(s) :
       Placed(Children(s)[i], (inLoop \/ s.k \in {"while", "for"}) /\ s.k # "function",
              inFunction \/ s.k = "function")

Readables(program) == \A i \in DOMAIN program : Readable(program[i])
AllPlaced(program) == \A i \in DOMAIN program : Placed(program[i], FALSE, FALSE)

(***************************************************************************)
(* Scopes                                                                  *)
(***************************************************************************)
\* The names an expression mentions.
RECURSIVE Mentioned(_)
Mentioned(e) ==
  (IF e.k = "variable" THEN {e.name.symbol} ELSE {})
    \cup UNION {Mentioned(Free(e)[i]) : i \in DOMAIN Free(e)}
    \cup UNION {Mentioned(Bound(e)[i][1]) : i \in DOMAIN Bound(e)}
    \cup (IF e.k = "map" THEN UNION {UNION {Mentioned(e.elements[i][j]) : j \in 1..2} : i \in DOMAIN e.elements}
          ELSE {})

\* The names mentioned in functions of a statement.
RECURSIVE MentionedLater(_, _)
MentionedLater(s, inFunction) ==
  (IF inFunction THEN UNION {Mentioned(Expressions(s)[i]) : i \in DOMAIN Expressions(s)} ELSE {})
    \cup UNION {MentionedLater(Children(s)[i], inFunction \/ s.k = "function") : i \in DOMAIN Children(s)}

\* Some function mentions a name that its own or an enclosing scope, but not
\* the global one, declares only after the function.
RECURSIVE LooksAhead(_, _)
LooksAhead(body, global) ==
  \/ /\ ~global
     /\ \E i, j \in DOMAIN body :
          /\ i < j /\ body[j].k \in {"var", "function"}
          /\ body[j].name.symbol \in MentionedLater(body[i], FALSE)
  \/ \E i \in DOMAIN body : LooksAhead(Children(body[i]), FALSE)

\* The program with nothing resolved: every block a scope, every name to be
\* looked for outwards through the scopes when it is used.
RECURSIVE Unbound(_)
Unbound(s) ==
  CASE s.k = "block" -> [s EXCEPT !.body = [i \in DOMAIN s.body |-> Unbound(s.body[i])], !.slots = 1]
    [] s.k = "function" -> [s EXCEPT !.body = [i \in DOMAIN s.body |-> Unbound(s.body[i])]]
    [] s.k = "if" -> [s EXCEPT !.then = Unbound(@), !.else = [i \in DOMAIN s.else |-> Unbound(s.else[i])]]
    [] s.k \in {"while", "for"} -> [s EXCEPT !.body = Unbound(@)]
    [] OTHER -> s
=============================================================================
