------------------------------- MODULE Parser -------------------------------
(***************************************************************************)
(* parser.cpp: the Pratt parser of expressions and the recursive descent   *)
(* of statements.  A token is a string; Names and Literals are the         *)
(* identifiers and the literals that occur, every other token is a keyword *)
(* or an operator.  A parser is a record of what the object keeps, `node`  *)
(* being what the last function returned.  What an error message says is   *)
(* left out: an error is a parser that stays where it is.                  *)
(***************************************************************************)
EXTENDS Integers, Sequences

CONSTANTS
  Names,     \* identifiers
  Literals   \* number, string, char and constant tokens

ASSUME ParserAssumption ==
  /\ Names \subseteq STRING /\ Literals \subseteq STRING
  /\ Names \cap Literals = {}

(***************************************************************************)
(* Tokens                                                                  *)
(***************************************************************************)
EndOfFile == "eof"
Unresolved == [binding |-> "unresolved", depth |-> 0, slot |-> 0]

\* An occurrence of a name, as the Resolver will annotate it.
Occurrence(name) == [symbol |-> name, address |-> Unresolved]

NewParser(tokens) ==
  [tokens |-> tokens, current |-> 1, loop_depth |-> 0, function_depth |-> 0,
   failed |-> FALSE, node |-> <<>>]

Peek(p) == p.tokens[IF p.current > Len(p.tokens) THEN Len(p.tokens) ELSE p.current]
Check(p, type) == ~p.failed /\ Peek(p) = type
AtEnd(p) == Peek(p) = EndOfFile
Fail(p) == [p EXCEPT !.failed = TRUE]
Skip(p) == IF p.failed THEN p ELSE [p EXCEPT !.current = @ + 1]
Consume(p, type) == IF Check(p, type) THEN Skip(p) ELSE Fail(p)
ConsumeName(p) ==
  IF ~p.failed /\ Peek(p) \in Names THEN [Skip(p) EXCEPT !.node = Occurrence(Peek(p))] ELSE Fail(p)
Returning(p, node) == [p EXCEPT !.node = node]

(***************************************************************************)
(* The rules of get_rule                                                   *)
(***************************************************************************)
AssignmentOperators == {"=", "+=", "-=", "*=", "/="}
BinaryOperators ==
  {"||", "&&", "==", "!=", "<", "<=", ">", ">=", "in", "+", "-", "*", "/", "%"}
UpdateOperators == {"++", "--"}

Assignment == 1
Unary == 9

Precedence(type) ==
  CASE type \in AssignmentOperators -> Assignment
    [] type = "||" -> 3
    [] type = "&&" -> 4
    [] type \in {"==", "!="} -> 5
    [] type \in {"<", "<=", ">", ">=", "in"} -> 6
    [] type \in {"+", "-"} -> 7
    [] type \in {"*", "/", "%"} -> 8
    [] type \in UpdateOperators \cup {"(", "["} -> 10
    [] OTHER -> 0

RECURSIVE IsAssignmentTarget(_)
IsAssignmentTarget(e) == e.k = "variable" \/ (e.k = "index" /\ IsAssignmentTarget(e.object))

(***************************************************************************)
(* Expressions                                                             *)
(***************************************************************************)
\* A nonterminal and what it depends on.  Every function of the parser that
\* calls itself, through whatever others, does so through Parsed.
RECURSIVE Parsed(_, _)

ParsePrecedence(p, precedence) == Parsed(p, [name |-> "operand", precedence |-> precedence])
Expression(p) == ParsePrecedence(p, Assignment)
Statement(p) == Parsed(p, [name |-> "statement"])

\* One of a list: an element of an array, map, call or print, or a parameter.
Item(p, kind) ==
  LET key == Expression(p)
      value == Expression(Consume(key, ":"))
  IN CASE kind = "parameter" -> ConsumeName(p)
       [] kind = "entry" -> Returning(value, <<key.node, value.node>>)
       [] OTHER -> key

\* A comma may stand before the closing token, but not in print and fun.
Trails(p, rule) == rule.kind \in {"element", "entry"} /\ Check(p, rule.closer)

Prepended(node, p) == Returning(p, <<node>> \o p.node)

MoreItems(first, rule) ==
  CASE ~Check(first, ",") -> Returning(first, <<first.node>>)
    [] Trails(Skip(first), rule) -> Returning(Skip(first), <<first.node>>)
    [] OTHER -> Prepended(first.node, Parsed(Skip(first), rule))

List(p, kind, closer) ==
  Consume(IF Check(p, closer) THEN Returning(p, <<>>)
          ELSE Parsed(p, [name |-> "items", kind |-> kind, closer |-> closer]), closer)

Grouping(p) ==
  LET inner == Expression(p)
  IN Returning(Consume(inner, ")"), [k |-> "grouping", expression |-> inner.node])

UnaryOperator(p, operation) ==
  LET right == ParsePrecedence(p, Unary)
  IN Returning(right, [k |-> "unary", operation |-> operation, right |-> right.node])

PrefixUpdate(p, operation) ==
  LET target == ParsePrecedence(p, Unary)
  IN IF target.failed \/ ~IsAssignmentTarget(target.node) THEN Fail(target)
     ELSE Returning(target, [k |-> "update", target |-> target.node,
                             operation |-> operation, prefix |-> TRUE])

\* Array and Map without a brace name the built-in functions.
Collection(p, name) ==
  LET elements == List(Skip(p), IF name = "Map" THEN "entry" ELSE "element", "}")
  IN IF Check(p, "{")
     THEN Returning(elements, [k |-> IF name = "Map" THEN "map" ELSE "array",
                               elements |-> elements.node])
     ELSE Returning(p, [k |-> "variable", name |-> Occurrence(name)])

Prefix(p, token) ==
  CASE token \in Literals -> Returning(p, [k |-> "literal", value |-> token])
    [] token \in Names -> Returning(p, [k |-> "variable", name |-> Occurrence(token)])
    [] token \in {"Array", "Map"} -> Collection(p, token)
    [] token = "(" -> Grouping(p)
    [] token \in {"-", "!"} -> UnaryOperator(p, token)
    [] token \in UpdateOperators -> PrefixUpdate(p, token)
    [] OTHER -> Fail(p)

\* mutant: the right operand may hold an operator of the same precedence.
Binary_RightAssociative(p, operation) ==
  LET right == ParsePrecedence(p, Precedence(operation))
  IN Returning(right, [k |-> "binary", left |-> p.node, operation |-> operation, right |-> right.node])

Binary(p, operation) ==
  LET right == ParsePrecedence(p, Precedence(operation) + 1)
  IN Returning(right, [k |-> "binary", left |-> p.node, operation |-> operation, right |-> right.node])

Assigned(p, operation) ==
  LET value == ParsePrecedence(p, Assignment)
  IN IF ~IsAssignmentTarget(p.node) THEN Fail(p)
     ELSE Returning(value, [k |-> "assignment", target |-> p.node, op |-> operation, value |-> value.node])

Call(p) ==
  LET arguments == List(p, "element", ")")
  IN Returning(arguments, [k |-> "call", callee |-> p.node, arguments |-> arguments.node])

Index(p) ==
  LET value == Expression(p)
  IN Returning(Consume(value, "]"), [k |-> "index", object |-> p.node, index |-> value.node])

PostfixUpdate(p, operation) ==
  IF ~IsAssignmentTarget(p.node) THEN Fail(p)
  ELSE Returning(p, [k |-> "update", target |-> p.node, operation |-> operation, prefix |-> FALSE])

Infix(p, token) ==
  CASE token \in BinaryOperators -> Binary(p, token)
    [] token \in AssignmentOperators -> Assigned(p, token)
    [] token = "(" -> Call(p)
    [] token = "[" -> Index(p)
    [] token \in UpdateOperators -> PostfixUpdate(p, token)

\* The loop that takes operators as long as they bind strongly enough.
Infixes(left, precedence) ==
  IF left.failed \/ Precedence(Peek(left)) < precedence THEN left
  ELSE Parsed(Infix(Skip(left), Peek(left)), [name |-> "infixes", precedence |-> precedence])

(***************************************************************************)
(* Statements                                                              *)
(***************************************************************************)
VarDeclaration(p) ==
  LET name == ConsumeName(p)
      value == Expression(Skip(name))
      q == IF Check(name, "=") THEN Returning(value, <<value.node>>) ELSE Returning(name, <<>>)
  IN Returning(Consume(q, ";"), [k |-> "var", name |-> name.node, initializer |-> q.node])

\* The declarations of a block, up to its brace, and of a program.
Declarations(p, closer) == Parsed(p, [name |-> "declarations", closer |-> closer])

\* mutant: the body of a function is parsed as part of the loop around it.
FunctionDeclaration_InLoop(p) ==
  LET name == ConsumeName(p)
      parameters == List(Consume(name, "("), "parameter", ")")
      start == [Consume(parameters, "{") EXCEPT !.function_depth = @ + 1]
      body == Declarations(start, "}")
  IN [Consume(body, "}") EXCEPT
        !.function_depth = p.function_depth,
        !.node = [k |-> "function", name |-> name.node, parameters |-> parameters.node,
                  body |-> body.node, slots |-> 0]]

FunctionDeclaration(p) ==
  LET name == ConsumeName(p)
      parameters == List(Consume(name, "("), "parameter", ")")
      start == [Consume(parameters, "{") EXCEPT !.loop_depth = 0, !.function_depth = @ + 1]
      body == Declarations(start, "}")
  IN [Consume(body, "}") EXCEPT
        !.function_depth = @ - 1, !.loop_depth = p.loop_depth,
        !.node = [k |-> "function", name |-> name.node, parameters |-> parameters.node,
                  body |-> body.node, slots |-> 0]]

Declaration(p) ==
  CASE Check(p, "fun") -> FunctionDeclaration(Skip(p))
    [] Check(p, "var") -> VarDeclaration(Skip(p))
    [] OTHER -> Statement(p)

BlockStatement(p) ==
  LET body == Declarations(p, "}")
  IN Returning(Consume(body, "}"), [k |-> "block", body |-> body.node, slots |-> 0])

PrintStatement(p) ==
  LET arguments == List(Consume(p, "("), "printed", ")")
  IN Returning(Consume(arguments, ";"), [k |-> "print", arguments |-> arguments.node])

ExpressionStatement(p) ==
  LET value == Expression(p)
  IN Returning(Consume(value, ";"), [k |-> "expression", expression |-> value.node])

IfStatement(p) ==
  LET condition == Expression(Consume(p, "("))
      then == Statement(Consume(condition, ")"))
      else == Statement(Skip(then))
      q == IF Check(then, "else") THEN Returning(else, <<else.node>>) ELSE Returning(then, <<>>)
  IN Returning(q, [k |-> "if", condition |-> condition.node, then |-> then.node, else |-> q.node])

\* The body of a loop.
LoopBody(p) ==
  LET body == Statement([p EXCEPT !.loop_depth = @ + 1])
  IN [body EXCEPT !.loop_depth = @ - 1]

WhileStatement(p) ==
  LET condition == Expression(Consume(p, "("))
      body == LoopBody(Consume(condition, ")"))
  IN Returning(body, [k |-> "while", condition |-> condition.node, body |-> body.node])

ForInStatement(p) ==
  LET variable == ConsumeName(Consume(Consume(p, "("), "var"))
      iterable == Expression(Consume(variable, "in"))
      body == LoopBody(Consume(iterable, ")"))
  IN Returning(body, [k |-> "for", variable |-> variable.node, iterable |-> iterable.node,
                      body |-> body.node, slots |-> 0])

LoopJump(p, keyword) ==
  IF p.loop_depth = 0 THEN Fail(p) ELSE Returning(Consume(p, ";"), [k |-> keyword])

ReturnStatement(p) ==
  LET value == Expression(p)
      q == IF Check(p, ";") THEN Returning(p, <<>>) ELSE Returning(value, <<value.node>>)
  IN IF p.function_depth = 0 THEN Fail(p)
     ELSE Returning(Consume(q, ";"), [k |-> "return", value |-> q.node])

AnyStatement(p) ==
  LET next == Skip(p)
  IN CASE Check(p, ";") -> Returning(next, [k |-> "empty"])
       [] Check(p, "print") -> PrintStatement(next)
       [] Check(p, "{") -> BlockStatement(next)
       [] Check(p, "if") -> IfStatement(next)
       [] Check(p, "while") -> WhileStatement(next)
       [] Check(p, "for") -> ForInStatement(next)
       [] Peek(p) \in {"break", "continue"} -> LoopJump(next, Peek(p))
       [] Check(p, "return") -> ReturnStatement(next)
       [] OTHER -> ExpressionStatement(p)

MoreDeclarations(first, rule) == Prepended(first.node, Parsed(first, rule))

Parsed(p, rule) ==
  CASE rule.name = "declarations" /\ (p.failed \/ Check(p, rule.closer) \/ AtEnd(p)) -> Returning(p, <<>>)
    [] rule.name = "declarations" -> MoreDeclarations(Declaration(p), rule)
    [] p.failed -> p
    [] rule.name = "operand" -> Infixes(Prefix(Skip(p), Peek(p)), rule.precedence)
    [] rule.name = "infixes" -> Infixes(p, rule.precedence)
    [] rule.name = "items" -> MoreItems(Item(p, rule.kind), rule)
    [] rule.name = "statement" -> AnyStatement(p)

Parse(tokens) == Declarations(NewParser(Append(tokens, EndOfFile)), EndOfFile)
=============================================================================
