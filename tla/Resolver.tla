------------------------------ MODULE Resolver ------------------------------
(***************************************************************************)
(* resolver.cpp: the pass that gives every occurrence of a local name the  *)
(* number of scopes between it and its declaration and the slot there, and *)
(* every scope its number of slots.  A scope is the sequence of the names  *)
(* declared in it so far, in the order of their slots.                     *)
(***************************************************************************)
EXTENDS Parser

Local(depth, slot) == [binding |-> "local", depth |-> depth, slot |-> slot]
Global == [binding |-> "global", depth |-> 0, slot |-> 0]

SlotsOf(scope, symbol) == {i \in 1..Len(scope) : scope[i] = symbol}

\* The innermost scope that has the name so far.
ResolveReference(name, scopes) ==
  LET Scope(depth) == scopes[Len(scopes) - depth]
      found == {d \in 0..(Len(scopes) - 1) : SlotsOf(Scope(d), name.symbol) # {}}
      depth == CHOOSE d \in found : \A e \in found : d <= e
  IN [name EXCEPT !.address =
        IF found = {} THEN Global
        ELSE Local(depth, (CHOOSE i \in SlotsOf(Scope(depth), name.symbol) : TRUE) - 1)]

\* Two declarations of a name in one scope share a slot.
Declared(name, scopes) ==
  LET scope == scopes[Len(scopes)]
      new == IF SlotsOf(scope, name.symbol) = {} THEN Append(scope, name.symbol) ELSE scope
  IN IF scopes = <<>> THEN [node |-> [name EXCEPT !.address = Global], scopes |-> scopes]
     ELSE [node |-> [name EXCEPT !.address = Local(0, (CHOOSE i \in SlotsOf(new, name.symbol) : TRUE) - 1)],
           scopes |-> [scopes EXCEPT ![Len(scopes)] = new]]

RECURSIVE ResolveExpression(_, _)
ResolveAll(expressions, scopes) ==
  [i \in DOMAIN expressions |-> ResolveExpression(expressions[i], scopes)]

ResolveExpression(e, scopes) ==
  LET R(part) == ResolveExpression(part, scopes)
  IN CASE e.k = "literal" -> e
       [] e.k = "variable" -> [e EXCEPT !.name = ResolveReference(@, scopes)]
       [] e.k = "grouping" -> [e EXCEPT !.expression = R(@)]
       [] e.k = "unary" -> [e EXCEPT !.right = R(@)]
       [] e.k = "binary" -> [e EXCEPT !.left = R(@), !.right = R(@)]
       [] e.k = "assignment" -> [e EXCEPT !.target = R(@), !.value = R(@)]
       [] e.k = "call" -> [e EXCEPT !.callee = R(@), !.arguments = ResolveAll(@, scopes)]
       [] e.k = "array" -> [e EXCEPT !.elements = ResolveAll(@, scopes)]
       [] e.k = "map" -> [e EXCEPT !.elements =
                            [i \in DOMAIN e.elements |-> ResolveAll(e.elements[i], scopes)]]
       [] e.k = "index" -> [e EXCEPT !.object = R(@), !.index = R(@)]
       [] e.k = "update" -> [e EXCEPT !.target = R(@)]

\* An optional expression is a sequence of at most one.
RECURSIVE ResolveStatement(_, _), ResolveStatements(_, _), DeclareAll(_, _)

DeclareAll(names, scopes) ==
  LET first == Declared(Head(names), scopes)
      rest == DeclareAll(Tail(names), first.scopes)
  IN IF names = <<>> THEN [node |-> <<>>, scopes |-> scopes]
     ELSE [node |-> <<first.node>> \o rest.node, scopes |-> rest.scopes]

ResolveStatements(statements, scopes) ==
  LET first == ResolveStatement(Head(statements), scopes)
      rest == ResolveStatements(Tail(statements), first.scopes)
  IN IF statements = <<>> THEN [node |-> <<>>, scopes |-> scopes]
     ELSE [node |-> <<first.node>> \o rest.node, scopes |-> rest.scopes]

\* mutant: a block that declares only functions gets no scope.
DeclaresBindings_Variables(body) == \E i \in DOMAIN body : body[i].k = "var"

DeclaresBindings(body) == \E i \in DOMAIN body : body[i].k \in {"var", "function"}

ResolveBlock(s, scopes) ==
  LET inner == ResolveStatements(s.body, Append(scopes, <<>>))
      plain == ResolveStatements(s.body, scopes)
  IN IF DeclaresBindings(s.body)
     THEN [s EXCEPT !.body = inner.node, !.slots = Len(inner.scopes[Len(inner.scopes)])]
     ELSE [s EXCEPT !.body = plain.node, !.slots = 0]

ResolveFunction(s, scopes) ==
  LET name == Declared(s.name, scopes)
      parameters == DeclareAll(s.parameters, Append(name.scopes, <<>>))
      body == ResolveStatements(s.body, parameters.scopes)
  IN [node |-> [s EXCEPT !.name = name.node, !.parameters = parameters.node, !.body = body.node,
                         !.slots = Len(body.scopes[Len(body.scopes)])],
      scopes |-> name.scopes]

ResolveForIn(s, scopes) ==
  LET variable == Declared(s.variable, Append(scopes, <<>>))
      body == ResolveStatement(s.body, variable.scopes)
  IN [s EXCEPT !.iterable = ResolveExpression(@, scopes), !.variable = variable.node,
               !.body = body.node, !.slots = Len(body.scopes[Len(body.scopes)])]

\* A statement that is not a declaration leaves the scopes as they are.
ResolveStatement(s, scopes) ==
  LET Expr(e) == ResolveExpression(e, scopes)
      Stmt(t) == ResolveStatement(t, scopes).node
      name == Declared(s.name, scopes)
      Same(node) == [node |-> node, scopes |-> scopes]
  IN CASE s.k = "function" -> ResolveFunction(s, scopes)
       [] s.k = "var" -> [node |-> [s EXCEPT !.initializer = ResolveAll(@, scopes), !.name = name.node],
                          scopes |-> name.scopes]
       [] s.k \in {"empty", "break", "continue"} -> Same(s)
       [] s.k = "expression" -> Same([s EXCEPT !.expression = Expr(@)])
       [] s.k = "print" -> Same([s EXCEPT !.arguments = ResolveAll(@, scopes)])
       [] s.k = "block" -> Same(ResolveBlock(s, scopes))
       [] s.k = "if" -> Same([s EXCEPT !.condition = Expr(@), !.then = Stmt(@),
                                        !.else = [i \in DOMAIN s.else |-> Stmt(s.else[i])]])
       [] s.k = "while" -> Same([s EXCEPT !.condition = Expr(@), !.body = Stmt(@)])
       [] s.k = "return" -> Same([s EXCEPT !.value = ResolveAll(@, scopes)])
       [] s.k = "for" -> Same(ResolveForIn(s, scopes))

Resolve(program) == ResolveStatements(program, <<>>).node
=============================================================================
