------------------------------ MODULE MCChompo ------------------------------
(***************************************************************************)
(* Programs for Chompo: every expression up to a size, nested scopes with  *)
(* one variable and one function, and arrays put into each other.          *)
(***************************************************************************)
EXTENDS Chompo

MCNames ==
  {"x", "f", "a", "b", "m", "c", "s", "push", "pop", "removeAt", "removeKey", "len",
   "Int", "Char", "String", "CATS"}

MCLiterals == {"0", "1", "2", "'b'", "\"ab\"", "\"-7\""}

MCDecode == [t \in MCLiterals |->
               CASE t = "0" -> Integer(0) [] t = "1" -> Integer(1) [] t = "2" -> Integer(2)
                 [] t = "'b'" -> Value("char", 98) [] t = "\"ab\"" -> Value("string", <<97, 98>>)
                 [] t = "\"-7\"" -> Value("string", <<45, 55>>)]

(***************************************************************************)
(* Trees                                                                   *)
(***************************************************************************)
Lit(t) == [k |-> "literal", value |-> t]
Var(n) == [k |-> "variable", name |-> Occurrence(n)]
Bin(l, o, r) == [k |-> "binary", left |-> l, operation |-> o, right |-> r]
Set(t, o, v) == [k |-> "assignment", target |-> t, op |-> o, value |-> v]
Apply(f, es) == [k |-> "call", callee |-> Var(f), arguments |-> es]
At1(e, i) == [k |-> "index", object |-> e, index |-> i]
Arr(es) == [k |-> "array", elements |-> es]
Update(t, o, p) == [k |-> "update", target |-> t, operation |-> o, prefix |-> p]

Do(e) == [k |-> "expression", expression |-> e]
Let(n, e) == [k |-> "var", name |-> Occurrence(n), initializer |-> <<e>>]
Show(e) == [k |-> "print", arguments |-> <<e>>]
Block(b) == [k |-> "block", body |-> b, slots |-> 0]
Fun(n, ps, b) == [k |-> "function", name |-> Occurrence(n), parameters |-> ps, body |-> b, slots |-> 0]
Return(e) == [k |-> "return", value |-> <<e>>]
For(n, e, b) == [k |-> "for", variable |-> Occurrence(n), iterable |-> e, body |-> b, slots |-> 0]
While(c, b) == [k |-> "while", condition |-> c, body |-> b]
If(c, t, e) == [k |-> "if", condition |-> c, then |-> t, else |-> e]
Jump(k) == [k |-> k]

(***************************************************************************)
(* Expressions of two levels of operators                                  *)
(***************************************************************************)
Leaves == {Var("x"), Lit("1")}

Over(X, Y) ==
  {[k |-> "unary", operation |-> o, right |-> e] : o \in {"-", "!"}, e \in X}
    \cup {[k |-> "grouping", expression |-> e] : e \in X}
    \cup {Update(e, "++", p) : e \in X, p \in BOOLEAN}
    \cup {Bin(l, o, r) : l \in X, o \in {"||", "==", "in", "-", "*"}, r \in Y}
    \cup {Set(l, "=", r) : l \in X, r \in Y}
    \cup {[k |-> "call", callee |-> e, arguments |-> <<x>>] : e \in X, x \in Y}
    \cup {At1(e, i) : e \in X, i \in Y}

Small == Leaves \cup Over(Leaves, Leaves)

ExpressionPrograms ==
  {Let("x", Lit("2"))} \X {Show(e) : e \in Over(Small, Leaves) \cup Over({Var("x")}, Small)}

(***************************************************************************)
(* Scopes                                                                  *)
(***************************************************************************)
X == Var("x")

Simple ==
  {Show(X), Let("x", X), Do(Set(X, "+=", Lit("1"))), Do(Apply("f", <<>>)), Return(X),
   Jump("break"), Jump("continue"), Fun("f", <<>>, <<Show(X)>>)}

Nested ==
  {Block(<<t, u>>) : t \in {Let("x", Lit("0")), Fun("f", <<>>, <<Do(Set(X, "=", Lit("2")))>>), Show(X)}, u \in Simple}
    \cup {Fun("f", <<>>, <<t, Show(X)>>) : t \in Simple}
    \cup {For("x", Arr(<<Lit("1"), Lit("2")>>), t) : t \in Simple}
    \cup {For("x", Arr(<<X>>), Block(<<Fun("f", <<>>, <<t>>), Do(Apply("f", <<>>))>>)) : t \in Simple}
    \cup {While(Bin(X, "<", Lit("2")), Block(<<Do(Update(X, "++", TRUE)), t>>)) : t \in Simple}
    \cup {If(X, t, <<Show(Lit("0"))>>) : t \in Simple}

Statements == Simple \cup Nested

Bodies == {Fun("f", <<>>, <<t, u>>) : t, u \in Statements}
Blocks == {Block(<<t, u, v>>) : t \in Statements, u, v \in Simple}

ScopePrograms ==
  ({Let("x", Lit("1"))} \X Bodies \X {Do(Apply("f", <<>>))} \X {Show(X)})
    \cup ({Let("x", Lit("1"))} \X {Fun("f", <<>>, <<>>)} \X Blocks \X {Show(X)})

(***************************************************************************)
(* Arrays                                                                  *)
(***************************************************************************)
A == Var("a")
B == Var("b")

ArrayStatements ==
  {Do(Set(At1(A, Lit("0")), "=", B)), Do(Set(At1(B, Lit("0")), "=", A)),
   Do(Set(At1(At1(A, Lit("0")), Lit("0")), "=", A)),
   Do(Set(A, "=", Arr(<<B, B>>))), Do(Set(B, "=", Bin(A, "+", B))), Do(Set(B, "=", Bin(A, "*", Lit("2")))),
   Do(Apply("push", <<A, Lit("1"), B>>)), Do(Apply("push", <<B, A>>)),
   Do(Set(At1(A, Lit("1")), "=", Apply("pop", <<A>>))), Do(Set(B, "=", Apply("pop", <<A>>))),
   Do(Apply("removeAt", <<B, Lit("0")>>)),
   For("x", A, Do(Apply("push", <<A, X>>))),
   Do(Set(Var("m"), "=", [k |-> "map", elements |-> <<<<Lit("1"), A>>>>])),
   Do(Set(At1(Var("m"), Lit("2")), "=", B)),
   Do(Set(At1(A, Lit("0")), "=", At1(Var("m"), Lit("1")))),
   Show(Bin(A, "==", B))}

ArrayPrograms ==
  {Let("a", Arr(<<Lit("1"), Lit("2")>>))} \X {Let("b", Arr(<<Lit("0")>>))} \X {Let("m", Lit("0"))}
    \X ArrayStatements \X ArrayStatements \X ArrayStatements

(***************************************************************************)
(* Strings, chars and maps                                                 *)
(***************************************************************************)
C == Var("c")
S == Var("s")
M == Var("m")

ValueStatements ==
  {Do(Set(At1(S, Lit("1")), "=", C)), Do(Set(At1(S, Lit("0")), "=", Lit("1"))),
   Do(Set(At1(S, Lit("0")), "+=", Lit("1"))), Do(Update(At1(S, Lit("1")), "++", FALSE)),
   Do(Set(C, "-=", Lit("2"))), Do(Set(C, "=", At1(S, Lit("0")))), Do(Update(C, "--", TRUE)),
   Do(Set(S, "*=", Lit("2"))), Do(Set(S, "=", Apply("String", <<M>>))),
   Do(Set(S, "=", Apply("CATS", <<Apply("Array", <<S>>)>>))), Do(Set(S, "=", Bin(S, "+", C))),
   Do(Set(At1(M, S), "=", Arr(<<C>>))), Do(Set(At1(At1(M, Lit("1")), Lit("0")), "/=", Lit("2"))),
   Show(Apply("removeKey", <<M, S>>)), Show(Bin(C, "in", S)), Show(Apply("Int", <<Lit("\"-7\"")>>)),
   Show(Bin(Apply("Char", <<S>>), "==", C)), Show(Bin(S, "in", M)),
   For("x", S, Block(<<If(Bin(X, "==", C), Jump("continue"), <<Jump("break")>>), Show(X)>>))}

ValuePrograms ==
  {Let("s", Lit("\"ab\""))} \X {Let("c", Lit("'b'"))}
    \X {Let("m", [k |-> "map", elements |-> <<<<Lit("1"), Arr(<<Lit("2")>>)>>, <<Lit("\"ab\""), Lit("0")>>>>])}
    \X ValueStatements \X ValueStatements \X ValueStatements

(***************************************************************************)
(* Recursion, through calls and through the default factory of a map       *)
(***************************************************************************)
RecursivePrograms ==
  {<<Fun("f", <<>>, <<t>>), Let("m", Apply("Map", es)), u>> :
     t \in {Return(Apply("f", <<>>)), Return(At1(Var("m"), Lit("1"))),
            For("x", Lit("\"ab\""), Do(Apply("f", <<>>)))},
     es \in {<<>>, <<Var("f")>>},
     u \in {Do(Apply("f", <<>>)), Show(At1(Var("m"), Lit("1"))), Do(Apply("f", <<Apply("f", <<>>)>>))}}

AllPrograms ==
  ExpressionPrograms \cup ScopePrograms \cup ArrayPrograms \cup ValuePrograms \cup RecursivePrograms
=============================================================================
