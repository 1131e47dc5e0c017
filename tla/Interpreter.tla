---------------------------- MODULE Interpreter -----------------------------
(***************************************************************************)
(* interpreter.cpp, environment.cpp, value.cpp, callable.cpp and           *)
(* collection_builtins.cpp: the tree walk.  `s` is everything a walk       *)
(* changes, with the value of the last expression and the first error; an  *)
(* error stops the program, so what is changed after it does not count.    *)
(*                                                                         *)
(* A string is a sequence of bytes, a char a byte.  There are no doubles,  *)
(* and integers stay far from their 64 bits.  An environment is never used *)
(* again: EnvironmentPool shows that reuse cannot be seen.                 *)
(***************************************************************************)
EXTENDS Resolver, FiniteSets, TLC

Seqs == INSTANCE SequencesExt

CONSTANTS
  Decode,        \* the value of each literal token
  MaxCallDepth,  \* ChompoConfig::MaxCallDepth, 512 in the code
  MaxNesting     \* bound on calls inside calls: the C++ stack

ASSUME InterpreterAssumption ==
  /\ DOMAIN Decode = Literals
  /\ MaxCallDepth \in Nat /\ MaxNesting \in Nat

(***************************************************************************)
(* Values                                                                  *)
(***************************************************************************)
Value(type, data) == [t |-> type, v |-> data]
Null == Value("null", 0)
Undefined == Value("undefined", 0)
Integer(n) == Value("int", n)
Truth(b) == Value("bool", IF b THEN 1 ELSE 0)

IsInteger(x) == x.t \in {"int", "bool", "char"}

\* char is signed where the program is built.
AsInteger(x) == IF x.t = "char" /\ x.v > 127 THEN x.v - 256 ELSE x.v

IsTruthy(x, s) ==
  CASE IsInteger(x) -> x.v # 0
    [] x.t = "null" -> FALSE
    [] x.t = "string" -> x.v # <<>>
    [] x.t = "array" -> s.arrays[x.v] # <<>>
    [] x.t = "map" -> s.maps[x.v].table # <<>>
    [] x.t = "callable" -> TRUE

\* ValueEqual: keys of a map.
SameKey(x, y) == x.t = y.t /\ x.v = y.v

\* values_equal: arrays by their elements.
RECURSIVE ValuesEqual(_, _, _)
ValuesEqual(x, y, s) ==
  LET a == s.arrays[x.v]
      b == s.arrays[y.v]
  IN CASE IsInteger(x) /\ IsInteger(y) -> AsInteger(x) = AsInteger(y)
       [] x.t = "array" /\ y.t = "array" ->
            x.v = y.v \/ (Len(a) = Len(b) /\ \A i \in DOMAIN a : ValuesEqual(a[i], b[i], s))
       [] OTHER -> SameKey(x, y)

RECURSIVE Digits(_), ToText(_, _), Joined(_, _)
Digits(n) ==
  IF n < 0 THEN <<45>> \o Digits(-n)
  ELSE IF n < 10 THEN <<48 + n>> ELSE Digits(n \div 10) \o <<48 + (n % 10)>>

\* to_string, but for the letters of words and names.  What is in a map comes
\* in the order of the hash table; here it is the order of insertion.
Joined(texts, separator) ==
  IF Len(texts) < 2 THEN (IF texts = <<>> THEN <<>> ELSE texts[1])
  ELSE texts[1] \o separator \o Joined(Tail(texts), separator)

ToText(x, s) ==
  CASE x.t = "int" -> Digits(x.v)
    [] x.t = "bool" -> <<IF x.v = 1 THEN 116 ELSE 102>>
    [] x.t = "null" -> <<78>>
    [] x.t = "string" -> x.v
    [] x.t = "char" -> <<x.v>>
    [] x.t = "callable" -> <<60, 62>>
    [] x.t = "array" ->
         LET a == s.arrays[x.v]
         IN <<123>> \o Joined([i \in DOMAIN a |-> ToText(a[i], s)], <<44, 32>>) \o <<125>>
    [] x.t = "map" ->
         LET m == s.maps[x.v].table
         IN <<77, 123>> \o Joined([i \in DOMAIN m |-> ToText(m[i][1], s) \o <<58>> \o ToText(m[i][2], s)],
                                  <<44, 32>>) \o <<125>>

\* contains_array: what an array leads to through arrays only.
RECURSIVE ContainsArray(_, _, _)
ContainsArray(x, a, s) ==
  /\ x.t = "array"
  /\ x.v = a \/ \E i \in DOMAIN s.arrays[x.v] : ContainsArray(s.arrays[x.v][i], a, s)

(***************************************************************************)
(* The state of a walk                                                     *)
(***************************************************************************)
Returns(s, value) == [s EXCEPT !.value = value]
Throw(s, error) == IF s.error = "" THEN [s EXCEPT !.error = error] ELSE s
Failed(s) == s.error # ""

NewArray(s, elements) ==
  Returns([s EXCEPT !.arrays = Append(@, elements)], Value("array", Len(s.arrays) + 1))

NewMap(s, table, factory) ==
  Returns([s EXCEPT !.maps = Append(@, [table |-> table, factory |-> factory])],
          Value("map", Len(s.maps) + 1))

\* insert_or_assign
Put(table, key, value) ==
  IF \E i \in DOMAIN table : SameKey(table[i][1], key)
  THEN [i \in DOMAIN table |-> IF SameKey(table[i][1], key) THEN <<table[i][1], value>> ELSE table[i]]
  ELSE Append(table, <<key, value>>)

Found(table, key) == {i \in DOMAIN table : SameKey(table[i][1], key)}
At(table, key) == table[CHOOSE i \in Found(table, key) : TRUE][2]

\* checked_index, and require_index of the array functions.
ValidIndex(x, length) == IsInteger(x) /\ AsInteger(x) \in 0..(length - 1)

(***************************************************************************)
(* Environments                                                            *)
(***************************************************************************)
Globals == 1

\* A new environment becomes the current one.
Enter(s, parent, slots) ==
  [s EXCEPT !.heap = Append(@, [parent |-> parent, slots |-> [i \in 0..(slots - 1) |-> Undefined],
                                dynamic |-> <<>>]),
            !.environment = Len(s.heap) + 1]

RECURSIVE Ancestor(_, _, _)
Ancestor(e, depth, s) ==
  IF depth = 0 \/ e = 0 THEN e ELSE Ancestor(s.heap[e].parent, depth - 1, s)

RECURSIVE Holder(_, _, _)
Holder(e, symbol, s) ==
  IF e = 0 \/ symbol \in DOMAIN s.heap[e].dynamic THEN e ELSE Holder(s.heap[e].parent, symbol, s)

\* get_ref: where the value of an occurrence is; env 0 if it is undefined.
Reference(name, s) ==
  LET address == name.address
      local == Ancestor(s.environment, address.depth, s)
      defined == /\ local # 0 /\ address.slot \in DOMAIN s.heap[local].slots
                 /\ s.heap[local].slots[address.slot].t # "undefined"
      holder == IF address.binding = "unresolved" THEN Holder(s.environment, name.symbol, s)
                ELSE Holder(Globals, name.symbol, s)
  IN IF address.binding = "local"
     THEN [local |-> TRUE, env |-> IF defined THEN local ELSE 0, key |-> address.slot]
     ELSE [local |-> FALSE, env |-> holder, key |-> name.symbol]

Fetched(r, s) ==
  IF r.env = 0 THEN Throw(s, "undefined variable")
  ELSE Returns(s, IF r.local THEN s.heap[r.env].slots[r.key] ELSE s.heap[r.env].dynamic[r.key])

Get(name, s) == Fetched(Reference(name, s), s)

Store(r, value, s) ==
  IF r.local THEN [s EXCEPT !.heap[r.env].slots = (r.key :> value) @@ @]
  ELSE [s EXCEPT !.heap[r.env].dynamic = (r.key :> value) @@ @]

\* define
Define(name, value, s) ==
  LET address == name.address
      e == IF address.binding = "global" THEN Globals ELSE s.environment
      local == address.binding = "local"
      declared == IF local
                  THEN /\ address.slot \in DOMAIN s.heap[e].slots
                       /\ s.heap[e].slots[address.slot].t # "undefined"
                  ELSE name.symbol \in DOMAIN s.heap[e].dynamic
      r == [local |-> local, env |-> e, key |-> IF local THEN address.slot ELSE name.symbol]
  IN IF declared THEN Throw(s, "already declared") ELSE Store(r, value, s)

Numbers(sequence) == [i \in DOMAIN sequence |-> i]

DefineAll(names, values, s) == Seqs!FoldLeft(LAMBDA t, i : Define(names[i], values[i], t), s, Numbers(names))

(***************************************************************************)
(* Operators                                                               *)
(***************************************************************************)
BaseOperator(operation) ==
  CASE operation \in {"+=", "++"} -> "+"
    [] operation \in {"-=", "--"} -> "-"
    [] operation = "*=" -> "*"
    [] operation = "/=" -> "/"
    [] OTHER -> operation

Abs(n) == IF n < 0 THEN -n ELSE n
Sign(n) == IF n < 0 THEN -1 ELSE 1
Quotient(a, b) == Sign(a) * Sign(b) * (Abs(a) \div Abs(b))

Arithmetic(type, a, b, s) ==
  IF type \in {"/", "%"} /\ b = 0 THEN Throw(s, "division by zero")
  ELSE Returns(s, CASE type = "+" -> Integer(a + b)
                    [] type = "-" -> Integer(a - b)
                    [] type = "*" -> Integer(a * b)
                    [] type = "/" -> Integer(Quotient(a, b))
                    [] type = "%" -> Integer(a - b * Quotient(a, b))
                    [] type = "<" -> Truth(a < b)
                    [] type = "<=" -> Truth(a <= b)
                    [] type = ">" -> Truth(a > b)
                    [] type = ">=" -> Truth(a >= b))

Occurs(needle, text) ==
  \E i \in 0..(Len(text) - Len(needle)) : SubSeq(text, i + 1, i + Len(needle)) = needle

Membership(x, container, s) ==
  CASE container.t = "array" ->
         LET a == s.arrays[container.v]
         IN Returns(s, Truth(\E i \in DOMAIN a : ValuesEqual(x, a[i], s)))
    [] container.t = "string" /\ x.t \in {"char", "string"} ->
         Returns(s, Truth(Occurs(IF x.t = "char" THEN <<x.v>> ELSE x.v, container.v)))
    [] container.t = "map" -> Returns(s, Truth(Found(s.maps[container.v].table, x) # {}))
    [] OTHER -> Throw(s, "membership")

Repeated(sequence, count) ==
  [i \in 1..(Len(sequence) * count) |-> sequence[((i - 1) % Len(sequence)) + 1]]

Repeat(x, count, s) ==
  IF count < 0 THEN Throw(s, "negative count")
  ELSE IF x.t = "string" THEN Returns(s, Value("string", Repeated(x.v, count)))
  ELSE NewArray(s, Repeated(s.arrays[x.v], count))

ApplyBinary(operation, x, y, s) ==
  LET type == BaseOperator(operation)
      Sequence(z) == z.t \in {"string", "array"}
  IN CASE operation = "in" -> Membership(x, y, s)
       [] type = "==" -> Returns(s, Truth(ValuesEqual(x, y, s)))
       [] type = "!=" -> Returns(s, Truth(~ValuesEqual(x, y, s)))
       [] IsInteger(x) /\ IsInteger(y) -> Arithmetic(type, AsInteger(x), AsInteger(y), s)
       [] type = "+" /\ "string" \in {x.t, y.t} ->
            IF {x.t, y.t} \cap {"map", "callable"} # {} THEN Throw(s, "type")
            ELSE Returns(s, Value("string", ToText(x, s) \o ToText(y, s)))
       [] type = "+" /\ x.t = "array" /\ y.t = "array" -> NewArray(s, s.arrays[x.v] \o s.arrays[y.v])
       [] type = "*" /\ Sequence(x) /\ IsInteger(y) -> Repeat(x, AsInteger(y), s)
       [] type = "*" /\ Sequence(y) /\ IsInteger(x) -> Repeat(y, AsInteger(x), s)
       [] OTHER -> Throw(s, "type")

\* normalize_char_assignment: a char stays a char.
CharAgain(previous, s) ==
  IF Failed(s) \/ previous.t # "char" THEN s
  ELSE IF ~IsInteger(s.value) THEN Throw(s, "type")
  ELSE IF AsInteger(s.value) \notin 0..255 THEN Throw(s, "char range")
  ELSE Returns(s, Value("char", AsInteger(s.value)))

\* ++ and -- on a value.
Updated(operation, x, s) ==
  LET delta == IF operation = "++" THEN 1 ELSE -1
  IN CASE x.t = "char" -> IF x.v + delta \in 0..255 THEN Returns(s, Value("char", x.v + delta))
                          ELSE Throw(s, "char range")
       [] x.t \in {"int", "bool"} -> Returns(s, Integer(x.v + delta))
       [] OTHER -> Throw(s, "type")

(***************************************************************************)
(* Built-in functions                                                      *)
(***************************************************************************)
Unlimited == 255

\* The least and the greatest number of arguments.
Arity(native) ==
  CASE native = "push" -> <<2, Unlimited>>
    [] native \in {"removeAt", "removeKey"} -> <<2, 2>>
    [] native = "Map" -> <<0, 1>>
    [] OTHER -> <<1, 1>>

Natives ==
  <<"Int", "Bool", "String", "Char", "Array", "Map", "CATS", "len", "push", "pop", "removeAt", "removeKey">>

IsNumeral(text) ==
  LET digits == IF text # <<>> /\ text[1] = 45 THEN Tail(text) ELSE text
  IN digits # <<>> /\ \A i \in DOMAIN digits : digits[i] \in 48..57

RECURSIVE Numeral(_)
Numeral(text) ==
  IF text = <<>> THEN 0
  ELSE IF text[1] = 45 THEN -Numeral(Tail(text))
  ELSE 10 * Numeral(SubSeq(text, 1, Len(text) - 1)) + text[Len(text)] - 48

ToInt(x, s) ==
  CASE IsInteger(x) -> Returns(s, Integer(AsInteger(x)))
    [] x.t = "string" /\ IsNumeral(x.v) -> Returns(s, Integer(Numeral(x.v)))
    [] x.t = "null" -> Returns(s, Integer(0))
    [] OTHER -> Throw(s, "conversion")

ToChar(x, s) ==
  CASE x.t = "char" -> Returns(s, x)
    [] x.t = "string" /\ Len(x.v) = 1 -> Returns(s, Value("char", x.v[1]))
    [] x.t = "int" /\ x.v \in 0..255 -> Returns(s, Value("char", x.v))
    [] OTHER -> Throw(s, "conversion")

Chars(text) == [i \in DOMAIN text |-> Value("char", text[i])]

ToArray(x, s) ==
  CASE x.t = "array" -> Returns(s, x)
    [] x.t = "string" -> NewArray(s, Chars(x.v))
    [] OTHER -> NewArray(s, <<x>>)

CharArrayToString(x, s) ==
  LET a == s.arrays[x.v]
  IN IF x.t # "array" \/ (\E i \in DOMAIN a : a[i].t # "char") THEN Throw(s, "conversion")
     ELSE Returns(s, Value("string", [i \in DOMAIN a |-> a[i].v]))

Length(x, s) ==
  CASE x.t = "string" -> Returns(s, Integer(Len(x.v)))
    [] x.t = "array" -> Returns(s, Integer(Len(s.arrays[x.v])))
    [] x.t = "map" -> Returns(s, Integer(Len(s.maps[x.v].table)))
    [] OTHER -> Throw(s, "type")

Push(x, added, s) ==
  LET t == [s EXCEPT !.arrays[x.v] = @ \o added]
  IN IF x.t # "array" THEN Throw(s, "type")
     ELSE IF \E i \in DOMAIN added : ContainsArray(added[i], x.v, s) THEN Throw(s, "cycle")
     ELSE Returns(t, Integer(Len(t.arrays[x.v])))

Pop(x, s) ==
  LET a == s.arrays[x.v]
  IN CASE x.t # "array" -> Throw(s, "type")
       [] a = <<>> -> Returns(s, Null)
       [] OTHER -> Returns([s EXCEPT !.arrays[x.v] = SubSeq(a, 1, Len(a) - 1)], a[Len(a)])

RemoveAt(x, i, s) ==
  LET a == s.arrays[x.v]
      n == AsInteger(i)
  IN CASE x.t # "array" -> Throw(s, "type")
       [] ~ValidIndex(i, Len(a)) -> Throw(s, "index")
       [] OTHER -> Returns([s EXCEPT !.arrays[x.v] = SubSeq(a, 1, n) \o SubSeq(a, n + 2, Len(a))], a[n + 1])

RemoveKey(x, key, s) ==
  LET table == s.maps[x.v].table
      i == CHOOSE j \in Found(table, key) : TRUE
  IN CASE x.t # "map" -> Throw(s, "type")
       [] Found(table, key) = {} -> Returns(s, Null)
       [] OTHER -> Returns([s EXCEPT !.maps[x.v].table = SubSeq(table, 1, i - 1) \o SubSeq(table, i + 1, Len(table))],
                           table[i][2])

CallNative(native, a, s) ==
  CASE native = "Int" -> ToInt(a[1], s)
    [] native = "Bool" -> Returns(s, Truth(IsTruthy(a[1], s)))
    [] native = "String" -> IF a[1].t = "callable" THEN Throw(s, "conversion")
                            ELSE Returns(s, Value("string", ToText(a[1], s)))
    [] native = "Char" -> ToChar(a[1], s)
    [] native = "Array" -> ToArray(a[1], s)
    [] native = "Map" -> IF a = <<>> THEN NewMap(s, <<>>, Null)
                         ELSE IF a[1].t # "callable" THEN Throw(s, "type") ELSE NewMap(s, <<>>, a[1])
    [] native = "CATS" -> CharArrayToString(a[1], s)
    [] native = "len" -> Length(a[1], s)
    [] native = "push" -> Push(a[1], Tail(a), s)
    [] native = "pop" -> Pop(a[1], s)
    [] native = "removeAt" -> RemoveAt(a[1], a[2], s)
    [] native = "removeKey" -> RemoveKey(a[1], a[2], s)

(***************************************************************************)
(* Calls                                                                   *)
(***************************************************************************)
\* evaluate of an expression or execute of a statement: the walk of a node.
RECURSIVE Walk(_, _)

Collected(before, s) == [s EXCEPT !.values = Append(before, s.value)]

\* The arguments of a call, the elements of an array: `values` in the end.
EvaluateAll(expressions, s) ==
  Seqs!FoldLeft(LAMBDA t, e : Collected(t.values, Walk(e, t)), [s EXCEPT !.values = <<>>], expressions)

ExecuteAll(statements, s) == Seqs!FoldLeft(LAMBDA t, e : Walk(e, t), s, statements)

AcceptsArity(f, count) ==
  IF f.native # "" THEN count \in Arity(f.native)[1]..Arity(f.native)[2]
  ELSE count = Len(f.declaration.parameters)

\* UserFunction::call and execute_function_body.
CallUser(f, arguments, s) ==
  LET frame == DefineAll(f.declaration.parameters, arguments, Enter(s, f.closure, f.declaration.slots))
      body == ExecuteAll(f.declaration.body,
                [frame EXCEPT !.flow = "none", !.returned = Null, !.nesting = @ + 1,
                              !.deepest = IF s.nesting + 1 > @ THEN s.nesting + 1 ELSE @])
      result == IF body.flow \in {"break", "continue"} THEN Throw(body, "logic") ELSE body
  IN IF s.nesting = MaxNesting THEN Throw(s, "crash")
     ELSE [result EXCEPT !.value = IF body.flow = "return" THEN body.returned ELSE Null,
                         !.environment = s.environment, !.flow = s.flow,
                         !.returned = s.returned, !.nesting = s.nesting]

CallFunction(callable, arguments, s) ==
  LET f == s.functions[callable.v]
  IN CASE Failed(s) -> s
       [] ~AcceptsArity(f, Len(arguments)) -> Throw(s, "arity")
       [] f.native # "" -> CallNative(f.native, arguments, s)
       [] OTHER -> CallUser(f, arguments, s)

\* mutant: the guard counts a call only when its body starts.
EvaluateCall_Late(e, s) ==
  LET callee == Walk(e.callee, s)
      arguments == EvaluateAll(e.arguments, callee)
      result == CallFunction(callee.value, arguments.values, [arguments EXCEPT !.depth = @ + 1])
  IN CASE Failed(callee) -> callee
       [] callee.value.t # "callable" -> Throw(callee, "not callable")
       [] callee.depth > MaxCallDepth -> Throw(callee, "StackOverflow")
       [] OTHER -> [result EXCEPT !.depth = callee.depth]

EvaluateCall(e, s) ==
  LET callee == Walk(e.callee, s)
      arguments == EvaluateAll(e.arguments, [callee EXCEPT !.depth = @ + 1])
      result == CallFunction(callee.value, arguments.values, arguments)
  IN CASE Failed(callee) -> callee
       [] callee.value.t # "callable" -> Throw(callee, "not callable")
       [] callee.depth >= MaxCallDepth -> Throw(callee, "StackOverflow")
       [] OTHER -> [result EXCEPT !.depth = callee.depth]

\* The factory may have made the key itself.
Made(m, key, made) ==
  LET table == made.maps[m].table
  IN CASE Failed(made) -> made
       [] Found(table, key) # {} -> Returns(made, At(table, key))
       [] OTHER -> [made EXCEPT !.maps[m].table = Append(@, <<key, made.value>>)]

\* map_lookup: a key that is missing is made by the default factory.
MapLookup(m, key, s) ==
  LET map == s.maps[m]
  IN CASE Found(map.table, key) # {} -> Returns(s, At(map.table, key))
       [] map.factory.t # "callable" -> Throw(s, "no such key")
       [] OTHER -> Made(m, key, CallFunction(map.factory, <<>>, s))

(***************************************************************************)
(* Targets of assignments                                                  *)
(***************************************************************************)
\* resolve_target: what is to be written, and its value now.
RECURSIVE Target(_, _), WriteTarget(_, _, _)

Target(e, s) ==
  LET object == Target(e.object, s)
      at == Walk(e.index, object)
      x == object.value
      n == AsInteger(at.value)
      Resolved(target, value) == [at EXCEPT !.target = target, !.value = value]
      table == at.maps[x.v].table
  IN IF e.k = "variable" THEN [Get(e.name, s) EXCEPT !.target = [k |-> "variable", name |-> e.name]]
     ELSE CASE Failed(at) -> at
            [] x.t = "array" ->
                 IF ~ValidIndex(at.value, Len(at.arrays[x.v])) THEN Throw(at, "index")
                 ELSE Resolved([k |-> "element", array |-> x.v, position |-> n], at.arrays[x.v][n + 1])
            [] x.t = "string" ->
                 IF ~ValidIndex(at.value, Len(x.v)) THEN Throw(at, "index")
                 ELSE Resolved([k |-> "byte", string |-> x.v, position |-> n, parent |-> object.target],
                               Value("char", x.v[n + 1]))
            [] x.t = "map" ->
                 Resolved([k |-> "entry", map |-> x.v, key |-> at.value],
                          IF Found(table, at.value) = {} THEN Null ELSE At(table, at.value))
            [] OTHER -> Throw(at, "type")

\* The index of an element was checked when the target was resolved; writing
\* where the array has become shorter is undefined behaviour.
\* mutant: an element is stored without looking for a cycle.
WriteElement_Unchecked(target, value, s) ==
  IF target.position >= Len(s.arrays[target.array]) THEN Throw(s, "undefined behaviour")
  ELSE [s EXCEPT !.arrays[target.array][target.position + 1] = value]

WriteElement(target, value, s) ==
  IF ContainsArray(value, target.array, s) THEN Throw(s, "cycle")
  ELSE IF target.position >= Len(s.arrays[target.array]) THEN Throw(s, "undefined behaviour")
  ELSE [s EXCEPT !.arrays[target.array][target.position + 1] = value]

StoreAt(r, value, s) == IF r.env = 0 THEN Throw(s, "undefined variable") ELSE Store(r, value, s)

WriteTarget(target, value, s) ==
  CASE Failed(s) -> s
    [] target.k = "variable" -> StoreAt(Reference(target.name, s), value, s)
    [] target.k = "element" -> WriteElement(target, value, s)
    [] target.k = "byte" ->
         IF value.t # "char" THEN Throw(s, "type")
         ELSE WriteTarget(target.parent,
                          Value("string", [target.string EXCEPT ![target.position + 1] = value.v]), s)
    [] target.k = "entry" -> [s EXCEPT !.maps[target.map].table = Put(@, target.key, value)]

\* What an assignment stores, given the value before and the one on the right.
Combined(operation, previous, s) ==
  IF Failed(s) \/ operation = "=" THEN s
  ELSE CharAgain(previous, ApplyBinary(operation, previous, s.value, s))

Written(e, target, result) ==
  LET place == Reference(e.target.name, target)
  IN CASE Failed(result) -> result
       [] e.target.k = "variable" -> Returns(Store(place, result.value, result), result.value)
       [] OTHER -> Returns(WriteTarget(target.target, result.value, result), result.value)

\* A variable is looked up before the right side is evaluated, and its old
\* value is read before, too.
Assign(e, target) ==
  IF Failed(target) THEN target
  ELSE Written(e, target, Combined(e.op, target.value, Walk(e.value, target)))

EvaluateAssignment(e, s) == Assign(e, Target(e.target, s))

Rewritten(e, target, result) ==
  IF Failed(result) THEN result
  ELSE Returns(WriteTarget(target.target, result.value, result),
               IF e.prefix THEN result.value ELSE target.value)

UpdateTarget(e, target) ==
  IF Failed(target) THEN target
  ELSE Rewritten(e, target, Updated(e.operation, target.value, target))

EvaluateUpdate(e, s) == UpdateTarget(e, Target(e.target, s))

(***************************************************************************)
(* Expressions                                                             *)
(***************************************************************************)
\* && and || evaluate the right side only if it decides.
EvaluateBinary(e, s) ==
  LET left == Walk(e.left, s)
      right == Walk(e.right, left)
      decided == IsTruthy(left.value, left) = (e.operation = "||")
  IN CASE Failed(left) -> left
       [] e.operation \in {"&&", "||"} ->
            IF decided THEN Returns(left, Truth(e.operation = "||"))
            ELSE IF Failed(right) THEN right ELSE Returns(right, Truth(IsTruthy(right.value, right)))
       [] Failed(right) -> right
       [] OTHER -> ApplyBinary(e.operation, left.value, right.value, right)

EvaluateUnary(e, s) ==
  LET right == Walk(e.right, s)
      x == right.value
  IN CASE Failed(right) -> right
       [] e.operation = "!" -> Returns(right, Truth(~IsTruthy(x, right)))
       [] OTHER -> IF IsInteger(x) THEN Returns(right, Integer(-AsInteger(x))) ELSE Throw(right, "type")

EvaluateIndex(e, s) ==
  LET object == Walk(e.object, s)
      index == Walk(e.index, object)
      x == object.value
      n == AsInteger(index.value) + 1
      Checked(length) == ValidIndex(index.value, length)
  IN CASE Failed(index) -> index
       [] x.t = "array" -> IF Checked(Len(index.arrays[x.v])) THEN Returns(index, index.arrays[x.v][n])
                           ELSE Throw(index, "index")
       [] x.t = "string" -> IF Checked(Len(x.v)) THEN Returns(index, Value("char", x.v[n]))
                            ELSE Throw(index, "index")
       [] x.t = "map" -> MapLookup(x.v, index.value, index)
       [] OTHER -> Throw(index, "type")

\* Keys and values are evaluated in the order they are written.
MapOf(values) ==
  Seqs!FoldLeft(LAMBDA table, i : IF i % 2 = 0 THEN Put(table, values[i - 1], values[i]) ELSE table,
           <<>>, Numbers(values))

EvaluateMap(e, s) ==
  LET elements == EvaluateAll(Seqs!FlattenSeq(e.elements), s)
  IN IF Failed(elements) THEN elements ELSE NewMap(elements, MapOf(elements.values), Null)

EvaluateLiteral(e, s) == Returns(s, Decode[e.value])

EvaluateArray(e, s) ==
  LET elements == EvaluateAll(e.elements, s)
  IN IF Failed(elements) THEN elements ELSE NewArray(elements, elements.values)

(***************************************************************************)
(* Statements                                                              *)
(***************************************************************************)
\* mutant: an error leaves the environment of the block in place.
InEnvironment_NoRestore(s, inner) ==
  IF Failed(inner) THEN inner ELSE [inner EXCEPT !.environment = s.environment]

\* execute_block and execute_in_environment: back to the environment before.
InEnvironment(s, inner) == [inner EXCEPT !.environment = s.environment]

ExecuteVar(e, s) ==
  LET value == IF e.initializer = <<>> THEN Returns(s, Null) ELSE Walk(e.initializer[1], s)
  IN IF Failed(value) THEN value ELSE Define(e.name, value.value, value)

\* What was printed before an error stays printed.
Printed(s) == IF Failed(s) THEN s ELSE [s EXCEPT !.out = @ \o ToText(s.value, s)]

ExecutePrint(e, s) == Seqs!FoldLeft(LAMBDA t, argument : Printed(Walk(argument, t)), s, e.arguments)

ExecuteBlock(e, s) ==
  IF e.slots = 0 THEN ExecuteAll(e.body, s)
  ELSE InEnvironment(s, ExecuteAll(e.body, Enter(s, s.environment, e.slots)))

ExecuteIf(e, s) ==
  LET condition == Walk(e.condition, s)
  IN CASE Failed(condition) -> condition
       [] IsTruthy(condition.value, condition) -> Walk(e.then, condition)
       [] e.else # <<>> -> Walk(e.else[1], condition)
       [] OTHER -> condition

\* A loop goes on after continue, ends after break, and leaves a return to
\* the function.
Ended(s) == Failed(s) \/ s.flow # "none"
Resumed(s) == IF s.flow = "continue" THEN [s EXCEPT !.flow = "none"] ELSE s
LoopLeft(s) == IF s.flow = "break" THEN [s EXCEPT !.flow = "none"] ELSE s

\* Going on is walking the same loop again.
ExecuteWhile(e, s) ==
  LET condition == Walk(e.condition, s)
      body == Resumed(Walk(e.body, condition))
  IN IF Failed(condition) \/ ~IsTruthy(condition.value, condition) THEN condition
     ELSE IF Ended(body) THEN LoopLeft(body) ELSE Walk(e, body)

Iteration(e, x, s) ==
  IF Ended(s) THEN s
  ELSE Resumed(InEnvironment(s, Walk(e.body, Define(e.variable, x, Enter(s, s.environment, e.slots)))))

ForEach(e, elements, s) == LoopLeft(Seqs!FoldLeft(LAMBDA t, x : Iteration(e, x, t), s, elements))

\* The elements are those there are when the loop starts.
ExecuteForIn(e, s) ==
  LET iterable == Walk(e.iterable, s)
      x == iterable.value
  IN CASE Failed(iterable) -> iterable
       [] x.t = "array" -> ForEach(e, iterable.arrays[x.v], iterable)
       [] x.t = "string" -> ForEach(e, Chars(x.v), iterable)
       [] OTHER -> Throw(iterable, "type")

ExecuteFunction(e, s) ==
  Define(e.name, Value("callable", Len(s.functions) + 1),
         [s EXCEPT !.functions = Append(@, [native |-> "", declaration |-> e, closure |-> s.environment])])

ExecuteReturn(e, s) ==
  LET value == IF e.value = <<>> THEN Returns(s, Null) ELSE Walk(e.value[1], s)
  IN IF Failed(value) THEN value ELSE [value EXCEPT !.returned = value.value, !.flow = "return"]

Walk(e, s) ==
  CASE Ended(s) -> s
    [] e.k = "literal" -> EvaluateLiteral(e, s)
    [] e.k = "variable" -> Get(e.name, s)
    [] e.k = "grouping" -> Walk(e.expression, s)
    [] e.k = "assignment" -> EvaluateAssignment(e, s)
    [] e.k = "array" -> EvaluateArray(e, s)
    [] e.k = "map" -> EvaluateMap(e, s)
    [] e.k = "unary" -> EvaluateUnary(e, s)
    [] e.k = "binary" -> EvaluateBinary(e, s)
    [] e.k = "call" -> EvaluateCall(e, s)
    [] e.k = "index" -> EvaluateIndex(e, s)
    [] e.k = "update" -> EvaluateUpdate(e, s)
    [] e.k = "empty" -> s
    [] e.k = "expression" -> Walk(e.expression, s)
    [] e.k = "var" -> ExecuteVar(e, s)
    [] e.k = "print" -> ExecutePrint(e, s)
    [] e.k = "block" -> ExecuteBlock(e, s)
    [] e.k = "if" -> ExecuteIf(e, s)
    [] e.k = "while" -> ExecuteWhile(e, s)
    [] e.k \in {"break", "continue"} -> [s EXCEPT !.flow = e.k]
    [] e.k = "function" -> ExecuteFunction(e, s)
    [] e.k = "return" -> ExecuteReturn(e, s)
    [] e.k = "for" -> ExecuteForIn(e, s)

\* The constructor and the install functions.
NewInterpreter ==
  [heap |-> <<[parent |-> 0, slots |-> <<>>,
               dynamic |-> [name \in {Natives[i] : i \in DOMAIN Natives} |->
                              Value("callable", CHOOSE i \in DOMAIN Natives : Natives[i] = name)]]>>,
   environment |-> Globals, depth |-> 0, nesting |-> 0, deepest |-> 0,
   flow |-> "none", returned |-> Null, value |-> Null, values |-> <<>>, target |-> <<>>,
   arrays |-> <<>>, maps |-> <<>>,
   functions |-> [i \in DOMAIN Natives |-> [native |-> Natives[i], declaration |-> <<>>, closure |-> 0]],
   out |-> <<>>, error |-> ""]
=============================================================================
