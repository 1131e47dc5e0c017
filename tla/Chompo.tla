------------------------------- MODULE Chompo -------------------------------
(***************************************************************************)
(* main.cpp: a program is parsed, resolved and interpreted, one statement  *)
(* of the top level after the other; the first error ends it.  `written`   *)
(* is the tree its author had in mind.                                     *)
(***************************************************************************)
EXTENDS Interpreter

CONSTANT Programs   \* the programs to run, as trees

VARIABLES
  written,  \* the tree the source was written from
  phase,    \* how far main has come
  program,  \* the tree the parser returned, then the resolver changed
  next,     \* the next statement of interpret()
  s         \* the interpreter

vars == <<written, phase, program, next, s>>

G == INSTANCE Grammar

Init ==
  /\ written \in Programs
  /\ phase = "scanned" /\ program = <<>> /\ next = 1
  /\ s = NewInterpreter

ParseSource ==
  /\ phase = "scanned"
  /\ \E p \in {Parse(G!WroteAll(written))} :
       \/ p.failed /\ phase' = "rejected" /\ UNCHANGED program
       \/ ~p.failed /\ phase' = "parsed" /\ program' = p.node
  /\ UNCHANGED <<written, next, s>>

ResolveProgram ==
  /\ phase = "parsed"
  /\ program' = Resolve(program) /\ phase' = "running"
  /\ UNCHANGED <<written, next, s>>

ExecuteNext ==
  /\ phase = "running" /\ next <= Len(program)
  /\ s' = Walk(program[next], s)
  /\ next' = next + 1
  /\ phase' = IF Failed(s') THEN "failed" ELSE "running"
  /\ UNCHANGED <<written, program>>

\* interpret() checks that no break, continue or return is left over.
Finish ==
  /\ phase = "running" /\ next = Len(program) + 1
  /\ phase' = IF s.flow = "none" THEN "done" ELSE "failed"
  /\ UNCHANGED <<written, program, next, s>>

Next == ParseSource \/ ResolveProgram \/ ExecuteNext \/ Finish

Spec == Init /\ [][Next]_vars

(***************************************************************************)
(* Properties                                                              *)
(***************************************************************************)
\* The parser reads a program as it was meant exactly if the table of
\* operators and the rule for else say so.
ParsedAsWritten == phase = "parsed" => ((program = written) <=> G!Readables(written))

\* It accepts break, continue and return where they belong, in every nesting
\* of loops and functions, and rejects no program that has them there only; so
\* the interpreter never meets a jump that is nobody's, and both its internal
\* errors, "loop control escaped a function body" and "unexpected control flow
\* escaped top-level program", are out of reach.
JumpsArePlaced ==
  /\ s.error # "logic" /\ s.flow = "none"
  /\ phase = "parsed" => G!AllPlaced(program)
  /\ (phase = "rejected" /\ G!Readables(written)) => ~G!AllPlaced(written)

\* Addresses are an optimization: a program prints the same, and ends with the
\* same error, as without the resolver, when every name would be looked for
\* through the scopes.  Left out are programs with a function that mentions a
\* local name declared only after it.
Interpreted(statements) == ExecuteAll(statements, NewInterpreter)
SameOutcome(one, other) == one.out = other.out /\ one.error = other.error

MeaningKept ==
  (phase \in {"done", "failed"} /\ G!Readables(written) /\ ~G!LooksAhead(written, TRUE)) =>
    SameOutcome(s, Interpreted([i \in DOMAIN written |-> G!Unbound(written[i])]))

\* Between statements of the top level, also after an error, the interpreter
\* is back in the global scope with no call under way.
CallsUnwind == s.environment = Globals /\ s.depth = 0 /\ s.nesting = 0

\* No array contains itself, not through any number of other arrays: push and
\* the assignment of an element look before they change anything.
Elements(a) == {s.arrays[a][i].v : i \in {j \in DOMAIN s.arrays[a] : s.arrays[a][j].t = "array"}}

Closed(arrays) == \A a \in arrays : Elements(a) \subseteq arrays

ArraysAreTrees ==
  \A a \in DOMAIN s.arrays :
    \E S \in SUBSET (DOMAIN s.arrays) : Elements(a) \subseteq S /\ Closed(S) /\ a \notin S

\* "The depth of calls is limited to MaxCallDepth": no more calls of functions
\* than that are ever inside each other, as long as no map has a default
\* factory, which map_lookup calls past the guard of the call depth.
CallsAreLimited == (\A m \in DOMAIN s.maps : s.maps[m].factory.t # "callable") => s.deepest <= MaxCallDepth

\* "The index is in the range 0..len(array)-1": no element is written outside
\* of its array.
IndexIsInRange == s.error # "undefined behaviour"
=============================================================================
