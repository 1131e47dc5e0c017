-------------------------- MODULE EnvironmentPool ---------------------------
(***************************************************************************)
(* Environments, the closures that keep them, and their reuse: the pool of *)
(* block environments in Interpreter and the pool of frames in every       *)
(* UserFunction.  The program is any sequence of entering and leaving      *)
(* blocks, declaring, copying, overwriting and calling functions,          *)
(* returning and throwing.  Of the values only functions are kept: nothing *)
(* else refers to an environment.  A for-in iteration is a block.          *)
(***************************************************************************)
EXTENDS Integers, Sequences, FiniteSets

CONSTANTS
  Envs,       \* Environment objects
  Funs,       \* UserFunction objects
  Globals,    \* the environment globals_
  Nil,        \* null pointer
  MaxPool,    \* size limit of environment_pool_ (64 in the code)
  MaxFrames,  \* MaxCachedFrames (16 in the code)
  MaxDepth    \* bound on nested blocks and calls

ASSUME PoolAssumption ==
  /\ Globals \in Envs
  /\ Envs \cap Funs = {}
  /\ Nil \notin Envs \cup Funs
  /\ MaxPool \in Nat /\ MaxFrames \in Nat /\ MaxDepth \in Nat

VARIABLES
  alive,        \* the objects that are not destroyed
  parent,       \* parent_ of an environment
  slots,        \* the functions in its slots
  closure,      \* closure_ of a function
  pool,         \* environment_pool_
  frames,       \* frame_pool_ of a function
  stack,        \* what the C++ stack keeps: blocks and calls under way
  environment,  \* environment_
  held,         \* functions in temporaries and in return_value_
  flow          \* "none", "return" or "throw"

vars == <<alive, parent, slots, closure, pool, frames, stack, environment, held, flow>>

Elements(s) == {s[i] : i \in 1..Len(s)}
Last(s) == s[Len(s)]
Front(s) == SubSeq(s, 1, Len(s) - 1)

(***************************************************************************)
(* Reference counts                                                        *)
(***************************************************************************)
\* A block or call under way keeps its environment, the one to go back to,
\* the function it called and the buffer with its arguments.
\* mutant: the callee is not copied out of its variable.
Kept_ByReference(st) == UNION {{a.env, a.previous} \cup a.arguments : a \in Elements(st)}

Kept(st) == UNION {({a.env, a.previous, a.fun} \ {Nil}) \cup a.arguments : a \in Elements(st)}

Refers(x, o, par, slt, frm) ==
  IF x \in Envs THEN o = par[x] \/ o \in slt[x] ELSE o = closure[x] \/ o \in Elements(frm[x])

\* What is left when references are dropped: an object goes with the last
\* reference to it, objects that refer to each other in a circle stay.
Survivors(objects, roots, par, slt, frm) ==
  UNION {S \in SUBSET objects :
           \A o \in S : o \in roots \/ \E x \in S : Refers(x, o, par, slt, frm)}

\* use_count() == 1 for the one who leaves the environment e with the rest of
\* the stack st and the temporaries as they are.
\* mutant: a captured environment is taken for an unused one.
Unique_NoClosures(e, st) == e \notin Kept(st) /\ \A x \in alive \cap Envs : parent[x] # e

\* mutant: an environment that is somebody's parent is taken for unused.
Unique_NoParents(e, st) == e \notin Kept(st) /\ \A f \in alive \cap Funs : closure[f] # e

Unique(e, st) ==
  /\ e \notin Kept(st)
  /\ \A x \in alive \cap Envs : parent[x] # e
  /\ \A f \in alive \cap Funs : closure[f] # e

Roots(env, st, pl, hld) == {Globals, env} \cup Kept(st) \cup Elements(pl) \cup hld

(***************************************************************************)
(* What the program can name: functions in the environments on its chain   *)
(* and in temporaries.                                                     *)
(***************************************************************************)
Chain(inner) ==
  {e \in Envs : \A S \in SUBSET Envs :
     (inner \in S /\ \A x \in S : parent[x] # Nil => parent[x] \in S) => e \in S}

Visible == held \cup UNION {slots[e] : e \in Chain(environment)}

(***************************************************************************)
(* Actions                                                                 *)
(***************************************************************************)
Init ==
  /\ alive = {Globals}
  /\ parent = [e \in Envs |-> Nil] /\ slots = [e \in Envs |-> {}]
  /\ closure = [f \in Funs |-> Globals]
  /\ pool = <<>> /\ frames = [f \in Funs |-> <<>>]
  /\ stack = <<>> /\ environment = Globals
  /\ held = {} /\ flow = "none"

\* The one in front of the pool, reset, or a new one.
Taken(e, cache) == IF cache = <<>> THEN e \in Envs \ alive ELSE e = Last(cache)

Rest(cache) == IF cache = <<>> THEN <<>> ELSE Front(cache)

EnterBlock ==
  /\ flow = "none" /\ Len(stack) < MaxDepth
  /\ \E e \in Envs :
       /\ Taken(e, pool)
       /\ parent' = [parent EXCEPT ![e] = environment]
       /\ slots' = [slots EXCEPT ![e] = {}]
       /\ alive' = alive \cup {e}
       /\ stack' = Append(stack, [env |-> e, previous |-> environment, fun |-> Nil, arguments |-> {}])
       /\ environment' = e
  /\ pool' = Rest(pool)
  /\ UNCHANGED <<closure, frames, held, flow>>

\* release_environment(), after execute_block() put environment_ back.
\* mutant: the scope to go back to is read from the environment just left.
LeaveBlock_ToParent ==
  /\ stack # <<>> /\ Last(stack).fun = Nil
  /\ LET e == Last(stack).env
         st == Front(stack)
         reuse == Unique(e, st) /\ Len(pool) < MaxPool
         par == IF reuse THEN [parent EXCEPT ![e] = Nil] ELSE parent
         slt == IF reuse THEN [slots EXCEPT ![e] = {}] ELSE slots
         pl == IF reuse THEN Append(pool, e) ELSE pool
     IN /\ environment' = par[e]
        /\ stack' = st /\ parent' = par /\ slots' = slt /\ pool' = pl
        /\ alive' = Survivors(alive, Roots(Last(stack).env, st, pl, held), par, slt, frames)
  /\ UNCHANGED <<closure, frames, held, flow>>

LeaveBlock ==
  /\ stack # <<>> /\ Last(stack).fun = Nil
  /\ LET e == Last(stack).env
         st == Front(stack)
         reuse == Unique(e, st) /\ Len(pool) < MaxPool
         par == IF reuse THEN [parent EXCEPT ![e] = Nil] ELSE parent
         slt == IF reuse THEN [slots EXCEPT ![e] = {}] ELSE slots
         pl == IF reuse THEN Append(pool, e) ELSE pool
     IN /\ environment' = Last(stack).previous
        /\ stack' = st /\ parent' = par /\ slots' = slt /\ pool' = pl
        /\ alive' = Survivors(alive, Roots(Last(stack).previous, st, pl, held), par, slt, frames)
  /\ UNCHANGED <<closure, frames, held, flow>>

\* The declared function closes over the environment it is defined in.
DeclareFunction ==
  /\ flow = "none"
  /\ \E f \in Funs \ alive :
       /\ closure' = [closure EXCEPT ![f] = environment]
       /\ frames' = [frames EXCEPT ![f] = <<>>]
       /\ slots' = [slots EXCEPT ![environment] = @ \cup {f}]
       /\ alive' = alive \cup {f}
  /\ UNCHANGED <<parent, pool, stack, environment, held, flow>>

\* A variable of the chain takes one function and may lose another.
Assign ==
  /\ flow = "none"
  /\ \E e \in Chain(environment) :
       \E now \in {slots[e] \cup {f} : f \in Visible} \cup {slots[e] \ {f} : f \in slots[e]} :
         LET slt == [slots EXCEPT ![e] = now]
         IN /\ slots' = slt
            /\ held' = {}
            /\ alive' = Survivors(alive, Roots(environment, stack, pool, {}), parent, slt, frames)
  /\ UNCHANGED <<parent, closure, pool, frames, stack, environment, flow>>

\* UserFunction::call up to the body: the parent is the closure, whatever
\* environment the caller is in; the arguments are values the caller sees.
Call ==
  /\ flow = "none" /\ Len(stack) < MaxDepth
  /\ \E f \in Visible, e \in Envs, arguments \in {{}} \cup {{g} : g \in Visible} :
       /\ Taken(e, frames[f])
       /\ frames' = [frames EXCEPT ![f] = Rest(@)]
       /\ parent' = [parent EXCEPT ![e] = closure[f]]
       /\ slots' = [slots EXCEPT ![e] = arguments]
       /\ alive' = alive \cup {e}
       /\ stack' = Append(stack, [env |-> e, previous |-> environment, fun |-> f, arguments |-> arguments])
       /\ environment' = e
       /\ held' = {}
  /\ UNCHANGED <<closure, pool, flow>>

\* return, with a function as the value or with something else.
Return ==
  /\ flow = "none"
  /\ \E i \in 1..Len(stack) : stack[i].fun # Nil
  /\ held' \in {{}} \cup {{f} : f \in Visible}
  /\ flow' = "return"
  /\ UNCHANGED <<alive, parent, slots, closure, pool, frames, stack, environment>>

\* The end of UserFunction::call: the frame goes to the pool of the function
\* if nothing else refers to it, the result not included.
FinishCall ==
  /\ flow \in {"none", "return"}
  /\ stack # <<>> /\ Last(stack).fun # Nil
  /\ LET e == Last(stack).env
         f == Last(stack).fun
         st == Front(stack)
         hld == IF flow = "return" THEN held ELSE {}
         reuse == Unique(e, st) /\ Len(frames[f]) < MaxFrames
         par == IF reuse THEN [parent EXCEPT ![e] = Nil] ELSE parent
         slt == IF reuse THEN [slots EXCEPT ![e] = {}] ELSE slots
         frm == IF reuse THEN [frames EXCEPT ![f] = Append(@, e)] ELSE frames
     IN /\ environment' = Last(stack).previous
        /\ stack' = st /\ parent' = par /\ slots' = slt /\ frames' = frm /\ held' = hld
        /\ alive' = Survivors(alive, Roots(Last(stack).previous, st, pool, hld), par, slt, frm)
  /\ flow' = "none"
  /\ UNCHANGED <<closure, pool>>

\* The end of an expression whose value nobody keeps.
Discard ==
  /\ flow = "none" /\ held # {}
  /\ held' = {}
  /\ alive' = Survivors(alive, Roots(environment, stack, pool, {}), parent, slots, frames)
  /\ UNCHANGED <<parent, slots, closure, pool, frames, stack, environment, flow>>

\* A runtime error: blocks are left as usual, calls without pooling.
Throw ==
  /\ flow = "none"
  /\ flow' = "throw" /\ held' = {}
  /\ alive' = Survivors(alive, Roots(environment, stack, pool, {}), parent, slots, frames)
  /\ UNCHANGED <<parent, slots, closure, pool, frames, stack, environment>>

\* mutant: an error leaves the interpreter in the scope of the callee.
UnwindCall_InCallee ==
  /\ flow = "throw"
  /\ stack # <<>> /\ Last(stack).fun # Nil
  /\ environment' = environment
  /\ stack' = Front(stack)
  /\ alive' = Survivors(alive, Roots(environment, Front(stack), pool, held), parent, slots, frames)
  /\ UNCHANGED <<parent, slots, closure, pool, frames, held, flow>>

UnwindCall ==
  /\ flow = "throw"
  /\ stack # <<>> /\ Last(stack).fun # Nil
  /\ environment' = Last(stack).previous
  /\ stack' = Front(stack)
  /\ alive' = Survivors(alive, Roots(Last(stack).previous, Front(stack), pool, held), parent, slots, frames)
  /\ UNCHANGED <<parent, slots, closure, pool, frames, held, flow>>

Next ==
  \/ EnterBlock \/ LeaveBlock \/ DeclareFunction \/ Assign \/ Call
  \/ Return \/ FinishCall \/ Discard \/ Throw \/ UnwindCall

Spec == Init /\ [][Next]_vars

(***************************************************************************)
(* Properties                                                              *)
(***************************************************************************)
Activation == [env : Envs, previous : Envs, fun : Funs \cup {Nil}, arguments : SUBSET Funs]

TypeOK ==
  /\ alive \subseteq Envs \cup Funs
  /\ parent \in [Envs -> Envs \cup {Nil}] /\ slots \in [Envs -> SUBSET Funs]
  /\ closure \in [Funs -> Envs]
  /\ pool \in Seq(Envs) /\ frames \in [Funs -> Seq(Envs)]
  /\ stack \in Seq(Activation) /\ environment \in Envs
  /\ held \subseteq Funs /\ flow \in {"none", "return", "throw"}

\* A pointer of a live object leads to a live object, and so do the
\* pointers of the stack, the pools and the temporaries.
NothingDangles ==
  /\ {Globals, environment} \cup Elements(pool) \cup held \subseteq alive
  /\ \A a \in Elements(stack) : ({a.env, a.previous, a.fun} \ {Nil}) \cup a.arguments \subseteq alive
  /\ \A e \in alive \cap Envs : ({parent[e]} \ {Nil}) \cup slots[e] \subseteq alive
  /\ \A f \in alive \cap Funs : {closure[f]} \cup Elements(frames[f]) \subseteq alive

Cached(e) == e \in Elements(pool) \/ \E f \in alive \cap Funs : e \in Elements(frames[f])

\* No environment is in two places of the pools, so no two scopes get one.
CachedOnce ==
  /\ \A i, j \in 1..Len(pool) : pool[i] = pool[j] => i = j
  /\ \A f \in alive \cap Funs :
       /\ \A i, j \in 1..Len(frames[f]) : frames[f][i] = frames[f][j] => i = j
       /\ Elements(frames[f]) \cap Elements(pool) = {}
       /\ \A g \in alive \cap Funs : f # g => Elements(frames[f]) \cap Elements(frames[g]) = {}

\* "A captured environment is not cleared and not given to another call":
\* an environment in a pool is there once, is in use nowhere, as a closure, as
\* a parent or by a block or call under way, and is empty.
CachedIsUnused ==
  /\ CachedOnce
  /\ \A e \in Envs : Cached(e) =>
       /\ parent[e] = Nil /\ slots[e] = {}
       /\ e \notin Kept(stack) \cup {environment, Globals}
       /\ \A x \in alive \cap Envs : parent[x] # e
       /\ \A f \in alive \cap Funs : closure[f] # e

\* After every block and call, however it ends, environment_ is the one the
\* rest of the stack runs in.
ScopeRestored ==
  /\ environment = IF stack = <<>> THEN Globals ELSE Last(stack).env
  /\ \A i \in 2..Len(stack) : stack[i].previous = stack[i - 1].env
  /\ stack # <<>> => stack[1].previous = Globals

\* The variables a function closed over stay its own: while it lives, no step
\* changes the scopes around it, and only an assignment or a declaration, never
\* the start or the end of a block or call, changes what is in them.
ClosuresKeepTheirScope ==
  [][\A f \in alive \cap Funs \cap alive' : \A e \in Chain(closure[f]) :
       /\ closure'[f] = closure[f] /\ parent'[e] = parent[e]
       /\ stack' # stack => slots'[e] = slots[e]]_vars
=============================================================================
