----------------------- MODULE EnvironmentPool_proofs ------------------------
(***************************************************************************)
(* Proofs about EnvironmentPool, for any number of environments and        *)
(* functions, any limits of the pools and any depth.  The inductive        *)
(* invariant is PoolCorrect: types, the scopes on the stack, no pointer to *)
(* a destroyed object, and pooled environments referred to by nobody.  It  *)
(* gives the action property that no step disturbs the scopes a function   *)
(* closed over.                                                            *)
(***************************************************************************)
EXTENDS EnvironmentPool, SequenceTheorems, TLAPS

(***************************************************************************)
(* The invariants with the state as parameters, so that they can be said   *)
(* of the moment after the assignments of an action and before objects     *)
(* nobody refers to are destroyed.                                         *)
(***************************************************************************)
NoRepeats(s) == \A i, j \in 1..Len(s) : s[i] = s[j] => i = j

Linked(al, env, par, slt, clo, pl, frm, hld, st) ==
  /\ {Globals, env} \cup Elements(pl) \cup hld \cup Kept(st) \subseteq al
  /\ \A e \in al \cap Envs : ({par[e]} \ {Nil}) \cup slt[e] \subseteq al
  /\ \A f \in al \cap Funs : {clo[f]} \cup Elements(frm[f]) \subseteq al

Once(al, pl, frm) ==
  /\ NoRepeats(pl)
  /\ \A f \in al \cap Funs :
       /\ NoRepeats(frm[f])
       /\ Elements(frm[f]) \cap Elements(pl) = {}
       /\ \A g \in al \cap Funs : f # g => Elements(frm[f]) \cap Elements(frm[g]) = {}

CachedIn(al, pl, frm, e) == e \in Elements(pl) \/ \E f \in al \cap Funs : e \in Elements(frm[f])

Free(al, env, par, slt, clo, st, e) ==
  /\ par[e] = Nil /\ slt[e] = {}
  /\ e \notin Kept(st) \cup {env, Globals}
  /\ \A x \in al \cap Envs : par[x] # e
  /\ \A f \in al \cap Funs : clo[f] # e

Idle(al, env, par, slt, clo, pl, frm, st) ==
  \A e \in Envs : CachedIn(al, pl, frm, e) => Free(al, env, par, slt, clo, st, e)

\* What one block or call under way keeps.
KeptBy(a) == ({a.env, a.previous, a.fun} \ {Nil}) \cup a.arguments

GlobalsStay == \A a \in Elements(stack) : a.env # Globals

PoolCorrect ==
  TypeOK /\ ScopeRestored /\ GlobalsStay /\ NothingDangles /\ CachedIsUnused

(***************************************************************************)
(* Sequences                                                               *)
(***************************************************************************)
\* Taking the last element away.
LEMMA FrontFacts ==
  ASSUME NEW S, NEW s \in Seq(S), s # <<>>
  PROVE  /\ Front(s) \in Seq(S) /\ Last(s) \in S
         /\ Len(s) \in Nat /\ Len(s) > 0 /\ Len(Front(s)) = Len(s) - 1
         /\ \A i \in 1..(Len(s) - 1) : Front(s)[i] = s[i]
         /\ Elements(s) = Elements(Front(s)) \cup {Last(s)}
<1>1. Len(s) \in Nat /\ Len(s) > 0
  <2>1. Len(s) \in Nat \ {0}
    BY EmptySeq, Zenon
  <2>2. QED
    BY <2>1
<1>2. PICK n \in Nat : n = Len(s) - 1
  BY <1>1
<1>3. Front(s) = SubSeq(s, 1, n)
  BY <1>2 DEF Front
<1>4. Front(s) \in Seq(S) /\ Len(Front(s)) = Len(s) - 1
  <2>1. \A i \in 1..n : s[i] \in S
    BY <1>2, <1>1, ElementOfSeq
  <2>2. n \in Int /\ 1 \in Int
    BY <1>2
  <2>3. SubSeq(s, 1, n) \in Seq(S)
    BY <2>1, <2>2, SubSeqProperties, Zenon
  <2>4. Len(SubSeq(s, 1, n)) = n
    OBVIOUS
  <2>5. QED
    BY <1>2, <1>3, <2>3, <2>4
<1>5. \A i \in 1..(Len(s) - 1) : Front(s)[i] = s[i]
  <2>1. \A i \in 1..n : SubSeq(s, 1, n)[i] = s[i]
    OBVIOUS
  <2>2. QED
    BY <1>2, <1>3, <2>1
<1>6. Last(s) \in S
  BY <1>1 DEF Last
<1>7. Elements(s) = Elements(Front(s)) \cup {Last(s)}
  <2>1. ASSUME NEW i \in 1..Len(s)
        PROVE  s[i] \in Elements(Front(s)) \cup {Last(s)}
    BY <1>1, <1>4, <1>5 DEF Elements, Last
  <2>2. ASSUME NEW i \in 1..Len(Front(s))
        PROVE  Front(s)[i] \in Elements(s)
    BY <1>1, <1>4, <1>5 DEF Elements
  <2>3. Last(s) \in Elements(s)
    BY <1>1 DEF Elements, Last
  <2>4. QED
    BY <2>1, <2>2, <2>3 DEF Elements
<1>8. QED
  BY <1>1, <1>4, <1>5, <1>6, <1>7

\* Adding one at the end.
LEMMA AppendFacts ==
  ASSUME NEW S, NEW s \in Seq(S), NEW x \in S
  PROVE  /\ Append(s, x) \in Seq(S) /\ Append(s, x) # <<>>
         /\ Len(s) \in Nat /\ Len(Append(s, x)) = Len(s) + 1
         /\ \A i \in 1..Len(s) : Append(s, x)[i] = s[i]
         /\ Append(s, x)[Len(s) + 1] = x /\ Last(Append(s, x)) = x
         /\ Elements(Append(s, x)) = Elements(s) \cup {x}
<1>1. /\ Append(s, x) \in Seq(S) /\ Len(Append(s, x)) = Len(s) + 1
      /\ \A i \in 1..Len(s) : Append(s, x)[i] = s[i]
      /\ Append(s, x)[Len(s) + 1] = x /\ Len(s) \in Nat
  OBVIOUS
<1>2. Elements(Append(s, x)) = Elements(s) \cup {x}
  <2>1. ASSUME NEW i \in 1..Len(Append(s, x))
        PROVE  Append(s, x)[i] \in Elements(s) \cup {x}
    <3>1. CASE i = Len(s) + 1
      BY <3>1, <1>1
    <3>2. CASE i # Len(s) + 1
      BY <3>2, <1>1 DEF Elements
    <3>3. QED
      BY <3>1, <3>2
  <2>2. ASSUME NEW i \in 1..Len(s)
        PROVE  s[i] \in Elements(Append(s, x))
    BY <1>1 DEF Elements
  <2>3. x \in Elements(Append(s, x))
    BY <1>1 DEF Elements
  <2>4. QED
    BY <2>1, <2>2, <2>3 DEF Elements
<1>3. Append(s, x) # <<>> /\ Last(Append(s, x)) = x
  BY <1>1 DEF Last
<1>4. QED
  BY <1>1, <1>2, <1>3

\* A cache without repetitions that gains an element it does not have.
LEMMA AppendNoRepeats ==
  ASSUME NEW S, NEW s \in Seq(S), NEW x \in S, NoRepeats(s), x \notin Elements(s)
  PROVE  NoRepeats(Append(s, x))
<1>1. /\ Len(s) \in Nat /\ Len(Append(s, x)) = Len(s) + 1
      /\ \A i \in 1..Len(s) : Append(s, x)[i] = s[i]
      /\ Append(s, x)[Len(s) + 1] = x
  BY AppendFacts
<1>2. \A i \in 1..Len(s) : s[i] # x
  BY DEF Elements
<1>3. QED
  BY <1>1, <1>2 DEF NoRepeats

\* What is left of a cache after something was taken from it, and what was
\* taken is no longer there.
LEMMA TakenFacts ==
  ASSUME NEW s \in Seq(Envs), NEW e \in Envs, Taken(e, s)
  PROVE  /\ Rest(s) \in Seq(Envs)
         /\ Elements(Rest(s)) \subseteq Elements(s)
         /\ e \in Elements(s) \/ e \notin alive
         /\ NoRepeats(s) =>
              /\ NoRepeats(Rest(s))
              /\ e \in Elements(s) => e \notin Elements(Rest(s))
<1>1. CASE s = <<>>
  BY <1>1 DEF Taken, Rest, Elements, NoRepeats
<1>2. CASE s # <<>>
  <2>1. Rest(s) = Front(s) /\ e = Last(s)
    BY <1>2 DEF Taken, Rest
  <2>2. /\ Front(s) \in Seq(Envs)
        /\ Len(s) \in Nat /\ Len(s) > 0 /\ Len(Front(s)) = Len(s) - 1
        /\ \A i \in 1..(Len(s) - 1) : Front(s)[i] = s[i]
        /\ Elements(s) = Elements(Front(s)) \cup {Last(s)}
    BY <1>2, FrontFacts
  <2>3. ASSUME NoRepeats(s)
        PROVE  NoRepeats(Front(s))
    BY <2>2, <2>3 DEF NoRepeats
  <2>4. ASSUME NoRepeats(s)
        PROVE  e \notin Elements(Front(s))
    <3>1. \A i \in 1..(Len(s) - 1) : s[i] # s[Len(s)]
      BY <2>2, <2>4 DEF NoRepeats
    <3>2. \A i \in 1..Len(Front(s)) : Front(s)[i] # e
      BY <3>1, <2>1, <2>2 DEF Last
    <3>3. QED
      BY <3>2 DEF Elements
  <2>5. QED
    BY <2>1, <2>2, <2>3, <2>4
<1>3. QED
  BY <1>1, <1>2

(***************************************************************************)
(* The stack                                                               *)
(***************************************************************************)
\* What the C++ stack keeps is what one of its activations keeps.
LEMMA KeptDef == \A st, x : x \in Kept(st) <=> \E a \in Elements(st) : x \in KeptBy(a)
  BY DEF Kept, KeptBy

\* What is kept with one more activation,
LEMMA KeptOfAppend ==
  ASSUME NEW S, NEW s \in Seq(S), NEW a \in S
  PROVE  Kept(Append(s, a)) = Kept(s) \cup KeptBy(a)
<1>1. Elements(Append(s, a)) = Elements(s) \cup {a}
  BY AppendFacts
<1>2. QED
  BY <1>1, KeptDef

\* ... and what without the last one.
LEMMA KeptOfFront ==
  ASSUME NEW S, NEW s \in Seq(S), s # <<>>
  PROVE  Kept(s) = Kept(Front(s)) \cup KeptBy(Last(s))
<1>1. Elements(s) = Elements(Front(s)) \cup {Last(s)}
  BY FrontFacts
<1>2. QED
  BY <1>1, KeptDef

(***************************************************************************)
(* Reference counts                                                        *)
(***************************************************************************)
\* What a survivor refers to survives, and so do the roots.
LEMMA SurvivorsFacts ==
  ASSUME NEW objects, NEW roots, NEW par, NEW slt, NEW frm
  PROVE  LET live == Survivors(objects, roots, par, slt, frm)
         IN  /\ live \subseteq objects
             /\ objects \cap roots \subseteq live
             /\ \A x \in live, o \in objects : Refers(x, o, par, slt, frm) => o \in live
<1> DEFINE live == Survivors(objects, roots, par, slt, frm)
           Closed(S) == \A o \in S : o \in roots \/ \E x \in S : Refers(x, o, par, slt, frm)
<1>1. \A x : x \in live <=> \E S \in SUBSET objects : Closed(S) /\ x \in S
  BY DEF Survivors
<1>2. live \subseteq objects
  BY <1>1
<1>3. ASSUME NEW o \in objects \cap roots
      PROVE  o \in live
  <2>1. {o} \in SUBSET objects /\ Closed({o}) OBVIOUS
  <2>2. QED
    BY <1>1, <2>1
<1>4. ASSUME NEW x \in live, NEW o \in objects, Refers(x, o, par, slt, frm)
      PROVE  o \in live
  <2>1. PICK S \in SUBSET objects : Closed(S) /\ x \in S
    BY <1>1
  <2>2. S \cup {o} \in SUBSET objects /\ Closed(S \cup {o})
    BY <2>1, <1>4
  <2>3. QED
    BY <1>1, <2>2
<1> HIDE DEF live
<1>5. QED
  BY <1>2, <1>3, <1>4 DEF live

\* Destroying what nobody refers to leaves no pointer without its object.
LEMMA DropKeepsLinks ==
  ASSUME NEW al, NEW env, NEW par, NEW slt, NEW pl, NEW frm, NEW hld, NEW st,
         Linked(al, env, par, slt, closure, pl, frm, hld, st),
         NEW live, live = Survivors(al, Roots(env, st, pl, hld), par, slt, frm)
  PROVE  live \subseteq al /\ Linked(live, env, par, slt, closure, pl, frm, hld, st)
<1>1. /\ live \subseteq al
      /\ al \cap Roots(env, st, pl, hld) \subseteq live
      /\ \A x \in live, o \in al : Refers(x, o, par, slt, frm) => o \in live
  BY SurvivorsFacts
<1>2. {Globals, env} \cup Elements(pl) \cup hld \cup Kept(st) \subseteq live
  BY <1>1 DEF Linked, Roots
<1>3. \A e \in live \cap Envs : ({par[e]} \ {Nil}) \cup slt[e] \subseteq live
  BY <1>1 DEF Linked, Refers
<1>4. \A f \in live \cap Funs : {closure[f]} \cup Elements(frm[f]) \subseteq live
  BY <1>1, PoolAssumption DEF Linked, Refers
<1>5. QED
  BY <1>1, <1>2, <1>3, <1>4 DEF Linked

\* ... and what was in no use stays so.
LEMMA DropKeepsIdle ==
  ASSUME NEW al, NEW env, NEW par, NEW slt, NEW clo, NEW pl, NEW frm, NEW st,
         NEW live, live \subseteq al,
         Once(al, pl, frm), Idle(al, env, par, slt, clo, pl, frm, st)
  PROVE  Once(live, pl, frm) /\ Idle(live, env, par, slt, clo, pl, frm, st)
<1>1. Once(live, pl, frm)
  BY DEF Once
<1>2. ASSUME NEW e \in Envs, CachedIn(live, pl, frm, e)
      PROVE  Free(live, env, par, slt, clo, st, e)
  <2>1. CachedIn(al, pl, frm, e)
    BY <1>2 DEF CachedIn
  <2>2. Free(al, env, par, slt, clo, st, e)
    BY <2>1 DEF Idle
  <2>3. QED
    BY <2>2 DEF Free
<1>3. QED
  BY <1>1, <1>2 DEF Idle

(***************************************************************************)
(* The invariants are these formulas of the variables.                     *)
(***************************************************************************)
\* NothingDangles is Linked of the present state,
LEMMA LinkedNow ==
  NothingDangles <=> Linked(alive, environment, parent, slots, closure, pool, frames, held, stack)
<1>1. Kept(stack) \subseteq alive <=> \A a \in Elements(stack) : KeptBy(a) \subseteq alive
  BY KeptDef
<1>2. QED
  BY <1>1 DEF NothingDangles, Linked, KeptBy

\* ... and CachedIsUnused is Once and Idle of it.
LEMMA IdleNow ==
  CachedIsUnused <=>
    /\ Once(alive, pool, frames)
    /\ Idle(alive, environment, parent, slots, closure, pool, frames, stack)
<1>1. CachedOnce <=> Once(alive, pool, frames)
  BY DEF CachedOnce, Once, NoRepeats
<1>2. \A e : Cached(e) <=> CachedIn(alive, pool, frames, e)
  BY DEF Cached, CachedIn
<1>3. QED
  BY <1>1, <1>2 DEF CachedIsUnused, Idle, Free

(***************************************************************************)
(* Scopes                                                                  *)
(***************************************************************************)
\* The chain of an environment is inside every set closed under parent_.
LEMMA ChainInside ==
  ASSUME NEW inner, NEW S \in SUBSET Envs, inner \in S,
         \A x \in S : parent[x] # Nil => parent[x] \in S
  PROVE  Chain(inner) \subseteq S
  BY DEF Chain

\* It is alive, and what is not referred to is not in it.
LEMMA ChainAlive ==
  ASSUME TypeOK, NothingDangles, NEW inner \in alive \cap Envs
  PROVE  Chain(inner) \subseteq alive \cap Envs
<1>1. \A x \in alive \cap Envs : parent[x] # Nil => parent[x] \in alive \cap Envs
  BY DEF TypeOK, NothingDangles
<1>2. QED
  BY <1>1, ChainInside

\* An environment that is nobody's parent is in no other's chain.
LEMMA ChainAvoids ==
  ASSUME TypeOK, NothingDangles, NEW inner \in alive \cap Envs, NEW c, inner # c,
         \A x \in alive \cap Envs : parent[x] # c
  PROVE  Chain(inner) \subseteq (alive \cap Envs) \ {c}
<1>1. \A x \in (alive \cap Envs) \ {c} : parent[x] # Nil => parent[x] \in (alive \cap Envs) \ {c}
  BY DEF TypeOK, NothingDangles
<1>2. QED
  BY <1>1, ChainInside

\* A function the program can name is alive.
LEMMA VisibleAlive ==
  ASSUME TypeOK, NothingDangles
  PROVE  Visible \subseteq alive \cap Funs
<1>1. environment \in alive \cap Envs
  BY DEF TypeOK, NothingDangles
<1>2. Chain(environment) \subseteq alive \cap Envs
  BY <1>1, ChainAlive
<1>3. ASSUME NEW e \in Chain(environment)
      PROVE  slots[e] \subseteq alive \cap Funs
  BY <1>2 DEF TypeOK, NothingDangles
<1>4. held \subseteq alive \cap Funs
  BY DEF TypeOK, NothingDangles
<1>5. QED
  BY <1>3, <1>4 DEF Visible

\* Entering a block or a call.
LEMMA Push ==
  ASSUME stack \in Seq(Activation), ScopeRestored, GlobalsStay,
         NEW a \in Activation, a.env # Globals, a.previous = environment,
         stack' = Append(stack, a), environment' = a.env
  PROVE  stack' \in Seq(Activation) /\ ScopeRestored' /\ GlobalsStay'
<1>1. /\ stack' \in Seq(Activation) /\ stack' # <<>>
      /\ Len(stack) \in Nat /\ Len(stack') = Len(stack) + 1
      /\ \A i \in 1..Len(stack) : stack'[i] = stack[i]
      /\ stack'[Len(stack) + 1] = a /\ Last(stack') = a
      /\ Elements(stack') = Elements(stack) \cup {a}
  BY AppendFacts
<1>2. stack # <<>> => Len(stack) > 0
  BY EmptySeq
<1>3. ASSUME NEW i \in 2..Len(stack')
      PROVE  stack'[i].previous = stack'[i - 1].env
  <2>1. CASE i \in 2..Len(stack)
    BY <2>1, <1>1 DEF ScopeRestored
  <2>2. CASE i = Len(stack) + 1
    <3>1. Len(stack) > 0 /\ stack # <<>>
      BY <2>2, <1>1
    <3>2. environment = stack[Len(stack)].env
      BY <3>1 DEF ScopeRestored, Last
    <3>3. stack'[i - 1] = stack[Len(stack)] /\ stack'[i] = a
      BY <2>2, <3>1, <1>1
    <3>4. QED
      BY <3>2, <3>3
  <2>3. QED
    BY <2>1, <2>2, <1>1
<1>4. stack'[1].previous = Globals
  <2>1. CASE stack = <<>>
    <3>1. Len(stack) = 0
      BY <2>1
    <3>2. stack'[1] = a
      BY <3>1, <1>1
    <3>3. QED
      BY <3>2, <2>1 DEF ScopeRestored
  <2>2. CASE stack # <<>>
    <3>1. stack'[1] = stack[1]
      BY <2>2, <1>1, <1>2
    <3>2. QED
      BY <3>1, <2>2 DEF ScopeRestored
  <2>3. QED
    BY <2>1, <2>2
<1>5. ScopeRestored'
  BY <1>1, <1>3, <1>4 DEF ScopeRestored
<1>6. GlobalsStay'
  BY <1>1 DEF GlobalsStay
<1>7. QED
  BY <1>1, <1>5, <1>6

\* Leaving one.
LEMMA Pop ==
  ASSUME stack \in Seq(Activation), ScopeRestored, GlobalsStay, stack # <<>>,
         stack' = Front(stack), environment' = Last(stack).previous
  PROVE  stack' \in Seq(Activation) /\ ScopeRestored' /\ GlobalsStay'
<1>1. /\ stack' \in Seq(Activation)
      /\ Len(stack) \in Nat /\ Len(stack) > 0 /\ Len(stack') = Len(stack) - 1
      /\ \A i \in 1..(Len(stack) - 1) : stack'[i] = stack[i]
      /\ Elements(stack) = Elements(stack') \cup {Last(stack)}
  BY FrontFacts
<1>2. stack' # <<>> => Len(stack') > 0
  BY <1>1, EmptySeq
<1>3. environment' = IF stack' = <<>> THEN Globals ELSE Last(stack').env
  <2>1. CASE stack' = <<>>
    <3>1. Len(stack') = 0
      BY <2>1
    <3>2. Len(stack) = 1
      BY <3>1, <1>1
    <3>3. QED
      BY <2>1, <3>2 DEF ScopeRestored, Last
  <2>2. CASE stack' # <<>>
    <3>1. Len(stack) \in 2..Len(stack) /\ Len(stack') \in 1..(Len(stack) - 1)
      BY <2>2, <1>1, <1>2
    <3>2. stack[Len(stack)].previous = stack[Len(stack) - 1].env
      BY <3>1 DEF ScopeRestored
    <3>3. stack'[Len(stack')] = stack[Len(stack) - 1]
      BY <3>1, <1>1
    <3>4. QED
      BY <2>2, <3>2, <3>3 DEF Last
  <2>3. QED
    BY <2>1, <2>2
<1>4. ASSUME NEW i \in 2..Len(stack')
      PROVE  stack'[i].previous = stack'[i - 1].env
  BY <1>1 DEF ScopeRestored
<1>5. stack' # <<>> => stack'[1].previous = Globals
  BY <1>1, <1>2 DEF ScopeRestored
<1>6. ScopeRestored'
  BY <1>3, <1>4, <1>5 DEF ScopeRestored
<1>7. GlobalsStay'
  BY <1>1 DEF GlobalsStay
<1>8. QED
  BY <1>1, <1>6, <1>7

(***************************************************************************)
(* The steps                                                               *)
(***************************************************************************)
\* The same of the next state.
LEMMA LinkedNext ==
  NothingDangles' <=>
    Linked(alive', environment', parent', slots', closure', pool', frames', held', stack')
<1>1. Kept(stack') \subseteq alive' <=> \A a \in Elements(stack') : KeptBy(a) \subseteq alive'
  BY KeptDef
<1>2. QED
  BY <1>1 DEF NothingDangles, Linked, KeptBy

\* The same of the next state.
LEMMA IdleNext ==
  CachedIsUnused' <=>
    /\ Once(alive', pool', frames')
    /\ Idle(alive', environment', parent', slots', closure', pool', frames', stack')
<1>1. CachedOnce' <=> Once(alive', pool', frames')
  BY DEF CachedOnce, Once, NoRepeats
<1>2. ASSUME NEW e
      PROVE  Cached(e)' <=> CachedIn(alive', pool', frames', e)
  BY DEF Cached, CachedIn
<1>3. QED
  BY <1>1, <1>2 DEF CachedIsUnused, Idle, Free

\* What a block or call may take: nobody refers to it.
LEMMA TakenUnused ==
  ASSUME PoolCorrect, NEW e \in Envs, CachedIn(alive, pool, frames, e) \/ e \notin alive
  PROVE  /\ e \notin Kept(stack) \cup {environment, Globals}
         /\ \A x \in alive \cap Envs : parent[x] # e
         /\ \A f \in alive \cap Funs : closure[f] # e
<1>1. CASE CachedIn(alive, pool, frames, e)
  <2>1. Free(alive, environment, parent, slots, closure, stack, e)
    BY <1>1, IdleNow DEF PoolCorrect, Idle
  <2>2. QED
    BY <2>1 DEF Free
<1>2. CASE e \notin alive
  <2>1. Linked(alive, environment, parent, slots, closure, pool, frames, held, stack)
    BY LinkedNow DEF PoolCorrect
  <2>2. e # Nil
    BY PoolAssumption
  <2>3. QED
    BY <1>2, <2>1, <2>2 DEF Linked
<1>3. QED
  BY <1>1, <1>2

\* A block or an iteration takes an environment, new or from the pool.
LEMMA EnterBlockStep ==
  ASSUME PoolCorrect, EnterBlock
  PROVE  PoolCorrect'
<1>1. PICK e \in Envs :
        /\ Taken(e, pool)
        /\ parent' = [parent EXCEPT ![e] = environment]
        /\ slots' = [slots EXCEPT ![e] = {}]
        /\ alive' = alive \cup {e}
        /\ stack' = Append(stack, [env |-> e, previous |-> environment, fun |-> Nil, arguments |-> {}])
        /\ environment' = e
  BY DEF EnterBlock
<1>2. pool' = Rest(pool) /\ UNCHANGED <<closure, frames, held, flow>>
  BY DEF EnterBlock
<1>3. TypeOK /\ ScopeRestored /\ GlobalsStay
  BY DEF PoolCorrect
<1>4. Linked(alive, environment, parent, slots, closure, pool, frames, held, stack)
  BY LinkedNow DEF PoolCorrect
<1>5. /\ Once(alive, pool, frames)
      /\ Idle(alive, environment, parent, slots, closure, pool, frames, stack)
  BY IdleNow DEF PoolCorrect
<1>6. /\ pool' \in Seq(Envs)
      /\ Elements(pool') \subseteq Elements(pool)
      /\ e \in Elements(pool) \/ e \notin alive
      /\ NoRepeats(pool') /\ e \notin Elements(pool')
  <2>1. pool \in Seq(Envs) /\ NoRepeats(pool) /\ Elements(pool) \subseteq alive
    BY <1>3, <1>4, <1>5 DEF TypeOK, Once, Linked
  <2>2. QED
    BY <2>1, <1>1, <1>2, TakenFacts
<1>7. /\ e \notin Kept(stack) \cup {environment, Globals}
      /\ \A x \in alive \cap Envs : parent[x] # e
      /\ \A f \in alive \cap Funs : closure[f] # e
  BY <1>6, TakenUnused DEF CachedIn
<1>8. \A f \in alive \cap Funs : e \notin Elements(frames[f])
  BY <1>4, <1>5, <1>6 DEF Linked, Once
<1>9. PICK a \in Activation :
        a = [env |-> e, previous |-> environment, fun |-> Nil, arguments |-> {}]
  BY <1>3 DEF TypeOK, Activation
<1>10. stack' \in Seq(Activation) /\ ScopeRestored' /\ GlobalsStay'
  BY <1>1, <1>3, <1>7, <1>9, Push DEF TypeOK
<1>11. Kept(stack') = Kept(stack) \cup {e, environment}
  <2>1. KeptBy(a) = {e, environment}
    BY <1>3, <1>9, PoolAssumption DEF KeptBy, TypeOK
  <2>2. stack \in Seq(Activation) /\ stack' = Append(stack, a)
    BY <1>1, <1>3, <1>9 DEF TypeOK
  <2>3. Kept(Append(stack, a)) = Kept(stack) \cup KeptBy(a)
    BY <2>2, KeptOfAppend
  <2>4. QED
    BY <2>1, <2>2, <2>3
<1>12. TypeOK'
  <2>1. alive' \subseteq Envs \cup Funs /\ held' \subseteq Funs /\ flow' \in {"none", "return", "throw"}
    BY <1>1, <1>2, <1>3 DEF TypeOK
  <2>2. parent' \in [Envs -> Envs \cup {Nil}] /\ slots' \in [Envs -> SUBSET Funs]
    BY <1>1, <1>3 DEF TypeOK
  <2>3. QED
    BY <1>1, <1>2, <1>3, <1>6, <1>10, <2>1, <2>2 DEF TypeOK
<1>13. Linked(alive', environment', parent', slots', closure', pool', frames', held', stack')
  <2>1. {Globals, environment'} \cup Elements(pool') \cup held' \cup Kept(stack') \subseteq alive'
    BY <1>1, <1>2, <1>4, <1>6, <1>11 DEF Linked
  <2>2. \A x \in alive' \cap Envs : ({parent'[x]} \ {Nil}) \cup slots'[x] \subseteq alive'
    BY <1>1, <1>3, <1>4 DEF Linked, TypeOK
  <2>3. \A f \in alive' \cap Funs : {closure'[f]} \cup Elements(frames'[f]) \subseteq alive'
    BY <1>1, <1>2, <1>4, PoolAssumption DEF Linked
  <2>4. QED
    BY <2>1, <2>2, <2>3 DEF Linked
<1>14. alive' \cap Funs = alive \cap Funs
  BY <1>1, PoolAssumption
<1>15. Once(alive', pool', frames')
  BY <1>2, <1>5, <1>6, <1>14 DEF Once
<1>16. ASSUME NEW c \in Envs, CachedIn(alive', pool', frames', c)
       PROVE  Free(alive', environment', parent', slots', closure', stack', c)
  <2>1. CachedIn(alive, pool, frames, c) /\ c # e
    BY <1>2, <1>6, <1>8, <1>14, <1>16 DEF CachedIn
  <2>2. Free(alive, environment, parent, slots, closure, stack, c)
    BY <2>1, <1>5 DEF Idle
  <2>3. parent'[c] = Nil /\ slots'[c] = {} /\ c \notin Kept(stack') \cup {environment', Globals}
    BY <2>1, <2>2, <1>1, <1>3, <1>11 DEF Free, TypeOK
  <2>4. \A x \in alive' \cap Envs : parent'[x] # c
    BY <2>1, <2>2, <1>1, <1>3 DEF Free, TypeOK
  <2>5. \A f \in alive' \cap Funs : closure'[f] # c
    BY <2>2, <1>2, <1>14 DEF Free
  <2>6. QED
    BY <2>3, <2>4, <2>5 DEF Free
<1>17. QED
  BY <1>10, <1>12, <1>13, <1>15, <1>16, LinkedNext, IdleNext DEF PoolCorrect, Idle

\* The end of every step that gives references up.
LEMMA Drop ==
  ASSUME TypeOK, closure' = closure,
         Linked(alive, environment', parent', slots', closure, pool', frames', held', stack'),
         Once(alive, pool', frames'),
         Idle(alive, environment', parent', slots', closure, pool', frames', stack'),
         alive' = Survivors(alive, Roots(environment', stack', pool', held'), parent', slots', frames')
  PROVE  alive' \subseteq Envs \cup Funs /\ NothingDangles' /\ CachedIsUnused'
<1>1. alive' \subseteq alive
      /\ Linked(alive', environment', parent', slots', closure, pool', frames', held', stack')
  BY DropKeepsLinks
<1>2. /\ Once(alive', pool', frames')
      /\ Idle(alive', environment', parent', slots', closure, pool', frames', stack')
  BY <1>1, DropKeepsIdle
<1>3. NothingDangles'
  BY <1>1, LinkedNext
<1>4. CachedIsUnused'
  BY <1>2, IdleNext
<1>5. QED
  BY <1>1, <1>3, <1>4 DEF TypeOK

\* The block or call left last, and the environment to go back to.
LEMMA Popped ==
  ASSUME PoolCorrect, stack # <<>>,
         stack' = Front(stack), environment' = Last(stack).previous
  PROVE  /\ stack' \in Seq(Activation) /\ ScopeRestored' /\ GlobalsStay'
         /\ Last(stack) \in Activation
         /\ Kept(stack') \subseteq Kept(stack)
         /\ KeptBy(Last(stack)) \subseteq Kept(stack)
         /\ Last(stack).env \in Kept(stack) \cap Envs /\ Last(stack).env # Globals
         /\ environment' \in (Kept(stack) \cup {Globals}) \cap Envs
         /\ Last(stack).env \notin Kept(stack') => Last(stack).env # environment'
<1>1. stack \in Seq(Activation) /\ ScopeRestored /\ GlobalsStay
  BY DEF PoolCorrect, TypeOK
<1>2. stack' \in Seq(Activation) /\ ScopeRestored' /\ GlobalsStay'
  BY <1>1, Pop
<1>3. Last(stack) \in Activation /\ Elements(stack) = Elements(stack') \cup {Last(stack)}
  BY <1>1, FrontFacts
<1>4. Kept(stack) = Kept(stack') \cup KeptBy(Last(stack))
  BY <1>1, KeptOfFront
<1>5. /\ Last(stack).env \in Envs /\ Last(stack).previous \in Envs
      /\ Last(stack).env # Nil /\ Last(stack).previous # Nil
  BY <1>3, PoolAssumption DEF Activation
<1>6. Last(stack).env \in KeptBy(Last(stack)) /\ Last(stack).previous \in KeptBy(Last(stack))
  BY <1>5 DEF KeptBy
<1>7. Last(stack).env # Globals
  BY <1>1, <1>3 DEF GlobalsStay
<1>8. environment' = Globals \/ environment' \in Kept(stack')
  <2>1. CASE stack' = <<>>
    BY <2>1, <1>2 DEF ScopeRestored
  <2>2. CASE stack' # <<>>
    <3>1. Last(stack') \in Activation /\ Last(stack') \in Elements(stack')
      BY <2>2, <1>2, FrontFacts
    <3>2. environment' = Last(stack').env /\ environment' # Nil
      BY <2>2, <1>2, <1>5 DEF ScopeRestored
    <3>3. environment' \in KeptBy(Last(stack'))
      BY <3>2 DEF KeptBy
    <3>4. QED
      BY <3>1, <3>3, KeptDef
  <2>3. QED
    BY <2>1, <2>2
<1>9. QED
  BY <1>2, <1>3, <1>4, <1>5, <1>6, <1>7, <1>8

\* Leaving it without reuse: pointers and pools are as good as before.
LEMMA LeftAlone ==
  ASSUME PoolCorrect, stack # <<>>,
         stack' = Front(stack), environment' = Last(stack).previous,
         NEW hld \in SUBSET held
  PROVE  /\ Linked(alive, environment', parent, slots, closure, pool, frames, hld, stack')
         /\ Once(alive, pool, frames)
         /\ Idle(alive, environment', parent, slots, closure, pool, frames, stack')
<1>1. /\ Kept(stack') \subseteq Kept(stack)
      /\ environment' \in Kept(stack) \cup {Globals}
  BY Popped
<1>2. Linked(alive, environment, parent, slots, closure, pool, frames, held, stack)
  BY LinkedNow DEF PoolCorrect
<1>3. /\ Once(alive, pool, frames)
      /\ Idle(alive, environment, parent, slots, closure, pool, frames, stack)
  BY IdleNow DEF PoolCorrect
<1>4. Linked(alive, environment', parent, slots, closure, pool, frames, hld, stack')
  BY <1>1, <1>2 DEF Linked
<1>5. Idle(alive, environment', parent, slots, closure, pool, frames, stack')
  BY <1>1, <1>3 DEF Idle, Free
<1>6. QED
  BY <1>3, <1>4, <1>5

\* The environment left goes into a pool: Unique is what makes that right.
LEMMA LeftInPool ==
  ASSUME PoolCorrect, stack # <<>>,
         stack' = Front(stack), environment' = Last(stack).previous,
         Unique(Last(stack).env, Front(stack)),
         NEW hld \in SUBSET held, NEW pl, NEW frm,
         Elements(pl) \subseteq Elements(pool) \cup {Last(stack).env},
         \A f \in Funs : Elements(frm[f]) \subseteq Elements(frames[f]) \cup {Last(stack).env},
         NEW par, par = [parent EXCEPT ![Last(stack).env] = Nil],
         NEW slt, slt = [slots EXCEPT ![Last(stack).env] = {}]
  PROVE  /\ Linked(alive, environment', par, slt, closure, pl, frm, hld, stack')
         /\ Idle(alive, environment', par, slt, closure, pl, frm, stack')
<1>1. PICK e \in Envs : e = Last(stack).env
  BY Popped
<1>2. /\ Kept(stack') \subseteq Kept(stack) /\ e \in Kept(stack)
      /\ environment' \in Kept(stack) \cup {Globals}
      /\ e # Globals /\ e \notin Kept(stack') /\ e # environment'
  BY <1>1, Popped DEF Unique
<1>3. /\ \A x \in alive \cap Envs : parent[x] # e
      /\ \A f \in alive \cap Funs : closure[f] # e
  BY <1>1 DEF Unique
<1>4. TypeOK /\ par = [parent EXCEPT ![e] = Nil] /\ slt = [slots EXCEPT ![e] = {}]
  BY <1>1 DEF PoolCorrect
<1>5. /\ par[e] = Nil /\ slt[e] = {}
      /\ \A x \in Envs \ {e} : par[x] = parent[x] /\ slt[x] = slots[x]
  BY <1>4 DEF TypeOK
<1>6. Linked(alive, environment, parent, slots, closure, pool, frames, held, stack)
  BY LinkedNow DEF PoolCorrect
<1>7. Idle(alive, environment, parent, slots, closure, pool, frames, stack)
  BY IdleNow DEF PoolCorrect
<1>8. Linked(alive, environment', par, slt, closure, pl, frm, hld, stack')
  <2>1. {Globals, environment'} \cup Elements(pl) \cup hld \cup Kept(stack') \subseteq alive
    BY <1>1, <1>2, <1>6 DEF Linked
  <2>2. \A x \in alive \cap Envs : ({par[x]} \ {Nil}) \cup slt[x] \subseteq alive
    BY <1>5, <1>6 DEF Linked
  <2>3. \A f \in alive \cap Funs : {closure[f]} \cup Elements(frm[f]) \subseteq alive
    BY <1>1, <1>2, <1>6 DEF Linked
  <2>4. QED
    BY <2>1, <2>2, <2>3 DEF Linked
<1>9. ASSUME NEW c \in Envs, CachedIn(alive, pl, frm, c)
      PROVE  Free(alive, environment', par, slt, closure, stack', c)
  <2>1. \A x \in alive \cap Envs : par[x] = Nil \/ par[x] = parent[x]
    BY <1>5
  <2>2. c # Nil
    BY PoolAssumption
  <2>3. CASE c = e
    BY <2>1, <2>2, <2>3, <1>2, <1>3, <1>5 DEF Free
  <2>4. CASE c # e
    <3>1. CachedIn(alive, pool, frames, c)
      BY <2>4, <1>1, <1>9 DEF CachedIn
    <3>2. Free(alive, environment, parent, slots, closure, stack, c)
      BY <3>1, <1>7 DEF Idle
    <3>3. QED
      BY <2>1, <2>2, <2>4, <3>2, <1>2, <1>5 DEF Free
  <2>5. QED
    BY <2>3, <2>4
<1>10. QED
  BY <1>8, <1>9 DEF Idle

\* A block or an iteration ends: its environment goes back, or stays with a closure.
LEMMA LeaveBlockStep ==
  ASSUME PoolCorrect, LeaveBlock
  PROVE  PoolCorrect'
<1>1. PICK e \in Envs : e = Last(stack).env
  BY Popped DEF LeaveBlock
<1>2. PICK reuse \in BOOLEAN : reuse <=> (Unique(e, Front(stack)) /\ Len(pool) < MaxPool)
  OBVIOUS
<1>3. /\ stack # <<>> /\ stack' = Front(stack) /\ environment' = Last(stack).previous
      /\ parent' = (IF reuse THEN [parent EXCEPT ![e] = Nil] ELSE parent)
      /\ slots' = (IF reuse THEN [slots EXCEPT ![e] = {}] ELSE slots)
      /\ pool' = (IF reuse THEN Append(pool, e) ELSE pool)
      /\ UNCHANGED <<closure, frames, held, flow>>
      /\ alive' = Survivors(alive, Roots(environment', stack', pool', held'), parent', slots', frames')
  BY <1>1, <1>2 DEF LeaveBlock
<1>4. TypeOK
  BY DEF PoolCorrect
<1>5. /\ stack' \in Seq(Activation) /\ ScopeRestored' /\ GlobalsStay'
      /\ environment' \in Envs /\ e \in Kept(stack)
  BY <1>1, <1>3, Popped
<1>6. Once(alive, pool, frames)
  BY IdleNow DEF PoolCorrect
<1>7. /\ pool' \in Seq(Envs)
      /\ Linked(alive, environment', parent', slots', closure, pool', frames', held', stack')
      /\ Once(alive, pool', frames')
      /\ Idle(alive, environment', parent', slots', closure, pool', frames', stack')
  <2>1. CASE reuse
    <3>1. pool \in Seq(Envs) /\ pool' = Append(pool, e) /\ frames' = frames
      BY <2>1, <1>3, <1>4 DEF TypeOK
    <3>2. pool' \in Seq(Envs) /\ Elements(pool') = Elements(pool) \cup {e}
      BY <3>1, AppendFacts
    <3>3. /\ Linked(alive, environment', parent', slots', closure, pool', frames', held', stack')
          /\ Idle(alive, environment', parent', slots', closure, pool', frames', stack')
      BY <2>1, <3>2, <1>1, <1>2, <1>3, LeftInPool
    <3>4. ~CachedIn(alive, pool, frames, e)
      BY <1>5, TakenUnused
    <3>5. NoRepeats(pool')
      BY <3>1, <3>4, <1>6, AppendNoRepeats DEF CachedIn, Once
    <3>6. Once(alive, pool', frames')
      BY <3>1, <3>2, <3>4, <3>5, <1>6 DEF CachedIn, Once
    <3>7. QED
      BY <3>2, <3>3, <3>6
  <2>2. CASE ~reuse
    <3>1. /\ parent' = parent /\ slots' = slots /\ pool' = pool
          /\ frames' = frames /\ held' = held
      BY <2>2, <1>3
    <3>2. QED
      BY <3>1, <1>3, <1>4, LeftAlone DEF TypeOK
  <2>3. QED
    BY <2>1, <2>2
<1>8. alive' \subseteq Envs \cup Funs /\ NothingDangles' /\ CachedIsUnused'
  BY <1>3, <1>4, <1>7, Drop
<1>9. parent' \in [Envs -> Envs \cup {Nil}] /\ slots' \in [Envs -> SUBSET Funs]
  BY <1>3, <1>4 DEF TypeOK
<1>10. TypeOK'
  BY <1>3, <1>4, <1>5, <1>7, <1>8, <1>9 DEF TypeOK
<1>11. QED
  BY <1>5, <1>8, <1>10 DEF PoolCorrect

\* A call returns: its frame goes back to the function, or stays with a closure.
LEMMA FinishCallStep ==
  ASSUME PoolCorrect, FinishCall
  PROVE  PoolCorrect'
<1>1. stack # <<>> /\ Last(stack).fun # Nil
  BY DEF FinishCall
<1>2. PICK e \in Envs : e = Last(stack).env
  BY <1>1, Popped DEF FinishCall
<1>3. PICK f \in Funs : f = Last(stack).fun
  BY <1>1, Popped DEF FinishCall, Activation
<1>4. PICK hld \in SUBSET held : hld = IF flow = "return" THEN held ELSE {}
  OBVIOUS
<1>5. PICK reuse \in BOOLEAN : reuse <=> (Unique(e, Front(stack)) /\ Len(frames[f]) < MaxFrames)
  OBVIOUS
<1>6. /\ stack' = Front(stack) /\ environment' = Last(stack).previous /\ held' = hld
      /\ parent' = (IF reuse THEN [parent EXCEPT ![e] = Nil] ELSE parent)
      /\ slots' = (IF reuse THEN [slots EXCEPT ![e] = {}] ELSE slots)
      /\ frames' = (IF reuse THEN [frames EXCEPT ![f] = Append(@, e)] ELSE frames)
      /\ flow' = "none" /\ UNCHANGED <<closure, pool>>
      /\ alive' = Survivors(alive, Roots(environment', stack', pool', held'), parent', slots', frames')
  BY <1>2, <1>3, <1>4, <1>5 DEF FinishCall
<1>7. TypeOK
  BY DEF PoolCorrect
<1>8. /\ stack' \in Seq(Activation) /\ ScopeRestored' /\ GlobalsStay'
      /\ environment' \in Envs /\ e \in Kept(stack) /\ KeptBy(Last(stack)) \subseteq Kept(stack)
  BY <1>1, <1>2, <1>6, Popped
<1>9. Once(alive, pool, frames)
  BY IdleNow DEF PoolCorrect
<1>10. f \in alive
  <2>1. f \in KeptBy(Last(stack))
    BY <1>1, <1>3 DEF KeptBy
  <2>2. Kept(stack) \subseteq alive
    BY LinkedNow DEF PoolCorrect, Linked
  <2>3. QED
    BY <2>1, <2>2, <1>8
<1>11. /\ frames' \in [Funs -> Seq(Envs)]
       /\ Linked(alive, environment', parent', slots', closure, pool', frames', held', stack')
       /\ Once(alive, pool', frames')
       /\ Idle(alive, environment', parent', slots', closure, pool', frames', stack')
  <2>1. CASE reuse
    <3>1. /\ frames \in [Funs -> Seq(Envs)] /\ frames' = [frames EXCEPT ![f] = Append(@, e)]
          /\ pool' = pool
      BY <2>1, <1>6, <1>7 DEF TypeOK
    <3>2. Append(frames[f], e) \in Seq(Envs) /\ Elements(Append(frames[f], e)) = Elements(frames[f]) \cup {e}
      BY <3>1, AppendFacts
    <3>3. /\ frames'[f] = Append(frames[f], e)
          /\ \A g \in Funs \ {f} : frames'[g] = frames[g]
          /\ frames' \in [Funs -> Seq(Envs)]
      BY <3>1, <3>2
    <3>4. \A g \in Funs : Elements(frames'[g]) \subseteq Elements(frames[g]) \cup {e}
      BY <3>2, <3>3
    <3>5. Unique(Last(stack).env, Front(stack))
      BY <2>1, <1>2, <1>5
    <3>6. /\ Linked(alive, environment', parent', slots', closure, pool', frames', held', stack')
          /\ Idle(alive, environment', parent', slots', closure, pool', frames', stack')
      BY <2>1, <3>1, <3>4, <3>5, <1>1, <1>2, <1>6, LeftInPool
    <3>7. ~CachedIn(alive, pool, frames, e)
      BY <1>8, TakenUnused
    <3>8. NoRepeats(frames'[f])
      <4>1. NoRepeats(frames[f]) /\ e \notin Elements(frames[f]) /\ frames[f] \in Seq(Envs)
        BY <3>1, <3>7, <1>9, <1>10 DEF CachedIn, Once
      <4>2. QED
        BY <4>1, <3>3, AppendNoRepeats
    <3>9. Once(alive, pool', frames')
      BY <3>1, <3>2, <3>3, <3>7, <3>8, <1>9 DEF CachedIn, Once
    <3>10. QED
      BY <3>3, <3>6, <3>9
  <2>2. CASE ~reuse
    <3>1. /\ parent' = parent /\ slots' = slots /\ frames' = frames
          /\ pool' = pool /\ held' = hld
      BY <2>2, <1>6
    <3>2. /\ Linked(alive, environment', parent, slots, closure, pool, frames, hld, stack')
          /\ Once(alive, pool, frames)
          /\ Idle(alive, environment', parent, slots, closure, pool, frames, stack')
      BY <1>1, <1>6, LeftAlone
    <3>3. QED
      BY <3>1, <3>2, <1>7 DEF TypeOK
  <2>3. QED
    BY <2>1, <2>2
<1>12. alive' \subseteq Envs \cup Funs /\ NothingDangles' /\ CachedIsUnused'
  BY <1>6, <1>7, <1>11, Drop
<1>13. parent' \in [Envs -> Envs \cup {Nil}] /\ slots' \in [Envs -> SUBSET Funs]
  BY <1>6, <1>7 DEF TypeOK
<1>14. TypeOK'
  BY <1>6, <1>7, <1>8, <1>11, <1>12, <1>13 DEF TypeOK
<1>15. QED
  BY <1>8, <1>12, <1>14 DEF PoolCorrect

\* A call is left by an error: nothing goes back to a pool.
LEMMA UnwindCallStep ==
  ASSUME PoolCorrect, UnwindCall
  PROVE  PoolCorrect'
<1>1. /\ stack # <<>> /\ stack' = Front(stack) /\ environment' = Last(stack).previous
      /\ UNCHANGED <<parent, slots, closure, pool, frames, held, flow>>
      /\ alive' = Survivors(alive, Roots(environment', stack', pool', held'), parent', slots', frames')
  BY DEF UnwindCall
<1>2. TypeOK
  BY DEF PoolCorrect
<1>3. stack' \in Seq(Activation) /\ ScopeRestored' /\ GlobalsStay' /\ environment' \in Envs
  BY <1>1, Popped
<1>4. /\ Linked(alive, environment', parent, slots, closure, pool, frames, held, stack')
      /\ Once(alive, pool, frames)
      /\ Idle(alive, environment', parent, slots, closure, pool, frames, stack')
  BY <1>1, LeftAlone
<1>5. /\ Linked(alive, environment', parent', slots', closure, pool', frames', held', stack')
      /\ Once(alive, pool', frames')
      /\ Idle(alive, environment', parent', slots', closure, pool', frames', stack')
  BY <1>1, <1>4
<1>6. alive' \subseteq Envs \cup Funs /\ NothingDangles' /\ CachedIsUnused'
  BY <1>1, <1>2, <1>5, Drop
<1>7. TypeOK'
  BY <1>1, <1>2, <1>3, <1>6 DEF TypeOK
<1>8. QED
  BY <1>3, <1>6, <1>7 DEF PoolCorrect

\* A function captures the current environment.
LEMMA DeclareFunctionStep ==
  ASSUME PoolCorrect, DeclareFunction
  PROVE  PoolCorrect'
<1>1. PICK f \in Funs \ alive :
        /\ closure' = [closure EXCEPT ![f] = environment]
        /\ frames' = [frames EXCEPT ![f] = <<>>]
        /\ slots' = [slots EXCEPT ![environment] = @ \cup {f}]
        /\ alive' = alive \cup {f}
  BY DEF DeclareFunction
<1>2. UNCHANGED <<parent, pool, stack, environment, held, flow>>
  BY DEF DeclareFunction
<1>3. TypeOK /\ ScopeRestored /\ GlobalsStay
  BY DEF PoolCorrect
<1>4. Linked(alive, environment, parent, slots, closure, pool, frames, held, stack)
  BY LinkedNow DEF PoolCorrect
<1>5. /\ Once(alive, pool, frames)
      /\ Idle(alive, environment, parent, slots, closure, pool, frames, stack)
  BY IdleNow DEF PoolCorrect
<1>6. ScopeRestored' /\ GlobalsStay'
  BY <1>2, <1>3 DEF ScopeRestored, GlobalsStay
<1>7. /\ closure' \in [Funs -> Envs] /\ frames' \in [Funs -> Seq(Envs)]
      /\ slots' \in [Envs -> SUBSET Funs] /\ alive' \subseteq Envs \cup Funs
  BY <1>1, <1>3 DEF TypeOK
<1>8. TypeOK'
  BY <1>2, <1>3, <1>7 DEF TypeOK
<1>9. /\ closure'[f] = environment /\ frames'[f] = <<>>
      /\ \A g \in Funs \ {f} : closure'[g] = closure[g] /\ frames'[g] = frames[g]
      /\ \A x \in Envs : slots'[x] \subseteq slots[x] \cup {f}
      /\ \A x \in Envs \ {environment} : slots'[x] = slots[x]
  BY <1>1, <1>3 DEF TypeOK
<1>10. Elements(frames'[f]) = {} /\ NoRepeats(frames'[f])
  BY <1>9 DEF Elements, NoRepeats
<1>11. /\ alive' \cap Envs = alive \cap Envs
       /\ alive' \cap Funs = (alive \cap Funs) \cup {f}
  BY <1>1, PoolAssumption
<1>12. Linked(alive', environment', parent', slots', closure', pool', frames', held', stack')
  <2>1. {Globals, environment'} \cup Elements(pool') \cup held' \cup Kept(stack') \subseteq alive'
    BY <1>1, <1>2, <1>4 DEF Linked
  <2>2. \A x \in alive' \cap Envs : ({parent'[x]} \ {Nil}) \cup slots'[x] \subseteq alive'
    BY <1>1, <1>2, <1>4, <1>9, <1>11 DEF Linked
  <2>3. \A g \in alive' \cap Funs : {closure'[g]} \cup Elements(frames'[g]) \subseteq alive'
    BY <1>1, <1>4, <1>9, <1>10, <1>11 DEF Linked
  <2>4. QED
    BY <2>1, <2>2, <2>3 DEF Linked
<1>13. Once(alive', pool', frames')
  BY <1>1, <1>2, <1>5, <1>9, <1>10, <1>11 DEF Once
<1>14. ASSUME NEW c \in Envs, CachedIn(alive', pool', frames', c)
       PROVE  Free(alive', environment', parent', slots', closure', stack', c)
  <2>1. CachedIn(alive, pool, frames, c)
    BY <1>2, <1>9, <1>10, <1>11, <1>14 DEF CachedIn
  <2>2. Free(alive, environment, parent, slots, closure, stack, c)
    BY <2>1, <1>5 DEF Idle
  <2>3. QED
    BY <2>2, <1>2, <1>9, <1>11 DEF Free
<1>15. QED
  BY <1>6, <1>8, <1>12, <1>13, <1>14, LinkedNext, IdleNext DEF PoolCorrect, Idle

\* A variable gets a function or loses one.
LEMMA AssignStep ==
  ASSUME PoolCorrect, Assign
  PROVE  PoolCorrect'
<1>1. PICK e, now :
        /\ e \in Chain(environment)
        /\ now \in {slots[e] \cup {f} : f \in Visible} \cup {slots[e] \ {f} : f \in slots[e]}
        /\ slots' = [slots EXCEPT ![e] = now]
        /\ held' = {}
        /\ alive' = Survivors(alive, Roots(environment, stack, pool, {}), parent, slots', frames)
  BY DEF Assign
<1>2. UNCHANGED <<parent, closure, pool, frames, stack, environment, flow>>
  BY DEF Assign
<1>3. TypeOK /\ ScopeRestored /\ GlobalsStay /\ NothingDangles
  BY DEF PoolCorrect
<1>4. Linked(alive, environment, parent, slots, closure, pool, frames, held, stack)
  BY LinkedNow DEF PoolCorrect
<1>5. /\ Once(alive, pool, frames)
      /\ Idle(alive, environment, parent, slots, closure, pool, frames, stack)
  BY IdleNow DEF PoolCorrect
<1>6. environment \in alive \cap Envs
  BY <1>3 DEF TypeOK, NothingDangles
<1>7. e \in alive \cap Envs
  BY <1>1, <1>3, <1>6, ChainAlive
<1>8. now \subseteq slots[e] \cup (alive \cap Funs)
  BY <1>1, <1>3, VisibleAlive
<1>9. /\ slots' \in [Envs -> SUBSET Funs]
      /\ slots'[e] = now
      /\ \A x \in Envs \ {e} : slots'[x] = slots[x]
  BY <1>1, <1>3, <1>7, <1>8 DEF TypeOK
<1>10. Linked(alive, environment', parent', slots', closure, pool', frames', held', stack')
  <2>1. {Globals, environment'} \cup Elements(pool') \cup held' \cup Kept(stack') \subseteq alive
    BY <1>1, <1>2, <1>4 DEF Linked
  <2>2. \A x \in alive \cap Envs : ({parent'[x]} \ {Nil}) \cup slots'[x] \subseteq alive
    BY <1>2, <1>4, <1>7, <1>8, <1>9 DEF Linked
  <2>3. \A f \in alive \cap Funs : {closure[f]} \cup Elements(frames'[f]) \subseteq alive
    BY <1>2, <1>4 DEF Linked
  <2>4. QED
    BY <2>1, <2>2, <2>3 DEF Linked
<1>11. ASSUME NEW c \in Envs, CachedIn(alive, pool', frames', c)
       PROVE  Free(alive, environment', parent', slots', closure, stack', c)
  <2>1. Free(alive, environment, parent, slots, closure, stack, c)
    BY <1>2, <1>5, <1>11 DEF Idle
  <2>2. c # environment /\ \A x \in alive \cap Envs : parent[x] # c
    BY <2>1 DEF Free
  <2>3. e # c
    BY <1>1, <1>3, <1>6, <2>2, ChainAvoids
  <2>4. QED
    BY <2>1, <2>3, <1>2, <1>9 DEF Free
<1>12. Once(alive, pool', frames')
  BY <1>2, <1>5
<1>13. Idle(alive, environment', parent', slots', closure, pool', frames', stack')
  BY <1>11 DEF Idle
<1>14. /\ closure' = closure
       /\ alive' = Survivors(alive, Roots(environment', stack', pool', held'), parent', slots', frames')
  BY <1>1, <1>2
<1>15. alive' \subseteq Envs \cup Funs /\ NothingDangles' /\ CachedIsUnused'
  BY <1>3, <1>10, <1>12, <1>13, <1>14, Drop
<1>16. TypeOK'
  BY <1>1, <1>2, <1>3, <1>9, <1>15 DEF TypeOK
<1>17. ScopeRestored' /\ GlobalsStay'
  BY <1>2, <1>3 DEF ScopeRestored, GlobalsStay
<1>18. QED
  BY <1>15, <1>16, <1>17 DEF PoolCorrect

\* return holds its value, when that is a function.
LEMMA ReturnStep ==
  ASSUME PoolCorrect, Return
  PROVE  PoolCorrect'
<1>1. /\ held' \in {{}} \cup {{f} : f \in Visible} /\ flow' = "return"
      /\ UNCHANGED <<alive, parent, slots, closure, pool, frames, stack, environment>>
  BY DEF Return
<1>2. held' \subseteq alive \cap Funs
  BY <1>1, VisibleAlive DEF PoolCorrect
<1>3. TypeOK'
  BY <1>1, <1>2 DEF PoolCorrect, TypeOK
<1>4. ScopeRestored' /\ GlobalsStay'
  BY <1>1 DEF PoolCorrect, ScopeRestored, GlobalsStay
<1>5. NothingDangles'
  BY <1>1, <1>2 DEF PoolCorrect, NothingDangles
<1>6. CachedIsUnused'
  BY <1>1, IdleNow, IdleNext DEF PoolCorrect
<1>7. QED
  BY <1>3, <1>4, <1>5, <1>6 DEF PoolCorrect

\* Temporaries are given up, nothing else changes.
LEMMA HeldDropped ==
  ASSUME PoolCorrect, held' = {}, flow' \in {"none", "return", "throw"},
         UNCHANGED <<parent, slots, closure, pool, frames, stack, environment>>,
         alive' = Survivors(alive, Roots(environment, stack, pool, {}), parent, slots, frames)
  PROVE  PoolCorrect'
<1>1. TypeOK /\ ScopeRestored /\ GlobalsStay
  BY DEF PoolCorrect
<1>2. Linked(alive, environment, parent, slots, closure, pool, frames, held, stack)
  BY LinkedNow DEF PoolCorrect
<1>3. Linked(alive, environment', parent', slots', closure, pool', frames', held', stack')
  BY <1>2 DEF Linked
<1>4. /\ Once(alive, pool', frames')
      /\ Idle(alive, environment', parent', slots', closure, pool', frames', stack')
  BY IdleNow DEF PoolCorrect
<1>5. alive' = Survivors(alive, Roots(environment', stack', pool', held'), parent', slots', frames')
  OBVIOUS
<1>6. alive' \subseteq Envs \cup Funs /\ NothingDangles' /\ CachedIsUnused'
  BY <1>1, <1>3, <1>4, <1>5, Drop
<1>7. TypeOK'
  BY <1>1, <1>6 DEF TypeOK
<1>8. ScopeRestored' /\ GlobalsStay'
  BY <1>1 DEF ScopeRestored, GlobalsStay
<1>9. QED
  BY <1>6, <1>7, <1>8 DEF PoolCorrect

\* A call takes a frame of its function, new or used before.
LEMMA CallStep ==
  ASSUME PoolCorrect, Call
  PROVE  PoolCorrect'
<1>1. PICK f \in Visible, e \in Envs, arguments \in {{}} \cup {{g} : g \in Visible} :
        /\ Taken(e, frames[f])
        /\ frames' = [frames EXCEPT ![f] = Rest(@)]
        /\ parent' = [parent EXCEPT ![e] = closure[f]]
        /\ slots' = [slots EXCEPT ![e] = arguments]
        /\ alive' = alive \cup {e}
        /\ stack' = Append(stack, [env |-> e, previous |-> environment, fun |-> f, arguments |-> arguments])
        /\ environment' = e
        /\ held' = {}
  BY DEF Call
<1>2. UNCHANGED <<closure, pool, flow>>
  BY DEF Call
<1>3. TypeOK /\ ScopeRestored /\ GlobalsStay
  BY DEF PoolCorrect
<1>4. Linked(alive, environment, parent, slots, closure, pool, frames, held, stack)
  BY LinkedNow DEF PoolCorrect
<1>5. /\ Once(alive, pool, frames)
      /\ Idle(alive, environment, parent, slots, closure, pool, frames, stack)
  BY IdleNow DEF PoolCorrect
<1>6. f \in alive \cap Funs /\ arguments \subseteq alive \cap Funs
  BY <1>1, VisibleAlive DEF PoolCorrect
<1>7. /\ Rest(frames[f]) \in Seq(Envs)
      /\ Elements(Rest(frames[f])) \subseteq Elements(frames[f])
      /\ e \in Elements(frames[f]) \/ e \notin alive
      /\ NoRepeats(Rest(frames[f])) /\ e \notin Elements(Rest(frames[f]))
  <2>1. /\ frames[f] \in Seq(Envs) /\ NoRepeats(frames[f])
        /\ Elements(frames[f]) \subseteq alive
    BY <1>3, <1>4, <1>5, <1>6 DEF TypeOK, Once, Linked
  <2>2. QED
    BY <2>1, <1>1, TakenFacts
<1>8. /\ e \notin Kept(stack) \cup {environment, Globals}
      /\ \A x \in alive \cap Envs : parent[x] # e
      /\ \A g \in alive \cap Funs : closure[g] # e
  BY <1>6, <1>7, TakenUnused DEF CachedIn
<1>9. /\ frames' \in [Funs -> Seq(Envs)] /\ frames'[f] = Rest(frames[f])
      /\ \A g \in Funs \ {f} : frames'[g] = frames[g]
      /\ \A g \in Funs : Elements(frames'[g]) \subseteq Elements(frames[g])
  BY <1>1, <1>3, <1>6, <1>7 DEF TypeOK
<1>10. /\ e \notin Elements(pool)
       /\ \A g \in alive \cap Funs : e \notin Elements(frames'[g])
  <2>1. CASE e \notin alive
    BY <2>1, <1>4, <1>9 DEF Linked
  <2>2. CASE e \in Elements(frames[f])
    BY <2>2, <1>5, <1>6, <1>7, <1>9 DEF Once
  <2>3. QED
    BY <2>1, <2>2, <1>7
<1>11. PICK a \in Activation :
         a = [env |-> e, previous |-> environment, fun |-> f, arguments |-> arguments]
  BY <1>3, <1>6 DEF TypeOK, Activation
<1>12. stack \in Seq(Activation) /\ stack' = Append(stack, a)
  BY <1>1, <1>3, <1>11 DEF TypeOK
<1>13. stack' \in Seq(Activation) /\ ScopeRestored' /\ GlobalsStay'
  BY <1>1, <1>3, <1>8, <1>11, <1>12, Push
<1>14. Kept(stack') = Kept(stack) \cup {e, environment, f} \cup arguments
  <2>1. KeptBy(a) = {e, environment, f} \cup arguments
    BY <1>3, <1>6, <1>11, PoolAssumption DEF KeptBy, TypeOK
  <2>2. Kept(Append(stack, a)) = Kept(stack) \cup KeptBy(a)
    BY <1>12, KeptOfAppend
  <2>3. QED
    BY <2>1, <2>2, <1>12
<1>15. /\ parent' \in [Envs -> Envs \cup {Nil}] /\ slots' \in [Envs -> SUBSET Funs]
       /\ parent'[e] = closure[f] /\ slots'[e] = arguments
       /\ \A x \in Envs \ {e} : parent'[x] = parent[x] /\ slots'[x] = slots[x]
  BY <1>1, <1>3, <1>6 DEF TypeOK
<1>16. TypeOK'
  BY <1>1, <1>2, <1>3, <1>9, <1>13, <1>15 DEF TypeOK
<1>17. alive' \cap Funs = alive \cap Funs /\ alive' \cap Envs = (alive \cap Envs) \cup {e}
  BY <1>1, PoolAssumption
<1>18. Linked(alive', environment', parent', slots', closure', pool', frames', held', stack')
  <2>1. {Globals, environment'} \cup Elements(pool') \cup held' \cup Kept(stack') \subseteq alive'
    BY <1>1, <1>2, <1>4, <1>6, <1>14 DEF Linked
  <2>2. \A x \in alive' \cap Envs : ({parent'[x]} \ {Nil}) \cup slots'[x] \subseteq alive'
    BY <1>1, <1>4, <1>6, <1>15 DEF Linked
  <2>3. \A g \in alive' \cap Funs : {closure'[g]} \cup Elements(frames'[g]) \subseteq alive'
    BY <1>1, <1>2, <1>4, <1>9, <1>17 DEF Linked
  <2>4. QED
    BY <2>1, <2>2, <2>3 DEF Linked
<1>19. Once(alive', pool', frames')
  <2>1. ASSUME NEW g \in alive' \cap Funs
        PROVE  /\ NoRepeats(frames'[g])
               /\ Elements(frames'[g]) \cap Elements(pool') = {}
               /\ \A h \in alive' \cap Funs : g # h => Elements(frames'[g]) \cap Elements(frames'[h]) = {}
    BY <1>2, <1>5, <1>7, <1>9, <1>17 DEF Once
  <2>2. QED
    BY <2>1, <1>2, <1>5 DEF Once
<1>20. ASSUME NEW c \in Envs, CachedIn(alive', pool', frames', c)
       PROVE  Free(alive', environment', parent', slots', closure', stack', c)
  <2>1. CachedIn(alive, pool, frames, c) /\ c # e
    BY <1>2, <1>9, <1>10, <1>17, <1>20 DEF CachedIn
  <2>2. Free(alive, environment, parent, slots, closure, stack, c)
    BY <2>1, <1>5 DEF Idle
  <2>3. c \notin Funs
    BY PoolAssumption
  <2>4. parent'[c] = Nil /\ slots'[c] = {}
    BY <2>1, <2>2, <1>15 DEF Free
  <2>5. c \notin Kept(stack') \cup {environment', Globals}
    BY <2>1, <2>2, <2>3, <1>1, <1>6, <1>14 DEF Free
  <2>6. \A x \in alive' \cap Envs : parent'[x] # c
    BY <2>1, <2>2, <1>6, <1>15, <1>17 DEF Free
  <2>7. \A g \in alive' \cap Funs : closure'[g] # c
    BY <2>2, <1>2, <1>17 DEF Free
  <2>8. QED
    BY <2>4, <2>5, <2>6, <2>7 DEF Free
<1>21. QED
  BY <1>13, <1>16, <1>18, <1>19, <1>20, LinkedNext, IdleNext DEF PoolCorrect, Idle

(***************************************************************************)
(* The inductive invariant                                                 *)
(***************************************************************************)
\* The invariant holds when the program starts.
LEMMA PoolInit == Init => PoolCorrect
<1> SUFFICES ASSUME Init PROVE PoolCorrect
  OBVIOUS
<1>1. Elements(pool) = {} /\ Elements(stack) = {} /\ Kept(stack) = {}
  BY KeptDef DEF Init, Elements
<1>2. \A f \in Funs : Elements(frames[f]) = {}
  BY DEF Init, Elements
<1>3. TypeOK
  BY PoolAssumption DEF Init, TypeOK
<1>4. ScopeRestored /\ GlobalsStay
  BY <1>1 DEF Init, ScopeRestored, GlobalsStay
<1>5. alive \cap Funs = {} /\ alive = {Globals}
  BY PoolAssumption DEF Init
<1>6. NothingDangles
  <2>1. Linked(alive, environment, parent, slots, closure, pool, frames, held, stack)
    BY <1>1, <1>5, PoolAssumption DEF Init, Linked
  <2>2. QED
    BY <2>1, LinkedNow
<1>7. CachedIsUnused
  <2>1. Once(alive, pool, frames)
    BY <1>5 DEF Init, Once, NoRepeats
  <2>2. Idle(alive, environment, parent, slots, closure, pool, frames, stack)
    BY <1>1, <1>5 DEF Idle, CachedIn
  <2>3. QED
    BY <2>1, <2>2, IdleNow
<1>8. QED
  BY <1>3, <1>4, <1>6, <1>7 DEF PoolCorrect

\* Every step keeps the invariant.
LEMMA PoolNext == PoolCorrect /\ [Next]_vars => PoolCorrect'
<1> SUFFICES ASSUME PoolCorrect, [Next]_vars PROVE PoolCorrect'
  OBVIOUS
<1>1. CASE EnterBlock
  BY <1>1, EnterBlockStep
<1>2. CASE LeaveBlock
  BY <1>2, LeaveBlockStep
<1>3. CASE DeclareFunction
  BY <1>3, DeclareFunctionStep
<1>4. CASE Assign
  BY <1>4, AssignStep
<1>5. CASE Call
  BY <1>5, CallStep
<1>6. CASE Return
  BY <1>6, ReturnStep
<1>7. CASE FinishCall
  BY <1>7, FinishCallStep
<1>8. CASE Discard
  BY <1>8, HeldDropped DEF Discard
<1>9. CASE Throw
  BY <1>9, HeldDropped DEF Throw
<1>10. CASE UnwindCall
  BY <1>10, UnwindCallStep
<1>11. CASE UNCHANGED vars
  <2>1. UNCHANGED <<alive, parent, slots, closure, pool, frames, stack, environment, held, flow>>
    BY <1>11 DEF vars
  <2>2. TypeOK' /\ ScopeRestored' /\ GlobalsStay'
    BY <2>1 DEF PoolCorrect, TypeOK, ScopeRestored, GlobalsStay
  <2>3. NothingDangles' /\ CachedIsUnused'
    BY <2>1, LinkedNow, LinkedNext, IdleNow, IdleNext DEF PoolCorrect
  <2>4. QED
    BY <2>2, <2>3 DEF PoolCorrect
<1>12. QED
  BY <1>1, <1>2, <1>3, <1>4, <1>5, <1>6, <1>7, <1>8, <1>9, <1>10, <1>11 DEF Next

\* The invariant of the pools holds in every run of a program.
THEOREM PoolInductive == Spec => []PoolCorrect
<1>1. Init => PoolCorrect
  BY PoolInit
<1>2. PoolCorrect /\ [Next]_vars => PoolCorrect'
  BY PoolNext
<1>3. QED
  BY <1>1, <1>2, PTL DEF Spec

\* The variables have their types.
THEOREM PoolTypeCorrect == Spec => []TypeOK
<1>1. PoolCorrect => TypeOK
  BY DEF PoolCorrect
<1>2. QED
  BY <1>1, PoolInductive, PTL

\* After every block and call, left normally, by return or by an error,
\* environment_ is the one the rest of the stack runs in.
THEOREM ScopesAreRestored == Spec => []ScopeRestored
<1>1. PoolCorrect => ScopeRestored
  BY DEF PoolCorrect
<1>2. QED
  BY <1>1, PoolInductive, PTL

\* No pointer leads to a destroyed object.
THEOREM NoDanglingPointer == Spec => []NothingDangles
<1>1. PoolCorrect => NothingDangles
  BY DEF PoolCorrect
<1>2. QED
  BY <1>1, PoolInductive, PTL

\* An environment in a pool is there once, empty, and referred to by nobody.
THEOREM PooledAreUnused == Spec => []CachedIsUnused
<1>1. PoolCorrect => CachedIsUnused
  BY DEF PoolCorrect
<1>2. QED
  BY <1>1, PoolInductive, PTL

(***************************************************************************)
(* Closures                                                                *)
(***************************************************************************)
ScopesKept ==
  \A f \in alive \cap Funs \cap alive' : \A e \in Chain(closure[f]) :
    /\ closure'[f] = closure[f] /\ parent'[e] = parent[e]
    /\ stack' # stack => slots'[e] = slots[e]

\* Changing what nobody refers to changes no closure.
LEMMA OthersKept ==
  ASSUME PoolCorrect, closure' = closure,
         NEW c, \A x \in alive \cap Envs : parent[x] # c,
         \A f \in alive \cap Funs : closure[f] # c,
         \A x \in Envs \ {c} : parent'[x] = parent[x] /\ slots'[x] = slots[x]
  PROVE  ScopesKept
<1> SUFFICES ASSUME NEW f \in alive \cap Funs, NEW e \in Chain(closure[f])
             PROVE  parent'[e] = parent[e] /\ slots'[e] = slots[e]
  BY DEF ScopesKept
<1>1. TypeOK /\ NothingDangles
  BY DEF PoolCorrect
<1>2. closure[f] \in alive \cap Envs /\ closure[f] # c
  BY <1>1 DEF TypeOK, NothingDangles
<1>3. Chain(closure[f]) \subseteq (alive \cap Envs) \ {c}
  BY <1>1, <1>2, ChainAvoids
<1>4. QED
  BY <1>3

\* Every step keeps the scopes around a function that lives.
LEMMA ClosuresStep == PoolCorrect /\ [Next]_vars => [ScopesKept]_vars
<1> SUFFICES ASSUME PoolCorrect, [Next]_vars PROVE ScopesKept \/ UNCHANGED vars
  OBVIOUS
<1> USE DEF PoolCorrect
<1>1. CASE EnterBlock
  <2>1. PICK e \in Envs :
          /\ Taken(e, pool)
          /\ parent' = [parent EXCEPT ![e] = environment]
          /\ slots' = [slots EXCEPT ![e] = {}]
    BY <1>1 DEF EnterBlock
  <2>2. e \in Elements(pool) \/ e \notin alive
    BY <2>1, TakenFacts DEF TypeOK
  <2>3. /\ \A x \in alive \cap Envs : parent[x] # e
        /\ \A f \in alive \cap Funs : closure[f] # e
    BY <2>2, TakenUnused DEF CachedIn
  <2>4. \A x \in Envs \ {e} : parent'[x] = parent[x] /\ slots'[x] = slots[x]
    BY <2>1 DEF TypeOK
  <2>5. QED
    BY <2>3, <2>4, <1>1, OthersKept DEF EnterBlock
<1>2. CASE Call
  <2>1. PICK f \in Visible, e \in Envs, arguments \in {{}} \cup {{g} : g \in Visible} :
          /\ Taken(e, frames[f])
          /\ parent' = [parent EXCEPT ![e] = closure[f]]
          /\ slots' = [slots EXCEPT ![e] = arguments]
    BY <1>2 DEF Call
  <2>2. f \in alive \cap Funs
    BY VisibleAlive
  <2>3. e \in Elements(frames[f]) \/ e \notin alive
    BY <2>1, <2>2, TakenFacts DEF TypeOK
  <2>4. /\ \A x \in alive \cap Envs : parent[x] # e
        /\ \A g \in alive \cap Funs : closure[g] # e
    BY <2>2, <2>3, TakenUnused DEF CachedIn
  <2>5. \A x \in Envs \ {e} : parent'[x] = parent[x] /\ slots'[x] = slots[x]
    BY <2>1 DEF TypeOK
  <2>6. QED
    BY <2>4, <2>5, <1>2, OthersKept DEF Call
<1>3. CASE LeaveBlock \/ FinishCall
  <2>1. PICK e : e = Last(stack).env
    OBVIOUS
  <2>2. /\ closure' = closure
        /\ \/ parent' = parent /\ slots' = slots
           \/ /\ Unique(e, Front(stack))
              /\ parent' = [parent EXCEPT ![e] = Nil]
              /\ slots' = [slots EXCEPT ![e] = {}]
    BY <2>1, <1>3 DEF LeaveBlock, FinishCall
  <2>3. CASE parent' = parent /\ slots' = slots
    BY <2>2, <2>3 DEF ScopesKept
  <2>4. CASE /\ Unique(e, Front(stack))
             /\ parent' = [parent EXCEPT ![e] = Nil]
             /\ slots' = [slots EXCEPT ![e] = {}]
    <3>1. /\ \A x \in alive \cap Envs : parent[x] # e
          /\ \A f \in alive \cap Funs : closure[f] # e
      BY <2>4 DEF Unique
    <3>2. \A x \in Envs \ {e} : parent'[x] = parent[x] /\ slots'[x] = slots[x]
      BY <2>4 DEF TypeOK
    <3>3. QED
      BY <2>2, <3>1, <3>2, OthersKept
  <2>5. QED
    BY <2>2, <2>3, <2>4
<1>4. CASE DeclareFunction
  <2>1. PICK f \in Funs \ alive : closure' = [closure EXCEPT ![f] = environment]
    BY <1>4 DEF DeclareFunction
  <2>2. \A g \in alive \cap Funs : closure'[g] = closure[g]
    BY <2>1 DEF TypeOK
  <2>3. QED
    BY <2>2, <1>4 DEF DeclareFunction, ScopesKept
<1>5. CASE Assign \/ Return \/ Discard \/ Throw
  <2>1. closure' = closure /\ parent' = parent /\ stack' = stack
    BY <1>5 DEF Assign, Return, Discard, Throw
  <2>2. QED
    BY <2>1 DEF ScopesKept
<1>6. CASE UnwindCall
  BY <1>6 DEF UnwindCall, ScopesKept
<1>7. QED
  BY <1>1, <1>2, <1>3, <1>4, <1>5, <1>6 DEF Next

\* While a function lives, nothing but an assignment or a declaration changes
\* the variables it closed over: no block, no call and no reuse of a frame.
THEOREM ClosuresAreKept == Spec => ClosuresKeepTheirScope
<1>1. PoolCorrect /\ [Next]_vars => [ScopesKept]_vars
  BY ClosuresStep
<1>2. [][ScopesKept]_vars => ClosuresKeepTheirScope
  BY DEF ClosuresKeepTheirScope, ScopesKept
<1>3. Spec => [][ScopesKept]_vars
  BY <1>1, PoolInductive, PTL DEF Spec
<1>4. QED
  BY <1>2, <1>3
=============================================================================
