------------------------------- MODULE MCPool -------------------------------
(***************************************************************************)
(* EnvironmentPool with a few interchangeable environments and functions.  *)
(***************************************************************************)
EXTENDS EnvironmentPool, TLC

Symmetry == Permutations(Envs \ {Globals}) \cup Permutations(Funs)

\* What an object held before it was destroyed is never read again.
LiveState ==
  <<alive, [e \in alive \cap Envs |-> <<parent[e], slots[e]>>],
    [f \in alive \cap Funs |-> <<closure[f], frames[f]>>],
    pool, stack, environment, held, flow>>
=============================================================================
