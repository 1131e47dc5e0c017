SPECIFICATION Spec
CONSTANTS
  Envs = {G, e1, e2, e3}
  Funs = {f1, f2}
  Globals = G
  Nil = Nil
  MaxPool = 1
  MaxFrames = 1
  MaxDepth = 2
SYMMETRY Symmetry
VIEW LiveState
INVARIANT TypeOK NothingDangles CachedIsUnused ScopeRestored
PROPERTY ClosuresKeepTheirScope
CHECK_DEADLOCK FALSE
